------------------------ MODULE MicrostructureChecks ------------------------
(***************************************************************************)
(* What the microstructure promises, evaluated over every configuration    *)
(* that can be made of the small knobs below.                              *)
(***************************************************************************)
EXTENDS Microstructure

(* One underlying, two of its symbols, and a key that is neither.          *)
ChecksUnderlyings(key) == IF key \in {"BTC-C", "BTC-P"} THEN {"BTC"} ELSE {}
ChecksKeyRank(key) == CASE key = "BTC" -> 1 [] key = "BTC-C" -> 2
                        [] key = "BTC-P" -> 3 [] OTHER -> 4
ChecksBaseline ==
  [tick_size_cents |-> 1, lot_size |-> 1, min_price_cents |-> 1,
   max_price_cents |-> 3, max_order_qty |-> 2]

Symbols == {"BTC-C", "BTC-P"}

(* Sections that set some of the knobs, out-of-range values among them.    *)
KnobValues ==
  [tick_size_cents |-> {2}, lot_size |-> {0}, min_price_cents |-> {2},
   max_price_cents |-> {1, 7, 8}, max_order_qty |-> {1, 7}]
SectionsOf(knobs) == {f \in [knobs -> UNION {KnobValues[k] : k \in knobs}] :
                        \A k \in knobs : f[k] \in KnobValues[k]}
Sections == UNION {SectionsOf(knobs) : knobs \in {{}} \cup {{k} : k \in SpecKnobs}
                     \cup {{"max_price_cents", "max_order_qty"}, {"tick_size_cents", "min_price_cents"}}}

FeeChoices == {[maker_bps |-> m, taker_bps |-> t] : m \in {-12, 0, 20}, t \in {-1, 0, 25}}

Overrides == {<<>>} \cup [{"BTC"} -> Sections] \cup [{"BTC-C"} -> Sections]
             \cup [{"BTC", "BTC-C"} -> Sections]

FileWith(fees, specs) == [fees |-> fees, stp |-> "off", specs |-> specs, latency |-> Disabled]

(* Every configuration the boot accepts, of those.                         *)
Accepted ==
  {Resolved(FileWith(fees, specs), sections) :
     <<fees, specs, sections>> \in
       {x \in FeeChoices \X SectionsOf({"max_price_cents"}) \X Overrides :
          ResolveError(FileWith(x[1], x[2]), x[3]) = {}}}

(* No order that is admitted, at any price and size, can meet a fee that   *)
(* the upstream schedule cannot compute or the store cannot keep: the      *)
(* proof at start-up (fees.rs, validate_notional_bound) covers the specs   *)
(* of every symbol, not the venue's default alone.                         *)
ASSUME FeesAreExact ==
  \A c \in Accepted, symbol \in Symbols, price \in 0..MaxU64, quantity \in 0..MaxU64 :
    CheckOrderAdmission(c, [kind |-> "AddOrder", symbol |-> symbol,
                            limit |-> {price}, quantity |-> quantity]) = {} =>
      \A bps \in {c.fees.maker_bps, c.fees.taker_bps} :
        \E fee \in CalculateFee(bps, price * quantity) : Abs128(fee) <= MaxI64

(* The second half of the proof implies the first (fees.rs says so): what  *)
(* fits the store is within the guaranteed bound.                          *)
ASSUME PersistableIsExact ==
  \A fees \in FeeChoices, notional \in 0..(MaxU64 * MaxU64) :
    (notional * MaxAbsBps(fees)) \div BpsDenominator <= MaxI64 =>
      NotionalBoundError(fees, notional) = {}

(* A knob of a symbol is the symbol's own where it sets one, else its      *)
(* underlying's, else the venue's, else the baseline's, each knob by       *)
(* itself (config.rs, resolve and specs_for_symbol).                       *)
ASSUME KnobsAreInherited ==
  \A specs \in Sections, sections \in Overrides, symbol \in Symbols, k \in SpecKnobs :
    LET file == FileWith(DefaultFees, specs)
        layers == <<IF symbol \in DOMAIN sections THEN sections[symbol] ELSE <<>>,
                    IF "BTC" \in DOMAIN sections THEN sections["BTC"] ELSE <<>>,
                    specs, Baseline>>
        first == CHOOSE i \in 1..4 : k \in DOMAIN layers[i]
                                     /\ \A j \in 1..(i - 1) : k \notin DOMAIN layers[j]
    IN  ResolveError(file, sections) = {} =>
          SpecsForSymbol(Resolved(file, sections), symbol)[k] = layers[first][k]

(* A replay accepts the configurations the boot accepts and no others: the *)
(* proof that runs on a bundle (config.rs, validate) is the boot's.        *)
ASSUME ReplayAcceptsWhatBootDid ==
  \A fees \in FeeChoices, specs \in Sections, sections \in Overrides :
    LET file == FileWith(fees, specs)
    IN  ResolveError(file, sections) = ConfigError(Resolved(file, sections))

(* Two configurations have the same fingerprint only if they are the same: *)
(* whatever is inherited, overridden or left out is visible in it          *)
(* (config.rs, fingerprint).                                               *)
ASSUME FingerprintTellsApart ==
  Cardinality({Fingerprint(c) : c \in Accepted}) = Cardinality(Accepted)

(* The internal producers' check is the band of the full one: whatever it  *)
(* drops the admission would refuse, and a price step is judged the same   *)
(* by both.                                                                *)
ASSUME ProducersShareTheBand ==
  \A c \in Accepted, kind \in {"AddOrder", "Replace"}, symbol \in Symbols, price \in 0..MaxI64,
     quantity \in {1, 3} :
    LET order == [kind |-> kind, symbol |-> symbol, limit |-> {price}, quantity |-> quantity]
        step == [kind |-> "SimStep", underlying |-> "BTC", price |-> price]
    IN  /\ CheckPriceBand(c, order) # {} => CheckOrderAdmission(c, order) = CheckPriceBand(c, order)
        /\ CheckPriceBand(c, step) = CheckOrderAdmission(c, step)

(* Specs that were read back unchecked may hold a zero: the admission      *)
(* still answers, and without a tick or a lot nothing is off it.           *)
ASSUME AdmissionIsTotal ==
  \A knobs \in SUBSET SpecKnobs, price, quantity \in 0..3 :
    LET specs == [k \in SpecKnobs |-> IF k \in knobs THEN 0 ELSE 2]
        error == AdmitOrder(specs, {price}, quantity)
    IN  /\ Cardinality(error) <= 1
        /\ "tick_size_cents" \in knobs => "OffTick" \notin error
        /\ "lot_size" \in knobs => "OffLot" \notin error

-----------------------------------------------------------------------------
(* Latency sections, complete or not, with delays and shapes of any sign.  *)
Delays == {-1, 0, 3, MaxU64}
Shapes == {[finite |-> f, value |-> v] : f \in BOOLEAN, v \in {-1, 0, 4, 5, 21}}
LatencyFiles ==
  [model : DOMAIN LatencyDelays,
   delays : UNION {[ps -> Delays] : ps \in SUBSET {"us", "min_us", "max_us"}
                                            \cup {{"mean_us"}, {"median_us"}}},
   sigma : {{}} \cup {{s} : s \in Shapes}]
Latencies == {ResolvedLatency(f) : f \in {f \in LatencyFiles : LatencyResolveError(f) = {}}}

Samples == {[finite |-> f, value |-> v] : f \in BOOLEAN, v \in {-2, 0, MaxU64, MaxU64 + 1}}

(* Every delay that is drawn is a delay the clock can hold, a uniform one  *)
(* is inside its band, both ends included (latency.rs, draw).              *)
ASSUME DrawsStayInBand ==
  \A l \in Latencies :
    /\ \A r \in 0..MaxU64, sample \in Samples : Draw(l, r, sample) \in 0..MaxU64
    /\ l.model = "uniform" =>
         {Draw(l, r, [finite |-> TRUE, value |-> 0]) : r \in 0..MaxU64}
           = l.delays.min_us..l.delays.max_us

(* A distribution that was read back is refused by a replay for the reason *)
(* the file would have been refused for.                                   *)
ASSUME ReplayChecksLatency ==
  \A f \in LatencyFiles :
    (/\ LatencyDelays[f.model] \subseteq DOMAIN f.delays
     /\ \A p \in DOMAIN f.delays : f.delays[p] >= 0
     /\ f.sigma # {})
    => ConfigError([DefaultConfig EXCEPT !.latency = ResolvedLatency(f)]) = LatencyResolveError(f)

(* Every reason a section can be refused for is met by some file, except   *)
(* the two that the checks before them imply; nothing else is answered.    *)
ASSUME RefusalsAreTheDocumentedOnes ==
  /\ UNION {ResolveError(FileWith(x[1], x[2]), x[3]) :
             x \in FeeChoices \X Sections \X Overrides}
       = MicrostructureConfigErrors \ {"ProofArithmeticOverflow", "ContractSpecsRejected"}
  /\ UNION {LatencyResolveError(f) : f \in LatencyFiles} = LatencyConfigErrors
  /\ UNION {AdmitOrder([ChecksBaseline EXCEPT !.tick_size_cents = 2, !.lot_size = 2,
                                              !.min_price_cents = 2, !.max_price_cents = 5,
                                              !.max_order_qty = 3], {p}, q) :
              p \in 1..6, q \in 1..4} = OrderAdmissionErrors

(* A delay never moves a message before the instant it was read, and a     *)
(* later read with the same delay never arrives earlier; past the end of   *)
(* the clock every message arrives at its last instant.                    *)
ASSUME ArrivalsKeepOrder ==
  \A now, later \in 0..MaxU64, offset \in 0..MaxU64 :
    /\ now <= later => DelayedArrival(now, offset) <= DelayedArrival(later, offset)
    /\ DelayedArrival(now, offset) >= Smaller(now * MicrosPerMilli, MaxU64)

(* A change of the distribution shows in the fingerprint, except one of    *)
(* sigma beyond the decimals that are printed.                             *)
ASSUME LatencyShowsInFingerprint ==
  \A l, m \in Latencies :
    LET With(x) == [DefaultConfig EXCEPT !.latency = x]
    IN  Fingerprint(With(l)) = Fingerprint(With(m)) =>
          /\ l.model = m.model /\ l.delays = m.delays
          /\ \A s \in l.sigma : \E t \in m.sigma : Abs128(s.value - t.value) < SigmaUnit
=============================================================================
