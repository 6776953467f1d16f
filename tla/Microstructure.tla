--------------------------- MODULE Microstructure ---------------------------
(***************************************************************************)
(* The venue's microstructure (src/microstructure): contract specs and how *)
(* they are inherited, the fee schedule and the proof at start-up that its *)
(* arithmetic is exact, latency, the fingerprint of a configuration, and   *)
(* the admission of an order.                                              *)
(*                                                                         *)
(* A specs section is a function from the knobs it sets, resolved specs a  *)
(* function from all of them.  An error is a set, {} when there is none.   *)
(* Whether a key is a full option symbol, and of which underlying, is the  *)
(* operator UnderlyingsOf: {} or the set of the one underlying.            *)
(***************************************************************************)
EXTENDS Integers, Sequences, FiniteSets, Validation

CONSTANTS
  MaxI64, MaxU64, MaxU128,     \* the widths of the integers
  BpsDenominator,
  Baseline,                    \* ResolvedContractSpecs::baseline()
  UnderlyingsOf(_),            \* SymbolParser::parse
  KeyRank(_),                  \* the place of a key in the order of the names
  DefaultFingerprint,
  SigmaUnit                    \* the parts of a unit of sigma the fingerprint shows

ASSUME WidthsAssumption ==
  /\ {MaxI64, MaxU64, MaxU128} \subseteq Nat /\ MaxI64 < MaxU64
  /\ MaxU64 * MaxU64 <= MaxU128
  /\ (MaxI64 + 1) * BpsDenominator <= MaxU128
  /\ BpsDenominator \in Nat \ {0} /\ SigmaUnit \in Nat \ {0}

(* The keys of a map, in order.                                            *)
KeysInOrder(map) ==
  [n \in 1..Cardinality(DOMAIN map) |->
     CHOOSE k \in DOMAIN map : Cardinality({l \in DOMAIN map : KeyRank(l) < KeyRank(k)}) = n - 1]

-----------------------------------------------------------------------------
(* Contract specs. *)

(* The reasons a section is refused at start-up.  Two of the code's are    *)
(* never met: the width of the proof and the library's own refusal of the  *)
(* specs are implied by the checks before them.                            *)
MicrostructureConfigErrors ==
  {"TakerFeeNegative", "SpecKnobZero", "MaxPriceBelowMin", "SpecKnobAboveDbDomain",
   "FeeBoundUnprovable", "FeePersistOverflow", "ProofArithmeticOverflow", "ContractSpecsRejected"}

LatencyConfigErrors ==
  {"MissingParam", "NegativeMicros", "SigmaNotFinite", "SigmaNegative", "MinExceedsMax"}

SpecKnobs == {"tick_size_cents", "lot_size", "min_price_cents", "max_price_cents", "max_order_qty"}

ResolveOver(section, default) ==
  [k \in SpecKnobs |-> IF k \in DOMAIN section THEN section[k] ELSE default[k]]

SpecsError(s) ==
  FirstError(<<
    When(\E k \in SpecKnobs \ {"max_price_cents"} : s[k] = 0, "SpecKnobZero"),
    When(\E k \in {"max_price_cents", "max_order_qty"} : s[k] > MaxI64, "SpecKnobAboveDbDomain"),
    When(s.max_price_cents < s.min_price_cents, "MaxPriceBelowMin")>>)

MaxNotional(s) == s.max_price_cents * s.max_order_qty

(* What the upstream book is given: the band is the venue's own.           *)
ToContractSpecs(s) ==
  [tick_size |-> s.tick_size_cents, lot_size |-> s.lot_size,
   min_order_size |-> 1, max_order_size |-> s.max_order_qty]

-----------------------------------------------------------------------------
(* Fees. *)

Abs128(n) == IF n < 0 THEN -n ELSE n
Larger(a, b) == IF a < b THEN b ELSE a
Smaller(a, b) == IF a < b THEN a ELSE b

MaxAbsBps(fees) == Larger(Abs128(fees.maker_bps), Abs128(fees.taker_bps))

FeesError(fees) == When(fees.taker_bps < 0, "TakerFeeNegative")

(* The schedule of the matching library: an exact fee truncated towards    *)
(* zero, an error once the product leaves its width, and the notional up   *)
(* to which it promises there is none.                                     *)
CalculateFee(bps, notional) ==
  LET product == notional * Abs128(bps)
  IN  IF product > MaxU128 THEN {}
      ELSE {IF bps < 0 THEN -(product \div BpsDenominator) ELSE product \div BpsDenominator}

SafeNotional(bps) == IF bps = 0 THEN MaxU128 ELSE MaxU128 \div Abs128(bps)
MaxGuaranteedExactNotional(fees) ==
  Smaller(SafeNotional(fees.maker_bps), SafeNotional(fees.taker_bps))

(* The proof at start-up, for the widest notional of some specs.           *)
NotionalBoundError(fees, notional) ==
  LET product == notional * MaxAbsBps(fees)
  IN  FirstError(<<
        When(notional > MaxGuaranteedExactNotional(fees), "FeeBoundUnprovable"),
        When(product > MaxU128, "ProofArithmeticOverflow"),
        When(product \div BpsDenominator > MaxI64, "FeePersistOverflow")>>)

SpecsAndFeesError(fees, specs) ==
  FirstError(<<SpecsError(specs), NotionalBoundError(fees, MaxNotional(specs))>>)

-----------------------------------------------------------------------------
(* Latency.  A section is [model, delays, sigma]: the delays it sets, and  *)
(* {} or the set of its one shape, which is [finite, value].               *)

Disabled == [model |-> "disabled", delays |-> <<>>, sigma |-> {}]

Missing(f, param) == When(param \notin DOMAIN f.delays, "MissingParam")
Negative(f, param) ==
  When(param \in DOMAIN f.delays /\ f.delays[param] < 0, "NegativeMicros")
NoSigma(f) == When(f.sigma = {}, "MissingParam")
SigmaError(f) ==
  FirstError(<<When(\E s \in f.sigma : ~s.finite, "SigmaNotFinite"),
               When(\E s \in f.sigma : s.value < 0, "SigmaNegative")>>)
BandError(f) ==
  When({"min_us", "max_us"} \subseteq DOMAIN f.delays /\ f.delays.min_us > f.delays.max_us,
       "MinExceedsMax")

(* Resolving a section: what its model needs must be there and make sense. *)
LatencyResolveError(f) ==
  CASE f.model = "disabled" -> {}
    [] f.model = "fixed" -> FirstError(<<Missing(f, "us"), Negative(f, "us")>>)
    [] f.model = "uniform" ->
         FirstError(<<Missing(f, "min_us"), Missing(f, "max_us"),
                      Negative(f, "min_us"), Negative(f, "max_us"), BandError(f)>>)
    [] f.model = "normal" ->
         FirstError(<<Missing(f, "mean_us"), Negative(f, "mean_us"),
                      NoSigma(f), SigmaError(f)>>)
    [] f.model = "lognormal" ->
         FirstError(<<Missing(f, "median_us"), Negative(f, "median_us"),
                      NoSigma(f), SigmaError(f)>>)

LatencyDelays ==
  [disabled |-> {}, fixed |-> {"us"}, uniform |-> {"min_us", "max_us"},
   normal |-> {"mean_us"}, lognormal |-> {"median_us"}]

ResolvedLatency(f) ==
  [model |-> f.model, delays |-> [p \in LatencyDelays[f.model] |-> f.delays[p]],
   sigma |-> IF f.model \in {"normal", "lognormal"} THEN f.sigma ELSE {}]

(* The same conditions on a distribution that was read back, whose delays  *)
(* have an unsigned type.                                                  *)
LatencyError(l) ==
  IF l.model = "uniform" THEN BandError(l)
  ELSE IF l.model \in {"normal", "lognormal"} THEN SigmaError(l)
  ELSE {}

(* A draw in the inclusive band; `r` is the random word.                   *)
DrawUniform(r, min, max) ==
  IF min >= max THEN min
  ELSE IF max - min = MaxU64 THEN r
  ELSE min + (r % (max - min + 1))

(* A sample of the other two, [finite, value], as microseconds.            *)
MicrosFrom(sample) ==
  IF ~sample.finite THEN MaxU64 ELSE Smaller(Larger(sample.value, 0), MaxU64)

Draw(l, r, sample) ==
  CASE l.model = "disabled" -> 0
    [] l.model = "fixed" -> l.delays.us
    [] l.model = "uniform" -> DrawUniform(r, l.delays.min_us, l.delays.max_us)
    [] OTHER -> MicrosFrom(sample)

(* When a message read at `now` arrives, in units of which `ms` holds      *)
(* MicrosPerMilli.                                                         *)
MicrosPerMilli == 2
DelayedArrival(now, offset) ==
  LET base == now * MicrosPerMilli
  IN  IF base > MaxU64 \/ base + offset > MaxU64 THEN MaxU64 ELSE base + offset

-----------------------------------------------------------------------------
(* The configuration. *)

StpModes == {"off", "cancel_taker", "cancel_maker", "cancel_both"}

DefaultFees == [maker_bps |-> 0, taker_bps |-> 0]
DefaultConfig ==
  [fees |-> DefaultFees, stp |-> "off", default_specs |-> Baseline,
   per_underlying |-> <<>>, per_symbol |-> <<>>, latency |-> Disabled]

IsSymbol(key) == UnderlyingsOf(key) # {}

(* Specs sections by key: a full symbol inherits from its underlying's.    *)
PerUnderlying(sections, default) ==
  [k \in {k \in DOMAIN sections : ~IsSymbol(k)} |-> ResolveOver(sections[k], default)]

PerSymbol(sections, default) ==
  LET underlyings == PerUnderlying(sections, default)
      Base(k) == LET u == CHOOSE u \in UnderlyingsOf(k) : TRUE
                 IN  IF u \in DOMAIN underlyings THEN underlyings[u] ELSE default
  IN  [k \in {k \in DOMAIN sections : IsSymbol(k)} |-> ResolveOver(sections[k], Base(k))]

(* The errors of a map of specs, key after key.                            *)
MapError(fees, map) ==
  LET keys == KeysInOrder(map)
  IN  FirstError([i \in DOMAIN keys |-> SpecsAndFeesError(fees, map[keys[i]])])

(* The sections of a file, resolved; `sections` holds the overrides.       *)
Resolved(file, sections) ==
  LET default == ResolveOver(file.specs, Baseline)
  IN  [fees |-> file.fees, stp |-> file.stp, default_specs |-> default,
       per_underlying |-> PerUnderlying(sections, default),
       per_symbol |-> PerSymbol(sections, default),
       latency |-> ResolvedLatency(file.latency)]

ResolveError(file, sections) ==
  LET default == ResolveOver(file.specs, Baseline)
  IN  FirstError(<<
        FeesError(file.fees),
        LatencyResolveError(file.latency),
        SpecsAndFeesError(file.fees, default),
        MapError(file.fees, PerUnderlying(sections, default)),
        MapError(file.fees, PerSymbol(sections, default))>>)

(* The same proof of a configuration that was read back from a bundle.     *)
ConfigError(c) ==
  FirstError(<<
    FeesError(c.fees),
    LatencyError(c.latency),
    SpecsAndFeesError(c.fees, c.default_specs),
    MapError(c.fees, c.per_underlying),
    MapError(c.fees, c.per_symbol)>>)

(* The overrides of the two sections of a file: the dedicated one wins.    *)
MergedSections(seed, dedicated) ==
  [k \in DOMAIN seed \cup DOMAIN dedicated |->
     IF k \in DOMAIN dedicated THEN dedicated[k] ELSE seed[k]]

SpecsFor(c, u) == IF u \in DOMAIN c.per_underlying THEN c.per_underlying[u] ELSE c.default_specs

SpecsForSymbol(c, symbol) ==
  IF symbol \in DOMAIN c.per_symbol THEN c.per_symbol[symbol]
  ELSE IF IsSymbol(symbol) THEN SpecsFor(c, CHOOSE u \in UnderlyingsOf(symbol) : TRUE)
  ELSE c.default_specs

(* What is active for one underlying, or one symbol: only the specs and    *)
(* their band may differ from the venue's.                                 *)
ProfileWith(c, specs) ==
  [fees |-> c.fees, stp |-> c.stp, specs |-> specs, latency |-> c.latency]
ProfileFor(c, u) == ProfileWith(c, SpecsFor(c, u))
ProfileForSymbol(c, symbol) == ProfileWith(c, SpecsForSymbol(c, symbol))

(* The book of an underlying is given the same at boot and in a replay.    *)
ApplyToUnderlying(c, u) ==
  [fees |-> c.fees, stp |-> c.stp, specs |-> ToContractSpecs(SpecsFor(c, u))]

-----------------------------------------------------------------------------
(* The fingerprint: the text is the sequence of its fragments. *)

(* Sigma is printed to a fixed number of decimals.                         *)
FmtSigma(sigma) == (2 * sigma.value + SigmaUnit) \div (2 * SigmaUnit)

LatencyFragment(l) ==
  IF l.model = "disabled" THEN <<>>
  ELSE <<[model |-> l.model, delays |-> l.delays, sigma |-> {FmtSigma(s) : s \in l.sigma}]>>

MapFragments(map, prefix) ==
  LET keys == KeysInOrder(map)
  IN  [i \in DOMAIN keys |-> [prefix |-> prefix, key |-> keys[i], specs |-> map[keys[i]]]]

Fingerprint(c) ==
  IF c = DefaultConfig THEN <<DefaultFingerprint>>
  ELSE <<c.fees, c.stp, c.default_specs>>
         \o MapFragments(c.per_underlying, "specs")
         \o MapFragments(c.per_symbol, "specs.sym")
         \o LatencyFragment(c.latency)

-----------------------------------------------------------------------------
(* Admission.  A limit price is {} for a market order. *)

PriceBoundErrors == {"AboveMax", "BelowMin"}
OrderAdmissionErrors == PriceBoundErrors \cup {"OffTick", "OffLot", "AboveMaxQty"}

AdmitPrice(specs, price) ==
  FirstError(<<When(price < specs.min_price_cents, "BelowMin"),
               When(price > specs.max_price_cents, "AboveMax")>>)

OffTick(specs, price) == specs.tick_size_cents # 0 /\ price % specs.tick_size_cents # 0
OffLot(specs, quantity) == specs.lot_size # 0 /\ quantity % specs.lot_size # 0

AdmitOrder(specs, limit, quantity) ==
  FirstError(<<
    UNION {AdmitPrice(specs, p) : p \in limit},
    When(\E p \in limit : OffTick(specs, p), "OffTick"),
    When(OffLot(specs, quantity), "OffLot"),
    When(quantity > specs.max_order_qty, "AboveMaxQty")>>)

AdmitPriceForSymbol(c, symbol, price) == AdmitPrice(SpecsForSymbol(c, symbol), price)

AdmitOrderForSymbol(c, symbol, limit, quantity) ==
  AdmitOrder(SpecsForSymbol(c, symbol), limit, quantity)

(* What a command carries to be admitted, live and when it is replayed.  A *)
(* symbol that does not parse is left to the executor.                     *)
CheckOrderAdmission(c, command) ==
  IF command.kind \in {"AddOrder", "Replace"} /\ IsSymbol(command.symbol)
  THEN AdmitOrderForSymbol(c, command.symbol, command.limit, command.quantity)
  ELSE IF command.kind = "SimStep" THEN AdmitPrice(SpecsFor(c, command.underlying), command.price)
  ELSE {}

(* The internal producers check the band alone.                            *)
CheckPriceBand(c, command) ==
  IF command.kind \in {"AddOrder", "Replace"} /\ IsSymbol(command.symbol)
  THEN UNION {AdmitPriceForSymbol(c, command.symbol, p) : p \in command.limit}
  ELSE IF command.kind = "SimStep" THEN AdmitPrice(SpecsFor(c, command.underlying), command.price)
  ELSE {}
=============================================================================
