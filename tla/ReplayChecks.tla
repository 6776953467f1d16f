----------------------------- MODULE ReplayChecks -----------------------------
(***************************************************************************)
(* What the journal store, the replay of a bundle and the executions and   *)
(* positions stores promise, evaluated over small journals, bundles and    *)
(* histories before the run whose module extends this one.  Recovery is the walk of recovery.rs   *)
(* over rows whose payload says what the command derives: an event that    *)
(* differs from it is a corruption.                                        *)
(***************************************************************************)
EXTENDS ScenarioReplay

(* Constants of the configuration. *)

ChecksVersions == [fauxchange |-> {<<1, 2>>}, optionstratlib |-> {<<0, 1>>},
                   envelope_schema |-> Schema]
ChecksFingerprint(config) == <<"fingerprint", config>>
ChecksProvable(config) == config # "unprovable"

ChecksRecover(rows, config) ==
  LET commands == SelectSeq(rows, LAMBDA row : row.kind = "command")
      Derived(i) == [kind |-> "Added", fills |-> commands[i].payload]
      Agrees(i) == \A j \in DOMAIN rows :
                     rows[j].kind = "event" /\ rows[j].seq = commands[i].seq
                       => rows[j].payload = commands[i].payload
  IN  IF \A i \in DOMAIN commands : Agrees(i)
      THEN [ok |-> TRUE, error |-> "", events |-> [i \in DOMAIN commands |-> Derived(i)]]
      ELSE [ok |-> FALSE, error |-> "Corruption", events |-> <<>>]

-----------------------------------------------------------------------------
(* Sizes. *)

(* Every string of the envelope's commands and outcomes (envelope.rs).     *)
EnvelopeCommand ==
  [AddOrder            |-> {"symbol", "order_id", "account", "client_order_id"},
   CancelOrder         |-> {"symbol", "order_id", "account"},
   Replace             |-> {"symbol", "order_id", "new_order_id", "account",
                            "client_order_id", "orig_client_order_id"},
   MassCancel          |-> {"symbol", "account"},
   SetInstrumentStatus |-> {"symbol"},
   EvictExpiredOrders  |-> {},
   MarketMakerControl  |-> {},
   Clock               |-> {},
   SimStep             |-> {"underlying"}]

EnvelopeOutcome ==
  [Added |-> {}, Rejected |-> {"reason"}, Replace |-> {"reason"}, Cancelled |-> {"order_id"},
   InstrumentStatusChanged |-> {"symbol"}, Duplicate |-> {"original_order_id"}]

CheckedLayers ==
  {[kind |-> kind, fields |-> [f \in EnvelopeOutcome[kind] |-> n], fills |-> fills,
    legs |-> <<>>, evicted |-> <<>>] :
      kind \in DOMAIN EnvelopeOutcome, n \in {0, 2},
      fills \in {<<>>, <<[execution_id |-> 1, order_id |-> 1, account |-> 1]>>}}

CheckedRecords ==
  {[kind |-> "event", schema |-> 1,
    command |-> [kind |-> k, fields |-> [f \in EnvelopeCommand[k] |-> n]],
    outcome |-> os] :
      k \in DOMAIN EnvelopeCommand, n \in {1},
      os \in {<<o>> : o \in CheckedLayers} \cup {<<o, p>> : o, p \in CheckedLayers}}

(* The longest serialisation: all strings at their widest, and at most the *)
(* fixed bytes for the record and for each element.                        *)
LongestSerialisation(r) ==
  LET c == r.command.fields
      All(s) == LengthOf(s, DOMAIN s)
      Layer(o) == All(o.fields) + LengthOfAll(o.fills, FillFields)
  IN  BaseBytes + PerElementBytes * Elements(r.outcome)
        + EscapeFactor * (r.schema + All(c)
             + Layer(r.outcome[1]) + (IF Len(r.outcome) = 2 THEN Layer(r.outcome[2]) ELSE 0))

(* A record that is admitted by its estimate, without being serialised,    *)
(* is never longer than the ceiling: the estimate counts every string of   *)
(* the envelope, those of a nested duplicate too.                          *)
ASSUME EstimateNeverAdmitsTooMuch ==
  \A r \in CheckedRecords : RecordFits(r, MaxRecordBytes + 1) =>
                              LongestSerialisation(r) <= MaxRecordBytes

(* The records that fit and those that do not are both among them.         *)
ASSUME EstimatesOnBothSides ==
  /\ \E r \in CheckedRecords : Estimate(r) <= MaxRecordBytes
  /\ \E r \in CheckedRecords : Estimate(r) > MaxRecordBytes

-----------------------------------------------------------------------------
(* Streams of rows. *)

CheckedRow(seq, kind, bytes, payload) ==
  [seq |-> seq, kind |-> kind, bytes |-> bytes, payload |-> payload]

CheckedRows == {CheckedRow(seq, kind, bytes, p) :
                  seq \in 0..1, kind \in {"command", "event"},
                  bytes \in {1, MaxRecordBytes, MaxRecordBytes + 1}, p \in 1..2}

Written(h) ==
  LET W[i \in 0..Len(h)] == IF i = 0 THEN <<>> ELSE Appended(W[i - 1], h[i])
  IN  W[Len(h)]

(* A read is complete or refused: a stream that grows between the two      *)
(* queries is never cut short.  No record that was appended is too long to *)
(* be read, and a sequence and kind holds one record, the first.           *)
ASSUME ReadsAreComplete ==
  \A h \in [1..4 -> {r \in CheckedRows : r.bytes # 1 \/ r.payload = 1}] :
    LET before == Written(SubSeq(h, 1, 2))
        later == Written(h)
        read == ReadFrom(before, later, 0)
    IN  /\ read.ok => read = ReadInMemory(later, 0)
        /\ read.limit # "record_bytes"
        /\ \A i, j \in DOMAIN later :
             later[i].seq = later[j].seq /\ later[i].kind = later[j].kind => i = j
        /\ \A n \in LastSequence(later) : \E i \in DOMAIN later : later[i].seq = n

(* A stream keeps the lineage it was opened with: an open under another    *)
(* one is refused and writes nothing, and a recovery finds the first.      *)
ASSUME LineageIsKept ==
  \A a, b \in {NewHeader("run1"), NewHeader("run2"), [schema |-> "venue.v2", lineage |-> "run1"]} :
    LET first == OpenToWrite(<<>>, "BTC", a)
        second == OpenToWrite(first.headers, "BTC", b)
    IN  /\ first.ok
        /\ second.ok <=> a = b
        /\ OpenToRecover(second.headers, "BTC") = {a}
        /\ OpenToRecover(second.headers, "ETH") = {}

-----------------------------------------------------------------------------
(* Bundles. *)

CheckedVersions == {{}} \cup {{<<major, minor>>} : major \in 0..2, minor \in 0..3}

(* Compatibility follows the releases: what a binary replays, every later  *)
(* minor of its major replays as well, nothing replays a later release,    *)
(* and a version that does not parse is never admitted.                    *)
ASSUME CompatibilityIsDirected ==
  \A run, rec \in CheckedVersions :
    /\ Compatible(run, rec) => run # {} /\ rec # {}
    /\ run # {} => Compatible(run, run)
    /\ Compatible(run, rec) /\ Compatible(rec, run) => run = rec
    /\ \A later \in CheckedVersions :
         Compatible(later, run) /\ Compatible(run, rec) => Compatible(later, rec)

(* A bundle that is admitted without a warning is one of this very binary. *)
ASSUME MismatchIsReported ==
  \A f \in CheckedVersions, o \in {{}, {<<0, 1>>}}, s \in {Schema, "venue.v2"} :
    LET v == [fauxchange |-> f, optionstratlib |-> o, envelope_schema |-> s]
    IN  /\ FirstMismatch(v) = {} <=> v = CurrentVersions
        /\ FirstIncompatibility(v) # {} => FirstMismatch(v) # {}

CheckedLegs(u, n) ==
  <<[id |-> <<u, n>>, liquidity |-> "taker", account |-> "alice", underlying |-> u, symbol |-> u,
     side |-> "buy", qty |-> 2, price |-> n, fee |-> 0, seq |-> n]>>

CheckedStream(u, records) == [underlying |-> u, records |-> records]

CheckedStreams(u) ==
  {CheckedStream(u, records) : records \in
     {<<>>,
      <<CheckedRow(0, "command", 1, CheckedLegs(u, 1))>>,
      <<CheckedRow(0, "command", 1, CheckedLegs(u, 1)), CheckedRow(0, "event", 1, CheckedLegs(u, 1)),
        CheckedRow(1, "command", 1, CheckedLegs(u, 2))>>,
      <<CheckedRow(0, "command", 1, CheckedLegs(u, 1)), CheckedRow(0, "event", 1, <<>>)>>,
      <<CheckedRow(0, "command", 1, CheckedLegs(u, 1)), CheckedRow(0, "command", 1, <<>>)>>,
      <<CheckedRow(0, "command", MaxRecordBytes + 1, <<>>)>>}}

ChecksRank(u) == IF u = "BTC" THEN 1 ELSE 2

(* The report does not depend on the order in which a bundle lists its     *)
(* streams, its log is grouped by underlying, and one bad stream refuses   *)
(* the whole bundle.                                                       *)
ASSUME ReplayIsDetermined ==
  \A s \in CheckedStreams("BTC"), t \in CheckedStreams("ETH") :
    LET report == ReplayStreams(<<s, t>>, "config")
        Good(x) == ReplayStreams(<<x>>, "config").ok
    IN  /\ ReplayStreams(<<t, s>>, "config") = report
        /\ report.ok <=> Good(s) /\ Good(t)
        /\ report.ok => LET all == List(report.venue.log, "alice", {}, {})
                        IN  all = List(report.venue.log, "alice", {"BTC"}, {})
                                    \o List(report.venue.log, "alice", {"ETH"}, {})
        /\ ~report.ok => report.error \in {"JournalCorruption", "BundleDecode", "ResourceLimit"}

(* No bundle reaches recovery under another configuration than the one it  *)
(* was recorded with, or under one that its own proof rejects.             *)
ASSUME BundlesAreGated ==
  \A config \in {"config", "other", "unprovable"}, schema \in {BundleSchema, "bundle.v0"},
     f \in CheckedVersions :
    LET bundle == [schema |-> schema, microstructure |-> config, streams |-> <<>>,
                   manifest |-> [versions |-> [CurrentVersions EXCEPT !.fauxchange = f],
                                 fingerprint |-> Fingerprint("config")]]
    IN  ReplayBundle(bundle).ok <=>
          /\ config = "config" /\ schema = BundleSchema
          /\ Compatible(CurrentVersions.fauxchange, f)

(* A snapshot of another run, schema or configuration is not restored.     *)
ASSUME SnapshotsAreGated ==
  \A m \in [schema : {Schema, "venue.v2"}, lineage : {"run1", "run2"}, fingerprint : {"a", "b"}] :
    ValidateAgainst(m, "run1", "a") <=> m = [schema |-> Schema, lineage |-> "run1",
                                             fingerprint |-> "a"]
-----------------------------------------------------------------------------
(* The two projections of the executions, over every history of at most     *)
(* MaxLegs legs (or MaxMatches matches) with the small quantities, prices   *)
(* and fees below.                                                          *)

MaxLegs == 4
MaxMatches == 2

Leg(id, liquidity, account, u, side, qty, price, fee, seq) ==
  [id |-> id, liquidity |-> liquidity, account |-> account, underlying |-> u, symbol |-> u,
   side |-> side, qty |-> qty, price |-> price, fee |-> fee, seq |-> seq]

(* Legs of one account and contract. *)
OwnLegs ==
  {Leg(0, "taker", "alice", "BTC", side, qty, price, 1, 0) :
     side \in {"buy", "sell"}, qty \in 1..2, price \in {1, 3}}

Histories == UNION {[1..n -> OwnLegs] : n \in 1..MaxLegs}

(* The fold after each leg of `h`.                                         *)
FoldsOf(h) ==
  LET Step(r, leg) == IF r.ok THEN Fold(r.fold, leg) ELSE r
      F[i \in 0..Len(h)] == IF i = 0 THEN Done(NewFold("BTC")) ELSE Step(F[i - 1], h[i])
  IN  F

(* The legs that opened what is open after leg `n`: those since the        *)
(* position was last flat or last crossed zero.                            *)
OpenedBy(F, h, n) ==
  {i \in 1..n : \A j \in i..n :
     /\ F[j].fold.net # 0
     /\ F[j].fold.net > 0 <=> h[i].side = "buy"
     /\ F[j].fold.net > 0 <=> F[n].fold.net > 0}

(* However often a position is added to, reduced, closed and reopened, the *)
(* average price that positions report stays between the lowest and the    *)
(* highest price that opened it, and its basis never changes side: the     *)
(* truncated division of a reduction (stores.rs, PositionState::fold) does *)
(* not let the cost drift.                                                 *)
ASSUME AverageStaysBetweenPrices ==
  \A h \in Histories :
    LET F == FoldsOf(h)
        n == Len(h)
        prices == {h[i].price : i \in OpenedBy(F, h, n)}
        fold == F[n].fold
    IN  F[n].ok =>
          /\ fold.net = 0 => fold.basis = 0
          /\ fold.net # 0 => /\ fold.net > 0 <=> fold.basis > 0
                             /\ \E p \in prices : AvgPrice(fold) >= p
                             /\ \E p \in prices : Abs(fold.basis) <= p * Abs(fold.net)

(* A fold that overflows is the same as before the leg, or has only the    *)
(* fees, the cash and one of the other two amounts of the leg: never a net *)
(* quantity beyond its width.                                              *)
ASSUME OverflowStopsMidway ==
  \A h \in Histories :
    LET F == FoldsOf(h)
    IN  \A i \in 1..Len(h) : ~F[i].ok /\ F[i - 1].ok =>
          /\ Fits64(F[i].fold.net) /\ Fits128(F[i].fold.basis)
          /\ Fits128(F[i].fold.cash) /\ Fits128(F[i].fold.fees)
          /\ F[i].fold.net = F[i - 1].fold.net \/ F[i].fold.basis = F[i - 1].fold.basis

-----------------------------------------------------------------------------
(* Matches between two accounts, on two underlyings. *)

MatchOf(m) ==
  LET taker == Leg(m.id, "taker", m.taker, m.u, m.side, m.qty, m.price, 1, m.id)
      maker == Leg(m.id, "maker", m.maker, m.u, IF m.side = "buy" THEN "sell" ELSE "buy",
                   m.qty, m.price, -1, m.id)
  IN  [kind |-> "Added", fills |-> <<taker, maker>>]

Matches ==
  [id : 1..2, taker : {"alice"}, maker : {"alice", "bob"}, u : {"BTC", "ETH"},
   side : {"buy", "sell"}, qty : {2, 4}, price : {3}]

Tapes == UNION {[1..n -> Matches] : n \in 0..MaxMatches}

VenueAfter(tape) ==
  LET V[i \in 0..Len(tape)] ==
        IF i = 0 THEN EmptyVenue ELSE Emit(V[i - 1], MatchOf(tape[i]))
  IN  V[Len(tape)]

SumOver(S, f(_)) ==
  LET T[n \in 0..Cardinality(S)] ==
        IF n = 0 THEN {<<S, 0>>}
        ELSE LET r == CHOOSE r \in T[n - 1] : TRUE
                 x == CHOOSE x \in r[1] : TRUE
             IN  {<<r[1] \ {x}, r[2] + f(x)>>}
  IN  (CHOOSE r \in T[Cardinality(S)] : TRUE)[2]

(* While the fan-out is not sealed, what the positions hold is zero-sum in *)
(* contracts and in cash, and every account's fold is the fold of its own  *)
(* log: the two projections never disagree without saying so.  When it is  *)
(* sealed, the log is one leg ahead of the positions.  Two matches under   *)
(* one execution id (a double emit) are left out: the log replaces, the    *)
(* fold adds.                                                              *)
ASSUME ProjectionsAgree ==
  \A tape \in Tapes :
    LET V == VenueAfter(tape)
        fresh == \A i, j \in DOMAIN tape : i # j => tape[i].id # tape[j].id
        LegsOf(k) == SelectSeq(List(V.log, k[1], {k[2]}, {}), LAMBDA leg : leg.symbol = k[2])
        Replayed(k) == LET s == LegsOf(k)
                           R[i \in 0..Len(s)] == IF i = 0 THEN NewFold(k[2])
                                                 ELSE Fold(R[i - 1], s[i]).fold
                       IN  R[Len(s)]
    IN  fresh =>
          /\ ~V.sealed =>
               /\ SumOver(DOMAIN V.positions, LAMBDA k : V.positions[k].net) = 0
               /\ SumOver(DOMAIN V.positions, LAMBDA k : V.positions[k].cash) = 0
               /\ \A k \in DOMAIN V.positions : V.positions[k] = Replayed(k)
               /\ Len(V.prints) = Len(tape)
          /\ V.sealed => V.log.next > Len(V.prints) * 2

(* A leg that is recorded again shows its last record in its first place. *)
ASSUME RerecordKeepsPlace ==
  \A qty \in 1..3 :
    LET First(n) == Leg(1, "taker", "alice", "BTC", "buy", n, 1, 0, 1)
        second == Leg(2, "taker", "alice", "ETH", "buy", 1, 1, 0, 1)
        log == DurableRecord(Record(Record(EmptyLog, First(1)), second), First(qty))
    IN  List(log, "alice", {}, {}) = <<First(qty), second>> /\ log.next = 2

(* The durable log answers every read like the one in memory.              *)
ASSUME DurableLogAgrees ==
  \A tape \in Tapes :
    LET log == VenueAfter(tape).log
    IN  \A account \in {"alice", "bob"} :
          /\ \A id \in 1..2 : DurableGet(log, id, account) = Get(log, id, account)
          /\ \A u \in {{}, {"BTC"}}, limit \in {{}, {0}, {1}, {9}} :
               DurableList(log, account, u, limit) = List(log, account, u, limit)

(* Restoring one underlying from a cut taken earlier brings back exactly   *)
(* its legs and folds of then, leaves the other underlying's as they are   *)
(* now, and never hands out an insertion number twice: what is recorded    *)
(* next is listed last.                                                    *)
ASSUME RestoreIsScoped ==
  \A tape \in {t \in Tapes : Len(t) = 2 /\ t[1].id # t[2].id} :
    LET early == VenueAfter(SubSeq(tape, 1, 1))
        late == VenueAfter(tape)
        legs == RestoreLegs(late.log, "BTC", CaptureLegs(early.log, "BTC"))
        folds == RestoreFolds(late.positions, "BTC", CaptureFolds(early.positions, "BTC"))
        new == Leg(3, "taker", "alice", "BTC", "buy", 1, 1, 0, 3)
        after == List(Record(legs, new), "alice", {}, {})
    IN  /\ ValidLegs(CaptureLegs(early.log, "BTC"), "BTC")
        /\ CaptureLegs(legs, "BTC") = CaptureLegs(early.log, "BTC")
        /\ CaptureLegs(legs, "ETH") = CaptureLegs(late.log, "ETH")
        /\ ValidFolds(CaptureFolds(early.positions, "BTC"), "BTC")
        /\ CaptureFolds(folds, "BTC") = CaptureFolds(early.positions, "BTC")
        /\ CaptureFolds(folds, "ETH") = CaptureFolds(late.positions, "ETH")
        /\ after[Len(after)] = new
        /\ RestoreLegs(late.log, "BTC", CaptureLegs(late.log, "ETH"))
             = [legs |-> RestoreLegs(late.log, "BTC", {}).legs, next |-> late.log.next]

(* A position read of a fold in range never fails for the average price,   *)
(* and at the mark of its own average an untouched position shows no       *)
(* unrealized gain of a cent per contract or more.                         *)
ASSUME ReadsAreSound ==
  \A h \in Histories :
    LET fold == FoldsOf(h)[Len(h)].fold
    IN  FoldsOf(h)[Len(h)].ok /\ fold.net # 0 =>
          /\ AvgPrice(fold) <= 2 * MaxI64 + 1
          /\ \A n \in Unrealized(fold, {AvgPrice(fold)}) : Abs(n) < Abs(fold.net)
          /\ Projects(fold, {}) <=> Fits64(Realized(fold))

(* Leaving out the leg whose fee is i64::MIN, fee and edge cancel.         *)
ASSUME EdgeIsFeeNegated ==
  \A fee \in -MaxI64..MaxI64 :
    NetOfFeeEdge(Leg(0, "maker", "alice", "BTC", "buy", 1, 1, fee, 0)) + fee = 0
=============================================================================
