---------------------------- MODULE TradeStores ----------------------------
(***************************************************************************)
(* The two projections of the journal that the fan-out keeps: the          *)
(* executions log and the positions fold (exchange/stores.rs), and the     *)
(* durable executions log behind the same contract (db/executions.rs).     *)
(*                                                                         *)
(* Everything here is an operator on values: `UnderlyingActor` says when   *)
(* the projection runs and what a failure of it seals.  An executions      *)
(* store is [legs, next]: `legs` maps the key (execution id, liquidity) to *)
(* [ord, leg], `next` is the next insertion number.  A positions store     *)
(* maps (account, symbol) to a fold.  i64, i128 and u64 keep a width, given *)
(* by MaxI64 and MaxI128, so that the checked arithmetic can fail.         *)
(***************************************************************************)
EXTENDS Integers, Sequences, FiniteSets

CONSTANTS
  MaxI64,     \* i64::MAX
  MaxI128     \* i128::MAX

ASSUME WidthsAssumption ==
  /\ MaxI64 \in Nat \ {0}
  /\ MaxI128 \in Nat
  /\ MaxI64 <= MaxI128

Fits64(n) == -MaxI64 - 1 <= n /\ n <= MaxI64
Fits128(n) == -MaxI128 - 1 <= n /\ n <= MaxI128

(* Rust's division truncates toward zero; TLA+'s rounds down.              *)
Quotient(a, b) == IF a >= 0 THEN a \div b ELSE -((-a) \div b)
Abs(n) == IF n < 0 THEN -n ELSE n

-----------------------------------------------------------------------------
(* The executions log. *)

Key(leg) == <<leg.id, leg.liquidity>>
LegBelongs(leg, u) == leg.underlying = u

EmptyLog == [legs |-> <<>>, next |-> 0]

(* A leg recorded again replaces its record and keeps its place.           *)
Record(log, leg) ==
  IF Key(leg) \in DOMAIN log.legs
  THEN [log EXCEPT !.legs[Key(leg)].leg = leg]
  ELSE [legs |-> [k \in DOMAIN log.legs \cup {Key(leg)} |->
                    IF k = Key(leg) THEN [ord |-> log.next, leg |-> leg] ELSE log.legs[k]],
        next |-> log.next + 1]

(* The account's own leg of an execution: the taker's when it holds both.  *)
Get(log, id, account) ==
  LET Held(liquidity) == /\ <<id, liquidity>> \in DOMAIN log.legs
                         /\ log.legs[<<id, liquidity>>].leg.account = account
  IN  IF Held("taker") THEN {log.legs[<<id, "taker">>].leg}
      ELSE IF Held("maker") THEN {log.legs[<<id, "maker">>].leg}
      ELSE {}

(* The stored legs `S` by insertion number.                                *)
InOrder(S) ==
  LET Rank(e) == Cardinality({f \in S : f.ord < e.ord}) + 1
  IN  [i \in 1..Cardinality(S) |-> (CHOOSE e \in S : Rank(e) = i).leg]

Truncate(s, limit) == IF limit = {} THEN s
                      ELSE LET n == CHOOSE x \in limit : TRUE
                           IN  SubSeq(s, 1, IF n < Len(s) THEN n ELSE Len(s))

(* `underlying` and `limit` are options: {} or a singleton.                *)
List(log, account, underlying, limit) ==
  LET Stored == {log.legs[k] : k \in DOMAIN log.legs}
      Wanted == {e \in Stored : /\ e.leg.account = account
                                /\ \A u \in underlying : LegBelongs(e.leg, u)}
  IN  Truncate(InOrder(Wanted), limit)

(* The slice of one underlying, and its restore.  `cut` is the set of      *)
(* captured entries; a captured leg of another underlying never lands.     *)
CaptureLegs(log, u) == {e \in {log.legs[k] : k \in DOMAIN log.legs} : LegBelongs(e.leg, u)}

ValidLegs(cut, u) == \A e \in cut : LegBelongs(e.leg, u)

RestoreLegs(log, u, cut) ==
  LET own == {e \in cut : LegBelongs(e.leg, u)}
      kept == {k \in DOMAIN log.legs : ~LegBelongs(log.legs[k].leg, u)}
      ords == {e.ord : e \in own} \cup {0}
      top == CHOOSE m \in ords : \A o \in ords : o <= m
  IN  [legs |-> [k \in kept \cup {Key(e.leg) : e \in own} |->
                   IF \E e \in own : Key(e.leg) = k THEN CHOOSE e \in own : Key(e.leg) = k
                   ELSE log.legs[k]],
       next |-> IF top + 1 > log.next THEN top + 1 ELSE log.next]

(* The durable log: every number is narrowed to a BIGINT before the write, *)
(* and the two reads are queries.                                          *)
Narrows(leg) == \A n \in {leg.qty, leg.price, leg.seq} : n <= MaxI64

DurableRecord(log, leg) == IF Narrows(leg) THEN Record(log, leg) ELSE log

DurableGet(log, id, account) ==
  LET rows == {log.legs[k].leg : k \in {k \in DOMAIN log.legs :
                 k[1] = id /\ log.legs[k].leg.account = account}}
      Rank(leg) == IF leg.liquidity = "taker" THEN 0 ELSE 1
  IN  {leg \in rows : \A other \in rows : Rank(leg) <= Rank(other)}

DurableList(log, account, underlying, limit) ==
  LET rows == {log.legs[k] : k \in {k \in DOMAIN log.legs :
                 /\ log.legs[k].leg.account = account
                 /\ underlying = {} \/ log.legs[k].leg.underlying \in underlying}}
      sorted == InOrder(rows)
  IN  IF limit = {} THEN sorted
      ELSE SubSeq(sorted, 1, CHOOSE n \in 0..Len(sorted) :
                               /\ \A x \in limit : n <= x
                               /\ n = Len(sorted) \/ n \in limit)

-----------------------------------------------------------------------------
(* The positions fold. *)

FoldBelongs(fold, u) == fold.underlying = u

NewFold(u) == [underlying |-> u, net |-> 0, basis |-> 0, cash |-> 0, fees |-> 0]

Done(fold) == [ok |-> TRUE, fold |-> fold]
Overflow(fold) == [ok |-> FALSE, fold |-> fold]   \* what was assigned before it stays

(* Opening, or adding in the direction of the position.                    *)
Increase(fold, dq, price) ==
  LET grown == [fold EXCEPT !.basis = @ + dq * price]
  IN  IF ~Fits128(grown.basis) THEN Overflow(fold)
      ELSE IF ~Fits64(fold.net + dq) THEN Overflow(grown)
      ELSE Done([grown EXCEPT !.net = @ + dq])

(* Reducing: the proportional cost leaves, and a full close leaves none.   *)
Reduce(fold, dq) ==
  LET net == fold.net + dq
      cost == Quotient(fold.basis * Abs(dq), Abs(fold.net))
  IN  IF ~Fits128(fold.basis * Abs(dq)) THEN Overflow(fold)
      ELSE Done([fold EXCEPT !.net = net, !.basis = IF net = 0 THEN 0 ELSE @ - cost])

(* Crossing zero: the remainder opens at this price.                       *)
Flip(fold, dq, price) ==
  LET flipped == [fold EXCEPT !.net = @ + dq]
  IN  IF ~Fits128(flipped.net * price) THEN Overflow(flipped)
      ELSE Done([flipped EXCEPT !.basis = flipped.net * price])

Signed(leg) == IF leg.side = "buy" THEN leg.qty ELSE -leg.qty

Fold(fold, leg) ==
  LET dq == Signed(leg)
      charged == [fold EXCEPT !.fees = @ + leg.fee]
      paid == [charged EXCEPT !.cash = @ - dq * leg.price]
      increasing == fold.net = 0 \/ ((fold.net > 0) <=> (dq > 0))
  IN  IF leg.qty > MaxI64 \/ ~Fits128(dq * leg.price) \/ ~Fits128(charged.fees)
      THEN Overflow(fold)
      ELSE IF ~Fits128(paid.cash) THEN Overflow(charged)
      ELSE IF increasing THEN Increase(paid, dq, leg.price)
      ELSE IF Abs(dq) <= Abs(fold.net) THEN Reduce(paid, dq)
      ELSE Flip(paid, dq, leg.price)

(* The fold of a leg's account and contract, opened by its first leg.      *)
PositionKey(leg) == <<leg.account, leg.symbol>>

Apply(positions, leg) ==
  LET k == PositionKey(leg)
      old == IF k \in DOMAIN positions THEN positions[k] ELSE NewFold(leg.underlying)
      r == Fold(old, leg)
  IN  [ok |-> r.ok,
       positions |-> [x \in DOMAIN positions \cup {k} |-> IF x = k THEN r.fold ELSE positions[x]]]

(* What a read shows of a fold marked at `mark` ({} when unpriced); an     *)
(* amount beyond its width makes the read fail, not the fold.              *)
AvgPrice(fold) == IF fold.net = 0 THEN 0 ELSE Abs(fold.basis) \div Abs(fold.net)
Realized(fold) == fold.cash - fold.fees + fold.basis
Unrealized(fold, mark) == {fold.net * m - fold.basis : m \in mark}

Projects(fold, mark) ==
  /\ AvgPrice(fold) <= 2 * MaxI64 + 1
  /\ Fits128(fold.cash - fold.fees)
  /\ Fits64(Realized(fold))
  /\ \A n \in Unrealized(fold, mark) : Fits64(n)

CaptureFolds(positions, u) ==
  [k \in {k \in DOMAIN positions : FoldBelongs(positions[k], u)} |-> positions[k]]

ValidFolds(cut, u) == \A k \in DOMAIN cut : FoldBelongs(cut[k], u)

RestoreFolds(positions, u, cut) ==
  LET own == {k \in DOMAIN cut : FoldBelongs(cut[k], u)}
      kept == {k \in DOMAIN positions : ~FoldBelongs(positions[k], u)}
  IN  [k \in kept \cup own |-> IF k \in own THEN cut[k] ELSE positions[k]]

-----------------------------------------------------------------------------
(* The fan-out: each leg goes into the log and then into the fold; the     *)
(* first failure seals, and a mark is fed once per execution when all legs *)
(* went through.  `venue` is [log, positions, sealed, prints].             *)

EmptyVenue == [log |-> EmptyLog, positions |-> <<>>, sealed |-> FALSE, prints |-> <<>>]

(* Only an add or a replace names a contract, and only those fill.         *)
FillsOf(event) == IF event.kind \in {"Added", "Market", "Replace"} THEN event.fills ELSE <<>>

ProjectLeg(venue, leg) ==
  LET r == Apply(venue.positions, leg)
  IN  IF venue.sealed THEN venue
      ELSE [venue EXCEPT !.log = Record(venue.log, leg),
                         !.positions = r.positions,
                         !.sealed = ~r.ok]

(* The legs that print: the first of each execution.                       *)
Prints(fills) ==
  LET First(i) == \A j \in 1..(i - 1) : fills[j].id # fills[i].id
  IN  {i \in DOMAIN fills : First(i)}

Emit(venue, event) ==
  LET fills == FillsOf(event)
      After[i \in 0..Len(fills)] ==
        IF i = 0 THEN venue ELSE ProjectLeg(After[i - 1], fills[i])
      end == After[Len(fills)]
      Printed[i \in 0..Len(fills)] ==
        IF i = 0 THEN end.prints
        ELSE IF i \in Prints(fills) THEN Append(Printed[i - 1], fills[i].price)
        ELSE Printed[i - 1]
  IN  IF end.sealed THEN end ELSE [end EXCEPT !.prints = Printed[Len(fills)]]

(* The edge a leg reports is its fee negated; i64::MIN has no negation.    *)
NetOfFeeEdge(leg) == IF Fits64(-leg.fee) THEN -leg.fee ELSE 0
=============================================================================
