-------------------------- MODULE MarketDataProofs --------------------------
(***************************************************************************)
(* Proofs about the market-data feed: what a subscriber is shown is the     *)
(* aggregate's depth, and a lag is never passed over.                       *)
(*                                                                          *)
(* The stream is reasoned about with two witnesses that the state does not  *)
(* keep: h, the messages of this boot by their position, and d, the depth   *)
(* an instrument had at each of its sequence numbers.                       *)
(***************************************************************************)
EXTENDS MarketData, FiniteSetTheorems, TLAPS

MaxDepth == MaxQty * Cardinality(OrderId)
ChangeSet == UNION {[S -> 0..MaxDepth] : S \in SUBSET Level}
Msg == [kind : {"print"}]
         \cup [kind : {"delta"}, inst : Instrument, seq : Nat, changes : ChangeSet]

DeltaOf(m, i) == m.kind = "delta" /\ m.inst = i

\* What a delta makes of a depth.
Patch(v, changes) == [l \in Level |-> IF l \in DOMAIN changes THEN changes[l] ELSE v[l]]

(* The books: o is the aggregate's orders, b the book, u the ids used, hd the hidden ones. *)
BookOK(o, b, u, hd) ==
    /\ u \in SUBSET OrderId /\ hd \in SUBSET u
    /\ o = [id \in DOMAIN o |-> o[id]]
    /\ \A id \in DOMAIN o : id \in u /\ o[id] \in Resting
    /\ \A id \in DOMAIN b : id \in u /\ b[id] \in Resting
    /\ \A id \in DOMAIN o \ hd : id \in DOMAIN b /\ o[id] = b[id]
    /\ \A id \in DOMAIN b \ hd : id \in DOMAIN o
    /\ \A id \in hd : ~ (id \in DOMAIN o /\ id \in DOMAIN b)

\* The depth is the count of the contracts.
DepthOK(o, lv) ==
    \A i \in Instrument, l \in Level : lv[i][l] = Cardinality(Contracts(o, DOMAIN o, i, l))

CountersOK ==
    /\ levels \in [Instrument -> Depth] /\ sequence \in [Instrument -> 0..MaxSent]
    /\ quiet \in [Instrument -> BOOLEAN] /\ boots \in 0..MaxBoots
    /\ sent \in Nat /\ toSend \in Seq(Msg) /\ ring \in Seq(Msg)
    /\ Len(toSend) <= 2 /\ Len(ring) <= sent
    /\ \A i \in Instrument : sequence[i] <= sent + 1
    /\ toSend = <<>> => \A i \in Instrument : sequence[i] <= sent

\* h holds the n messages of the boot, numbered without a gap per instrument.
Numbered(h, n, sq) ==
    /\ \A p \in 1..n : h[p] \in Msg
    /\ \A p \in 1..n, i \in Instrument : DeltaOf(h[p], i) => h[p].seq \in 1..sq[i]
    /\ \A p, q \in 1..n, i \in Instrument :
         p < q /\ DeltaOf(h[p], i) /\ DeltaOf(h[q], i) => h[p].seq < h[q].seq
    /\ \A i \in Instrument : \A k \in 1..sq[i] : \E p \in 1..n : DeltaOf(h[p], i) /\ h[p].seq = k

\* s is the part of h after position p.
PartOf(s, h, p) == \A k \in 1..Len(s) : s[k] = h[p + k]

\* d is the depth at each number, where the maker was quiet.
Depths(h, d, n, sq, lv, qt) ==
    \A i \in Instrument : qt[i] =>
      /\ d[i][sq[i]] = lv[i]
      /\ \A p \in 1..n : DeltaOf(h[p], i) => d[i][h[p].seq] = Patch(d[i][h[p].seq - 1], h[p].changes)

ConsumerType ==
    [kind : {None, "ws", "fix"}, at : Nat \cup {None}, base : [Instrument -> Nat \cup {None}],
     view : [Instrument -> Depth], want : SUBSET Instrument, pending : Seq(Msg), projects : BOOLEAN]

\* The protocol state of a consumer.
ModeOK(f, st) ==
    /\ f \in ConsumerType
    /\ f.at # None => f.at <= st /\ Len(f.pending) <= f.at
    /\ f.at = None => f.pending = <<>> /\ f.want = {} /\ \A i \in Instrument : f.base[i] = None
    /\ f.kind = "ws" => f.at # None /\ f.pending = <<>> /\ f.want = {}
    /\ f.kind = None => f = Idle
    /\ Len(f.pending) <= DrainLimit

\* The position up to which a consumer has applied the messages.
Applied(f) == f.at - Len(f.pending)

\* What a consumer holds of instrument i is what the stream says at its baseline.
Follows(f, i, h, d, sq, qt) ==
    f.base[i] # None =>
      /\ f.base[i] \in 0..sq[i]
      /\ \A p \in 1..Applied(f) : DeltaOf(h[p], i) => h[p].seq <= f.base[i]
      /\ qt[i] => f.view[i] = d[i][f.base[i]]

ConsumerOK(f, h, d, st, sq, qt) ==
    /\ ModeOK(f, st)
    /\ f.at # None => PartOf(f.pending, h, Applied(f))
    /\ \A i \in Instrument : Follows(f, i, h, d, sq, qt)

AllFollow(cs, h, d, st, sq, qt) == \A c \in Consumer : ConsumerOK(cs[c], h, d, st, sq, qt)

\* The stream st messages of which are sent: what is in flight, in the ring and with the
\* consumers is part of it.
Stream(h, d, st, ts, rg, sq, lv, qt, cs) ==
    /\ Numbered(h, st + Len(ts), sq)
    /\ PartOf(ts, h, st)
    /\ PartOf(rg, h, st - Len(rg))
    /\ Depths(h, d, st + Len(ts), sq, lv, qt)
    /\ AllFollow(cs, h, d, st, sq, qt)

IInv ==
    /\ BookOK(orders, book, used, hidden)
    /\ DepthOK(orders, levels)
    /\ CountersOK
    /\ DOMAIN cons = Consumer
    /\ \E h \in [Nat -> Msg] : \E d \in [Instrument -> [Nat -> Depth]] :
         Stream(h, d, sent, toSend, ring, sequence, levels, quiet, cons)
-----------------------------------------------------------------------------
(* Counting contracts.                                                      *)

LEMMA MaxDepthIsNat == MaxDepth \in Nat
  <1>1. Cardinality(OrderId) \in Nat /\ MaxQty \in Nat
    BY FS_CardinalityType, MarketDataAssumption
  <1> QED BY <1>1 DEF MaxDepth

LEMMA ContractsBounded ==
  ASSUME NEW f, NEW S, \A id \in S : id \in OrderId, NEW i, NEW l
  PROVE  /\ IsFiniteSet(Contracts(f, S, i, l))
         /\ Cardinality(Contracts(f, S, i, l)) \in Nat
         /\ Cardinality(Contracts(f, S, i, l)) \in 0..MaxDepth
  <1>1. 1 \in Int /\ MaxQty \in Int /\ MaxQty \in Nat /\ MaxQty >= 1 BY MarketDataAssumption
  <1>2. IsFiniteSet(Qty) /\ Cardinality(Qty) = MaxQty BY <1>1, FS_Interval DEF Qty
  <1>3. IsFiniteSet(OrderId) BY MarketDataAssumption
  <1>4. IsFiniteSet(OrderId \X Qty) /\ Cardinality(OrderId \X Qty) = Cardinality(OrderId) * Cardinality(Qty)
    BY <1>2, <1>3, FS_Product
  <1>5. Contracts(f, S, i, l) \in SUBSET (OrderId \X Qty) BY DEF Contracts
  <1>6. /\ IsFiniteSet(Contracts(f, S, i, l))
        /\ Cardinality(Contracts(f, S, i, l)) <= Cardinality(OrderId \X Qty)
    BY <1>4, <1>5, FS_Subset
  <1>7. Cardinality(Contracts(f, S, i, l)) \in Nat /\ Cardinality(OrderId) \in Nat
    BY <1>3, <1>6, FS_CardinalityType
  <1>8. Cardinality(OrderId) * Cardinality(Qty) = MaxDepth BY <1>1, <1>2, <1>7 DEF MaxDepth
  <1> QED BY <1>4, <1>6, <1>7, <1>8, MaxDepthIsNat

LEMMA TwoParts ==
  ASSUME NEW A, NEW B, NEW C, IsFiniteSet(A), A = B \cup C, B \cap C = {}
  PROVE  /\ Cardinality(A) \in Nat /\ Cardinality(B) \in Nat /\ Cardinality(C) \in Nat
         /\ Cardinality(A) = Cardinality(B) + Cardinality(C)
  <1>1. B \in SUBSET A /\ C \in SUBSET A OBVIOUS
  <1>2. IsFiniteSet(B) /\ IsFiniteSet(C) BY <1>1, FS_Subset
  <1>3. Cardinality(A) = Cardinality(B) + Cardinality(C) - Cardinality(B \cap C) BY <1>2, FS_Union
  <1>4. Cardinality(B \cap C) = 0 BY FS_EmptySet
  <1> QED BY <1>2, <1>3, <1>4, FS_CardinalityType
-----------------------------------------------------------------------------
(* The aggregate's methods keep each level the count of its contracts.      *)

AggOK(s) ==
    /\ s = [orders |-> s.orders, levels |-> s.levels, touched |-> s.touched]
    /\ \A id \in DOMAIN s.orders : id \in OrderId /\ s.orders[id] \in Resting
    /\ s.orders = [id \in DOMAIN s.orders |-> s.orders[id]]
    /\ s.levels \in [Instrument -> [Level -> Nat]]
    /\ s.touched \in SUBSET Level
    /\ DepthOK(s.orders, s.levels)

\* From s to t only instrument i moved, at levels that were noted.
Moves(s, t, i) ==
    /\ \A l \in s.touched : l \in t.touched
    /\ \A j \in Instrument, l \in Level :
         j # i \/ l \notin t.touched => t.levels[j][l] = s.levels[j][l]

LEMMA RemoveKeeps ==
  ASSUME NEW s, AggOK(s), NEW ids, NEW i,
         \A id \in ids : id \in DOMAIN s.orders => s.orders[id].inst = i
  PROVE  LET t == RemoveOrders(s, ids)
         IN  /\ AggOK(t) /\ Moves(s, t, i)
             /\ \A x : x \in DOMAIN t.orders <=> x \in DOMAIN s.orders /\ x \notin ids
             /\ \A id \in DOMAIN t.orders : t.orders[id] = s.orders[id]
  <1> DEFINE gone == ids \cap DOMAIN s.orders
             t == RemoveOrders(s, ids)
             o2 == [x \in DOMAIN s.orders \ gone |-> s.orders[x]]
             tc == s.touched \cup {s.orders[id].level : id \in gone}
             all(j, l) == Contracts(s.orders, DOMAIN s.orders, j, l)
             off(j, l) == Contracts(s.orders, gone, j, l)
             on(j, l) == Contracts(o2, DOMAIN o2, j, l)
             lv == [j \in Instrument |-> [l \in Level |-> Less(s.levels[j][l], Cardinality(off(j, l)))]]
  <1>1. t = [orders |-> o2, levels |-> lv, touched |-> tc]
    BY DEF RemoveOrders, Restrict
  <1>2. /\ DOMAIN o2 = DOMAIN s.orders \ ids
        /\ \A id \in DOMAIN o2 : o2[id] = s.orders[id] /\ id \in OrderId /\ o2[id] \in Resting
    BY DEF AggOK
  <1>3. \A id \in DOMAIN s.orders : s.orders[id].level \in Level
    BY DEF AggOK, Resting
  <1>4. ASSUME NEW j \in Instrument, NEW l \in Level
        PROVE  /\ s.levels[j][l] = Cardinality(all(j, l)) /\ Cardinality(all(j, l)) \in Nat
               /\ Cardinality(on(j, l)) \in Nat /\ Cardinality(off(j, l)) \in Nat
               /\ Cardinality(all(j, l)) = Cardinality(on(j, l)) + Cardinality(off(j, l))
    <2>1. s.levels[j][l] = Cardinality(all(j, l)) BY DEF AggOK, DepthOK
    <2>2. IsFiniteSet(all(j, l))
      <3>1. \A id \in DOMAIN s.orders : id \in OrderId BY DEF AggOK
      <3> QED BY <3>1, ContractsBounded
    <2>3. \A x : x \in all(j, l) <=> x \in on(j, l) \/ x \in off(j, l)
      BY <1>2 DEF Contracts
    <2>4. \A x : ~ (x \in on(j, l) /\ x \in off(j, l))
      BY <1>2 DEF Contracts
    <2>5. all(j, l) = on(j, l) \cup off(j, l) /\ on(j, l) \cap off(j, l) = {}
      <3> HIDE DEF all, on, off
      <3> QED BY <2>3, <2>4
    <2> HIDE DEF all, on, off
    <2> QED BY <2>1, <2>2, <2>5, TwoParts
  <1>5. \A j \in Instrument, l \in Level : lv[j][l] \in Nat /\ lv[j][l] = Cardinality(on(j, l))
    <2> SUFFICES ASSUME NEW j \in Instrument, NEW l \in Level
                 PROVE  lv[j][l] \in Nat /\ lv[j][l] = Cardinality(on(j, l))
      OBVIOUS
    <2>1. lv[j][l] = Less(s.levels[j][l], Cardinality(off(j, l))) OBVIOUS
    <2> HIDE DEF on, off, lv
    <2> QED BY <1>4, <2>1 DEF Less
  <1>6. lv \in [Instrument -> [Level -> Nat]] BY <1>5
  <1>7. \A j \in Instrument, l \in Level : j # i \/ l \notin tc => lv[j][l] = s.levels[j][l]
    <2> SUFFICES ASSUME NEW j \in Instrument, NEW l \in Level, j # i \/ l \notin tc
                 PROVE  lv[j][l] = s.levels[j][l]
      OBVIOUS
    <2>1. \A x : x \notin off(j, l)
      BY DEF Contracts
    <2>2. off(j, l) = {} 
      <3> HIDE DEF off
      <3> QED BY <2>1
    <2>3. Cardinality(off(j, l)) = 0 BY <2>2, FS_EmptySet
    <2> HIDE DEF on, off, lv
    <2> QED BY <1>4, <1>5, <2>3
  <1>8. tc \in SUBSET Level BY <1>3 DEF AggOK
  <1>9. DepthOK(o2, lv)
    <2> HIDE DEF lv, o2
    <2> QED BY <1>5 DEF DepthOK
  <1>10. o2 = [id \in DOMAIN o2 |-> o2[id]] OBVIOUS
  <1> HIDE DEF t, lv, o2, tc
  <1>11. AggOK(t) BY <1>1, <1>2, <1>6, <1>8, <1>9, <1>10 DEF AggOK
  <1>12. Moves(s, t, i) BY <1>1, <1>7 DEF Moves, tc
  <1> QED BY <1>1, <1>2, <1>11, <1>12 DEF t

LEMMA QtyIsNat == \A k \in Qty : k \in Nat /\ k >= 1
  BY MarketDataAssumption DEF Qty

LEMMA InContracts ==
  ASSUME NEW f, NEW S, NEW i, NEW l, NEW a, NEW k
  PROVE  <<a, k>> \in Contracts(f, S, i, l)
           <=> a \in S /\ k \in Qty /\ f[a].inst = i /\ f[a].level = l /\ k <= f[a].qty
  BY DEF Contracts

ArePairs(A) == \A x \in A : \E a, k : x = <<a, k>>

LEMMA ContractsArePairs ==
  ASSUME NEW f, NEW S, NEW i, NEW l
  PROVE  ArePairs(Contracts(f, S, i, l))
  BY DEF Contracts, ArePairs

LEMMA SamePairs ==
  ASSUME NEW A, NEW B, ArePairs(A), ArePairs(B),
         \A a, k : <<a, k>> \in A <=> <<a, k>> \in B
  PROVE  A = B
  BY DEF ArePairs

\* The finite set A consists of B and C, which share nothing.
SplitsInto(A, B, C) == IsFiniteSet(A) /\ A = B \cup C /\ B \cap C = {}

LEMMA SplitCounts ==
  ASSUME NEW A, NEW B, NEW C, SplitsInto(A, B, C)
  PROVE  /\ Cardinality(A) \in Nat /\ Cardinality(B) \in Nat /\ Cardinality(C) \in Nat
         /\ Cardinality(A) = Cardinality(B) + Cardinality(C)
  <1>1. /\ B \in SUBSET A /\ C \in SUBSET A /\ IsFiniteSet(A)
        /\ B \cup C = A /\ B \cap C = {}
    BY DEF SplitsInto
  <1>2. IsFiniteSet(B) /\ IsFiniteSet(C) BY <1>1, FS_Subset
  <1>3. Cardinality(B \cup C) = Cardinality(B) + Cardinality(C) - Cardinality(B \cap C)
    BY <1>2, FS_Union
  <1>4. Cardinality(B \cap C) = 0 BY <1>1, FS_EmptySet
  <1>5. Cardinality(A) \in Nat /\ Cardinality(B) \in Nat /\ Cardinality(C) \in Nat
    BY <1>1, <1>2, FS_CardinalityType
  <1> QED BY <1>1, <1>3, <1>4, <1>5

LEMMA PairParts ==
  ASSUME NEW A, NEW B, NEW C, ArePairs(A), ArePairs(B), ArePairs(C), IsFiniteSet(A),
         \A a, k : <<a, k>> \in A <=> <<a, k>> \in B \/ <<a, k>> \in C,
         \A a, k : ~ (<<a, k>> \in B /\ <<a, k>> \in C)
  PROVE  /\ Cardinality(A) \in Nat /\ Cardinality(B) \in Nat /\ Cardinality(C) \in Nat
         /\ Cardinality(A) = Cardinality(B) + Cardinality(C)
  <1>1. A = B \cup C BY DEF ArePairs
  <1>2. B \cap C = {}
    <2> SUFFICES ASSUME NEW x \in B, x \in C PROVE FALSE OBVIOUS
    <2>1. PICK a, k : x = <<a, k>> BY DEF ArePairs
    <2>2. ~ (<<a, k>> \in B /\ <<a, k>> \in C) BY Zenon
    <2> QED BY <2>1, <2>2, Zenon
  <1>3. SplitsInto(A, B, C) BY <1>1, <1>2 DEF SplitsInto
  <1> QED BY <1>3, SplitCounts

LEMMA BlockOfContracts ==
  ASSUME NEW id, NEW T
  PROVE  /\ ArePairs({id} \X T)
         /\ \A a, k : <<a, k>> \in {id} \X T <=> a = id /\ k \in T
  BY DEF ArePairs

LEMMA IntervalContracts ==
  ASSUME NEW id, NEW a \in Nat, NEW b \in Nat, a <= b
  PROVE  Cardinality({id} \X ((a + 1)..b)) = b - a
  <1>1. (a + 1) \in Int /\ b \in Int OBVIOUS
  <1>2. IsFiniteSet((a + 1)..b) /\ Cardinality((a + 1)..b) = b - a
    <2>1. /\ IsFiniteSet((a + 1)..b)
          /\ Cardinality((a + 1)..b) = IF (a + 1) > b THEN 0 ELSE b - (a + 1) + 1
      BY <1>1, FS_Interval
    <2> QED BY <2>1
  <1>3. IsFiniteSet({id}) /\ Cardinality({id}) = 1 BY FS_Singleton
  <1>4. Cardinality({id} \X ((a + 1)..b)) = 1 * Cardinality((a + 1)..b) BY <1>2, <1>3, FS_Product
  <1> QED BY <1>2, <1>4

LEMMA ReduceKeeps ==
  ASSUME NEW s, AggOK(s), NEW id, NEW q \in Nat, NEW i,
         id \in DOMAIN s.orders => s.orders[id].inst = i
  PROVE  LET t == ReduceOrder(s, id, q)
         IN  /\ AggOK(t) /\ Moves(s, t, i)
             /\ \A x : x \in DOMAIN t.orders
                       <=> x \in DOMAIN s.orders /\ ~ (x = id /\ q >= s.orders[x].qty)
             /\ \A x \in DOMAIN t.orders :
                  t.orders[x] = IF x = id THEN [s.orders[x] EXCEPT !.qty = @ - q] ELSE s.orders[x]
  <1> DEFINE t == ReduceOrder(s, id, q)
  <1>1. CASE id \notin DOMAIN s.orders
    <2>1. t = s BY <1>1 DEF ReduceOrder
    <2> QED BY <1>1, <2>1 DEF Moves
  <1>2. CASE id \in DOMAIN s.orders /\ q >= s.orders[id].qty
    <2>1. t = RemoveOrders(s, {id}) BY <1>2 DEF ReduceOrder
    <2> DEFINE one == {id}
               u == RemoveOrders(s, one)
    <2>2. \A x \in one : x \in DOMAIN s.orders => s.orders[x].inst = i OBVIOUS
    <2>3. /\ AggOK(u) /\ Moves(s, u, i)
          /\ \A x : x \in DOMAIN u.orders <=> x \in DOMAIN s.orders /\ x # id
          /\ \A x \in DOMAIN u.orders : u.orders[x] = s.orders[x]
      <3>1. one = {id} OBVIOUS
      <3> HIDE DEF t, one
      <3>2. AggOK(u) /\ Moves(s, u, i) BY <2>2, RemoveKeeps
      <3>3. \A x : x \in DOMAIN u.orders <=> x \in DOMAIN s.orders /\ x \notin one BY <2>2, RemoveKeeps
      <3>4. \A x \in DOMAIN u.orders : u.orders[x] = s.orders[x] BY <2>2, RemoveKeeps
      <3> QED BY <3>1, <3>2, <3>3, <3>4
    <2> HIDE DEF t, u
    <2> QED BY <1>2, <2>1, <2>3 DEF t, u
  <1>3. CASE id \in DOMAIN s.orders /\ ~ (q >= s.orders[id].qty)
    <2> DEFINE o == s.orders[id]
               left == [o EXCEPT !.qty = @ - q]
               o2 == [s.orders EXCEPT ![id] = left]
               lv == [s.levels EXCEPT ![i][o.level] = Less(@, q)]
               tc == s.touched \cup {o.level}
               all(j, l) == Contracts(s.orders, DOMAIN s.orders, j, l)
               on(j, l) == Contracts(o2, DOMAIN o2, j, l)
    <2>1. /\ o \in Resting /\ o.inst = i /\ i \in Instrument /\ o.level \in Level /\ id \in OrderId
          /\ o.qty \in 1..MaxQty /\ MaxQty \in Nat /\ q < o.qty
      BY <1>3, MarketDataAssumption DEF AggOK, Resting, Qty
    <2>2. /\ left \in Resting /\ left.inst = i /\ left.level = o.level /\ left.qty = o.qty - q
      BY <2>1 DEF Resting, Qty
    <2>3. t = [orders |-> o2, levels |-> lv, touched |-> tc]
      BY <1>3, <2>1 DEF ReduceOrder, ReduceLevel
    <2>4. /\ DOMAIN o2 = DOMAIN s.orders
          /\ \A x \in DOMAIN o2 : o2[x] = IF x = id THEN left ELSE s.orders[x]
          /\ o2 = [x \in DOMAIN o2 |-> o2[x]]
      BY <1>3 DEF AggOK
    <2>5. \A x \in DOMAIN o2 : x \in OrderId /\ o2[x] \in Resting
      BY <2>2, <2>4 DEF AggOK
    <2>6. \A j \in Instrument, l \in Level :
            lv[j][l] = IF j = i /\ l = o.level THEN Less(s.levels[j][l], q) ELSE s.levels[j][l]
      BY <2>1 DEF AggOK
    <2>7. \A j \in Instrument, l \in Level :
            s.levels[j][l] = Cardinality(all(j, l)) /\ IsFiniteSet(all(j, l)) /\ s.levels[j][l] \in Nat
      <3>1. \A x \in DOMAIN s.orders : x \in OrderId BY DEF AggOK
      <3> QED BY <3>1, ContractsBounded DEF AggOK, DepthOK
    <2>8. ASSUME NEW j \in Instrument, NEW l \in Level, ~ (j = i /\ l = o.level)
          PROVE  lv[j][l] = Cardinality(on(j, l))
      <3>1. ASSUME NEW a, NEW k PROVE <<a, k>> \in on(j, l) <=> <<a, k>> \in all(j, l)
        <4>1. <<a, k>> \in on(j, l)
                <=> a \in DOMAIN o2 /\ k \in Qty /\ o2[a].inst = j /\ o2[a].level = l /\ k <= o2[a].qty
          <5> HIDE DEF o2
          <5> QED BY InContracts, Zenon
        <4>2. <<a, k>> \in all(j, l)
                <=> a \in DOMAIN s.orders /\ k \in Qty /\ s.orders[a].inst = j
                      /\ s.orders[a].level = l /\ k <= s.orders[a].qty
          BY InContracts, Zenon
        <4> HIDE DEF on, all, o2
        <4> QED BY <4>1, <4>2, <2>1, <2>2, <2>4, <2>8
      <3>2. on(j, l) = all(j, l)
        <4>1. ArePairs(on(j, l)) /\ ArePairs(all(j, l)) BY ContractsArePairs, Zenon
        <4> HIDE DEF on, all
        <4> QED BY <3>1, <4>1, SamePairs
      <3> QED BY <2>6, <2>7, <2>8, <3>2
    <2>9. lv[i][o.level] = Cardinality(on(i, o.level))
      <3> DEFINE off == {id} \X (((o.qty - q) + 1)..o.qty)
      <3>1. ArePairs(off) /\ \A a, k : <<a, k>> \in off <=> a = id /\ k \in ((o.qty - q) + 1)..o.qty
        <4> DEFINE T == ((o.qty - q) + 1)..o.qty
        <4> HIDE DEF T
        <4>1. ArePairs({id} \X T) /\ \A a, k : <<a, k>> \in {id} \X T <=> a = id /\ k \in T
          BY BlockOfContracts
        <4> QED BY <4>1 DEF T
      <3>2. \A a, k : <<a, k>> \in on(i, o.level)
               <=> a \in DOMAIN o2 /\ k \in Qty /\ o2[a].inst = i /\ o2[a].level = o.level /\ k <= o2[a].qty
        <4> HIDE DEF o2, o
        <4> QED BY InContracts, Zenon
      <3>3. \A a, k : <<a, k>> \in all(i, o.level)
               <=> a \in DOMAIN s.orders /\ k \in Qty /\ s.orders[a].inst = i
                     /\ s.orders[a].level = o.level /\ k <= s.orders[a].qty
        <4> HIDE DEF o
        <4> QED BY InContracts, Zenon
      <3>4. ArePairs(on(i, o.level)) /\ ArePairs(all(i, o.level)) BY ContractsArePairs, Zenon
      <3> HIDE DEF on, all, off, o2, left
      <3>5. ASSUME NEW k
            PROVE  /\ <<id, k>> \in on(i, o.level) <=> k \in Qty /\ k <= o.qty - q
                   /\ <<id, k>> \in all(i, o.level) <=> k \in Qty /\ k <= o.qty
                   /\ <<id, k>> \in off <=> k \in ((o.qty - q) + 1)..o.qty
        <4>1. o2[id] = left /\ id \in DOMAIN o2 BY <1>3, <2>4
        <4>2. <<id, k>> \in on(i, o.level) <=> k \in Qty /\ k <= o.qty - q
          BY <4>1, <3>2, <2>2, Zenon
        <4>3. <<id, k>> \in all(i, o.level) <=> k \in Qty /\ k <= o.qty
          BY <1>3, <3>3, <2>1, Zenon
        <4>4. <<id, k>> \in off <=> k \in ((o.qty - q) + 1)..o.qty BY <3>1, Zenon
        <4> QED BY <4>2, <4>3, <4>4
      <3>6. ASSUME NEW a, NEW k
            PROVE  /\ <<a, k>> \in all(i, o.level) <=> <<a, k>> \in on(i, o.level) \/ <<a, k>> \in off
                   /\ ~ (<<a, k>> \in on(i, o.level) /\ <<a, k>> \in off)
        <4>1. CASE a # id
          <5>1. <<a, k>> \notin off BY <4>1, <3>1, Zenon
          <5>2. <<a, k>> \in all(i, o.level) <=> <<a, k>> \in on(i, o.level)
            <6>1. a \in DOMAIN o2 <=> a \in DOMAIN s.orders BY <2>4
            <6>2. a \in DOMAIN o2 => o2[a] = s.orders[a] BY <4>1, <2>4
            <6> QED BY <6>1, <6>2, <3>2, <3>3, Zenon
          <5> QED BY <5>1, <5>2, Zenon
        <4>2. CASE a = id
          <5>1. o.qty \in Nat /\ o.qty <= MaxQty /\ q <= o.qty /\ MaxQty \in Nat BY <2>1
          <5>2. CASE k \in Nat
            <6>1. k \in Qty <=> 1 <= k /\ k <= MaxQty BY <5>1, <5>2 DEF Qty
            <6>2. k \in ((o.qty - q) + 1)..o.qty <=> (o.qty - q) + 1 <= k /\ k <= o.qty BY <5>1, <5>2
            <6> DEFINE P == <<id, k>> \in on(i, o.level)
                       Q == <<id, k>> \in all(i, o.level)
                       R == <<id, k>> \in off
            <6>3. /\ P <=> k \in Qty /\ k <= o.qty - q
                  /\ Q <=> k \in Qty /\ k <= o.qty
                  /\ R <=> k \in ((o.qty - q) + 1)..o.qty
              BY <3>5
            <6> HIDE DEF P, Q, R, o
            <6>4. (Q <=> P \/ R) /\ ~ (P /\ R) BY <6>1, <6>2, <6>3, <5>1, <5>2
            <6> QED BY <4>2, <6>4 DEF P, Q, R
          <5>3. CASE k \notin Nat
            <6>1. k \notin Qty BY <5>3, QtyIsNat
            <6>2. k \notin ((o.qty - q) + 1)..o.qty BY <5>3, <5>1
            <6> QED BY <4>2, <6>1, <6>2, <3>5, Zenon
          <5> QED BY <5>2, <5>3
        <4> QED BY <4>1, <4>2
      <3>8. Cardinality(all(i, o.level)) = Cardinality(on(i, o.level)) + Cardinality(off)
              /\ Cardinality(on(i, o.level)) \in Nat
        <4>1. \A a, k : <<a, k>> \in all(i, o.level) <=> <<a, k>> \in on(i, o.level) \/ <<a, k>> \in off
          BY <3>6
        <4>2. \A a, k : ~ (<<a, k>> \in on(i, o.level) /\ <<a, k>> \in off) BY <3>6
        <4>3. IsFiniteSet(all(i, o.level)) BY <2>1, <2>7
        <4>4. ArePairs(all(i, o.level)) /\ ArePairs(on(i, o.level)) /\ ArePairs(off) BY <3>1, <3>4
        <4> DEFINE A == all(i, o.level)
                   B == on(i, o.level)
        <4> HIDE DEF A, B
        <4>5. /\ ArePairs(A) /\ ArePairs(B) /\ ArePairs(off) /\ IsFiniteSet(A)
              /\ \A a, k : <<a, k>> \in A <=> <<a, k>> \in B \/ <<a, k>> \in off
              /\ \A a, k : ~ (<<a, k>> \in B /\ <<a, k>> \in off)
          BY <4>1, <4>2, <4>3, <4>4, Zenon DEF A, B
        <4>6. Cardinality(A) = Cardinality(B) + Cardinality(off) /\ Cardinality(B) \in Nat
          BY <4>5, PairParts
        <4> QED BY <4>6 DEF A, B
      <3>9. Cardinality(off) = q
        <4>1. o.qty - q \in Nat /\ o.qty \in Nat /\ o.qty - q <= o.qty BY <2>1
        <4>2. Cardinality({id} \X (((o.qty - q) + 1)..o.qty)) = o.qty - (o.qty - q)
          BY <4>1, IntervalContracts
        <4> QED BY <4>1, <4>2, <2>1 DEF off
      <3>10. lv[i][o.level] = Less(s.levels[i][o.level], q) BY <2>1, <2>6
      <3>11. s.levels[i][o.level] = Cardinality(all(i, o.level)) /\ s.levels[i][o.level] \in Nat
        BY <2>1, <2>7
      <3> HIDE DEF lv
      <3> QED BY <3>8, <3>9, <3>10, <3>11 DEF Less
    <2>10. \A j \in Instrument, l \in Level : lv[j][l] = Cardinality(Contracts(o2, DOMAIN o2, j, l))
      BY <2>8, <2>9
    <2>11. lv \in [Instrument -> [Level -> Nat]]
      <3>1. \A j \in Instrument, l \in Level : lv[j][l] \in Nat
        <4> HIDE DEF lv, o2
        <4> QED BY <2>5, <2>10, ContractsBounded
      <3> QED BY <3>1 DEF AggOK
    <2>12. tc \in SUBSET Level BY <2>1 DEF AggOK
    <2>13. \A j \in Instrument, l \in Level : j # i \/ l \notin tc => lv[j][l] = s.levels[j][l]
      BY <2>6
    <2>14. \A l \in s.touched : l \in tc OBVIOUS
    <2> HIDE DEF t, lv, o2, tc, left
    <2>15. AggOK(t) BY <2>3, <2>4, <2>5, <2>10, <2>11, <2>12 DEF AggOK, DepthOK
    <2>16. Moves(s, t, i) BY <2>3, <2>13, <2>14 DEF Moves
    <2> QED BY <1>3, <2>3, <2>4, <2>15, <2>16 DEF t, left
  <1> QED BY <1>1, <1>2, <1>3

LEMMA RestKeeps ==
  ASSUME NEW s, AggOK(s), NEW id \in OrderId, id \notin DOMAIN s.orders,
         NEW o \in Resting
  PROVE  LET t == RestOrder(s, id, o)
         IN  /\ AggOK(t) /\ Moves(s, t, o.inst)
             /\ \A x : x \in DOMAIN t.orders <=> x \in DOMAIN s.orders \/ x = id
             /\ \A x \in DOMAIN t.orders : t.orders[x] = IF x = id THEN o ELSE s.orders[x]
  <1> DEFINE t == RestOrder(s, id, o)
             i == o.inst
             o2 == [x \in DOMAIN s.orders \cup {id} |-> IF x = id THEN o ELSE s.orders[x]]
             lv == [s.levels EXCEPT ![i][o.level] = @ + o.qty]
             tc == s.touched \cup {o.level}
             all(j, l) == Contracts(s.orders, DOMAIN s.orders, j, l)
             on(j, l) == Contracts(o2, DOMAIN o2, j, l)
  <1>1. /\ i \in Instrument /\ o.level \in Level /\ o.qty \in 1..MaxQty /\ MaxQty \in Nat
    BY MarketDataAssumption DEF Resting, Qty
  <1>2. t = [orders |-> o2, levels |-> lv, touched |-> tc]
    BY DEF RestOrder
  <1>3. \A x \in DOMAIN o2 : x \in OrderId /\ o2[x] \in Resting BY DEF AggOK
  <1>4. \A j \in Instrument, l \in Level :
          lv[j][l] = IF j = i /\ l = o.level THEN s.levels[j][l] + o.qty ELSE s.levels[j][l]
    BY <1>1 DEF AggOK
  <1>5. \A j \in Instrument, l \in Level :
          /\ s.levels[j][l] = Cardinality(all(j, l)) /\ s.levels[j][l] \in Nat
          /\ IsFiniteSet(on(j, l))
    <2>1. \A j \in Instrument, l \in Level : s.levels[j][l] = Cardinality(all(j, l)) /\ s.levels[j][l] \in Nat
      BY DEF AggOK, DepthOK
    <2>2. \A x \in DOMAIN o2 : x \in OrderId BY <1>3
    <2>3. \A j, l : IsFiniteSet(on(j, l))
      <3> HIDE DEF o2
      <3> QED BY <2>2, ContractsBounded
    <2> QED BY <2>1, <2>3
  <1>6. ASSUME NEW j \in Instrument, NEW l \in Level, ~ (j = i /\ l = o.level)
        PROVE  lv[j][l] = Cardinality(on(j, l))
    <2>1. ASSUME NEW a, NEW k PROVE <<a, k>> \in on(j, l) <=> <<a, k>> \in all(j, l)
      <3>1. <<a, k>> \in on(j, l)
              <=> a \in DOMAIN o2 /\ k \in Qty /\ o2[a].inst = j /\ o2[a].level = l /\ k <= o2[a].qty
        <4> HIDE DEF o2
        <4> QED BY InContracts, Zenon
      <3>2. <<a, k>> \in all(j, l)
              <=> a \in DOMAIN s.orders /\ k \in Qty /\ s.orders[a].inst = j
                    /\ s.orders[a].level = l /\ k <= s.orders[a].qty
        BY InContracts, Zenon
      <3>3. /\ a \in DOMAIN o2 <=> a \in DOMAIN s.orders \/ a = id
            /\ a \in DOMAIN o2 => o2[a] = IF a = id THEN o ELSE s.orders[a]
        OBVIOUS
      <3> HIDE DEF on, all, o2
      <3>4. CASE a = id
        <4>1. <<a, k>> \notin on(j, l) BY <3>1, <3>3, <3>4, <1>6, Zenon
        <4>2. <<a, k>> \notin all(j, l) BY <3>2, <3>4, Zenon
        <4> QED BY <4>1, <4>2
      <3>5. CASE a # id
        <4>1. a \in DOMAIN o2 <=> a \in DOMAIN s.orders BY <3>3, <3>5
        <4>2. a \in DOMAIN o2 => o2[a] = s.orders[a] BY <3>3, <3>5
        <4> QED BY <3>1, <3>2, <4>1, <4>2, Zenon
      <3> QED BY <3>4, <3>5
    <2>2. on(j, l) = all(j, l)
      <3>1. ArePairs(on(j, l)) /\ ArePairs(all(j, l)) BY ContractsArePairs, Zenon
      <3> HIDE DEF on, all
      <3> QED BY <2>1, <3>1, SamePairs
    <2> QED BY <1>4, <1>5, <1>6, <2>2
  <1>7. lv[i][o.level] = Cardinality(on(i, o.level))
    <2> DEFINE new == {id} \X ((0 + 1)..o.qty)
    <2>1. ArePairs(new) /\ \A a, k : <<a, k>> \in new <=> a = id /\ k \in (0 + 1)..o.qty
      <3> DEFINE T == (0 + 1)..o.qty
      <3> HIDE DEF T
      <3>1. ArePairs({id} \X T) /\ \A a, k : <<a, k>> \in {id} \X T <=> a = id /\ k \in T
        BY BlockOfContracts
      <3> QED BY <3>1 DEF T
    <2>2. \A a, k : <<a, k>> \in on(i, o.level)
             <=> a \in DOMAIN o2 /\ k \in Qty /\ o2[a].inst = i /\ o2[a].level = o.level /\ k <= o2[a].qty
      <3> HIDE DEF o2
      <3> QED BY InContracts, Zenon
    <2>3. \A a, k : <<a, k>> \in all(i, o.level)
             <=> a \in DOMAIN s.orders /\ k \in Qty /\ s.orders[a].inst = i
                   /\ s.orders[a].level = o.level /\ k <= s.orders[a].qty
      BY InContracts, Zenon
    <2>4. ArePairs(on(i, o.level)) /\ ArePairs(all(i, o.level)) BY ContractsArePairs, Zenon
    <2>5. /\ \A a : a \in DOMAIN o2 <=> a \in DOMAIN s.orders \/ a = id
          /\ \A a \in DOMAIN o2 : o2[a] = IF a = id THEN o ELSE s.orders[a]
      OBVIOUS
    <2> HIDE DEF on, all, new, o2
    <2>6. ASSUME NEW a, NEW k
          PROVE  /\ <<a, k>> \in on(i, o.level) <=> <<a, k>> \in all(i, o.level) \/ <<a, k>> \in new
                 /\ ~ (<<a, k>> \in all(i, o.level) /\ <<a, k>> \in new)
      <3>1. CASE a # id
        <4>1. <<a, k>> \notin new BY <3>1, <2>1, Zenon
        <4>2. <<a, k>> \in on(i, o.level) <=> <<a, k>> \in all(i, o.level)
          <5>1. a \in DOMAIN o2 <=> a \in DOMAIN s.orders BY <3>1, <2>5
          <5>2. a \in DOMAIN o2 => o2[a] = s.orders[a] BY <3>1, <2>5
          <5> QED BY <5>1, <5>2, <2>2, <2>3, Zenon
        <4> QED BY <4>1, <4>2, Zenon
      <3>2. CASE a = id
        <4>1. <<a, k>> \notin all(i, o.level) BY <3>2, <2>3, Zenon
        <4>2. <<a, k>> \in on(i, o.level) <=> k \in Qty /\ k <= o.qty BY <3>2, <2>2, <2>5, Zenon
        <4>3. <<a, k>> \in new <=> k \in (0 + 1)..o.qty BY <3>2, <2>1, Zenon
        <4>4. k \in Qty /\ k <= o.qty <=> k \in (0 + 1)..o.qty BY <1>1 DEF Qty
        <4> QED BY <4>1, <4>2, <4>3, <4>4, Zenon
      <3> QED BY <3>1, <3>2
    <2>9. Cardinality(on(i, o.level)) = Cardinality(all(i, o.level)) + Cardinality(new)
      <3>1. \A a, k : <<a, k>> \in on(i, o.level) <=> <<a, k>> \in all(i, o.level) \/ <<a, k>> \in new
        BY <2>6
      <3>2. \A a, k : ~ (<<a, k>> \in all(i, o.level) /\ <<a, k>> \in new) BY <2>6
      <3>3. IsFiniteSet(on(i, o.level)) BY <1>1, <1>5
      <3>4. ArePairs(all(i, o.level)) /\ ArePairs(on(i, o.level)) /\ ArePairs(new) BY <2>1, <2>4
      <3> QED BY <3>1, <3>2, <3>3, <3>4, PairParts
    <2>10. Cardinality(new) = o.qty
      <3>1. 0 \in Nat /\ o.qty \in Nat /\ 0 <= o.qty BY <1>1
      <3>2. Cardinality({id} \X ((0 + 1)..o.qty)) = o.qty - 0 BY <3>1, IntervalContracts
      <3> QED BY <3>1, <3>2 DEF new
    <2> QED BY <1>1, <1>4, <1>5, <2>9, <2>10
  <1>8. \A j \in Instrument, l \in Level : lv[j][l] = Cardinality(Contracts(o2, DOMAIN o2, j, l))
    BY <1>6, <1>7
  <1>9. lv \in [Instrument -> [Level -> Nat]]
    <2>1. \A j \in Instrument, l \in Level : lv[j][l] \in Nat
      <3> HIDE DEF lv, o2
      <3> QED BY <1>3, <1>8, ContractsBounded
    <2> QED BY <2>1 DEF AggOK
  <1>10. tc \in SUBSET Level BY <1>1 DEF AggOK
  <1>11. \A j \in Instrument, l \in Level : j # i \/ l \notin tc => lv[j][l] = s.levels[j][l]
    BY <1>4
  <1>12. /\ \A l \in s.touched : l \in tc
         /\ DOMAIN o2 = DOMAIN s.orders \cup {id}
         /\ \A x \in DOMAIN o2 : o2[x] = IF x = id THEN o ELSE s.orders[x]
         /\ o2 = [x \in DOMAIN o2 |-> o2[x]]
    OBVIOUS
  <1> HIDE DEF t, lv, o2, tc
  <1>13. AggOK(t) BY <1>2, <1>3, <1>8, <1>9, <1>10, <1>12 DEF AggOK, DepthOK
  <1>14. Moves(s, t, i) BY <1>2, <1>11, <1>12 DEF Moves
  <1> QED BY <1>2, <1>12, <1>13, <1>14 DEF t

\* What an action of the venue hands to Turn: it consumes or removes orders of one
\* instrument that rest, in part at most what they have, and adds one under a fresh id.
GoodEvent(e) ==
    /\ e.inst \in Instrument /\ e.maker \in BOOLEAN
    /\ e.filled # None => /\ e.filled \in DOMAIN book /\ book[e.filled].inst = e.inst
                          /\ e.amount \in 1..book[e.filled].qty /\ e.filled \notin e.removed
    /\ \A id \in e.removed : id \in DOMAIN book /\ book[id].inst = e.inst
    /\ e.rests # None => /\ e.rests \in OrderId /\ e.rests \notin used
                         /\ e.order \in Resting /\ e.order.inst = e.inst

LEMMA MovesTwice ==
  ASSUME NEW s, NEW t, NEW u, NEW i, Moves(s, t, i), Moves(t, u, i)
  PROVE  Moves(s, u, i)
  BY DEF Moves

LEMMA StillMoves ==
  ASSUME NEW s, NEW i
  PROVE  Moves(s, s, i)
  BY DEF Moves

LEMMA KnownIsBook ==
  ASSUME BookOK(orders, book, used, hidden), NEW id \in DOMAIN book
  PROVE  id \in DOMAIN orders => id \notin hidden /\ orders[id] = book[id]
  BY DEF BookOK

\* The fold of a committed event keeps the aggregate a count of the contracts, touches
\* one instrument, and notes every level it touches.
LEMMA ApplyKeeps ==
  ASSUME BookOK(orders, book, used, hidden), DepthOK(orders, levels),
         levels \in [Instrument -> Depth], NEW e, GoodEvent(e)
  PROVE  LET s0 == [orders |-> orders, levels |-> levels, touched |-> {}]
             s == Apply(e)
         IN  /\ AggOK(s) /\ Moves(s0, s, e.inst)
             /\ \A x : x \in DOMAIN s.orders <=>
                  \/ x = e.rests /\ x # None
                  \/ /\ x \in DOMAIN orders /\ x \notin e.removed
                     /\ ~ (x = e.filled /\ x # None /\ e.amount >= orders[x].qty)
             /\ \A x \in DOMAIN s.orders : s.orders[x] =
                  IF x = e.rests /\ x # None THEN e.order
                  ELSE IF x = e.filled /\ x # None THEN [orders[x] EXCEPT !.qty = @ - e.amount]
                  ELSE orders[x]
  <1> DEFINE s0 == [orders |-> orders, levels |-> levels, touched |-> {}]
             s1 == IF e.filled = None THEN s0 ELSE ReduceOrder(s0, e.filled, e.amount)
             s2 == RemoveOrders(s1, e.removed)
             s == Apply(e)
             i == e.inst
  <1>0. /\ s0.orders = orders /\ s0.levels = levels /\ s0.touched = {}
        /\ s = IF e.rests = None THEN s2 ELSE RestOrder(s2, e.rests, e.order)
    BY DEF Apply
  <1>1. AggOK(s0)
    <2>1. levels \in [Instrument -> [Level -> Nat]] BY MaxDepthIsNat DEF Depth, MaxDepth
    <2>2. \A id \in DOMAIN orders : id \in OrderId /\ orders[id] \in Resting BY DEF BookOK
    <2>3. orders = [id \in DOMAIN orders |-> orders[id]] BY DEF BookOK
    <2> QED BY <2>1, <2>2, <2>3 DEF AggOK
  <1>2. /\ AggOK(s1) /\ Moves(s0, s1, i)
        /\ \A x : x \in DOMAIN s1.orders <=>
             x \in DOMAIN orders /\ ~ (x = e.filled /\ x # None /\ e.amount >= orders[x].qty)
        /\ \A x \in DOMAIN s1.orders : s1.orders[x] =
             IF x = e.filled /\ x # None THEN [orders[x] EXCEPT !.qty = @ - e.amount] ELSE orders[x]
    <2>1. CASE e.filled = None
      <3>1. s1 = s0 BY <2>1
      <3> HIDE DEF s1, s0
      <3> QED BY <2>1, <3>1, <1>0, <1>1, StillMoves
    <2>2. CASE e.filled # None
      <3> DEFINE m == e.filled
                 am == e.amount
                 u == ReduceOrder(s0, m, am)
      <3>1. m \in DOMAIN s0.orders => s0.orders[m].inst = i
        BY <1>0, <2>2, KnownIsBook DEF GoodEvent
      <3>2. am \in Nat
        <4>1. book[m] \in Resting BY <2>2 DEF GoodEvent, BookOK
        <4>2. book[m].qty \in Nat BY <4>1, QtyIsNat DEF Resting
        <4> QED BY <2>2, <4>2 DEF GoodEvent
      <3>3. s1 = u BY <2>2
      <3> HIDE DEF m, am, s0, s1
      <3>4. /\ AggOK(u) /\ Moves(s0, u, i)
            /\ \A x : x \in DOMAIN u.orders <=> x \in DOMAIN s0.orders /\ ~ (x = m /\ am >= s0.orders[x].qty)
            /\ \A x \in DOMAIN u.orders :
                 u.orders[x] = IF x = m THEN [s0.orders[x] EXCEPT !.qty = @ - am] ELSE s0.orders[x]
        <4> HIDE DEF i
        <4>1. AggOK(u) /\ Moves(s0, u, i) BY <1>1, <3>1, <3>2, ReduceKeeps
        <4>2. \A x : x \in DOMAIN u.orders <=> x \in DOMAIN s0.orders /\ ~ (x = m /\ am >= s0.orders[x].qty)
          BY <1>1, <3>1, <3>2, ReduceKeeps
        <4>3. \A x \in DOMAIN u.orders :
                 u.orders[x] = IF x = m THEN [s0.orders[x] EXCEPT !.qty = @ - am] ELSE s0.orders[x]
          BY <1>1, <3>1, <3>2, ReduceKeeps
        <4> HIDE DEF u
        <4> QED BY <4>1, <4>2, <4>3
      <3> HIDE DEF u, i
      <3> QED BY <1>0, <2>2, <3>3, <3>4 DEF m, am
    <2> QED BY <2>1, <2>2
  <1> HIDE DEF s1, s0
  <1>3. /\ AggOK(s2) /\ Moves(s1, s2, i)
        /\ \A x : x \in DOMAIN s2.orders <=> x \in DOMAIN s1.orders /\ x \notin e.removed
        /\ \A x \in DOMAIN s2.orders : s2.orders[x] = s1.orders[x]
    <2> DEFINE rem == e.removed
    <2>1. \A id \in rem : id \in DOMAIN s1.orders => s1.orders[id].inst = i
      <3> SUFFICES ASSUME NEW id \in rem, id \in DOMAIN s1.orders PROVE s1.orders[id].inst = i
        OBVIOUS
      <3>1. id \in DOMAIN book /\ book[id].inst = i /\ (e.filled # None => id # e.filled) BY DEF GoodEvent
      <3>2. id \in DOMAIN orders /\ orders[id] = book[id] BY <1>2, <3>1, KnownIsBook
      <3>3. s1.orders[id] = orders[id] BY <1>2, <3>1
      <3> QED BY <3>1, <3>2, <3>3
    <2> HIDE DEF rem, i
    <2> DEFINE t == RemoveOrders(s1, rem)
    <2>2. AggOK(s1) BY <1>2
    <2>3. AggOK(t) /\ Moves(s1, t, i) BY <2>1, <2>2, RemoveKeeps
    <2>4. \A x : x \in DOMAIN t.orders <=> x \in DOMAIN s1.orders /\ x \notin rem
      BY <2>1, <2>2, RemoveKeeps
    <2>5. \A x \in DOMAIN t.orders : t.orders[x] = s1.orders[x]
      BY DEF RemoveOrders, Restrict
    <2> QED BY <2>3, <2>4, <2>5 DEF rem
  <1> HIDE DEF s2
  <1>4. Moves(s0, s2, i) BY <1>2, <1>3, MovesTwice
  <1>5. CASE e.rests = None
    <2>1. s = s2 BY <1>0, <1>5
    <2> HIDE DEF s, i
    <2> QED BY <1>2, <1>3, <1>4, <1>5, <2>1 DEF s, s0, i
  <1>6. CASE e.rests # None
    <2> DEFINE id == e.rests
               o == e.order
               u == RestOrder(s2, id, o)
    <2>1. id \in OrderId /\ o \in Resting /\ o.inst = i /\ id \notin used BY <1>6 DEF GoodEvent
    <2>2. id \notin DOMAIN orders BY <2>1 DEF BookOK
    <2>3. id \notin DOMAIN s2.orders BY <2>2, <1>2, <1>3
    <2>4. s = u BY <1>0, <1>6
    <2>5. id # None BY <1>6
    <2> HIDE DEF id, o, s
    <2>6. /\ AggOK(u) /\ Moves(s2, u, o.inst)
          /\ \A x : x \in DOMAIN u.orders <=> x \in DOMAIN s2.orders \/ x = id
          /\ \A x \in DOMAIN u.orders : u.orders[x] = IF x = id THEN o ELSE s2.orders[x]
      BY <1>3, <2>1, <2>3, RestKeeps
    <2>7. Moves(s0, u, i)
      <3> HIDE DEF u
      <3> QED BY <1>4, <2>1, <2>6, MovesTwice
    <2>8. \A x : x \in DOMAIN u.orders <=>
                  \/ x = id
                  \/ /\ x \in DOMAIN orders /\ x \notin e.removed
                     /\ ~ (x = e.filled /\ x # None /\ e.amount >= orders[x].qty)
      <3> HIDE DEF u
      <3> QED BY <1>2, <1>3, <2>6, Zenon
    <2>9. \A x \in DOMAIN u.orders : u.orders[x] =
                  IF x = id THEN o
                  ELSE IF x = e.filled /\ x # None THEN [orders[x] EXCEPT !.qty = @ - e.amount]
                  ELSE orders[x]
      <3> HIDE DEF u
      <3> QED BY <1>2, <1>3, <2>6
    <2> HIDE DEF u, i
    <2> QED BY <2>4, <2>5, <2>6, <2>7, <2>8, <2>9 DEF s, s0, i, id, o
  <1> QED BY <1>5, <1>6

LEMMA BookAfterIs ==
  ASSUME BookOK(orders, book, used, hidden), NEW e, GoodEvent(e)
  PROVE  /\ \A x : x \in DOMAIN BookAfter(e) <=>
              \/ x = e.rests /\ x # None
              \/ /\ x \in DOMAIN book /\ x \notin e.removed
                 /\ ~ (x = e.filled /\ x # None /\ e.amount >= book[x].qty)
         /\ \A x \in DOMAIN BookAfter(e) : BookAfter(e)[x] =
              IF x = e.rests /\ x # None THEN e.order
              ELSE IF x = e.filled /\ x # None THEN [book[x] EXCEPT !.qty = @ - e.amount]
              ELSE book[x]
  <1> DEFINE left == [id \in DOMAIN book |->
                        IF id = e.filled THEN [book[id] EXCEPT !.qty = Less(@, e.amount)]
                        ELSE book[id]]
             stay == {id \in DOMAIN book : left[id].qty > 0 /\ id \notin e.removed}
             b == [id \in stay \cup ({e.rests} \ {None}) |->
                     IF id = e.rests THEN e.order ELSE left[id]]
  <1>1. BookAfter(e) = b BY DEF BookAfter
  <1>2. \A x \in DOMAIN book : x \in OrderId /\ x # None /\ book[x] \in Resting
    BY MarketDataAssumption DEF BookOK
  <1>3. \A x \in DOMAIN book : book[x].qty \in Nat /\ book[x].qty >= 1
    BY <1>2, QtyIsNat DEF Resting
  <1>4. ASSUME NEW x \in DOMAIN book, x # e.filled PROVE left[x] = book[x] /\ left[x].qty > 0
    BY <1>3, <1>4
  <1>5. ASSUME NEW x \in DOMAIN book, x = e.filled
        PROVE  /\ left[x].qty > 0 <=> ~ (e.amount >= book[x].qty)
               /\ left[x] = [book[x] EXCEPT !.qty = @ - e.amount]
    <2>1. e.amount \in Nat /\ e.amount <= book[x].qty /\ book[x].qty \in Nat
      BY <1>2, <1>3, <1>5 DEF GoodEvent
    <2>2. left[x] = [book[x] EXCEPT !.qty = Less(@, e.amount)] BY <1>5
    <2>3. Less(book[x].qty, e.amount) = book[x].qty - e.amount BY <2>1 DEF Less
    <2>4. left[x] = [book[x] EXCEPT !.qty = @ - e.amount] BY <2>2, <2>3
    <2>5. left[x].qty = book[x].qty - e.amount BY <1>2, <2>4 DEF Resting
    <2> HIDE DEF left
    <2> QED BY <2>1, <2>4, <2>5
  <1>6. ASSUME NEW x
        PROVE  x \in DOMAIN b <=>
              \/ x = e.rests /\ x # None
              \/ /\ x \in DOMAIN book /\ x \notin e.removed
                 /\ ~ (x = e.filled /\ x # None /\ e.amount >= book[x].qty)
    <2>1. x \in DOMAIN b <=> (x = e.rests /\ x # None) \/ x \in stay OBVIOUS
    <2>2. x \in stay <=> x \in DOMAIN book /\ left[x].qty > 0 /\ x \notin e.removed OBVIOUS
    <2> HIDE DEF b, stay, left
    <2>3. CASE x \notin DOMAIN book BY <2>1, <2>2, <2>3, Zenon
    <2>4. CASE x \in DOMAIN book /\ x # e.filled BY <2>1, <2>2, <2>4, <1>4, Zenon
    <2>5. CASE x \in DOMAIN book /\ x = e.filled
      <3>1. x # None BY <1>2, <2>5
      <3>2. left[x].qty > 0 <=> ~ (e.amount >= book[x].qty) BY <1>5, <2>5
      <3> QED BY <2>1, <2>2, <2>5, <3>1, <3>2, Zenon
    <2> QED BY <2>3, <2>4, <2>5
  <1>7. ASSUME NEW x \in DOMAIN b
        PROVE  b[x] = IF x = e.rests /\ x # None THEN e.order
                      ELSE IF x = e.filled /\ x # None THEN [book[x] EXCEPT !.qty = @ - e.amount]
                      ELSE book[x]
    <2>1. b[x] = IF x = e.rests THEN e.order ELSE left[x] OBVIOUS
    <2>2. CASE x = e.rests
      <3>1. x # None
        <4>1. x \in stay \cup ({e.rests} \ {None}) OBVIOUS
        <4>2. CASE x \in stay BY <4>2, <1>2
        <4>3. CASE x \in {e.rests} \ {None} BY <4>3
        <4> QED BY <4>1, <4>2, <4>3
      <3> HIDE DEF b, left, stay
      <3> QED BY <2>1, <2>2, <3>1
    <2>3. CASE x # e.rests
      <3>1. x \in DOMAIN book BY <1>6, <2>3
      <3>2. x # None BY <1>2, <3>1
      <3> HIDE DEF b, left
      <3>3. b[x] = left[x] BY <2>1, <2>3
      <3>4. CASE x = e.filled
        <4>1. left[x] = [book[x] EXCEPT !.qty = @ - e.amount] BY <1>5, <3>1, <3>4
        <4> QED BY <2>3, <3>2, <3>3, <3>4, <4>1
      <3>5. CASE x # e.filled
        <4>1. left[x] = book[x] BY <1>4, <3>1, <3>5
        <4> QED BY <2>3, <3>2, <3>3, <3>5, <4>1
      <3> QED BY <3>4, <3>5
    <2> QED BY <2>2, <2>3
  <1> HIDE DEF b
  <1>8. /\ \A x : x \in DOMAIN b <=>
              \/ x = e.rests /\ x # None
              \/ /\ x \in DOMAIN book /\ x \notin e.removed
                 /\ ~ (x = e.filled /\ x # None /\ e.amount >= book[x].qty)
        /\ \A x \in DOMAIN b : b[x] =
              IF x = e.rests /\ x # None THEN e.order
              ELSE IF x = e.filled /\ x # None THEN [book[x] EXCEPT !.qty = @ - e.amount]
              ELSE book[x]
    BY <1>6, <1>7
  <1> QED BY <1>1, <1>8

LEMMA TurnKeepsBook ==
  ASSUME BookOK(orders, book, used, hidden), DepthOK(orders, levels),
         levels \in [Instrument -> Depth], NEW e, GoodEvent(e),
         NEW u2 \in SUBSET OrderId, \A id \in used : id \in u2, e.rests # None => e.rests \in u2
  PROVE  BookOK(Apply(e).orders, BookAfter(e), u2, hidden)
  <1> DEFINE o == Apply(e).orders
             b == BookAfter(e)
  <1>1. /\ AggOK(Apply(e))
        /\ \A x : x \in DOMAIN o <=>
                  \/ x = e.rests /\ x # None
                  \/ /\ x \in DOMAIN orders /\ x \notin e.removed
                     /\ ~ (x = e.filled /\ x # None /\ e.amount >= orders[x].qty)
        /\ \A x \in DOMAIN o : o[x] =
                  IF x = e.rests /\ x # None THEN e.order
                  ELSE IF x = e.filled /\ x # None THEN [orders[x] EXCEPT !.qty = @ - e.amount]
                  ELSE orders[x]
    BY ApplyKeeps
  <1>2. o = [id \in DOMAIN o |-> o[id]] /\ \A id \in DOMAIN o : o[id] \in Resting
    BY <1>1 DEF AggOK
  <1>3. /\ \A x : x \in DOMAIN b <=>
              \/ x = e.rests /\ x # None
              \/ /\ x \in DOMAIN book /\ x \notin e.removed
                 /\ ~ (x = e.filled /\ x # None /\ e.amount >= book[x].qty)
        /\ \A x \in DOMAIN b : b[x] =
              IF x = e.rests /\ x # None THEN e.order
              ELSE IF x = e.filled /\ x # None THEN [book[x] EXCEPT !.qty = @ - e.amount]
              ELSE book[x]
    BY BookAfterIs
  <1> HIDE DEF o, b
  <1>4. hidden \in SUBSET u2 BY DEF BookOK
  <1>5. \A id \in DOMAIN o : id \in u2 BY <1>1 DEF BookOK
  <1>6. \A id \in DOMAIN b : id \in u2 BY <1>3 DEF BookOK
  <1>7. ASSUME NEW id \in DOMAIN b PROVE b[id] \in Resting
    <2>1. CASE id = e.rests /\ id # None BY <1>3, <2>1 DEF GoodEvent
    <2>2. CASE ~ (id = e.rests /\ id # None)
      <3>1. id \in DOMAIN book /\ book[id] \in Resting /\ ~ (id = e.filled /\ id # None /\ e.amount >= book[id].qty)
        BY <1>3, <2>2 DEF BookOK
      <3>2. book[id].qty \in Nat /\ book[id].qty \in 1..MaxQty /\ MaxQty \in Nat
        BY <3>1, MarketDataAssumption DEF Resting, Qty
      <3>3. CASE id = e.filled /\ id # None
        <4>1. b[id] = [book[id] EXCEPT !.qty = @ - e.amount] BY <1>3, <2>2, <3>3
        <4>2. e.amount \in 1..book[id].qty BY <3>3 DEF GoodEvent
        <4>3. book[id].qty - e.amount \in 1..MaxQty BY <3>1, <3>2, <3>3, <4>2
        <4> QED BY <3>1, <4>1, <4>3 DEF Resting, Qty
      <3>4. CASE ~ (id = e.filled /\ id # None)
        <4>1. b[id] = book[id] BY <1>3, <2>2, <3>4
        <4> QED BY <4>1, <3>1
      <3> QED BY <3>3, <3>4
    <2> QED BY <2>1, <2>2
  <1>8. e.rests # None => e.rests \notin hidden BY DEF BookOK, GoodEvent
  <1>9. \A id \in DOMAIN o \ hidden : id \in DOMAIN b /\ o[id] = b[id]
    <2> SUFFICES ASSUME NEW id \in DOMAIN o, id \notin hidden PROVE id \in DOMAIN b /\ o[id] = b[id]
      OBVIOUS
    <2>1. CASE id = e.rests /\ id # None BY <1>1, <1>3, <2>1
    <2>2. CASE ~ (id = e.rests /\ id # None)
      <3>1. id \in DOMAIN orders BY <1>1, <2>2
      <3>2. id \in DOMAIN book /\ orders[id] = book[id] BY <3>1 DEF BookOK
      <3>3. id \in DOMAIN b BY <1>1, <1>3, <2>2, <3>2
      <3> QED BY <1>1, <1>3, <2>2, <3>2, <3>3
    <2> QED BY <2>1, <2>2
  <1>10. \A id \in DOMAIN b \ hidden : id \in DOMAIN o
    <2> SUFFICES ASSUME NEW id \in DOMAIN b, id \notin hidden PROVE id \in DOMAIN o
      OBVIOUS
    <2>1. CASE id = e.rests /\ id # None BY <1>1, <2>1
    <2>2. CASE ~ (id = e.rests /\ id # None)
      <3>1. id \in DOMAIN book BY <1>3, <2>2
      <3>2. id \in DOMAIN orders /\ orders[id] = book[id] BY <3>1 DEF BookOK
      <3> QED BY <1>1, <1>3, <2>2, <3>2
    <2> QED BY <2>1, <2>2
  <1>11. \A id \in hidden : ~ (id \in DOMAIN o /\ id \in DOMAIN b)
    <2> SUFFICES ASSUME NEW id \in hidden, id \in DOMAIN o, id \in DOMAIN b PROVE FALSE
      OBVIOUS
    <2>1. ~ (id = e.rests /\ id # None) BY <1>8
    <2>2. id \in DOMAIN orders /\ id \in DOMAIN book BY <1>1, <1>3, <2>1
    <2> QED BY <2>2 DEF BookOK
  <1>12. BookOK(o, b, u2, hidden)
    BY <1>2, <1>4, <1>5, <1>6, <1>7, <1>9, <1>10, <1>11 DEF BookOK
  <1> QED BY <1>12 DEF o, b

GoodTurn(e) ==
    /\ GoodEvent(e) /\ Turn(e)
    /\ used' \in SUBSET OrderId /\ (\A id \in used : id \in used')
    /\ e.rests # None => e.rests \in used'

LEMMA MintIsFresh ==
  ASSUME BookOK(orders, book, used, hidden), NEW maker, Fresh(maker) # {}
  PROVE  /\ Mint(maker) \in OrderId /\ Mint(maker) \notin used /\ Mint(maker) # None
         /\ used \cup {Mint(maker)} \in SUBSET OrderId
  <1>1. Mint(maker) \in Fresh(maker) BY DEF Mint
  <1> QED BY <1>1, MarketDataAssumption DEF Fresh, BookOK

\* Whatever an incoming order meets is a good event.
LEMMA PlacedIsGood ==
  ASSUME BookOK(orders, book, used, hidden), NEW i \in Instrument, NEW maker \in BOOLEAN,
         NEW gone, \A x \in gone : x \in DOMAIN book /\ book[x].inst = i,
         NEW id \in OrderId, id \notin used, id # None, id \in used',
         used' \in SUBSET OrderId, \A x \in used : x \in used',
         NEW o \in Resting, o.inst = i, Placed(i, maker, gone, id, o)
  PROVE  \E e : GoodTurn(e)
  <1> DEFINE across == {m \in Here(i) \ gone : book[m].level # o.level}
             met(m) == IF m = None THEN 0 ELSE Least(o.qty, book[m].qty)
             left(m) == [o EXCEPT !.qty = @ - met(m)]
             v(stp, m, keep) == [Event(i, maker) EXCEPT
                                   !.filled = m, !.amount = met(m), !.removed = gone \cup stp,
                                   !.rests = IF keep THEN id ELSE None,
                                   !.order = IF keep THEN left(m) ELSE None]
  <1>1. \E stp \in SUBSET across : \E m \in (across \ stp) \cup {None}, keep \in BOOLEAN :
          (keep => met(m) < o.qty) /\ Turn(v(stp, m, keep))
    BY DEF Placed
  <1>2. \A m \in across : m \in DOMAIN book /\ m # None /\ book[m].inst = i /\ book[m] \in Resting
                         /\ m \notin gone
    BY MarketDataAssumption DEF Here, BookOK
  <1> HIDE DEF across
  <1>3. PICK stp \in SUBSET across : \E m \in (across \ stp) \cup {None}, keep \in BOOLEAN :
          (keep => met(m) < o.qty) /\ Turn(v(stp, m, keep))
    BY <1>1
  <1>4. PICK m \in (across \ stp) \cup {None}, keep \in BOOLEAN :
          (keep => met(m) < o.qty) /\ Turn(v(stp, m, keep))
    BY <1>3
  <1>5. o.qty \in Nat /\ o.qty >= 1 /\ o.qty <= MaxQty /\ MaxQty \in Nat
    BY MarketDataAssumption DEF Resting, Qty
  <1>6. m # None => /\ m \in across /\ m \notin stp
                    /\ book[m].qty \in Nat /\ book[m].qty >= 1
    BY <1>2, <1>4, QtyIsNat DEF Resting
  <1>7. m # None => met(m) \in 1..book[m].qty
    BY <1>5, <1>6 DEF Least
  <1>8. met(m) \in Nat
    BY <1>5, <1>6 DEF Least
  <1> DEFINE a == met(m)
  <1>9. keep => left(m) \in Resting /\ left(m).inst = i
    <2>1. a \in Nat /\ (keep => a < o.qty) BY <1>4, <1>8
    <2> HIDE DEF a
    <2>2. keep => o.qty - a \in Qty BY <1>5, <2>1 DEF Qty
    <2>3. keep => [o EXCEPT !.qty = @ - a] \in Resting /\ [o EXCEPT !.qty = @ - a].inst = i
      BY <2>2 DEF Resting
    <2> QED BY <2>3 DEF a
  <1> HIDE DEF met, left
  <1> DEFINE w == v(stp, m, keep)
  <1>10. /\ w.inst = i /\ w.maker = maker /\ w.filled = m /\ w.amount = met(m)
         /\ w.removed = gone \cup stp
         /\ w.rests = (IF keep THEN id ELSE None) /\ w.order = (IF keep THEN left(m) ELSE None)
    BY DEF Event
  <1>11. Turn(w) BY <1>4
  <1> HIDE DEF w, v
  <1>12. m # None => m \in DOMAIN book /\ book[m].inst = i /\ m \notin gone \cup stp
    BY <1>2, <1>6
  <1>13. \A x \in gone \cup stp : x \in DOMAIN book /\ book[x].inst = i
    BY <1>2
  <1>14. GoodEvent(w) BY <1>7, <1>9, <1>10, <1>12, <1>13 DEF GoodEvent
  <1>15. GoodTurn(w) BY <1>10, <1>11, <1>14 DEF GoodTurn
  <1> QED BY <1>15

LEMMA AddIsGood ==
  ASSUME BookOK(orders, book, used, hidden), NEW maker \in BOOLEAN, NEW i \in Instrument,
         NEW l \in Level, NEW q \in Qty, AddOrder(maker, i, l, q)
  PROVE  \E e : GoodTurn(e)
  <1> DEFINE id == Mint(maker)
             o == [inst |-> i, level |-> l, qty |-> q]
             none == {}
  <1>1. Fresh(maker) # {} /\ used' = used \cup {id} /\ Placed(i, maker, none, id, o)
    BY DEF AddOrder
  <1>2. /\ id \in OrderId /\ id \notin used /\ id # None /\ used' \in SUBSET OrderId
        /\ (\A x \in used : x \in used') /\ id \in used'
    BY <1>1, MintIsFresh
  <1>3. o \in Resting /\ o.inst = i BY DEF Resting
  <1>4. \A x \in none : x \in DOMAIN book /\ book[x].inst = i OBVIOUS
  <1> HIDE DEF id, o, none
  <1> QED BY <1>1, <1>2, <1>3, <1>4, PlacedIsGood

LEMMA RemovalIsGood ==
  ASSUME BookOK(orders, book, used, hidden), NEW i \in Instrument, NEW maker \in BOOLEAN,
         NEW swept, \A id \in swept : id \in DOMAIN book /\ book[id].inst = i,
         Turn([Event(i, maker) EXCEPT !.removed = swept]),
         used' \in SUBSET OrderId, \A id \in used : id \in used'
  PROVE  \E e : GoodTurn(e)
  <1> DEFINE v == [Event(i, maker) EXCEPT !.removed = swept]
  <1>1. v.inst = i /\ v.maker = maker /\ v.filled = None /\ v.removed = swept /\ v.rests = None
    BY DEF Event
  <1>2. Turn(v) OBVIOUS
  <1> HIDE DEF v
  <1>3. GoodEvent(v) BY <1>1 DEF GoodEvent
  <1>4. GoodTurn(v) BY <1>1, <1>2, <1>3 DEF GoodTurn
  <1> QED BY <1>4

LEMMA CancelIsGood ==
  ASSUME BookOK(orders, book, used, hidden), NEW id, CancelOrder(id)
  PROVE  \E e : GoodTurn(e)
  <1> DEFINE i == book[id].inst
             mk == id \in MakerId
             one == {id}
  <1>1. /\ id \in DOMAIN book /\ used' = used
        /\ Turn([Event(i, mk) EXCEPT !.removed = one])
    BY DEF CancelOrder
  <1>2. i \in Instrument /\ mk \in BOOLEAN BY <1>1 DEF BookOK, Resting
  <1>3. \A x \in one : x \in DOMAIN book /\ book[x].inst = i BY <1>1
  <1>4. used' \in SUBSET OrderId /\ \A x \in used : x \in used' BY <1>1 DEF BookOK
  <1> HIDE DEF i, mk, one
  <1> QED BY <1>1, <1>2, <1>3, <1>4, RemovalIsGood

LEMMA SweepIsGood ==
  ASSUME BookOK(orders, book, used, hidden), NEW i \in Instrument, NEW swept \in SUBSET Here(i),
         MassCancelBook(i, swept)
  PROVE  \E e : GoodTurn(e)
  <1> DEFINE mk == FALSE
  <1>1. used' = used /\ Turn([Event(i, mk) EXCEPT !.removed = swept]) BY DEF MassCancelBook
  <1>2. \A x \in swept : x \in DOMAIN book /\ book[x].inst = i BY DEF Here
  <1>3. used' \in SUBSET OrderId /\ \A x \in used : x \in used' BY <1>1 DEF BookOK
  <1>4. mk \in BOOLEAN OBVIOUS
  <1> HIDE DEF mk
  <1> QED BY <1>1, <1>2, <1>3, <1>4, RemovalIsGood

LEMMA ReplaceIsGood ==
  ASSUME BookOK(orders, book, used, hidden), NEW id, NEW l \in Level, NEW q \in Qty, Replace(id, l, q)
  PROVE  \E e : GoodTurn(e)
  <1> DEFINE i == book[id].inst
             new == Mint(FALSE)
             one == {id}
             mk == FALSE
             o == [inst |-> i, level |-> l, qty |-> q]
  <1>1. /\ id \in DOMAIN book /\ Fresh(FALSE) # {} /\ used' = used \cup {new}
        /\ Placed(i, mk, one, new, o)
    BY DEF Replace
  <1>2. i \in Instrument BY <1>1 DEF BookOK, Resting
  <1>3. /\ new \in OrderId /\ new \notin used /\ new # None /\ used' \in SUBSET OrderId
        /\ (\A x \in used : x \in used') /\ new \in used'
    BY <1>1, MintIsFresh
  <1>4. \A x \in one : x \in DOMAIN book /\ book[x].inst = i BY <1>1
  <1>5. o \in Resting /\ o.inst = i BY <1>2 DEF Resting
  <1>6. mk \in BOOLEAN OBVIOUS
  <1> HIDE DEF i, new, one, mk, o
  <1> QED BY <1>1, <1>2, <1>3, <1>4, <1>5, <1>6, PlacedIsGood
-----------------------------------------------------------------------------
(* Messages and the stream.                                                 *)

Tape == [kind |-> "print"]

LEMMA PrintIsMsg ==
  Tape \in Msg /\ \A i : ~ DeltaOf(Tape, i)
  BY DEF Tape, Msg, DeltaOf

LEMMA DeltaIsMsg ==
  ASSUME NEW i \in Instrument, NEW n \in Nat, NEW ch \in ChangeSet
  PROVE  /\ Delta(i, n, ch) \in Msg /\ DeltaOf(Delta(i, n, ch), i)
         /\ Delta(i, n, ch).kind = "delta" /\ Delta(i, n, ch).inst = i
         /\ Delta(i, n, ch).seq = n /\ Delta(i, n, ch).changes = ch
         /\ \A j : DeltaOf(Delta(i, n, ch), j) => j = i
  BY DEF Delta, Msg, DeltaOf

LEMMA MsgIs ==
  ASSUME NEW m \in Msg
  PROVE  /\ m.kind = "print" \/ m.kind = "delta"
         /\ m.kind = "delta" => m.inst \in Instrument /\ m.seq \in Nat /\ m.changes \in ChangeSet
                                  /\ DeltaOf(m, m.inst)
         /\ m.kind # "print" => DeltaOf(m, m.inst) /\ m.inst \in Instrument
         /\ \A i : DeltaOf(m, i) => m.kind = "delta" /\ m.inst = i /\ m.kind # "print"
  BY DEF Msg, DeltaOf

LEMMA PatchType ==
  ASSUME NEW v \in Depth, NEW ch \in ChangeSet
  PROVE  Patch(v, ch) \in Depth
  <1>1. PICK S \in SUBSET Level : ch \in [S -> 0..MaxDepth] BY DEF ChangeSet
  <1>2. v \in [Level -> 0..MaxDepth] BY DEF Depth, MaxDepth
  <1>3. Patch(v, ch) \in [Level -> 0..MaxDepth] BY <1>1, <1>2 DEF Patch
  <1> QED BY <1>3 DEF Depth, MaxDepth

\* h with the messages of s after position n.
Onto(h, n, s) == [p \in Nat |-> IF p \in (n + 1)..(n + Len(s)) THEN s[p - n] ELSE h[p]]

LEMMA OntoIs ==
  ASSUME NEW h \in [Nat -> Msg], NEW n \in Nat, NEW s \in Seq(Msg)
  PROVE  /\ Onto(h, n, s) \in [Nat -> Msg]
         /\ \A p \in 1..n : Onto(h, n, s)[p] = h[p]
         /\ \A k \in 1..Len(s) : n + k \in Nat /\ Onto(h, n, s)[n + k] = s[k]
         /\ PartOf(s, Onto(h, n, s), n)
  <1> DEFINE g == Onto(h, n, s)
  <1>1. Len(s) \in Nat OBVIOUS
  <1>2. \A p \in Nat : g[p] = IF p \in (n + 1)..(n + Len(s)) THEN s[p - n] ELSE h[p]
    BY DEF Onto
  <1>3. ASSUME NEW p \in Nat PROVE g[p] \in Msg
    <2>1. CASE p \in (n + 1)..(n + Len(s))
      <3>1. p - n \in 1..Len(s) BY <1>1, <2>1
      <3>2. g[p] = s[p - n] BY <1>2, <2>1
      <3>3. \A k \in 1..Len(s) : s[k] \in Msg OBVIOUS
      <3> QED BY <3>1, <3>2, <3>3
    <2>2. CASE p \notin (n + 1)..(n + Len(s)) BY <1>2, <2>2
    <2> QED BY <2>1, <2>2
  <1>4. g \in [Nat -> Msg] BY <1>3 DEF Onto
  <1>5. \A p \in 1..n : g[p] = h[p] BY <1>1, <1>2
  <1>6. ASSUME NEW k \in 1..Len(s) PROVE n + k \in Nat /\ g[n + k] = s[k]
    <2>1. n + k \in Nat /\ n + k \in (n + 1)..(n + Len(s)) /\ (n + k) - n = k BY <1>1
    <2> QED BY <1>2, <2>1
  <1> HIDE DEF g
  <1>7. PartOf(s, g, n) BY <1>6 DEF PartOf
  <1> QED BY <1>4, <1>5, <1>6, <1>7 DEF g

\* A batch of prints.
AllPrints(s) == \A k \in 1..Len(s) : s[k] = Tape

\* A delta with the next number of i, and then prints.
OneDelta(s, i, n, ch) == Len(s) >= 1 /\ s[1] = Delta(i, n, ch) /\ \A k \in 2..Len(s) : s[k] = Tape

LEMMA PrintsKeepNumbers ==
  ASSUME NEW h \in [Nat -> Msg], NEW n \in Nat, NEW s \in Seq(Msg), AllPrints(s),
         NEW sq \in [Instrument -> Nat], Numbered(h, n, sq)
  PROVE  Numbered(Onto(h, n, s), n + Len(s), sq)
  <1> DEFINE g == Onto(h, n, s)
             N == n + Len(s)
  <1>1. Len(s) \in Nat /\ N \in Nat OBVIOUS
  <1>2. /\ g \in [Nat -> Msg]
        /\ \A p \in 1..n : g[p] = h[p]
        /\ \A k \in 1..Len(s) : n + k \in Nat /\ g[n + k] = s[k]
    BY OntoIs
  <1>3. \A p \in 1..N, i \in Instrument : DeltaOf(g[p], i) => p \in 1..n /\ g[p] = h[p]
    <2> SUFFICES ASSUME NEW p \in 1..N, NEW i \in Instrument, DeltaOf(g[p], i), p \notin 1..n PROVE FALSE
      BY <1>2
    <2>1. p - n \in 1..Len(s) /\ p = n + (p - n) BY <1>1
    <2>2. g[p] = Tape BY <1>2, <2>1 DEF AllPrints
    <2> QED BY <2>2, PrintIsMsg
  <1>4. \A p \in 1..N : g[p] \in Msg BY <1>1, <1>2
  <1>5. \A p \in 1..n : p \in 1..N /\ g[p] = h[p] BY <1>1, <1>2
  <1> HIDE DEF g, N
  <1>6. \A p \in 1..N, i \in Instrument : DeltaOf(g[p], i) => g[p].seq \in 1..sq[i]
    BY <1>3 DEF Numbered
  <1>7. \A p, q \in 1..N, i \in Instrument :
          p < q /\ DeltaOf(g[p], i) /\ DeltaOf(g[q], i) => g[p].seq < g[q].seq
    BY <1>3 DEF Numbered
  <1>8. \A i \in Instrument : \A k \in 1..sq[i] : \E p \in 1..N : DeltaOf(g[p], i) /\ g[p].seq = k
    <2> SUFFICES ASSUME NEW i \in Instrument, NEW k \in 1..sq[i]
                 PROVE  \E p \in 1..N : DeltaOf(g[p], i) /\ g[p].seq = k
      OBVIOUS
    <2>1. PICK p \in 1..n : DeltaOf(h[p], i) /\ h[p].seq = k BY DEF Numbered
    <2> QED BY <2>1, <1>5
  <1> QED BY <1>4, <1>6, <1>7, <1>8 DEF Numbered, g, N

LEMMA DeltaKeepsNumbers ==
  ASSUME NEW h \in [Nat -> Msg], NEW n \in Nat, NEW s \in Seq(Msg), NEW i \in Instrument,
         NEW sq \in [Instrument -> Nat], NEW ch \in ChangeSet, OneDelta(s, i, sq[i] + 1, ch),
         Numbered(h, n, sq)
  PROVE  Numbered(Onto(h, n, s), n + Len(s), [sq EXCEPT ![i] = sq[i] + 1])
  <1> DEFINE g == Onto(h, n, s)
             N == n + Len(s)
             sq2 == [sq EXCEPT ![i] = sq[i] + 1]
  <1>1. Len(s) \in Nat /\ N \in Nat /\ Len(s) >= 1 BY DEF OneDelta
  <1>2. /\ g \in [Nat -> Msg]
        /\ \A p \in 1..n : g[p] = h[p]
        /\ \A k \in 1..Len(s) : n + k \in Nat /\ g[n + k] = s[k]
    BY OntoIs
  <1>3. n + 1 \in 1..N /\ g[n + 1] = Delta(i, sq[i] + 1, ch)
    <2>1. 1 \in 1..Len(s) BY <1>1
    <2> QED BY <1>1, <1>2, <2>1 DEF OneDelta
  <1>4. /\ DeltaOf(g[n + 1], i) /\ g[n + 1].seq = sq[i] + 1
        /\ \A j : DeltaOf(g[n + 1], j) => j = i
    BY <1>3, DeltaIsMsg
  <1>5. \A p \in 1..N, j \in Instrument :
          DeltaOf(g[p], j) => (p \in 1..n /\ g[p] = h[p]) \/ (p = n + 1 /\ j = i)
    <2> SUFFICES ASSUME NEW p \in 1..N, NEW j \in Instrument, DeltaOf(g[p], j), p \notin 1..n, p # n + 1
                 PROVE  FALSE
      BY <1>2, <1>4
    <2>1. p - n \in 2..Len(s) /\ p - n \in 1..Len(s) /\ p = n + (p - n) BY <1>1
    <2>2. g[p] = Tape BY <1>2, <2>1 DEF OneDelta
    <2> QED BY <2>2, PrintIsMsg
  <1>6. \A p \in 1..N : g[p] \in Msg BY <1>1, <1>2
  <1>7. \A p \in 1..n : p \in 1..N /\ g[p] = h[p] BY <1>1, <1>2
  <1>8. \A j \in Instrument : sq2[j] = (IF j = i THEN sq[i] + 1 ELSE sq[j]) /\ sq[j] \in Nat OBVIOUS
  <1> HIDE DEF g, N, sq2
  <1>9. \A p \in 1..N, j \in Instrument : DeltaOf(g[p], j) => g[p].seq \in 1..sq2[j]
    <2> SUFFICES ASSUME NEW p \in 1..N, NEW j \in Instrument, DeltaOf(g[p], j) PROVE g[p].seq \in 1..sq2[j]
      OBVIOUS
    <2>1. CASE p \in 1..n /\ g[p] = h[p]
      <3>1. h[p].seq \in 1..sq[j] BY <2>1 DEF Numbered
      <3> QED BY <2>1, <3>1, <1>8
    <2>2. CASE p = n + 1 /\ j = i BY <2>2, <1>4, <1>8
    <2> QED BY <1>5, <2>1, <2>2
  <1>10. \A p, q \in 1..N, j \in Instrument :
          p < q /\ DeltaOf(g[p], j) /\ DeltaOf(g[q], j) => g[p].seq < g[q].seq
    <2> SUFFICES ASSUME NEW p \in 1..N, NEW q \in 1..N, NEW j \in Instrument,
                        p < q, DeltaOf(g[p], j), DeltaOf(g[q], j)
                 PROVE  g[p].seq < g[q].seq
      OBVIOUS
    <2>1. p \in 1..n /\ g[p] = h[p]
      <3>1. CASE p = n + 1 /\ j = i
        <4>1. q \notin 1..n /\ q # n + 1 BY <3>1, <1>1
        <4> QED BY <4>1, <1>5
      <3> QED BY <3>1, <1>5
    <2>2. CASE q \in 1..n /\ g[q] = h[q] BY <2>1, <2>2 DEF Numbered
    <2>3. CASE q = n + 1 /\ j = i
      <3>1. h[p].seq \in 1..sq[i] BY <2>1, <2>3 DEF Numbered
      <3> QED BY <2>1, <2>3, <3>1, <1>4, <1>8
    <2> QED BY <1>5, <2>2, <2>3
  <1>11. \A j \in Instrument : \A k \in 1..sq2[j] : \E p \in 1..N : DeltaOf(g[p], j) /\ g[p].seq = k
    <2> SUFFICES ASSUME NEW j \in Instrument, NEW k \in 1..sq2[j]
                 PROVE  \E p \in 1..N : DeltaOf(g[p], j) /\ g[p].seq = k
      OBVIOUS
    <2>1. CASE k \in 1..sq[j]
      <3>1. PICK p \in 1..n : DeltaOf(h[p], j) /\ h[p].seq = k BY <2>1 DEF Numbered
      <3> QED BY <3>1, <1>7
    <2>2. CASE k \notin 1..sq[j]
      <3>1. j = i /\ k = sq[i] + 1 BY <2>2, <1>8
      <3> QED BY <3>1, <1>3, <1>4
    <2> QED BY <2>1, <2>2
  <1> QED BY <1>6, <1>9, <1>10, <1>11 DEF Numbered, g, N, sq2

LEMMA BackOne == \A n \in Nat : (n + 1) - 1 = n /\ n \in 0..n
  OBVIOUS

\* The instrument's next number, and its depth there.
Bump(sq, i) == [sq EXCEPT ![i] = sq[i] + 1]
DepthAt(d, i, n, v) == [d EXCEPT ![i] = [d[i] EXCEPT ![n] = v]]

\* The maker may have become active, instruments other than i are left alone.
NoQuieter(qt, qt2) == \A j \in Instrument : qt2[j] => qt[j]
SameElse(lv, lv2, i) == \A j \in Instrument : j # i => lv2[j] = lv[j]

\* g extends h, and no number is taken back.
SameBefore(h, g, n) == \A p \in 1..n : g[p] = h[p]
NoLess(sq, sq2) == \A i \in Instrument : sq[i] <= sq2[i]

\* d2 says of the numbers so far what d says.
SameSoFar(d, d2, sq) == \A j \in Instrument : \A k \in 0..sq[j] : d2[j][k] = d[j][k]

LEMMA PrintsKeepDepths ==
  ASSUME NEW h \in [Nat -> Msg], NEW n \in Nat, NEW s \in Seq(Msg), AllPrints(s),
         NEW d, NEW sq, NEW lv, NEW lv2, NEW qt, NEW qt2, Depths(h, d, n, sq, lv, qt),
         \A i \in Instrument : qt2[i] => qt[i] /\ lv2[i] = lv[i]
  PROVE  Depths(Onto(h, n, s), d, n + Len(s), sq, lv2, qt2)
  <1> DEFINE g == Onto(h, n, s)
             N == n + Len(s)
  <1>1. Len(s) \in Nat /\ N \in Nat OBVIOUS
  <1>2. /\ \A p \in 1..n : g[p] = h[p]
        /\ \A k \in 1..Len(s) : g[n + k] = s[k]
    BY OntoIs
  <1>3. \A p \in 1..N, i \in Instrument : DeltaOf(g[p], i) => p \in 1..n /\ g[p] = h[p]
    <2> SUFFICES ASSUME NEW p \in 1..N, NEW i \in Instrument, DeltaOf(g[p], i), p \notin 1..n PROVE FALSE
      BY <1>2
    <2>1. p - n \in 1..Len(s) /\ p = n + (p - n) BY <1>1
    <2>2. g[p] = Tape BY <1>2, <2>1 DEF AllPrints
    <2> QED BY <2>2, PrintIsMsg
  <1> HIDE DEF g, N
  <1>4. ASSUME NEW i \in Instrument, qt2[i]
        PROVE  /\ d[i][sq[i]] = lv2[i]
               /\ \A p \in 1..N : DeltaOf(g[p], i) => d[i][g[p].seq] = Patch(d[i][g[p].seq - 1], g[p].changes)
    <2>1. qt[i] /\ lv2[i] = lv[i] BY <1>4
    <2>2. d[i][sq[i]] = lv2[i] BY <2>1 DEF Depths
    <2>3. ASSUME NEW p \in 1..N, DeltaOf(g[p], i)
          PROVE  d[i][g[p].seq] = Patch(d[i][g[p].seq - 1], g[p].changes)
      <3>1. p \in 1..n /\ g[p] = h[p] BY <1>3, <2>3
      <3>2. d[i][h[p].seq] = Patch(d[i][h[p].seq - 1], h[p].changes) BY <2>1, <2>3, <3>1 DEF Depths
      <3> QED BY <3>1, <3>2
    <2> QED BY <2>2, <2>3
  <1> QED BY <1>4 DEF Depths, g, N

LEMMA DeltaKeepsDepths ==
  ASSUME NEW h \in [Nat -> Msg], NEW n \in Nat, NEW s \in Seq(Msg), NEW i \in Instrument,
         NEW sq \in [Instrument -> Nat], NEW ch \in ChangeSet, OneDelta(s, i, sq[i] + 1, ch),
         Numbered(h, n, sq),
         NEW d \in [Instrument -> [Nat -> Depth]], NEW lv, NEW v \in Depth, NEW qt, NEW qt2,
         Depths(h, d, n, sq, lv, qt), v = Patch(lv[i], ch),
         NoQuieter(qt, qt2), NEW lv2, lv2[i] = v, SameElse(lv, lv2, i)
  PROVE  /\ DepthAt(d, i, sq[i] + 1, v) \in [Instrument -> [Nat -> Depth]]
         /\ SameSoFar(d, DepthAt(d, i, sq[i] + 1, v), sq)
         /\ Depths(Onto(h, n, s), DepthAt(d, i, sq[i] + 1, v), n + Len(s), Bump(sq, i), lv2, qt2)
  <1> DEFINE g == Onto(h, n, s)
             N == n + Len(s)
             sq2 == [sq EXCEPT ![i] = sq[i] + 1]
             d2 == [d EXCEPT ![i] = [d[i] EXCEPT ![sq[i] + 1] = v]]
  <1>1. Len(s) \in Nat /\ N \in Nat /\ Len(s) >= 1 /\ sq[i] + 1 \in Nat BY DEF OneDelta
  <1>2. /\ \A p \in 1..n : g[p] = h[p]
        /\ \A k \in 1..Len(s) : g[n + k] = s[k]
    BY OntoIs
  <1>3. n + 1 \in 1..N /\ g[n + 1] = Delta(i, sq[i] + 1, ch)
    <2>1. 1 \in 1..Len(s) BY <1>1
    <2> QED BY <1>1, <1>2, <2>1 DEF OneDelta
  <1>4. /\ g[n + 1].seq = sq[i] + 1 /\ g[n + 1].changes = ch
        /\ \A j : DeltaOf(g[n + 1], j) => j = i
    BY <1>1, <1>3, DeltaIsMsg
  <1>5. \A p \in 1..N, j \in Instrument :
          DeltaOf(g[p], j) => (p \in 1..n /\ g[p] = h[p]) \/ (p = n + 1 /\ j = i)
    <2> SUFFICES ASSUME NEW p \in 1..N, NEW j \in Instrument, DeltaOf(g[p], j), p \notin 1..n, p # n + 1
                 PROVE  FALSE
      BY <1>2, <1>4
    <2>1. p - n \in 2..Len(s) /\ p - n \in 1..Len(s) /\ p = n + (p - n) BY <1>1
    <2>2. g[p] = Tape BY <1>2, <2>1 DEF OneDelta
    <2> QED BY <2>2, PrintIsMsg
  <1>6. \A j \in Instrument : sq2[j] = (IF j = i THEN sq[i] + 1 ELSE sq[j]) /\ sq[j] \in Nat OBVIOUS
  <1>7. d2 \in [Instrument -> [Nat -> Depth]] BY <1>1
  <1>8. /\ d2[i][sq[i] + 1] = v
        /\ \A j \in Instrument : \A k \in Nat : j # i \/ k # sq[i] + 1 => d2[j][k] = d[j][k]
    BY <1>1
  <1> HIDE DEF g, N, sq2, d2
  <1>9. \A j \in Instrument : \A k \in 0..sq[j] : k \in Nat /\ d2[j][k] = d[j][k]
    BY <1>6, <1>8
  <1>10. ASSUME NEW j \in Instrument, qt2[j]
         PROVE  /\ d2[j][sq2[j]] = lv2[j]
                /\ \A p \in 1..N : DeltaOf(g[p], j) => d2[j][g[p].seq] = Patch(d2[j][g[p].seq - 1], g[p].changes)
    <2>1. qt[j] /\ d[j][sq[j]] = lv[j] BY <1>10 DEF Depths, NoQuieter
    <2>2. d2[j][sq2[j]] = lv2[j]
      <3>1. CASE j = i BY <3>1, <1>6, <1>8
      <3>2. CASE j # i BY <3>2, <1>6, <1>8, <2>1 DEF SameElse
      <3> QED BY <3>1, <3>2
    <2>3. ASSUME NEW p \in 1..N, DeltaOf(g[p], j)
          PROVE  d2[j][g[p].seq] = Patch(d2[j][g[p].seq - 1], g[p].changes)
      <3>1. CASE p \in 1..n /\ g[p] = h[p]
        <4>1. h[p].seq \in 1..sq[j] BY <2>3, <3>1 DEF Numbered
        <4>2. h[p].seq \in 0..sq[j] /\ h[p].seq - 1 \in 0..sq[j] BY <4>1, <1>6
        <4>3. d[j][h[p].seq] = Patch(d[j][h[p].seq - 1], h[p].changes) BY <2>1, <2>3, <3>1 DEF Depths
        <4>4. d2[j][h[p].seq] = d[j][h[p].seq] /\ d2[j][h[p].seq - 1] = d[j][h[p].seq - 1] BY <4>2, <1>9
        <4> QED BY <3>1, <4>3, <4>4
      <3>2. CASE p = n + 1 /\ j = i
        <4>0. sq[i] \in Nat OBVIOUS
        <4>1. (sq[i] + 1) - 1 = sq[i] /\ sq[i] \in 0..sq[i] BY <4>0, BackOne
        <4>2. d2[i][sq[i]] = lv[i] BY <4>1, <1>9, <2>1, <3>2
        <4> QED BY <3>2, <4>1, <4>2, <1>4, <1>8
      <3> QED BY <1>5, <2>3, <3>1, <3>2
    <2> QED BY <2>2, <2>3
  <1>11. Depths(g, d2, N, sq2, lv2, qt2) BY <1>10 DEF Depths
  <1>12. SameSoFar(d, d2, sq) BY <1>9 DEF SameSoFar
  <1> QED BY <1>7, <1>11, <1>12 DEF g, N, sq2, d2, Bump, DepthAt

LEMMA ConsumerStays ==
  ASSUME NEW f, NEW h, NEW g, NEW d, NEW d2, NEW st \in Nat, NEW st2 \in Nat, st <= st2,
         NEW sq \in [Instrument -> Nat], NEW sq2 \in [Instrument -> Nat], NEW qt, NEW qt2,
         ConsumerOK(f, h, d, st, sq, qt),
         SameBefore(h, g, st), NoLess(sq, sq2),
         NoQuieter(qt, qt2), SameSoFar(d, d2, sq)
  PROVE  ConsumerOK(f, g, d2, st2, sq2, qt2)
  <1>1. ModeOK(f, st) BY DEF ConsumerOK
  <1>2. /\ f.at # None => f.at \in Nat /\ f.at <= st /\ Len(f.pending) <= f.at
        /\ f.pending \in Seq(Msg) /\ Len(f.pending) \in Nat
        /\ \A i \in Instrument : f.at = None => f.base[i] = None
    BY <1>1 DEF ModeOK, ConsumerType
  <1>3. ModeOK(f, st2)
    <2>1. f.at # None => f.at <= st2 BY <1>2
    <2> QED BY <1>1, <2>1 DEF ModeOK
  <1>4. f.at # None => PartOf(f.pending, g, Applied(f))
    <2> SUFFICES ASSUME f.at # None, NEW k \in 1..Len(f.pending) PROVE f.pending[k] = g[Applied(f) + k]
      BY DEF PartOf
    <2>1. f.pending[k] = h[Applied(f) + k] BY DEF ConsumerOK, PartOf
    <2>2. Applied(f) + k \in 1..st BY <1>2 DEF Applied
    <2> QED BY <2>1, <2>2 DEF SameBefore
  <1>5. ASSUME NEW i \in Instrument PROVE Follows(f, i, g, d2, sq2, qt2)
    <2> SUFFICES ASSUME f.base[i] # None
                 PROVE  /\ f.base[i] \in 0..sq2[i]
                        /\ \A p \in 1..Applied(f) : DeltaOf(g[p], i) => g[p].seq <= f.base[i]
                        /\ qt2[i] => f.view[i] = d2[i][f.base[i]]
      BY DEF Follows
    <2>1. /\ f.base[i] \in 0..sq[i]
          /\ \A p \in 1..Applied(f) : DeltaOf(h[p], i) => h[p].seq <= f.base[i]
          /\ qt[i] => f.view[i] = d[i][f.base[i]]
      BY DEF ConsumerOK, Follows
    <2>2. f.at # None BY <1>2
    <2>3. \A p \in 1..Applied(f) : p \in 1..st BY <1>2, <2>2 DEF Applied
    <2>4. f.base[i] \in 0..sq2[i] BY <2>1 DEF NoLess
    <2> QED BY <2>1, <2>3, <2>4 DEF NoQuieter, SameSoFar, SameBefore
  <1> QED BY <1>3, <1>4, <1>5 DEF ConsumerOK
-----------------------------------------------------------------------------
(* A turn.                                                                  *)

LEMMA DepthPointwise ==
  ASSUME NEW v \in Depth, NEW w \in Depth, \A l \in Level : v[l] = w[l]
  PROVE  v = w
  BY DEF Depth

LEMMA LevelsBounded ==
  ASSUME NEW s, AggOK(s)
  PROVE  s.levels \in [Instrument -> Depth]
  <1>1. \A id \in DOMAIN s.orders : id \in OrderId BY DEF AggOK
  <1>2. \A i \in Instrument, l \in Level : s.levels[i][l] \in 0..MaxDepth
    BY <1>1, ContractsBounded DEF AggOK, DepthOK
  <1>3. s.levels \in [Instrument -> [Level -> Nat]] BY DEF AggOK
  <1>4. \A i \in Instrument : s.levels[i] \in [Level -> 0..MaxDepth] BY <1>2, <1>3
  <1> QED BY <1>3, <1>4 DEF Depth, MaxDepth

Batch(s, i, n, ch, silent) ==
    /\ s \in Seq(Msg) /\ Len(s) <= 2
    /\ silent => AllPrints(s)
    /\ ~ silent => OneDelta(s, i, n, ch)

LEMMA OneIsSeq ==
  ASSUME NEW S, NEW a \in S
  PROVE  <<a>> \in Seq(S) /\ Len(<<a>>) = 1 /\ <<a>>[1] = a
  OBVIOUS

Joined(a, b) == <<a>> \o <<b>>

LEMMA TwoIsSeq ==
  ASSUME NEW a, NEW b
  PROVE  Len(Joined(a, b)) = 2 /\ Joined(a, b)[1] = a /\ Joined(a, b)[2] = b
  BY DEF Joined

LEMMA TwoInSeq ==
  ASSUME NEW S, NEW a \in S, NEW b \in S
  PROVE  Joined(a, b) \in Seq(S)
  BY DEF Joined

LEMMA BatchIs ==
  ASSUME NEW i \in Instrument, NEW n \in Nat, NEW ch \in ChangeSet,
         NEW silent \in BOOLEAN, NEW prints \in BOOLEAN, NEW s,
         s = (IF silent THEN <<>> ELSE <<Delta(i, n, ch)>>) \o (IF prints THEN <<Tape>> ELSE <<>>)
  PROVE  Batch(s, i, n, ch, silent)
  <1> DEFINE m == Delta(i, n, ch)
             P == Tape
  <1>1. m \in Msg /\ P \in Msg BY DeltaIsMsg, PrintIsMsg
  <1>2. s = (IF silent THEN <<>> ELSE <<m>>) \o (IF prints THEN <<P>> ELSE <<>>) OBVIOUS
  <1> HIDE DEF m, P
  <1>3. CASE silent /\ prints
    <2>1. s = <<P>> BY <1>1, <1>2, <1>3
    <2>2. s \in Seq(Msg) /\ Len(s) = 1 /\ s[1] = P BY <1>1, <2>1, OneIsSeq
    <2> QED BY <1>3, <2>2 DEF Batch, AllPrints, P
  <1>4. CASE silent /\ ~ prints
    <2>1. s = <<>> BY <1>1, <1>2, <1>4
    <2>2. s \in Seq(Msg) /\ Len(s) = 0 BY <1>1, <2>1
    <2> QED BY <1>4, <2>2 DEF Batch, AllPrints
  <1>5. CASE ~ silent /\ prints
    <2>1. s = Joined(m, P) BY <1>2, <1>5 DEF Joined
    <2>2. s \in Seq(Msg) /\ Len(s) = 2 /\ s[1] = m /\ s[2] = P
      <3>1. s \in Seq(Msg) BY <1>1, <2>1, TwoInSeq
      <3>2. Len(s) = 2 BY <1>1, <2>1, TwoIsSeq
      <3>3. s[1] = m BY <1>1, <2>1, TwoIsSeq
      <3>4. s[2] = P BY <1>1, <2>1, TwoIsSeq
      <3> QED BY <3>1, <3>2, <3>3, <3>4
    <2>3. \A k \in 2..Len(s) : s[k] = P BY <2>2
    <2> QED BY <1>5, <2>2, <2>3 DEF Batch, OneDelta, m, P
  <1>6. CASE ~ silent /\ ~ prints
    <2>1. s = <<m>> BY <1>1, <1>2, <1>6
    <2>2. s \in Seq(Msg) /\ Len(s) = 1 /\ s[1] = m BY <1>1, <2>1, OneIsSeq
    <2>3. \A k \in 2..Len(s) : s[k] = P BY <2>2
    <2> QED BY <1>6, <2>2, <2>3 DEF Batch, OneDelta, m, P
  <1> QED BY <1>3, <1>4, <1>5, <1>6

\* What a turn publishes.
LEMMA PublishIs ==
  ASSUME BookOK(orders, book, used, hidden), DepthOK(orders, levels), CountersOK,
         NEW e, GoodTurn(e)
  PROVE  /\ BookOK(orders, book, used, hidden)' /\ DepthOK(orders, levels)'
         /\ levels' \in [Instrument -> Depth]
         /\ quiet' \in [Instrument -> BOOLEAN] /\ \A j \in Instrument : quiet'[j] => quiet[j]
         /\ \E silent \in BOOLEAN, ch \in ChangeSet, i \in Instrument :
              /\ Batch(toSend', i, sequence[i] + 1, ch, silent)
              /\ \A j \in Instrument : j # i => levels'[j] = levels[j]
              /\ silent => /\ sequence' = sequence
                           /\ \A j \in Instrument : quiet'[j] => levels'[j] = levels[j]
              /\ ~ silent => /\ sequence' = [sequence EXCEPT ![i] = sequence[i] + 1]
                             /\ levels'[i] = Patch(levels[i], ch)
  <1> DEFINE s0 == [orders |-> orders, levels |-> levels, touched |-> {}]
             s == Apply(e)
             i == e.inst
             silent == s.touched = {} \/ e.maker
             ch == Changes(s, i)
  <1>1. /\ GoodEvent(e) /\ Turn(e) /\ used' \in SUBSET OrderId /\ (\A id \in used : id \in used')
        /\ e.rests # None => e.rests \in used'
        /\ i \in Instrument /\ e.maker \in BOOLEAN
    BY DEF GoodTurn, GoodEvent
  <1>2. /\ book' = BookAfter(e) /\ hidden' = hidden
        /\ orders' = s.orders /\ levels' = s.levels
        /\ sequence' = IF silent THEN sequence ELSE [sequence EXCEPT ![i] = sequence[i] + 1]
        /\ toSend' = (IF silent THEN <<>> ELSE <<Delta(i, sequence[i] + 1, ch)>>)
                       \o (IF e.filled = None THEN <<>> ELSE <<Tape>>)
        /\ quiet' = [quiet EXCEPT ![i] = @ /\ ~ (s.touched # {} /\ e.maker)]
    BY <1>1 DEF Turn, Publish, ByMaker, Tape
  <1>3. levels \in [Instrument -> Depth] /\ sequence \in [Instrument -> Nat] /\ quiet \in [Instrument -> BOOLEAN]
    BY MarketDataAssumption DEF CountersOK
  <1>4. BookOK(orders, book, used, hidden)'
    <2>1. BookOK(s.orders, BookAfter(e), used', hidden) BY <1>1, <1>3, TurnKeepsBook
    <2> QED BY <1>2, <2>1
  <1>5. AggOK(s) /\ Moves(s0, s, i) BY <1>1, <1>3, ApplyKeeps
  <1> HIDE DEF s
  <1>6. DepthOK(orders, levels)' BY <1>2, <1>5 DEF AggOK
  <1>7. levels' \in [Instrument -> Depth] BY <1>2, <1>5, LevelsBounded
  <1>8. \A j \in Instrument, l \in Level : j # i \/ l \notin s.touched => levels'[j][l] = levels[j][l]
    BY <1>2, <1>5 DEF Moves
  <1>9. \A j \in Instrument : j # i => levels'[j] = levels[j]
    <2> SUFFICES ASSUME NEW j \in Instrument, j # i PROVE levels'[j] = levels[j]
      OBVIOUS
    <2>1. levels'[j] \in Depth /\ levels[j] \in Depth BY <1>3, <1>7
    <2>2. \A l \in Level : levels'[j][l] = levels[j][l] BY <1>8
    <2> QED BY <2>1, <2>2, DepthPointwise
  <1>10. s.touched = {} => levels'[i] = levels[i]
    <2> SUFFICES ASSUME s.touched = {} PROVE levels'[i] = levels[i]
      OBVIOUS
    <2>1. levels'[i] \in Depth /\ levels[i] \in Depth BY <1>1, <1>3, <1>7
    <2>2. \A l \in Level : levels'[i][l] = levels[i][l] BY <1>1, <1>8
    <2> QED BY <2>1, <2>2, DepthPointwise
  <1>11. s.touched \in SUBSET Level BY <1>5 DEF AggOK
  <1>12. ch \in ChangeSet /\ DOMAIN ch = s.touched /\ \A l \in s.touched : ch[l] = levels'[i][l]
    <2>1. ch = [l \in s.touched |-> levels'[i][l]] BY <1>2 DEF Changes
    <2>2. levels'[i] \in [Level -> 0..MaxDepth] BY <1>1, <1>7 DEF Depth, MaxDepth
    <2>3. ch \in [s.touched -> 0..MaxDepth] BY <1>11, <2>1, <2>2
    <2> QED BY <1>11, <2>1, <2>3 DEF ChangeSet
  <1>13. levels'[i] = Patch(levels[i], ch)
    <2>1. levels[i] \in Depth /\ levels'[i] \in Depth BY <1>1, <1>3, <1>7
    <2>2. Patch(levels[i], ch) \in Depth BY <2>1, <1>12, PatchType
    <2>3. \A l \in Level : Patch(levels[i], ch)[l] = IF l \in DOMAIN ch THEN ch[l] ELSE levels[i][l]
      BY DEF Patch
    <2>4. \A l \in Level : levels'[i][l] = Patch(levels[i], ch)[l]
      <3> HIDE DEF ch
      <3> QED BY <1>1, <1>8, <1>12, <2>3
    <2> QED BY <2>1, <2>2, <2>4, DepthPointwise
  <1>14. quiet' \in [Instrument -> BOOLEAN] /\ \A j \in Instrument : quiet'[j] => quiet[j]
    BY <1>1, <1>2, <1>3
  <1>15. ASSUME silent PROVE \A j \in Instrument : quiet'[j] => levels'[j] = levels[j]
    <2> SUFFICES ASSUME NEW j \in Instrument, quiet'[j] PROVE levels'[j] = levels[j]
      OBVIOUS
    <2>1. CASE j # i BY <2>1, <1>9
    <2>2. CASE j = i
      <3>1. ~ (s.touched # {} /\ e.maker) BY <1>1, <1>2, <1>3, <2>2
      <3>2. s.touched = {} BY <1>15, <3>1
      <3> QED BY <2>2, <3>2, <1>10
    <2> QED BY <2>1, <2>2
  <1>16. Batch(toSend', i, sequence[i] + 1, ch, silent)
    <2> DEFINE n == sequence[i] + 1
               prints == e.filled # None
    <2>1. n \in Nat BY <1>1, <1>3
    <2>2. silent \in BOOLEAN /\ prints \in BOOLEAN OBVIOUS
    <2>3. toSend' = (IF silent THEN <<>> ELSE <<Delta(i, n, ch)>>) \o (IF prints THEN <<Tape>> ELSE <<>>)
      <3>1. CASE prints BY <1>2, <3>1
      <3>2. CASE ~ prints BY <1>2, <3>2
      <3> QED BY <3>1, <3>2
    <2> HIDE DEF n, prints, ch, silent, i
    <2>4. Batch(toSend', i, n, ch, silent) BY <1>1, <1>12, <2>1, <2>2, <2>3, BatchIs
    <2> QED BY <2>4 DEF n
  <1>17. silent \in BOOLEAN OBVIOUS
  <1>18. /\ silent => sequence' = sequence
         /\ ~ silent => sequence' = [sequence EXCEPT ![i] = sequence[i] + 1]
    BY <1>2
  <1> HIDE DEF silent, ch, i
  <1>19. \E sl \in BOOLEAN, c \in ChangeSet, x \in Instrument :
              /\ Batch(toSend', x, sequence[x] + 1, c, sl)
              /\ \A j \in Instrument : j # x => levels'[j] = levels[j]
              /\ sl => /\ sequence' = sequence
                       /\ \A j \in Instrument : quiet'[j] => levels'[j] = levels[j]
              /\ ~ sl => /\ sequence' = [sequence EXCEPT ![x] = sequence[x] + 1]
                         /\ levels'[x] = Patch(levels[x], c)
    <2>1. ch \in ChangeSet /\ i \in Instrument BY <1>1, <1>12
    <2>2. silent => \A j \in Instrument : quiet'[j] => levels'[j] = levels[j] BY <1>15
    <2> QED BY <1>9, <1>13, <1>16, <1>17, <1>18, <2>1, <2>2
  <1> QED BY <1>4, <1>6, <1>7, <1>14, <1>19

\* The consumers follow the extended stream.
LEMMA ConsumersStay ==
  ASSUME NEW h, NEW g, NEW d, NEW d2, NEW st \in Nat, NEW st2 \in Nat, st <= st2, NEW cs,
         NEW sq \in [Instrument -> Nat], NEW sq2 \in [Instrument -> Nat], NEW qt, NEW qt2,
         AllFollow(cs, h, d, st, sq, qt), SameBefore(h, g, st), NoLess(sq, sq2),
         NoQuieter(qt, qt2), SameSoFar(d, d2, sq)
  PROVE  AllFollow(cs, g, d2, st2, sq2, qt2)
  <1> SUFFICES ASSUME NEW c \in Consumer PROVE ConsumerOK(cs[c], g, d2, st2, sq2, qt2)
    BY DEF AllFollow
  <1> DEFINE f == cs[c]
  <1>1. ConsumerOK(f, h, d, st, sq, qt) BY DEF AllFollow
  <1> HIDE DEF f
  <1>2. ConsumerOK(f, g, d2, st2, sq2, qt2) BY <1>1, ConsumerStays
  <1> QED BY <1>2 DEF f

LEMMA SequenceIsNat ==
  ASSUME CountersOK PROVE sequence \in [Instrument -> Nat] /\ sent \in Nat
  BY MarketDataAssumption DEF CountersOK

LEMMA TurnKeeps ==
  ASSUME IInv, NEW e, GoodTurn(e)
  PROVE  IInv'
  <1>1. BookOK(orders, book, used, hidden) /\ DepthOK(orders, levels) /\ CountersOK /\ DOMAIN cons = Consumer
    BY DEF IInv
  <1>2. /\ toSend = <<>> /\ sent < MaxSent /\ sent' = sent /\ ring' = ring /\ cons' = cons /\ boots' = boots
    BY DEF GoodTurn, Turn
  <1>3. /\ BookOK(orders, book, used, hidden)' /\ DepthOK(orders, levels)'
        /\ levels' \in [Instrument -> Depth]
        /\ quiet' \in [Instrument -> BOOLEAN] /\ \A j \in Instrument : quiet'[j] => quiet[j]
        /\ \E silent \in BOOLEAN, ch \in ChangeSet, i \in Instrument :
              /\ Batch(toSend', i, sequence[i] + 1, ch, silent)
              /\ \A j \in Instrument : j # i => levels'[j] = levels[j]
              /\ silent => /\ sequence' = sequence
                           /\ \A j \in Instrument : quiet'[j] => levels'[j] = levels[j]
              /\ ~ silent => /\ sequence' = [sequence EXCEPT ![i] = sequence[i] + 1]
                             /\ levels'[i] = Patch(levels[i], ch)
    BY <1>1, PublishIs
  <1>4. PICK silent \in BOOLEAN, ch \in ChangeSet, i \in Instrument :
              /\ Batch(toSend', i, sequence[i] + 1, ch, silent)
              /\ \A j \in Instrument : j # i => levels'[j] = levels[j]
              /\ silent => /\ sequence' = sequence
                           /\ \A j \in Instrument : quiet'[j] => levels'[j] = levels[j]
              /\ ~ silent => /\ sequence' = [sequence EXCEPT ![i] = sequence[i] + 1]
                             /\ levels'[i] = Patch(levels[i], ch)
    BY <1>3
  <1>5. PICK h \in [Nat -> Msg] : \E d \in [Instrument -> [Nat -> Depth]] : 
         Stream(h, d, sent, toSend, ring, sequence, levels, quiet, cons)
    BY DEF IInv
  <1>6. PICK d \in [Instrument -> [Nat -> Depth]] : Stream(h, d, sent, toSend, ring, sequence, levels, quiet, cons) BY <1>5
  <1>7. sequence \in [Instrument -> Nat] /\ sent \in Nat BY <1>1, SequenceIsNat
  <1>8. sent + Len(toSend) = sent BY <1>2, <1>7
  <1>9. /\ Numbered(h, sent, sequence)
        /\ PartOf(ring, h, sent - Len(ring))
        /\ Depths(h, d, sent, sequence, levels, quiet)
        /\ AllFollow(cons, h, d, sent, sequence, quiet)
    BY <1>6, <1>8 DEF Stream
  <1>10. toSend' \in Seq(Msg) /\ Len(toSend') <= 2 /\ Len(toSend') \in Nat BY <1>4 DEF Batch
  <1> DEFINE g == Onto(h, sent, toSend')
  <1>11. /\ g \in [Nat -> Msg]
         /\ \A p \in 1..sent : g[p] = h[p]
         /\ PartOf(toSend', g, sent)
    BY <1>7, <1>10, OntoIs
  <1>12. PartOf(ring', g, sent' - Len(ring'))
    <2> SUFFICES ASSUME NEW k \in 1..Len(ring) PROVE ring[k] = g[(sent - Len(ring)) + k]
      BY <1>2 DEF PartOf
    <2>1. Len(ring) \in Nat /\ Len(ring) <= sent BY <1>1 DEF CountersOK
    <2>2. (sent - Len(ring)) + k \in 1..sent BY <1>7, <2>1
    <2>3. ring[k] = h[(sent - Len(ring)) + k] BY <1>9 DEF PartOf
    <2> HIDE DEF g
    <2> QED BY <1>11, <2>2, <2>3
  <1>13. \A j \in Instrument : sequence[j] <= sent /\ sent + 1 <= MaxSent
    BY <1>1, <1>2, <1>7, MarketDataAssumption DEF CountersOK
  <1>14. /\ \A j \in Instrument : sequence'[j] \in Nat /\ sequence[j] <= sequence'[j] /\ sequence'[j] <= sent + 1
         /\ sequence' \in [Instrument -> Nat]
         /\ \A j \in Instrument : toSend' = <<>> => sequence'[j] <= sent
    <2>1. CASE silent BY <1>4, <1>7, <1>13, <2>1
    <2>2. CASE ~ silent
      <3>1. toSend' # <<>> BY <1>4, <1>10, <2>2 DEF Batch, OneDelta
      <3>2. \A j \in Instrument : sequence'[j] = IF j = i THEN sequence[j] + 1 ELSE sequence[j]
        BY <1>4, <1>7, <2>2
      <3>3. sequence' \in [Instrument -> Nat] BY <1>4, <1>7, <2>2
      <3>4. \A j \in Instrument : sequence[j] \in Nat BY <1>7
      <3>5. \A j \in Instrument : sequence'[j] \in Nat /\ sequence[j] <= sequence'[j] /\ sequence'[j] <= sent + 1
        BY <1>7, <1>13, <3>2, <3>4
      <3> QED BY <3>1, <3>3, <3>5
    <2> QED BY <2>1, <2>2
  <1>15. CountersOK'
    <2>1. sequence' \in [Instrument -> 0..MaxSent]
      <3>1. \A j \in Instrument : sequence'[j] \in 0..MaxSent
        BY <1>7, <1>13, <1>14, MarketDataAssumption
      <3> QED BY <1>14, <3>1
    <2>2. ring' \in Seq(Msg) /\ Len(ring') <= sent' /\ boots' \in 0..MaxBoots /\ sent' \in Nat
      BY <1>1, <1>2 DEF CountersOK
    <2> QED BY <1>2, <1>3, <1>10, <1>14, <2>1, <2>2 DEF CountersOK
  <1>16. ASSUME NEW d2 \in [Instrument -> [Nat -> Depth]],
                SameSoFar(d, d2, sequence),
                Numbered(g, sent + Len(toSend'), sequence'),
                Depths(g, d2, sent + Len(toSend'), sequence', levels', quiet')
         PROVE  Stream(g, d2, sent', toSend', ring', sequence', levels', quiet', cons')
    <2> HIDE DEF g
    <2>1. AllFollow(cons, g, d2, sent, sequence', quiet')
      <3> DEFINE sq2 == sequence'
                 qt2 == quiet'
      <3>1. NoLess(sequence, sq2) BY <1>14 DEF NoLess
      <3>2. NoQuieter(quiet, qt2) BY <1>3 DEF NoQuieter
      <3>3. sent <= sent BY <1>7
      <3>4. SameBefore(h, g, sent) BY <1>11 DEF SameBefore
      <3>5. AllFollow(cons, h, d, sent, sequence, quiet) BY <1>9
      <3>6. sq2 \in [Instrument -> Nat] BY <1>14
      <3>7. SameSoFar(d, d2, sequence) BY <1>16
      <3> HIDE DEF sq2, qt2
      <3>8. AllFollow(cons, g, d2, sent, sq2, qt2)
        BY <1>7, <3>1, <3>2, <3>3, <3>4, <3>5, <3>6, <3>7, ConsumersStay
      <3> QED BY <3>8 DEF sq2, qt2
    <2> QED BY <1>2, <1>11, <1>12, <1>16, <2>1 DEF Stream
  <1>17. \E d2 \in [Instrument -> [Nat -> Depth]] : Stream(g, d2, sent', toSend', ring', sequence', levels', quiet', cons')
    <2>1. CASE silent
      <3>1. AllPrints(toSend') /\ sequence' = sequence BY <1>4, <2>1 DEF Batch
      <3>2. Numbered(g, sent + Len(toSend'), sequence)
        BY <1>7, <1>9, <1>10, <3>1, PrintsKeepNumbers
      <3>3. \A j \in Instrument : quiet'[j] => quiet[j] /\ levels'[j] = levels[j] BY <1>3, <1>4, <2>1
      <3>4. Depths(g, d, sent + Len(toSend'), sequence, levels', quiet')
        BY <1>7, <1>9, <1>10, <3>1, <3>3, PrintsKeepDepths
      <3> HIDE DEF g
      <3>5. SameSoFar(d, d, sequence) BY DEF SameSoFar
      <3>6. Stream(g, d, sent', toSend', ring', sequence', levels', quiet', cons')
        BY <1>16, <3>1, <3>2, <3>4, <3>5
      <3> QED BY <3>6
    <2>2. CASE ~ silent
      <3> DEFINE v == levels'[i]
                 d2 == DepthAt(d, i, sequence[i] + 1, v)
      <3>1. OneDelta(toSend', i, sequence[i] + 1, ch) /\ sequence' = [sequence EXCEPT ![i] = sequence[i] + 1]
        BY <1>4, <2>2 DEF Batch
      <3>2. Numbered(g, sent + Len(toSend'), sequence')
        BY <1>7, <1>9, <1>10, <3>1, DeltaKeepsNumbers
      <3>3. v \in Depth /\ v = Patch(levels[i], ch) BY <1>3, <1>4, <2>2
      <3>4. levels'[i] = v /\ SameElse(levels, levels', i) BY <1>4 DEF SameElse
      <3>5. NoQuieter(quiet, quiet') BY <1>3 DEF NoQuieter
      <3> HIDE DEF v
      <3>6. /\ d2 \in [Instrument -> [Nat -> Depth]]
            /\ SameSoFar(d, d2, sequence)
            /\ Depths(g, d2, sent + Len(toSend'), Bump(sequence, i), levels', quiet')
        <4>1. Numbered(h, sent, sequence) /\ Depths(h, d, sent, sequence, levels, quiet) BY <1>9
        <4>2. OneDelta(toSend', i, sequence[i] + 1, ch) BY <3>1
        <4>3. toSend' \in Seq(Msg) BY <1>10
        <4> QED BY <1>7, <4>1, <4>2, <4>3, <3>3, <3>4, <3>5, DeltaKeepsDepths
      <3> HIDE DEF d2, g
      <3>7. Depths(g, d2, sent + Len(toSend'), sequence', levels', quiet') BY <3>1, <3>6 DEF Bump
      <3>8. Stream(g, d2, sent', toSend', ring', sequence', levels', quiet', cons') BY <1>16, <3>2, <3>6, <3>7
      <3> QED BY <3>6, <3>8
    <2> QED BY <2>1, <2>2
  <1>18. \E h2 \in [Nat -> Msg] : \E d2 \in [Instrument -> [Nat -> Depth]] : Stream(h2, d2, sent', toSend', ring', sequence', levels', quiet', cons')
    <2> HIDE DEF g
    <2> QED BY <1>11, <1>17
  <1>19. DOMAIN cons' = Consumer BY <1>1, <1>2
  <1> QED BY <1>3, <1>15, <1>18, <1>19 DEF IInv

LEMMA NotEmpty ==
  ASSUME NEW s \in Seq(Msg), Len(s) = 1
  PROVE  s # <<>>
  OBVIOUS

LEMMA PriceKeeps ==
  ASSUME IInv, SimStep
  PROVE  IInv'
  <1>1. BookOK(orders, book, used, hidden) /\ DepthOK(orders, levels) /\ CountersOK /\ DOMAIN cons = Consumer
    BY DEF IInv
  <1>2. /\ toSend = <<>> /\ toSend' = <<Tape>>
        /\ UNCHANGED <<orders, levels, sequence, sent, ring, cons, book, used, hidden, quiet, boots>>
    BY DEF SimStep, Tape, past
  <1>3. PICK h \in [Nat -> Msg] : \E d \in [Instrument -> [Nat -> Depth]] :
          Stream(h, d, sent, toSend, ring, sequence, levels, quiet, cons)
    BY DEF IInv
  <1>4. PICK d \in [Instrument -> [Nat -> Depth]] :
          Stream(h, d, sent, toSend, ring, sequence, levels, quiet, cons)
    BY <1>3
  <1>5. sequence \in [Instrument -> Nat] /\ sent \in Nat BY <1>1, SequenceIsNat
  <1>6. sent + Len(toSend) = sent BY <1>2, <1>5
  <1>7. /\ Numbered(h, sent, sequence) /\ PartOf(ring, h, sent - Len(ring))
        /\ Depths(h, d, sent, sequence, levels, quiet) /\ AllFollow(cons, h, d, sent, sequence, quiet)
    BY <1>4, <1>6 DEF Stream
  <1> DEFINE s == <<Tape>>
             g == Onto(h, sent, s)
  <1>8. s \in Seq(Msg) /\ Len(s) = 1 /\ s[1] = Tape BY PrintIsMsg, OneIsSeq
  <1>9. AllPrints(s)
    <2> HIDE DEF s
    <2> QED BY <1>8 DEF AllPrints
  <1> HIDE DEF s
  <1>10. /\ g \in [Nat -> Msg] /\ PartOf(s, g, sent) /\ \A p \in 1..sent : g[p] = h[p]
    BY <1>5, <1>8, OntoIs
  <1>11. Numbered(g, sent + Len(s), sequence) BY <1>5, <1>7, <1>8, <1>9, PrintsKeepNumbers
  <1>12. Depths(g, d, sent + Len(s), sequence, levels, quiet)
    <2>1. \A i \in Instrument : quiet[i] => quiet[i] /\ levels[i] = levels[i] OBVIOUS
    <2> QED BY <1>5, <1>7, <1>8, <1>9, <2>1, PrintsKeepDepths
  <1> HIDE DEF g
  <1>13. AllFollow(cons, g, d, sent, sequence, quiet)
    <2>1. SameBefore(h, g, sent) BY <1>10 DEF SameBefore
    <2>2. NoLess(sequence, sequence) BY <1>5 DEF NoLess
    <2>3. NoQuieter(quiet, quiet) BY DEF NoQuieter
    <2>4. SameSoFar(d, d, sequence) BY DEF SameSoFar
    <2>5. sent <= sent BY <1>5
    <2> QED BY <1>5, <1>7, <2>1, <2>2, <2>3, <2>4, <2>5, ConsumersStay
  <1>14. PartOf(ring, g, sent - Len(ring))
    <2> SUFFICES ASSUME NEW k \in 1..Len(ring) PROVE ring[k] = g[(sent - Len(ring)) + k]
      BY DEF PartOf
    <2>1. Len(ring) \in Nat /\ Len(ring) <= sent BY <1>1 DEF CountersOK
    <2>2. (sent - Len(ring)) + k \in 1..sent BY <1>5, <2>1
    <2>3. ring[k] = h[(sent - Len(ring)) + k] BY <1>7 DEF PartOf
    <2> QED BY <1>10, <2>2, <2>3
  <1>15. Stream(g, d, sent, s, ring, sequence, levels, quiet, cons)
    BY <1>10, <1>11, <1>12, <1>13, <1>14 DEF Stream
  <1>16. toSend' = s BY <1>2 DEF s
  <1>17. CountersOK'
    <2>0. toSend' \in Seq(Msg) /\ Len(toSend') = 1 BY <1>8, <1>16
    <2>1. toSend' \in Seq(Msg) /\ Len(toSend') <= 2 /\ toSend' # <<>>
      <3>1. toSend' # <<>> BY <2>0, NotEmpty
      <3> QED BY <2>0, <3>1
    <2>2. UNCHANGED <<levels, sequence, sent, ring, quiet, boots>> BY <1>2
    <2> QED BY <1>1, <2>1, <2>2 DEF CountersOK
  <1>18. Stream(g, d, sent', toSend', ring', sequence', levels', quiet', cons') BY <1>2, <1>15, <1>16
  <1>19. BookOK(orders, book, used, hidden)' /\ DepthOK(orders, levels)' /\ DOMAIN cons' = Consumer
    BY <1>1, <1>2
  <1> QED BY <1>10, <1>17, <1>18, <1>19 DEF IInv

LEMMA TailIs ==
  ASSUME NEW s \in Seq(Msg), s # <<>>
  PROVE  /\ Len(s) \in Nat /\ Len(s) >= 1 /\ Head(s) = s[1] /\ s[1] \in Msg
         /\ Tail(s) \in Seq(Msg) /\ Len(Tail(s)) = Len(s) - 1
         /\ \A k \in 1..(Len(s) - 1) : Tail(s)[k] = s[k + 1]
  OBVIOUS

LEMMA PartOfTail ==
  ASSUME NEW s \in Seq(Msg), s # <<>>, NEW h, NEW p \in Int, PartOf(s, h, p)
  PROVE  PartOf(Tail(s), h, p + 1) /\ Head(s) = h[p + 1] /\ Head(s) \in Msg
  <1>1. /\ Len(s) \in Nat /\ Len(s) >= 1 /\ Head(s) = s[1] /\ s[1] \in Msg
        /\ Len(Tail(s)) = Len(s) - 1
        /\ \A k \in 1..(Len(s) - 1) : Tail(s)[k] = s[k + 1]
    BY TailIs
  <1>2. \A k \in 1..Len(s) : s[k] = h[p + k] BY DEF PartOf
  <1>3. ASSUME NEW k \in 1..Len(Tail(s)) PROVE Tail(s)[k] = h[(p + 1) + k]
    <2>1. k \in 1..(Len(s) - 1) /\ k + 1 \in 1..Len(s) /\ p + (k + 1) = (p + 1) + k BY <1>1
    <2>2. Tail(s)[k] = s[k + 1] BY <1>1, <2>1
    <2>3. s[k + 1] = h[p + (k + 1)] BY <1>2, <2>1
    <2> QED BY <2>1, <2>2, <2>3
  <1>4. Head(s) = h[p + 1] BY <1>1, <1>2
  <1> QED BY <1>1, <1>3, <1>4 DEF PartOf

LEMMA PartOfAppend ==
  ASSUME NEW s \in Seq(Msg), NEW h, NEW p \in Int, PartOf(s, h, p), NEW m \in Msg, m = h[p + Len(s) + 1]
  PROVE  /\ Append(s, m) \in Seq(Msg) /\ Len(Append(s, m)) = Len(s) + 1
         /\ PartOf(Append(s, m), h, p)
  <1>1. /\ Append(s, m) \in Seq(Msg) /\ Len(Append(s, m)) = Len(s) + 1 /\ Len(s) \in Nat
        /\ \A k \in 1..Len(s) : Append(s, m)[k] = s[k]
        /\ Append(s, m)[Len(s) + 1] = m
    OBVIOUS
  <1> DEFINE t == Append(s, m)
  <1> HIDE DEF t
  <1>2. ASSUME NEW k \in 1..Len(t) PROVE t[k] = h[p + k]
    <2>1. CASE k \in 1..Len(s)
      <3>1. s[k] = h[p + k] BY <2>1 DEF PartOf
      <3> QED BY <1>1, <2>1, <3>1 DEF t
    <2>2. CASE k \notin 1..Len(s)
      <3>1. k = Len(s) + 1 /\ p + k = p + Len(s) + 1 BY <1>1, <2>2 DEF t
      <3> QED BY <1>1, <3>1 DEF t
    <2> QED BY <2>1, <2>2
  <1>3. PartOf(t, h, p) BY <1>2 DEF PartOf
  <1> QED BY <1>1, <1>3 DEF t

LEMMA SendKeeps ==
  ASSUME IInv, Send
  PROVE  IInv'
  <1>1. BookOK(orders, book, used, hidden) /\ DepthOK(orders, levels) /\ CountersOK /\ DOMAIN cons = Consumer
    BY DEF IInv
  <1>2. /\ toSend # <<>> /\ sent' = sent + 1 /\ toSend' = Tail(toSend)
        /\ ring' = IF Len(ring) < Capacity THEN Append(ring, Head(toSend))
                   ELSE Append(Tail(ring), Head(toSend))
        /\ UNCHANGED <<orders, levels, sequence, cons, book, used, hidden, quiet, boots>>
    BY DEF Send, past
  <1>3. PICK h \in [Nat -> Msg] : \E d \in [Instrument -> [Nat -> Depth]] :
          Stream(h, d, sent, toSend, ring, sequence, levels, quiet, cons)
    BY DEF IInv
  <1>4. PICK d \in [Instrument -> [Nat -> Depth]] :
          Stream(h, d, sent, toSend, ring, sequence, levels, quiet, cons)
    BY <1>3
  <1>5. sequence \in [Instrument -> Nat] /\ sent \in Nat BY <1>1, SequenceIsNat
  <1>6. /\ toSend \in Seq(Msg) /\ ring \in Seq(Msg) /\ Len(ring) <= sent /\ Len(ring) \in Nat
        /\ Len(toSend) <= 2 /\ Capacity \in Nat /\ Capacity >= 1
    BY <1>1, MarketDataAssumption DEF CountersOK
  <1>7. /\ PartOf(toSend, h, sent) /\ PartOf(ring, h, sent - Len(ring))
        /\ AllFollow(cons, h, d, sent, sequence, quiet)
    BY <1>4 DEF Stream
  <1>8. /\ Tail(toSend) \in Seq(Msg) /\ Len(Tail(toSend)) = Len(toSend) - 1 /\ Len(toSend) \in Nat
        /\ Len(toSend) >= 1
    BY <1>2, <1>6, TailIs
  <1>9. sent \in Int /\ sent - Len(ring) \in Int BY <1>5, <1>6
  <1>10. PartOf(Tail(toSend), h, sent + 1) /\ Head(toSend) = h[sent + 1] /\ Head(toSend) \in Msg
    BY <1>2, <1>6, <1>7, <1>9, PartOfTail
  <1>11. (sent + 1) + Len(Tail(toSend)) = sent + Len(toSend) BY <1>5, <1>8
  <1>12. ring' \in Seq(Msg) /\ Len(ring') <= sent' /\ PartOf(ring', h, sent' - Len(ring'))
    <2> DEFINE m == Head(toSend)
    <2>0. m \in Msg /\ m = h[sent + 1] BY <1>10
    <2> HIDE DEF m
    <2>1. CASE Len(ring) < Capacity
      <3> DEFINE p == sent - Len(ring)
      <3>1. p + Len(ring) + 1 = sent + 1 BY <1>5, <1>6
      <3>2. p \in Int /\ PartOf(ring, h, p) /\ m = h[p + Len(ring) + 1] BY <1>7, <1>9, <2>0, <3>1
      <3> HIDE DEF p
      <3>3. /\ Append(ring, m) \in Seq(Msg) /\ Len(Append(ring, m)) = Len(ring) + 1
            /\ PartOf(Append(ring, m), h, p)
        BY <1>6, <2>0, <3>2, PartOfAppend
      <3>4. ring' = Append(ring, m) BY <1>2, <2>1 DEF m
      <3>5. ring' \in Seq(Msg) /\ Len(ring') = Len(ring) + 1 /\ PartOf(ring', h, p) /\ sent' = sent + 1
        BY <1>2, <3>3, <3>4
      <3>6. sent' - Len(ring') = p /\ Len(ring') <= sent' BY <1>5, <1>6, <3>5 DEF p
      <3> QED BY <3>5, <3>6
    <2>2. CASE ~ (Len(ring) < Capacity)
      <3> DEFINE p == sent - Len(ring)
                 r == Tail(ring)
      <3>1. ring # <<>> BY <1>6, <2>2
      <3>2. /\ r \in Seq(Msg) /\ Len(r) = Len(ring) - 1 /\ Len(ring) >= 1 BY <1>6, <3>1, TailIs
      <3>3. PartOf(r, h, p + 1) BY <1>6, <1>7, <1>9, <3>1, PartOfTail
      <3>4. (p + 1) + Len(r) + 1 = sent + 1 /\ p + 1 \in Int BY <1>5, <1>6, <3>2
      <3> DEFINE p1 == p + 1
      <3>5. p1 \in Int /\ PartOf(r, h, p1) /\ m = h[p1 + Len(r) + 1] BY <2>0, <3>3, <3>4
      <3>6. ring' = Append(r, m) BY <1>2, <2>2 DEF m
      <3>7. p1 = sent + 1 - Len(ring) BY <1>5, <1>6
      <3> HIDE DEF p1, r
      <3>8. /\ Append(r, m) \in Seq(Msg) /\ Len(Append(r, m)) = Len(r) + 1 /\ PartOf(Append(r, m), h, p1)
        BY <2>0, <3>2, <3>5, PartOfAppend
      <3>9. ring' \in Seq(Msg) /\ Len(ring') = Len(r) + 1 /\ PartOf(ring', h, p1) /\ sent' = sent + 1
        BY <1>2, <3>6, <3>8
      <3>10. Len(ring') = Len(ring) BY <1>6, <3>2, <3>9
      <3> DEFINE n == Len(ring)
      <3>11. sent' - Len(ring') = p1 /\ Len(ring') <= sent'
        <4>1. sent' = sent + 1 /\ Len(ring') = n /\ n \in Nat /\ n <= sent /\ p1 = sent + 1 - n
          BY <1>2, <1>6, <3>7, <3>10
        <4> HIDE DEF n
        <4> QED BY <1>5, <4>1
      <3> QED BY <3>9, <3>11
    <2> QED BY <2>1, <2>2
  <1>13. AllFollow(cons, h, d, sent + 1, sequence, quiet)
    <2>1. SameBefore(h, h, sent) BY DEF SameBefore
    <2>2. NoLess(sequence, sequence) BY <1>5 DEF NoLess
    <2>3. NoQuieter(quiet, quiet) BY DEF NoQuieter
    <2>4. SameSoFar(d, d, sequence) BY DEF SameSoFar
    <2> DEFINE st2 == sent + 1
    <2>5. sent <= st2 /\ st2 \in Nat BY <1>5
    <2> HIDE DEF st2
    <2>6. AllFollow(cons, h, d, st2, sequence, quiet)
      BY <1>5, <1>7, <2>1, <2>2, <2>3, <2>4, <2>5, ConsumersStay
    <2> QED BY <2>6 DEF st2
  <1>14. Stream(h, d, sent', toSend', ring', sequence', levels', quiet', cons')
    <2>1. Numbered(h, sent' + Len(toSend'), sequence') BY <1>2, <1>4, <1>11 DEF Stream
    <2>2. Depths(h, d, sent' + Len(toSend'), sequence', levels', quiet') BY <1>2, <1>4, <1>11 DEF Stream
    <2>3. PartOf(toSend', h, sent') BY <1>2, <1>10
    <2>4. AllFollow(cons', h, d, sent', sequence', quiet') BY <1>2, <1>13
    <2> QED BY <1>12, <2>1, <2>2, <2>3, <2>4 DEF Stream
  <1>15. CountersOK'
    <2>1. \A i \in Instrument : sequence[i] \in Nat /\ sequence[i] <= sent + 1 BY <1>1, <1>5 DEF CountersOK
    <2>2. \A i \in Instrument : sequence'[i] <= sent' + 1 /\ sequence'[i] <= sent' BY <1>2, <1>5, <2>1
    <2>3. toSend' \in Seq(Msg) /\ Len(toSend') <= 2 /\ sent' \in Nat BY <1>2, <1>5, <1>6, <1>8
    <2>4. /\ levels' \in [Instrument -> Depth] /\ sequence' \in [Instrument -> 0..MaxSent]
          /\ quiet' \in [Instrument -> BOOLEAN] /\ boots' \in 0..MaxBoots
      BY <1>1, <1>2 DEF CountersOK
    <2> QED BY <1>12, <2>2, <2>3, <2>4 DEF CountersOK
  <1>16. BookOK(orders, book, used, hidden)' /\ DepthOK(orders, levels)' /\ DOMAIN cons' = Consumer
    BY <1>1, <1>2
  <1> QED BY <1>14, <1>15, <1>16 DEF IInv
-----------------------------------------------------------------------------
(* The consumers.                                                           *)

Depths0 == [Instrument -> [Nat -> Depth]]

\* In any account of the stream, f is a consumer that follows it.
Fits(f) ==
    \A h \in [Nat -> Msg] : \A d \in Depths0 :
        Stream(h, d, sent, toSend, ring, sequence, levels, quiet, cons)
          => ConsumerOK(f, h, d, sent, sequence, quiet)

LEMMA BecomeKeeps ==
  ASSUME IInv, NEW c \in Consumer, NEW f, Become(c, f), Fits(f)
  PROVE  IInv'
  <1>1. /\ cons' = [cons EXCEPT ![c] = f]
        /\ UNCHANGED <<orders, levels, sequence, toSend, sent, ring, book, used, hidden, quiet, boots>>
    BY DEF Become, feed, past
  <1>2. BookOK(orders, book, used, hidden) /\ DepthOK(orders, levels) /\ CountersOK /\ DOMAIN cons = Consumer
    BY DEF IInv
  <1>3. PICK h \in [Nat -> Msg] : \E d \in Depths0 :
          Stream(h, d, sent, toSend, ring, sequence, levels, quiet, cons)
    BY DEF IInv, Depths0
  <1>4. PICK d \in Depths0 : Stream(h, d, sent, toSend, ring, sequence, levels, quiet, cons)
    BY <1>3
  <1>5. ConsumerOK(f, h, d, sent, sequence, quiet) BY <1>4 DEF Fits
  <1>6. DOMAIN cons' = Consumer /\ \A x \in Consumer : cons'[x] = IF x = c THEN f ELSE cons[x]
    BY <1>1, <1>2
  <1>7. AllFollow(cons', h, d, sent, sequence, quiet)
    BY <1>4, <1>5, <1>6 DEF Stream, AllFollow
  <1>8. Stream(h, d, sent, toSend, ring, sequence, levels, quiet, cons')
    BY <1>4, <1>7 DEF Stream
  <1>9. Stream(h, d, sent', toSend', ring', sequence', levels', quiet', cons')
    BY <1>1, <1>8
  <1>10. CountersOK'
    <2>1. UNCHANGED <<levels, sequence, sent, toSend, ring, quiet, boots>> BY <1>1
    <2> QED BY <1>2, <2>1 DEF CountersOK
  <1>11. BookOK(orders, book, used, hidden)' /\ DepthOK(orders, levels)'
    BY <1>1, <1>2
  <1> QED BY <1>6, <1>9, <1>10, <1>11 DEF IInv, Depths0

LEMMA IdleIs ==
  /\ Idle \in ConsumerType /\ Idle.kind = None /\ Idle.at = None /\ Idle.want = {}
  /\ Idle.pending = <<>> /\ Idle.projects = FALSE
  /\ \A i \in Instrument : Idle.base[i] = None
  <1>1. [l \in Level |-> 0] \in Depth BY MaxDepthIsNat DEF Depth, MaxDepth
  <1>2. <<>> \in Seq(Msg) OBVIOUS
  <1>3. [i \in Instrument |-> [l \in Level |-> 0]] \in [Instrument -> Depth] BY <1>1
  <1>4. [i \in Instrument |-> None] \in [Instrument -> Nat \cup {None}] OBVIOUS
  <1> DEFINE v == [i \in Instrument |-> [l \in Level |-> 0]]
             b == [i \in Instrument |-> None]
             e == <<>>
  <1>5. Idle = [kind |-> None, at |-> None, base |-> b, view |-> v, want |-> {}, pending |-> e,
                projects |-> FALSE]
    BY DEF Idle
  <1>6. \A i \in Instrument : b[i] = None OBVIOUS
  <1>7. v \in [Instrument -> Depth] /\ b \in [Instrument -> Nat \cup {None}] /\ e \in Seq(Msg)
    BY <1>2, <1>3, <1>4
  <1>8. e = <<>> OBVIOUS
  <1> HIDE DEF v, b, e
  <1> QED BY <1>5, <1>6, <1>7, <1>8 DEF ConsumerType

\* A consumer without a subscription follows any stream.
LEMMA UnsubscribedFits ==
  ASSUME NEW f \in ConsumerType, ModeOK(f, sent), f.pending = <<>>,
         \A i \in Instrument : f.base[i] = None
  PROVE  Fits(f)
  BY DEF Fits, ConsumerOK, Follows, PartOf

LEMMA OpenFits ==
  ASSUME sent \in Nat
  PROVE  /\ Fits(Idle)
         /\ Fits([Idle EXCEPT !.kind = "fix"])
         /\ Fits([Idle EXCEPT !.kind = "ws", !.at = sent])
  <1>1. "fix" # None /\ "ws" # None /\ sent # None /\ DrainLimit \in Nat
    BY MarketDataAssumption
  <1>2. Fits(Idle)
    <2>1. ModeOK(Idle, sent) BY <1>1, IdleIs DEF ModeOK
    <2> QED BY <2>1, IdleIs, UnsubscribedFits
  <1>3. Fits([Idle EXCEPT !.kind = "fix"])
    <2> DEFINE f == [Idle EXCEPT !.kind = "fix"]
    <2>1. /\ f \in ConsumerType /\ f.kind = "fix" /\ f.at = None /\ f.want = {} /\ f.pending = <<>>
          /\ \A i \in Instrument : f.base[i] = None
      BY IdleIs DEF ConsumerType
    <2> HIDE DEF f
    <2>2. ModeOK(f, sent) BY <1>1, <2>1 DEF ModeOK
    <2>3. Fits(f) BY <2>1, <2>2, UnsubscribedFits
    <2> QED BY <2>3 DEF f
  <1>4. Fits([Idle EXCEPT !.kind = "ws", !.at = sent])
    <2> DEFINE f == [Idle EXCEPT !.kind = "ws", !.at = sent]
    <2>1. /\ f \in ConsumerType /\ f.kind = "ws" /\ f.at = sent /\ f.want = {} /\ f.pending = <<>>
          /\ \A i \in Instrument : f.base[i] = None
      BY IdleIs DEF ConsumerType
    <2> HIDE DEF f
    <2>2. ModeOK(f, sent) BY <1>1, <2>1 DEF ModeOK
    <2>3. Fits(f) BY <2>1, <2>2, UnsubscribedFits
    <2> QED BY <2>3 DEF f
  <1> QED BY <1>2, <1>3, <1>4

\* A consumer that holds a fresh snapshot of an instrument follows it from any position.
LEMMA BaselineFollows ==
  ASSUME NEW f, NEW i \in Instrument, NEW h, NEW d, NEW n \in Nat,
         sequence \in [Instrument -> Nat], f.base[i] = sequence[i], f.view[i] = levels[i],
         Applied(f) \in Int, Applied(f) <= n,
         Numbered(h, n, sequence), Depths(h, d, n, sequence, levels, quiet)
  PROVE  Follows(f, i, h, d, sequence, quiet)
  <1>1. sequence[i] \in Nat OBVIOUS
  <1>2. \A p \in 1..Applied(f) : p \in 1..n OBVIOUS
  <1>3. \A p \in 1..n : DeltaOf(h[p], i) => h[p].seq \in 1..sequence[i] BY DEF Numbered
  <1>4. \A p \in 1..Applied(f) : DeltaOf(h[p], i) => h[p].seq <= f.base[i] BY <1>1, <1>2, <1>3
  <1>5. quiet[i] => f.view[i] = d[i][f.base[i]] BY DEF Depths
  <1>6. f.base[i] \in 0..sequence[i] BY <1>1
  <1> QED BY <1>4, <1>5, <1>6 DEF Follows

LEMMA SnapshotIs ==
  ASSUME CountersOK, NEW f \in ConsumerType, NEW S
  PROVE  LET g == Snapshot(f, S)
         IN  /\ g \in ConsumerType /\ g.kind = f.kind /\ g.at = f.at /\ g.want = f.want
             /\ g.pending = f.pending /\ g.projects = f.projects
             /\ \A i \in Instrument : g.base[i] = IF i \in S THEN sequence[i] ELSE f.base[i]
             /\ \A i \in Instrument : g.view[i] = IF i \in S THEN levels[i] ELSE f.view[i]
  <1> DEFINE b == [i \in Instrument |-> IF i \in S THEN sequence[i] ELSE f.base[i]]
             v == [i \in Instrument |-> IF i \in S THEN levels[i] ELSE f.view[i]]
             g == Snapshot(f, S)
  <1>1. sequence \in [Instrument -> Nat] /\ levels \in [Instrument -> Depth]
    BY SequenceIsNat DEF CountersOK
  <1>2. b \in [Instrument -> Nat \cup {None}] /\ v \in [Instrument -> Depth]
    BY <1>1 DEF ConsumerType
  <1>3. g = [f EXCEPT !.base = b, !.view = v] BY DEF Snapshot
  <1>4. /\ \A i \in Instrument : b[i] = IF i \in S THEN sequence[i] ELSE f.base[i]
        /\ \A i \in Instrument : v[i] = IF i \in S THEN levels[i] ELSE f.view[i]
    OBVIOUS
  <1> HIDE DEF b, v, g
  <1>5. /\ g \in ConsumerType /\ g.kind = f.kind /\ g.at = f.at /\ g.want = f.want
        /\ g.pending = f.pending /\ g.projects = f.projects /\ g.base = b /\ g.view = v
    BY <1>2, <1>3 DEF ConsumerType
  <1> QED BY <1>4, <1>5 DEF g

LEMMA ConsumerIs ==
  ASSUME IInv, NEW c \in Consumer
  PROVE  ModeOK(cons[c], sent) /\ cons[c] \in ConsumerType
  <1>1. PICK h \in [Nat -> Msg] : \E d \in Depths0 :
          Stream(h, d, sent, toSend, ring, sequence, levels, quiet, cons)
    BY DEF IInv, Depths0
  <1>2. PICK d \in Depths0 : Stream(h, d, sent, toSend, ring, sequence, levels, quiet, cons)
    BY <1>1
  <1> QED BY <1>2 DEF Stream, AllFollow, ConsumerOK, ModeOK

\* Of each instrument g holds nothing, a fresh snapshot, or what f held at the same
\* position.
Rebased(f, g) ==
    \A i \in Instrument :
        \/ g.base[i] = None
        \/ g.base[i] = sequence[i] /\ g.view[i] = levels[i]
        \/ g.base[i] = f.base[i] /\ g.view[i] = f.view[i] /\ Applied(g) = Applied(f)

\* The baseline of an instrument moves by one, or to a fresh snapshot.
Honest(c, g) ==
    \A i \in Instrument :
        LET from == cons[c].base[i]
            to == g.base[i]
        IN  from # None /\ to # None /\ from # to /\ to # from + 1
              => to = sequence[i] /\ g.view[i] = levels[i]

LEMMA RebasedFits ==
  ASSUME IInv, NEW c \in Consumer, NEW g, ModeOK(g, sent), g.at # None, Rebased(cons[c], g),
         g.pending = <<>> \/ (g.pending = cons[c].pending /\ g.at = cons[c].at)
  PROVE  Fits(g) /\ Honest(c, g)
  <1>a. Honest(c, g) BY DEF Rebased, Honest
  <1> SUFFICES ASSUME NEW h \in [Nat -> Msg], NEW d \in Depths0,
                      Stream(h, d, sent, toSend, ring, sequence, levels, quiet, cons)
               PROVE  ConsumerOK(g, h, d, sent, sequence, quiet)
    BY <1>a DEF Fits
  <1> DEFINE f == cons[c]
             n == sent + Len(toSend)
  <1>1. CountersOK BY DEF IInv
  <1>2. sequence \in [Instrument -> Nat] /\ sent \in Nat /\ Len(toSend) \in Nat
    BY <1>1, SequenceIsNat DEF CountersOK
  <1>3. ConsumerOK(f, h, d, sent, sequence, quiet) BY DEF Stream, AllFollow
  <1>4. Numbered(h, n, sequence) /\ Depths(h, d, n, sequence, levels, quiet) BY DEF Stream
  <1>5. g.at \in Nat /\ g.at <= sent /\ Len(g.pending) <= g.at /\ Len(g.pending) \in Nat
    BY DEF ModeOK, ConsumerType
  <1>6. Applied(g) \in Int /\ Applied(g) <= n /\ n \in Nat BY <1>2, <1>5 DEF Applied
  <1>7. PartOf(g.pending, h, Applied(g))
    <2>1. CASE g.pending = <<>> BY <2>1 DEF PartOf
    <2>2. CASE g.pending = f.pending /\ g.at = f.at
      <3>1. Applied(g) = Applied(f) /\ f.at # None BY <2>2 DEF Applied
      <3> QED BY <1>3, <2>2, <3>1 DEF ConsumerOK
    <2> QED BY <2>1, <2>2
  <1> HIDE DEF n, f
  <1>8. ASSUME NEW i \in Instrument PROVE Follows(g, i, h, d, sequence, quiet)
    <2>1. CASE g.base[i] = None BY <2>1 DEF Follows
    <2>2. CASE g.base[i] = sequence[i] /\ g.view[i] = levels[i]
      BY <2>2, <1>2, <1>4, <1>6, BaselineFollows
    <2>3. CASE g.base[i] = f.base[i] /\ g.view[i] = f.view[i] /\ Applied(g) = Applied(f)
      <3>1. Follows(f, i, h, d, sequence, quiet) BY <1>3 DEF ConsumerOK
      <3> QED BY <2>3, <3>1 DEF Follows
    <2> QED BY <2>1, <2>2, <2>3 DEF Rebased, f
  <1> QED BY <1>7, <1>8 DEF ConsumerOK

LEMMA OldestIs ==
  ASSUME CountersOK
  PROVE  Oldest \in Nat /\ Oldest <= sent /\ sent \in Nat /\ Len(ring) \in Nat
  BY SequenceIsNat DEF CountersOK, Oldest

LEMMA ResnapshotIs ==
  ASSUME IInv, NEW c \in Consumer
  PROVE  LET g == Resnapshot(c)
         IN  /\ g \in ConsumerType /\ g.kind = cons[c].kind /\ g.at = Oldest /\ g.pending = <<>>
             /\ g.want = cons[c].want
             /\ \A i \in Instrument :
                  IF cons[c].base[i] = None THEN g.base[i] = None
                  ELSE g.base[i] = sequence[i] /\ g.view[i] = levels[i]
  <1> DEFINE f == cons[c]
             S == Subscribed(c)
             u == Snapshot(f, S)
             e == <<>>
             g == Resnapshot(c)
  <1>1. CountersOK BY DEF IInv
  <1>2. f \in ConsumerType BY ConsumerIs
  <1>3. e \in Seq(Msg) /\ e = <<>> OBVIOUS
  <1>4. Oldest \in Nat BY <1>1, OldestIs
  <1>5. /\ u \in ConsumerType /\ u.kind = f.kind /\ u.want = f.want
        /\ \A i \in Instrument : u.base[i] = IF i \in S THEN sequence[i] ELSE f.base[i]
        /\ \A i \in Instrument : u.view[i] = IF i \in S THEN levels[i] ELSE f.view[i]
    <2> HIDE DEF f, S
    <2> QED BY <1>1, <1>2, SnapshotIs
  <1>6. g = [u EXCEPT !.at = Oldest, !.pending = e] BY DEF Resnapshot
  <1>7. \A i \in Instrument : i \in S <=> f.base[i] # None BY DEF Subscribed
  <1> HIDE DEF u, S, f, g, e
  <1>8. /\ g \in ConsumerType /\ g.kind = u.kind /\ g.at = Oldest /\ g.pending = e /\ g.want = u.want
        /\ g.base = u.base /\ g.view = u.view
    BY <1>3, <1>4, <1>5, <1>6 DEF ConsumerType
  <1> QED BY <1>3, <1>5, <1>7, <1>8 DEF g, f

LEMMA ResnapshotFits ==
  ASSUME IInv, NEW c \in Consumer, cons[c].at # None
  PROVE  Fits(Resnapshot(c)) /\ Honest(c, Resnapshot(c))
  <1> DEFINE g == Resnapshot(c)
  <1>1. /\ g \in ConsumerType /\ g.kind = cons[c].kind /\ g.at = Oldest /\ g.pending = <<>>
        /\ g.want = cons[c].want
        /\ \A i \in Instrument :
             IF cons[c].base[i] = None THEN g.base[i] = None
             ELSE g.base[i] = sequence[i] /\ g.view[i] = levels[i]
    BY ResnapshotIs
  <1>2. ModeOK(cons[c], sent) BY ConsumerIs
  <1>3. CountersOK BY DEF IInv
  <1>4. Oldest \in Nat /\ Oldest <= sent BY <1>3, OldestIs
  <1>5. Oldest # None /\ DrainLimit \in Nat BY <1>4, MarketDataAssumption
  <1>6. cons[c].kind # None
    <2>1. cons[c].kind = None => cons[c] = Idle BY <1>2 DEF ModeOK
    <2> QED BY <2>1, IdleIs
  <1> HIDE DEF g
  <1>7. Len(g.pending) = 0 BY <1>1
  <1>8. ModeOK(g, sent)
    BY <1>1, <1>2, <1>4, <1>5, <1>6, <1>7 DEF ModeOK
  <1>9. Rebased(cons[c], g) BY <1>1 DEF Rebased
  <1>10. Fits(g) /\ Honest(c, g) BY <1>1, <1>5, <1>8, <1>9, RebasedFits
  <1> QED BY <1>10 DEF g

LEMMA SnapshotFits ==
  ASSUME IInv, NEW c \in Consumer, NEW S, cons[c].at # None,
         NEW W \in SUBSET cons[c].want, NEW g, g = [Snapshot(cons[c], S) EXCEPT !.want = W]
  PROVE  Fits(g) /\ Honest(c, g)
  <1> DEFINE f == cons[c]
             u == Snapshot(f, S)
  <1>1. CountersOK BY DEF IInv
  <1>2. f \in ConsumerType /\ ModeOK(f, sent) BY ConsumerIs
  <1>3. /\ u \in ConsumerType /\ u.kind = f.kind /\ u.want = f.want /\ u.at = f.at /\ u.pending = f.pending
        /\ \A i \in Instrument : u.base[i] = IF i \in S THEN sequence[i] ELSE f.base[i]
        /\ \A i \in Instrument : u.view[i] = IF i \in S THEN levels[i] ELSE f.view[i]
    <2> HIDE DEF f
    <2> QED BY <1>1, <1>2, SnapshotIs
  <1>4. g = [u EXCEPT !.want = W] OBVIOUS
  <1>5. W \in SUBSET f.want /\ f.at # None OBVIOUS
  <1> HIDE DEF u, f
  <1>6. /\ g \in ConsumerType /\ g.kind = f.kind /\ g.want = W /\ g.at = f.at /\ g.pending = f.pending
        /\ g.base = u.base /\ g.view = u.view
    BY <1>2, <1>3, <1>4, <1>5 DEF ConsumerType
  <1>7. f.kind # None
    <2>1. f.kind = None => f = Idle BY <1>2 DEF ModeOK
    <2> QED BY <1>5, <2>1, IdleIs
  <1>8. f.kind = "ws" => W = {} BY <1>2, <1>5 DEF ModeOK
  <1>9. ModeOK(g, sent) BY <1>2, <1>5, <1>6, <1>7, <1>8 DEF ModeOK
  <1>10. Applied(g) = Applied(f) BY <1>6 DEF Applied
  <1>11. Rebased(f, g)
    <2> SUFFICES ASSUME NEW i \in Instrument
                 PROVE  \/ g.base[i] = sequence[i] /\ g.view[i] = levels[i]
                        \/ g.base[i] = f.base[i] /\ g.view[i] = f.view[i]
      BY <1>10 DEF Rebased
    <2> QED BY <1>3, <1>6
  <1> QED BY <1>5, <1>6, <1>9, <1>11, RebasedFits DEF f

\* The message changes what the consumer holds of i.
Takes(f, m, i) == DeltaOf(m, i) /\ f.base[i] # None /\ ~ (m.seq <= f.base[i])

LEMMA FilterIs ==
  ASSUME NEW f \in ConsumerType, NEW m \in Msg
  PROVE  LET g == Filter(f, m)
         IN  /\ g \in ConsumerType /\ g.kind = f.kind /\ g.at = f.at /\ g.want = f.want
             /\ g.pending = f.pending /\ g.projects = f.projects
             /\ \A i \in Instrument :
                  IF Takes(f, m, i) THEN g.base[i] = m.seq /\ g.view[i] = Patch(f.view[i], m.changes)
                  ELSE g.base[i] = f.base[i] /\ g.view[i] = f.view[i]
  <1> DEFINE g == Filter(f, m)
  <1>1. CASE m.kind = "print" \/ f.base[m.inst] = None \/ m.seq <= f.base[m.inst]
    <2>1. g = f BY <1>1 DEF Filter, Reflected
    <2>2. \A i \in Instrument : ~ Takes(f, m, i)
      <3> SUFFICES ASSUME NEW i \in Instrument, Takes(f, m, i) PROVE FALSE
        OBVIOUS
      <3>1. m.kind # "print" /\ m.inst = i BY MsgIs DEF Takes
      <3> QED BY <1>1, <3>1 DEF Takes
    <2> QED BY <2>1, <2>2
  <1>2. CASE ~ (m.kind = "print" \/ f.base[m.inst] = None \/ m.seq <= f.base[m.inst])
    <2> DEFINE i == m.inst
               v == Patch(f.view[i], m.changes)
               b2 == [f.base EXCEPT ![i] = m.seq]
               v2 == [f.view EXCEPT ![i] = v]
    <2>1. /\ m.kind = "delta" /\ i \in Instrument /\ m.seq \in Nat /\ m.changes \in ChangeSet /\ DeltaOf(m, i)
          /\ \A j : DeltaOf(m, j) => j = i
      BY <1>2, MsgIs
    <2>2. g = [f EXCEPT !.base[i] = m.seq, !.view[i] = v]
      BY <1>2 DEF Filter, Reflected, Patch
    <2>3. f.view[i] \in Depth BY <2>1 DEF ConsumerType
    <2>4. v \in Depth BY <2>1, <2>3, PatchType
    <2>5. f.base \in [Instrument -> Nat \cup {None}] /\ f.view \in [Instrument -> Depth] BY DEF ConsumerType
    <2> HIDE DEF v
    <2>6. b2 \in [Instrument -> Nat \cup {None}] /\ v2 \in [Instrument -> Depth] BY <2>1, <2>4, <2>5
    <2>7. /\ \A j \in Instrument : b2[j] = IF j = i THEN m.seq ELSE f.base[j]
          /\ \A j \in Instrument : v2[j] = IF j = i THEN v ELSE f.view[j]
      BY <2>5
    <2>8. g = [f EXCEPT !.base = b2, !.view = v2] BY <2>2
    <2> HIDE DEF b2, v2, g
    <2>9. /\ g \in ConsumerType /\ g.kind = f.kind /\ g.at = f.at /\ g.want = f.want
          /\ g.pending = f.pending /\ g.projects = f.projects /\ g.base = b2 /\ g.view = v2
      BY <2>6, <2>8 DEF ConsumerType
    <2>10. \A j \in Instrument : Takes(f, m, j) <=> j = i BY <1>2, <2>1 DEF Takes
    <2>11. \A j \in Instrument :
             IF Takes(f, m, j) THEN g.base[j] = m.seq /\ g.view[j] = Patch(f.view[j], m.changes)
             ELSE g.base[j] = f.base[j] /\ g.view[j] = f.view[j]
      BY <2>7, <2>9, <2>10 DEF v
    <2> QED BY <2>9, <2>11 DEF g
  <1> QED BY <1>1, <1>2

\* The delta a consumer takes has the number after its baseline.
LEMMA NextDelta ==
  ASSUME NEW f, NEW i \in Instrument, NEW h, NEW d, NEW n \in Nat, NEW sq \in [Instrument -> Nat],
         NEW qt, Numbered(h, n, sq), Follows(f, i, h, d, sq, qt), Applied(f) \in Nat,
         Applied(f) + 1 <= n, Takes(f, h[Applied(f) + 1], i)
  PROVE  f.base[i] \in Nat /\ h[Applied(f) + 1].seq = f.base[i] + 1 /\ f.base[i] + 1 <= sq[i]
  <1> DEFINE p == Applied(f) + 1
             b == f.base[i]
             a == Applied(f)
  <1>1. p \in 1..n BY DEF Applied
  <1>2. DeltaOf(h[p], i) /\ b # None /\ ~ (h[p].seq <= b) BY DEF Takes
  <1>3. h[p].seq \in 1..sq[i] /\ sq[i] \in Nat BY <1>1, <1>2 DEF Numbered
  <1>4. b \in 0..sq[i] /\ \A q \in 1..a : DeltaOf(h[q], i) => h[q].seq <= b
    BY <1>2 DEF Follows
  <1> HIDE DEF b
  <1>5. b \in Nat /\ b + 1 \in 1..sq[i] /\ b + 1 <= h[p].seq BY <1>2, <1>3, <1>4
  <1>6. PICK q \in 1..n : DeltaOf(h[q], i) /\ h[q].seq = b + 1 BY <1>5 DEF Numbered
  <1>7. CASE q <= a
    <2>1. q \in 1..a BY <1>7
    <2>2. h[q].seq <= b BY <1>4, <1>6, <2>1
    <2> QED BY <1>5, <1>6, <2>2
  <1>8. CASE q = p BY <1>3, <1>5, <1>6, <1>8 DEF b
  <1>9. CASE q > p
    <2>1. h[p].seq < h[q].seq BY <1>1, <1>2, <1>6, <1>9 DEF Numbered
    <2> QED BY <1>3, <1>5, <1>6, <2>1
  <1> QED BY <1>7, <1>8, <1>9

\* A consumer that applied the next message follows one position further.
LEMMA AppliedFollows ==
  ASSUME NEW f, NEW i \in Instrument, NEW h, NEW d, NEW n \in Nat, NEW sq \in [Instrument -> Nat],
         NEW qt, NEW lv, Numbered(h, n, sq), Depths(h, d, n, sq, lv, qt), Follows(f, i, h, d, sq, qt),
         Applied(f) \in Nat, Applied(f) + 1 <= n,
         NEW g, Applied(g) = Applied(f) + 1,
         IF Takes(f, h[Applied(f) + 1], i)
         THEN /\ g.base[i] = h[Applied(f) + 1].seq
              /\ g.view[i] = Patch(f.view[i], h[Applied(f) + 1].changes)
         ELSE g.base[i] = f.base[i] /\ g.view[i] = f.view[i]
  PROVE  Follows(g, i, h, d, sq, qt)
  <1> DEFINE a == Applied(f)
             p == a + 1
             b == f.base[i]
  <1>1. p \in 1..n OBVIOUS
  <1>2. CASE Takes(f, h[p], i)
    <2>1. b \in Nat /\ h[p].seq = b + 1 /\ b + 1 <= sq[i] BY <1>2, NextDelta
    <2>2. g.base[i] = b + 1 /\ g.view[i] = Patch(f.view[i], h[p].changes) BY <1>2, <2>1
    <2>3. b # None /\ DeltaOf(h[p], i) BY <1>2 DEF Takes
    <2>4. /\ \A q \in 1..a : DeltaOf(h[q], i) => h[q].seq <= b
          /\ qt[i] => f.view[i] = d[i][b]
      BY <2>3 DEF Follows
    <2>5. \A q \in 1..n : DeltaOf(h[q], i) => h[q].seq \in 1..sq[i] BY DEF Numbered
    <2>6. sq[i] \in Nat OBVIOUS
    <2>7. ASSUME NEW q \in 1..p, DeltaOf(h[q], i) PROVE h[q].seq <= b + 1
      <3>1. CASE q = p BY <2>1, <3>1
      <3>2. CASE q # p
        <4>1. q \in 1..a /\ q \in 1..n BY <3>2
        <4>2. h[q].seq <= b /\ h[q].seq \in 1..sq[i] BY <2>4, <2>5, <2>7, <4>1
        <4> HIDE DEF b
        <4> QED BY <2>1, <2>6, <4>2
      <3> QED BY <3>1, <3>2
    <2>8. qt[i] => g.view[i] = d[i][b + 1]
      <3> SUFFICES ASSUME qt[i] PROVE g.view[i] = d[i][b + 1]
        OBVIOUS
      <3>1. d[i][h[p].seq] = Patch(d[i][h[p].seq - 1], h[p].changes) BY <1>1, <2>3 DEF Depths
      <3>2. (b + 1) - 1 = b BY <2>1
      <3>3. f.view[i] = d[i][b] BY <2>4
      <3> QED BY <2>1, <2>2, <3>1, <3>2, <3>3
    <2>9. b + 1 \in 0..sq[i] BY <2>1, <2>6
    <2> HIDE DEF b, p
    <2>10. Applied(g) = p BY DEF p
    <2> QED BY <2>2, <2>7, <2>8, <2>9, <2>10 DEF Follows
  <1>3. CASE ~ Takes(f, h[p], i)
    <2>1. g.base[i] = b /\ g.view[i] = f.view[i] BY <1>3
    <2>2. CASE b = None BY <2>1, <2>2 DEF Follows
    <2>3. CASE b # None
      <3>1. /\ b \in 0..sq[i]
            /\ \A q \in 1..a : DeltaOf(h[q], i) => h[q].seq <= b
            /\ qt[i] => f.view[i] = d[i][b]
        BY <2>3 DEF Follows
      <3>2. DeltaOf(h[p], i) => h[p].seq <= b BY <1>3, <2>3 DEF Takes
      <3>3. ASSUME NEW q \in 1..p, DeltaOf(h[q], i) PROVE h[q].seq <= b
        <4>1. CASE q = p BY <3>2, <3>3, <4>1
        <4>2. CASE q # p
          <5>1. q \in 1..a BY <4>2
          <5> QED BY <3>1, <3>3, <5>1
        <4> QED BY <4>1, <4>2
      <3>4. Applied(g) = p OBVIOUS
      <3> HIDE DEF b, p
      <3> QED BY <2>1, <3>1, <3>3, <3>4 DEF Follows
    <2> QED BY <2>2, <2>3
  <1> QED BY <1>2, <1>3

Moved(c) == \E f : Become(c, f) /\ Fits(f) /\ Honest(c, f)

LEMMA UnsubscribedIsHonest ==
  ASSUME NEW c, NEW g, \A i \in Instrument : g.base[i] = None
  PROVE  Honest(c, g)
  BY DEF Honest

LEMMA OpenMoves ==
  ASSUME IInv, NEW c \in Consumer, OpenWs(c) \/ OpenFix(c) \/ CloseConsumer(c)
  PROVE  Moved(c)
  <1>1. CountersOK BY DEF IInv
  <1>2. sent \in Nat BY <1>1 DEF CountersOK
  <1>3. CASE OpenWs(c)
    <2> DEFINE f == [Idle EXCEPT !.kind = "ws", !.at = sent]
    <2>1. Become(c, f) BY <1>3 DEF OpenWs
    <2>2. Fits(f) BY <1>2, OpenFits
    <2>3. f.base = Idle.base BY IdleIs DEF ConsumerType
    <2> HIDE DEF f
    <2>4. Honest(c, f) BY <2>3, IdleIs, UnsubscribedIsHonest
    <2> QED BY <2>1, <2>2, <2>4 DEF Moved
  <1>4. CASE OpenFix(c)
    <2> DEFINE f == [Idle EXCEPT !.kind = "fix"]
    <2>1. Become(c, f) BY <1>4 DEF OpenFix
    <2>2. Fits(f) BY <1>2, OpenFits
    <2>3. f.base = Idle.base BY IdleIs DEF ConsumerType
    <2> HIDE DEF f
    <2>4. Honest(c, f) BY <2>3, IdleIs, UnsubscribedIsHonest
    <2> QED BY <2>1, <2>2, <2>4 DEF Moved
  <1>5. CASE CloseConsumer(c)
    <2>1. Become(c, Idle) BY <1>5 DEF CloseConsumer
    <2>2. Fits(Idle) BY <1>2, OpenFits
    <2>3. Honest(c, Idle) BY IdleIs, UnsubscribedIsHonest
    <2> QED BY <2>1, <2>2, <2>3 DEF Moved
  <1> QED BY <1>3, <1>4, <1>5

LEMMA SubscribeWsMoves ==
  ASSUME IInv, NEW c \in Consumer, NEW i \in Instrument, SubscribeWs(c, i)
  PROVE  Moved(c)
  <1> DEFINE f == cons[c]
             S == {i}
             u == Snapshot(f, S)
             W == f.want
             g == [u EXCEPT !.want = W]
  <1>1. Become(c, u) /\ f.kind = "ws" BY DEF SubscribeWs
  <1>2. f \in ConsumerType /\ ModeOK(f, sent) /\ CountersOK BY ConsumerIs DEF IInv
  <1>3. f.at # None BY <1>1, <1>2 DEF ModeOK
  <1>4. u \in ConsumerType /\ u.want = W
    <2> HIDE DEF S, f
    <2> QED BY <1>2, SnapshotIs DEF W
  <1>5. g = u
    <2> HIDE DEF u, W
    <2> QED BY <1>4 DEF ConsumerType
  <1>6. W \in SUBSET cons[c].want /\ g = [Snapshot(cons[c], S) EXCEPT !.want = W] OBVIOUS
  <1> HIDE DEF S, W, g
  <1>7. Fits(g) /\ Honest(c, g) BY <1>3, <1>6, SnapshotFits
  <1> QED BY <1>1, <1>5, <1>7 DEF Moved

LEMMA BaselineMoves ==
  ASSUME IInv, NEW c \in Consumer, NEW i \in Instrument, BaselineFix(c, i)
  PROVE  Moved(c)
  <1> DEFINE f == cons[c]
             S == {i}
             W == f.want \ {i}
             u == Snapshot(f, S)
             g == [u EXCEPT !.want = W]
  <1>1. f \in ConsumerType /\ ModeOK(f, sent) /\ CountersOK BY ConsumerIs DEF IInv
  <1>2. u \in ConsumerType /\ u.want = f.want
    <2> HIDE DEF S, f
    <2> QED BY <1>1, SnapshotIs
  <1>3. i \in f.want /\ Become(c, [u EXCEPT !.want = @ \ {i}]) BY DEF BaselineFix
  <1>4. g = [u EXCEPT !.want = @ \ {i}]
    <2> HIDE DEF u
    <2> QED BY <1>2
  <1>5. f.at # None BY <1>1, <1>3 DEF ModeOK
  <1>6. W \in SUBSET cons[c].want /\ g = [Snapshot(cons[c], S) EXCEPT !.want = W] OBVIOUS
  <1>7. Become(c, g) BY <1>3, <1>4
  <1> HIDE DEF S, W, g
  <1>8. Fits(g) /\ Honest(c, g) BY <1>5, <1>6, SnapshotFits
  <1> QED BY <1>7, <1>8 DEF Moved

LEMMA SubscribeFixMoves ==
  ASSUME IInv, NEW c \in Consumer, NEW S \in SUBSET Instrument, SubscribeFix(c, S)
  PROVE  Moved(c)
  <1> DEFINE f == cons[c]
             a == IF f.at = None THEN sent ELSE f.at
             g == [f EXCEPT !.want = S, !.at = a]
  <1>1. f \in ConsumerType /\ ModeOK(f, sent) /\ CountersOK BY ConsumerIs DEF IInv
  <1>2. f.kind = "fix" /\ f.pending = <<>> /\ Become(c, g)
    BY DEF SubscribeFix, Settled
  <1>3. sent \in Nat /\ sent # None /\ "fix" # None /\ "fix" # "ws" /\ DrainLimit \in Nat
    BY <1>1, MarketDataAssumption DEF CountersOK
  <1>4. a \in Nat /\ a # None /\ a <= sent /\ (f.at # None => a = f.at)
    <2>1. f.at \in Nat \cup {None} /\ (f.at # None => f.at <= sent) BY <1>1 DEF ModeOK, ConsumerType
    <2> QED BY <1>3, <2>1
  <1> HIDE DEF a
  <1>5. /\ g \in ConsumerType /\ g.kind = f.kind /\ g.at = a /\ g.want = S /\ g.pending = f.pending
        /\ g.base = f.base /\ g.view = f.view
    BY <1>1, <1>4 DEF ConsumerType
  <1> HIDE DEF g
  <1>6. Len(g.pending) = 0 BY <1>2, <1>5
  <1>7. ModeOK(g, sent) BY <1>2, <1>3, <1>4, <1>5, <1>6 DEF ModeOK
  <1>8. Rebased(f, g)
    <2>1. CASE f.at = None
      <3>1. \A i \in Instrument : f.base[i] = None BY <1>1, <2>1 DEF ModeOK
      <3> QED BY <1>5, <3>1 DEF Rebased
    <2>2. CASE f.at # None
      <3>1. Applied(g) = Applied(f) BY <1>4, <1>5, <2>2 DEF Applied
      <3> QED BY <1>5, <3>1 DEF Rebased
    <2> QED BY <2>1, <2>2
  <1>9. Fits(g) /\ Honest(c, g) BY <1>2, <1>4, <1>5, <1>7, <1>8, RebasedFits
  <1> QED BY <1>2, <1>9 DEF Moved

LEMMA UnsubscribeMoves ==
  ASSUME IInv, NEW c \in Consumer, NEW i \in Instrument, Unsubscribe(c, i)
  PROVE  Moved(c)
  <1> DEFINE f == cons[c]
             z == [l \in Level |-> 0]
             g == [f EXCEPT !.base[i] = None, !.view[i] = z]
             k == [Idle EXCEPT !.kind = "fix"]
             b2 == [f.base EXCEPT ![i] = None]
             v2 == [f.view EXCEPT ![i] = z]
  <1>1. f \in ConsumerType /\ ModeOK(f, sent) /\ CountersOK BY ConsumerIs DEF IInv
  <1>2. f.base[i] # None /\ f.pending = <<>> /\ f.want = {} /\ (Become(c, g) \/ Become(c, k))
    BY DEF Unsubscribe, Settled, Subscribed
  <1>3. sent \in Nat /\ DrainLimit \in Nat BY <1>1, MarketDataAssumption DEF CountersOK
  <1>4. CASE Become(c, k)
    <2>1. Fits(k) BY <1>3, OpenFits
    <2>2. k.base = Idle.base BY IdleIs DEF ConsumerType
    <2> HIDE DEF k
    <2>3. Honest(c, k) BY <2>2, IdleIs, UnsubscribedIsHonest
    <2> QED BY <1>4, <2>1, <2>3 DEF Moved
  <1>5. CASE Become(c, g)
    <2>1. z \in Depth BY MaxDepthIsNat DEF Depth, MaxDepth
    <2>2. f.base \in [Instrument -> Nat \cup {None}] /\ f.view \in [Instrument -> Depth]
      BY <1>1 DEF ConsumerType
    <2> HIDE DEF z
    <2>3. b2 \in [Instrument -> Nat \cup {None}] /\ v2 \in [Instrument -> Depth] BY <2>1, <2>2
    <2>4. /\ \A j \in Instrument : b2[j] = IF j = i THEN None ELSE f.base[j]
          /\ \A j \in Instrument : v2[j] = IF j = i THEN z ELSE f.view[j]
      BY <2>2
    <2>5. g = [f EXCEPT !.base = b2, !.view = v2] OBVIOUS
    <2> HIDE DEF b2, v2, g
    <2>6. /\ g \in ConsumerType /\ g.kind = f.kind /\ g.at = f.at /\ g.want = f.want
          /\ g.pending = f.pending /\ g.base = b2 /\ g.view = v2
      BY <1>1, <2>3, <2>5 DEF ConsumerType
    <2>7. f.at # None BY <1>1, <1>2 DEF ModeOK
    <2>8. f.kind # None
      <3>1. f.kind = None => f = Idle BY <1>1 DEF ModeOK
      <3> QED BY <2>7, <3>1, IdleIs
    <2>9. ModeOK(g, sent) BY <1>1, <2>6, <2>7, <2>8 DEF ModeOK
    <2>10. Applied(g) = Applied(f) BY <2>6 DEF Applied
    <2>11. Rebased(f, g) BY <2>4, <2>6, <2>10 DEF Rebased
    <2>12. g.at # None /\ g.pending = <<>> BY <1>2, <2>6, <2>7
    <2>13. Fits(g) /\ Honest(c, g) BY <2>9, <2>11, <2>12, RebasedFits
    <2> QED BY <1>5, <2>13 DEF Moved
  <1> QED BY <1>2, <1>4, <1>5

\* In any account of the stream, m is the message after what f has applied, and s follows it.
NextIs(f, m, s) ==
    \A h \in [Nat -> Msg] : \A d \in Depths0 :
        Stream(h, d, sent, toSend, ring, sequence, levels, quiet, cons)
          => m = h[Applied(f) + 1] /\ PartOf(s, h, Applied(f) + 1)

\* What g holds is what f made of m.
Took(f, m, g) ==
    \A i \in Instrument :
        IF Takes(f, m, i) THEN g.base[i] = m.seq /\ g.view[i] = Patch(f.view[i], m.changes)
        ELSE g.base[i] = f.base[i] /\ g.view[i] = f.view[i]

LEMMA AppliedFits ==
  ASSUME IInv, NEW c \in Consumer, NEW f, f = cons[c], f.at # None, NEW g, ModeOK(g, sent), g.at # None,
         Applied(g) = Applied(f) + 1, NEW m, NextIs(f, m, g.pending), Took(f, m, g)
  PROVE  Fits(g) /\ Honest(c, g)
  <1> DEFINE n == sent + Len(toSend)
  <1>1. CountersOK BY DEF IInv
  <1>2. sequence \in [Instrument -> Nat] /\ sent \in Nat /\ Len(toSend) \in Nat /\ n \in Nat
    BY <1>1, SequenceIsNat DEF CountersOK
  <1>3. ModeOK(f, sent) BY ConsumerIs
  <1>4. f.at \in Nat /\ Len(f.pending) \in Nat /\ Len(f.pending) <= f.at
    BY <1>3 DEF ModeOK, ConsumerType
  <1>5. g.at \in Nat /\ Len(g.pending) \in Nat /\ g.at <= sent BY DEF ModeOK, ConsumerType
  <1>6. Applied(f) \in Nat BY <1>4 DEF Applied
  <1>7. Applied(g) <= sent BY <1>2, <1>5 DEF Applied
  <1> DEFINE a == Applied(f)
  <1>8. a \in Nat /\ a + 1 <= n BY <1>2, <1>6, <1>7
  <1> HIDE DEF n
  <1>9. ASSUME NEW h \in [Nat -> Msg], NEW d \in Depths0,
               Stream(h, d, sent, toSend, ring, sequence, levels, quiet, cons)
        PROVE  ConsumerOK(g, h, d, sent, sequence, quiet) /\ Honest(c, g)
    <2>1. ConsumerOK(f, h, d, sent, sequence, quiet) BY <1>9 DEF Stream, AllFollow
    <2>2. Numbered(h, n, sequence) /\ Depths(h, d, n, sequence, levels, quiet) BY <1>9 DEF Stream, n
    <2>3. m = h[a + 1] /\ PartOf(g.pending, h, a + 1) BY <1>9 DEF NextIs
    <2>4. ASSUME NEW i \in Instrument
          PROVE  IF Takes(f, h[a + 1], i)
                 THEN g.base[i] = h[a + 1].seq /\ g.view[i] = Patch(f.view[i], h[a + 1].changes)
                 ELSE g.base[i] = f.base[i] /\ g.view[i] = f.view[i]
      BY <2>3 DEF Took
    <2>5. ASSUME NEW i \in Instrument PROVE Follows(g, i, h, d, sequence, quiet)
      <3>1. Follows(f, i, h, d, sequence, quiet) BY <2>1 DEF ConsumerOK
      <3> QED BY <1>2, <1>8, <2>2, <2>4, <3>1, AppliedFollows
    <2>6. ConsumerOK(g, h, d, sent, sequence, quiet) BY <2>3, <2>5 DEF ConsumerOK
    <2>7. ASSUME NEW i \in Instrument, g.base[i] # f.base[i] PROVE g.base[i] = f.base[i] + 1
      <3>1. Follows(f, i, h, d, sequence, quiet) BY <2>1 DEF ConsumerOK
      <3>2. Takes(f, h[a + 1], i) /\ g.base[i] = h[a + 1].seq BY <2>4, <2>7
      <3>3. h[a + 1].seq = f.base[i] + 1 BY <1>2, <1>8, <2>2, <3>1, <3>2, NextDelta
      <3> QED BY <3>2, <3>3
    <2>8. Honest(c, g) BY <2>7 DEF Honest
    <2> QED BY <2>6, <2>8
  <1>10. Fits(g) BY <1>9 DEF Fits
  <1>11. PICK h \in [Nat -> Msg] : \E d \in Depths0 :
           Stream(h, d, sent, toSend, ring, sequence, levels, quiet, cons)
    BY DEF IInv, Depths0
  <1>12. PICK d \in Depths0 : Stream(h, d, sent, toSend, ring, sequence, levels, quiet, cons)
    BY <1>11
  <1>13. Honest(c, g) BY <1>9, <1>12
  <1> QED BY <1>10, <1>13

\* The message a receiver takes next is the one after its position.
LEMMA AfterIs ==
  ASSUME IInv, NEW p \in Nat, ~ (p < Oldest), p < sent
  PROVE  /\ After(p) \in Msg
         /\ \A h \in [Nat -> Msg] : \A d \in Depths0 :
              Stream(h, d, sent, toSend, ring, sequence, levels, quiet, cons) => After(p) = h[p + 1]
  <1>1. CountersOK BY DEF IInv
  <1>2. /\ Oldest \in Nat /\ sent \in Nat /\ Len(ring) \in Nat /\ Len(ring) <= sent
        /\ Oldest = sent - Len(ring) /\ ring \in Seq(Msg)
    BY <1>1, OldestIs DEF CountersOK, Oldest
  <1> DEFINE k == p - Oldest + 1
             q == sent - Len(ring)
  <1>3. k \in 1..Len(ring) /\ q + k = p + 1 BY <1>2
  <1>4. After(p) = ring[k] BY DEF After
  <1> HIDE DEF k, q
  <1>5. ring[k] \in Msg BY <1>2, <1>3
  <1>6. ASSUME NEW h \in [Nat -> Msg], NEW d \in Depths0,
               Stream(h, d, sent, toSend, ring, sequence, levels, quiet, cons)
        PROVE  After(p) = h[p + 1]
    <2>1. PartOf(ring, h, q) BY <1>6 DEF Stream, q
    <2>2. ring[k] = h[q + k] BY <1>3, <2>1 DEF PartOf
    <2> QED BY <1>3, <1>4, <2>2
  <1> QED BY <1>4, <1>5, <1>6

LEMMA RecvMoves ==
  ASSUME IInv, NEW c \in Consumer, RecvWs(c)
  PROVE  Moved(c)
  <1> DEFINE f == cons[c]
             m == After(f.at)
             u == [f EXCEPT !.at = @ + 1]
             g == Filter(u, m)
  <1>1. f \in ConsumerType /\ ModeOK(f, sent) /\ CountersOK BY ConsumerIs DEF IInv
  <1>2. /\ f.kind = "ws" /\ f.at < sent
        /\ Become(c, IF f.at < Oldest THEN Resnapshot(c) ELSE g)
    BY DEF RecvWs
  <1>3. f.at # None /\ f.pending = <<>> /\ f.want = {} BY <1>1, <1>2 DEF ModeOK
  <1>4. f.at \in Nat /\ sent \in Nat BY <1>1, <1>3 DEF ConsumerType, CountersOK
  <1>5. CASE f.at < Oldest
    <2>1. Become(c, Resnapshot(c)) BY <1>2, <1>5
    <2>2. Fits(Resnapshot(c)) /\ Honest(c, Resnapshot(c)) BY <1>3, ResnapshotFits
    <2> QED BY <2>1, <2>2 DEF Moved
  <1>6. CASE ~ (f.at < Oldest)
    <2>1. Become(c, g) BY <1>2, <1>6
    <2> DEFINE p == f.at
    <2>2. p \in Nat /\ ~ (p < Oldest) /\ p < sent BY <1>2, <1>4, <1>6
    <2>3. m = After(p) OBVIOUS
    <2> HIDE DEF p, m
    <2>4. /\ After(p) \in Msg
          /\ \A h \in [Nat -> Msg] : \A d \in Depths0 :
               Stream(h, d, sent, toSend, ring, sequence, levels, quiet, cons) => After(p) = h[p + 1]
      BY <2>2, AfterIs
    <2>5. /\ u \in ConsumerType /\ u.kind = f.kind /\ u.at = p + 1 /\ u.want = f.want
          /\ u.pending = f.pending /\ u.base = f.base /\ u.view = f.view
      BY <1>1, <1>4 DEF ConsumerType, p
    <2> HIDE DEF u
    <2>6. /\ g \in ConsumerType /\ g.kind = u.kind /\ g.at = u.at /\ g.want = u.want
          /\ g.pending = u.pending
          /\ \A i \in Instrument :
               IF Takes(u, m, i) THEN g.base[i] = m.seq /\ g.view[i] = Patch(u.view[i], m.changes)
               ELSE g.base[i] = u.base[i] /\ g.view[i] = u.view[i]
      BY <2>3, <2>4, <2>5, FilterIs
    <2> HIDE DEF g
    <2>7. Took(f, m, g)
      <3>1. \A i \in Instrument : Takes(u, m, i) <=> Takes(f, m, i) BY <2>5 DEF Takes
      <3> QED BY <2>5, <2>6, <3>1 DEF Took
    <2>8. Len(f.pending) = 0 /\ Len(g.pending) = 0 /\ g.pending = <<>> BY <1>3, <2>5, <2>6
    <2>9. Applied(f) = p /\ Applied(g) = p + 1 BY <2>2, <2>5, <2>6, <2>8 DEF Applied, p
    <2>10. "ws" # None /\ p + 1 # None /\ DrainLimit \in Nat /\ p + 1 \in Nat /\ p + 1 <= sent
      BY <1>4, <2>2, MarketDataAssumption
    <2>11. ModeOK(g, sent) BY <1>2, <1>3, <2>5, <2>6, <2>8, <2>10 DEF ModeOK
    <2>12. NextIs(f, m, g.pending)
      <3>1. \A h : PartOf(g.pending, h, p + 1) BY <2>8 DEF PartOf
      <3> QED BY <2>3, <2>4, <2>9, <3>1 DEF NextIs
    <2>13. f = cons[c] /\ f.at # None /\ g.at # None /\ Applied(g) = Applied(f) + 1
      BY <1>3, <2>5, <2>6, <2>9, <2>10
    <2> HIDE DEF f
    <2>14. Fits(g) /\ Honest(c, g) BY <2>7, <2>11, <2>12, <2>13, AppliedFits
    <2> QED BY <2>1, <2>14 DEF Moved
  <1> QED BY <1>5, <1>6

\* A message pulled into the drain is not applied yet.
LEMMA PullMoves ==
  ASSUME IInv, NEW c \in Consumer, PullFix(c)
  PROVE  Moved(c)
  <1> DEFINE f == cons[c]
             p == f.at
             m == After(p)
             t == Append(f.pending, m)
             g == [f EXCEPT !.at = @ + 1, !.pending = t]
  <1>1. f \in ConsumerType /\ ModeOK(f, sent) /\ CountersOK BY ConsumerIs DEF IInv
  <1>2. /\ f.kind = "fix" /\ p # None /\ p < sent /\ ~ (Len(f.pending) >= DrainLimit)
        /\ Become(c, IF p < Oldest THEN Resnapshot(c) ELSE g)
    BY DEF PullFix, Drained
  <1>3. p \in Nat /\ sent \in Nat /\ f.pending \in Seq(Msg) /\ Len(f.pending) \in Nat
    BY <1>1, <1>2 DEF ConsumerType, CountersOK
  <1>4. CASE p < Oldest
    <2>1. Become(c, Resnapshot(c)) BY <1>2, <1>4
    <2>2. Fits(Resnapshot(c)) /\ Honest(c, Resnapshot(c)) BY <1>2, ResnapshotFits
    <2> QED BY <2>1, <2>2 DEF Moved
  <1>5. CASE ~ (p < Oldest)
    <2>1. Become(c, g) BY <1>2, <1>5
    <2>2. /\ m \in Msg
          /\ \A h \in [Nat -> Msg] : \A d \in Depths0 :
               Stream(h, d, sent, toSend, ring, sequence, levels, quiet, cons) => m = h[p + 1]
      <3> HIDE DEF p
      <3> QED BY <1>2, <1>3, <1>5, AfterIs
    <2> HIDE DEF m
    <2>3. t \in Seq(Msg) /\ Len(t) = Len(f.pending) + 1 BY <1>3, <2>2
    <2> HIDE DEF t
    <2>4. /\ g \in ConsumerType /\ g.kind = f.kind /\ g.at = p + 1 /\ g.want = f.want
          /\ g.pending = t /\ g.base = f.base /\ g.view = f.view
      <3> DEFINE q == p + 1
      <3>1. q \in Nat /\ g = [f EXCEPT !.at = q, !.pending = t] BY <1>3
      <3>2. f \in ConsumerType BY <1>1
      <3> HIDE DEF q, g, f
      <3>3. /\ g \in ConsumerType /\ g.kind = f.kind /\ g.at = q /\ g.want = f.want
            /\ g.pending = t /\ g.base = f.base /\ g.view = f.view
        BY <2>3, <3>1, <3>2 DEF ConsumerType
      <3> QED BY <3>3 DEF q
    <2> HIDE DEF g
    <2>5. Len(f.pending) <= p BY <1>1, <1>2 DEF ModeOK
    <2>6. "fix" # None /\ "fix" # "ws" /\ p + 1 # None /\ DrainLimit \in Nat /\ p + 1 \in Nat
      BY <1>3, MarketDataAssumption
    <2>7. Len(t) <= p + 1 /\ p + 1 <= sent /\ Len(t) <= DrainLimit
      <3> DEFINE n == Len(f.pending)
      <3>1. n \in Nat /\ ~ (n >= DrainLimit) /\ n <= p /\ Len(t) = n + 1 BY <1>2, <1>3, <2>3, <2>5
      <3> HIDE DEF n, p
      <3> QED BY <1>2, <1>3, <2>6, <3>1
    <2>8. ModeOK(g, sent) BY <1>2, <2>4, <2>6, <2>7 DEF ModeOK
    <2>9. Applied(g) = Applied(f) /\ Applied(f) \in Int /\ Applied(f) + Len(f.pending) + 1 = p + 1
      <3> DEFINE n == Len(f.pending)
      <3>1. n \in Nat /\ Len(t) = n + 1 /\ Applied(f) = p - n /\ Applied(g) = (p + 1) - Len(t) /\ n = Len(f.pending)
        BY <1>3, <2>3, <2>4 DEF Applied
      <3>2. \A x, y \in Nat : (x + 1) - (y + 1) = x - y /\ x - y \in Int /\ (x - y) + y + 1 = x + 1
        OBVIOUS
      <3>3. (p + 1) - (n + 1) = p - n /\ p - n \in Int /\ (p - n) + n + 1 = p + 1 BY <1>3, <3>2
      <3> HIDE DEF n, p
      <3> QED BY <3>1, <3>3
    <2>10. Fits(g)
      <3> SUFFICES ASSUME NEW h \in [Nat -> Msg], NEW d \in Depths0,
                          Stream(h, d, sent, toSend, ring, sequence, levels, quiet, cons)
                   PROVE  ConsumerOK(g, h, d, sent, sequence, quiet)
        BY DEF Fits
      <3>1. ConsumerOK(f, h, d, sent, sequence, quiet) BY DEF Stream, AllFollow
      <3>2. m = h[Applied(f) + Len(f.pending) + 1] BY <2>2, <2>9
      <3> DEFINE a == Applied(f)
                 s == f.pending
      <3>3. /\ s \in Seq(Msg) /\ a \in Int /\ PartOf(s, h, a) /\ m = h[a + Len(s) + 1] /\ t = Append(s, m)
        BY <1>2, <1>3, <2>9, <3>1, <3>2 DEF ConsumerOK, t
      <3> HIDE DEF a, s
      <3>4. PartOf(t, h, a) BY <2>2, <3>3, PartOfAppend
      <3>5. PartOf(g.pending, h, Applied(g)) BY <2>4, <2>9, <3>4 DEF a
      <3>6. ASSUME NEW i \in Instrument PROVE Follows(g, i, h, d, sequence, quiet)
        <4>1. Follows(f, i, h, d, sequence, quiet) BY <3>1 DEF ConsumerOK
        <4> QED BY <2>4, <2>9, <4>1 DEF Follows
      <3> QED BY <2>8, <3>5, <3>6 DEF ConsumerOK
    <2>11. Honest(c, g) BY <2>4 DEF Honest
    <2> QED BY <2>1, <2>10, <2>11 DEF Moved
  <1> QED BY <1>4, <1>5

LEMMA ProjectMoves ==
  ASSUME IInv, NEW c \in Consumer, ProjectFix(c)
  PROVE  Moved(c)
  <1> DEFINE f == cons[c]
             s == f.pending
             rest == Tail(s)
             m == Head(s)
             more == (rest # <<>>)
             u == Filter(f, m)
             g == [u EXCEPT !.pending = rest, !.projects = more]
  <1>1. f \in ConsumerType /\ ModeOK(f, sent) /\ CountersOK BY ConsumerIs DEF IInv
  <1>2. s # <<>> /\ Become(c, g) BY DEF ProjectFix
  <1>3. more \in BOOLEAN OBVIOUS
  <1>4. f.at # None BY <1>1, <1>2 DEF ModeOK
  <1>5. f.at \in Nat /\ sent \in Nat /\ s \in Seq(Msg) /\ f.at <= sent /\ Len(s) <= f.at /\ Len(s) <= DrainLimit
    BY <1>1, <1>4 DEF ConsumerType, CountersOK, ModeOK
  <1> HIDE DEF s
  <1>6. /\ m = s[1] /\ m \in Msg /\ rest \in Seq(Msg) /\ Len(rest) = Len(s) - 1 /\ Len(s) \in Nat
        /\ Len(s) >= 1 /\ Len(rest) \in Nat
    BY <1>2, <1>5, TailIs
  <1> HIDE DEF rest, m, more
  <1>7. /\ u \in ConsumerType /\ u.kind = f.kind /\ u.at = f.at /\ u.want = f.want
        /\ \A i \in Instrument :
             IF Takes(f, m, i) THEN u.base[i] = m.seq /\ u.view[i] = Patch(f.view[i], m.changes)
             ELSE u.base[i] = f.base[i] /\ u.view[i] = f.view[i]
    <2> HIDE DEF f
    <2> QED BY <1>1, <1>6, FilterIs
  <1> HIDE DEF u
  <1>8. /\ g \in ConsumerType /\ g.kind = u.kind /\ g.at = u.at /\ g.want = u.want
        /\ g.pending = rest /\ g.base = u.base /\ g.view = u.view
    BY <1>3, <1>6, <1>7 DEF ConsumerType
  <1> HIDE DEF g
  <1>9. Took(f, m, g) BY <1>7, <1>8 DEF Took
  <1>10. Applied(g) = Applied(f) + 1 /\ Applied(f) \in Int
    <2>1. Applied(f) = f.at - Len(s) /\ Applied(g) = f.at - Len(rest) BY <1>7, <1>8 DEF Applied, s
    <2> DEFINE n == Len(s)
               p == f.at
    <2>2. n \in Nat /\ p \in Nat /\ Len(rest) = n - 1 /\ Applied(f) = p - n /\ Applied(g) = p - Len(rest)
      BY <1>5, <1>6, <2>1
    <2> HIDE DEF n, p
    <2>3. p - (n - 1) = (p - n) + 1 /\ p - n \in Int BY <2>2
    <2> QED BY <2>2, <2>3
  <1>11. f.kind # None /\ f.kind # "ws"
    <2>1. f.kind = None => f = Idle BY <1>1 DEF ModeOK
    <2>2. f.kind = "ws" => s = <<>> BY <1>1 DEF ModeOK, s
    <2> QED BY <1>2, <1>4, <2>1, <2>2, IdleIs
  <1>12. ModeOK(g, sent)
    <2>1. DrainLimit \in Nat BY MarketDataAssumption
    <2>2. Len(rest) <= f.at /\ Len(rest) <= DrainLimit
      <3> DEFINE n == Len(s)
                 p == f.at
      <3>1. n \in Nat /\ Len(rest) = n - 1 /\ n <= p /\ p \in Nat /\ n <= DrainLimit BY <1>5, <1>6
      <3> HIDE DEF n, p
      <3>2. Len(rest) <= p /\ Len(rest) <= DrainLimit BY <2>1, <3>1
      <3> QED BY <3>2 DEF p
    <2>3. g.at # None /\ g.kind # None /\ g.kind # "ws" /\ g.at = f.at BY <1>4, <1>7, <1>8, <1>11
    <2> QED BY <1>5, <1>8, <2>2, <2>3 DEF ModeOK
  <1>13. NextIs(f, m, g.pending)
    <2> SUFFICES ASSUME NEW h \in [Nat -> Msg], NEW d \in Depths0,
                        Stream(h, d, sent, toSend, ring, sequence, levels, quiet, cons)
                 PROVE  m = h[Applied(f) + 1] /\ PartOf(g.pending, h, Applied(f) + 1)
      BY DEF NextIs
    <2>1. ConsumerOK(f, h, d, sent, sequence, quiet) BY DEF Stream, AllFollow
    <2> DEFINE a == Applied(f)
    <2>2. PartOf(s, h, a) /\ a \in Int BY <1>4, <1>10, <2>1 DEF ConsumerOK, s
    <2> HIDE DEF a
    <2>3. PartOf(Tail(s), h, a + 1) /\ Head(s) = h[a + 1] BY <1>2, <1>5, <2>2, PartOfTail
    <2> QED BY <1>8, <2>3 DEF a, rest, m
  <1>14. f = cons[c] /\ g.at # None BY <1>4, <1>7, <1>8
  <1> HIDE DEF f
  <1>15. Fits(g) /\ Honest(c, g) BY <1>4, <1>9, <1>10, <1>12, <1>13, <1>14, AppliedFits
  <1> QED BY <1>2, <1>15 DEF Moved

LEMMA ConsumerMoves ==
  ASSUME IInv, NEW c \in Consumer, Client(c) \/ Deliver(c)
  PROVE  Moved(c)
  <1>1. CASE OpenWs(c) \/ OpenFix(c) \/ CloseConsumer(c) BY <1>1, OpenMoves
  <1>2. ASSUME NEW i \in Instrument, SubscribeWs(c, i) PROVE Moved(c) BY <1>2, SubscribeWsMoves
  <1>3. ASSUME NEW i \in Instrument, Unsubscribe(c, i) PROVE Moved(c) BY <1>3, UnsubscribeMoves
  <1>4. ASSUME NEW S \in SUBSET Instrument, SubscribeFix(c, S) PROVE Moved(c) BY <1>4, SubscribeFixMoves
  <1>5. CASE RecvWs(c) BY <1>5, RecvMoves
  <1>6. CASE PullFix(c) BY <1>6, PullMoves
  <1>7. CASE ProjectFix(c) BY <1>7, ProjectMoves
  <1>8. ASSUME NEW i \in Instrument, BaselineFix(c, i) PROVE Moved(c) BY <1>8, BaselineMoves
  <1> QED BY <1>1, <1>2, <1>3, <1>4, <1>5, <1>6, <1>7, <1>8 DEF Client, Deliver
-----------------------------------------------------------------------------
(* The rest of the venue's steps, and the invariant.                        *)

LEMMA UnnamedKeeps ==
  ASSUME IInv, NEW swept \in SUBSET DOMAIN book, SweepUnnamed(swept)
  PROVE  IInv'
  <1>1. BookOK(orders, book, used, hidden) /\ DepthOK(orders, levels) /\ CountersOK /\ DOMAIN cons = Consumer
    BY DEF IInv
  <1>2. /\ book' = [id \in DOMAIN book \ swept |-> book[id]] /\ hidden' = hidden \cup swept
        /\ UNCHANGED <<used, orders, levels, sequence, toSend, sent, ring, cons, quiet, boots>>
    BY DEF SweepUnnamed, feed, Restrict
  <1>3. BookOK(orders, book', used, hidden \cup swept)
    <2>1. DOMAIN book' = DOMAIN book \ swept /\ \A id \in DOMAIN book \ swept : book'[id] = book[id]
      BY <1>2
    <2>2. \A id \in swept : id \in used BY <1>1 DEF BookOK
    <2> QED BY <1>1, <2>1, <2>2 DEF BookOK
  <1>4. CountersOK'
    <2>1. UNCHANGED <<levels, sequence, sent, toSend, ring, quiet, boots>> BY <1>2
    <2> QED BY <1>1, <2>1 DEF CountersOK
  <1>5. BookOK(orders, book, used, hidden)' /\ DepthOK(orders, levels)' /\ DOMAIN cons' = Consumer
    BY <1>1, <1>2, <1>3
  <1>6. PICK h \in [Nat -> Msg] : \E d \in Depths0 :
          Stream(h, d, sent, toSend, ring, sequence, levels, quiet, cons)
    BY DEF IInv, Depths0
  <1>7. PICK d \in Depths0 : Stream(h, d, sent, toSend, ring, sequence, levels, quiet, cons)
    BY <1>6
  <1>8. Stream(h, d, sent', toSend', ring', sequence', levels', quiet', cons') BY <1>2, <1>7
  <1> QED BY <1>4, <1>5, <1>8 DEF IInv, Depths0

NoDepth == [i \in Instrument |-> [l \in Level |-> 0]]
NoNumber == [i \in Instrument |-> 0]
AllIdle == [c \in Consumer |-> Idle]
AllQuiet == [i \in Instrument |-> TRUE]

LEMMA EmptyIs ==
  /\ DOMAIN <<>> = {} /\ <<>> = [id \in DOMAIN <<>> |-> <<>>[id]]
  /\ <<>> \in Seq(Msg) /\ Len(<<>>) = 0
  OBVIOUS

LEMMA NothingDeep == DepthOK(<<>>, NoDepth)
  <1> SUFFICES ASSUME NEW i \in Instrument, NEW l \in Level
               PROVE  NoDepth[i][l] = Cardinality(Contracts(<<>>, DOMAIN <<>>, i, l))
    BY DEF DepthOK
  <1>1. Contracts(<<>>, DOMAIN <<>>, i, l) = {} BY EmptyIs DEF Contracts
  <1>2. Cardinality(Contracts(<<>>, DOMAIN <<>>, i, l)) = 0 BY <1>1, FS_EmptySet
  <1> QED BY <1>2 DEF NoDepth

\* An empty aggregate beside a hidden book.
LEMMA NothingBooked ==
  ASSUME NEW b, NEW u \in SUBSET OrderId, NEW hd \in SUBSET u, DOMAIN b \subseteq hd,
         \A id \in DOMAIN b : b[id] \in Resting
  PROVE  BookOK(<<>>, b, u, hd)
  <1> DEFINE o == <<>>
  <1>1. DOMAIN o = {} /\ o = [id \in DOMAIN o |-> o[id]] BY EmptyIs
  <1> HIDE DEF o
  <1>2. BookOK(o, b, u, hd) BY <1>1 DEF BookOK
  <1> QED BY <1>2 DEF o

\* A stream on which nothing happened.
LEMMA FreshStream ==
  ASSUME NEW st \in Nat
  PROVE  \E h \in [Nat -> Msg] : \E d \in Depths0 :
           Stream(h, d, st, <<>>, <<>>, NoNumber, NoDepth, AllQuiet, AllIdle)
  <1> DEFINE h == [p \in Nat |-> Tape]
             z == [l \in Level |-> 0]
             zs == [n \in Nat |-> z]
             d == [i \in Instrument |-> zs]
             e == <<>>
  <1>1. Tape \in Msg /\ \A i : ~ DeltaOf(Tape, i) BY PrintIsMsg DEF DeltaOf, Tape
  <1>2. h \in [Nat -> Msg] /\ \A p \in Nat : h[p] = Tape BY <1>1
  <1>3. z \in Depth BY MaxDepthIsNat DEF Depth, MaxDepth
  <1>4. \A i \in Instrument : NoDepth[i] = z /\ NoNumber[i] = 0 BY DEF NoDepth, NoNumber
  <1>5. d \in Depths0 /\ \A i \in Instrument : \A n \in Nat : d[i][n] = z BY <1>3 DEF Depths0
  <1>6. e \in Seq(Msg) /\ Len(e) = 0 /\ e = <<>> BY EmptyIs
  <1>7. \A p \in 1..(st + Len(e)) : p \in Nat BY <1>6
  <1> HIDE DEF h, z, d, e
  <1>8. Numbered(h, st + Len(e), NoNumber)
    <2>1. \A p \in 1..(st + Len(e)) : h[p] \in Msg /\ \A i : ~ DeltaOf(h[p], i) BY <1>1, <1>2, <1>7
    <2>2. \A i \in Instrument : 1..NoNumber[i] = {} BY <1>4
    <2> QED BY <2>1, <2>2 DEF Numbered
  <1>9. Depths(h, d, st + Len(e), NoNumber, NoDepth, AllQuiet)
    <2>1. \A p \in 1..(st + Len(e)) : \A i : ~ DeltaOf(h[p], i) BY <1>1, <1>2, <1>7
    <2>2. \A i \in Instrument : d[i][NoNumber[i]] = NoDepth[i] BY <1>4, <1>5
    <2> QED BY <2>1, <2>2 DEF Depths
  <1>10. PartOf(e, h, st) /\ PartOf(e, h, st - Len(e)) BY <1>6 DEF PartOf
  <1>11. AllFollow(AllIdle, h, d, st, NoNumber, AllQuiet)
    <2> SUFFICES ASSUME NEW c \in Consumer PROVE ConsumerOK(Idle, h, d, st, NoNumber, AllQuiet)
      BY DEF AllFollow, AllIdle
    <2>1. "ws" # None /\ DrainLimit \in Nat BY MarketDataAssumption
    <2>2. Len(Idle.pending) = 0 BY IdleIs
    <2>3. ModeOK(Idle, st) BY <2>1, <2>2, IdleIs DEF ModeOK
    <2> QED BY <2>3, IdleIs DEF ConsumerOK, Follows
  <1>12. Stream(h, d, st, e, e, NoNumber, NoDepth, AllQuiet, AllIdle)
    BY <1>8, <1>9, <1>10, <1>11 DEF Stream
  <1> QED BY <1>2, <1>5, <1>6, <1>12

LEMMA NothingCounted ==
  /\ NoDepth \in [Instrument -> Depth] /\ NoNumber \in [Instrument -> 0..MaxSent]
  /\ AllQuiet \in [Instrument -> BOOLEAN] /\ DOMAIN AllIdle = Consumer
  /\ \A i \in Instrument : NoNumber[i] = 0
  <1>1. [l \in Level |-> 0] \in Depth BY MaxDepthIsNat DEF Depth, MaxDepth
  <1>2. 0 \in 0..MaxSent BY MarketDataAssumption
  <1> QED BY <1>1, <1>2 DEF NoDepth, NoNumber, AllQuiet, AllIdle

LEMMA InitOK == Init => IInv
  <1> SUFFICES ASSUME Init PROVE IInv
    OBVIOUS
  <1>1. /\ book = <<>> /\ used = {} /\ orders = <<>> /\ levels = NoDepth /\ sequence = NoNumber
        /\ toSend = <<>> /\ sent = 0 /\ ring = <<>> /\ cons = AllIdle /\ hidden = {} /\ quiet = AllQuiet
        /\ boots = 0
    BY DEF Init, NoDepth, NoNumber, AllIdle, AllQuiet
  <1>2. BookOK(orders, book, used, hidden)
    <2>1. DOMAIN book = {} BY <1>1, EmptyIs
    <2>2. BookOK(<<>>, book, used, hidden) BY <1>1, <2>1, NothingBooked
    <2> QED BY <1>1, <2>2
  <1>3. DepthOK(orders, levels) BY <1>1, NothingDeep
  <1>4. CountersOK
    <2>1. toSend \in Seq(Msg) /\ ring \in Seq(Msg) /\ Len(toSend) = 0 /\ Len(ring) = 0 BY <1>1, EmptyIs
    <2>2. boots \in 0..MaxBoots /\ sent \in Nat /\ sent = 0 BY <1>1, MarketDataAssumption
    <2>3. \A i \in Instrument : sequence[i] = 0 BY <1>1, NothingCounted
    <2>4. levels \in [Instrument -> Depth] /\ sequence \in [Instrument -> 0..MaxSent] /\ quiet \in [Instrument -> BOOLEAN]
      BY <1>1, NothingCounted
    <2> QED BY <2>1, <2>2, <2>3, <2>4 DEF CountersOK
  <1>5. DOMAIN cons = Consumer BY <1>1, NothingCounted
  <1>6. sent \in Nat BY <1>1
  <1>7. \E h \in [Nat -> Msg] : \E d \in Depths0 :
          Stream(h, d, sent, <<>>, <<>>, NoNumber, NoDepth, AllQuiet, AllIdle)
    BY <1>6, FreshStream
  <1>8. \E h \in [Nat -> Msg] : \E d \in Depths0 :
          Stream(h, d, sent, toSend, ring, sequence, levels, quiet, cons)
    BY <1>1, <1>7
  <1> QED BY <1>2, <1>3, <1>4, <1>5, <1>8 DEF IInv, Depths0

LEMMA RestartKeeps ==
  ASSUME IInv, Restart
  PROVE  IInv'
  <1>1. BookOK(orders, book, used, hidden) /\ CountersOK BY DEF IInv
  <1>2. /\ boots < MaxBoots /\ boots' = boots + 1 /\ orders' = <<>> /\ levels' = NoDepth
        /\ sequence' = NoNumber /\ toSend' = <<>> /\ ring' = <<>> /\ cons' = AllIdle /\ quiet' = AllQuiet
        /\ hidden' = hidden \cup DOMAIN book /\ book' = book /\ used' = used /\ sent' = sent
    BY DEF Restart, NoDepth, NoNumber, AllIdle, AllQuiet
  <1>3. BookOK(orders, book, used, hidden)'
    <2> DEFINE hd == hidden \cup DOMAIN book
    <2>1. /\ used \in SUBSET OrderId /\ hd \in SUBSET used /\ DOMAIN book \subseteq hd
          /\ \A id \in DOMAIN book : book[id] \in Resting
      BY <1>1 DEF BookOK
    <2> HIDE DEF hd
    <2>2. BookOK(<<>>, book, used, hd) BY <2>1, NothingBooked
    <2> QED BY <1>2, <2>2 DEF hd
  <1>4. DepthOK(orders, levels)' BY <1>2, NothingDeep
  <1>5. CountersOK'
    <2>1. toSend' \in Seq(Msg) /\ ring' \in Seq(Msg) /\ Len(toSend') = 0 /\ Len(ring') = 0 BY <1>2, EmptyIs
    <2>2. boots' \in 0..MaxBoots /\ sent' \in Nat BY <1>1, <1>2, MarketDataAssumption DEF CountersOK
    <2>3. \A i \in Instrument : sequence'[i] = 0 BY <1>2, NothingCounted
    <2>4. levels' \in [Instrument -> Depth] /\ sequence' \in [Instrument -> 0..MaxSent] /\ quiet' \in [Instrument -> BOOLEAN]
      BY <1>2, NothingCounted
    <2> QED BY <2>1, <2>2, <2>3, <2>4 DEF CountersOK
  <1>6. DOMAIN cons' = Consumer BY <1>2, NothingCounted
  <1>7. sent \in Nat BY <1>1 DEF CountersOK
  <1>8. \E h \in [Nat -> Msg] : \E d \in Depths0 :
          Stream(h, d, sent, <<>>, <<>>, NoNumber, NoDepth, AllQuiet, AllIdle)
    BY <1>7, FreshStream
  <1>9. \E h \in [Nat -> Msg] : \E d \in Depths0 :
          Stream(h, d, sent', toSend', ring', sequence', levels', quiet', cons')
    BY <1>2, <1>8
  <1> QED BY <1>3, <1>4, <1>5, <1>6, <1>9 DEF IInv, Depths0

\* A step of the baselines is a step by one or to a fresh snapshot.
NoGap ==
    \A c \in Consumer, i \in Instrument :
       LET from == cons[c].base[i]
           to == cons'[c].base[i]
       IN  from # None /\ to # None /\ from # to /\ to # from + 1
             => to = sequence[i] /\ cons'[c].view[i] = levels[i]

LEMMA MovedKeeps ==
  ASSUME IInv, NEW c \in Consumer, Moved(c)
  PROVE  IInv' /\ NoGap
  <1>1. PICK f : Become(c, f) /\ Fits(f) /\ Honest(c, f) BY DEF Moved
  <1>2. IInv' BY <1>1, BecomeKeeps
  <1>3. \A x \in Consumer : cons'[x] = IF x = c THEN f ELSE cons[x] BY <1>1 DEF Become, IInv
  <1>4. NoGap BY <1>1, <1>3 DEF NoGap, Honest
  <1> QED BY <1>2, <1>4

LEMMA SameConsumers ==
  ASSUME cons' = cons
  PROVE  NoGap
  BY DEF NoGap

LEMMA StepKeeps ==
  ASSUME IInv, Next
  PROVE  IInv' /\ NoGap
  <1>1. BookOK(orders, book, used, hidden) BY DEF IInv
  <1>2. ASSUME NEW e, GoodTurn(e) PROVE IInv' /\ NoGap
    <2>1. cons' = cons BY <1>2 DEF GoodTurn, Turn
    <2> QED BY <1>2, <2>1, TurnKeeps, SameConsumers
  <1>3. ASSUME NEW maker \in BOOLEAN, NEW i \in Instrument, NEW l \in Level, NEW q \in Qty,
               AddOrder(maker, i, l, q)
        PROVE  IInv' /\ NoGap
    BY <1>1, <1>2, <1>3, AddIsGood
  <1>4. ASSUME NEW id \in OrderId, CancelOrder(id) PROVE IInv' /\ NoGap
    BY <1>1, <1>2, <1>4, CancelIsGood
  <1>5. ASSUME NEW id \in OrderId, NEW l \in Level, NEW q \in Qty, Replace(id, l, q)
        PROVE  IInv' /\ NoGap
    BY <1>1, <1>2, <1>5, ReplaceIsGood
  <1>6. ASSUME NEW i \in Instrument, NEW swept \in SUBSET Here(i), MassCancelBook(i, swept)
        PROVE  IInv' /\ NoGap
    BY <1>1, <1>2, <1>6, SweepIsGood
  <1>7. ASSUME NEW swept \in SUBSET DOMAIN book, SweepUnnamed(swept) PROVE IInv' /\ NoGap
    <2>1. cons' = cons BY <1>7 DEF SweepUnnamed
    <2> QED BY <1>7, <2>1, UnnamedKeeps, SameConsumers
  <1>8. CASE SimStep
    <2>1. cons' = cons BY <1>8 DEF SimStep
    <2> QED BY <1>8, <2>1, PriceKeeps, SameConsumers
  <1>9. CASE Send
    <2>1. cons' = cons BY <1>9 DEF Send
    <2> QED BY <1>9, <2>1, SendKeeps, SameConsumers
  <1>10. CASE Restart
    <2>1. \A c \in Consumer : cons'[c] = Idle BY <1>10 DEF Restart
    <2>2. NoGap BY <2>1, IdleIs DEF NoGap
    <2> QED BY <1>10, <2>2, RestartKeeps
  <1>11. ASSUME NEW c \in Consumer, Client(c) \/ Deliver(c) PROVE IInv' /\ NoGap
    BY <1>11, ConsumerMoves, MovedKeeps
  <1> QED BY <1>3, <1>4, <1>5, <1>6, <1>7, <1>8, <1>9, <1>10, <1>11 DEF Next, Venue

LEMMA NextKeeps ==
  ASSUME IInv, [Next]_vars
  PROVE  IInv' /\ [NoGap]_vars
  <1>1. CASE Next BY <1>1, StepKeeps
  <1>2. CASE UNCHANGED vars
    <2>1. UNCHANGED <<book, used, orders, levels, sequence, toSend, sent, ring, cons, hidden, quiet, boots>>
      BY <1>2 DEF vars
    <2>2. BookOK(orders, book, used, hidden)' /\ DepthOK(orders, levels)' /\ DOMAIN cons' = Consumer
      BY <2>1 DEF IInv
    <2>3. CountersOK' BY <2>1 DEF IInv, CountersOK
    <2>4. \E h \in [Nat -> Msg] : \E d \in Depths0 :
            Stream(h, d, sent', toSend', ring', sequence', levels', quiet', cons')
      BY <2>1 DEF IInv, Depths0
    <2> QED BY <1>2, <2>2, <2>3, <2>4 DEF IInv, Depths0
  <1> QED BY <1>1, <1>2

LEMMA IInvAlways == Spec => []IInv
  <1>1. IInv /\ [Next]_vars => IInv' BY NextKeeps
  <1> QED BY <1>1, InitOK, PTL DEF Spec

LEMMA RestrictOutside ==
  ASSUME NEW o, NEW b, NEW u, NEW hd, BookOK(o, b, u, hd)
  PROVE  Restrict(o, DOMAIN o \ hd) = Restrict(b, DOMAIN b \ hd)
  <1>1. \A id : id \in DOMAIN o \ hd <=> id \in DOMAIN b \ hd BY DEF BookOK
  <1>2. DOMAIN o \ hd = DOMAIN b \ hd BY <1>1
  <1>3. \A id \in DOMAIN o \ hd : o[id] = b[id] BY DEF BookOK
  <1> QED BY <1>2, <1>3 DEF Restrict

LEMMA FeedFollowsBook == IInv => AggregateFollowsBook
  <1> SUFFICES ASSUME IInv PROVE AggregateFollowsBook
    OBVIOUS
  <1>1. BookOK(orders, book, used, hidden) /\ DepthOK(orders, levels) BY DEF IInv
  <1>2. Restrict(orders, DOMAIN orders \ hidden) = Restrict(book, DOMAIN book \ hidden)
    BY <1>1, RestrictOutside
  <1> QED BY <1>1, <1>2 DEF AggregateFollowsBook, DepthOK

LEMMA FeedIsTyped == IInv => TypeOK
  <1> SUFFICES ASSUME IInv PROVE TypeOK
    OBVIOUS
  <1>1. BookOK(orders, book, used, hidden) /\ CountersOK BY DEF IInv
  <1>2. \A f \in {book, orders} : DOMAIN f \subseteq OrderId /\ Range(f) \subseteq Resting
    <2>1. /\ \A id \in DOMAIN orders : id \in OrderId /\ orders[id] \in Resting
          /\ \A id \in DOMAIN book : id \in OrderId /\ book[id] \in Resting
      BY <1>1 DEF BookOK
    <2> QED BY <2>1 DEF Range
  <1>3. used \subseteq OrderId /\ hidden \subseteq OrderId BY <1>1 DEF BookOK
  <1>4. /\ levels \in [Instrument -> Depth] /\ sequence \in [Instrument -> 0..MaxSent]
        /\ Len(toSend) <= 2 /\ boots \in 0..MaxBoots /\ quiet \in [Instrument -> BOOLEAN] /\ sent \in Nat
    BY <1>1 DEF CountersOK
  <1>5. ASSUME NEW c \in Consumer
        PROVE  /\ cons[c].at \in 0..sent \cup {None}
               /\ cons[c].base \in [Instrument -> 0..MaxSent \cup {None}]
               /\ cons[c].view \in [Instrument -> Depth]
               /\ cons[c].want \subseteq Instrument /\ Len(cons[c].pending) <= DrainLimit
    <2> DEFINE f == cons[c]
    <2>1. f \in ConsumerType /\ ModeOK(f, sent) BY ConsumerIs
    <2>2. PICK h \in [Nat -> Msg] : \E d \in Depths0 :
            Stream(h, d, sent, toSend, ring, sequence, levels, quiet, cons)
      BY DEF IInv, Depths0
    <2>3. PICK d \in Depths0 : Stream(h, d, sent, toSend, ring, sequence, levels, quiet, cons)
      BY <2>2
    <2>4. \A i \in Instrument : Follows(f, i, h, d, sequence, quiet)
      BY <2>3 DEF Stream, AllFollow, ConsumerOK
    <2> HIDE DEF f
    <2>5. ASSUME NEW i \in Instrument PROVE f.base[i] \in 0..MaxSent \cup {None}
      <3>1. sequence[i] \in 0..MaxSent /\ MaxSent \in Nat BY <1>4, MarketDataAssumption
      <3>2. f.base[i] # None => f.base[i] \in 0..sequence[i] BY <2>4 DEF Follows
      <3> QED BY <3>1, <3>2
    <2>6. f.base \in [Instrument -> Nat \cup {None}] BY <2>1 DEF ConsumerType
    <2>7. f.base \in [Instrument -> 0..MaxSent \cup {None}] BY <2>5, <2>6
    <2>8. f.at \in 0..sent \cup {None} BY <1>4, <2>1 DEF ModeOK, ConsumerType
    <2>9. f.view \in [Instrument -> Depth] /\ f.want \subseteq Instrument /\ Len(f.pending) <= DrainLimit
      BY <2>1 DEF ModeOK, ConsumerType
    <2> QED BY <2>7, <2>8, <2>9 DEF f
  <1> QED BY <1>2, <1>3, <1>4, <1>5 DEF TypeOK

LEMMA CaughtUpSees == IInv => CaughtUpSeesDepth
  <1> SUFFICES ASSUME IInv, NEW c \in Consumer, NEW i \in Instrument, cons[c].base[i] # None, quiet[i],
                      toSend = <<>>, cons[c].at = sent, cons[c].pending = <<>>
               PROVE  cons[c].base[i] = sequence[i] /\ cons[c].view[i] = levels[i]
    BY DEF CaughtUpSeesDepth
  <1> DEFINE f == cons[c]
  <1>1. PICK h \in [Nat -> Msg] : \E d \in Depths0 :
          Stream(h, d, sent, toSend, ring, sequence, levels, quiet, cons)
    BY DEF IInv, Depths0
  <1>2. PICK d \in Depths0 : Stream(h, d, sent, toSend, ring, sequence, levels, quiet, cons)
    BY <1>1
  <1>3. CountersOK BY DEF IInv
  <1>4. sequence \in [Instrument -> Nat] /\ sent \in Nat /\ sent + Len(toSend) = sent
    BY <1>3, SequenceIsNat
  <1>5. Numbered(h, sent, sequence) /\ Depths(h, d, sent, sequence, levels, quiet)
    BY <1>2, <1>4 DEF Stream
  <1>6. Follows(f, i, h, d, sequence, quiet) BY <1>2 DEF Stream, AllFollow, ConsumerOK
  <1>7. Applied(f) = sent BY <1>4 DEF Applied
  <1> DEFINE b == f.base[i]
             n == sequence[i]
  <1>8. /\ b \in 0..n /\ n \in Nat /\ f.view[i] = d[i][b]
        /\ \A p \in 1..sent : DeltaOf(h[p], i) => h[p].seq <= b
    BY <1>4, <1>6, <1>7 DEF Follows
  <1>9. n # 0 => \E p \in 1..sent : DeltaOf(h[p], i) /\ h[p].seq = n
    <2>1. n # 0 => n \in 1..sequence[i] BY <1>8
    <2> QED BY <1>5, <2>1 DEF Numbered
  <1>10. n # 0 => n <= b BY <1>8, <1>9
  <1>11. d[i][n] = levels[i] BY <1>5 DEF Depths
  <1> HIDE DEF b, n
  <1>12. b = n BY <1>8, <1>10
  <1>13. f.view[i] = levels[i] BY <1>8, <1>11, <1>12
  <1> QED BY <1>12, <1>13 DEF b, n

\* DepthIsTrue: for any instruments, orders and consumers, the aggregate that on_committed_event
\* folds is the book as far as commands named a symbol, each level the sum of its orders, and a
\* consumer that has taken every message holds that depth, however Send, the snapshots of
\* subscribe and of a lagged receiver, and the FIX drain fall between the turns.
THEOREM DepthAlwaysTrue == Spec => []DepthIsTrue
  <1>1. IInv => DepthIsTrue BY FeedIsTyped, FeedFollowsBook, CaughtUpSees DEF DepthIsTrue
  <1> QED BY <1>1, IInvAlways, PTL

\* NoSilentGap: Connection::filter and drain_market_data move a baseline by one delta at a time,
\* and whatever the capacity of the broadcast, a receiver that lagged goes on from a snapshot of
\* the current number and depth.
THEOREM GapsAreNeverSilent == Spec => NoSilentGap
  <1>1. IInv /\ [Next]_vars => [NoGap]_vars BY NextKeeps
  <1>2. NoSilentGap <=> [][NoGap]_vars BY DEF NoSilentGap, NoGap
  <1> QED BY <1>1, <1>2, IInvAlways, PTL DEF Spec
=============================================================================
