-------------------------- MODULE RequestPathProofs --------------------------
(***************************************************************************)
(* Machine-checked facts about the way of a request into the venue:        *)
(* IngressReorder, for every set of requests, every capacity, quota and    *)
(* latency draw, and OrderFlow, for every set of parties, underlyings,     *)
(* keys and ceilings.                                                      *)
(***************************************************************************)
EXTENDS IngressReorder, OrderFlow, FiniteSetTheorems, TLAPS

-----------------------------------------------------------------------------
(* The inductive invariant.                                                 *)

Keys == [deadline : Int, session : Nat, arrival : Nat]

\* The requests the edge holds, and those that have a key.
Here  == pending \cup Range(due)
Keyed == {r \in Request : at[r] = "keyed"} \cup Here
Counted == {r \in Request : at[r] \notin {"new", "timed"}}

InvTypes == key \in [Request -> Keys] /\ highest \in Keys

\* A request that has not reached the buffer is nowhere else; the holder of the lock is
\* forwarding, and the first of its batch has run when the batch was handed on.
InvPlaces ==
  /\ lock = NoTask => due = <<>>
  /\ sent => due # <<>> /\ due[1] \in ran
  /\ \A r \in Request : OnTheWay(r) => r \notin Here /\ r \notin ran /\ reply[r] = "none"
  /\ \A r \in Request : lock = r => at[r] = "forward"

\* The arrival counter tells the keys in use apart.
InvKeys ==
  /\ arrivals = Cardinality(Counted)
  /\ \A r \in Request : at[r] = "timed" => key[r].deadline \in Nat
  /\ \A r \in Keyed : key[r].deadline \in Nat /\ key[r].arrival < arrivals
  /\ \A q, r \in Keyed : q # r => key[q].arrival # key[r].arrival

\* The drained batch is in order, lies below the clock, and nothing that was inserted in
\* time lies below it or below what the actor has received.
InvOrder ==
  /\ highest.deadline < Us(now)
  /\ \A i \in DOMAIN due : key[due[i]].deadline < Us(now)
  /\ \A i, j \in DOMAIN due : i < j => Before(due[i], due[j])
  /\ \A r \in pending \ late :
       Below(highest, key[r]) /\ \A i \in DOMAIN due : Before(due[i], r)
  /\ \A i \in DOMAIN due :
       due[i] \notin late => Below(highest, key[due[i]]) \/ (i = 1 /\ sent)

Inv == BufferAccounted /\ InvTypes /\ InvPlaces /\ InvKeys /\ InvOrder
-----------------------------------------------------------------------------
(* The order of the keys.                                                   *)

\* Strict inclusion of finite sets is well founded: a set of finite sets has a minimal one.
LEMMA MinimalFiniteSet ==
  ASSUME NEW S, NEW C \in SUBSET FiniteSubsetsOf(S), C # {}
  PROVE  \E T \in C : \A U \in C : U \subseteq T => U = T
<1>1. PICK T \in C : \A U \in C : ~ (<<U, T>> \in StrictSubsetOrdering(S))
  BY FS_StrictSubsetOrderingWellFounded, WFMin
<1>2. ASSUME NEW U \in C, U \subseteq T PROVE U = T
  <2>1. <<U, T>> \in (SUBSET S) \X (SUBSET S)
    BY DEF FiniteSubsetsOf
  <2> QED
    BY <1>1, <1>2, <2>1 DEF StrictSubsetOrdering
<1> QED
  BY <1>2

\* Every non-empty set of naturals has a least element.
LEMMA LeastNatural ==
  ASSUME NEW N \in SUBSET Nat, N # {}
  PROVE  \E n \in N : \A m \in N : n <= m
<1> DEFINE C == {0 .. n : n \in N}
<1>1. C # {} /\ C \in SUBSET FiniteSubsetsOf(Nat)
  <2>1. \A n \in N : IsFiniteSet(0 .. n) /\ 0 .. n \subseteq Nat
    BY FS_Interval
  <2> QED
    BY <2>1 DEF FiniteSubsetsOf
<1> HIDE DEF C
<1>2. PICK T \in C : \A U \in C : U \subseteq T => U = T
  BY <1>1, MinimalFiniteSet
<1>3. PICK n \in N : T = 0 .. n
  BY <1>2 DEF C
<1>4. ASSUME NEW m \in N PROVE n <= m
  <2>1. n \in Nat /\ m \in Nat
    OBVIOUS
  <2>2. SUFFICES ASSUME m < n PROVE FALSE
    BY <2>1
  <2>3. 0 .. m \in C /\ 0 .. m \subseteq 0 .. n /\ n \notin 0 .. m /\ n \in 0 .. n
    BY <2>1, <2>2 DEF C
  <2> QED
    BY <1>2, <1>3, <2>3
<1> QED
  BY <1>4

\* ReleaseKey's derived order is transitive.
LEMMA BelowTransitive ==
  ASSUME NEW a \in Keys, NEW b \in Keys, NEW c \in Keys, Below(a, b), Below(b, c)
  PROVE  Below(a, c)
BY DEF Below, Keys

\* A set of requests whose keys the arrivals tell apart has a first one.
LEMMA FirstRequest ==
  ASSUME key \in [Request -> Keys], NEW B \in SUBSET Request, B # {},
         \A r \in B : key[r].deadline \in Nat,
         \A q, r \in B : q # r => key[q].arrival # key[r].arrival
  PROVE  \E q \in B : \A r \in B \ {q} : Before(q, r)
<1>1. \A r \in B : key[r].deadline \in Nat /\ key[r].session \in Nat /\ key[r].arrival \in Nat
  BY DEF Keys
<1> DEFINE D == {key[r].deadline : r \in B}
<1>2. D \in SUBSET Nat /\ D # {}
  BY <1>1
<1>3. PICK d \in D : \A m \in D : d <= m
  BY <1>2, LeastNatural
<1> DEFINE B1 == {r \in B : key[r].deadline = d}
           S == {key[r].session : r \in B1}
<1>4. S \in SUBSET Nat /\ S # {}
  BY <1>1, <1>3
<1>5. PICK e \in S : \A m \in S : e <= m
  BY <1>4, LeastNatural
<1> DEFINE B2 == {r \in B1 : key[r].session = e}
           A == {key[r].arrival : r \in B2}
<1>6. A \in SUBSET Nat /\ A # {}
  BY <1>1, <1>5
<1>7. PICK f \in A : \A m \in A : f <= m
  BY <1>6, LeastNatural
<1>8. PICK q \in B2 : key[q].arrival = f
  BY <1>7
<1>9. ASSUME NEW r \in B \ {q} PROVE Before(q, r)
  <2>1. q \in B /\ key[q].deadline = d /\ key[q].session = e /\ key[q].arrival # key[r].arrival
    BY <1>8, <1>9
  <2>2. d <= key[r].deadline /\ d \in Nat /\ e \in Nat /\ f \in Nat
    BY <1>2, <1>3, <1>4, <1>6, <1>9
  <2>3. CASE d < key[r].deadline
    BY <2>1, <2>3 DEF Before, Below
  <2>4. CASE d = key[r].deadline
    <3>1. r \in B1 /\ e <= key[r].session
      BY <1>5, <1>9, <2>4
    <3>2. CASE e < key[r].session
      BY <2>1, <2>4, <3>2 DEF Before, Below
    <3>3. CASE e = key[r].session
      <4>1. r \in B2 /\ f <= key[r].arrival
        BY <1>7, <3>1, <3>3
      <4>2. f < key[r].arrival
        BY <1>1, <1>8, <1>9, <2>1, <2>2, <4>1
      <4> QED
        BY <1>8, <2>1, <2>4, <3>3, <4>2 DEF Before, Below
    <3> QED
      BY <1>1, <1>9, <2>2, <3>1, <3>2, <3>3
  <2> QED
    BY <1>1, <1>9, <2>2, <2>3, <2>4
<1> QED
  BY <1>8, <1>9

\* Such a set can be put in order, whatever its size.
LEMMA OrderExists ==
  ASSUME key \in [Request -> Keys], NEW B \in SUBSET Request, IsFiniteSet(B),
         \A r \in B : key[r].deadline \in Nat,
         \A q, r \in B : q # r => key[q].arrival # key[r].arrival
  PROVE  \E q \in [1 .. Cardinality(B) -> B] :
           \A i, j \in 1 .. Cardinality(B) : i < j => Before(q[i], q[j])
<1> DEFINE Sortable(T) == \E q \in [1 .. Cardinality(T) -> T] :
                            \A i, j \in 1 .. Cardinality(T) : i < j => Before(q[i], q[j])
           C == {T \in SUBSET B : ~ Sortable(T)}
<1> SUFFICES ASSUME ~ Sortable(B) PROVE FALSE
  OBVIOUS
<1>1. C # {} /\ C \in SUBSET FiniteSubsetsOf(B)
  BY FS_Subset DEF FiniteSubsetsOf
<1> HIDE DEF C
<1>2. PICK T \in C : \A U \in C : U \subseteq T => U = T
  BY <1>1, MinimalFiniteSet
<1>3. T \subseteq B /\ IsFiniteSet(T) /\ ~ Sortable(T)
  BY <1>1, <1>2 DEF C, FiniteSubsetsOf
<1>4. T # {}
  <2> SUFFICES ASSUME T = {} PROVE Sortable(T)
    BY <1>3
  <2>1. Cardinality(T) = 0
    BY FS_EmptySet
  <2>2. [i \in 1 .. 0 |-> i] \in [1 .. Cardinality(T) -> T]
    BY <2>1
  <2> QED
    BY <2>1, <2>2
<1>5. PICK m \in T : \A r \in T \ {m} : Before(m, r)
  BY <1>3, <1>4, FirstRequest
<1> DEFINE U == T \ {m}
           n == Cardinality(U)
<1>6. IsFiniteSet(U) /\ n \in Nat /\ Cardinality(T) = n + 1
  <2>1. IsFiniteSet(U) /\ n = Cardinality(T) - 1
    BY <1>3, FS_RemoveElement
  <2> QED
    BY <1>3, <2>1, FS_CardinalityType
<1>7. Sortable(U)
  BY <1>2, <1>3, <1>5 DEF C
<1>8. PICK g \in [1 .. n -> U] : \A i, j \in 1 .. n : i < j => Before(g[i], g[j])
  BY <1>7
<1> DEFINE f == [i \in 1 .. n + 1 |-> IF i = 1 THEN m ELSE g[i - 1]]
<1> HIDE DEF n
<1>9. /\ f \in [1 .. n + 1 -> T] /\ f[1] = m
      /\ \A i \in 2 .. n + 1 : f[i] = g[i - 1] /\ i - 1 \in 1 .. n /\ f[i] \in U
  BY <1>6, <1>8
<1>10. ASSUME NEW i \in 1 .. n + 1, NEW j \in 1 .. n + 1, i < j PROVE Before(f[i], f[j])
  <2>1. j \in 2 .. n + 1 /\ f[j] \in U
    BY <1>6, <1>9, <1>10
  <2>2. CASE i = 1
    BY <1>5, <1>9, <2>1, <2>2
  <2>3. CASE i # 1
    <3>1. i \in 2 .. n + 1 /\ i - 1 < j - 1
      BY <1>6, <1>10, <2>3
    <3> QED
      BY <1>8, <1>9, <2>1, <3>1
  <2> QED
    BY <2>2, <2>3
<1> HIDE DEF f
<1>11. Sortable(T)
  BY <1>6, <1>9, <1>10
<1> QED
  BY <1>3, <1>11

\* What the drain hands over: every entry of the batch, once, in the order of the keys.
LEMMA InKeyOrderSorts ==
  ASSUME key \in [Request -> Keys], NEW B \in SUBSET Request, IsFiniteSet(B),
         \A r \in B : key[r].deadline \in Nat,
         \A q, r \in B : q # r => key[q].arrival # key[r].arrival
  PROVE  LET q == InKeyOrder(B) IN
         /\ q \in Seq(B) /\ Len(q) = Cardinality(B) /\ Range(q) = B /\ IsInjective(q)
         /\ \A i, j \in DOMAIN q : i < j => Before(q[i], q[j])
<1> DEFINE n == Cardinality(B)
           q == InKeyOrder(B)
<1>1. n \in Nat
  BY FS_CardinalityType
<1>2. \E p \in [1 .. n -> B] : \A i, j \in DOMAIN p : i < j => Before(p[i], p[j])
  <2>1. PICK p \in [1 .. n -> B] : \A i, j \in 1 .. n : i < j => Before(p[i], p[j])
    BY OrderExists
  <2>2. DOMAIN p = 1 .. n
    OBVIOUS
  <2> QED
    BY <2>1, <2>2
<1>3. q \in [1 .. n -> B] /\ \A i, j \in DOMAIN q : i < j => Before(q[i], q[j])
  BY <1>2 DEF InKeyOrder
<1> HIDE DEF n, q
<1>4. \A r \in B : ~ Before(r, r)
  BY DEF Before, Below, Keys
<1>5. IsInjective(q)
  BY <1>1, <1>3, <1>4 DEF IsInjective
<1>6. q \in Injection(1 .. n, B)
  BY <1>3, <1>5 DEF Injection, IsInjective
<1>7. Cardinality(1 .. n) = Cardinality(B)
  BY <1>1, FS_Interval DEF n
<1>8. q \in Surjection(1 .. n, B)
  BY <1>6, <1>7, FS_Injection
<1>9. Range(q) = B
  BY <1>3, <1>8 DEF Surjection, Range
<1>10. q \in Seq(B) /\ Len(q) = n
  BY <1>1, <1>3
<1> QED
  BY <1>3, <1>5, <1>9, <1>10 DEF n, q
-----------------------------------------------------------------------------
(* The clock, the quota, the batch.                                         *)

\* The clock in microseconds never moves back.
LEMMA UsFacts ==
  ASSUME NEW t \in Nat
  PROVE  Us(t) \in Nat /\ Us(t + 1) \in Nat /\ Us(t) <= Us(t + 1)
<1>1. UsPerMs \in Nat
  BY IngressAssumption
<1>2. (t + 1) * UsPerMs = t * UsPerMs + UsPerMs /\ t * UsPerMs \in Nat
  BY <1>1
<1> QED
  BY <1>1, <1>2 DEF Us

\* A session gets at most half of a buffer that has two places.
LEMMA QuotaFacts ==
  /\ Quota \in Nat /\ Quota <= Capacity
  /\ Capacity >= 2 => 2 * Quota <= Capacity
<1> DEFINE half == Capacity \div 2
           fair == Max({half, 1})
           own == Max({MaxPerSession, 1})
<1>1. Capacity \in Nat \ {0} /\ MaxPerSession \in Nat
  BY IngressAssumption
<1>2. half \in Nat /\ 2 * half <= Capacity /\ (Capacity >= 2 => half >= 1)
  BY <1>1
<1> HIDE DEF half
<1>3. \A a, b \in Nat : Max({a, b}) \in {a, b} /\ Max({a, b}) >= a /\ Max({a, b}) >= b
  <2> SUFFICES ASSUME NEW a \in Nat, NEW b \in Nat
               PROVE  Max({a, b}) \in {a, b} /\ Max({a, b}) >= a /\ Max({a, b}) >= b
    OBVIOUS
  <2>1. \E x \in {a, b} : \A y \in {a, b} : x >= y
    OBVIOUS
  <2> QED
    BY <2>1 DEF Max
<1>4. \A a, b \in Nat : Min({a, b}) \in {a, b} /\ Min({a, b}) <= a /\ Min({a, b}) <= b
  <2> SUFFICES ASSUME NEW a \in Nat, NEW b \in Nat
               PROVE  Min({a, b}) \in {a, b} /\ Min({a, b}) <= a /\ Min({a, b}) <= b
    OBVIOUS
  <2>1. \E x \in {a, b} : \A y \in {a, b} : x <= y
    OBVIOUS
  <2> QED
    BY <2>1 DEF Min
<1>5. fair \in {half, 1} /\ fair >= half /\ fair >= 1
  BY <1>2, <1>3
<1>6. own \in Nat
  BY <1>1, <1>3
<1> HIDE DEF fair, own
<1>7. Min({own, fair}) \in {own, fair} /\ Min({own, fair}) <= fair
  BY <1>2, <1>4, <1>5, <1>6
<1>8. Quota = Min({own, fair})
  BY DEF Quota, own, fair, half
<1> QED
  BY <1>1, <1>2, <1>5, <1>6, <1>7, <1>8

\* The first of the batch leaves it.
LEMMA BatchTail ==
  ASSUME NEW q \in Seq(Request), q # <<>>, IsInjective(q)
  PROVE  /\ Tail(q) \in Seq(Request) /\ Len(Tail(q)) = Len(q) - 1 /\ Len(q) \in Nat
         /\ Head(q) \in Request /\ Head(q) = q[1] /\ 1 \in DOMAIN q
         /\ DOMAIN Tail(q) \subseteq Nat /\ DOMAIN q \subseteq Nat
         /\ Range(q) = {Head(q)} \cup Range(Tail(q)) /\ Head(q) \notin Range(Tail(q))
         /\ \A i \in DOMAIN Tail(q) : i + 1 \in DOMAIN q /\ i + 1 # 1 /\ Tail(q)[i] = q[i + 1]
         /\ IsInjective(Tail(q))
<1> DEFINE t == Tail(q)
           h == Head(q)
<1>1. /\ t \in Seq(Request) /\ Len(t) = Len(q) - 1 /\ Len(q) \in Nat /\ Len(q) # 0
      /\ DOMAIN t = 1 .. Len(q) - 1 /\ DOMAIN q = 1 .. Len(q)
      /\ h = q[1] /\ h \in Request /\ \A i \in 1 .. Len(q) - 1 : t[i] = q[i + 1]
  OBVIOUS
<1> HIDE DEF t, h
<1>2. \A i \in DOMAIN t : i + 1 \in DOMAIN q /\ i + 1 # 1 /\ t[i] = q[i + 1]
  BY <1>1
<1>3. ASSUME NEW x \in Range(q), x # h PROVE x \in Range(t)
  <2>1. PICK i \in 1 .. Len(q) : x = q[i]
    BY <1>1 DEF Range
  <2>2. i - 1 \in 1 .. Len(q) - 1 /\ x = t[i - 1]
    BY <1>1, <1>3, <2>1
  <2> QED
    BY <1>1, <2>2 DEF Range
<1>4. ASSUME NEW x \in Range(t) PROVE x \in Range(q) /\ x # h
  <2>1. PICK i \in DOMAIN t : x = t[i]
    BY DEF Range
  <2>2. i + 1 \in DOMAIN q /\ i + 1 # 1 /\ x = q[i + 1] /\ 1 \in DOMAIN q
    BY <1>1, <1>2, <2>1
  <2> QED
    BY <1>1, <2>2 DEF Range, IsInjective
<1>5. IsInjective(t)
  BY <1>1 DEF IsInjective
<1>6. h \in Range(q)
  BY <1>1 DEF Range
<1> QED
  BY <1>1, <1>2, <1>3, <1>4, <1>5, <1>6 DEF t, h
-----------------------------------------------------------------------------
(* Each step keeps the invariant.                                           *)

\* An idle venue.
LEMMA InvInit == Init => Inv
<1> SUFFICES ASSUME Init PROVE Inv
  OBVIOUS
<1> USE DEF Init
<1>1. Counted = {} /\ Range(due) = {} /\ Keyed = {}
  BY DEF Range, Keyed, Here, Counted
<1>2. Cardinality({}) = 0 /\ Cardinality(Request) \in Nat
  BY FS_EmptySet, FS_CardinalityType, IngressAssumption
<1>3. TypeOK
  <2>1. /\ now \in 0 .. MaxTime /\ arrivals \in 0 .. Cardinality(Request)
        /\ perSession \in [Sessions -> 0 .. Capacity] /\ due \in Seq(Request) /\ Len(due) <= Capacity
    BY <1>2, IngressAssumption
  <2>2. sent \in BOOLEAN
    BY Zenon
  <2> QED
    BY <2>1, <2>2 DEF TypeOK
<1>4. OccupancyIsExact
  <2>1. \A s \in Sessions : {r \in pending : SessionOf[r] = s} = {}
    OBVIOUS
  <2> QED
    BY <1>2, <2>1, IngressAssumption DEF OccupancyIsExact
<1>5. HeldOrAnswered /\ ForwardedOnceAndTold
  BY <1>1 DEF HeldOrAnswered, ForwardedOnceAndTold, OnTheWay, IsInjective
<1>6. InvTypes
  BY DEF InvTypes, NoKey, Keys
<1>7. InvPlaces
  BY <1>1, IngressAssumption DEF InvPlaces, Here
<1>8. InvKeys
  BY <1>1, <1>2 DEF InvKeys
<1>9. InvOrder
  BY IngressAssumption DEF InvOrder, NoKey, Us
<1> QED
  BY <1>3, <1>4, <1>5, <1>6, <1>7, <1>8, <1>9 DEF Inv, BufferAccounted

\* What the edge holds has reached the buffer and waits for its answer.
LEMMA HereWaits ==
  ASSUME Inv
  PROVE  \A r \in Here : r \in Request /\ reply[r] = "none" /\ ~OnTheWay(r)
<1>1. \A r \in Here : r \in Request
  BY DEF Inv, BufferAccounted, TypeOK, Here, Range
<1>2. \A r \in Here : ~OnTheWay(r)
  BY <1>1 DEF Inv, InvPlaces
<1> QED
  BY <1>1, <1>2 DEF Inv, BufferAccounted, HeldOrAnswered, Here

\* The keys of what the edge holds stay, so that the order does.
LEMMA OrderKept ==
  ASSUME Inv, UNCHANGED <<now, due, pending, late, sent, highest>>,
         \A q \in Here : key'[q] = key[q]
  PROVE  InvOrder'
<1>1. (\A q \in pending : key'[q] = key[q]) /\ (\A i \in DOMAIN due : key'[due[i]] = key[due[i]])
  BY DEF Here, Range
<1> QED
  BY <1>1 DEF Inv, InvOrder, Before

\* The clock is read and the deadline drawn.
LEMMA InvReadClock == ASSUME Inv, NEW r \in Request, ReadClock(r) PROVE Inv'
<1> USE DEF Inv, BufferAccounted
<1> DEFINE k == [deadline |-> Deadline(r), session |-> SessionOf[r], arrival |-> 0]
<1>1. /\ at[r] = "new" /\ key' = [key EXCEPT ![r] = k]
      /\ at' = [at EXCEPT ![r] = "timed"]
      /\ UNCHANGED <<now, arrivals, reply, pending, perSession, driver, lock, due, sent, late, ran,
                     highest, abandoned>>
  BY DEF ReadClock, held, history
<1>2. at \in [Request -> {"new", "timed", "keyed", "kick", "forward", "waiting", "done"}] /\ key \in [Request -> Keys] /\ now \in Nat
  BY DEF TypeOK, InvTypes
<1>3. k \in Keys /\ k.deadline \in Nat
  <2>1. Draw[r] \in Nat /\ MaxOffset \in Nat /\ SessionOf[r] \in Nat
    BY IngressAssumption
  <2>2. Clamped(Draw[r]) \in Nat
    <3>1. \E x \in {Draw[r], MaxOffset} : \A y \in {Draw[r], MaxOffset} : x <= y
      BY <2>1
    <3> QED
      BY <2>1, <3>1 DEF Clamped, Min
  <2>3. Us(now) \in Nat
    BY <1>2, UsFacts
  <2> QED
    BY <2>1, <2>2, <2>3 DEF Deadline, Keys
<1> HIDE DEF k
<1>4. /\ key' \in [Request -> Keys] /\ key'[r] = k
      /\ \A q \in Request \ {r} : key'[q] = key[q]
  BY <1>1, <1>2, <1>3
<1>5. /\ at' \in [Request -> {"new", "timed", "keyed", "kick", "forward", "waiting", "done"}]
      /\ at'[r] = "timed" /\ \A q \in Request \ {r} : at'[q] = at[q]
  BY <1>1, <1>2
<1>6. Here' = Here /\ Keyed' = Keyed /\ Counted' = Counted
      /\ \A q \in Request : OnTheWay(q)' = OnTheWay(q)
  BY <1>1, <1>5 DEF Keyed, Here, Counted, OnTheWay
<1>7. \A q \in Keyed : q \in Request \ {r}
  BY <1>1, HereWaits DEF Keyed, OnTheWay
<1>8. TypeOK'
  BY <1>1, <1>5 DEF TypeOK
<1>9. OccupancyIsExact' /\ HeldOrAnswered'
  BY <1>1, <1>6 DEF OccupancyIsExact, HeldOrAnswered
<1>10. ForwardedOnceAndTold'
  BY <1>1, <1>5 DEF ForwardedOnceAndTold
<1>11. InvTypes' /\ InvPlaces'
  BY <1>1, <1>4, <1>5, <1>6 DEF InvTypes, InvPlaces
<1>12. InvKeys'
  BY <1>1, <1>3, <1>4, <1>5, <1>6, <1>7 DEF InvKeys
<1>13. InvOrder'
  BY <1>1, <1>4, <1>7, OrderKept DEF Keyed
<1> QED
  BY <1>8, <1>9, <1>10, <1>11, <1>12, <1>13

\* An admitted request has a key of its own.
LEMMA InvArrive == ASSUME Inv, NEW r \in Request, Arrive(r) PROVE Inv'
<1> USE DEF Inv, BufferAccounted
<1>1. /\ at[r] = "timed" /\ key' = [key EXCEPT ![r].arrival = arrivals] /\ arrivals' = arrivals + 1
      /\ at' = [at EXCEPT ![r] = "keyed"]
      /\ UNCHANGED <<now, reply, pending, perSession, driver, lock, due, sent, late, ran, highest,
                     abandoned>>
  BY DEF Arrive, held, history
<1>2. /\ at \in [Request -> {"new", "timed", "keyed", "kick", "forward", "waiting", "done"}]
      /\ key \in [Request -> Keys] /\ now \in Nat /\ arrivals \in Nat
  BY DEF TypeOK, InvTypes
<1>3. /\ key' \in [Request -> Keys] /\ key'[r].arrival = arrivals /\ key'[r].deadline \in Nat
      /\ \A q \in Request \ {r} : key'[q] = key[q]
  <2>1. key[r] \in Keys /\ key[r].deadline \in Nat
    BY <1>1, <1>2 DEF InvKeys
  <2> QED
    BY <1>1, <1>2, <2>1 DEF Keys
<1>5. /\ at' \in [Request -> {"new", "timed", "keyed", "kick", "forward", "waiting", "done"}]
      /\ at'[r] = "keyed" /\ \A q \in Request \ {r} : at'[q] = at[q]
  BY <1>1, <1>2
<1>6. r \notin Keyed /\ r \notin Here /\ Keyed' = Keyed \cup {r} /\ Here' = Here
      /\ \A q \in Request : OnTheWay(q)' = OnTheWay(q)
  BY <1>1, <1>5 DEF Keyed, Here, InvPlaces, OnTheWay
<1>7. arrivals' = Cardinality(Counted') /\ arrivals' \in 0 .. Cardinality(Request)
  <2>1. Counted' = Counted \cup {r} /\ r \notin Counted /\ Counted' \subseteq Request
    BY <1>1, <1>5 DEF Counted
  <2>2. IsFiniteSet(Request) /\ IsFiniteSet(Counted)
    BY IngressAssumption, FS_Subset DEF Counted
  <2>3. Cardinality(Counted') = Cardinality(Counted) + 1
    BY <2>1, <2>2, FS_AddElement
  <2>4. Cardinality(Counted') <= Cardinality(Request) /\ Cardinality(Request) \in Nat
    BY <2>1, <2>2, FS_Subset, FS_CardinalityType
  <2> QED
    BY <1>1, <1>2, <2>3, <2>4 DEF InvKeys
<1>8. TypeOK'
  BY <1>1, <1>5, <1>7 DEF TypeOK
<1>9. OccupancyIsExact' /\ HeldOrAnswered'
  BY <1>1, <1>6 DEF OccupancyIsExact, HeldOrAnswered
<1>10. ForwardedOnceAndTold'
  BY <1>1, <1>5 DEF ForwardedOnceAndTold
<1>11. InvTypes' /\ InvPlaces'
  BY <1>1, <1>3, <1>5, <1>6 DEF InvTypes, InvPlaces
<1>12. InvKeys'
  <2>1. \A q \in Keyed : q \in Request /\ key'[q] = key[q]
    BY <1>3, <1>6, HereWaits DEF Keyed
  <2>2. \A q \in Keyed : key[q].arrival < arrivals /\ key[q].arrival \in Nat
    BY <1>2, <2>1 DEF InvKeys, Keys
  <2>3. \A q \in Request : at'[q] = "timed" => key'[q].deadline \in Nat
    BY <1>3, <1>5 DEF InvKeys
  <2> QED
    BY <1>1, <1>2, <1>3, <1>6, <1>7, <2>1, <2>2, <2>3 DEF InvKeys
<1>13. InvOrder'
  BY <1>1, <1>3, <1>6, HereWaits, OrderKept
<1> QED
  BY <1>8, <1>9, <1>10, <1>11, <1>12, <1>13

\* A refused insert: the request is answered and its key is of no more use.
LEMMA InvInsertRefused == ASSUME Inv, NEW r \in Request, Insert(r), BufferFull(r) PROVE Inv'
<1> USE DEF Inv, BufferAccounted
<1>1. /\ at[r] = "keyed" /\ at' = [at EXCEPT ![r] = "done"]
      /\ reply' = [reply EXCEPT ![r] = "refused"] /\ key' = [key EXCEPT ![r] = NoKey]
      /\ UNCHANGED <<now, arrivals, pending, perSession, driver, lock, due, sent, late, ran, highest, abandoned>>
  BY DEF Insert, held
<1>2. /\ at' \in [Request -> {"new", "timed", "keyed", "kick", "forward", "waiting", "done"}]
      /\ at'[r] = "done" /\ \A q \in Request \ {r} : at'[q] = at[q]
  BY <1>1 DEF TypeOK
<1>3. /\ key' \in [Request -> Keys] /\ \A q \in Request \ {r} : key'[q] = key[q]
  BY <1>1 DEF InvTypes, NoKey, Keys
<1>4. /\ reply' \in [Request -> {"none", "refused", "receipt", "dropped"}]
      /\ reply'[r] = "refused" /\ \A q \in Request \ {r} : reply'[q] = reply[q]
  BY <1>1 DEF TypeOK
<1>5. r \notin Here /\ r \notin ran /\ Here' = Here /\ Keyed' = Keyed \ {r} /\ reply[r] = "none"
      /\ \A q \in Request \ {r} : OnTheWay(q)' = OnTheWay(q)
  BY <1>1, <1>2 DEF Keyed, Here, InvPlaces, OnTheWay
<1>6. Counted' = Counted
  BY <1>1, <1>2 DEF Counted
<1>7. \A q \in Here : q \in Request /\ q # r
  BY <1>5, HereWaits
<1>8. \A q \in Keyed' : q \in Request /\ q # r /\ q \in Keyed
  BY <1>5, <1>7 DEF Keyed
<1>9. TypeOK'
  BY <1>1, <1>2, <1>4 DEF TypeOK
<1>10. OccupancyIsExact'
  BY <1>1 DEF OccupancyIsExact
<1>11. HeldOrAnswered' /\ ForwardedOnceAndTold'
  <2>1. HeldOrAnswered'
    BY <1>1, <1>4, <1>5 DEF HeldOrAnswered, Here
  <2>2. \A q \in Request : reply'[q] = "dropped" <=> reply[q] = "dropped"
    BY <1>4, <1>5
  <2> QED
    BY <1>1, <1>2, <1>4, <1>5, <2>1, <2>2 DEF ForwardedOnceAndTold
<1>12. InvTypes'
  BY <1>1, <1>3 DEF InvTypes
<1>13. InvPlaces'
  BY <1>1, <1>2, <1>4, <1>5, <1>7 DEF InvPlaces, OnTheWay
<1>14. InvKeys'
  BY <1>1, <1>2, <1>3, <1>6, <1>8 DEF InvKeys
<1>15. InvOrder'
  BY <1>1, <1>3, <1>7, OrderKept
<1> QED
  BY <1>9, <1>10, <1>11, <1>12, <1>13, <1>14, <1>15

\* An insert into the buffer: unless it comes late, its deadline lies above the clock, and so
\* above everything drained so far.
LEMMA InvInsertHeld == ASSUME Inv, NEW r \in Request, Insert(r), ~ BufferFull(r) PROVE Inv'
<1> USE DEF Inv, BufferAccounted
<1>1. /\ at[r] = "keyed" /\ at' = [at EXCEPT ![r] = "kick"]
      /\ pending' = pending \cup {r}
      /\ perSession' = [perSession EXCEPT ![SessionOf[r]] = @ + 1]
      /\ late' = IF key[r].deadline < Us(now) THEN late \cup {r} ELSE late
      /\ UNCHANGED <<now, arrivals, reply, key, driver, lock, due, sent, ran, highest, abandoned>>
  BY DEF Insert, held
<1>2. /\ at' \in [Request -> {"new", "timed", "keyed", "kick", "forward", "waiting", "done"}]
      /\ at'[r] = "kick" /\ \A q \in Request \ {r} : at'[q] = at[q]
  BY <1>1 DEF TypeOK
<1>3. /\ r \notin Here /\ r \notin ran /\ r \notin pending /\ r \notin Range(due) /\ reply[r] = "none"
      /\ r \in Keyed /\ Here' = Here \cup {r} /\ Keyed' = Keyed
      /\ \A q \in Request \ {r} : OnTheWay(q)' = OnTheWay(q)
  BY <1>1, <1>2 DEF Keyed, Here, InvPlaces, OnTheWay
<1>4. Counted' = Counted
  BY <1>1, <1>2 DEF Counted
<1>5. IsFiniteSet(pending) /\ Cardinality(pending) \in Nat /\ Cardinality(pending') = Cardinality(pending) + 1
      /\ Cardinality(pending) < Capacity /\ Capacity \in Nat
  <2>1. IsFiniteSet(pending)
    BY IngressAssumption, FS_Subset DEF TypeOK
  <2>2. Cardinality(pending) \in Nat /\ Cardinality(pending') = Cardinality(pending) + 1
    BY <1>1, <1>3, <2>1, FS_AddElement, FS_CardinalityType
  <2> QED
    BY <2>1, <2>2, IngressAssumption DEF BufferFull
<1>6. ASSUME NEW s \in Sessions
      PROVE  /\ perSession'[s] = Cardinality({q \in pending' : SessionOf[q] = s})
             /\ perSession'[s] \in 0 .. Capacity
             /\ Capacity >= 2 => 2 * perSession'[s] <= Capacity
  <2> DEFINE A == {q \in pending : SessionOf[q] = s}
             B == {q \in pending' : SessionOf[q] = s}
  <2>1. IsFiniteSet(A) /\ perSession[s] = Cardinality(A) /\ Cardinality(A) \in Nat
    BY <1>5, FS_Subset, FS_CardinalityType DEF OccupancyIsExact
  <2>2. perSession \in [Sessions -> 0 .. Capacity] /\ perSession[s] \in 0 .. Capacity
    BY DEF TypeOK
  <2>3. CASE s = SessionOf[r]
    <3>1. B = A \cup {r} /\ r \notin A
      BY <1>1, <1>3, <2>3
    <3>2. Cardinality(B) = Cardinality(A) + 1
      BY <2>1, <3>1, FS_AddElement
    <3>3. perSession'[s] = perSession[s] + 1 /\ perSession[s] < Quota
      BY <1>1, <2>2, <2>3, QuotaFacts DEF BufferFull
    <3> HIDE DEF A, B
    <3>4. perSession'[s] <= Quota
      BY <2>1, <3>3, QuotaFacts
    <3>5. perSession'[s] = Cardinality(B)
      BY <2>1, <3>2, <3>3
    <3> QED
      BY <1>5, <2>1, <3>3, <3>4, <3>5, QuotaFacts DEF B
  <2>4. CASE s # SessionOf[r]
    <3>1. B = A /\ perSession'[s] = perSession[s]
      BY <1>1, <2>2, <2>4
    <3> QED
      BY <2>1, <2>2, <3>1 DEF OccupancyIsExact
  <2> QED
    BY <2>3, <2>4
<1>7. TypeOK'
  <2>1. perSession' \in [Sessions -> 0 .. Capacity]
    BY <1>1, <1>6 DEF TypeOK
  <2> QED
    BY <1>1, <1>2, <2>1 DEF TypeOK
<1>8. OccupancyIsExact'
  <2>1. Cardinality(pending') <= Capacity
    BY <1>5
  <2> QED
    BY <1>6, <2>1 DEF OccupancyIsExact
<1>9. HeldOrAnswered' /\ ForwardedOnceAndTold'
  <2>1. HeldOrAnswered'
    BY <1>1, <1>3 DEF HeldOrAnswered
  <2> QED
    BY <1>1, <1>2, <1>3, <2>1 DEF ForwardedOnceAndTold
<1>10. InvTypes'
  BY <1>1 DEF InvTypes
<1>11. InvPlaces'
  BY <1>1, <1>2, <1>3 DEF InvPlaces, OnTheWay
<1>12. InvKeys'
  BY <1>1, <1>2, <1>3, <1>4 DEF InvKeys
<1>13. InvOrder'
  <2>1. key[r].deadline \in Nat /\ now \in Nat /\ Us(now) \in Nat /\ key[r] \in Keys
    BY <1>3, UsFacts DEF InvKeys, TypeOK, InvTypes
  <2>2. ASSUME r \notin late'
        PROVE  Below(highest, key[r]) /\ \A i \in DOMAIN due : Before(due[i], r)
    <3>1. Us(now) <= key[r].deadline
      BY <1>1, <2>1, <2>2
    <3>2. highest.deadline < Us(now) /\ highest.deadline \in Int
      BY DEF InvOrder, InvTypes, Keys
    <3>3. \A i \in DOMAIN due : key[due[i]].deadline < Us(now) /\ key[due[i]].deadline \in Int
      BY DEF InvOrder, InvTypes, Keys, TypeOK
    <3> QED
      BY <2>1, <3>1, <3>2, <3>3 DEF Before, Below
  <2>3. \A i \in DOMAIN due : due[i] # r
    BY <1>3 DEF Range
  <2> QED
    BY <1>1, <2>2, <2>3 DEF InvOrder, Before
<1> QED
  BY <1>7, <1>8, <1>9, <1>10, <1>11, <1>12, <1>13

\* The parts of the invariant that the place of a future does not touch.
LEMMA FutureMoves ==
  ASSUME Inv, at' \in [Request -> {"new", "timed", "keyed", "kick", "forward", "waiting", "done"}],
         \A q \in Request : at'[q] # at[q] => ~OnTheWay(q) /\ ~OnTheWay(q)'
  PROVE  /\ \A q \in Request : OnTheWay(q)' = OnTheWay(q)
         /\ \A q \in Request : at'[q] \in {"new", "timed", "keyed"} => at[q] = at'[q]
         /\ {q \in Request : at'[q] = "keyed"} = {q \in Request : at[q] = "keyed"}
         /\ Counted' = Counted
BY DEF OnTheWay, Counted

\* Where the future of a task goes when it pumps.
LEMMA GoesMoves ==
  ASSUME Inv, NEW t \in Task, Wants(t) \/ Forwarding(t), NEW d \in {"asleep", "forward"},
         NEW c \in {"forward", "waiting"}, Goes(t, d, c)
  PROVE  /\ driver' \in {"asleep", "release", "forward"}
         /\ at' \in [Request -> {"new", "timed", "keyed", "kick", "forward", "waiting", "done"}]
         /\ \A q \in Request : at'[q] # at[q] => ~OnTheWay(q) /\ ~OnTheWay(q)'
BY IngressAssumption DEF Inv, BufferAccounted, TypeOK, Task, Wants, Forwarding, Goes, OnTheWay

\* The drain moves the due requests, in order, from the buffer to the batch, and frees their
\* places; what stays has its deadline at or above the clock.
LEMMA InvDrainBelow == ASSUME Inv, NEW t \in Task, DrainBelow(t) PROVE Inv'
<1> USE DEF Inv, BufferAccounted
<1> DEFINE batch == {r \in pending : IsDue(r)}
<1>1. /\ Wants(t) /\ lock = NoTask /\ lock' = t /\ pending' = pending \ batch
      /\ perSession' = Freed(batch) /\ due' = InKeyOrder(batch) /\ Goes(t, "forward", "forward")
      /\ UNCHANGED <<now, arrivals, key, reply, sent, late, ran, highest, abandoned>>
  BY DEF DrainBelow, Remainder, history
<1>2. /\ driver' \in {"asleep", "release", "forward"}
      /\ at' \in [Request -> {"new", "timed", "keyed", "kick", "forward", "waiting", "done"}]
      /\ \A q \in Request : at'[q] # at[q] => ~OnTheWay(q) /\ ~OnTheWay(q)'
  BY <1>1, GoesMoves
<1>3. /\ \A q \in Request : at'[q] \in {"new", "timed", "keyed"} => at[q] = at'[q]
      /\ {q \in Request : at'[q] = "keyed"} = {q \in Request : at[q] = "keyed"}
      /\ Counted' = Counted /\ \A q \in Request : OnTheWay(q)' = OnTheWay(q)
  BY <1>2, FutureMoves
<1>4. due = <<>> /\ ~ sent /\ Range(due) = {}
  BY <1>1 DEF InvPlaces, Range
<1>5. /\ pending \subseteq Request /\ IsFiniteSet(pending) /\ batch \subseteq pending
      /\ IsFiniteSet(batch) /\ Cardinality(pending) \in Nat /\ Cardinality(batch) \in Nat
      /\ Cardinality(batch) <= Cardinality(pending)
  <2>1. pending \subseteq Request /\ IsFiniteSet(pending)
    BY IngressAssumption, FS_Subset DEF TypeOK
  <2> QED
    BY <2>1, FS_Subset, FS_CardinalityType
<1>6. /\ key \in [Request -> Keys]
      /\ \A r \in batch : key[r].deadline \in Nat
      /\ \A q, r \in batch : q # r => key[q].arrival # key[r].arrival
  BY <1>5 DEF InvTypes, InvKeys, Keyed, Here
<1> HIDE DEF batch
<1>7. /\ due' \in Seq(batch) /\ Len(due') = Cardinality(batch) /\ Range(due') = batch
      /\ IsInjective(due')
      /\ \A i, j \in DOMAIN due' : i < j => Before(due'[i], due'[j])
  BY <1>1, <1>5, <1>6, InKeyOrderSorts
<1>8. \A i \in DOMAIN due' : due'[i] \in batch
  BY <1>7 DEF Range
<1>9. Here' = Here /\ Keyed' = Keyed
  <2>1. Here' = Here
    BY <1>1, <1>4, <1>5, <1>7 DEF Here
  <2> QED
    BY <1>3, <2>1 DEF Keyed
<1>10. ASSUME NEW s \in Sessions
       PROVE  /\ perSession'[s] = Cardinality({q \in pending' : SessionOf[q] = s})
              /\ perSession'[s] \in 0 .. Capacity
              /\ Capacity >= 2 => 2 * perSession'[s] <= Capacity
  <2> DEFINE A == {q \in pending : SessionOf[q] = s}
             B == {q \in batch : SessionOf[q] = s}
             C == {q \in pending' : SessionOf[q] = s}
  <2>1. IsFiniteSet(A) /\ IsFiniteSet(B) /\ IsFiniteSet(C)
    BY <1>1, <1>5, FS_Subset
  <2>2. C = A \ B /\ A \cap B = B
    BY <1>1, <1>5
  <2>3. perSession[s] = Cardinality(A) /\ perSession'[s] = perSession[s] - Cardinality(B)
    BY <1>1 DEF OccupancyIsExact, Freed
  <2> HIDE DEF A, B, C, Inv, BufferAccounted
  <2>4. Cardinality(C) = Cardinality(A) - Cardinality(B)
    <3>1. Cardinality(A \ B) = Cardinality(A) - Cardinality(A \cap B)
      BY <2>1, FS_Difference
    <3> QED
      BY <2>2, <3>1
  <2>5. Cardinality(A) \in Nat /\ Cardinality(B) \in Nat /\ Cardinality(C) \in Nat
    BY <2>1, FS_CardinalityType
  <2>6. perSession[s] \in 0 .. Capacity /\ (Capacity >= 2 => 2 * perSession[s] <= Capacity)
    BY DEF Inv, BufferAccounted, TypeOK, OccupancyIsExact
  <2>7. perSession'[s] = Cardinality(C) /\ perSession'[s] <= perSession[s] /\ perSession'[s] \in Nat
    BY <2>3, <2>4, <2>5
  <2> QED
    BY <2>6, <2>7, IngressAssumption DEF C
<1>11. Cardinality(pending') <= Capacity /\ Len(due') <= Capacity
  <2>1. IsFiniteSet(pending') /\ Cardinality(pending') <= Cardinality(pending) /\ Cardinality(pending') \in Nat
    BY <1>1, <1>5, FS_Subset, FS_CardinalityType
  <2> QED
    BY <1>5, <1>7, <2>1, IngressAssumption DEF OccupancyIsExact
<1>12. TypeOK'
  <2>1. perSession' \in [Sessions -> 0 .. Capacity]
    BY <1>1, <1>10 DEF Freed
  <2>2. due' \in Seq(Request)
    <3>1. batch \subseteq Request
      BY <1>5
    <3> QED
      BY <1>7, <3>1
  <2> QED
    BY <1>1, <1>2, <1>5, <1>11, <2>1, <2>2 DEF TypeOK
<1>13. OccupancyIsExact'
  BY <1>10, <1>11 DEF OccupancyIsExact
<1>14. HeldOrAnswered' /\ ForwardedOnceAndTold'
  <2>1. Range(due') \cap pending' = {}
    BY <1>1, <1>7
  <2>2. HeldOrAnswered'
    BY <1>1, <1>3, <1>7, <1>9, <2>1 DEF HeldOrAnswered, Here
  <2>3. \A p \in Request : at[p] = "done" => at'[p] = "done"
    BY <1>1, IngressAssumption DEF Goes, Wants, Task, TypeOK
  <2> QED
    BY <1>1, <1>5, <1>8, <2>2, <2>3 DEF ForwardedOnceAndTold
<1>15. InvTypes'
  BY <1>1 DEF InvTypes
<1>16. InvPlaces'
  <2>1. lock' # NoTask
    BY <1>1, IngressAssumption DEF Task
  <2>2. \A q \in Request : lock' = q => at'[q] = "forward"
    BY <1>1, IngressAssumption DEF Goes, TypeOK
  <2> QED
    BY <1>1, <1>3, <1>4, <1>9, <2>1, <2>2 DEF InvPlaces
<1>17. InvKeys'
  BY <1>1, <1>3, <1>9 DEF InvKeys
<1>18. InvOrder'
  <2>1. \A r \in batch : r \in pending /\ key[r].deadline < Us(now)
    BY DEF batch, IsDue
  <2>2. \A r \in pending' : r \in pending /\ Us(now) <= key[r].deadline
    <3>1. now \in Nat /\ Us(now) \in Nat
      BY UsFacts DEF TypeOK
    <3>2. \A r \in pending : key[r].deadline \in Nat
      BY DEF InvKeys, Keyed, Here
    <3> QED
      BY <1>1, <3>1, <3>2 DEF batch, IsDue
  <2>3. \A r \in pending', i \in DOMAIN due' : Before(due'[i], r)
    <3>1. \A r \in pending : key[r].deadline \in Nat
      BY DEF InvKeys, Keyed, Here
    <3>2. now \in Nat /\ Us(now) \in Nat
      BY UsFacts DEF TypeOK
    <3> QED
      BY <1>8, <2>1, <2>2, <3>1, <3>2 DEF Before, Below
  <2>4. \A i, j \in DOMAIN due' : i < j => Below(key'[due'[i]], key'[due'[j]])
    BY <1>1, <1>7 DEF Before
  <2>5. \A r \in pending', i \in DOMAIN due' : Below(key'[due'[i]], key'[r])
    BY <1>1, <2>3 DEF Before
  <2>6. \A r \in pending \ late : Below(highest, key[r])
    BY DEF InvOrder
  <2>7. highest.deadline < Us(now)
    BY DEF InvOrder
  <2> QED
    BY <1>1, <1>8, <2>1, <2>2, <2>4, <2>5, <2>6, <2>7 DEF InvOrder, Before
<1> QED
  BY <1>12, <1>13, <1>14, <1>15, <1>16, <1>17, <1>18

\* The first of the batch is answered and leaves it.
LEMMA InvAnswer ==
  ASSUME Inv, NEW t \in Task, Refuse(t) \/ Deliver(t) PROVE Inv'
<1> USE DEF Inv, BufferAccounted
<1> DEFINE h == Head(due)
           rest == Tail(due)
<1>1. /\ due # <<>> /\ due' = rest /\ key' = [key EXCEPT ![h] = NoKey] /\ late' = late \ {h}
      /\ ~ sent'
      /\ \/ sent /\ reply' = [reply EXCEPT ![h] = "receipt"]
         \/ ~ sent /\ reply' = [reply EXCEPT ![h] = "refused"]
      /\ UNCHANGED <<now, arrivals, at, pending, perSession, driver, lock, ran, highest, abandoned>>
  BY DEF Refuse, Deliver, Answer
<1>2. sent' \in BOOLEAN /\ lock # NoTask
  BY IngressAssumption DEF Refuse, Deliver, TypeOK, Task
<1>3. /\ rest \in Seq(Request) /\ Len(rest) = Len(due) - 1 /\ Len(due) \in Nat
      /\ h \in Request /\ h = due[1] /\ 1 \in DOMAIN due
      /\ DOMAIN rest \subseteq Nat /\ DOMAIN due \subseteq Nat
      /\ Range(due) = {h} \cup Range(rest) /\ h \notin Range(rest)
      /\ \A i \in DOMAIN rest : i + 1 \in DOMAIN due /\ i + 1 # 1 /\ rest[i] = due[i + 1]
      /\ IsInjective(rest)
  BY <1>1, BatchTail DEF TypeOK, HeldOrAnswered
<1> HIDE DEF h, rest
<1>4. h \in Here /\ h \notin pending /\ Here' = Here \ {h} /\ Keyed' = Keyed \ {h}
  <2>1. h \in Here /\ h \notin pending
    BY <1>3 DEF Here, HeldOrAnswered
  <2>2. Here' = Here \ {h}
    BY <1>1, <1>3, <2>1 DEF Here
  <2>3. ~OnTheWay(h)
    BY <2>1, HereWaits
  <2> QED
    BY <1>1, <2>1, <2>2, <2>3 DEF Keyed, OnTheWay
<1>5. h \in ran <=> sent
  BY <1>3 DEF ForwardedOnceAndTold, InvPlaces
<1>6. /\ reply' \in [Request -> {"none", "refused", "receipt", "dropped"}]
      /\ reply'[h] = (IF sent THEN "receipt" ELSE "refused")
      /\ \A q \in Request \ {h} : reply'[q] = reply[q]
  <2>1. reply \in [Request -> {"none", "refused", "receipt", "dropped"}]
    BY DEF TypeOK
  <2>2. CASE sent /\ reply' = [reply EXCEPT ![h] = "receipt"]
    BY <1>3, <2>1, <2>2
  <2>3. CASE ~ sent /\ reply' = [reply EXCEPT ![h] = "refused"]
    BY <1>3, <2>1, <2>3
  <2> QED
    BY <1>1, <2>2, <2>3
<1>7. key' \in [Request -> Keys] /\ \A q \in Request \ {h} : key'[q] = key[q]
  BY <1>1, <1>3 DEF InvTypes, NoKey, Keys
<1>8. \A i \in DOMAIN rest : rest[i] # h /\ rest[i] \in Request
  BY <1>3 DEF Range
<1>9. TypeOK'
  <2>1. Len(rest) <= Capacity
    BY <1>3, IngressAssumption DEF TypeOK
  <2> QED
    BY <1>1, <1>2, <1>3, <1>6, <2>1 DEF TypeOK
<1>10. OccupancyIsExact'
  BY <1>1 DEF OccupancyIsExact
<1>11. HeldOrAnswered' /\ ForwardedOnceAndTold'
  <2>1. \A i \in DOMAIN rest : rest[i] \notin ran
    BY <1>3 DEF ForwardedOnceAndTold
  <2>2. \A q \in Request : OnTheWay(q)' = OnTheWay(q)
    BY <1>1 DEF OnTheWay
  <2>3. Range(due') \cap pending' = {} /\ Here' = pending' \cup Range(due')
    BY <1>1, <1>3 DEF HeldOrAnswered, Here
  <2>4. HeldOrAnswered'
    BY <1>1, <1>3, <1>4, <1>6, <2>2, <2>3 DEF HeldOrAnswered, Here
  <2>5. \A q \in Request : reply'[q] = "dropped" <=> reply[q] = "dropped"
    BY <1>4, <1>6, HereWaits
  <2> QED
    BY <1>1, <1>3, <1>5, <1>6, <2>1, <2>4, <2>5 DEF ForwardedOnceAndTold
<1>12. InvTypes'
  BY <1>1, <1>7 DEF InvTypes
<1>13. InvPlaces'
  <2>1. \A q \in Here' : q \in Request /\ q # h /\ q \in Here
    BY <1>4, HereWaits
  <2>2. ~OnTheWay(h) /\ \A q \in Request : OnTheWay(q)' = OnTheWay(q)
    BY <1>1, <1>4, HereWaits DEF OnTheWay
  <2> QED
    BY <1>1, <1>2, <1>3, <1>4, <1>6, <2>1, <2>2 DEF InvPlaces
<1>14. InvKeys'
  <2>1. \A q \in Keyed' : q \in Request /\ q # h /\ q \in Keyed
    BY <1>4, HereWaits DEF Keyed
  <2>2. Counted' = Counted /\ at[h] # "timed"
    BY <1>1, <1>4, HereWaits DEF Counted, OnTheWay
  <2> QED
    BY <1>1, <1>7, <2>1, <2>2 DEF InvKeys
<1>15. InvOrder'
  <2>1. \A q \in pending : key'[q] = key[q] /\ q # h
    BY <1>4, <1>7 DEF TypeOK
  <2>2. \A i \in DOMAIN rest : key'[rest[i]] = key[due[i + 1]]
    BY <1>3, <1>7, <1>8
  <2>3. ASSUME NEW i \in DOMAIN rest, NEW j \in DOMAIN rest, i < j
        PROVE  Below(key'[rest[i]], key'[rest[j]])
    <3>1. i + 1 \in DOMAIN due /\ j + 1 \in DOMAIN due /\ i + 1 < j + 1
      BY <1>3, <2>3
    <3>2. Below(key[due[i + 1]], key[due[j + 1]])
      BY <3>1 DEF InvOrder, Before
    <3> QED
      BY <2>2, <2>3, <3>2
  <2>4. \A i \in DOMAIN rest : rest[i] \notin late' => Below(highest, key'[rest[i]])
    BY <1>1, <1>3, <1>8, <2>2 DEF InvOrder
  <2>5. \A r \in pending \ late' :
          Below(highest, key'[r]) /\ \A i \in DOMAIN rest : Below(key'[rest[i]], key'[r])
    BY <1>1, <1>3, <2>1, <2>2 DEF InvOrder, Before
  <2>6. \A i \in DOMAIN rest : key'[rest[i]].deadline < Us(now)
    BY <1>3, <2>2 DEF InvOrder
  <2> QED
    BY <1>1, <2>3, <2>4, <2>5, <2>6 DEF InvOrder, Before
<1> QED
  BY <1>9, <1>10, <1>11, <1>12, <1>13, <1>14, <1>15

\* The actor takes the first of the batch; it lies below the rest of it and below what the
\* buffer holds in time.
LEMMA InvSend == ASSUME Inv, NEW t \in Task, Send(t) PROVE Inv'
<1> USE DEF Inv, BufferAccounted
<1> DEFINE h == Head(due)
<1>1. /\ due # <<>> /\ ~ sent /\ sent' /\ ran' = ran \cup {h}
      /\ highest' = IF Below(highest, key[h]) THEN key[h] ELSE highest
      /\ UNCHANGED <<now, arrivals, at, key, reply, pending, perSession, driver, lock, due, late,
                     abandoned>>
  BY DEF Send
<1>2. sent' \in BOOLEAN
  BY DEF Send
<1>3. /\ h \in Request /\ h = due[1] /\ 1 \in DOMAIN due /\ DOMAIN due \subseteq Nat
      /\ h \in Range(due)
  BY <1>1, BatchTail DEF TypeOK, HeldOrAnswered
<1>4. DOMAIN due = 1 .. Len(due) /\ Len(due) \in Nat
  BY DEF TypeOK
<1> HIDE DEF h
<1>5. h \in Here /\ h \notin pending /\ reply[h] = "none" /\ ~OnTheWay(h)
  <2>1. h \in Here /\ h \notin pending
    BY <1>3 DEF Here, HeldOrAnswered
  <2> QED
    BY <2>1, HereWaits
<1>6. Here' = Here /\ Keyed' = Keyed /\ Counted' = Counted /\ \A q \in Request : OnTheWay(q)' = OnTheWay(q)
  BY <1>1 DEF Here, Keyed, Counted, OnTheWay
<1>7. TypeOK'
  BY <1>1, <1>2, <1>3 DEF TypeOK
<1>8. OccupancyIsExact'
  BY <1>1 DEF OccupancyIsExact
<1>9. HeldOrAnswered' /\ ForwardedOnceAndTold'
  <2>1. \A i \in DOMAIN due : due[i] = h => i = 1
    BY <1>3 DEF HeldOrAnswered, IsInjective
  <2>2. \A p \in Request : h \notin abandoned[p]
    BY <1>3, <1>5 DEF ForwardedOnceAndTold
  <2>3. \A p \in Request : abandoned[p] \cap ran' = abandoned[p] \cap ran
    BY <1>1, <2>2
  <2>4. HeldOrAnswered'
    BY <1>1, <1>6 DEF HeldOrAnswered
  <2> QED
    BY <1>1, <1>3, <1>5, <2>1, <2>3, <2>4 DEF ForwardedOnceAndTold
<1>10. key[h] \in Keys /\ highest' \in Keys
  BY <1>1, <1>3 DEF InvTypes
<1>11. InvTypes'
  BY <1>1, <1>10 DEF InvTypes
<1>12. InvPlaces'
  BY <1>1, <1>3, <1>5, <1>6 DEF InvPlaces
<1>13. InvKeys'
  BY <1>1, <1>6 DEF InvKeys
<1>14. InvOrder'
  <2>1. highest'.deadline < Us(now)
    BY <1>1, <1>3 DEF InvOrder
  <2>2. \A r \in pending \ late : Below(highest', key[r])
    BY <1>1, <1>3 DEF InvOrder, Before
  <2>3. \A i \in DOMAIN due : due[i] \notin late => Below(highest', key[due[i]]) \/ i = 1
    <3>1. ASSUME NEW i \in DOMAIN due, i # 1 PROVE Below(key[h], key[due[i]])
      BY <1>3, <1>4, <3>1 DEF InvOrder, Before
    <3> QED
      BY <1>1, <3>1 DEF InvOrder
  <2> QED
    BY <1>1, <2>1, <2>2, <2>3 DEF InvOrder, Before
<1> QED
  BY <1>7, <1>8, <1>9, <1>11, <1>12, <1>13, <1>14

\* The lock is given back with an empty batch.
LEMMA InvRelease == ASSUME Inv, NEW t \in Task, Release(t) PROVE Inv'
<1> USE DEF Inv, BufferAccounted
<1>1. /\ lock = t /\ Forwarding(t) /\ due = <<>> /\ lock' = NoTask /\ Goes(t, "asleep", "waiting")
      /\ UNCHANGED <<now, arrivals, key, reply, pending, perSession, due, sent, late, ran, highest, abandoned>>
  BY DEF Release, history
<1>2. /\ driver' \in {"asleep", "release", "forward"}
      /\ at' \in [Request -> {"new", "timed", "keyed", "kick", "forward", "waiting", "done"}]
      /\ \A q \in Request : at'[q] # at[q] => ~OnTheWay(q) /\ ~OnTheWay(q)'
  BY <1>1, GoesMoves
<1>3. /\ \A q \in Request : at'[q] \in {"new", "timed", "keyed"} => at[q] = at'[q]
      /\ {q \in Request : at'[q] = "keyed"} = {q \in Request : at[q] = "keyed"}
      /\ Counted' = Counted /\ \A q \in Request : OnTheWay(q)' = OnTheWay(q)
  BY <1>2, FutureMoves
<1>4. Here' = Here /\ Keyed' = Keyed
  BY <1>1, <1>3 DEF Here, Keyed
<1>5. TypeOK'
  BY <1>1, <1>2 DEF TypeOK
<1>6. OccupancyIsExact' /\ HeldOrAnswered' /\ ForwardedOnceAndTold' /\ InvTypes'
  <2>1. \A p \in Request : at[p] = "done" => at'[p] = "done"
    BY <1>1, IngressAssumption DEF Goes, Forwarding, Task, TypeOK
  <2> QED
    BY <1>1, <1>3, <2>1 DEF OccupancyIsExact, HeldOrAnswered, ForwardedOnceAndTold, InvTypes
<1>7. InvPlaces'
  BY <1>1, <1>3, <1>4, IngressAssumption DEF InvPlaces
<1>8. InvKeys'
  BY <1>1, <1>3, <1>4 DEF InvKeys
<1>9. InvOrder'
  BY <1>1 DEF InvOrder, Before
<1> QED
  BY <1>5, <1>6, <1>7, <1>8, <1>9

\* A future is dropped with what it owns.
LEMMA InvGoAway == ASSUME Inv, NEW r \in Request, GoAway(r) PROVE Inv'
<1> USE DEF Inv, BufferAccounted
<1> DEFINE D == DroppedWith(r)
<1>1. /\ ~OnTheWay(r) /\ (at[r] = "forward" => sent) /\ at[r] # "done" /\ at' = [at EXCEPT ![r] = "done"]
      /\ reply' = [q \in Request |-> IF q \in D THEN "dropped" ELSE reply[q]]
      /\ key' = [q \in Request |-> IF q \in D THEN NoKey ELSE key[q]]
      /\ late' = late \ D /\ abandoned' = [abandoned EXCEPT ![r] = D]
      /\ UNCHANGED <<now, arrivals, pending, perSession, driver, ran, highest>>
  BY DEF GoAway, OnTheWay
<1>2. \/ lock = r /\ lock' = NoTask /\ due' = <<>> /\ sent' = FALSE /\ D = Range(due)
      \/ UNCHANGED <<lock, due, sent>> /\ D = {}
  BY DEF GoAway, DroppedWith, held
<1> HIDE DEF D
<1>3. /\ at' \in [Request -> {"new", "timed", "keyed", "kick", "forward", "waiting", "done"}]
      /\ \A q \in Request : at'[q] # at[q] => ~OnTheWay(q) /\ ~OnTheWay(q)'
  BY <1>1 DEF TypeOK, OnTheWay
<1>4. /\ \A q \in Request : at'[q] \in {"new", "timed", "keyed"} => at[q] = at'[q]
      /\ {q \in Request : at'[q] = "keyed"} = {q \in Request : at[q] = "keyed"}
      /\ Counted' = Counted /\ \A q \in Request : OnTheWay(q)' = OnTheWay(q)
  BY <1>3, FutureMoves
<1>5. D \subseteq Range(due) /\ D \cap pending = {} /\ D \subseteq Here
  BY <1>2 DEF HeldOrAnswered, Here
<1>6. Range(due') = Range(due) \ D /\ IsInjective(due')
  BY <1>2 DEF Range, IsInjective, HeldOrAnswered
<1>7. Here' = Here \ D
  BY <1>1, <1>5, <1>6 DEF Here
<1>8. \A q \in D : q \in Request /\ ~OnTheWay(q) /\ reply[q] = "none"
  BY <1>5, HereWaits
<1>9. Keyed' = Keyed \ D
  BY <1>4, <1>7, <1>8 DEF Keyed, OnTheWay
<1>10. /\ reply' \in [Request -> {"none", "refused", "receipt", "dropped"}]
       /\ \A q \in Request : reply'[q] = IF q \in D THEN "dropped" ELSE reply[q]
  BY <1>1 DEF TypeOK
<1>11. key' \in [Request -> Keys] /\ \A q \in Request \ D : key'[q] = key[q]
  BY <1>1 DEF InvTypes, NoKey, Keys
<1>12. TypeOK'
  <2>1. due' \in Seq(Request) /\ Len(due') <= Capacity
    <3>1. CASE due' = <<>>
      BY <3>1, IngressAssumption
    <3>2. CASE due' = due
      BY <3>2 DEF TypeOK
    <3> QED
      BY <1>2, <3>1, <3>2
  <2>2. sent' \in BOOLEAN /\ lock' \in Task \cup {NoTask}
    BY <1>2 DEF TypeOK
  <2>3. abandoned' \in [Request -> SUBSET Request]
    BY <1>1, <1>8 DEF TypeOK
  <2> QED
    BY <1>1, <1>3, <1>10, <2>1, <2>2, <2>3 DEF TypeOK
<1>13. OccupancyIsExact'
  BY <1>1 DEF OccupancyIsExact
<1>14. HeldOrAnswered' /\ ForwardedOnceAndTold'
  <2>1. \A i \in DOMAIN due' : due'[i] \in ran => i = 1 /\ sent'
    BY <1>2 DEF ForwardedOnceAndTold
  <2>2. HeldOrAnswered'
    <3>1. Range(due') \cap pending' = {} /\ Here' = pending' \cup Range(due')
      BY <1>1, <1>6 DEF HeldOrAnswered, Here
    <3>2. ASSUME NEW q \in Request, ~OnTheWay(q)' PROVE reply'[q] = "none" <=> q \in Here'
      BY <1>4, <1>7, <1>10, <3>2 DEF HeldOrAnswered, Here
    <3> QED
      BY <1>6, <3>1, <3>2 DEF HeldOrAnswered
  <2>3. /\ abandoned[r] = {} /\ abandoned'[r] = D
        /\ \A p \in Request \ {r} : abandoned'[p] = abandoned[p]
    BY <1>1 DEF ForwardedOnceAndTold, TypeOK
  <2>4. \A q \in Request : (\E p \in Request : q \in abandoned'[p])
                            <=> q \in D \/ \E p \in Request : q \in abandoned[p]
    BY <2>3
  <2>5. \A q \in Request : reply'[q] = "dropped" <=> \E p \in Request : q \in abandoned'[p]
    BY <1>8, <1>10, <2>4 DEF ForwardedOnceAndTold
  <2>6. D # {} => \E q \in D : D \cap ran = {q}
    <3> SUFFICES ASSUME D # {} PROVE \E q \in D : D \cap ran = {q}
      OBVIOUS
    <3>1. D = Range(due) /\ lock = r /\ sent
      BY <1>1, <1>2 DEF InvPlaces
    <3>2. due # <<>> /\ due[1] \in ran /\ 1 \in DOMAIN due
      BY <3>1, BatchTail DEF InvPlaces, TypeOK, HeldOrAnswered
    <3>3. \A i \in DOMAIN due : due[i] \in ran => due[i] = due[1]
      BY DEF ForwardedOnceAndTold
    <3> QED
      BY <3>1, <3>2, <3>3 DEF Range
  <2>7. ASSUME NEW p \in Request, abandoned'[p] # {}
        PROVE  at'[p] = "done" /\ \E q \in abandoned'[p] : abandoned'[p] \cap ran' = {q}
    <3>1. CASE p = r
      BY <1>1, <2>3, <2>6, <2>7, <3>1 DEF TypeOK
    <3>2. CASE p # r
      BY <1>1, <2>3, <2>7, <3>2 DEF ForwardedOnceAndTold, TypeOK
    <3> QED
      BY <3>1, <3>2
  <2> QED
    BY <1>1, <1>8, <1>10, <2>1, <2>2, <2>5, <2>7 DEF ForwardedOnceAndTold
<1>15. InvTypes'
  BY <1>1, <1>11 DEF InvTypes
<1>16. InvPlaces'
  <2>1. \A q \in Request : OnTheWay(q)' => q \notin Here' /\ q \notin ran' /\ reply'[q] = "none"
    BY <1>1, <1>4, <1>7, <1>8, <1>10 DEF InvPlaces
  <2>2. (lock' = NoTask => due' = <<>>) /\ (sent' => due' # <<>> /\ due'[1] \in ran')
    BY <1>1, <1>2 DEF InvPlaces
  <2>3. \A q \in Request : lock' = q => at'[q] = "forward"
    <3>1. \A q \in Request : lock' = q => lock = q /\ q # r
      BY <1>1, <1>2, IngressAssumption DEF GoAway
    <3> QED
      BY <1>1, <3>1 DEF InvPlaces, TypeOK
  <2> QED
    BY <2>1, <2>2, <2>3 DEF InvPlaces
<1>17. InvKeys'
  <2>1. \A q \in Keyed' : q \in Keyed /\ q \in Request \ D
    BY <1>9, HereWaits DEF Keyed
  <2>2. \A q \in Request : at'[q] = "timed" => at[q] = "timed" /\ key'[q] = key[q]
    BY <1>4, <1>8, <1>11 DEF OnTheWay
  <2> QED
    BY <1>1, <1>4, <1>11, <2>1, <2>2 DEF InvKeys
<1>18. InvOrder'
  <2>1. \A q \in pending : key'[q] = key[q] /\ q \notin D
    BY <1>5, <1>11 DEF TypeOK
  <2>2. CASE due' = <<>>
    BY <1>1, <2>1, <2>2 DEF InvOrder
  <2>3. CASE UNCHANGED <<lock, due, sent>> /\ D = {}
    <3>1. \A i \in DOMAIN due : key'[due[i]] = key[due[i]]
      BY <1>11, <2>3 DEF TypeOK
    <3> QED
      BY <1>1, <2>1, <2>3, <3>1 DEF InvOrder, Before
  <2> QED
    BY <1>2, <2>2, <2>3
<1> QED
  BY <1>12, <1>13, <1>14, <1>15, <1>16, <1>17, <1>18

\* The clock moves on, the driver wakes, or nothing happens.
LEMMA InvClock == Inv /\ (Tick \/ Wake \/ UNCHANGED vars) => Inv'
<1> SUFFICES ASSUME Inv, Tick \/ Wake \/ UNCHANGED vars PROVE Inv'
  OBVIOUS
<1> USE DEF Inv, BufferAccounted
<1>1. /\ UNCHANGED <<arrivals, at, key, reply, pending, perSession, lock, due, sent, late, ran, highest,
                     abandoned>>
      /\ driver' \in {"asleep", "release", "forward"}
      /\ now' = now \/ (now' = now + 1 /\ now < MaxTime)
  <2>1. driver \in {"asleep", "release", "forward"}
    BY DEF TypeOK
  <2>2. CASE Tick
    BY <2>1, <2>2 DEF Tick, held, history
  <2>3. CASE Wake
    BY <2>3 DEF Wake, held, history
  <2>4. CASE UNCHANGED vars
    BY <2>1, <2>4 DEF vars
  <2> QED
    BY <2>2, <2>3, <2>4
<1>2. now \in Nat /\ now' \in 0 .. MaxTime /\ Us(now) \in Nat /\ Us(now') \in Nat /\ Us(now) <= Us(now')
  <2>1. now \in 0 .. MaxTime /\ MaxTime \in Nat
    BY IngressAssumption DEF TypeOK
  <2>2. now \in Nat /\ now' \in 0 .. MaxTime
    BY <1>1, <2>1
  <2> QED
    BY <1>1, <2>2, UsFacts
<1>3. TypeOK'
  BY <1>1, <1>2 DEF TypeOK
<1>4. OccupancyIsExact' /\ HeldOrAnswered' /\ ForwardedOnceAndTold' /\ InvTypes'
  BY <1>1 DEF OccupancyIsExact, HeldOrAnswered, ForwardedOnceAndTold, InvTypes, OnTheWay
<1>5. InvPlaces' /\ InvKeys'
  BY <1>1 DEF InvPlaces, InvKeys, Keyed, Here, Counted, OnTheWay
<1>6. InvOrder'
  <2>1. highest.deadline \in Int /\ \A i \in DOMAIN due : key[due[i]].deadline \in Int
    BY DEF InvTypes, Keys, TypeOK
  <2>2. highest.deadline < Us(now') /\ \A i \in DOMAIN due : key[due[i]].deadline < Us(now')
    BY <1>2, <2>1 DEF InvOrder
  <2>3. Us(now)' = Us(now')
    BY DEF Us
  <2> QED
    BY <1>1, <2>2, <2>3 DEF InvOrder, Before
<1> QED
  BY <1>3, <1>4, <1>5, <1>6

\* Every step keeps the invariant.
LEMMA InvStep == Inv /\ [Next]_vars => Inv'
<1> SUFFICES ASSUME Inv, [Next]_vars PROVE Inv'
  OBVIOUS
<1>1. ASSUME NEW r \in Request, Insert(r) PROVE Inv'
  BY <1>1, InvInsertRefused, InvInsertHeld
<1> QED
  BY <1>1, InvReadClock, InvArrive, InvDrainBelow, InvAnswer, InvSend, InvRelease, InvGoAway, InvClock
     DEF Next, Caller, Pump
-----------------------------------------------------------------------------
(* The theorems.                                                            *)

\* BufferAccounted for every number of requests and tasks that pump, and whoever hangs up where:
\* the counts of the sessions are exact and within the quota, an order that reached the edge is
\* in one place until it is answered and reaches the actor at most once, receipts and refusals
\* are true, and of a batch whose pump vanished exactly the one order in hand has run.
THEOREM BufferAlwaysAccounted == Spec => []BufferAccounted
<1>1. Inv => BufferAccounted
  BY DEF Inv
<1> QED
  BY <1>1, InvInit, InvStep, PTL DEF Spec

\* Over all the batches and all the tasks that pump, the actor receives an order above every
\* key it has received so far, unless the order came to the buffer after its own deadline.
THEOREM OrderIsKept == Spec => OnlyLateIsOvertaken
<1>1. Inv /\ [Next]_vars => [\A r \in ran' \ ran : Below(highest, key[r]) \/ r \in late]_vars
  <2> SUFFICES ASSUME Inv, [Next]_vars, NEW r \in ran' \ ran
               PROVE  Below(highest, key[r]) \/ r \in late
    BY DEF vars
  <2>1. PICK t \in Task : Send(t)
    BY DEF Next, Caller, Pump, ReadClock, Arrive, Insert, GoAway, DrainBelow, Refuse, Deliver, Release, Tick,
           Wake, vars, history
  <2>2. due # <<>> /\ ~ sent /\ r = Head(due)
    BY <2>1 DEF Send
  <2>3. due \in Seq(Request) /\ IsInjective(due)
    BY DEF Inv, BufferAccounted, TypeOK, HeldOrAnswered
  <2>4. r = due[1] /\ 1 \in DOMAIN due
    BY <2>2, <2>3, BatchTail
  <2> QED
    BY <2>2, <2>4 DEF Inv, InvOrder
<1> QED
  BY <1>1, InvInit, InvStep, PTL DEF Spec, OnlyLateIsOvertaken
-----------------------------------------------------------------------------
(* The index: what a committed turn makes of it.                            *)

IndexState ==
    [map : [Account \X Key -> IndexRecord \cup {None}], count : [Account -> Nat], lost : BOOLEAN]

Mine(map, a) == {ak \in Entries(map) : ak[1] = a}

CountOK(ix) ==
    /\ IsFiniteSet(Entries(ix.map)) /\ Cardinality(Entries(ix.map)) <= MaxEntries
    /\ \A a \in Account : ix.count[a] = Cardinality(Mine(ix.map, a)) /\ ix.count[a] <= MaxPerAccount

LEMMA MineIsFinite ==
  ASSUME NEW f, IsFiniteSet(Entries(f)), NEW a
  PROVE  IsFiniteSet(Mine(f, a)) /\ Cardinality(Mine(f, a)) \in Nat /\ Cardinality(Entries(f)) \in Nat
  <1>1. Mine(f, a) \in SUBSET Entries(f) BY DEF Mine
  <1> QED BY <1>1, FS_Subset, FS_CardinalityType

LEMMA KeyParts ==
  ASSUME NEW ak \in Account \X Key
  PROVE  ak[1] \in Account /\ ak[2] \in Key /\ ak = <<ak[1], ak[2]>>
  OBVIOUS

\* g is the map f with the entry of ak set to r.
PutAt(f, ak, r, g) ==
    /\ g \in [Account \X Key -> IndexRecord \cup {None}] /\ g[ak] = r
    /\ \A x \in Account \X Key : x # ak => g[x] = f[x]
    /\ Entries(g) = IF r = None THEN Entries(f) \ {ak} ELSE Entries(f) \cup {ak}
    /\ \A a : Mine(g, a) = IF a # ak[1] THEN Mine(f, a)
                           ELSE IF r = None THEN Mine(f, a) \ {ak} ELSE Mine(f, a) \cup {ak}

LEMMA PutIs ==
  ASSUME NEW f \in [Account \X Key -> IndexRecord \cup {None}], NEW ak \in Account \X Key,
         NEW r \in IndexRecord \cup {None}, NEW g, g = [f EXCEPT ![ak] = r]
  PROVE  PutAt(f, ak, r, g)
  <1>1. /\ g \in [Account \X Key -> IndexRecord \cup {None}] /\ g[ak] = r
        /\ \A x \in Account \X Key : x # ak => g[x] = f[x]
    OBVIOUS
  <1>2. DOMAIN f = Account \X Key /\ DOMAIN g = Account \X Key OBVIOUS
  <1>3. \A x : x \in Entries(g) <=> IF r = None THEN x \in Entries(f) /\ x # ak
                                     ELSE x \in Entries(f) \/ x = ak
    <2> SUFFICES ASSUME NEW x
                 PROVE  x \in Entries(g) <=> IF r = None THEN x \in Entries(f) /\ x # ak
                                             ELSE x \in Entries(f) \/ x = ak
      OBVIOUS
    <2>1. CASE x = ak BY <1>1, <1>2, <2>1 DEF Entries
    <2>2. CASE x # ak BY <1>1, <1>2, <2>2 DEF Entries
    <2> QED BY <2>1, <2>2
  <1>4. Entries(g) = IF r = None THEN Entries(f) \ {ak} ELSE Entries(f) \cup {ak} BY <1>3
  <1>5. ASSUME NEW a
        PROVE  Mine(g, a) = IF a # ak[1] THEN Mine(f, a)
                            ELSE IF r = None THEN Mine(f, a) \ {ak} ELSE Mine(f, a) \cup {ak}
    BY <1>3 DEF Mine
  <1> QED BY <1>1, <1>4, <1>5 DEF PutAt

LEMMA RetireKeeps ==
  ASSUME NEW ix \in IndexState, CountOK(ix), NEW ak \in Account \X Key, NEW q, q = Retire(ix, ak)
  PROVE  /\ q \in IndexState /\ CountOK(q) /\ q.lost = ix.lost /\ q.map[ak] = None
         /\ \A x \in Account \X Key : x # ak => q.map[x] = ix.map[x]
  <1> DEFINE b == ak[1]
             f == ix.map
             g == [f EXCEPT ![ak] = None]
             n == IF f[ak] = None THEN ix.count[b] ELSE ix.count[b] - 1
             h == [ix.count EXCEPT ![b] = n]
  <1>1. /\ f \in [Account \X Key -> IndexRecord \cup {None}] /\ ix.count \in [Account -> Nat]
        /\ b \in Account /\ ix.lost \in BOOLEAN
    BY KeyParts DEF IndexState
  <1>2. q = [ix EXCEPT !.map = g, !.count = h] BY <1>1 DEF Retire
  <1> HIDE DEF f
  <1>3. /\ g \in [Account \X Key -> IndexRecord \cup {None}] /\ g[ak] = None
        /\ \A x \in Account \X Key : x # ak => g[x] = f[x]
        /\ Entries(g) = Entries(f) \ {ak}
        /\ \A a : Mine(g, a) = IF a # b THEN Mine(f, a) ELSE Mine(f, a) \ {ak}
    <2> DEFINE r == None
    <2>1. r \in IndexRecord \cup {None} /\ g = [f EXCEPT ![ak] = r] /\ r = None OBVIOUS
    <2> HIDE DEF g, r
    <2>2. PutAt(f, ak, r, g) BY <1>1, <2>1, PutIs
    <2> QED BY <2>1, <2>2 DEF PutAt
  <1> HIDE DEF g
  <1>4. /\ IsFiniteSet(Entries(f)) /\ Cardinality(Entries(f)) <= MaxEntries
        /\ \A a \in Account : ix.count[a] = Cardinality(Mine(f, a)) /\ ix.count[a] <= MaxPerAccount
    BY DEF CountOK, f
  <1>5. MaxEntries \in Nat /\ MaxPerAccount \in Nat BY Ceilings
  <1>6. IsFiniteSet(Mine(f, b)) /\ Cardinality(Mine(f, b)) \in Nat /\ Cardinality(Entries(f)) \in Nat
    BY <1>4, MineIsFinite
  <1>7. IsFiniteSet(Entries(g)) /\ Cardinality(Entries(g)) <= MaxEntries
    <2>1. Entries(g) \in SUBSET Entries(f) BY <1>3
    <2>2. IsFiniteSet(Entries(g)) /\ Cardinality(Entries(g)) <= Cardinality(Entries(f))
      BY <1>4, <2>1, FS_Subset
    <2>3. Cardinality(Entries(g)) \in Nat BY <2>2, FS_CardinalityType
    <2> QED BY <1>4, <1>5, <1>6, <2>2, <2>3
  <1>8. n \in Nat /\ n = Cardinality(Mine(g, b)) /\ n <= MaxPerAccount
    <2>1. Mine(g, b) = Mine(f, b) \ {ak} BY <1>3
    <2>2. ix.count[b] = Cardinality(Mine(f, b)) /\ ix.count[b] <= MaxPerAccount BY <1>1, <1>4
    <2>3. CASE f[ak] = None
      <3>1. ak \notin Mine(f, b) BY <2>3 DEF Mine, Entries
      <3>2. Mine(g, b) = Mine(f, b) BY <2>1, <3>1
      <3> QED BY <1>6, <2>2, <2>3, <3>2
    <2>4. CASE f[ak] # None
      <3>1. ak \in Mine(f, b) BY <1>1, <2>4 DEF Mine, Entries
      <3>2. Cardinality(Mine(f, b) \ {ak}) = Cardinality(Mine(f, b)) - 1 /\ IsFiniteSet(Mine(f, b) \ {ak})
        BY <1>6, <3>1, FS_RemoveElement
      <3>3. Cardinality(Mine(f, b) \ {ak}) \in Nat BY <3>2, FS_CardinalityType
      <3> QED BY <1>5, <1>6, <2>1, <2>2, <2>4, <3>2, <3>3
    <2> QED BY <2>3, <2>4
  <1> HIDE DEF n, b
  <1>9. h \in [Account -> Nat] /\ \A a \in Account : h[a] = IF a = b THEN n ELSE ix.count[a]
    BY <1>1, <1>8
  <1> HIDE DEF h
  <1>10. q \in IndexState /\ q.map = g /\ q.count = h /\ q.lost = ix.lost
    BY <1>1, <1>2, <1>3, <1>9 DEF IndexState
  <1>11. CountOK(q)
    <2>1. ASSUME NEW a \in Account PROVE h[a] = Cardinality(Mine(g, a)) /\ h[a] <= MaxPerAccount
      <3>1. CASE a = b BY <1>8, <1>9, <3>1
      <3>2. CASE a # b BY <1>3, <1>4, <1>9, <3>2
      <3> QED BY <3>1, <3>2
    <2> QED BY <1>7, <1>10, <2>1 DEF CountOK
  <1> QED BY <1>3, <1>10, <1>11 DEF f

LEMMA RecordKeeps ==
  ASSUME NEW ix \in IndexState, CountOK(ix), NEW ak \in Account \X Key, NEW r \in IndexRecord,
         NEW q, q = Record(ix, ak, r)
  PROVE  /\ q \in IndexState /\ CountOK(q) /\ (ix.lost => q.lost)
         /\ q.map[ak] = r \/ (q.lost /\ q.map[ak] = None)
         /\ \A x \in Account \X Key : x # ak => q.map[x] = ix.map[x]
  <1> DEFINE b == ak[1]
             f == ix.map
             g == [f EXCEPT ![ak] = r]
             n == IF f[ak] = None THEN ix.count[b] + 1 ELSE ix.count[b]
             h == [ix.count EXCEPT ![b] = n]
  <1>1. /\ f \in [Account \X Key -> IndexRecord \cup {None}] /\ ix.count \in [Account -> Nat]
        /\ b \in Account /\ ix.lost \in BOOLEAN
    BY KeyParts DEF IndexState
  <1>2. CASE Refused(ix, ak)
    <2>1. q = [ix EXCEPT !.lost = TRUE] BY <1>2 DEF Record
    <2>2. q \in IndexState /\ q.map = ix.map /\ q.count = ix.count /\ q.lost = TRUE
      BY <2>1 DEF IndexState
    <2>3. ix.map[ak] = None BY <1>2 DEF Refused
    <2> QED BY <2>2, <2>3 DEF CountOK
  <1>3. CASE ~ Refused(ix, ak)
    <2>1. q = [ix EXCEPT !.map = g, !.count = h] BY <1>1, <1>3 DEF Record
    <2>2. f[ak] = None => ~ (Cardinality(Entries(f)) >= MaxEntries) /\ ~ (ix.count[b] >= MaxPerAccount)
      BY <1>3 DEF Refused
    <2>3. r # None BY NoneIsNoValue
    <2>4. IsFiniteSet(Entries(f)) /\ Cardinality(Entries(f)) <= MaxEntries
      BY DEF CountOK
    <2>5. \A a \in Account : ix.count[a] = Cardinality(Mine(f, a)) /\ ix.count[a] <= MaxPerAccount
      BY DEF CountOK
    <2> HIDE DEF f
    <2>6. /\ g \in [Account \X Key -> IndexRecord \cup {None}] /\ g[ak] = r
          /\ \A x \in Account \X Key : x # ak => g[x] = f[x]
          /\ Entries(g) = Entries(f) \cup {ak}
          /\ \A a : Mine(g, a) = IF a # b THEN Mine(f, a) ELSE Mine(f, a) \cup {ak}
      <3>1. r \in IndexRecord \cup {None} /\ g = [f EXCEPT ![ak] = r] OBVIOUS
      <3> HIDE DEF g
      <3>2. PutAt(f, ak, r, g) BY <1>1, <3>1, PutIs
      <3> QED BY <2>3, <3>2 DEF PutAt
    <2> HIDE DEF g
    <2>7. MaxEntries \in Nat /\ MaxPerAccount \in Nat BY Ceilings
    <2>8. IsFiniteSet(Mine(f, b)) /\ Cardinality(Mine(f, b)) \in Nat /\ Cardinality(Entries(f)) \in Nat
      BY <2>4, MineIsFinite
    <2>9. IsFiniteSet(Entries(g)) /\ Cardinality(Entries(g)) <= MaxEntries
      <3>1. CASE f[ak] = None
        <4>1. ak \notin Entries(f) BY <3>1 DEF Entries
        <4>2. /\ IsFiniteSet(Entries(f) \cup {ak})
              /\ Cardinality(Entries(f) \cup {ak}) = Cardinality(Entries(f)) + 1
          BY <2>4, <4>1, FS_AddElement
        <4> QED BY <2>2, <2>6, <2>7, <2>8, <3>1, <4>2
      <3>2. CASE f[ak] # None
        <4>1. ak \in Entries(f) BY <1>1, <3>2 DEF Entries
        <4>2. Entries(g) = Entries(f) BY <2>6, <4>1
        <4> QED BY <2>4, <4>2
      <3> QED BY <3>1, <3>2
    <2>10. n \in Nat /\ n = Cardinality(Mine(g, b)) /\ n <= MaxPerAccount
      <3>1. Mine(g, b) = Mine(f, b) \cup {ak} BY <2>6
      <3>2. ix.count[b] = Cardinality(Mine(f, b)) /\ ix.count[b] <= MaxPerAccount BY <1>1, <2>5
      <3>3. CASE f[ak] = None
        <4>1. ak \notin Mine(f, b) BY <3>3 DEF Mine, Entries
        <4>2. Cardinality(Mine(f, b) \cup {ak}) = Cardinality(Mine(f, b)) + 1
          BY <2>8, <4>1, FS_AddElement
        <4> QED BY <2>2, <2>7, <2>8, <3>1, <3>2, <3>3, <4>2
      <3>4. CASE f[ak] # None
        <4>1. ak \in Mine(f, b) BY <1>1, <3>4 DEF Mine, Entries
        <4>2. Mine(g, b) = Mine(f, b) BY <3>1, <4>1
        <4> QED BY <2>8, <3>2, <3>4, <4>2
      <3> QED BY <3>3, <3>4
    <2> HIDE DEF n, b
    <2>11. h \in [Account -> Nat] /\ \A a \in Account : h[a] = IF a = b THEN n ELSE ix.count[a]
      BY <1>1, <2>10
    <2> HIDE DEF h
    <2>12. q \in IndexState /\ q.map = g /\ q.count = h /\ q.lost = ix.lost
      BY <1>1, <2>1, <2>6, <2>11 DEF IndexState
    <2>13. CountOK(q)
      <3>1. ASSUME NEW a \in Account PROVE h[a] = Cardinality(Mine(g, a)) /\ h[a] <= MaxPerAccount
        <4>1. CASE a = b BY <2>10, <2>11, <4>1
        <4>2. CASE a # b BY <2>5, <2>6, <2>11, <4>2
        <4> QED BY <4>1, <4>2
      <3> QED BY <2>9, <2>12, <3>1 DEF CountOK
    <2> QED BY <2>6, <2>12, <2>13 DEF f
  <1> QED BY <1>2, <1>3

AddCmd == [op : {"add"}, u : Book, key : Key \cup {None}, qty : Qty, kind : {"limit", "market"},
           id : OrderId, new : {None}, orig : {None}]
ReplaceCmd == [op : {"replace"}, u : Book, key : Key, qty : Qty, kind : {"limit"},
               id : OrderId, new : OrderId, orig : Key]
CancelCmd == [op : {"cancel"}, u : Book, key : {None}, id : OrderId, new : {None},
              orig : Key \cup {None}]
SweepCmd == [op : {"sweep"}, u : Book, key : {None}, id : {None}, new : {None}, orig : {None}]

\* The journaled turns.
AddTurn == [cmd : AddCmd, account : Account, seq : Nat \ {0}, out : [is : {"entered"}]]
ReplaceTurn == [cmd : ReplaceCmd, account : Account, seq : Nat \ {0},
                out : [is : {"replaced", "cancelled only"}]]
Bound == AddTurn \cup ReplaceTurn

RecOf(t) == [u |-> t.cmd.u, id |-> Places(t), qty |-> t.cmd.qty, seq |-> t.seq]

LEMMA BoundIs ==
  ASSUME NEW t \in Bound
  PROVE  /\ t.account \in Account /\ t.seq \in Nat /\ t.seq # 0 /\ t.cmd.u \in Book /\ t.cmd.qty \in Qty
         /\ \/ t \in AddTurn /\ t.cmd.op = "add" /\ t.out.is = "entered" /\ t.cmd.key \in Key \cup {None}
               /\ t.cmd.orig = None /\ t.cmd.id \in OrderId /\ Places(t) = t.cmd.id
            \/ t \in ReplaceTurn /\ t.cmd.op = "replace" /\ t.out.is \in {"replaced", "cancelled only"}
               /\ t.cmd.key \in Key /\ t.cmd.orig \in Key /\ t.cmd.new \in OrderId /\ Places(t) = t.cmd.new
         /\ RecOf(t) \in IndexRecord /\ RecOf(t) # None /\ Places(t) \in OrderId
  <1>1. CASE t \in AddTurn
    <2>1. /\ t.account \in Account /\ t.seq \in Nat /\ t.seq # 0 /\ t.cmd \in AddCmd /\ t.out.is = "entered"
      BY <1>1 DEF AddTurn
    <2>2. /\ t.cmd.u \in Book /\ t.cmd.qty \in Qty /\ t.cmd.op = "add" /\ t.cmd.key \in Key \cup {None}
          /\ t.cmd.orig = None /\ t.cmd.id \in OrderId
      BY <2>1 DEF AddCmd
    <2>3. Places(t) = t.cmd.id BY <2>2 DEF Places
    <2>4. RecOf(t) \in IndexRecord BY <2>1, <2>2, <2>3 DEF RecOf, IndexRecord
    <2> QED BY <1>1, <2>1, <2>2, <2>3, <2>4, NoneIsNoValue
  <1>2. CASE t \in ReplaceTurn
    <2>1. /\ t.account \in Account /\ t.seq \in Nat /\ t.seq # 0 /\ t.cmd \in ReplaceCmd
          /\ t.out.is \in {"replaced", "cancelled only"}
      BY <1>2 DEF ReplaceTurn
    <2>2. /\ t.cmd.u \in Book /\ t.cmd.qty \in Qty /\ t.cmd.op = "replace" /\ t.cmd.key \in Key
          /\ t.cmd.orig \in Key /\ t.cmd.new \in OrderId
      BY <2>1 DEF ReplaceCmd
    <2>3. Places(t) = t.cmd.new BY <2>2 DEF Places
    <2>4. RecOf(t) \in IndexRecord BY <2>1, <2>2, <2>3 DEF RecOf, IndexRecord
    <2> QED BY <1>2, <2>1, <2>2, <2>3, <2>4, NoneIsNoValue
  <1> QED BY <1>1, <1>2 DEF Bound

LEMMA ApplyAdd ==
  ASSUME NEW ix, NEW t \in Bound, t.cmd.op = "add"
  PROVE  ApplyCommitted(ix, t) = IF t.cmd.key = None THEN ix
                                 ELSE Record(ix, <<t.account, t.cmd.key>>, RecOf(t))
  <1>1. t.out.is = "entered" /\ Places(t) = t.cmd.id BY BoundIs
  <1> QED BY <1>1 DEF ApplyCommitted, Entered, RecOf

LEMMA ApplyReplace ==
  ASSUME NEW ix, NEW t \in Bound, t.cmd.op = "replace"
  PROVE  ApplyCommitted(ix, t) =
           IF t.out.is = "replaced"
           THEN Record(Retire(ix, <<t.account, t.cmd.orig>>), <<t.account, t.cmd.key>>, RecOf(t))
           ELSE Retire(ix, <<t.account, t.cmd.orig>>)
  <1>1. t.out.is \in {"replaced", "cancelled only"} /\ Places(t) = t.cmd.new BY BoundIs
  <1>2. CASE t.out.is = "replaced"
    BY <1>1, <1>2 DEF ApplyCommitted, Entered, RecOf, Move
  <1>3. CASE t.out.is = "cancelled only"
    BY <1>1, <1>3 DEF ApplyCommitted, Entered, RecOf
  <1> QED BY <1>1, <1>2, <1>3

\* What the index q is after turn t, of what it was before.
Follows(ix, t, q) ==
    /\ q \in IndexState /\ CountOK(q) /\ (ix.lost => q.lost)
    /\ \A ak \in Account \X Key :
         /\ ~ Rebinds(t, ak) => q.map[ak] = ix.map[ak]
         /\ Rebinds(t, ak) /\ ~ OpensUnder(t, ak) => q.map[ak] = None
         /\ OpensUnder(t, ak) => q.map[ak] = RecOf(t) \/ (q.lost /\ q.map[ak] = None)

LEMMA ApplyFollows ==
  ASSUME NEW ix \in IndexState, CountOK(ix), NEW t \in Bound
  PROVE  Follows(ix, t, ApplyCommitted(ix, t))
  <1> DEFINE q == ApplyCommitted(ix, t)
             a == t.account
             new == <<a, t.cmd.key>>
             old == <<a, t.cmd.orig>>
  <1>1. RecOf(t) \in IndexRecord /\ a \in Account /\ None \notin Key BY BoundIs, NoneIsNoValue
  <1>2. CASE t.cmd.op = "add"
    <2>1. t.out.is = "entered" /\ t.cmd.orig = None /\ t.cmd.key \in Key \cup {None} BY <1>2, BoundIs
    <2>2. \A ak \in Account \X Key : Rebinds(t, ak) <=> OpensUnder(t, ak)
      BY <2>1 DEF Rebinds, OpensUnder
    <2>3. \A ak \in Account \X Key : OpensUnder(t, ak) <=> ak = new
      BY <2>1, KeyParts DEF OpensUnder, Entered
    <2>4. CASE t.cmd.key = None
      <3>1. q = ix BY <1>2, <2>4, ApplyAdd
      <3>2. \A ak \in Account \X Key : ak # new BY <1>1, <2>4
      <3> QED BY <2>2, <2>3, <3>1, <3>2 DEF Follows
    <2>5. CASE t.cmd.key # None
      <3>1. q = Record(ix, new, RecOf(t)) BY <1>2, <2>5, ApplyAdd
      <3>2. new \in Account \X Key BY <1>1, <2>1, <2>5
      <3> HIDE DEF q, new
      <3>3. /\ q \in IndexState /\ CountOK(q) /\ (ix.lost => q.lost)
            /\ q.map[new] = RecOf(t) \/ (q.lost /\ q.map[new] = None)
            /\ \A x \in Account \X Key : x # new => q.map[x] = ix.map[x]
        BY <1>1, <3>1, <3>2, RecordKeeps
      <3> QED BY <2>2, <2>3, <3>3 DEF Follows, q
    <2> QED BY <2>4, <2>5
  <1>3. CASE t.cmd.op = "replace"
    <2>1. t.out.is \in {"replaced", "cancelled only"} /\ t.cmd.orig \in Key /\ t.cmd.key \in Key
      BY <1>3, BoundIs
    <2>2. new \in Account \X Key /\ old \in Account \X Key BY <1>1, <2>1
    <2>a. \A ak \in Account \X Key : OpensUnder(t, ak) <=> t.out.is = "replaced" /\ ak = new
      BY <2>1, KeyParts DEF OpensUnder, Entered
    <2>b. \A ak \in Account \X Key : (t.account = ak[1] /\ t.cmd.orig = ak[2]) <=> ak = old
      <3> SUFFICES ASSUME NEW ak \in Account \X Key
                   PROVE  (t.account = ak[1] /\ t.cmd.orig = ak[2]) <=> ak = old
        OBVIOUS
      <3>1. ak = <<ak[1], ak[2]>> BY KeyParts
      <3> QED BY <3>1
    <2>c. t.out.is \in {"replaced", "cancelled only"} BY <2>1
    <2>d. \A ak \in Account \X Key : Rebinds(t, ak) <=> OpensUnder(t, ak) \/ ak = old
      BY <2>b, <2>c, Zenon DEF Rebinds
    <2>3. \A ak \in Account \X Key : /\ OpensUnder(t, ak) <=> t.out.is = "replaced" /\ ak = new
                                     /\ Rebinds(t, ak) <=> OpensUnder(t, ak) \/ ak = old
      BY <2>a, <2>d, Zenon
    <2> DEFINE w == Retire(ix, old)
    <2>4. w = Retire(ix, old) OBVIOUS
    <2>5. q = IF t.out.is = "replaced" THEN Record(w, new, RecOf(t)) ELSE w BY <1>3, ApplyReplace
    <2>6. /\ w \in IndexState /\ CountOK(w) /\ w.lost = ix.lost /\ w.map[old] = None
          /\ \A x \in Account \X Key : x # old => w.map[x] = ix.map[x]
      <3>1. old \in Account \X Key BY <2>2
      <3> HIDE DEF w, q, new, old
      <3> QED BY <2>4, <3>1, RetireKeeps
    <2> HIDE DEF w, q, new, old
    <2>7. CASE t.out.is = "replaced"
      <3>1. q = Record(w, new, RecOf(t)) BY <2>5, <2>7
      <3>2. /\ q \in IndexState /\ CountOK(q) /\ (w.lost => q.lost)
            /\ q.map[new] = RecOf(t) \/ (q.lost /\ q.map[new] = None)
            /\ \A x \in Account \X Key : x # new => q.map[x] = w.map[x]
        BY <1>1, <2>2, <2>6, <3>1, RecordKeeps
      <3> QED BY <2>2, <2>3, <2>6, <2>7, <3>2 DEF Follows, q
    <2>8. CASE t.out.is # "replaced"
      <3>1. q = w BY <2>5, <2>8
      <3> QED BY <2>3, <2>6, <2>8, <3>1 DEF Follows, q
    <2> QED BY <2>7, <2>8
  <1> QED BY <1>2, <1>3, BoundIs
-----------------------------------------------------------------------------
(* Induction and recursion along an interval.                               *)

LEMMA Climb ==
  ASSUME NEW N \in Nat, NEW T, 0 \in T, \A k \in 0..N : k \in T /\ k < N => k + 1 \in T
  PROVE  \A k \in 0..N : k \in T
  <1> DEFINE M == {k \in 0..N : k \notin T}
  <1>1. SUFFICES ASSUME M # {} PROVE FALSE OBVIOUS
  <1>2. M \in SUBSET Nat OBVIOUS
  <1> HIDE DEF M
  <1>3. PICK k \in M : \A j \in M : k <= j BY <1>1, <1>2, LeastNatural
  <1>4. k \in 0..N /\ k \notin T BY DEF M
  <1>5. k # 0 BY <1>4
  <1>6. k - 1 \in 0..N /\ k - 1 < N /\ (k - 1) + 1 = k BY <1>4, <1>5
  <1>7. k - 1 \notin M BY <1>3, <1>4, <1>6
  <1>8. k - 1 \in T BY <1>6, <1>7 DEF M
  <1> QED BY <1>4, <1>6, <1>8

\* f starts at x and goes on with F up to n.
Unrolls(f, n, S, F, x) ==
    f \in [0..n -> S] /\ f[0] = x /\ \A k \in 1..n : f[k] = F[<<f[k - 1], k>>]

LEMMA RunsOn ==
  ASSUME NEW N \in Nat, NEW S, NEW F \in [S \X (1..N) -> S], NEW x \in S
  PROVE  \E f : Unrolls(f, N, S, F, x)
  <1> DEFINE T == {n \in 0..N : \E f : Unrolls(f, n, S, F, x)}
  <1>1. 0 \in T
    <2> DEFINE f == [k \in 0..0 |-> x]
    <2>1. f \in [0..0 -> S] /\ f[0] = x /\ \A k \in 1..0 : FALSE OBVIOUS
    <2>2. Unrolls(f, 0, S, F, x) BY <2>1 DEF Unrolls
    <2> QED BY <2>2
  <1>2. ASSUME NEW n \in 0..N, n \in T, n < N PROVE n + 1 \in T
    <2>1. PICK f : Unrolls(f, n, S, F, x) BY <1>2
    <2>2. f \in [0..n -> S] /\ f[0] = x /\ \A k \in 1..n : f[k] = F[<<f[k - 1], k>>]
      BY <2>1 DEF Unrolls
    <2>3. n \in Nat /\ n + 1 \in 1..N /\ n \in 0..n BY <1>2
    <2> DEFINE y == F[<<f[n], n + 1>>]
               g == [k \in 0..(n + 1) |-> IF k \in 0..n THEN f[k] ELSE y]
    <2>4. y \in S
      <3>1. f[n] \in S BY <2>2, <2>3
      <3>2. <<f[n], n + 1>> \in S \X (1..N) BY <2>3, <3>1
      <3> QED BY <3>2
    <2>5. y = F[<<f[n], n + 1>>] OBVIOUS
    <2> HIDE DEF y
    <2>6. g \in [0..(n + 1) -> S] /\ (\A k \in 0..n : g[k] = f[k]) /\ g[n + 1] = y
      BY <2>2, <2>3, <2>4
    <2> HIDE DEF g
    <2>7. g[0] = x BY <2>2, <2>3, <2>6
    <2>8. ASSUME NEW k \in 1..(n + 1) PROVE g[k] = F[<<g[k - 1], k>>]
      <3>1. CASE k = n + 1
        <4>1. k - 1 = n BY <2>3, <3>1
        <4> QED BY <2>3, <2>5, <2>6, <3>1, <4>1
      <3>2. CASE k # n + 1
        <4>1. k \in 1..n /\ k \in 0..n /\ k - 1 \in 0..n BY <2>3, <3>2
        <4> QED BY <2>2, <2>6, <4>1
      <3> QED BY <3>1, <3>2
    <2>9. Unrolls(g, n + 1, S, F, x) BY <2>6, <2>7, <2>8 DEF Unrolls
    <2> QED BY <2>3, <2>9
  <1> HIDE DEF T
  <1>3. \A k \in 0..N : k \in T BY <1>1, <1>2, Climb
  <1>4. N \in T BY <1>3
  <1> QED BY <1>4 DEF T
-----------------------------------------------------------------------------
(* What the index says of the journals.                                     *)

Filed(J) ==
    /\ J \in [Book -> Seq(Bound)]
    /\ \A u \in Book : \A i \in 1..Len(J[u]) : J[u][i].cmd.u = u /\ J[u][i].seq = i

\* The first n[u] turns of every underlying u.
Within(J, n) == n \in [Book -> Nat] /\ \A u \in Book : n[u] <= Len(J[u])

\* An entry names an order that one of these turns placed under its key.
Names(ix, n, J) ==
    \A ak \in Account \X Key :
      ix.map[ak] # None =>
        /\ ix.map[ak].u \in Book /\ ix.map[ak].seq \in 1..n[ix.map[ak].u]
        /\ OpensUnder(J[ix.map[ak].u][ix.map[ak].seq], ak)
        /\ Places(J[ix.map[ak].u][ix.map[ak].seq]) = ix.map[ak].id

Alone(ak, u, n, J) ==
    \A v \in Book : v # u => \A i \in 1..n[v] : ~ Rebinds(J[v][i], ak)
LastAt(ak, u, i, n, J) ==
    /\ i \in 1..n[u] /\ Rebinds(J[u][i], ak)
    /\ \A j \in 1..n[u] : j > i => ~ Rebinds(J[u][j], ak)
Meant(t, ak) == IF OpensUnder(t, ak) THEN RecOf(t) ELSE None

\* A key that one underlying binds stands for what the last of the turns made of it.
Stands(ix, n, J) ==
    ~ ix.lost => \A ak \in Account \X Key, u \in Book, i \in Nat :
                   Alone(ak, u, n, J) /\ LastAt(ak, u, i, n, J) => ix.map[ak] = Meant(J[u][i], ak)

Reflects(ix, n, J) == ix \in IndexState /\ CountOK(ix) /\ Names(ix, n, J) /\ Stands(ix, n, J)

LEMMA ReflectsNext ==
  ASSUME NEW J, Filed(J), NEW n, Within(J, n), NEW ix, Reflects(ix, n, J),
         NEW u \in Book, n[u] < Len(J[u]), NEW q, Follows(ix, J[u][n[u] + 1], q),
         NEW m, m = [n EXCEPT ![u] = n[u] + 1]
  PROVE  Within(J, m) /\ Reflects(q, m, J)
  <1> DEFINE t == J[u][n[u] + 1]
  <1>1. /\ n \in [Book -> Nat] /\ (\A v \in Book : n[v] <= Len(J[v]) /\ Len(J[v]) \in Nat)
        /\ J \in [Book -> Seq(Bound)]
    BY DEF Within, Filed
  <1>2. m \in [Book -> Nat] /\ m[u] = n[u] + 1 /\ \A v \in Book : v # u => m[v] = n[v] BY <1>1
  <1>3. Within(J, m) BY <1>1, <1>2 DEF Within
  <1>4. m[u] \in 1..Len(J[u]) /\ t = J[u][m[u]] /\ t \in Bound
    <2>1. n[u] + 1 \in 1..Len(J[u]) BY <1>1
    <2>2. J[u] \in Seq(Bound) BY <1>1
    <2> QED BY <1>2, <2>1, <2>2
  <1>5. t.cmd.u = u /\ t.seq = m[u] BY <1>4 DEF Filed
  <1>6. RecOf(t).u = u /\ RecOf(t).seq = m[u] /\ RecOf(t).id = Places(t) BY <1>5 DEF RecOf
  <1>7. Follows(ix, t, q) OBVIOUS
  <1> HIDE DEF t
  <1>8. Names(q, m, J)
    <2> SUFFICES ASSUME NEW ak \in Account \X Key, q.map[ak] # None
                 PROVE  /\ q.map[ak].u \in Book /\ q.map[ak].seq \in 1..m[q.map[ak].u]
                        /\ OpensUnder(J[q.map[ak].u][q.map[ak].seq], ak)
                        /\ Places(J[q.map[ak].u][q.map[ak].seq]) = q.map[ak].id
      BY DEF Names
    <2>1. CASE OpensUnder(t, ak)
      <3>1. q.map[ak] = RecOf(t) BY <1>7, <2>1 DEF Follows
      <3>2. m[u] \in 1..m[u] BY <1>2, <1>4
      <3>3. q.map[ak].u = u /\ q.map[ak].seq = m[u] /\ q.map[ak].id = Places(t) BY <1>6, <3>1
      <3> QED BY <1>4, <2>1, <3>2, <3>3
    <2>2. CASE ~ OpensUnder(t, ak)
      <3>1. ~ Rebinds(t, ak) BY <1>7, <2>2 DEF Follows
      <3>2. q.map[ak] = ix.map[ak] BY <1>7, <3>1 DEF Follows
      <3>3. /\ ix.map[ak].u \in Book /\ ix.map[ak].seq \in 1..n[ix.map[ak].u]
            /\ OpensUnder(J[ix.map[ak].u][ix.map[ak].seq], ak)
            /\ Places(J[ix.map[ak].u][ix.map[ak].seq]) = ix.map[ak].id
        BY <3>2 DEF Reflects, Names
      <3>4. \A v \in Book : 1..n[v] \subseteq 1..m[v] BY <1>1, <1>2
      <3> QED BY <3>2, <3>3, <3>4
    <2> QED BY <2>1, <2>2
  <1>9. Stands(q, m, J)
    <2> SUFFICES ASSUME ~ q.lost, NEW ak \in Account \X Key, NEW v \in Book, NEW i \in Nat,
                        Alone(ak, v, m, J), LastAt(ak, v, i, m, J)
                 PROVE  q.map[ak] = Meant(J[v][i], ak)
      BY DEF Stands
    <2>1. CASE Rebinds(t, ak)
      <3>1. v = u
        <4>1. m[u] \in 1..m[u] BY <1>2, <1>4
        <4> QED BY <1>4, <2>1, <4>1 DEF Alone
      <3>2. i = m[u]
        <4>1. m[u] \in 1..m[u] /\ i \in 1..m[u] BY <1>2, <1>4, <3>1 DEF LastAt
        <4>2. ~ (m[u] > i) BY <1>4, <2>1, <3>1, <4>1 DEF LastAt
        <4> QED BY <1>2, <4>1, <4>2
      <3>3. q.map[ak] = IF OpensUnder(t, ak) THEN RecOf(t) ELSE None
        BY <1>7, <2>1 DEF Follows
      <3> QED BY <1>4, <3>1, <3>2, <3>3 DEF Meant
    <2>2. CASE ~ Rebinds(t, ak)
      <3>1. q.map[ak] = ix.map[ak] /\ ~ ix.lost BY <1>7, <2>2 DEF Follows
      <3>2. \A w \in Book : 1..n[w] \subseteq 1..m[w] BY <1>1, <1>2
      <3>3. Alone(ak, v, n, J) BY <3>2 DEF Alone
      <3>4. i \in 1..n[v]
        <4>1. i \in 1..m[v] /\ Rebinds(J[v][i], ak) BY DEF LastAt
        <4>2. CASE v = u
          <5>1. i # m[u] BY <1>4, <2>2, <4>1, <4>2
          <5> QED BY <1>1, <1>2, <4>1, <4>2, <5>1
        <4> QED BY <1>2, <4>1, <4>2
      <3>5. LastAt(ak, v, i, n, J)
        <4>1. Rebinds(J[v][i], ak) /\ \A j \in 1..m[v] : j > i => ~ Rebinds(J[v][j], ak)
          BY DEF LastAt
        <4> QED BY <3>2, <3>4, <4>1 DEF LastAt
      <3>6. ix.map[ak] = Meant(J[v][i], ak)
        BY <3>1, <3>3, <3>5 DEF Reflects, Stands
      <3> QED BY <3>1, <3>6
    <2> QED BY <2>1, <2>2
  <1>10. q \in IndexState /\ CountOK(q) BY <1>7 DEF Follows
  <1> QED BY <1>3, <1>8, <1>9, <1>10 DEF Reflects

\* Only the turns counted by n matter.
LEMMA ReflectsAgree ==
  ASSUME NEW J, NEW K, NEW n, NEW ix, Reflects(ix, n, J),
         \A u \in Book : \A i \in 1..n[u] : K[u][i] = J[u][i]
  PROVE  Reflects(ix, n, K)
  <1>1. Names(ix, n, K) BY DEF Reflects, Names
  <1>2. Stands(ix, n, K)
    <2> SUFFICES ASSUME ~ ix.lost, NEW ak \in Account \X Key, NEW v \in Book, NEW i \in Nat,
                        Alone(ak, v, n, K), LastAt(ak, v, i, n, K)
                 PROVE  ix.map[ak] = Meant(K[v][i], ak)
      BY DEF Stands
    <2>1. Alone(ak, v, n, J) BY DEF Alone
    <2>2. i \in 1..n[v] /\ Rebinds(K[v][i], ak) /\ \A j \in 1..n[v] : j > i => ~ Rebinds(K[v][j], ak)
      BY DEF LastAt
    <2>3. LastAt(ak, v, i, n, J) BY <2>2 DEF LastAt
    <2> QED BY <2>1, <2>2, <2>3 DEF Reflects, Stands
  <1> QED BY <1>1, <1>2 DEF Reflects
-----------------------------------------------------------------------------
(* The index rebuilt at boot.                                               *)

Sound == {ix \in IndexState : CountOK(ix)}

\* f is a run of the turns of s, from ix.
TurnRun(f, ix, s) ==
    f \in [0..Len(s) -> Sound] /\ f[0] = ix /\ \A k \in 1..Len(s) : f[k] = ApplyCommitted(f[k - 1], s[k])

LEMMA ReplayRuns ==
  ASSUME NEW s \in Seq(Bound), NEW ix \in Sound
  PROVE  \E f : TurnRun(f, ix, s) /\ Replay(ix, s) = f[Len(s)]
  <1> DEFINE N == Len(s)
             F == [p \in Sound \X (1..N) |-> ApplyCommitted(p[1], s[p[2]])]
             IsRun(f) == f = [n \in 0..N |-> IF n = 0 THEN ix ELSE ApplyCommitted(f[n - 1], s[n])]
  <1>1. N \in Nat OBVIOUS
  <1>2. \A k \in 1..N : s[k] \in Bound OBVIOUS
  <1>3. \A x \in Sound, k \in 1..N : <<x, k>> \in Sound \X (1..N) /\ F[<<x, k>>] = ApplyCommitted(x, s[k])
    OBVIOUS
  <1>4. F \in [Sound \X (1..N) -> Sound]
    <2>1. ASSUME NEW p \in Sound \X (1..N) PROVE ApplyCommitted(p[1], s[p[2]]) \in Sound
      <3>1. p[1] \in Sound /\ p[2] \in 1..N OBVIOUS
      <3>2. p[1] \in IndexState /\ CountOK(p[1]) /\ s[p[2]] \in Bound BY <1>2, <3>1 DEF Sound
      <3>3. Follows(p[1], s[p[2]], ApplyCommitted(p[1], s[p[2]])) BY <3>2, ApplyFollows
      <3> QED BY <3>3 DEF Follows, Sound
    <2> QED BY <2>1
  <1> HIDE DEF F, N
  <1>5. PICK g : Unrolls(g, N, Sound, F, ix) BY <1>1, <1>4, RunsOn
  <1>6. g \in [0..N -> Sound] /\ g[0] = ix /\ \A k \in 1..N : g[k] = F[<<g[k - 1], k>>]
    BY <1>5 DEF Unrolls
  <1>7. ASSUME NEW k \in 1..N PROVE g[k] = ApplyCommitted(g[k - 1], s[k])
    <2>1. k - 1 \in 0..N BY <1>1
    <2>2. g[k - 1] \in Sound BY <1>6, <2>1
    <2> QED BY <1>3, <1>6, <2>2
  <1>8. IsRun(g)
    <2> DEFINE h == [n \in 0..N |-> IF n = 0 THEN ix ELSE ApplyCommitted(g[n - 1], s[n])]
    <2>1. \A n \in 0..N : g[n] = h[n]
      <3>1. ASSUME NEW n \in 0..N PROVE g[n] = h[n]
        <4>1. CASE n = 0 BY <1>6, <4>1
        <4>2. CASE n # 0
          <5>1. n \in 1..N BY <1>1, <4>2
          <5> QED BY <1>7, <4>2, <5>1
        <4> QED BY <4>1, <4>2
      <3> QED BY <3>1
    <2>2. g = [n \in 0..N |-> g[n]] BY <1>6
    <2> QED BY <2>1, <2>2
  <1> DEFINE f == CHOOSE f : IsRun(f)
  <1>9. Replay(ix, s) = f[N] BY DEF Replay, N
  <1>10. IsRun(f) BY <1>8
  <1> HIDE DEF f, IsRun
  <1>11. f = [n \in 0..N |-> IF n = 0 THEN ix ELSE ApplyCommitted(f[n - 1], s[n])] BY <1>10 DEF IsRun
  <1>12. DOMAIN f = 0..N /\ f[0] = ix /\ \A k \in 1..N : f[k] = ApplyCommitted(f[k - 1], s[k])
    <2>1. \A n \in 0..N : f[n] = IF n = 0 THEN ix ELSE ApplyCommitted(f[n - 1], s[n]) BY <1>11
    <2>2. 0 \in 0..N /\ \A k \in 1..N : k \in 0..N /\ k # 0 BY <1>1
    <2>3. DOMAIN f = 0..N BY <1>11
    <2> QED BY <2>1, <2>2, <2>3
  <1>13. f = g
    <2> DEFINE T == {k \in 0..N : f[k] = g[k]}
    <2>1. 0 \in T BY <1>1, <1>6, <1>12
    <2>2. ASSUME NEW k \in 0..N, k \in T, k < N PROVE k + 1 \in T
      <3>1. k + 1 \in 1..N /\ (k + 1) - 1 = k /\ k + 1 \in 0..N BY <1>1, <2>2
      <3> QED BY <1>7, <1>12, <2>2, <3>1
    <2> HIDE DEF T
    <2>3. \A k \in 0..N : k \in T BY <1>1, <2>1, <2>2, Climb
    <2>4. \A k \in 0..N : f[k] = g[k] BY <2>3 DEF T
    <2>5. f = [k \in 0..N |-> f[k]] /\ g = [k \in 0..N |-> g[k]] BY <1>6, <1>11
    <2> QED BY <2>4, <2>5
  <1>14. TurnRun(g, ix, s) BY <1>6, <1>7 DEF TurnRun, N
  <1> QED BY <1>9, <1>13, <1>14 DEF N

LEMMA ReplayReflects ==
  ASSUME NEW J, Filed(J), NEW n, Within(J, n), NEW u \in Book, n[u] = 0,
         NEW ix, Reflects(ix, n, J), NEW m, m = [n EXCEPT ![u] = Len(J[u])]
  PROVE  Within(J, m) /\ Reflects(Replay(ix, J[u]), m, J)
  <1> DEFINE N == Len(J[u])
             s == J[u]
             upTo(k) == [n EXCEPT ![u] = k]
  <1>1. J \in [Book -> Seq(Bound)] /\ n \in [Book -> Nat] BY DEF Filed, Within
  <1>2. s \in Seq(Bound) /\ N \in Nat BY <1>1
  <1>3. ix \in Sound BY DEF Reflects, Sound
  <1>4. PICK f : TurnRun(f, ix, s) /\ Replay(ix, s) = f[N] BY <1>2, <1>3, ReplayRuns
  <1>5. f \in [0..N -> Sound] /\ f[0] = ix /\ \A k \in 1..N : f[k] = ApplyCommitted(f[k - 1], s[k])
    BY <1>4 DEF TurnRun
  <1> DEFINE T == {k \in 0..N : Within(J, upTo(k)) /\ Reflects(f[k], upTo(k), J)}
  <1>6. 0 \in T
    <2>1. upTo(0) = n BY <1>1
    <2>2. f[0] = ix BY <1>5
    <2>3. Within(J, upTo(0)) /\ Reflects(f[0], upTo(0), J) BY <2>1, <2>2, Zenon
    <2>4. 0 \in 0..N BY <1>2
    <2> QED BY <2>3, <2>4, Zenon
  <1>7. ASSUME NEW k \in 0..N, k \in T, k < N PROVE k + 1 \in T
    <2> DEFINE w == upTo(k)
               y == f[k]
    <2>1. Within(J, w) /\ Reflects(y, w, J) BY <1>7
    <2>2. w[u] = k /\ upTo(k + 1) = [w EXCEPT ![u] = w[u] + 1] BY <1>1
    <2>3. k + 1 \in 1..N /\ (k + 1) - 1 = k /\ k + 1 \in 0..N BY <1>2, <1>7
    <2>4. f[k + 1] = ApplyCommitted(y, J[u][w[u] + 1]) BY <1>5, <2>2, <2>3
    <2>5. y \in IndexState /\ CountOK(y) BY <2>1 DEF Reflects
    <2>6. J[u][w[u] + 1] \in Bound BY <1>2, <2>2, <2>3
    <2>7. w[u] < Len(J[u]) BY <1>7, <2>2
    <2>8. Follows(y, J[u][w[u] + 1], f[k + 1])
      BY <2>4, <2>5, <2>6, ApplyFollows
    <2> DEFINE z == upTo(k + 1)
               q == f[k + 1]
    <2>9. z = [w EXCEPT ![u] = w[u] + 1] /\ Follows(y, J[u][w[u] + 1], q) BY <2>2, <2>8
    <2> HIDE DEF w, y, z, q
    <2>10. Within(J, z) /\ Reflects(q, z, J) BY <2>1, <2>7, <2>9, ReflectsNext
    <2> QED BY <2>3, <2>10 DEF z, q
  <1>8. m = upTo(N) OBVIOUS
  <1> HIDE DEF T
  <1>9. \A k \in 0..N : k \in T BY <1>2, <1>6, <1>7, Climb
  <1>10. N \in T BY <1>2, <1>9
  <1> QED BY <1>4, <1>8, <1>10 DEF T

\* The turns of the first k underlyings recovery has walked.
Walked(k, J) ==
    [u \in Book |-> IF \E i \in 1..k : Underlying[i] = u THEN Len(J[u]) ELSE 0]

LEMMA NothingReflected ==
  ASSUME NEW J, Filed(J)
  PROVE  Within(J, Walked(0, J)) /\ Reflects(EmptyIndex, Walked(0, J), J) /\ EmptyIndex \in Sound
  <1>1. J \in [Book -> Seq(Bound)] /\ \A u \in Book : Len(J[u]) \in Nat BY DEF Filed
  <1>2. Walked(0, J) \in [Book -> Nat] /\ \A u \in Book : Walked(0, J)[u] = 0 BY DEF Walked
  <1>3. Within(J, Walked(0, J)) BY <1>1, <1>2 DEF Within
  <1>4. EmptyIndex \in IndexState /\ (\A ak \in Account \X Key : EmptyIndex.map[ak] = None)
        /\ EmptyIndex.map \in [Account \X Key -> {None}] /\ (\A a \in Account : EmptyIndex.count[a] = 0)
    BY DEF EmptyIndex, IndexState
  <1>5. Entries(EmptyIndex.map) = {} /\ \A a : Mine(EmptyIndex.map, a) = {}
    BY <1>4 DEF Entries, Mine
  <1>6. CountOK(EmptyIndex)
    <2>1. IsFiniteSet({}) /\ Cardinality({}) = 0 BY FS_EmptySet
    <2>2. MaxEntries \in Nat /\ MaxPerAccount \in Nat BY Ceilings
    <2> QED BY <1>4, <1>5, <2>1, <2>2 DEF CountOK
  <1>7. Names(EmptyIndex, Walked(0, J), J) BY <1>4 DEF Names
  <1>8. Stands(EmptyIndex, Walked(0, J), J)
    <2>1. \A u \in Book : 1..Walked(0, J)[u] = {} BY <1>2
    <2> QED BY <2>1 DEF Stands, LastAt
  <1> QED BY <1>3, <1>4, <1>6, <1>7, <1>8 DEF Reflects, Sound

LEMMA ReplayIsSound ==
  ASSUME NEW s \in Seq(Bound), NEW ix \in Sound
  PROVE  Replay(ix, s) \in Sound
  <1>1. PICK f : TurnRun(f, ix, s) /\ Replay(ix, s) = f[Len(s)] BY ReplayRuns
  <1>2. f \in [0..Len(s) -> Sound] BY <1>1 DEF TurnRun
  <1>3. Len(s) \in 0..Len(s) OBVIOUS
  <1> QED BY <1>1, <1>2, <1>3

LEMMA RebuiltRuns ==
  ASSUME Filed(journal)
  PROVE  \E f : /\ f \in [0..Len(Underlying) -> Sound] /\ f[0] = EmptyIndex
                /\ \A k \in 1..Len(Underlying) : f[k] = Replay(f[k - 1], journal[Underlying[k]])
                /\ Rebuilt = f[Len(Underlying)]
  <1> DEFINE N == Len(Underlying)
             F == [p \in Sound \X (1..N) |-> Replay(p[1], journal[Underlying[p[2]]])]
             IsRun(f) == f = [n \in 0..N |-> IF n = 0 THEN EmptyIndex
                                             ELSE Replay(f[n - 1], journal[Underlying[n]])]
  <1>1. N \in Nat BY Listing
  <1>2. \A k \in 1..N : Underlying[k] \in Book /\ journal[Underlying[k]] \in Seq(Bound)
    <2>1. \A k \in 1..N : Underlying[k] \in Book BY Listing
    <2> QED BY <2>1 DEF Filed
  <1>3. \A x \in Sound, k \in 1..N :
          <<x, k>> \in Sound \X (1..N) /\ F[<<x, k>>] = Replay(x, journal[Underlying[k]])
    OBVIOUS
  <1>4. F \in [Sound \X (1..N) -> Sound]
    <2>1. ASSUME NEW p \in Sound \X (1..N) PROVE Replay(p[1], journal[Underlying[p[2]]]) \in Sound
      <3>1. p[1] \in Sound /\ p[2] \in 1..N OBVIOUS
      <3>2. journal[Underlying[p[2]]] \in Seq(Bound) BY <1>2, <3>1
      <3> QED BY <3>1, <3>2, ReplayIsSound
    <2> QED BY <2>1
  <1>e. EmptyIndex \in Sound BY NothingReflected
  <1> HIDE DEF F, N
  <1>5. PICK g : Unrolls(g, N, Sound, F, EmptyIndex) BY <1>1, <1>4, <1>e, RunsOn
  <1>6. g \in [0..N -> Sound] /\ g[0] = EmptyIndex /\ \A k \in 1..N : g[k] = F[<<g[k - 1], k>>]
    BY <1>5 DEF Unrolls
  <1>7. ASSUME NEW k \in 1..N PROVE g[k] = Replay(g[k - 1], journal[Underlying[k]])
    <2>1. k - 1 \in 0..N BY <1>1
    <2>2. g[k - 1] \in Sound BY <1>6, <2>1
    <2> QED BY <1>3, <1>6, <2>2
  <1>8. IsRun(g)
    <2> DEFINE h == [n \in 0..N |-> IF n = 0 THEN EmptyIndex ELSE Replay(g[n - 1], journal[Underlying[n]])]
    <2>1. \A n \in 0..N : g[n] = h[n]
      <3>1. ASSUME NEW n \in 0..N PROVE g[n] = h[n]
        <4>1. CASE n = 0 BY <1>6, <4>1
        <4>2. CASE n # 0
          <5>1. n \in 1..N BY <1>1, <4>2
          <5> QED BY <1>7, <4>2, <5>1
        <4> QED BY <4>1, <4>2
      <3> QED BY <3>1
    <2>2. g = [n \in 0..N |-> g[n]] BY <1>6
    <2> QED BY <2>1, <2>2
  <1> DEFINE f == CHOOSE f : IsRun(f)
  <1>9. Rebuilt = f[N] BY DEF Rebuilt, N
  <1>10. IsRun(f) BY <1>8
  <1> HIDE DEF f, IsRun
  <1>11. f = [n \in 0..N |-> IF n = 0 THEN EmptyIndex ELSE Replay(f[n - 1], journal[Underlying[n]])]
    BY <1>10 DEF IsRun
  <1>12. f[0] = EmptyIndex /\ \A k \in 1..N : f[k] = Replay(f[k - 1], journal[Underlying[k]])
    <2>1. \A n \in 0..N : f[n] = IF n = 0 THEN EmptyIndex ELSE Replay(f[n - 1], journal[Underlying[n]])
      BY <1>11
    <2>2. 0 \in 0..N /\ \A k \in 1..N : k \in 0..N /\ k # 0 BY <1>1
    <2> QED BY <2>1, <2>2
  <1>13. f = g
    <2> DEFINE T == {k \in 0..N : f[k] = g[k]}
    <2>1. 0 \in T BY <1>1, <1>6, <1>12
    <2>2. ASSUME NEW k \in 0..N, k \in T, k < N PROVE k + 1 \in T
      <3>1. k + 1 \in 1..N /\ (k + 1) - 1 = k /\ k + 1 \in 0..N BY <1>1, <2>2
      <3> QED BY <1>7, <1>12, <2>2, <3>1
    <2> HIDE DEF T
    <2>3. \A k \in 0..N : k \in T BY <1>1, <2>1, <2>2, Climb
    <2>4. \A k \in 0..N : f[k] = g[k] BY <2>3 DEF T
    <2>5. f = [k \in 0..N |-> f[k]] /\ g = [k \in 0..N |-> g[k]] BY <1>6, <1>11
    <2> QED BY <2>4, <2>5
  <1> QED BY <1>6, <1>7, <1>9, <1>13 DEF N

\* Every turn of every journal.
AllOf(J) == [u \in Book |-> Len(J[u])]

LEMMA RebuiltReflects ==
  ASSUME Filed(journal)
  PROVE  Within(journal, AllOf(journal)) /\ Reflects(Rebuilt, AllOf(journal), journal)
  <1> DEFINE N == Len(Underlying)
  <1>1. /\ N \in Nat /\ (\A k \in 1..N : Underlying[k] \in Book)
        /\ \A i, j \in 1..N : Underlying[i] = Underlying[j] => i = j
    <2>1. DOMAIN Underlying = 1..N /\ N \in Nat BY Listing
    <2>2. \A i, j \in 1..N : Underlying[i] = Underlying[j] => i = j
      BY <2>1, Listing DEF IsInjective
    <2> QED BY <2>1, <2>2, Listing
  <1>2. \A u \in Book : Len(journal[u]) \in Nat BY DEF Filed
  <1>3. PICK f : /\ f \in [0..N -> Sound] /\ f[0] = EmptyIndex
                 /\ \A k \in 1..N : f[k] = Replay(f[k - 1], journal[Underlying[k]])
                 /\ Rebuilt = f[N]
    BY RebuiltRuns
  <1> DEFINE T == {k \in 0..N : /\ Within(journal, Walked(k, journal))
                                /\ Reflects(f[k], Walked(k, journal), journal)}
  <1>4. 0 \in T
    <2>1. Within(journal, Walked(0, journal)) /\ Reflects(f[0], Walked(0, journal), journal)
      BY <1>3, NothingReflected
    <2>2. 0 \in 0..N BY <1>1
    <2> QED BY <2>1, <2>2, Zenon
  <1>5. ASSUME NEW k \in 0..N, k \in T, k < N PROVE k + 1 \in T
    <2> DEFINE w == Walked(k, journal)
               z == Walked(k + 1, journal)
               u == Underlying[k + 1]
               y == f[k]
               q == f[k + 1]
    <2>1. k + 1 \in 1..N /\ (k + 1) - 1 = k /\ k + 1 \in 0..N /\ k \in Nat BY <1>1, <1>5
    <2>2. u \in Book BY <1>1, <2>1
    <2>3. Within(journal, w) /\ Reflects(y, w, journal) BY <1>5
    <2>4. \A v \in Book : w[v] = IF \E i \in 1..k : Underlying[i] = v THEN Len(journal[v]) ELSE 0
      BY DEF Walked
    <2>5. w[u] = 0
      <3>1. ~ \E i \in 1..k : Underlying[i] = u BY <1>1, <2>1
      <3> QED BY <2>2, <2>4, <3>1
    <2>6. \A v \in Book : z[v] = IF \E i \in 1..(k + 1) : Underlying[i] = v THEN Len(journal[v]) ELSE 0
      BY DEF Walked
    <2>7. \A v \in Book : (\E i \in 1..(k + 1) : Underlying[i] = v)
                             <=> v = u \/ \E i \in 1..k : Underlying[i] = v
      <3>1. \A i : i \in 1..(k + 1) <=> i = k + 1 \/ i \in 1..k BY <2>1
      <3> QED BY <3>1
    <2>8. w \in [Book -> Nat] /\ z \in [Book -> Nat] BY <1>2 DEF Walked
    <2>9. z = [w EXCEPT ![u] = Len(journal[u])]
      <3>1. \A v \in Book : z[v] = IF v = u THEN Len(journal[u]) ELSE w[v] BY <2>4, <2>6, <2>7
      <3> QED BY <2>8, <3>1
    <2>10. q = Replay(y, journal[u]) BY <1>3, <2>1
    <2> HIDE DEF w, z, u, y, q
    <2>11. Within(journal, z) /\ Reflects(q, z, journal)
      BY <2>2, <2>3, <2>5, <2>9, <2>10, ReplayReflects
    <2> QED BY <2>1, <2>11 DEF z, q
  <1> HIDE DEF T
  <1>6. \A k \in 0..N : k \in T BY <1>1, <1>4, <1>5, Climb
  <1>7. N \in T BY <1>1, <1>6
  <1>8. Walked(N, journal) = AllOf(journal)
    <2>1. \A u \in Book : \E i \in 1..N : Underlying[i] = u
      BY Listing DEF Book, Range
    <2>2. \A u \in Book : Walked(N, journal)[u] = AllOf(journal)[u] BY <2>1 DEF Walked, AllOf
    <2> QED BY <2>1 DEF Walked, AllOf
  <1> QED BY <1>3, <1>7, <1>8 DEF T
-----------------------------------------------------------------------------
(* The inductive invariant.                                                 *)

Cmd == AddCmd \cup ReplaceCmd \cup CancelCmd \cup SweepCmd
Out == [is : {"entered", "rejected", "cancelled", "replaced", "cancelled only"}]
         \cup [is : {"duplicate"}, id : OrderId, seq : Nat, terminal : {"entered", "rejected"}]
         \cup [is : {"swept"}, ids : SUBSET OrderId]
TurnRec == [cmd : Cmd, account : Account, seq : Nat \ {0}, out : Out]

IdleReq == [pc : {"idle"}]
BatchReq == [pc : {"batch"}, batch : BatchState]
LiveReq == [pc : {"sent", "ran"}, cmd : Cmd, turn : TurnRec \cup {NoTurn}, batch : BatchState \cup {None}]
RequestState == IdleReq \cup BatchReq \cup LiveReq

TrackedOrder == [u : Book, id : OrderId, qty : Qty]

CoreTypes(B, M, I, Z, N, R) ==
    /\ B \in [Book -> SUBSET Nat] /\ M \in [Book -> SUBSET Nat]
    /\ I \in [Book -> [Account \X Key -> Idempotent \cup {None}]]
    /\ Z \in SUBSET Book /\ N \in 0..MaxOrders
    /\ R \in [Client -> RequestState]

\* The i-th turn of u opened the order id under ak.
Opened(J, u, i, ak, id) == i \in 1..Len(J[u]) /\ OpensUnder(J[u][i], ak) /\ Places(J[u][i]) = id

\* No other turn of u placed an order of the id that turn s placed.
Lone(J, u, s) == \A j \in 1..Len(J[u]) : j # s => Places(J[u][j]) # Places(J[u][s])

\* The outcome leaves an order in place of nothing.
Opens(out) == out.is # "cancelled only"

\* What rests was placed by a turn that entered it, and its id reaches it when no other
\* order of the underlying had the id.
PlacedOK(J, B, M) ==
    \A u \in Book :
      /\ \A s \in M[u] : s \in B[u]
      /\ \A s \in B[u] : /\ s \in 1..Len(J[u]) /\ Opens(J[u][s].out)
                         /\ Lone(J, u, s) => s \in M[u]

\* The idempotency maps remember the first placement under a key.
IdemOK(J, I) ==
    /\ \A u \in Book : \A i \in 1..Len(J[u]) :
         J[u][i].cmd.op = "add" /\ J[u][i].cmd.key # None =>
           /\ I[u][<<J[u][i].account, J[u][i].cmd.key>>] # None
           /\ I[u][<<J[u][i].account, J[u][i].cmd.key>>].seq = i
    /\ \A u \in Book : \A ak \in Account \X Key :
         I[u][ak] # None /\ I[u][ak].terminal = "entered" => Opened(J, u, I[u][ak].seq, ak, I[u][ak].id)

ToldOK(J, X) ==
    \A x \in X : x.out = "entered" =>
      /\ x.u \in Book /\ x.key \in Key /\ x.account \in Account
      /\ Opened(J, x.u, x.seq, <<x.account, x.key>>, x.id)

\* A command that has run: its turn, and what a duplicate repeats.
RanOK(J, R) ==
    /\ \A c \in Client : R[c].pc = "ran" =>
         /\ R[c].turn \in TurnRec /\ R[c].turn.cmd = R[c].cmd /\ R[c].turn.account = AccountOf[c]
         /\ R[c].cmd.op = "add" => R[c].turn.out.is \in {"entered", "rejected", "duplicate"}
         /\ R[c].turn.out.is = "duplicate" /\ R[c].turn.out.terminal = "entered" =>
              Opened(J, R[c].cmd.u, R[c].turn.out.seq, <<AccountOf[c], R[c].cmd.key>>, R[c].turn.out.id)
    /\ \A c, d \in Client : R[c].pc = "ran" /\ R[d].pc = "ran" /\ R[c].cmd.u = R[d].cmd.u => c = d

\* The index has seen the first n[u] turns of u: all, or all but the one that is being
\* published or that sealed the underlying.
PublishedTo(n, J, R, Z) ==
    /\ Within(J, n)
    /\ \A u \in Book : Len(J[u]) <= n[u] + 1
    /\ \A u \in Book : n[u] # Len(J[u]) => u \in Z \/ \E c \in Client : R[c].pc = "ran" /\ R[c].cmd.u = u
    /\ \A c \in Client : R[c].pc = "ran" =>
         /\ R[c].cmd.u \notin Z
         /\ Binding(R[c].turn.out) => /\ n[R[c].cmd.u] + 1 = Len(J[R[c].cmd.u])
                                      /\ R[c].turn = J[R[c].cmd.u][Len(J[R[c].cmd.u])]
         /\ ~ Binding(R[c].turn.out) => n[R[c].cmd.u] = Len(J[R[c].cmd.u])

IndexOK(J, R, Z, ix) == \E n : PublishedTo(n, J, R, Z) /\ Reflects(ix, n, J)

\* Requests and their identities.
Waiting(r) == r.pc \in {"sent", "ran"}
InBatch(r) == r.pc = "batch" \/ (Waiting(r) /\ r.batch # None)

\* The request r answers for the identity x on u.
Claims(r, x, u) ==
    \/ Waiting(r) /\ r.cmd.u = u /\ Places(r) = x
    \/ InBatch(r) /\ \E k \in 1..Len(r.batch.ids) : r.batch.ids[k].u = u /\ r.batch.ids[k].id = x

\* An identity of this process belongs to one request.
ClaimsOK(R, N) ==
    \A c \in Client, x \in OrderId, u \in Book : Claims(R[c], x, u) =>
      /\ x \in 1..N
      /\ \A d \in Client, v \in Book : Claims(R[d], x, v) => d = c /\ v = u

\* A batch places until it is aborted, and rolls back from then on.
BatchFits(r) ==
    InBatch(r) =>
      /\ r.batch.undo <= Len(r.batch.ids)
      /\ ~ r.batch.aborted => r.batch.undo = 0
      /\ Waiting(r) => \/ /\ r.cmd.op = "add" /\ ~ r.batch.aborted
                          /\ \A k \in 1..Len(r.batch.ids) : r.batch.ids[k].id # r.cmd.id
                       \/ /\ r.cmd.op = "cancel" /\ r.batch.aborted /\ r.batch.undo \in 1..Len(r.batch.ids)
                          /\ r.cmd.u = r.batch.ids[r.batch.undo].u
                          /\ r.cmd.id = r.batch.ids[r.batch.undo].id

\* The item e of a batch of account a: the turn that entered it, the last one with its id.
Received(J, a, e) ==
    e.seq # 0 => /\ e.seq \in 1..Len(J[e.u]) /\ Places(J[e.u][e.seq]) = e.id
                 /\ J[e.u][e.seq].account = a
                 /\ \A j \in 1..Len(J[e.u]) : j > e.seq => Places(J[e.u][j]) # e.id

\* The order of turn s of u is off the book, or an older order had its id.
Off(J, B, u, s) == s \in B[u] => \E j \in 1..(s - 1) : Places(J[u][j]) = Places(J[u][s])

\* How far the roll-back has come.
UndoneTo(r) == IF r.pc = "sent" THEN r.batch.undo - 1 ELSE r.batch.undo
ItemsOK(J, c, b) == \A k \in 1..Len(b.ids) : Received(J, AccountOf[c], b.ids[k])
ReceiptsOK(J, c, r, B) ==
    /\ InBatch(r) => ItemsOK(J, c, r.batch)
    /\ InBatch(r) /\ r.batch.aborted /\ ~ r.batch.warned =>
         \A k \in 1..UndoneTo(r) : Off(J, B, r.batch.ids[k].u, r.batch.ids[k].seq)

BatchOK(J, R, B) == \A c \in Client : BatchFits(R[c]) /\ ReceiptsOK(J, c, R[c], B)

UndoneOK(J, B, U) ==
    /\ U \in SUBSET (Book \X Nat)
    /\ \A x \in U : x[2] <= Len(J[x[1]]) /\ Off(J, B, x[1], x[2])

\* What a session tracks is bounded.
SessionsOK(P) ==
    /\ P \in [Fix -> [Key -> TrackedOrder \cup {None}]]
    /\ \A f \in Fix : /\ IsFiniteSet({k \in Key : P[f][k] # None})
                      /\ Cardinality({k \in Key : P[f][k] # None}) <= MaxTracked

\* The venue and the requests: journals J, books B, the orders M reached by their id,
\* idempotency maps I, sealed underlyings Z, requests R, N identities minted, U rolled
\* back, index ix.
Core(J, B, M, I, Z, R, N, U, ix) ==
    /\ CoreTypes(B, M, I, Z, N, R) /\ Filed(J)
    /\ PlacedOK(J, B, M) /\ IdemOK(J, I) /\ RanOK(J, R) /\ IndexOK(J, R, Z, ix)
    /\ ClaimsOK(R, N) /\ BatchOK(J, R, B) /\ UndoneOK(J, B, U)

IndexNow == [map |-> index, count |-> count, lost |-> lost]

FlowInv ==
    /\ Core(journal, resting, named, idem, sealed, req, minted, undone, IndexNow)
    /\ ToldOK(journal, told) /\ SessionsOK(placed)
-----------------------------------------------------------------------------
(* What the invariant says.                                                 *)

LEMMA RequestShape ==
  ASSUME NEW r \in RequestState
  PROVE  /\ r.pc \in {"idle", "batch", "sent", "ran"}
         /\ r.pc = "idle" => r = Idle
         /\ r.pc = "batch" => r \in BatchReq /\ r.batch \in BatchState
         /\ Waiting(r) => /\ r \in LiveReq /\ r.cmd \in Cmd /\ r.turn \in TurnRec \cup {NoTurn}
                          /\ r.batch \in BatchState \cup {None}
         /\ InBatch(r) => r.batch \in BatchState
  BY DEF RequestState, IdleReq, BatchReq, LiveReq, Waiting, InBatch, Idle

LEMMA IndexShape ==
  ASSUME NEW i, NEW n, NEW l, [map |-> i, count |-> n, lost |-> l] \in IndexState
  PROVE  i \in [Account \X Key -> IndexRecord \cup {None}] /\ n \in [Account -> Nat] /\ l \in BOOLEAN
  BY DEF IndexState

LEMMA CountsFollow ==
  ASSUME FlowInv
  PROVE  FlowTypeOK /\ CountsAreExact
  <1>1. CoreTypes(resting, named, idem, sealed, minted, req) /\ PlacedOK(journal, resting, named)
        /\ UndoneOK(journal, resting, undone) /\ SessionsOK(placed) /\ IndexOK(journal, req, sealed, IndexNow)
    BY DEF FlowInv, Core
  <1>2. PICK n : PublishedTo(n, journal, req, sealed) /\ Reflects(IndexNow, n, journal)
    BY <1>1 DEF IndexOK
  <1>3. IndexNow \in IndexState /\ CountOK(IndexNow) BY <1>2 DEF Reflects
  <1>4. /\ index \in [Account \X Key -> IndexRecord \cup {None}]
        /\ count \in [Account -> Nat] /\ lost \in BOOLEAN
    BY <1>3, IndexShape DEF IndexNow
  <1>5. \A u \in Book : named[u] \subseteq resting[u] /\ resting[u] \subseteq 1..Len(journal[u])
    BY <1>1 DEF PlacedOK
  <1>6. \A f \in Fix : Cardinality(Tracked(f)) <= MaxTracked BY <1>1 DEF SessionsOK, Tracked
  <1>7. \A c \in Client : req[c].pc \in {"idle", "sent", "ran", "batch"}
    BY <1>1, RequestShape DEF CoreTypes
  <1>8. sealed \subseteq Book /\ minted \in 0..MaxOrders /\ undone \subseteq Book \X Nat
    BY <1>1 DEF CoreTypes, UndoneOK
  <1>9. FlowTypeOK BY <1>4, <1>5, <1>6, <1>7, <1>8 DEF FlowTypeOK
  <1>10. CountsAreExact BY <1>3 DEF CountsAreExact, CountOK, IndexNow, Mine
  <1> QED BY <1>9, <1>10

LEMMA IndexFollows ==
  ASSUME FlowInv
  PROVE  IndexNamesRealOrders /\ RestingIsReachable
  <1>1. IndexOK(journal, req, sealed, IndexNow) /\ Filed(journal) BY DEF FlowInv, Core
  <1>p. PlacedOK(journal, resting, named) BY DEF FlowInv, Core
  <1>2. PICK n : PublishedTo(n, journal, req, sealed) /\ Reflects(IndexNow, n, journal)
    BY <1>1 DEF IndexOK
  <1>3. IndexNow \in IndexState /\ Names(IndexNow, n, journal) /\ Stands(IndexNow, n, journal)
    BY <1>2 DEF Reflects
  <1>4. /\ index \in [Account \X Key -> IndexRecord \cup {None}] /\ IndexNow.map = index
        /\ IndexNow.lost = lost
    BY <1>3, IndexShape DEF IndexNow
  <1>5. /\ n \in [Book -> Nat] /\ journal \in [Book -> Seq(Bound)]
        /\ \A u \in Book : n[u] <= Len(journal[u]) /\ Len(journal[u]) \in Nat
    BY <1>1, <1>2 DEF PublishedTo, Within, Filed
  <1>6. IndexNamesRealOrders
    <2> SUFFICES ASSUME NEW ak \in Entries(index)
                 PROVE  /\ index[ak].seq <= Len(journal[index[ak].u])
                        /\ OpensUnder(journal[index[ak].u][index[ak].seq], ak)
                        /\ Places(journal[index[ak].u][index[ak].seq]) = index[ak].id
      BY DEF IndexNamesRealOrders
    <2>1. ak \in Account \X Key /\ index[ak] # None BY <1>4 DEF Entries
    <2>2. /\ index[ak].u \in Book /\ index[ak].seq \in 1..n[index[ak].u]
          /\ OpensUnder(journal[index[ak].u][index[ak].seq], ak)
          /\ Places(journal[index[ak].u][index[ak].seq]) = index[ak].id
      BY <1>3, <1>4, <2>1 DEF Names
    <2> QED BY <1>5, <2>2
  <1>a. ASSUME NEW v \in Book, NEW s \in resting[v], OnlyOfItsId(v, s) PROVE s \in named[v]
    <2>1. Lone(journal, v, s) BY <1>a DEF OnlyOfItsId, IdOf, Lone
    <2> QED BY <1>p, <2>1 DEF PlacedOK
  <1>b. ASSUME ~ lost, NEW u \in Book, NEW i \in 1..Len(journal[u]), i \in resting[u], i \notin Unpublished(u),
               NEW t, t = journal[u][i], NEW ak, ak = <<t.account, t.cmd.key>>,
               t.cmd.key # None,
               \A j \in (i + 1)..Len(journal[u]) : ~ Rebinds(journal[u][j], ak),
               \A v \in Book \ {u} : \A s \in Turns(v) : ~ Rebinds(s, ak)
        PROVE  /\ index[ak] # None /\ index[ak].u = u /\ index[ak].seq = i
               /\ index[ak].id = IdOf(u, i)
    <2> USE <1>b
    <2>b. i \in 1..Len(journal[u]) /\ Opens(t.out) BY <1>p DEF PlacedOK
    <2>1. i \in 1..n[u]
      <3>1. CASE n[u] = Len(journal[u]) BY <1>5, <2>b, <3>1
      <3>2. CASE n[u] # Len(journal[u])
        <4>1. u \in sealed \/ Running(u) BY <1>2, <3>2 DEF PublishedTo, Running
        <4>2. i # Len(journal[u]) BY <4>1 DEF Unpublished
        <4>3. Len(journal[u]) <= n[u] + 1 BY <1>2 DEF PublishedTo
        <4> QED BY <1>5, <2>b, <4>2, <4>3
      <3> QED BY <3>1, <3>2
    <2>2. t \in Bound /\ t.cmd.u = u /\ t.seq = i BY <1>1, <1>5, <2>b DEF Filed
    <2>3. ak \in Account \X Key
      <3>1. t.account \in Account /\ t.cmd.key \in Key BY <2>2, BoundIs
      <3> QED BY <3>1
    <2>c. OpensUnder(t, ak) BY <2>2, <2>b, BoundIs DEF OpensUnder, Entered, Opens
    <2>4. LastAt(ak, u, i, n, journal)
      <3>1. Rebinds(t, ak) BY <2>c DEF Rebinds
      <3>2. ASSUME NEW j \in 1..n[u], j > i PROVE ~ Rebinds(journal[u][j], ak)
        <4>1. n[u] \in Nat /\ n[u] <= Len(journal[u]) /\ Len(journal[u]) \in Nat /\ i \in Nat BY <1>5, <2>b
        <4>2. j \in (i + 1)..Len(journal[u]) BY <3>2, <4>1
        <4> QED BY <4>2
      <3> QED BY <2>1, <3>1, <3>2 DEF LastAt
    <2>5. Alone(ak, u, n, journal)
      <3> SUFFICES ASSUME NEW v \in Book, v # u, NEW j \in 1..n[v]
                   PROVE  ~ Rebinds(journal[v][j], ak)
        BY DEF Alone
      <3>1. j \in 1..Len(journal[v]) BY <1>5
      <3> QED BY <3>1 DEF Turns
    <2>6. i \in Nat BY <2>b
    <2>7. index[ak] = Meant(journal[u][i], ak) BY <1>3, <1>4, <2>3, <2>4, <2>5, <2>6 DEF Stands
    <2>8. index[ak] = RecOf(t) BY <2>7, <2>c DEF Meant
    <2>9. RecOf(t) # None BY <2>2, BoundIs
    <2>10. RecOf(t).id = Places(t) /\ RecOf(t).u = t.cmd.u /\ RecOf(t).seq = t.seq BY DEF RecOf
    <2> QED BY <2>2, <2>8, <2>9, <2>10 DEF IdOf
  <1>c. \A u \in Book : \A i \in resting[u] : i \in 1..Len(journal[u]) BY <1>p DEF PlacedOK
  <1>7. RestingIsReachable BY <1>a, <1>b, <1>c DEF RestingIsReachable
  <1> QED BY <1>6, <1>7

LEMMA RetriesFollow ==
  ASSUME FlowInv
  PROVE  RetriesNameOneOrder
  <1>1. ToldOK(journal, told) /\ IdemOK(journal, idem) /\ Filed(journal) BY DEF FlowInv, Core
  <1>2. journal \in [Book -> Seq(Bound)] BY <1>1 DEF Filed
  <1> SUFFICES ASSUME NEW x \in told, x.out = "entered"
               PROVE  /\ x.seq <= Len(journal[x.u])
                      /\ OpensUnder(journal[x.u][x.seq], <<x.account, x.key>>)
                      /\ Places(journal[x.u][x.seq]) = x.id
                      /\ \/ \E t \in Turns(x.u) : /\ t.account = x.account /\ t.cmd.op = "replace"
                                                  /\ t.cmd.key = x.key /\ t.out.is = "replaced"
                         \/ \A y \in told : (y.out = "entered" /\ y.account = x.account /\ y.key = x.key /\ y.u = x.u)
                                                => (y.id = x.id /\ y.seq = x.seq)
    BY DEF RetriesNameOneOrder
  <1> DEFINE u == x.u
             ak == <<x.account, x.key>>
             reused == \E t \in Turns(u) : /\ t.account = x.account /\ t.cmd.op = "replace"
                                           /\ t.cmd.key = x.key /\ t.out.is = "replaced"
  <1>3. u \in Book /\ x.key \in Key /\ x.account \in Account /\ Opened(journal, u, x.seq, ak, x.id)
    BY <1>1 DEF ToldOK
  <1>4. ASSUME ~ reused, NEW i, NEW id, Opened(journal, u, i, ak, id)
        PROVE  i = idem[u][ak].seq /\ id = Places(journal[u][i])
    <2>1. i \in 1..Len(journal[u]) /\ OpensUnder(journal[u][i], ak) /\ Places(journal[u][i]) = id
      BY <1>4 DEF Opened
    <2> DEFINE t == journal[u][i]
    <2>2. t \in Bound BY <1>2, <1>3, <2>1
    <2>3. t.account = x.account /\ t.cmd.key = x.key BY <2>1 DEF OpensUnder
    <2>4. t.cmd.op = "add"
      <3>1. t \in Turns(u) BY <2>1 DEF Turns
      <3>2. CASE t.cmd.op = "replace"
        <4>1. t.out.is = "replaced" BY <2>1, <2>2, <3>2, BoundIs DEF OpensUnder, Entered
        <4> QED BY <1>4, <2>3, <3>1, <3>2, <4>1
      <3> QED BY <2>2, <3>2, BoundIs
    <2>5. t.cmd.key # None BY <1>3, <2>3, NoneIsNoValue
    <2> QED BY <1>1, <1>3, <2>1, <2>3, <2>4, <2>5 DEF IdemOK
  <1>5. ~ reused => \A y \in told : (y.out = "entered" /\ y.account = x.account /\ y.key = x.key /\ y.u = x.u)
                                        => (y.id = x.id /\ y.seq = x.seq)
    <2> SUFFICES ASSUME ~ reused, NEW y \in told, y.out = "entered", y.account = x.account, y.key = x.key, y.u = x.u
                 PROVE  y.id = x.id /\ y.seq = x.seq
      OBVIOUS
    <2>1. Opened(journal, u, y.seq, ak, y.id) BY <1>1 DEF ToldOK
    <2> HIDE DEF reused, u, ak
    <2>2. y.seq = idem[u][ak].seq /\ y.id = Places(journal[u][y.seq]) BY <1>4, <2>1
    <2>3. x.seq = idem[u][ak].seq /\ x.id = Places(journal[u][x.seq]) BY <1>3, <1>4
    <2> QED BY <2>2, <2>3
  <1>6. /\ x.seq <= Len(journal[x.u])
        /\ OpensUnder(journal[x.u][x.seq], <<x.account, x.key>>)
        /\ Places(journal[x.u][x.seq]) = x.id
    BY <1>3 DEF Opened
  <1> QED BY <1>5, <1>6
-----------------------------------------------------------------------------
(* Steps of a request before and after its turn.                            *)

\* Q is R with the request of c replaced by r.
Becomes(R, c, r, Q) ==
    R \in [Client -> RequestState] /\ c \in Client /\ r \in RequestState /\ Q = [R EXCEPT ![c] = r]

LEMMA BecomesIs ==
  ASSUME NEW R, NEW c, NEW r, NEW Q, Becomes(R, c, r, Q)
  PROVE  /\ Q \in [Client -> RequestState] /\ Q[c] = r /\ c \in Client
         /\ \A d \in Client : d # c => Q[d] = R[d]
  BY DEF Becomes

LEMMA RanDrops ==
  ASSUME NEW J, NEW R, NEW c, NEW r, NEW Q, Becomes(R, c, r, Q), r.pc # "ran", RanOK(J, R)
  PROVE  RanOK(J, Q)
  <1>1. /\ Q[c] = r /\ c \in Client /\ \A d \in Client : d # c => Q[d] = R[d] BY BecomesIs
  <1>2. \A d \in Client : Q[d].pc = "ran" => d # c /\ Q[d] = R[d] BY <1>1
  <1> QED BY <1>2 DEF RanOK

LEMMA IndexKeeps ==
  ASSUME NEW J, NEW R, NEW c, NEW r, NEW Q, Becomes(R, c, r, Q), r.pc # "ran", R[c].pc # "ran",
         NEW Z, NEW ix, IndexOK(J, R, Z, ix)
  PROVE  IndexOK(J, Q, Z, ix)
  <1>1. /\ Q[c] = r /\ c \in Client /\ \A d \in Client : d # c => Q[d] = R[d] BY BecomesIs
  <1>2. \A d \in Client : Q[d].pc = "ran" => Q[d] = R[d] BY <1>1
  <1>3. \A d \in Client : R[d].pc = "ran" => Q[d] = R[d] BY <1>1
  <1>4. PICK n : PublishedTo(n, J, R, Z) /\ Reflects(ix, n, J) BY DEF IndexOK
  <1>5. PublishedTo(n, J, Q, Z) BY <1>2, <1>3, <1>4 DEF PublishedTo
  <1> QED BY <1>4, <1>5 DEF IndexOK

LEMMA ClaimsKeep ==
  ASSUME NEW R, NEW c, NEW r, NEW Q, Becomes(R, c, r, Q), NEW N, ClaimsOK(R, N),
         \A x \in OrderId, u \in Book : Claims(r, x, u) => Claims(R[c], x, u)
  PROVE  ClaimsOK(Q, N)
  <1>1. /\ Q[c] = r /\ c \in Client /\ \A d \in Client : d # c => Q[d] = R[d] BY BecomesIs
  <1>2. \A d \in Client, x \in OrderId, u \in Book : Claims(Q[d], x, u) => Claims(R[d], x, u)
    BY <1>1
  <1> QED BY <1>2 DEF ClaimsOK

LEMMA ClaimsMint ==
  ASSUME NEW R, NEW c, NEW r, NEW Q, Becomes(R, c, r, Q), NEW N \in Nat, NEW w, ClaimsOK(R, N),
         \A x \in OrderId, u \in Book : Claims(r, x, u) => Claims(R[c], x, u) \/ (x = N + 1 /\ u = w)
  PROVE  ClaimsOK(Q, N + 1)
  <1>1. /\ Q[c] = r /\ c \in Client /\ \A d \in Client : d # c => Q[d] = R[d] BY BecomesIs
  <1>2. \A d \in Client, x \in OrderId, u \in Book :
          Claims(Q[d], x, u) => Claims(R[d], x, u) \/ (d = c /\ x = N + 1 /\ u = w)
    BY <1>1
  <1>3. N + 1 \notin 1..N /\ N + 1 \in 1..(N + 1) /\ 1..N \subseteq 1..(N + 1) OBVIOUS
  <1> SUFFICES ASSUME NEW d \in Client, NEW x \in OrderId, NEW u \in Book, Claims(Q[d], x, u)
               PROVE  /\ x \in 1..(N + 1)
                      /\ \A e \in Client, v \in Book : Claims(Q[e], x, v) => e = d /\ v = u
    BY DEF ClaimsOK
  <1>4. CASE x = N + 1
    <2>1. \A e \in Client, v \in Book : ~ Claims(R[e], x, v) BY <1>3, <1>4 DEF ClaimsOK
    <2>2. d = c /\ u = w BY <1>2, <2>1
    <2>5. \A e \in Client, v \in Book : Claims(Q[e], x, v) => e = d /\ v = u BY <1>2, <2>1, <2>2
    <2> QED BY <1>3, <1>4, <2>5
  <1>5. CASE x # N + 1
    <2>1. \A e \in Client, v \in Book : Claims(Q[e], x, v) => Claims(R[e], x, v) BY <1>2, <1>5
    <2> QED BY <1>3, <2>1 DEF ClaimsOK
  <1> QED BY <1>4, <1>5

LEMMA BatchKeeps ==
  ASSUME NEW J, NEW R, NEW c, NEW r, NEW Q, Becomes(R, c, r, Q), NEW B, BatchOK(J, R, B),
         BatchFits(r), ReceiptsOK(J, c, r, B)
  PROVE  BatchOK(J, Q, B)
  <1>1. /\ Q[c] = r /\ c \in Client /\ \A d \in Client : d # c => Q[d] = R[d] BY BecomesIs
  <1> QED BY <1>1 DEF BatchOK

\* A request takes a step that mints nothing and runs nothing.
LEMMA CoreRequest ==
  ASSUME NEW J, NEW B, NEW M, NEW I, NEW Z, NEW R, NEW N, NEW U, NEW ix, Core(J, B, M, I, Z, R, N, U, ix),
         NEW c, NEW r, NEW Q, Becomes(R, c, r, Q), r.pc # "ran", R[c].pc # "ran",
         \A x \in OrderId, u \in Book : Claims(r, x, u) => Claims(R[c], x, u),
         BatchFits(r), ReceiptsOK(J, c, r, B)
  PROVE  Core(J, B, M, I, Z, Q, N, U, ix)
  <1>1. /\ CoreTypes(B, M, I, Z, N, R) /\ Filed(J) /\ PlacedOK(J, B, M) /\ IdemOK(J, I) /\ RanOK(J, R)
        /\ IndexOK(J, R, Z, ix) /\ ClaimsOK(R, N) /\ BatchOK(J, R, B) /\ UndoneOK(J, B, U)
    BY DEF Core
  <1>2. CoreTypes(B, M, I, Z, N, Q) BY <1>1, BecomesIs DEF CoreTypes
  <1>3. RanOK(J, Q) BY <1>1, RanDrops
  <1>4. IndexOK(J, Q, Z, ix) BY <1>1, IndexKeeps
  <1>5. ClaimsOK(Q, N) BY <1>1, ClaimsKeep
  <1>6. BatchOK(J, Q, B) BY <1>1, BatchKeeps
  <1> QED BY <1>1, <1>2, <1>3, <1>4, <1>5, <1>6 DEF Core

\* A request submits an order under a fresh identity.
LEMMA CoreMint ==
  ASSUME NEW J, NEW B, NEW M, NEW I, NEW Z, NEW R, NEW N, NEW U, NEW ix, Core(J, B, M, I, Z, R, N, U, ix),
         N < MaxOrders,
         NEW c, NEW r, NEW Q, Becomes(R, c, r, Q), r.pc # "ran", R[c].pc # "ran", NEW w,
         \A x \in OrderId, u \in Book : Claims(r, x, u) => Claims(R[c], x, u) \/ (x = N + 1 /\ u = w),
         BatchFits(r), ReceiptsOK(J, c, r, B)
  PROVE  Core(J, B, M, I, Z, Q, N + 1, U, ix)
  <1>1. /\ CoreTypes(B, M, I, Z, N, R) /\ Filed(J) /\ PlacedOK(J, B, M) /\ IdemOK(J, I) /\ RanOK(J, R)
        /\ IndexOK(J, R, Z, ix) /\ ClaimsOK(R, N) /\ BatchOK(J, R, B) /\ UndoneOK(J, B, U)
    BY DEF Core
  <1>2. N \in Nat /\ N + 1 \in 0..MaxOrders /\ 1..N \subseteq 1..(N + 1) BY <1>1, Parties DEF CoreTypes
  <1>3. CoreTypes(B, M, I, Z, N + 1, Q) BY <1>1, <1>2, BecomesIs DEF CoreTypes
  <1>4. RanOK(J, Q) BY <1>1, RanDrops
  <1>5. IndexOK(J, Q, Z, ix) BY <1>1, IndexKeeps
  <1>6. ClaimsOK(Q, N + 1) BY <1>1, <1>2, ClaimsMint
  <1>7. BatchOK(J, Q, B) BY <1>1, BatchKeeps
  <1> QED BY <1>1, <1>3, <1>4, <1>5, <1>6, <1>7 DEF Core

BatchOf(b) == [pc |-> "batch", batch |-> b]
Sent(m, b) == [pc |-> "sent", cmd |-> m, turn |-> NoTurn, batch |-> b]

\* A batch holds the identity x on u.
InIds(b, x, u) == \E k \in 1..Len(b.ids) : b.ids[k].u = u /\ b.ids[k].id = x

LEMMA IdleIs ==
  /\ Idle \in RequestState /\ Idle.pc = "idle" /\ ~ Waiting(Idle) /\ ~ InBatch(Idle) /\ BatchFits(Idle)
  /\ \A J, c, B : ReceiptsOK(J, c, Idle, B)
  /\ \A x, u : ~ Claims(Idle, x, u)
  <1>1. Idle \in RequestState /\ Idle.pc = "idle" BY DEF Idle, RequestState, IdleReq
  <1>2. ~ Waiting(Idle) /\ ~ InBatch(Idle) BY <1>1 DEF Waiting, InBatch
  <1> QED BY <1>1, <1>2 DEF BatchFits, ReceiptsOK, Claims

LEMMA InBatchIs ==
  ASSUME NEW b \in BatchState, NEW r, r = BatchOf(b)
  PROVE  /\ r \in RequestState /\ r.pc = "batch" /\ r.batch = b /\ ~ Waiting(r) /\ InBatch(r)
         /\ \A x, u : Claims(r, x, u) <=> InIds(b, x, u)
         /\ BatchFits(r) <=> b.undo <= Len(b.ids) /\ (~ b.aborted => b.undo = 0)
         /\ UndoneTo(r) = b.undo
  <1>1. r \in RequestState /\ r.pc = "batch" /\ r.batch = b BY DEF RequestState, BatchReq, BatchOf
  <1>2. ~ Waiting(r) /\ InBatch(r) BY <1>1 DEF Waiting, InBatch
  <1>3. \A x, u : Claims(r, x, u) <=> InIds(b, x, u) BY <1>1, <1>2 DEF Claims, InIds
  <1>4. BatchFits(r) <=> b.undo <= Len(b.ids) /\ (~ b.aborted => b.undo = 0)
    BY <1>1, <1>2 DEF BatchFits
  <1>5. UndoneTo(r) = b.undo BY <1>1 DEF UndoneTo
  <1> QED BY <1>1, <1>2, <1>3, <1>4, <1>5

LEMMA CmdIs ==
  ASSUME NEW m \in Cmd
  PROVE  /\ m.op \in {"add", "replace", "cancel", "sweep"} /\ m.u \in Book
         /\ m.op = "add" => m \in AddCmd
         /\ m.op = "replace" => m \in ReplaceCmd
         /\ m.op = "cancel" => m \in CancelCmd
         /\ m.op = "sweep" => m \in SweepCmd
  BY DEF Cmd, AddCmd, ReplaceCmd, CancelCmd, SweepCmd

LEMMA SentIs ==
  ASSUME NEW m \in Cmd, NEW b \in BatchState \cup {None}, NEW r, r = Sent(m, b)
  PROVE  /\ r \in RequestState /\ r.pc = "sent" /\ r.cmd = m /\ r.batch = b /\ Waiting(r)
         /\ InBatch(r) <=> b # None
         /\ Places(r) = IF m.op = "replace" THEN m.new ELSE IF m.op = "add" THEN m.id ELSE None
         /\ \A x, u : Claims(r, x, u) <=> (m.u = u /\ Places(r) = x) \/ (b # None /\ InIds(b, x, u))
  <1>1. r \in RequestState /\ r.pc = "sent" /\ r.cmd = m /\ r.batch = b
    BY DEF RequestState, LiveReq, Sent
  <1>2. Waiting(r) /\ (InBatch(r) <=> b # None) BY <1>1 DEF Waiting, InBatch
  <1>3. Places(r) = IF m.op = "replace" THEN m.new ELSE IF m.op = "add" THEN m.id ELSE None
    BY <1>1 DEF Places
  <1>4. \A x, u : Claims(r, x, u) <=> (m.u = u /\ Places(r) = x) \/ (b # None /\ InIds(b, x, u))
    BY <1>1, <1>2 DEF Claims, InIds
  <1> QED BY <1>1, <1>2, <1>3, <1>4

LEMMA NoneIsNoOrder ==
  /\ None \notin OrderId /\ None \notin Key /\ None \notin BatchState
  /\ \A x \in OrderId : x # None
  BY NoneIsNoValue, Parties DEF OrderId

\* A batch, and one with another value in a field that the code assigns.
LEMMA BatchFields ==
  ASSUME NEW b \in BatchState
  PROVE  /\ b.left \in Seq(Item \cup {None}) /\ b.ids \in Seq(ItemPlaced)
         /\ b.atomic \in BOOLEAN /\ b.aborted \in BOOLEAN /\ b.undo \in Nat /\ b.warned \in BOOLEAN
         /\ b = [left |-> b.left, ids |-> b.ids, atomic |-> b.atomic, aborted |-> b.aborted,
                 undo |-> b.undo, warned |-> b.warned]
  BY DEF BatchState

LEMMA BatchAborts ==
  ASSUME NEW b \in BatchState, NEW y \in BOOLEAN, NEW q, q = [b EXCEPT !.aborted = y]
  PROVE  /\ q \in BatchState /\ q.left = b.left /\ q.ids = b.ids /\ q.undo = b.undo
         /\ q.warned = b.warned /\ q.aborted = y /\ q.atomic = b.atomic
  BY BatchFields DEF BatchState

LEMMA BatchWarns ==
  ASSUME NEW b \in BatchState, NEW q, q = [b EXCEPT !.warned = TRUE]
  PROVE  /\ q \in BatchState /\ q.left = b.left /\ q.ids = b.ids /\ q.undo = b.undo
         /\ q.warned = TRUE /\ q.aborted = b.aborted /\ q.atomic = b.atomic
  BY BatchFields DEF BatchState

LEMMA BatchUndoes ==
  ASSUME NEW b \in BatchState, NEW y \in Nat, NEW q, q = [b EXCEPT !.undo = y]
  PROVE  /\ q \in BatchState /\ q.left = b.left /\ q.ids = b.ids /\ q.undo = y
         /\ q.warned = b.warned /\ q.aborted = b.aborted /\ q.atomic = b.atomic
  BY BatchFields DEF BatchState

\* What an error makes of the request r.
FailedReq(r) ==
    IF r.batch = None THEN Idle
    ELSE BatchOf(IF r.cmd.op = "add" THEN [r.batch EXCEPT !.aborted = r.batch.atomic]
                   ELSE [r.batch EXCEPT !.warned = TRUE])

LEMMA FailedIs ==
  ASSUME NEW r \in RequestState, Waiting(r), BatchFits(r), NEW q, q = FailedReq(r),
         NEW J, NEW c, NEW B, NEW D, ReceiptsOK(J, c, r, D)
  PROVE  /\ q \in RequestState /\ q.pc # "ran"
         /\ \A x, u : Claims(q, x, u) => Claims(r, x, u)
         /\ BatchFits(q) /\ ReceiptsOK(J, c, q, B)
  <1>1. CASE r.batch = None
    <2>1. q = Idle BY <1>1 DEF FailedReq
    <2> QED BY <2>1, IdleIs
  <1>2. CASE r.batch # None
    <2>1. r.batch \in BatchState /\ InBatch(r) BY <1>2, RequestShape DEF InBatch
    <2> DEFINE b == r.batch
               w == IF r.cmd.op = "add" THEN [b EXCEPT !.aborted = b.atomic] ELSE [b EXCEPT !.warned = TRUE]
    <2>2. q = BatchOf(w) BY <1>2 DEF FailedReq
    <2>3. \A x, u : InIds(b, x, u) => Claims(r, x, u) BY <2>1 DEF Claims, InIds
    <2>4. /\ b.undo <= Len(b.ids) /\ (~ b.aborted => b.undo = 0)
          /\ (r.cmd.op = "add" /\ ~ b.aborted) \/ (r.cmd.op = "cancel" /\ b.aborted)
      BY <2>1 DEF BatchFits
    <2>5. /\ w \in BatchState /\ w.ids = b.ids /\ w.undo = b.undo /\ w.undo <= Len(w.ids)
          /\ ~ w.aborted => w.undo = 0
          /\ w.aborted /\ ~ w.warned => w.undo = 0
      <3>1. CASE r.cmd.op = "add"
        <4>1. w = [b EXCEPT !.aborted = b.atomic] BY <3>1
        <4>2. b.atomic \in BOOLEAN BY <2>1, BatchFields
        <4> HIDE DEF w, b
        <4>3. w \in BatchState /\ w.ids = b.ids /\ w.undo = b.undo BY <2>1, <4>1, <4>2, BatchAborts DEF b
        <4> QED BY <2>4, <3>1, <4>3
      <3>2. CASE r.cmd.op # "add"
        <4>1. w = [b EXCEPT !.warned = TRUE] BY <3>2
        <4>2. w \in BatchState /\ w.ids = b.ids /\ w.undo = b.undo /\ w.warned = TRUE /\ w.aborted = b.aborted
          <5>1. b \in BatchState BY <2>1
          <5> HIDE DEF w, b
          <5> QED BY <4>1, <5>1, BatchWarns
        <4> QED BY <2>4, <3>2, <4>2
      <3> QED BY <3>1, <3>2
    <2> HIDE DEF w
    <2>6. /\ q \in RequestState /\ q.pc = "batch" /\ q.batch = w /\ BatchFits(q) /\ UndoneTo(q) = w.undo
          /\ \A x, u : Claims(q, x, u) <=> InIds(w, x, u)
      BY <2>2, <2>5, InBatchIs
    <2>7. \A x, u : InIds(w, x, u) => InIds(b, x, u) BY <2>5 DEF InIds
    <2>8. ItemsOK(J, c, b) BY <2>1 DEF ReceiptsOK
    <2>9. ItemsOK(J, c, w) BY <2>5, <2>8 DEF ItemsOK
    <2>10. ReceiptsOK(J, c, q, B) BY <2>5, <2>6, <2>9 DEF ReceiptsOK
    <2> QED BY <2>3, <2>6, <2>7, <2>10
  <1> QED BY <1>1, <1>2

CoreNow == Core(journal, resting, named, idem, sealed, req, minted, undone, IndexNow)

LEMMA NowIs ==
  ASSUME FlowInv
  PROVE  /\ CoreNow /\ ToldOK(journal, told) /\ SessionsOK(placed)
         /\ CoreTypes(resting, named, idem, sealed, minted, req) /\ Filed(journal)
         /\ PlacedOK(journal, resting, named) /\ IdemOK(journal, idem) /\ RanOK(journal, req)
         /\ IndexOK(journal, req, sealed, IndexNow) /\ ClaimsOK(req, minted)
         /\ BatchOK(journal, req, resting) /\ UndoneOK(journal, resting, undone)
         /\ req \in [Client -> RequestState] /\ resting \in [Book -> SUBSET Nat]
         /\ minted \in Nat /\ minted \in 0..MaxOrders
         /\ \A c \in Client : BatchFits(req[c]) /\ ReceiptsOK(journal, c, req[c], resting) /\ req[c] \in RequestState
  <1>1. /\ CoreNow /\ ToldOK(journal, told) /\ SessionsOK(placed) BY DEF FlowInv, CoreNow
  <1>2. /\ CoreTypes(resting, named, idem, sealed, minted, req) /\ Filed(journal)
        /\ PlacedOK(journal, resting, named) /\ IdemOK(journal, idem) /\ RanOK(journal, req)
        /\ IndexOK(journal, req, sealed, IndexNow) /\ ClaimsOK(req, minted)
        /\ BatchOK(journal, req, resting) /\ UndoneOK(journal, resting, undone)
    BY <1>1 DEF CoreNow, Core
  <1>3. /\ req \in [Client -> RequestState] /\ resting \in [Book -> SUBSET Nat]
        /\ minted \in 0..MaxOrders
    BY <1>2 DEF CoreTypes
  <1>4. minted \in Nat BY <1>3, Parties
  <1>5. \A c \in Client : BatchFits(req[c]) /\ ReceiptsOK(journal, c, req[c], resting) BY <1>2 DEF BatchOK
  <1> QED BY <1>1, <1>2, <1>3, <1>4, <1>5

\* The step of a request that leaves the venue alone and mints nothing.
LEMMA RequestStep ==
  ASSUME FlowInv, NEW c \in Client, NEW r \in RequestState, req' = [req EXCEPT ![c] = r],
         r.pc # "ran", req[c].pc # "ran",
         \A x \in OrderId, u \in Book : Claims(r, x, u) => Claims(req[c], x, u),
         BatchFits(r), ReceiptsOK(journal, c, r, resting),
         UNCHANGED <<venue, records, minted, undone>>
  PROVE  CoreNow'
  <1>1. CoreNow /\ req \in [Client -> RequestState] BY NowIs
  <1>2. Becomes(req, c, r, req') BY <1>1 DEF Becomes
  <1>3. Core(journal, resting, named, idem, sealed, req', minted, undone, IndexNow)
    BY <1>1, <1>2, CoreRequest DEF CoreNow
  <1>4. /\ journal' = journal /\ resting' = resting /\ named' = named /\ idem' = idem /\ sealed' = sealed
        /\ minted' = minted /\ undone' = undone /\ IndexNow' = IndexNow
    BY DEF venue, records, IndexNow
  <1> QED BY <1>3, <1>4 DEF CoreNow

\* The submission of an order under a fresh identity.
LEMMA MintStep ==
  ASSUME FlowInv, NEW c \in Client, NEW r \in RequestState, req' = [req EXCEPT ![c] = r], Mint,
         r.pc # "ran", req[c].pc # "ran", NEW w,
         \A x \in OrderId, u \in Book : Claims(r, x, u) => Claims(req[c], x, u) \/ (x = minted + 1 /\ u = w),
         BatchFits(r), ReceiptsOK(journal, c, r, resting),
         UNCHANGED <<venue, records, undone>>
  PROVE  CoreNow'
  <1>1. CoreNow /\ req \in [Client -> RequestState] BY NowIs
  <1>2. Becomes(req, c, r, req') BY <1>1 DEF Becomes
  <1>3. minted < MaxOrders /\ minted' = minted + 1 BY DEF Mint
  <1>4. Core(journal, resting, named, idem, sealed, req', minted + 1, undone, IndexNow)
    BY <1>1, <1>2, <1>3, CoreMint DEF CoreNow
  <1>5. /\ journal' = journal /\ resting' = resting /\ named' = named /\ idem' = idem /\ sealed' = sealed
        /\ undone' = undone /\ IndexNow' = IndexNow
    BY DEF venue, records, IndexNow
  <1> QED BY <1>3, <1>4, <1>5 DEF CoreNow

\* A request that was idle submits an order.
LEMMA SubmitNew ==
  ASSUME FlowInv, NEW c \in Client, req[c].pc = "idle", NEW m \in Cmd, Submit(c, m, None), Mint,
         m.op \in {"add", "replace"}, m.op = "add" => m.id = minted + 1,
         m.op = "replace" => m.new = minted + 1, UNCHANGED <<venue, records, undone>>
  PROVE  CoreNow'
  <1> DEFINE r == Sent(m, None)
             b == None
             w == m.u
  <1>1. req' = [req EXCEPT ![c] = r] BY DEF Submit, Sent
  <1>2. b \in BatchState \cup {None} /\ r = Sent(m, b) /\ b = None OBVIOUS
  <1> HIDE DEF r, b
  <1>3. /\ r \in RequestState /\ r.pc = "sent" /\ (InBatch(r) <=> b # None)
        /\ Places(r) = IF m.op = "replace" THEN m.new ELSE IF m.op = "add" THEN m.id ELSE None
        /\ \A x, u : Claims(r, x, u) <=> (m.u = u /\ Places(r) = x) \/ (b # None /\ InIds(b, x, u))
    BY <1>2, SentIs
  <1>4. \A x \in OrderId, u \in Book : Claims(r, x, u) => Claims(req[c], x, u) \/ (x = minted + 1 /\ u = w)
    BY <1>2, <1>3
  <1>5. BatchFits(r) /\ ReceiptsOK(journal, c, r, resting) BY <1>2, <1>3 DEF BatchFits, ReceiptsOK
  <1>6. r \in RequestState /\ r.pc # "ran" /\ req[c].pc # "ran" BY <1>3
  <1> HIDE DEF w
  <1> QED BY <1>1, <1>4, <1>5, <1>6, MintStep

\* A request that was idle submits a cancel.
LEMMA SubmitCancel ==
  ASSUME FlowInv, NEW c \in Client, req[c].pc = "idle", NEW m \in Cmd, Submit(c, m, None),
         m.op \in {"cancel", "sweep"}, UNCHANGED <<venue, records, minted, undone>>
  PROVE  CoreNow'
  <1> DEFINE r == Sent(m, None)
             b == None
  <1>1. req' = [req EXCEPT ![c] = r] BY DEF Submit, Sent
  <1>2. b \in BatchState \cup {None} /\ r = Sent(m, b) /\ b = None OBVIOUS
  <1> HIDE DEF r, b
  <1>3. /\ r \in RequestState /\ r.pc = "sent" /\ (InBatch(r) <=> b # None)
        /\ Places(r) = IF m.op = "replace" THEN m.new ELSE IF m.op = "add" THEN m.id ELSE None
        /\ \A x, u : Claims(r, x, u) <=> (m.u = u /\ Places(r) = x) \/ (b # None /\ InIds(b, x, u))
    BY <1>2, SentIs
  <1>4. \A x \in OrderId, u \in Book : Claims(r, x, u) => Claims(req[c], x, u)
    BY <1>2, <1>3, NoneIsNoOrder
  <1>5. BatchFits(r) /\ ReceiptsOK(journal, c, r, resting) BY <1>2, <1>3 DEF BatchFits, ReceiptsOK
  <1> QED BY <1>1, <1>3, <1>4, <1>5, RequestStep

\* The commands the gateways make.
LEMMA AddIs ==
  ASSUME minted \in Nat, Mint, NEW u \in Book, NEW k \in Key \cup {None}, NEW q \in Qty,
         NEW kind \in {"limit", "market"}, NEW m, m = AddOrder(u, k, q, kind)
  PROVE  m \in Cmd /\ m.op = "add" /\ m.id = minted + 1 /\ m.u = u /\ m.key = k
  <1>1. minted + 1 \in OrderId BY Parties DEF Mint, OrderId
  <1> QED BY <1>1 DEF AddOrder, Fresh, Cmd, AddCmd

LEMMA ReplaceIs ==
  ASSUME minted \in Nat, Mint, NEW u \in Book, NEW id \in OrderId, NEW o \in Key, NEW k \in Key,
         NEW q \in Qty, NEW m, m = ReplaceOrder(u, id, o, k, q)
  PROVE  m \in Cmd /\ m.op = "replace" /\ m.new = minted + 1 /\ m.u = u
  <1>1. minted + 1 \in OrderId BY Parties DEF Mint, OrderId
  <1> QED BY <1>1 DEF ReplaceOrder, Fresh, Cmd, ReplaceCmd

LEMMA CancelIs ==
  ASSUME NEW u \in Book
  PROVE  /\ MassCancel(u) \in Cmd /\ MassCancel(u).op = "sweep"
         /\ \A id \in OrderId, o \in Key \cup {None} :
              /\ CancelOrder(u, id, o) \in Cmd /\ CancelOrder(u, id, o).op = "cancel"
              /\ CancelOrder(u, id, o).u = u /\ CancelOrder(u, id, o).id = id
  BY DEF MassCancel, CancelOrder, Cmd, SweepCmd, CancelCmd
-----------------------------------------------------------------------------
(* The requests of the two gateways.                                        *)

LEMMA CoreSame ==
  ASSUME CoreNow, UNCHANGED <<venue, records, req, minted, undone>>
  PROVE  CoreNow'
  BY DEF CoreNow, venue, records, IndexNow

LEMMA IndexIsReal ==
  ASSUME FlowInv, NEW ak \in Account \X Key, index[ak] # None
  PROVE  index[ak].u \in Book /\ Opened(journal, index[ak].u, index[ak].seq, ak, index[ak].id)
  <1>1. IndexOK(journal, req, sealed, IndexNow) /\ Filed(journal) BY NowIs
  <1>2. PICK n : PublishedTo(n, journal, req, sealed) /\ Reflects(IndexNow, n, journal)
    BY <1>1 DEF IndexOK
  <1>3. Names(IndexNow, n, journal) /\ IndexNow.map = index BY <1>2 DEF Reflects, IndexNow
  <1>4. n \in [Book -> Nat] /\ \A u \in Book : n[u] <= Len(journal[u]) /\ Len(journal[u]) \in Nat
    BY <1>1, <1>2 DEF PublishedTo, Within, Filed
  <1>5. /\ index[ak].u \in Book /\ index[ak].seq \in 1..n[index[ak].u]
        /\ OpensUnder(journal[index[ak].u][index[ak].seq], ak)
        /\ Places(journal[index[ak].u][index[ak].seq]) = index[ak].id
    BY <1>3 DEF Names
  <1>6. index[ak].seq \in 1..Len(journal[index[ak].u]) BY <1>4, <1>5
  <1> QED BY <1>5, <1>6 DEF Opened

LEMMA TellsOne ==
  ASSUME NEW J, NEW X, ToldOK(J, X), NEW c \in Client, NEW m, m.u \in Book, m.key \in Key \cup {None},
         NEW id, NEW n, NEW o, NEW Y,
         m.key # None /\ o = "entered" => Opened(J, m.u, n, <<AccountOf[c], m.key>>, id),
         Y = IF m.key = None THEN X ELSE X \cup {Accepted(c, m, id, n, o)}
  PROVE  ToldOK(J, Y)
  <1>1. CASE m.key = None BY <1>1
  <1>2. CASE m.key # None
    <2> DEFINE x == Accepted(c, m, id, n, o)
    <2>1. x.account = AccountOf[c] /\ x.key = m.key /\ x.u = m.u /\ x.id = id /\ x.seq = n /\ x.out = o
      BY DEF Accepted
    <2>2. AccountOf[c] \in Account BY DEF Account
    <2>3. Y = X \cup {x} BY <1>2
    <2> HIDE DEF x
    <2>4. x.out = "entered" => /\ x.u \in Book /\ x.key \in Key /\ x.account \in Account
                                /\ Opened(J, x.u, x.seq, <<x.account, x.key>>, x.id)
      BY <1>2, <2>1, <2>2
    <2> QED BY <2>3, <2>4 DEF ToldOK
  <1> QED BY <1>1, <1>2

LEMMA PlaceRestKeeps ==
  ASSUME FlowInv, NEW c \in Rest, NEW u \in Book, NEW k \in Key, NEW q \in Qty,
         NEW kind \in {"limit", "market"}, PlaceRest(c, AddOrder(u, k, q, kind))
  PROVE  FlowInv'
  <1> DEFINE m == AddOrder(u, k, q, kind)
             ak == <<AccountOf[c], k>>
  <1>1. c \in Client /\ ak \in Account \X Key BY DEF Client, Account
  <1>2. m.u = u /\ m.key = k /\ k # None BY NoneIsNoOrder DEF AddOrder
  <1>3. /\ CoreNow /\ ToldOK(journal, told) /\ SessionsOK(placed) /\ minted \in Nat BY NowIs
  <1>4. UNCHANGED <<venue, records, placed, boots, undone>> /\ req[c].pc = "idle"
        /\ journal' = journal /\ placed' = placed
    BY DEF PlaceRest, Quiet, venue
  <1>5. CASE IsReplay(c, m)
    <2> DEFINE o == "entered"
    <2>1. told' = Heard(c, m, index[ak].id, index[ak].seq, o) /\ UNCHANGED <<req, minted>>
      BY <1>2, <1>5 DEF PlaceRest
    <2>2. index[ak] # None /\ index[ak].u = u BY <1>2, <1>5 DEF IsReplay
    <2>3. Opened(journal, u, index[ak].seq, ak, index[ak].id) BY <1>1, <2>2, IndexIsReal
    <2>4. CoreNow' BY <1>3, <1>4, <2>1, CoreSame
    <2>5. told' = IF m.key = None THEN told ELSE told \cup {Accepted(c, m, index[ak].id, index[ak].seq, o)}
      BY <2>1 DEF Heard
    <2>6. /\ m.u \in Book /\ m.key \in Key \cup {None}
          /\ m.key # None /\ o = "entered" =>
               Opened(journal, m.u, index[ak].seq, <<AccountOf[c], m.key>>, index[ak].id)
      BY <1>2, <2>3
    <2> HIDE DEF m, o
    <2>7. ToldOK(journal, told') BY <1>1, <1>3, <2>5, <2>6, TellsOne
    <2> QED BY <1>3, <1>4, <2>4, <2>7 DEF FlowInv, CoreNow
  <1>6. CASE ~ IsReplay(c, m)
    <2>1. Mint /\ Submit(c, m, None) /\ told' = told BY <1>6 DEF PlaceRest
    <2>2. m \in Cmd /\ m.op = "add" /\ m.id = minted + 1 BY <1>3, <2>1, AddIs
    <2> HIDE DEF m
    <2>3. UNCHANGED <<venue, records, undone>> BY <1>4
    <2>4. CoreNow' BY <1>1, <1>4, <2>1, <2>2, <2>3, SubmitNew
    <2> QED BY <1>3, <1>4, <2>1, <2>4 DEF FlowInv, CoreNow
  <1> QED BY <1>5, <1>6

LEMMA SameRest ==
  ASSUME FlowInv, CoreNow', UNCHANGED <<journal, told, placed>>
  PROVE  FlowInv'
  <1>1. ToldOK(journal, told) /\ SessionsOK(placed) BY NowIs
  <1> QED BY <1>1 DEF FlowInv, CoreNow

LEMMA IdIsOrder ==
  ASSUME FlowInv, NEW u \in Book, NEW i \in 1..Len(journal[u])
  PROVE  IdOf(u, i) \in OrderId /\ journal[u][i] \in Bound
  <1>1. journal[u] \in Seq(Bound) BY NowIs DEF Filed
  <1>2. journal[u][i] \in Bound BY <1>1
  <1> QED BY <1>2, BoundIs DEF IdOf

LEMMA ResolvesToOrder ==
  ASSUME FlowInv, NEW f \in Fix, NEW k \in Key, NEW u, Targets(f, u, k)
  PROVE  Resolve(f, k).id \in OrderId
  <1>1. SessionsOK(placed) BY NowIs
  <1>2. CASE placed[f][k] # None
    <2>1. placed[f][k] \in TrackedOrder BY <1>1, <1>2 DEF SessionsOK
    <2> QED BY <1>2, <2>1 DEF Resolve, TrackedOrder
  <1>3. CASE placed[f][k] = None
    <2> DEFINE ak == <<AccountOf[f], k>>
    <2>1. Resolve(f, k) = index[ak] /\ index[ak] # None BY <1>3 DEF Resolve, Targets
    <2>2. ak \in Account \X Key BY DEF Account, Client
    <2> HIDE DEF ak
    <2>3. index[ak].u \in Book /\ Opened(journal, index[ak].u, index[ak].seq, ak, index[ak].id)
      BY <2>1, <2>2, IndexIsReal
    <2>4. index[ak].id = IdOf(index[ak].u, index[ak].seq) /\ index[ak].seq \in 1..Len(journal[index[ak].u])
      BY <2>3 DEF Opened, IdOf
    <2> QED BY <2>1, <2>3, <2>4, IdIsOrder
  <1> QED BY <1>2, <1>3

LEMMA CancelRestKeeps ==
  ASSUME FlowInv, NEW c \in Rest, NEW u \in Book, CancelRest(c, u)
  PROVE  FlowInv'
  <1>1. c \in Client /\ req[c].pc = "idle" /\ UNCHANGED <<venue, records, minted, undone>>
        /\ UNCHANGED <<journal, told, placed>>
    BY DEF Client, CancelRest, Quiet, venue
  <1>2. PICK m \in Cmd : Submit(c, m, None) /\ m.op \in {"cancel", "sweep"}
    <2>1. CASE \E i \in 1..Len(journal[u]) : Submit(c, CancelOrder(u, IdOf(u, i), None), None)
      <3>1. PICK i \in 1..Len(journal[u]) : Submit(c, CancelOrder(u, IdOf(u, i), None), None) BY <2>1
      <3>2. IdOf(u, i) \in OrderId BY IdIsOrder
      <3> QED BY <3>1, <3>2, CancelIs
    <2>2. CASE Submit(c, MassCancel(u), None) BY <2>2, CancelIs
    <2> QED BY <2>1, <2>2 DEF CancelRest
  <1>3. CoreNow' BY <1>1, <1>2, SubmitCancel
  <1> QED BY <1>1, <1>3, SameRest

LEMMA PlaceFixKeeps ==
  ASSUME FlowInv, NEW f \in Fix, NEW u \in Book, NEW k \in Key, NEW q \in Qty,
         NEW kind \in {"limit", "market"}, PlaceFix(f, u, k, q, kind)
  PROVE  FlowInv'
  <1> DEFINE m == AddOrder(u, k, q, kind)
  <1>1. f \in Client /\ req[f].pc = "idle" /\ UNCHANGED <<venue, records, undone>>
        /\ UNCHANGED <<journal, told, placed>> /\ Mint /\ Submit(f, m, None)
    BY DEF Client, PlaceFix, Quiet, venue
  <1>2. minted \in Nat BY NowIs
  <1>3. m \in Cmd /\ m.op = "add" /\ m.id = minted + 1 BY <1>1, <1>2, AddIs
  <1> HIDE DEF m
  <1>4. CoreNow' BY <1>1, <1>3, SubmitNew
  <1> QED BY <1>1, <1>4, SameRest

LEMMA CancelFixKeeps ==
  ASSUME FlowInv, NEW f \in Fix, NEW u \in Book, CancelFix(f, u)
  PROVE  FlowInv'
  <1>1. f \in Client /\ req[f].pc = "idle" /\ UNCHANGED <<venue, records, minted, undone>>
        /\ UNCHANGED <<journal, told, placed>>
    BY DEF Client, CancelFix, Quiet, venue
  <1>2. PICK m \in Cmd : Submit(f, m, None) /\ m.op \in {"cancel", "sweep"}
    <2>1. CASE \E k \in Key : Targets(f, u, k) /\ Submit(f, CancelOrder(u, Resolve(f, k).id, k), None)
      <3>1. PICK k \in Key : Targets(f, u, k) /\ Submit(f, CancelOrder(u, Resolve(f, k).id, k), None)
        BY <2>1
      <3>2. Resolve(f, k).id \in OrderId BY <3>1, ResolvesToOrder
      <3> QED BY <3>1, <3>2, CancelIs
    <2>2. CASE Submit(f, MassCancel(u), None) BY <2>2, CancelIs
    <2> QED BY <2>1, <2>2 DEF CancelFix
  <1>3. CoreNow' BY <1>1, <1>2, SubmitCancel
  <1> QED BY <1>1, <1>3, SameRest

LEMMA ReplaceFixKeeps ==
  ASSUME FlowInv, NEW f \in Fix, NEW u \in Book, NEW o \in Key, NEW k \in Key, NEW q \in Qty,
         ReplaceFix(f, u, o, k, q)
  PROVE  FlowInv'
  <1> DEFINE id == Resolve(f, o).id
             m == ReplaceOrder(u, id, o, k, q)
  <1>1. f \in Client /\ req[f].pc = "idle" /\ UNCHANGED <<venue, records, undone>>
        /\ UNCHANGED <<journal, told, placed>> /\ Mint /\ Submit(f, m, None) /\ Targets(f, u, o)
    BY DEF Client, ReplaceFix, Quiet, venue
  <1>2. minted \in Nat /\ id \in OrderId BY <1>1, NowIs, ResolvesToOrder
  <1> HIDE DEF id
  <1>3. m \in Cmd /\ m.op = "replace" /\ m.new = minted + 1 BY <1>1, <1>2, ReplaceIs
  <1> HIDE DEF m
  <1>4. CoreNow' BY <1>1, <1>3, SubmitNew
  <1> QED BY <1>1, <1>4, SameRest
-----------------------------------------------------------------------------
(* Bulk placement.                                                          *)

LEMMA ElementOf ==
  ASSUME NEW S, NEW s \in Seq(S), NEW i \in 1..Len(s)
  PROVE  s[i] \in S
  OBVIOUS

LEMMA BulkStartKeeps ==
  ASSUME FlowInv, NEW c \in Rest, NEW items \in Batches, NEW atomic \in BOOLEAN,
         BulkStart(c, items, atomic)
  PROVE  FlowInv'
  <1> DEFINE b == Batch(items, atomic)
             r == BatchOf(b)
  <1>1. c \in Client /\ req[c].pc = "idle" /\ UNCHANGED <<venue, records, minted, undone>>
        /\ UNCHANGED <<journal, told, placed>> /\ req' = [req EXCEPT ![c] = r]
    BY DEF Client, BulkStart, Quiet, venue, BatchOf
  <1>2. b \in BatchState /\ b.ids = <<>> /\ b.undo = 0 /\ b.aborted = FALSE
    <2>1. items \in Seq(Item \cup {None}) BY BulkRequests
    <2> QED BY <2>1 DEF Batch, BatchState
  <1> HIDE DEF b
  <1>3. r = BatchOf(b) OBVIOUS
  <1> HIDE DEF r
  <1>4. /\ r \in RequestState /\ r.pc = "batch" /\ r.batch = b
        /\ \A x, u : Claims(r, x, u) <=> InIds(b, x, u)
        /\ BatchFits(r) <=> b.undo <= Len(b.ids) /\ (~ b.aborted => b.undo = 0)
    BY <1>2, <1>3, InBatchIs
  <1>5. \A x \in OrderId, u \in Book : ~ Claims(r, x, u) BY <1>2, <1>4 DEF InIds
  <1>6. BatchFits(r) BY <1>2, <1>4
  <1>7. ReceiptsOK(journal, c, r, resting) BY <1>2, <1>4 DEF ReceiptsOK, ItemsOK
  <1>8. r.pc # "ran" /\ req[c].pc # "ran" BY <1>1, <1>4
  <1>9. CoreNow' BY <1>1, <1>4, <1>5, <1>6, <1>7, <1>8, RequestStep
  <1> QED BY <1>1, <1>9, SameRest

\* The batch of a request between two commands.
LEMMA BatchNow ==
  ASSUME FlowInv, NEW c \in Client, req[c].pc = "batch"
  PROVE  /\ req[c].batch \in BatchState /\ InBatch(req[c]) /\ req[c] = BatchOf(req[c].batch)
         /\ req[c].batch.undo <= Len(req[c].batch.ids)
         /\ ~ req[c].batch.aborted => req[c].batch.undo = 0
         /\ \A x, u : Claims(req[c], x, u) <=> InIds(req[c].batch, x, u)
         /\ ItemsOK(journal, c, req[c].batch)
  <1> DEFINE r == req[c]
             b == r.batch
  <1>1. r \in RequestState /\ BatchFits(r) /\ ReceiptsOK(journal, c, r, resting) BY NowIs
  <1>2. r \in BatchReq /\ b \in BatchState BY <1>1, RequestShape
  <1>3. r = BatchOf(b) BY <1>2 DEF BatchReq, BatchOf
  <1> HIDE DEF r, b
  <1>4. /\ InBatch(r) /\ (\A x, u : Claims(r, x, u) <=> InIds(b, x, u))
        /\ BatchFits(r) <=> b.undo <= Len(b.ids) /\ (~ b.aborted => b.undo = 0)
    BY <1>2, <1>3, InBatchIs
  <1>5. ItemsOK(journal, c, b) BY <1>1, <1>4 DEF ReceiptsOK, b
  <1> QED BY <1>1, <1>2, <1>3, <1>4, <1>5 DEF r, b

LEMMA BulkNextKeeps ==
  ASSUME FlowInv, NEW c \in Rest, BulkNext(c)
  PROVE  FlowInv'
  <1> DEFINE b == req[c].batch
             item == Head(b.left)
             rest == [b EXCEPT !.left = Tail(b.left)]
  <1>1. /\ c \in Client /\ req[c].pc = "batch" /\ ~ b.aborted /\ b.left # <<>>
        /\ UNCHANGED <<venue, records, undone>> /\ UNCHANGED <<journal, told, placed>>
        /\ req[c].pc # "ran"
    BY DEF Client, BulkNext, venue
  <1>2. /\ b \in BatchState /\ b.undo <= Len(b.ids) /\ b.undo = 0 /\ req[c] = BatchOf(b)
        /\ \A x, u : Claims(req[c], x, u) <=> InIds(b, x, u)
        /\ ItemsOK(journal, c, b)
    BY <1>1, BatchNow
  <1>3. b.left \in Seq(Item \cup {None}) /\ b.ids \in Seq(ItemPlaced) /\ b.atomic \in BOOLEAN
    BY <1>2, BatchFields
  <1>4. item \in Item \cup {None} /\ Tail(b.left) \in Seq(Item \cup {None}) BY <1>1, <1>3
  <1>5. rest \in BatchState /\ rest.ids = b.ids /\ rest.undo = b.undo /\ rest.aborted = b.aborted
    <2> DEFINE y == Tail(b.left)
    <2>1. rest = [b EXCEPT !.left = y] /\ y \in Seq(Item \cup {None}) BY <1>4
    <2>2. b \in BatchState BY <1>2
    <2> HIDE DEF y, rest, b
    <2> QED BY <2>1, <2>2, BatchFields DEF BatchState
  <1>6. CASE item = None
    <2> DEFINE y == b.atomic
               w == [rest EXCEPT !.aborted = y]
               r == BatchOf(w)
    <2>1. req' = [req EXCEPT ![c].batch = [rest EXCEPT !.aborted = b.atomic]] /\ minted' = minted
      BY <1>6 DEF BulkNext
    <2>2. req' = [req EXCEPT ![c] = r]
      <3>1. req' = [req EXCEPT ![c] = [req[c] EXCEPT !.batch = w]] BY <2>1
      <3>2. [req[c] EXCEPT !.batch = w] = r BY <1>2 DEF BatchOf
      <3> QED BY <3>1, <3>2
    <2>3. w = [rest EXCEPT !.aborted = y] /\ y \in BOOLEAN BY <1>3
    <2> HIDE DEF w, y, rest
    <2>4. w \in BatchState /\ w.ids = rest.ids /\ w.undo = rest.undo BY <1>5, <2>3, BatchAborts
    <2>5. r = BatchOf(w) OBVIOUS
    <2> HIDE DEF r
    <2>6. /\ r \in RequestState /\ r.pc = "batch" /\ r.batch = w
          /\ \A x, u : Claims(r, x, u) <=> InIds(w, x, u)
          /\ BatchFits(r) <=> w.undo <= Len(w.ids) /\ (~ w.aborted => w.undo = 0)
          /\ UndoneTo(r) = w.undo
      BY <2>4, <2>5, InBatchIs
    <2>7. w.ids = b.ids /\ w.undo = 0 BY <1>2, <1>5, <2>4
    <2>8. \A x \in OrderId, u \in Book : Claims(r, x, u) => Claims(req[c], x, u)
      BY <1>2, <2>6, <2>7 DEF InIds
    <2>9. BatchFits(r) BY <1>2, <2>6, <2>7
    <2>10. ReceiptsOK(journal, c, r, resting) BY <1>2, <2>6, <2>7 DEF ReceiptsOK, ItemsOK
    <2>11. r.pc # "ran" /\ UNCHANGED <<venue, records, minted, undone>> BY <1>1, <2>1, <2>6
    <2>12. r \in RequestState BY <2>6
    <2>13. CoreNow' BY <1>1, <2>2, <2>8, <2>9, <2>10, <2>11, <2>12, RequestStep
    <2> QED BY <1>1, <2>13, SameRest
  <1>7. CASE item # None
    <2> DEFINE m == AddOrder(item.u, item.key, item.qty, "limit")
               r == Sent(m, rest)
               w == item.u
    <2>1. Mint /\ Submit(c, m, rest) BY <1>7 DEF BulkNext
    <2>2. item.u \in Book /\ item.key \in Key \cup {None} /\ item.qty \in Qty BY <1>4, <1>7 DEF Item
    <2>3. m \in Cmd /\ m.op = "add" /\ m.id = minted + 1 /\ m.u = w
      <3>1. minted \in Nat BY NowIs
      <3> DEFINE k == item.key
                 q == item.qty
                 kind == "limit"
      <3>2. /\ w \in Book /\ k \in Key \cup {None} /\ q \in Qty /\ kind \in {"limit", "market"}
            /\ m = AddOrder(w, k, q, kind) /\ Mint
        BY <2>1, <2>2
      <3> HIDE DEF m, w, k, q, kind
      <3> QED BY <3>1, <3>2, AddIs
    <2>4. req' = [req EXCEPT ![c] = r] /\ r = Sent(m, rest) BY <2>1 DEF Submit, Sent
    <2> HIDE DEF m, r, w, rest, b
    <2>5. rest \in BatchState \cup {None} /\ rest # None BY <1>5, NoneIsNoOrder
    <2>6. /\ r \in RequestState /\ r.pc = "sent" /\ r.cmd = m /\ r.batch = rest /\ Waiting(r)
          /\ (InBatch(r) <=> rest # None)
          /\ Places(r) = IF m.op = "replace" THEN m.new ELSE IF m.op = "add" THEN m.id ELSE None
          /\ \A x, u : Claims(r, x, u) <=> (m.u = u /\ Places(r) = x) \/ (rest # None /\ InIds(rest, x, u))
      BY <2>3, <2>4, <2>5, SentIs
    <2>7. Places(r) = minted + 1 BY <2>3, <2>6
    <2>8. \A x, u : InIds(rest, x, u) <=> InIds(b, x, u) BY <1>5 DEF InIds
    <2>9. \A x \in OrderId, u \in Book : Claims(r, x, u) => Claims(req[c], x, u) \/ (x = minted + 1 /\ u = w)
      BY <1>2, <2>3, <2>6, <2>7, <2>8
    <2>10. BatchFits(r)
      <3>1. ASSUME NEW k \in 1..Len(b.ids) PROVE b.ids[k].id # minted + 1
        <4>1. b.ids[k] \in ItemPlaced BY <1>3, ElementOf
        <4>2. b.ids[k].u \in Book /\ b.ids[k].id \in OrderId BY <4>1 DEF ItemPlaced
        <4>3. Claims(req[c], b.ids[k].id, b.ids[k].u) BY <1>2 DEF InIds
        <4>4. ClaimsOK(req, minted) /\ minted \in Nat BY NowIs
        <4>5. b.ids[k].id \in 1..minted BY <1>1, <4>2, <4>3, <4>4 DEF ClaimsOK
        <4> QED BY <4>4, <4>5
      <3>2. \A k \in 1..Len(rest.ids) : rest.ids[k].id # m.id BY <1>5, <2>3, <3>1
      <3> QED BY <1>1, <1>2, <1>5, <2>3, <2>6, <3>2 DEF BatchFits
    <2>11. ReceiptsOK(journal, c, r, resting) BY <1>1, <1>2, <1>5, <2>6 DEF ReceiptsOK, ItemsOK
    <2>12. r \in RequestState /\ r.pc # "ran" BY <2>6
    <2>13. CoreNow' BY <1>1, <2>1, <2>4, <2>9, <2>10, <2>11, <2>12, MintStep
    <2> QED BY <1>1, <2>13, SameRest
  <1> QED BY <1>6, <1>7

LEMMA BulkRollBackKeeps ==
  ASSUME FlowInv, NEW c \in Rest, BulkRollBack(c)
  PROVE  FlowInv'
  <1> DEFINE b == req[c].batch
             n == b.undo + 1
             w == [b EXCEPT !.undo = n]
             m == CancelOrder(b.ids[n].u, b.ids[n].id, None)
             r == Sent(m, w)
  <1>1. /\ c \in Client /\ req[c].pc = "batch" /\ b.aborted /\ n <= Len(b.ids)
        /\ UNCHANGED <<venue, records, minted, undone>> /\ UNCHANGED <<journal, told, placed>>
        /\ req[c].pc # "ran" /\ Submit(c, m, w)
    BY DEF Client, BulkRollBack, RollBackAt, venue
  <1>2. /\ b \in BatchState /\ InBatch(req[c]) /\ b.undo <= Len(b.ids)
        /\ \A x, u : Claims(req[c], x, u) <=> InIds(b, x, u)
        /\ ItemsOK(journal, c, b)
    BY <1>1, BatchNow
  <1>3. b.ids \in Seq(ItemPlaced) /\ b.undo \in Nat BY <1>2, BatchFields
  <1>4. n \in Nat /\ n \in 1..Len(b.ids) /\ n - 1 = b.undo BY <1>1, <1>3
  <1>5. b.ids[n].u \in Book /\ b.ids[n].id \in OrderId
    <2>1. b.ids[n] \in ItemPlaced BY <1>3, <1>4, ElementOf
    <2> QED BY <2>1 DEF ItemPlaced
  <1>6. m \in Cmd /\ m.op = "cancel" /\ m.u = b.ids[n].u /\ m.id = b.ids[n].id BY <1>5, CancelIs
  <1>7. w = [b EXCEPT !.undo = n] /\ r = Sent(m, w) /\ req' = [req EXCEPT ![c] = r]
    BY <1>1 DEF Submit, Sent
  <1>8. ReceiptsOK(journal, c, req[c], resting) BY <1>1, NowIs
  <1>9. b.aborted /\ ~ b.warned => \A k \in 1..(n - 1) : Off(journal, resting, b.ids[k].u, b.ids[k].seq)
    BY <1>1, <1>2, <1>4, <1>8 DEF ReceiptsOK, UndoneTo
  <1> HIDE DEF w, m, r, n, b
  <1>10. w \in BatchState /\ w.ids = b.ids /\ w.undo = n /\ w.warned = b.warned /\ w.aborted = b.aborted
    BY <1>2, <1>4, <1>7, BatchUndoes
  <1>11. w \in BatchState \cup {None} /\ w # None BY <1>10, NoneIsNoOrder
  <1>12. /\ r \in RequestState /\ r.pc = "sent" /\ r.cmd = m /\ r.batch = w /\ Waiting(r)
         /\ (InBatch(r) <=> w # None)
         /\ Places(r) = IF m.op = "replace" THEN m.new ELSE IF m.op = "add" THEN m.id ELSE None
         /\ \A x, u : Claims(r, x, u) <=> (m.u = u /\ Places(r) = x) \/ (w # None /\ InIds(w, x, u))
    BY <1>6, <1>7, <1>11, SentIs
  <1>13. Places(r) = None BY <1>6, <1>12
  <1>14. \A x, u : InIds(w, x, u) <=> InIds(b, x, u) BY <1>10 DEF InIds
  <1>15. \A x \in OrderId, u \in Book : Claims(r, x, u) => Claims(req[c], x, u)
    BY <1>2, <1>12, <1>13, <1>14, NoneIsNoOrder
  <1>16. BatchFits(r) BY <1>1, <1>4, <1>6, <1>10, <1>12 DEF BatchFits
  <1>17. ReceiptsOK(journal, c, r, resting) BY <1>2, <1>9, <1>10, <1>11, <1>12 DEF ReceiptsOK, ItemsOK, UndoneTo
  <1>18. r \in RequestState /\ r.pc # "ran" BY <1>12
  <1>19. CoreNow' BY <1>1, <1>7, <1>15, <1>16, <1>17, <1>18, RequestStep
  <1> QED BY <1>1, <1>19, SameRest

LEMMA BulkAnswerKeeps ==
  ASSUME FlowInv, NEW c \in Rest, BulkAnswer(c)
  PROVE  FlowInv'
  <1> DEFINE b == req[c].batch
             gone == {<<b.ids[i].u, b.ids[i].seq>> : i \in 1..Len(b.ids)}
             r == Idle
  <1>1. /\ c \in Client /\ req[c].pc = "batch" /\ req[c].pc # "ran" /\ req' = [req EXCEPT ![c] = r]
        /\ UNCHANGED <<venue, records, minted>> /\ UNCHANGED <<journal, told, placed>>
        /\ b.aborted => b.undo + 1 > Len(b.ids)
        /\ undone' = IF b.aborted /\ ~ b.warned THEN undone \cup gone ELSE undone
    BY DEF Client, BulkAnswer, RollBackAt, venue
  <1>2. /\ b \in BatchState /\ InBatch(req[c]) /\ b.undo <= Len(b.ids) /\ ItemsOK(journal, c, b)
    BY <1>1, BatchNow
  <1>3. b.ids \in Seq(ItemPlaced) /\ b.undo \in Nat BY <1>2, BatchFields
  <1>4. /\ CoreTypes(resting, named, idem, sealed, minted, req) /\ Filed(journal)
        /\ PlacedOK(journal, resting, named) /\ IdemOK(journal, idem) /\ RanOK(journal, req)
        /\ IndexOK(journal, req, sealed, IndexNow) /\ ClaimsOK(req, minted)
        /\ BatchOK(journal, req, resting) /\ UndoneOK(journal, resting, undone) /\ req \in [Client -> RequestState]
        /\ ReceiptsOK(journal, c, req[c], resting)
    BY <1>1, NowIs
  <1>5. /\ r \in RequestState /\ r.pc # "ran" /\ BatchFits(r) /\ ReceiptsOK(journal, c, r, resting)
        /\ \A x, u : ~ Claims(r, x, u)
    BY IdleIs
  <1>6. Becomes(req, c, r, req') BY <1>1, <1>4, <1>5 DEF Becomes
  <1> HIDE DEF r
  <1>7. RanOK(journal, req') BY <1>4, <1>5, <1>6, RanDrops
  <1>8. IndexOK(journal, req', sealed, IndexNow) BY <1>1, <1>4, <1>5, <1>6, IndexKeeps
  <1>9. BatchOK(journal, req', resting) BY <1>4, <1>5, <1>6, BatchKeeps
  <1>10. CoreTypes(resting, named, idem, sealed, minted, req') BY <1>4, <1>6, BecomesIs DEF CoreTypes
  <1>11. ClaimsOK(req', minted) BY <1>4, <1>5, <1>6, ClaimsKeep
  <1>12. UndoneOK(journal, resting, undone')
    <2>1. CASE b.aborted /\ ~ b.warned
      <3>1. UndoneTo(req[c]) = b.undo /\ b.undo = Len(b.ids) BY <1>1, <1>2, <1>3, <2>1 DEF UndoneTo
      <3>2. \A k \in 1..Len(b.ids) : Off(journal, resting, b.ids[k].u, b.ids[k].seq)
        BY <1>2, <1>4, <2>1, <3>1 DEF ReceiptsOK
      <3>3. ASSUME NEW k \in 1..Len(b.ids)
            PROVE  b.ids[k].u \in Book /\ b.ids[k].seq \in Nat /\ b.ids[k].seq <= Len(journal[b.ids[k].u])
        <4>1. b.ids[k] \in ItemPlaced BY <1>3, ElementOf
        <4>2. b.ids[k].u \in Book /\ b.ids[k].seq \in Nat BY <4>1 DEF ItemPlaced
        <4>3. Len(journal[b.ids[k].u]) \in Nat
          <5> DEFINE v == b.ids[k].u
          <5>1. v \in Book BY <4>2
          <5> HIDE DEF v
          <5>2. journal[v] \in Seq(Bound) BY <1>4, <5>1 DEF Filed
          <5>3. Len(journal[v]) \in Nat BY <5>2
          <5> QED BY <5>3 DEF v
        <4>4. b.ids[k].seq # 0 => b.ids[k].seq \in 1..Len(journal[b.ids[k].u])
          BY <1>2 DEF ItemsOK, Received
        <4> QED BY <4>2, <4>3, <4>4
      <3>4. ASSUME NEW x \in gone
            PROVE  x \in Book \X Nat /\ x[2] <= Len(journal[x[1]]) /\ Off(journal, resting, x[1], x[2])
        <4>1. PICK k \in 1..Len(b.ids) : x = <<b.ids[k].u, b.ids[k].seq>> OBVIOUS
        <4>2. x[1] = b.ids[k].u /\ x[2] = b.ids[k].seq BY <4>1
        <4> QED BY <3>2, <3>3, <4>1, <4>2
      <3> HIDE DEF gone, b
      <3>5. undone' = undone \cup gone BY <1>1, <2>1
      <3> QED BY <1>4, <3>4, <3>5 DEF UndoneOK
    <2>2. CASE ~ (b.aborted /\ ~ b.warned) BY <1>1, <1>4, <2>2
    <2> QED BY <2>1, <2>2
  <1>13. Core(journal, resting, named, idem, sealed, req', minted, undone', IndexNow)
    BY <1>4, <1>7, <1>8, <1>9, <1>10, <1>11, <1>12 DEF Core
  <1>14. CoreNow' BY <1>1, <1>13 DEF CoreNow, venue, records, IndexNow
  <1> QED BY <1>1, <1>14, SameRest
-----------------------------------------------------------------------------
(* Failures.                                                                *)

LEMMA FailedBecomes ==
  ASSUME FlowInv, NEW c \in Client, Waiting(req[c]), Failed(c)
  PROVE  req' = [req EXCEPT ![c] = FailedReq(req[c])]
  BY DEF Failed, FailedReq, Back, BatchOf

LEMMA SubmitRefusedKeeps ==
  ASSUME FlowInv, NEW c \in Client, SubmitRefused(c)
  PROVE  FlowInv'
  <1>1. /\ req[c].pc = "sent" /\ Failed(c) /\ UNCHANGED <<venue, records, minted, undone>>
        /\ UNCHANGED <<journal, told, placed>>
    BY DEF SubmitRefused, venue
  <1>2. Waiting(req[c]) /\ req[c].pc # "ran" BY <1>1 DEF Waiting
  <1> DEFINE r == FailedReq(req[c])
  <1>3. req' = [req EXCEPT ![c] = r] BY <1>1, <1>2, FailedBecomes
  <1>4. BatchFits(req[c]) /\ ReceiptsOK(journal, c, req[c], resting) /\ req[c] \in RequestState BY NowIs
  <1>5. /\ r \in RequestState /\ r.pc # "ran" /\ BatchFits(r) /\ ReceiptsOK(journal, c, r, resting)
        /\ \A x, u : Claims(r, x, u) => Claims(req[c], x, u)
    BY <1>2, <1>4, FailedIs
  <1> HIDE DEF r
  <1>6. CoreNow' BY <1>1, <1>2, <1>3, <1>5, RequestStep
  <1> QED BY <1>1, <1>6, SameRest

LEMMA NoTrackingKeeps ==
  ASSUME NEW P, SessionsOK(P), NEW f \in Fix, NEW S, S = [P EXCEPT ![f] = NoTracking]
  PROVE  SessionsOK(S)
  <1>1. P \in [Fix -> [Key -> TrackedOrder \cup {None}]] BY DEF SessionsOK
  <1>2. NoTracking \in [Key -> TrackedOrder \cup {None}] /\ {k \in Key : NoTracking[k] # None} = {}
    BY DEF NoTracking
  <1>3. S \in [Fix -> [Key -> TrackedOrder \cup {None}]] /\ S[f] = NoTracking
        /\ \A g \in Fix : g # f => S[g] = P[g]
    BY <1>1, <1>2
  <1>4. ASSUME NEW g \in Fix
        PROVE  /\ IsFiniteSet({k \in Key : S[g][k] # None})
               /\ Cardinality({k \in Key : S[g][k] # None}) <= MaxTracked
    <2>1. CASE g = f
      <3>1. {k \in Key : S[g][k] # None} = {} BY <1>2, <1>3, <2>1
      <3>2. IsFiniteSet({}) /\ Cardinality({}) = 0 /\ MaxTracked \in Nat BY FS_EmptySet, Parties
      <3>3. Cardinality({}) <= MaxTracked BY <3>2
      <3> QED BY <3>1, <3>2, <3>3, Zenon
    <2>2. CASE g # f BY <1>3, <2>2 DEF SessionsOK
    <2> QED BY <2>1, <2>2
  <1> QED BY <1>3, <1>4 DEF SessionsOK

LEMMA HangUpKeeps ==
  ASSUME FlowInv, NEW c \in Client, HangUp(c)
  PROVE  FlowInv'
  <1> DEFINE r == Idle
  <1>1. /\ req[c].pc # "ran" /\ UNCHANGED <<venue, records, minted, undone>>
        /\ journal' = journal /\ told' = told /\ placed' = Disconnected(c) /\ req' = [req EXCEPT ![c] = r]
    BY DEF HangUp, venue
  <1>2. /\ r \in RequestState /\ r.pc # "ran" /\ BatchFits(r) /\ ReceiptsOK(journal, c, r, resting)
        /\ \A x, u : ~ Claims(r, x, u)
    BY IdleIs
  <1> HIDE DEF r
  <1>3. CoreNow' BY <1>1, <1>2, RequestStep
  <1>4. ToldOK(journal, told) /\ SessionsOK(placed) BY NowIs
  <1>5. SessionsOK(placed') BY <1>1, <1>4, NoTrackingKeeps DEF Disconnected
  <1> QED BY <1>1, <1>3, <1>4, <1>5 DEF FlowInv, CoreNow

\* An order leaves the book of u, and its id with it.
LEMMA TradeKeeps ==
  ASSUME FlowInv, NEW u \in Book, NEW i \in resting[u], Trade(u, i)
  PROVE  FlowInv'
  <1>1. /\ resting' = [resting EXCEPT ![u] = resting[u] \ {i}] /\ journal' = journal /\ told' = told
        /\ named' = [named EXCEPT ![u] = NamedWithout(u, {i})]
        /\ placed' = placed /\ idem' = idem /\ sealed' = sealed /\ req' = req /\ minted' = minted
        /\ undone' = undone /\ IndexNow' = IndexNow
    BY DEF Trade, records, IndexNow
  <1>2. /\ CoreTypes(resting, named, idem, sealed, minted, req) /\ Filed(journal)
        /\ PlacedOK(journal, resting, named) /\ IdemOK(journal, idem) /\ RanOK(journal, req)
        /\ IndexOK(journal, req, sealed, IndexNow) /\ ClaimsOK(req, minted)
        /\ BatchOK(journal, req, resting) /\ UndoneOK(journal, resting, undone)
        /\ resting \in [Book -> SUBSET Nat]
    BY NowIs
  <1>a. named \in [Book -> SUBSET Nat] /\ NamedWithout(u, {i}) \in SUBSET Nat
    BY <1>2 DEF CoreTypes, NamedWithout
  <1>3. /\ resting' \in [Book -> SUBSET Nat] /\ \A v \in Book : \A s \in resting'[v] : s \in resting[v]
        /\ named' \in [Book -> SUBSET Nat]
    BY <1>1, <1>2, <1>a
  <1>4. CoreTypes(resting', named', idem, sealed, minted, req) BY <1>2, <1>3 DEF CoreTypes
  <1>5. PlacedOK(journal, resting', named')
    <2> SUFFICES ASSUME NEW v \in Book
                 PROVE  /\ \A s \in named'[v] : s \in resting'[v]
                        /\ \A s \in resting'[v] : /\ s \in 1..Len(journal[v])
                                                  /\ Opens(journal[v][s].out)
                                                  /\ Lone(journal, v, s) => s \in named'[v]
      BY DEF PlacedOK
    <2>1. CASE v # u
      <3>1. named'[v] = named[v] /\ resting'[v] = resting[v] BY <1>1, <1>2, <1>a, <2>1
      <3> QED BY <1>2, <3>1 DEF PlacedOK
    <2>2. CASE v = u
      <3>1. named'[v] = NamedWithout(u, {i}) /\ resting'[v] = resting[u] \ {i} BY <1>1, <1>2, <1>a, <2>2
      <3>2. \A s \in resting[u] : /\ s \in 1..Len(journal[u]) /\ Opens(journal[u][s].out)
                                  /\ Lone(journal, u, s) => s \in named[u]
        BY <1>2 DEF PlacedOK
      <3>3. \A s \in named[u] : s \in resting[u] BY <1>2 DEF PlacedOK
      <3>4. \A s \in NamedWithout(u, {i}) : s \in named[u] /\ s # i BY DEF NamedWithout
      <3>5. ASSUME NEW s \in resting[u], s # i, Lone(journal, u, s) PROVE s \in NamedWithout(u, {i})
        <4>1. s \in named[u] /\ i \in 1..Len(journal[u]) BY <3>2, <3>5
        <4>2. IdOf(u, i) # IdOf(u, s) BY <3>5, <4>1 DEF Lone, IdOf
        <4> QED BY <4>1, <4>2 DEF NamedWithout
      <3> QED BY <2>2, <3>1, <3>2, <3>3, <3>4, <3>5
    <2> QED BY <2>1, <2>2
  <1>6. \A c \in Client : ReceiptsOK(journal, c, req[c], resting')
    <2> SUFFICES ASSUME NEW c \in Client PROVE ReceiptsOK(journal, c, req[c], resting') OBVIOUS
    <2>1. ReceiptsOK(journal, c, req[c], resting) /\ req[c] \in RequestState BY NowIs
    <2>2. ASSUME InBatch(req[c]), req[c].batch.aborted, ~ req[c].batch.warned, NEW k \in 1..UndoneTo(req[c])
          PROVE  Off(journal, resting', req[c].batch.ids[k].u, req[c].batch.ids[k].seq)
      <3> DEFINE e == req[c].batch.ids[k]
      <3>1. Off(journal, resting, e.u, e.seq) BY <2>1, <2>2 DEF ReceiptsOK
      <3>2. e.u \in Book
        <4>1. BatchFits(req[c]) /\ req[c].batch \in BatchState BY <2>1, <2>2, NowIs, RequestShape
        <4>2. req[c].batch.ids \in Seq(ItemPlaced) /\ req[c].batch.undo \in Nat BY <4>1, BatchFields
        <4>3. req[c].batch.undo <= Len(req[c].batch.ids) BY <2>2, <4>1 DEF BatchFits
        <4>4. k \in 1..Len(req[c].batch.ids) BY <4>2, <4>3 DEF UndoneTo
        <4>5. e \in ItemPlaced BY <4>2, <4>4, ElementOf
        <4> QED BY <4>5 DEF ItemPlaced
      <3> HIDE DEF e
      <3>3. Off(journal, resting', e.u, e.seq) BY <1>3, <3>1, <3>2 DEF Off
      <3> QED BY <3>3 DEF e
    <2> QED BY <2>1, <2>2 DEF ReceiptsOK
  <1>7. BatchOK(journal, req, resting') BY <1>2, <1>6 DEF BatchOK
  <1>8. UndoneOK(journal, resting', undone)
    <2>1. \A x \in undone : x[1] \in Book BY <1>2 DEF UndoneOK
    <2> QED BY <1>2, <1>3, <2>1 DEF UndoneOK, Off
  <1>9. Core(journal, resting', named', idem, sealed, req, minted, undone, IndexNow)
    BY <1>2, <1>4, <1>5, <1>7, <1>8 DEF Core
  <1>10. CoreNow' BY <1>1, <1>9 DEF CoreNow
  <1> QED BY <1>1, <1>10, SameRest
-----------------------------------------------------------------------------
(* The turn: what the executor makes of a command.                          *)

BindsAs(m, out) ==
    (m.op = "add" /\ out.is = "entered") \/ (m.op = "replace" /\ out.is \in {"replaced", "cancelled only"})

\* What the effect e of command m of account a may be.
Result(m, a, e) ==
    /\ e.out \in Out /\ e.rests \in BOOLEAN /\ \A s \in e.gone : s \in resting[m.u]
    /\ e.rests => Binding(e.out) /\ Opens(e.out)
    /\ Binding(e.out) => BindsAs(m, e.out)
    /\ m.op = "add" => e.out.is \in {"entered", "rejected", "duplicate"}
    /\ m.op = "cancel" =>
         \A s \in named[m.u] : IdOf(m.u, s) = m.id /\ journal[m.u][s].account = a => s \in e.gone
    /\ e.out.is = "duplicate" => /\ m.op = "add" /\ m.key # None /\ idem[m.u][<<a, m.key>>] # None
                                 /\ e.out.id = idem[m.u][<<a, m.key>>].id
                                 /\ e.out.seq = idem[m.u][<<a, m.key>>].seq
                                 /\ e.out.terminal = idem[m.u][<<a, m.key>>].terminal
    /\ m.op = "add" /\ Binding(e.out) /\ m.key # None => idem[m.u][<<a, m.key>>] = None
    /\ m.op = "add" /\ m.key # None /\ idem[m.u][<<a, m.key>>] = None => e.out.is \in {"entered", "rejected"}

LEMMA WordIs ==
  ASSUME NEW y \in {"entered", "rejected", "cancelled", "replaced", "cancelled only"}
  PROVE  /\ Is(y) \in Out /\ Is(y).is = y
         /\ Binding(Is(y)) <=> y \in {"entered", "replaced", "cancelled only"}
         /\ y \in {"entered", "replaced"} => Opens(Is(y))
  <1>1. Is(y).is = y /\ Is(y) \in Out BY DEF Is, Out
  <1>2. ASSUME y \in {"entered", "replaced"} PROVE Opens(Is(y))
    <2>1. y # "cancelled only" BY <1>2
    <2> QED BY <1>1, <2>1, Zenon DEF Opens
  <1> QED BY <1>1, <1>2 DEF Binding

LEMMA OutcomeIs ==
  ASSUME FlowInv, NEW m \in Cmd, NEW a \in Account, NEW e \in Outcomes(m, a)
  PROVE  Result(m, a, e)
  <1> DEFINE u == m.u
             ak == <<a, m.key>>
             first == idem[u][ak]
             target == {s \in named[u] : IdOf(u, s) = m.id /\ journal[u][s].account = a}
             mine == Owned(u, a)
             none == {}
  <1>1. u \in Book /\ PlacedOK(journal, resting, named) BY CmdIs, NowIs
  <1>2. idem \in [Book -> [Account \X Key -> Idempotent \cup {None}]] BY NowIs DEF CoreTypes
  <1>a. /\ \A s \in target : s \in resting[u]
        /\ \A s \in mine : s \in resting[u] /\ s \in 1..Len(journal[u])
        /\ \A s \in none : s \in resting[u]
    BY <1>1 DEF PlacedOK, Owned
  <1>3. CASE m.op = "add"
    <2>1. m \in AddCmd BY <1>3, CmdIs
    <2>2. m.key \in Key \cup {None} BY <2>1 DEF AddCmd
    <2>4. CASE m.key = None \/ first = None
      <3>1. \E o \in {"entered", "rejected"}, y \in BOOLEAN : e = Effect(Is(o), none, y) /\ (y => o = "entered")
        <4>1. e \in {Effect(Is("entered"), {}, FALSE), Effect(Is("rejected"), {}, FALSE)}
                      \cup {Effect(Is("entered"), {}, TRUE) : k \in {m.kind} \cap {"limit"}}
          BY <1>3, <2>4 DEF Outcomes
        <4> QED BY <4>1
      <3>2. PICK o \in {"entered", "rejected"}, y \in BOOLEAN : e = Effect(Is(o), none, y) /\ (y => o = "entered")
        BY <3>1
      <3> HIDE DEF none, first, u
      <3>3. e.out = Is(o) /\ e.gone = none /\ e.rests = y BY <3>2 DEF Effect
      <3>4. /\ e.out \in Out /\ e.out.is = o /\ (Binding(e.out) <=> o = "entered")
            /\ o = "entered" => Opens(e.out)
        BY <3>3, WordIs
      <3>5. m.op # "cancel" /\ (m.key = None \/ idem[m.u][<<a, m.key>>] = None) BY <1>3, <2>4 DEF first, u
      <3>6. \A s \in e.gone : s \in resting[m.u] BY <1>a, <3>3 DEF u
      <3> QED BY <1>3, <3>2, <3>3, <3>4, <3>5, <3>6 DEF Result, BindsAs
    <2>5. CASE ~ (m.key = None \/ first = None)
      <3>1. first \in Idempotent
        <4>1. ak \in Account \X Key BY <2>2, <2>5
        <4> QED BY <1>1, <1>2, <2>5, <4>1
      <3> DEFINE dup == [is |-> "duplicate", id |-> first.id, seq |-> first.seq, terminal |-> first.terminal]
      <3>2. e = Effect(dup, none, FALSE) \/ e = Effect(Is("rejected"), none, FALSE)
        BY <1>3, <2>5 DEF Outcomes
      <3>3. dup \in Out /\ dup.is = "duplicate" /\ dup.id = first.id /\ dup.seq = first.seq
            /\ dup.terminal = first.terminal /\ ~ Binding(dup)
        <4>1. /\ first.id \in OrderId /\ first.seq \in Nat /\ first.terminal \in {"entered", "rejected"}
          BY <3>1 DEF Idempotent
        <4>2. dup \in Out BY <4>1 DEF Out
        <4> QED BY <4>2 DEF Binding
      <3> HIDE DEF none, first, u, dup
      <3>4. e.gone = none /\ e.rests = FALSE /\ (e.out = dup \/ e.out = Is("rejected")) BY <3>2 DEF Effect
      <3>5. m.op # "cancel" /\ m.key # None /\ first = idem[m.u][<<a, m.key>>] /\ first # None
        BY <1>3, <2>5 DEF first, u
      <3>6. \A s \in e.gone : s \in resting[m.u] BY <1>a, <3>4 DEF u
      <3>7. CASE e.out = dup BY <1>3, <3>3, <3>4, <3>5, <3>6, <3>7 DEF Result, BindsAs
      <3>8. CASE e.out = Is("rejected")
        <4>1. e.out \in Out /\ e.out.is = "rejected" /\ ~ Binding(e.out) BY <3>8, WordIs
        <4> QED BY <1>3, <3>4, <3>5, <3>6, <4>1 DEF Result, BindsAs
      <3> QED BY <3>4, <3>7, <3>8
    <2> QED BY <2>4, <2>5
  <1>4. CASE m.op \in {"cancel", "replace"} /\ target = {}
    <2>1. e = Effect(Is("rejected"), none, FALSE) BY <1>4 DEF Outcomes
    <2>2. \A s \in named[u] : IdOf(u, s) = m.id /\ journal[u][s].account = a => s \in none BY <1>4
    <2> HIDE DEF none, u
    <2>3. e.out = Is("rejected") /\ e.gone = none /\ e.rests = FALSE BY <2>1 DEF Effect
    <2>4. e.out \in Out /\ e.out.is = "rejected" /\ ~ Binding(e.out) BY <2>3, WordIs
    <2>5. m.op # "add" BY <1>4
    <2> QED BY <1>a, <2>2, <2>3, <2>4, <2>5 DEF Result, BindsAs, u
  <1>5. CASE m.op = "cancel" /\ target # {}
    <2>1. e = Effect(Is("cancelled"), target, FALSE) BY <1>5 DEF Outcomes
    <2>2. \A s \in named[u] : IdOf(u, s) = m.id /\ journal[u][s].account = a => s \in target OBVIOUS
    <2> HIDE DEF target, u
    <2>3. e.out = Is("cancelled") /\ e.gone = target /\ e.rests = FALSE BY <2>1 DEF Effect
    <2>4. e.out \in Out /\ e.out.is = "cancelled" /\ ~ Binding(e.out) BY <2>3, WordIs
    <2> QED BY <1>5, <1>a, <2>2, <2>3, <2>4 DEF Result, BindsAs, u
  <1>6. CASE m.op = "replace" /\ target # {}
    <2>1. e \in {Effect(Is("replaced"), target, TRUE), Effect(Is("replaced"), target, FALSE),
                 Effect(Is("cancelled only"), target, FALSE)}
      BY <1>6 DEF Outcomes
    <2>2. \E o \in {"replaced", "cancelled only"}, y \in BOOLEAN :
            e = Effect(Is(o), target, y) /\ (y => o = "replaced")
      BY <2>1
    <2>3. PICK o \in {"replaced", "cancelled only"}, y \in BOOLEAN :
            e = Effect(Is(o), target, y) /\ (y => o = "replaced")
      BY <2>2
    <2> HIDE DEF target, u
    <2>4. e.out = Is(o) /\ e.gone = target /\ e.rests = y BY <2>3 DEF Effect
    <2>5. e.out \in Out /\ e.out.is = o /\ Binding(e.out) /\ (o = "replaced" => Opens(e.out))
      BY <2>4, WordIs
    <2> QED BY <1>6, <1>a, <2>3, <2>4, <2>5 DEF Result, BindsAs, u
  <1>7. CASE m.op = "sweep"
    <2> DEFINE ids == {IdOf(u, s) : s \in mine}
               swept == [is |-> "swept", ids |-> ids]
    <2>1. e = Effect(swept, mine, FALSE) BY <1>7 DEF Outcomes
    <2>2. ids \in SUBSET OrderId BY <1>1, <1>a, IdIsOrder
    <2> HIDE DEF ids
    <2>3. swept \in Out /\ swept.is = "swept" /\ ~ Binding(swept) BY <2>2 DEF Out, Binding
    <2> HIDE DEF swept, mine, u
    <2>4. e.out = swept /\ e.gone = mine /\ e.rests = FALSE BY <2>1 DEF Effect
    <2> QED BY <1>7, <1>a, <2>3, <2>4 DEF Result, BindsAs, u
  <1> QED BY <1>3, <1>4, <1>5, <1>6, <1>7, CmdIs

\* K has the turns of J, and perhaps more.
Extends(J, K) ==
    \A v \in Book : /\ Len(J[v]) \in Nat /\ Len(K[v]) \in Nat /\ Len(J[v]) <= Len(K[v])
                    /\ \A i \in 1..Len(J[v]) : K[v][i] = J[v][i]

\* K is J with the turn t at the end of u.
Grown(J, u, t, K) ==
    /\ Filed(K) /\ Extends(J, K) /\ Len(K[u]) = Len(J[u]) + 1 /\ K[u][Len(J[u]) + 1] = t
    /\ \A v \in Book : v # u => K[v] = J[v]
    /\ \A v \in Book : \A i \in 1..Len(K[v]) :
         (v = u /\ i = Len(J[u]) + 1 /\ K[v][i] = t) \/ (i \in 1..Len(J[v]) /\ K[v][i] = J[v][i])

LEMMA GrownIs ==
  ASSUME NEW J, Filed(J), NEW u \in Book, NEW t \in Bound, t.cmd.u = u, t.seq = Len(J[u]) + 1,
         NEW K, K = [J EXCEPT ![u] = Append(J[u], t)]
  PROVE  Grown(J, u, t, K)
  <1>1. J \in [Book -> Seq(Bound)] BY DEF Filed
  <1> DEFINE s == Append(J[u], t)
             n == Len(J[u])
  <1>2. /\ s \in Seq(Bound) /\ n \in Nat /\ Len(s) = n + 1 /\ s[n + 1] = t
        /\ \A i \in 1..n : s[i] = J[u][i]
    <2>1. J[u] \in Seq(Bound) BY <1>1
    <2> QED BY <2>1
  <1>3. K \in [Book -> Seq(Bound)] /\ K[u] = s /\ \A v \in Book : v # u => K[v] = J[v]
    BY <1>1, <1>2
  <1> HIDE DEF s
  <1>4. Extends(J, K)
    <2> SUFFICES ASSUME NEW v \in Book
                 PROVE  /\ Len(J[v]) \in Nat /\ Len(K[v]) \in Nat /\ Len(J[v]) <= Len(K[v])
                        /\ \A i \in 1..Len(J[v]) : K[v][i] = J[v][i]
      BY DEF Extends
    <2>1. Len(J[v]) \in Nat BY <1>1
    <2>2. CASE v = u BY <1>2, <1>3, <2>1, <2>2
    <2>3. CASE v # u BY <1>3, <2>1, <2>3
    <2> QED BY <2>2, <2>3
  <1>5. ASSUME NEW v \in Book, NEW i \in 1..Len(K[v])
        PROVE  (v = u /\ i = n + 1 /\ K[v][i] = t) \/ (i \in 1..Len(J[v]) /\ K[v][i] = J[v][i])
    <2>1. CASE v = u
      <3>1. i = n + 1 \/ i \in 1..n BY <1>2, <1>3, <2>1
      <3> QED BY <1>2, <1>3, <2>1, <3>1
    <2>2. CASE v # u BY <1>3, <2>2
    <2> QED BY <2>1, <2>2
  <1>6. Filed(K)
    <2>1. ASSUME NEW v \in Book, NEW i \in 1..Len(K[v]) PROVE K[v][i].cmd.u = v /\ K[v][i].seq = i
      <3>1. CASE v = u /\ i = n + 1 /\ K[v][i] = t BY <3>1
      <3>2. CASE i \in 1..Len(J[v]) /\ K[v][i] = J[v][i] BY <3>2 DEF Filed
      <3> QED BY <1>5, <3>1, <3>2
    <2> QED BY <1>3, <2>1 DEF Filed
  <1>7. Len(K[u]) = Len(J[u]) + 1 /\ K[u][Len(J[u]) + 1] = t BY <1>2, <1>3
  <1> QED BY <1>3, <1>4, <1>5, <1>6, <1>7 DEF Grown

LEMMA SameExtends ==
  ASSUME NEW J, Filed(J)
  PROVE  Extends(J, J)
  <1>1. \A v \in Book : Len(J[v]) \in Nat BY DEF Filed
  <1> QED BY <1>1 DEF Extends

LEMMA OpenedGrows ==
  ASSUME NEW J, NEW K, Extends(J, K), NEW u \in Book, NEW i, NEW ak, NEW id, Opened(J, u, i, ak, id)
  PROVE  Opened(K, u, i, ak, id)
  <1>1. i \in 1..Len(J[u]) /\ OpensUnder(J[u][i], ak) /\ Places(J[u][i]) = id BY DEF Opened
  <1>2. i \in 1..Len(K[u]) /\ K[u][i] = J[u][i] BY <1>1 DEF Extends
  <1> QED BY <1>1, <1>2 DEF Opened

LEMMA ToldGrows ==
  ASSUME NEW J, NEW K, Extends(J, K), NEW X, ToldOK(J, X)
  PROVE  ToldOK(K, X)
  <1> SUFFICES ASSUME NEW x \in X, x.out = "entered"
               PROVE  /\ x.u \in Book /\ x.key \in Key /\ x.account \in Account
                      /\ Opened(K, x.u, x.seq, <<x.account, x.key>>, x.id)
    BY DEF ToldOK
  <1>1. /\ x.u \in Book /\ x.key \in Key /\ x.account \in Account
        /\ Opened(J, x.u, x.seq, <<x.account, x.key>>, x.id)
    BY DEF ToldOK
  <1> QED BY <1>1, OpenedGrows

LEMMA RanGrows ==
  ASSUME NEW J, NEW K, Extends(J, K), NEW R \in [Client -> RequestState], RanOK(J, R)
  PROVE  RanOK(K, R)
  <1>1. ASSUME NEW c \in Client, R[c].pc = "ran", R[c].turn.out.is = "duplicate",
               R[c].turn.out.terminal = "entered"
        PROVE  Opened(K, R[c].cmd.u, R[c].turn.out.seq, <<AccountOf[c], R[c].cmd.key>>, R[c].turn.out.id)
    <2>1. Opened(J, R[c].cmd.u, R[c].turn.out.seq, <<AccountOf[c], R[c].cmd.key>>, R[c].turn.out.id)
      BY <1>1 DEF RanOK
    <2>2. R[c].cmd.u \in Book
      <3>1. R[c] \in RequestState /\ Waiting(R[c]) BY <1>1 DEF Waiting
      <3>2. R[c].cmd \in Cmd BY <3>1, RequestShape
      <3> QED BY <3>2, CmdIs
    <2> QED BY <2>1, <2>2, OpenedGrows
  <1> QED BY <1>1 DEF RanOK

\* The turns of K that are not in J: one at most, under the key of ak.
OneUnder(J, K, u, ak, n) ==
    \A v \in Book : \A i \in 1..Len(K[v]) :
        \/ i \in 1..Len(J[v]) /\ K[v][i] = J[v][i]
        \/ v = u /\ i = n /\ <<K[v][i].account, K[v][i].cmd.key>> = ak

\* The first placement under a key: remembered with the turn that entered it, or refused.
LEMMA IdemGrows ==
  ASSUME NEW J, NEW K, Filed(J), Extends(J, K), NEW I, IdemOK(J, I),
         I \in [Book -> [Account \X Key -> Idempotent \cup {None}]],
         NEW u \in Book, NEW ak \in Account \X Key, I[u][ak] = None, NEW e \in Idempotent,
         OneUnder(J, K, u, ak, e.seq),
         e.terminal = "entered" => Opened(K, u, e.seq, ak, e.id),
         NEW L, L = [I EXCEPT ![u][ak] = e]
  PROVE  L \in [Book -> [Account \X Key -> Idempotent \cup {None}]] /\ IdemOK(K, L)
  <1>1. /\ L \in [Book -> [Account \X Key -> Idempotent \cup {None}]] /\ L[u][ak] = e
        /\ \A v \in Book, x \in Account \X Key : v # u \/ x # ak => L[v][x] = I[v][x]
    <2> DEFINE f == [I[u] EXCEPT ![ak] = e]
    <2>1. L = [I EXCEPT ![u] = f] OBVIOUS
    <2>2. /\ f \in [Account \X Key -> Idempotent \cup {None}] /\ f[ak] = e
          /\ \A x \in Account \X Key : x # ak => f[x] = I[u][x]
      OBVIOUS
    <2> HIDE DEF f
    <2>3. /\ L \in [Book -> [Account \X Key -> Idempotent \cup {None}]] /\ L[u] = f
          /\ \A v \in Book : v # u => L[v] = I[v]
      BY <2>1, <2>2
    <2> QED BY <2>2, <2>3
  <1>2. e # None BY NoneIsNoValue
  <1>3. ASSUME NEW v \in Book, NEW i \in 1..Len(K[v]), K[v][i].cmd.op = "add", K[v][i].cmd.key # None
        PROVE  /\ L[v][<<K[v][i].account, K[v][i].cmd.key>>] # None
               /\ L[v][<<K[v][i].account, K[v][i].cmd.key>>].seq = i
    <2>1. CASE i \in 1..Len(J[v]) /\ K[v][i] = J[v][i]
      <3> DEFINE x == <<J[v][i].account, J[v][i].cmd.key>>
      <3>1. I[v][x] # None /\ I[v][x].seq = i BY <1>3, <2>1 DEF IdemOK
      <3>2. x \in Account \X Key
        <4>1. J[v][i] \in Bound BY <2>1 DEF Filed
        <4>2. J[v][i].account \in Account /\ J[v][i].cmd.key \in Key \cup {None} BY <4>1, BoundIs
        <4> QED BY <1>3, <2>1, <4>2
      <3>3. L[v][x] = I[v][x] BY <1>1, <3>1, <3>2
      <3> QED BY <2>1, <3>1, <3>3
    <2>2. CASE v = u /\ i = e.seq /\ <<K[v][i].account, K[v][i].cmd.key>> = ak
      BY <1>1, <1>2, <2>2
    <2> QED BY <2>1, <2>2 DEF OneUnder
  <1>4. ASSUME NEW v \in Book, NEW x \in Account \X Key, L[v][x] # None, L[v][x].terminal = "entered"
        PROVE  Opened(K, v, L[v][x].seq, x, L[v][x].id)
    <2>1. CASE v = u /\ x = ak BY <1>1, <1>4, <2>1
    <2>2. CASE ~ (v = u /\ x = ak)
      <3>1. L[v][x] = I[v][x] BY <1>1, <2>2
      <3>2. Opened(J, v, I[v][x].seq, x, I[v][x].id) BY <1>4, <3>1 DEF IdemOK
      <3>3. Opened(K, v, I[v][x].seq, x, I[v][x].id) BY <3>2, OpenedGrows
      <3> QED BY <3>1, <3>3
    <2> QED BY <2>1, <2>2
  <1> QED BY <1>1, <1>3, <1>4 DEF IdemOK

\* A turn that no idempotency map looks at.
LEMMA IdemStays ==
  ASSUME NEW J, NEW K, Extends(J, K), NEW I, IdemOK(J, I),
         \A v \in Book : \A i \in 1..Len(K[v]) :
           \/ i \in 1..Len(J[v]) /\ K[v][i] = J[v][i]
           \/ ~ (K[v][i].cmd.op = "add" /\ K[v][i].cmd.key # None)
  PROVE  IdemOK(K, I)
  <1>1. \A v \in Book : \A x \in Account \X Key :
          I[v][x] # None /\ I[v][x].terminal = "entered" => Opened(K, v, I[v][x].seq, x, I[v][x].id)
    BY OpenedGrows DEF IdemOK
  <1>2. \A v \in Book : \A i \in 1..Len(K[v]) :
          K[v][i].cmd.op = "add" /\ K[v][i].cmd.key # None =>
            /\ I[v][<<K[v][i].account, K[v][i].cmd.key>>] # None
            /\ I[v][<<K[v][i].account, K[v][i].cmd.key>>].seq = i
    <2> SUFFICES ASSUME NEW v \in Book, NEW i \in 1..Len(K[v]),
                        K[v][i].cmd.op = "add", K[v][i].cmd.key # None
                 PROVE  /\ I[v][<<K[v][i].account, K[v][i].cmd.key>>] # None
                        /\ I[v][<<K[v][i].account, K[v][i].cmd.key>>].seq = i
      OBVIOUS
    <2>1. i \in 1..Len(J[v]) /\ K[v][i] = J[v][i] OBVIOUS
    <2> QED BY <2>1 DEF IdemOK
  <1> QED BY <1>1, <1>2 DEF IdemOK

LEMMA TurnIs ==
  ASSUME FlowInv, NEW c \in Client, Waiting(req[c]), NEW out \in Out, NEW t, t = TurnOf(c, out)
  PROVE  /\ t \in TurnRec /\ t.cmd = req[c].cmd /\ t.account = AccountOf[c] /\ t.out = out
         /\ t.seq = Len(journal[req[c].cmd.u]) + 1
         /\ req[c].cmd \in Cmd /\ req[c].cmd.u \in Book /\ AccountOf[c] \in Account
         /\ Places(t) = Places(req[c])
         /\ BindsAs(req[c].cmd, out) => t \in Bound
  <1> DEFINE m == req[c].cmd
             n == Len(journal[m.u]) + 1
  <1>1. m \in Cmd BY NowIs, RequestShape
  <1>2. m.u \in Book BY <1>1, CmdIs
  <1>3. n \in Nat \ {0}
    <2>1. journal[m.u] \in Seq(Bound) BY <1>2, NowIs DEF Filed
    <2> QED BY <2>1
  <1>4. AccountOf[c] \in Account BY DEF Account
  <1>5. t = [cmd |-> m, account |-> AccountOf[c], seq |-> n, out |-> out] BY DEF TurnOf
  <1> HIDE DEF m, n
  <1>6. t \in TurnRec /\ t.cmd = m /\ t.account = AccountOf[c] /\ t.out = out /\ t.seq = n
    BY <1>1, <1>3, <1>4, <1>5 DEF TurnRec
  <1>7. Places(t) = Places(req[c]) BY <1>6 DEF Places, m
  <1>8. ASSUME m.op = "add", out.is = "entered" PROVE t \in Bound
    <2>1. m \in AddCmd BY <1>1, <1>8, CmdIs
    <2>2. out \in [is : {"entered"}] BY <1>8 DEF Out
    <2>3. t \in AddTurn BY <1>3, <1>4, <1>5, <2>1, <2>2 DEF AddTurn
    <2> QED BY <2>3 DEF Bound
  <1>9. ASSUME m.op = "replace", out.is \in {"replaced", "cancelled only"} PROVE t \in Bound
    <2>1. m \in ReplaceCmd BY <1>1, <1>9, CmdIs
    <2>2. out \in [is : {"replaced", "cancelled only"}] BY <1>9 DEF Out
    <2> DEFINE O == [is : {"replaced", "cancelled only"}]
               S == Nat \ {0}
    <2>3. ReplaceTurn = [cmd : ReplaceCmd, account : Account, seq : S, out : O] BY DEF ReplaceTurn
    <2>4. out \in O /\ n \in S BY <1>3, <2>2
    <2> HIDE DEF O, S
    <2>5. t \in ReplaceTurn BY <1>4, <1>5, <2>1, <2>3, <2>4
    <2> QED BY <2>5 DEF Bound
  <1> QED BY <1>1, <1>2, <1>4, <1>6, <1>7, <1>8, <1>9 DEF BindsAs, m, n

LEMMA JournalGrows ==
  ASSUME FlowInv, NEW c \in Client, req[c].pc = "sent", NEW e \in Outcomes(req[c].cmd, AccountOf[c]),
         Execute(c, e)
  PROVE  /\ Result(req[c].cmd, AccountOf[c], e)
         /\ Filed(journal') /\ Extends(journal, journal')
         /\ Binding(e.out) => Grown(journal, req[c].cmd.u, TurnOf(c, e.out), journal')
         /\ ~ Binding(e.out) => journal' = journal
  <1> DEFINE m == req[c].cmd
             u == m.u
             out == e.out
             t == TurnOf(c, out)
             K == journal'
  <1>1. Waiting(req[c]) BY DEF Waiting
  <1>2. req[c] \in RequestState /\ Filed(journal) BY NowIs
  <1>3. m \in Cmd /\ AccountOf[c] \in Account BY <1>1, <1>2, RequestShape DEF Account
  <1>4. Result(m, AccountOf[c], e) BY <1>3, OutcomeIs
  <1>5. out \in Out BY <1>4 DEF Result
  <1>6. u \in Book BY <1>3, CmdIs
  <1>7. CASE Binding(out)
    <2>1. journal' = [journal EXCEPT ![u] = Append(journal[u], t)] BY <1>7 DEF Execute
    <2>2. BindsAs(m, out)
      BY <1>4, <1>7 DEF Result
    <2>3. t \in Bound /\ t.cmd = m /\ t.seq = Len(journal[u]) + 1 BY <1>1, <1>5, <2>2, TurnIs
    <2>4. t.cmd.u = u BY <2>3
    <2>5. t = TurnOf(c, out) OBVIOUS
    <2> HIDE DEF t, u, out, m
    <2>6. Grown(journal, u, t, journal') BY <1>2, <1>6, <2>1, <2>3, <2>4, GrownIs
    <2>7. Filed(journal') /\ Extends(journal, journal') BY <2>6 DEF Grown
    <2> QED BY <1>4, <1>7, <2>6, <2>7 DEF t, u, out, m
  <1>8. CASE ~ Binding(out)
    <2>1. journal' = journal BY <1>8 DEF Execute
    <2>2. Extends(journal, journal) BY <1>2, SameExtends
    <2> QED BY <1>2, <1>4, <1>8, <2>1, <2>2
  <1> QED BY <1>7, <1>8

\* The book of u and the orders reached by their id after the effect e with the turn t.
BookAfter(u, e, t) == (resting[u] \ e.gone) \cup {s \in {t.seq} : e.rests}
NamedAfter(u, e, t) ==
    IF e.rests
    THEN (NamedWithout(u, e.gone) \ {s \in NamedWithout(u, e.gone) : IdOf(u, s) = Places(t)}) \cup {t.seq}
    ELSE NamedWithout(u, e.gone)

\* Where an execution leaves the books: nothing but its own order is new, what left left.
LEMMA BooksAfter ==
  ASSUME FlowInv, NEW c \in Client, req[c].pc = "sent", NEW e \in Outcomes(req[c].cmd, AccountOf[c]),
         Execute(c, e)
  PROVE  /\ resting' \in [Book -> SUBSET Nat] /\ named' \in [Book -> SUBSET Nat]
         /\ \A v \in Book : \A s \in resting'[v] :
              \/ s \in resting[v] /\ ~ (v = req[c].cmd.u /\ s \in e.gone)
              \/ v = req[c].cmd.u /\ e.rests /\ s = Len(journal[v]) + 1
         /\ PlacedOK(journal', resting', named')
  <1> DEFINE m == req[c].cmd
             u == m.u
             t == TurnOf(c, e.out)
             W == BookAfter(u, e, t)
             L == NamedAfter(u, e, t)
             n == Len(journal[u])
  <1>1. Waiting(req[c]) BY DEF Waiting
  <1>2. /\ req[c] \in RequestState /\ resting \in [Book -> SUBSET Nat] /\ named \in [Book -> SUBSET Nat]
        /\ Filed(journal) /\ PlacedOK(journal, resting, named)
    BY NowIs DEF CoreTypes
  <1>3. m \in Cmd /\ u \in Book BY <1>1, <1>2, RequestShape, CmdIs
  <1>4. /\ Result(m, AccountOf[c], e) /\ Extends(journal, journal')
        /\ Binding(e.out) => Grown(journal, u, t, journal')
        /\ ~ Binding(e.out) => journal' = journal
    BY JournalGrows
  <1>5. resting' = [resting EXCEPT ![u] = W] /\ named' = [named EXCEPT ![u] = L]
    BY DEF Execute, BookAfter, NamedAfter
  <1>6. /\ e.rests => Binding(e.out) /\ Opens(e.out)
        /\ \A s \in e.gone : s \in resting[u]
        /\ e.out \in Out
    BY <1>4 DEF Result
  <1>7. t.seq = n + 1 /\ t.out = e.out BY <1>1, <1>6, TurnIs
  <1>8. n \in Nat BY <1>3, <1>4 DEF Extends
  <1> HIDE DEF t
  <1>9. /\ \A s \in W : (s \in resting[u] /\ s \notin e.gone) \/ (e.rests /\ s = n + 1)
        /\ \A s \in resting[u] : s \notin e.gone => s \in W
        /\ e.rests => n + 1 \in W
    BY <1>7 DEF BookAfter
  <1>10. /\ \A s \in L : (s \in named[u] /\ s \notin e.gone) \/ (e.rests /\ s = n + 1)
         /\ \A s \in named[u] : (\A g \in e.gone : IdOf(u, g) # IdOf(u, s)) /\ (e.rests => IdOf(u, s) # Places(t))
                                  => s \in L
         /\ e.rests => n + 1 \in L
    <2>1. \A s \in NamedWithout(u, e.gone) : s \in named[u] /\ s \notin e.gone BY DEF NamedWithout
    <2>2. \A s \in named[u] : (\A g \in e.gone : IdOf(u, g) # IdOf(u, s)) => s \in NamedWithout(u, e.gone)
      BY DEF NamedWithout
    <2>3. CASE e.rests BY <1>7, <2>1, <2>2, <2>3 DEF NamedAfter
    <2>4. CASE ~ e.rests BY <2>1, <2>2, <2>4 DEF NamedAfter
    <2> QED BY <2>3, <2>4
  <1> HIDE DEF W, L
  <1>11. W \in SUBSET Nat /\ L \in SUBSET Nat
    <2>1. resting[u] \in SUBSET Nat /\ named[u] \in SUBSET Nat BY <1>2, <1>3
    <2> QED BY <1>8, <1>9, <1>10, <2>1
  <1>12. /\ resting' \in [Book -> SUBSET Nat] /\ resting'[u] = W /\ named' \in [Book -> SUBSET Nat] /\ named'[u] = L
         /\ \A v \in Book : v # u => resting'[v] = resting[v] /\ named'[v] = named[v]
    BY <1>2, <1>3, <1>5, <1>11
  <1>13. ASSUME NEW v \in Book, NEW s \in resting'[v]
         PROVE  (s \in resting[v] /\ ~ (v = u /\ s \in e.gone)) \/ (v = u /\ e.rests /\ s = Len(journal[v]) + 1)
    <2>1. CASE v = u BY <1>9, <1>12, <2>1
    <2>2. CASE v # u BY <1>12, <2>2
    <2> QED BY <2>1, <2>2
  <1>14. \A v \in Book : v # u => journal'[v] = journal[v] BY <1>4 DEF Grown
  <1>15. PlacedOK(journal', resting', named')
    <2> SUFFICES ASSUME NEW v \in Book
                 PROVE  /\ \A s \in named'[v] : s \in resting'[v]
                        /\ \A s \in resting'[v] : /\ s \in 1..Len(journal'[v])
                                                  /\ Opens(journal'[v][s].out)
                                                  /\ Lone(journal', v, s) => s \in named'[v]
      BY DEF PlacedOK
    <2>1. CASE v # u
      <3>1. journal'[v] = journal[v] /\ resting'[v] = resting[v] /\ named'[v] = named[v] BY <1>12, <1>14, <2>1
      <3>2. \A s : Lone(journal', v, s) => Lone(journal, v, s) BY <3>1 DEF Lone
      <3> QED BY <1>2, <3>1, <3>2 DEF PlacedOK
    <2>2. CASE v = u
      <3>1. /\ \A s \in named[u] : s \in resting[u]
            /\ \A s \in resting[u] : /\ s \in 1..n /\ Opens(journal[u][s].out)
                                     /\ Lone(journal, u, s) => s \in named[u]
        BY <1>2, <1>3 DEF PlacedOK
      <3>2. \A s \in L : s \in W BY <1>9, <1>10, <3>1
      <3>3. \A i \in 1..n : i \in 1..Len(journal'[u]) /\ journal'[u][i] = journal[u][i] BY <1>3, <1>4 DEF Extends
      <3>4. ASSUME e.rests
            PROVE  n + 1 \in 1..Len(journal'[u]) /\ journal'[u][n + 1] = t /\ Opens(t.out)
        <4>1. Grown(journal, u, t, journal') /\ Opens(t.out) BY <1>4, <1>6, <1>7, <3>4
        <4>2. Len(journal'[u]) = n + 1 /\ journal'[u][n + 1] = t BY <4>1 DEF Grown
        <4> QED BY <1>8, <4>1, <4>2
      <3>5. ASSUME NEW s \in resting[u], s \notin e.gone
            PROVE  /\ s \in 1..Len(journal'[u]) /\ Opens(journal'[u][s].out)
                   /\ Lone(journal', u, s) => s \in L
        <4>1. s \in 1..n /\ journal'[u][s] = journal[u][s] /\ s \in 1..Len(journal'[u]) BY <3>1, <3>3
        <4>2. ASSUME Lone(journal', u, s) PROVE s \in L
          <5>1. Lone(journal, u, s) BY <3>3, <4>1, <4>2 DEF Lone
          <5>2. s \in named[u] BY <3>1, <5>1
          <5>3. \A g \in e.gone : IdOf(u, g) # IdOf(u, s)
            <6> SUFFICES ASSUME NEW g \in e.gone PROVE IdOf(u, g) # IdOf(u, s) OBVIOUS
            <6>1. g # s /\ g \in 1..n BY <1>6, <3>1, <3>5
            <6> QED BY <5>1, <6>1 DEF Lone, IdOf
          <5>4. e.rests => IdOf(u, s) # Places(t)
            <6> SUFFICES ASSUME e.rests PROVE IdOf(u, s) # Places(t) OBVIOUS
            <6>1. n + 1 \in 1..Len(journal'[u]) /\ journal'[u][n + 1] = t /\ n + 1 # s BY <1>8, <3>4, <4>1
            <6> QED BY <4>1, <4>2, <6>1 DEF Lone, IdOf
          <5> QED BY <1>10, <5>2, <5>3, <5>4
        <4> QED BY <3>1, <4>1, <4>2
      <3>6. ASSUME NEW s \in W
            PROVE  /\ s \in 1..Len(journal'[u]) /\ Opens(journal'[u][s].out)
                   /\ Lone(journal', u, s) => s \in L
        <4>1. CASE s \in resting[u] /\ s \notin e.gone BY <3>5, <4>1
        <4>2. CASE e.rests /\ s = n + 1 BY <1>10, <3>4, <4>2
        <4> QED BY <1>9, <4>1, <4>2
      <3>7. resting'[v] = W /\ named'[v] = L BY <1>12, <2>2
      <3> QED BY <2>2, <3>2, <3>6, <3>7
    <2> QED BY <2>1, <2>2
  <1> QED BY <1>12, <1>13, <1>15

\* The idempotency map after the turn.
LEMMA IdemAfter ==
  ASSUME FlowInv, NEW c \in Client, req[c].pc = "sent", NEW e \in Outcomes(req[c].cmd, AccountOf[c]),
         Execute(c, e)
  PROVE  idem' \in [Book -> [Account \X Key -> Idempotent \cup {None}]] /\ IdemOK(journal', idem')
  <1> DEFINE m == req[c].cmd
             a == AccountOf[c]
             u == m.u
             out == e.out
             t == TurnOf(c, out)
             ak == <<a, m.key>>
             n == Len(journal[u]) + 1
  <1>1. /\ Waiting(req[c]) /\ req[c] \in RequestState /\ Filed(journal) /\ IdemOK(journal, idem)
        /\ idem \in [Book -> [Account \X Key -> Idempotent \cup {None}]]
    BY NowIs DEF Waiting, CoreTypes
  <1>2. /\ Result(m, a, e) /\ Extends(journal, journal')
        /\ Binding(out) => Grown(journal, u, t, journal')
        /\ ~ Binding(out) => journal' = journal
    BY JournalGrows
  <1>3. out \in Out BY <1>2 DEF Result
  <1>4. /\ t.cmd = m /\ t.account = a /\ t.out = out /\ t.seq = n
        /\ m \in Cmd /\ u \in Book /\ a \in Account /\ Places(t) = Places(req[c])
    BY <1>1, <1>3, TurnIs
  <1>5. idem' = Remember(m, a, out) BY DEF Execute
  <1>6. n \in Nat BY <1>1, <1>4 DEF Filed
  <1>7. CASE m.op = "add" /\ m.key # None /\ idem[u][ak] = None
    <2> DEFINE x == [id |-> m.id, qty |-> m.qty, kind |-> m.kind, seq |-> n, terminal |-> out.is]
    <2>1. m \in AddCmd BY <1>4, <1>7, CmdIs
    <2>2. /\ m.id \in OrderId /\ m.key \in Key /\ m.qty \in Qty /\ m.kind \in {"limit", "market"}
      BY <1>7, <2>1 DEF AddCmd
    <2>3. out.is \in {"entered", "rejected"} BY <1>2, <1>7 DEF Result
    <2>4. /\ x \in Idempotent /\ x.seq = n /\ x.terminal = out.is /\ x.id = m.id
      BY <1>6, <2>2, <2>3 DEF Idempotent
    <2>5. idem' = [idem EXCEPT ![u][ak] = x] BY <1>5, <1>7 DEF Remember
    <2>6. ak \in Account \X Key BY <1>4, <2>2
    <2>7. Places(req[c]) = m.id BY <1>7 DEF Places
    <2> HIDE DEF x, ak, n, t, u, a, out
    <2>8. OneUnder(journal, journal', u, ak, x.seq)
      <3>1. CASE Binding(out)
        <4>1. Grown(journal, u, t, journal') BY <1>2, <3>1
        <4>2. \A v \in Book : \A i \in 1..Len(journal'[v]) :
               \/ v = u /\ i = n /\ journal'[v][i] = t
               \/ i \in 1..Len(journal[v]) /\ journal'[v][i] = journal[v][i]
          BY <4>1 DEF Grown, n
        <4>3. <<t.account, t.cmd.key>> = ak BY <1>4 DEF ak
        <4> QED BY <2>4, <4>2, <4>3 DEF OneUnder
      <3>2. CASE ~ Binding(out) BY <1>2, <3>2 DEF OneUnder
      <3> QED BY <3>1, <3>2
    <2>9. x.terminal = "entered" => Opened(journal', u, x.seq, ak, x.id)
      <3> SUFFICES ASSUME out.is = "entered" PROVE Opened(journal', u, n, ak, m.id) BY <2>4
      <3>1. Binding(out) BY DEF Binding
      <3>2. Grown(journal, u, t, journal') BY <1>2, <3>1
      <3>3. Len(journal'[u]) = n /\ journal'[u][n] = t BY <3>2 DEF Grown, n
      <3>4. n \in 1..Len(journal'[u])
        <4>1. n - 1 \in Nat
          <5>1. journal[u] \in Seq(Bound) BY <1>1, <1>4 DEF Filed
          <5> QED BY <5>1 DEF n
        <4> QED BY <1>6, <3>3, <4>1
      <3>5. OpensUnder(t, ak) BY <1>4 DEF OpensUnder, Entered, ak
      <3> QED BY <1>4, <2>7, <3>3, <3>4, <3>5 DEF Opened
    <2>10. idem[u][ak] = None BY <1>7
    <2>11. /\ Filed(journal) /\ Extends(journal, journal') /\ IdemOK(journal, idem) /\ u \in Book
           /\ idem \in [Book -> [Account \X Key -> Idempotent \cup {None}]] /\ x \in Idempotent
      BY <1>1, <1>2, <1>4, <2>4
    <2> QED BY <2>5, <2>6, <2>8, <2>9, <2>10, <2>11, IdemGrows
  <1>8. CASE ~ (m.op = "add" /\ m.key # None /\ idem[u][ak] = None)
    <2>1. idem' = idem BY <1>5, <1>8 DEF Remember
    <2>2. Binding(out) => ~ (t.cmd.op = "add" /\ t.cmd.key # None) BY <1>2, <1>4, <1>8 DEF Result
    <2> HIDE DEF out, t, u, a, n, ak
    <2>3. \A v \in Book : \A i \in 1..Len(journal'[v]) :
            \/ i \in 1..Len(journal[v]) /\ journal'[v][i] = journal[v][i]
            \/ ~ (journal'[v][i].cmd.op = "add" /\ journal'[v][i].cmd.key # None)
      <3>1. CASE Binding(out)
        <4>1. Grown(journal, u, t, journal') BY <1>2, <3>1
        <4>2. \A v \in Book : \A i \in 1..Len(journal'[v]) :
               \/ journal'[v][i] = t
               \/ i \in 1..Len(journal[v]) /\ journal'[v][i] = journal[v][i]
          BY <4>1 DEF Grown
        <4> QED BY <2>2, <3>1, <4>2
      <3>2. CASE ~ Binding(out) BY <1>2, <3>2
      <3> QED BY <3>1, <3>2
    <2>4. IdemOK(journal', idem) BY <1>1, <1>2, <2>3, IdemStays
    <2> QED BY <1>1, <2>1, <2>4
  <1> QED BY <1>7, <1>8

\* What is off the book stays off while the journals grow.
LEMMA OffGrows ==
  ASSUME NEW J, NEW K, Extends(J, K), NEW u \in Book, NEW s \in Nat, s <= Len(J[u]), NEW B, NEW D,
         Off(J, B, u, s), s \in D[u] => s \in B[u] /\ s \in 1..Len(J[u])
  PROVE  Off(K, D, u, s)
  <1> SUFFICES ASSUME s \in D[u] PROVE \E j \in 1..(s - 1) : Places(K[u][j]) = Places(K[u][s]) BY DEF Off
  <1>1. s \in 1..Len(J[u]) /\ Len(J[u]) \in Nat BY DEF Extends
  <1>2. PICK j \in 1..(s - 1) : Places(J[u][j]) = Places(J[u][s]) BY DEF Off
  <1>3. j \in 1..Len(J[u]) BY <1>1, <1>2
  <1>4. K[u][j] = J[u][j] /\ K[u][s] = J[u][s] BY <1>1, <1>3 DEF Extends
  <1> QED BY <1>2, <1>4

\* A receipt stands while no later turn of the underlying places an order of its id.
LEMMA ReceivedGrows ==
  ASSUME NEW J, NEW K, Extends(J, K), NEW x \in ItemPlaced, NEW a, Received(J, a, x),
         \A j \in 1..Len(K[x.u]) : j \in 1..Len(J[x.u]) \/ Places(K[x.u][j]) # x.id
  PROVE  Received(K, a, x)
  <1>1. x.u \in Book /\ x.seq \in Nat BY DEF ItemPlaced
  <1> SUFFICES ASSUME x.seq # 0
               PROVE  /\ x.seq \in 1..Len(K[x.u]) /\ Places(K[x.u][x.seq]) = x.id
                      /\ K[x.u][x.seq].account = a
                      /\ \A j \in 1..Len(K[x.u]) : j > x.seq => Places(K[x.u][j]) # x.id
    BY DEF Received
  <1>2. /\ x.seq \in 1..Len(J[x.u]) /\ Places(J[x.u][x.seq]) = x.id /\ J[x.u][x.seq].account = a
        /\ \A j \in 1..Len(J[x.u]) : j > x.seq => Places(J[x.u][j]) # x.id
    BY DEF Received
  <1>3. /\ x.seq \in 1..Len(K[x.u]) /\ \A j \in 1..Len(J[x.u]) : K[x.u][j] = J[x.u][j]
    BY <1>1, <1>2 DEF Extends
  <1> QED BY <1>2, <1>3

\* An item of a batch that the roll-back has reached.
LEMMA BatchItem ==
  ASSUME NEW r \in RequestState, InBatch(r), BatchFits(r), NEW k \in 1..UndoneTo(r)
  PROVE  k \in 1..Len(r.batch.ids) /\ r.batch.ids[k] \in ItemPlaced
  <1> DEFINE b == r.batch
  <1>1. b \in BatchState BY RequestShape
  <1>2. b.ids \in Seq(ItemPlaced) /\ b.undo \in Nat BY <1>1, BatchFields
  <1>3. b.undo <= Len(b.ids) BY DEF BatchFits
  <1>4. k <= b.undo /\ k \in Int /\ k >= 1 BY <1>2 DEF UndoneTo
  <1>5. Len(b.ids) \in Nat BY <1>2
  <1> HIDE DEF b
  <1>6. k \in 1..Len(b.ids) BY <1>2, <1>3, <1>4, <1>5
  <1>7. b.ids[k] \in ItemPlaced BY <1>2, <1>6, ElementOf
  <1> QED BY <1>6, <1>7 DEF b

\* What a receipt says of its sequence.
LEMMA ReceivedSeq ==
  ASSUME NEW J, NEW x \in ItemPlaced, NEW a, Received(J, a, x), Len(J[x.u]) \in Nat
  PROVE  x.u \in Book /\ x.id \in OrderId /\ x.seq \in Nat /\ x.seq <= Len(J[x.u])
  BY DEF Received, ItemPlaced

LEMMA ExecuteKeeps ==
  ASSUME FlowInv, NEW c \in Client, req[c].pc = "sent", NEW e \in Outcomes(req[c].cmd, AccountOf[c]),
         Execute(c, e)
  PROVE  /\ CoreTypes(resting', named', idem', sealed, minted, req) /\ Filed(journal')
         /\ PlacedOK(journal', resting', named') /\ IdemOK(journal', idem') /\ RanOK(journal', req)
         /\ ClaimsOK(req, minted) /\ BatchOK(journal', req, resting')
         /\ UndoneOK(journal', resting', undone) /\ ToldOK(journal', told)
  <1> DEFINE m == req[c].cmd
             a == AccountOf[c]
             u == m.u
             out == e.out
             t == TurnOf(c, out)
             new == Places(req[c])
  <1>1. /\ Waiting(req[c]) /\ req[c] \in RequestState /\ Filed(journal) /\ IdemOK(journal, idem)
        /\ CoreTypes(resting, named, idem, sealed, minted, req) /\ PlacedOK(journal, resting, named)
        /\ RanOK(journal, req) /\ ClaimsOK(req, minted) /\ BatchOK(journal, req, resting)
        /\ UndoneOK(journal, resting, undone) /\ ToldOK(journal, told) /\ req \in [Client -> RequestState]
    BY NowIs DEF Waiting
  <1>2. /\ Result(m, a, e) /\ Filed(journal') /\ Extends(journal, journal')
        /\ Binding(out) => Grown(journal, u, t, journal')
        /\ ~ Binding(out) => journal' = journal
    BY JournalGrows
  <1>3. out \in Out /\ (Binding(out) => BindsAs(m, out)) BY <1>2 DEF Result
  <1>4. /\ t.cmd = m /\ t.account = a /\ m \in Cmd /\ u \in Book /\ a \in Account /\ Places(t) = new
    BY <1>1, <1>3, TurnIs
  <1>5. /\ resting' \in [Book -> SUBSET Nat] /\ named' \in [Book -> SUBSET Nat]
        /\ \A v \in Book : \A s \in resting'[v] : s \in resting[v] \/ s = Len(journal[v]) + 1
        /\ PlacedOK(journal', resting', named')
    BY BooksAfter
  <1>6. idem' \in [Book -> [Account \X Key -> Idempotent \cup {None}]] /\ IdemOK(journal', idem')
    BY IdemAfter
  <1>7. CoreTypes(resting', named', idem', sealed, minted, req) BY <1>1, <1>5, <1>6 DEF CoreTypes
  <1>8. RanOK(journal', req) BY <1>1, <1>2, RanGrows
  <1>9. ToldOK(journal', told) BY <1>1, <1>2, ToldGrows
  <1>10. Binding(out) => new \in OrderId
    <2>1. CASE m.op = "add"
      <3>1. m \in AddCmd BY <1>4, <2>1, CmdIs
      <3> QED BY <2>1, <3>1 DEF AddCmd, Places
    <2>2. CASE m.op = "replace"
      <3>1. m \in ReplaceCmd BY <1>4, <2>2, CmdIs
      <3> QED BY <2>2, <3>1 DEF ReplaceCmd, Places
    <2> QED BY <1>3, <2>1, <2>2 DEF BindsAs
  <1>11. Claims(req[c], new, u) BY <1>1 DEF Claims
  <1> HIDE DEF out, t, u, a, new
  <1>12. Binding(out) => \A d \in Client, v \in Book : Claims(req[d], new, v) => d = c /\ v = u
    BY <1>1, <1>4, <1>10, <1>11 DEF ClaimsOK
  <1>13. \A v \in Book : \A i \in 1..Len(journal'[v]) :
           \/ i \in 1..Len(journal[v]) /\ journal'[v][i] = journal[v][i]
           \/ Binding(out) /\ v = u /\ journal'[v][i] = t
    <2>1. CASE Binding(out)
      <3>1. Grown(journal, u, t, journal') BY <1>2, <2>1
      <3> QED BY <2>1, <3>1 DEF Grown
    <2>2. CASE ~ Binding(out) BY <1>2, <2>2
    <2> QED BY <2>1, <2>2
  <1>14. ASSUME NEW v \in Book, NEW s \in Nat, s <= Len(journal[v]), Off(journal, resting, v, s)
         PROVE  Off(journal', resting', v, s)
    <2>1. Len(journal[v]) \in Nat BY <1>2 DEF Extends
    <2>2. s \in resting'[v] => s \in resting[v]
      <3>1. s # Len(journal[v]) + 1 BY <1>14, <2>1
      <3> QED BY <1>5, <3>1
    <2>3. s \in resting[v] => s \in 1..Len(journal[v]) BY <1>1 DEF PlacedOK
    <2> QED BY <1>2, <1>14, <2>2, <2>3, OffGrows
  <1>15. UndoneOK(journal', resting', undone)
    <2> SUFFICES ASSUME NEW x \in undone PROVE x[2] <= Len(journal'[x[1]]) /\ Off(journal', resting', x[1], x[2])
      BY <1>1 DEF UndoneOK
    <2>1. x[1] \in Book /\ x[2] \in Nat /\ x[2] <= Len(journal[x[1]]) /\ Off(journal, resting, x[1], x[2])
      BY <1>1 DEF UndoneOK
    <2>2. Off(journal', resting', x[1], x[2]) BY <1>14, <2>1
    <2>3. /\ Len(journal[x[1]]) \in Nat /\ Len(journal'[x[1]]) \in Nat
          /\ Len(journal[x[1]]) <= Len(journal'[x[1]])
      BY <1>2, <2>1 DEF Extends
    <2> QED BY <2>1, <2>2, <2>3
  <1>16. BatchOK(journal', req, resting')
    <2> SUFFICES ASSUME NEW d \in Client PROVE ReceiptsOK(journal', d, req[d], resting') BY <1>1 DEF BatchOK
    <2> DEFINE r == req[d]
               b == r.batch
    <2>1. BatchFits(r) /\ ReceiptsOK(journal, d, r, resting) /\ r \in RequestState
      BY <1>1 DEF BatchOK
    <2> SUFFICES ASSUME InBatch(r)
                 PROVE  /\ ItemsOK(journal', d, b)
                        /\ b.aborted /\ ~ b.warned =>
                             \A k \in 1..UndoneTo(r) : Off(journal', resting', b.ids[k].u, b.ids[k].seq)
      BY DEF ReceiptsOK
    <2>2. b \in BatchState BY <2>1, RequestShape
    <2>3. b.ids \in Seq(ItemPlaced) BY <2>2, BatchFields
    <2>4. ItemsOK(journal, d, b) BY <2>1 DEF ReceiptsOK
    <2>5. ASSUME NEW k \in 1..Len(b.ids) PROVE Received(journal', AccountOf[d], b.ids[k])
      <3> DEFINE x == b.ids[k]
      <3>1. x \in ItemPlaced BY <2>3, <2>5, ElementOf
      <3>2. Received(journal, AccountOf[d], x) BY <2>4, <2>5 DEF ItemsOK
      <3>3. x.u \in Book BY <3>1 DEF ItemPlaced
      <3>4. Claims(r, x.id, x.u) BY <2>5 DEF Claims
      <3>5. BatchFits(r) /\ Waiting(req[c]) BY <1>1, <2>1
      <3>6. ASSUME d = c, m.op = "add" PROVE x.id # new
        <4>1. x.id # m.id BY <1>3, <2>5, <3>5, <3>6 DEF BatchFits
        <4> QED BY <3>6, <4>1 DEF Places, new
      <3>7. ASSUME d = c PROVE m.op \in {"add", "cancel"} BY <3>5, <3>7 DEF BatchFits
      <3> HIDE DEF x, r, b
      <3>8. ASSUME NEW j \in 1..Len(journal'[x.u]), Places(journal'[x.u][j]) = x.id
            PROVE  j \in 1..Len(journal[x.u])
        <4> SUFFICES ASSUME Binding(out), x.u = u, journal'[x.u][j] = t PROVE FALSE BY <1>13, <3>3
        <4>1. x.id = new BY <1>4, <3>8
        <4>2. d = c BY <1>12, <3>3, <3>4, <4>1 DEF r
        <4>3. m.op = "cancel" BY <3>6, <3>7, <4>1, <4>2
        <4> QED BY <1>3, <4>3 DEF BindsAs
      <3>9. Received(journal', AccountOf[d], x) BY <1>2, <3>1, <3>2, <3>8, ReceivedGrows
      <3> QED BY <3>9 DEF x
    <2>6. ASSUME b.aborted, ~ b.warned, NEW k \in 1..UndoneTo(r)
          PROVE  Off(journal', resting', b.ids[k].u, b.ids[k].seq)
      <3> DEFINE x == b.ids[k]
      <3>1. k \in 1..Len(b.ids) /\ x \in ItemPlaced BY <2>1, <2>6, BatchItem
      <3>2. Received(journal, AccountOf[d], x) BY <2>4, <3>1 DEF ItemsOK
      <3>3. Off(journal, resting, x.u, x.seq) BY <2>1, <2>6 DEF ReceiptsOK
      <3>4. Len(journal[x.u]) \in Nat
        <4>1. x.u \in Book BY <3>1 DEF ItemPlaced
        <4> QED BY <1>2, <4>1 DEF Extends
      <3> HIDE DEF x
      <3>5. x.u \in Book /\ x.seq \in Nat /\ x.seq <= Len(journal[x.u]) BY <3>1, <3>2, <3>4, ReceivedSeq
      <3>6. Off(journal', resting', x.u, x.seq) BY <1>14, <3>3, <3>5
      <3> QED BY <3>6 DEF x
    <2> QED BY <2>5, <2>6 DEF ItemsOK
  <1> QED BY <1>1, <1>2, <1>5, <1>6, <1>7, <1>8, <1>9, <1>15, <1>16

\* A command that has run and waits for its publication.
RunAs(r, t) == [r EXCEPT !.pc = "ran", !.turn = t]

LEMMA RunsIs ==
  ASSUME NEW r0 \in RequestState, r0.pc = "sent", NEW t \in TurnRec, NEW r, r = RunAs(r0, t)
  PROVE  /\ r \in RequestState /\ r.pc = "ran" /\ r.cmd = r0.cmd /\ r.turn = t /\ r.batch = r0.batch
         /\ Waiting(r) /\ (InBatch(r) <=> InBatch(r0))
         /\ \A x, u : Claims(r, x, u) => Claims(r0, x, u)
         /\ BatchFits(r0) => BatchFits(r)
         /\ UndoneTo(r) = r0.batch.undo
  <1>1. Waiting(r0) BY DEF Waiting
  <1>2. /\ r0 \in LiveReq /\ r0.cmd \in Cmd /\ r0.batch \in BatchState \cup {None}
    BY <1>1, RequestShape
  <1>3. r0 = [pc |-> "sent", cmd |-> r0.cmd, turn |-> r0.turn, batch |-> r0.batch] BY <1>2 DEF LiveReq
  <1>4. r = [pc |-> "ran", cmd |-> r0.cmd, turn |-> t, batch |-> r0.batch] BY <1>3 DEF RunAs
  <1>5. r.pc = "ran" /\ r.cmd = r0.cmd /\ r.turn = t /\ r.batch = r0.batch BY <1>4
  <1>6. r \in RequestState BY <1>2, <1>4 DEF RequestState, LiveReq
  <1>7. Waiting(r) /\ (InBatch(r) <=> InBatch(r0)) BY <1>1, <1>5 DEF Waiting, InBatch
  <1>8. Places(r) = Places(r0) BY <1>5 DEF Places
  <1>9. \A x, u : Claims(r, x, u) => Claims(r0, x, u) BY <1>1, <1>5, <1>7, <1>8 DEF Claims
  <1>10. BatchFits(r0) => BatchFits(r) BY <1>1, <1>5, <1>7 DEF BatchFits
  <1>11. UndoneTo(r) = r0.batch.undo BY <1>5 DEF UndoneTo
  <1> QED BY <1>5, <1>6, <1>7, <1>9, <1>10, <1>11

\* The turns of K are those of J and t, a turn of u, when it binds.
Ran(J, u, t, K) == (Binding(t.out) => Grown(J, u, t, K)) /\ (~ Binding(t.out) => K = J)

\* No command of u waits for its publication.
Free(R, u) == \A d \in Client : R[d].pc = "ran" => R[d].cmd.u # u

LEMMA PublishedAfter ==
  ASSUME NEW J, Filed(J), NEW K, NEW R, NEW Z, NEW u \in Book, u \notin Z, Free(R, u), NEW t,
         Ran(J, u, t, K), NEW n, PublishedTo(n, J, R, Z)
  PROVE  /\ Within(K, n) /\ n[u] = Len(J[u]) /\ n[u] \in Nat
         /\ Binding(t.out) => n[u] + 1 = Len(K[u]) /\ t = K[u][Len(K[u])]
         /\ ~ Binding(t.out) => n[u] = Len(K[u])
         /\ \A v \in Book : v # u => K[v] = J[v]
         /\ \A v \in Book : \A i \in 1..n[v] : K[v][i] = J[v][i]
  <1>1. Within(J, n) /\ n[u] = Len(J[u]) BY DEF PublishedTo, Free
  <1>2. n \in [Book -> Nat] /\ \A v \in Book : n[v] <= Len(J[v]) /\ Len(J[v]) \in Nat
    BY <1>1 DEF Within, Filed
  <1>3. CASE Binding(t.out)
    <2>1. Grown(J, u, t, K) BY <1>3 DEF Ran
    <2>2. /\ Extends(J, K) /\ Len(K[u]) = Len(J[u]) + 1 /\ K[u][Len(J[u]) + 1] = t
          /\ \A v \in Book : v # u => K[v] = J[v]
      BY <2>1 DEF Grown
    <2>3. \A v \in Book : n[v] <= Len(K[v]) BY <1>2, <2>2 DEF Extends
    <2>4. Within(K, n) BY <1>2, <2>3 DEF Within
    <2>5. \A v \in Book : \A i \in 1..n[v] : i \in 1..Len(J[v]) BY <1>2
    <2>6. \A v \in Book : \A i \in 1..n[v] : K[v][i] = J[v][i] BY <2>2, <2>5 DEF Extends
    <2> QED BY <1>1, <1>2, <1>3, <2>2, <2>4, <2>6
  <1>4. CASE ~ Binding(t.out)
    <2>1. K = J BY <1>4 DEF Ran
    <2> QED BY <1>1, <1>2, <1>4, <2>1
  <1> QED BY <1>3, <1>4

\* The turn has run: the index does not know it yet.
LEMMA IndexRuns ==
  ASSUME NEW J, Filed(J), NEW K, NEW R, NEW c, NEW r, NEW Q, Becomes(R, c, r, Q), r.pc = "ran",
         R[c].pc # "ran", NEW Z, NEW ix, IndexOK(J, R, Z, ix), NEW u \in Book, u \notin Z, r.cmd.u = u,
         Free(R, u), NEW t, r.turn = t, Ran(J, u, t, K)
  PROVE  IndexOK(K, Q, Z, ix)
  <1>1. /\ Q[c] = r /\ c \in Client /\ \A d \in Client : d # c => Q[d] = R[d] BY BecomesIs
  <1>2. PICK n : PublishedTo(n, J, R, Z) /\ Reflects(ix, n, J) BY DEF IndexOK
  <1>3. /\ Within(K, n) /\ n[u] = Len(J[u]) /\ n[u] \in Nat
        /\ Binding(t.out) => n[u] + 1 = Len(K[u]) /\ t = K[u][Len(K[u])]
        /\ ~ Binding(t.out) => n[u] = Len(K[u])
        /\ \A v \in Book : v # u => K[v] = J[v]
        /\ \A v \in Book : \A i \in 1..n[v] : K[v][i] = J[v][i]
    BY <1>2, PublishedAfter
  <1>4. Reflects(ix, n, K) BY <1>2, <1>3, ReflectsAgree
  <1>5. \A v \in Book : Len(K[v]) <= n[v] + 1
    <2> SUFFICES ASSUME NEW v \in Book PROVE Len(K[v]) <= n[v] + 1 OBVIOUS
    <2>1. CASE v = u BY <1>3, <2>1
    <2>2. CASE v # u BY <1>2, <1>3, <2>2 DEF PublishedTo
    <2> QED BY <2>1, <2>2
  <1>6. \A v \in Book : n[v] # Len(K[v]) => v \in Z \/ \E d \in Client : Q[d].pc = "ran" /\ Q[d].cmd.u = v
    <2> SUFFICES ASSUME NEW v \in Book, n[v] # Len(K[v]), v \notin Z
                 PROVE  \E d \in Client : Q[d].pc = "ran" /\ Q[d].cmd.u = v
      OBVIOUS
    <2>1. CASE v = u BY <1>1, <2>1
    <2>2. CASE v # u
      <3>1. PICK d \in Client : R[d].pc = "ran" /\ R[d].cmd.u = v BY <1>2, <1>3, <2>2 DEF PublishedTo
      <3>2. Q[d] = R[d] BY <1>1, <3>1
      <3> QED BY <3>1, <3>2
    <2> QED BY <2>1, <2>2
  <1>7. ASSUME NEW d \in Client, Q[d].pc = "ran"
        PROVE  /\ Q[d].cmd.u \notin Z
               /\ Binding(Q[d].turn.out) => /\ n[Q[d].cmd.u] + 1 = Len(K[Q[d].cmd.u])
                                            /\ Q[d].turn = K[Q[d].cmd.u][Len(K[Q[d].cmd.u])]
               /\ ~ Binding(Q[d].turn.out) => n[Q[d].cmd.u] = Len(K[Q[d].cmd.u])
    <2>1. CASE d = c
      <3>1. Q[d].cmd.u = u /\ Q[d].turn = t BY <1>1, <2>1
      <3> QED BY <1>3, <3>1
    <2>2. CASE d # c
      <3>1. Q[d] = R[d] BY <1>1, <2>2
      <3>2. R[d].pc = "ran" /\ R[d].cmd.u # u BY <1>7, <3>1 DEF Free
      <3>3. R[d].cmd.u \in Book
        <4>1. R[d] \in RequestState BY DEF Becomes
        <4>2. R[d].cmd \in Cmd BY <3>2, <4>1, RequestShape DEF Waiting
        <4> QED BY <4>2, CmdIs
      <3>4. K[R[d].cmd.u] = J[R[d].cmd.u] BY <1>3, <3>2, <3>3
      <3>5. /\ R[d].cmd.u \notin Z
            /\ Binding(R[d].turn.out) => /\ n[R[d].cmd.u] + 1 = Len(J[R[d].cmd.u])
                                         /\ R[d].turn = J[R[d].cmd.u][Len(J[R[d].cmd.u])]
            /\ ~ Binding(R[d].turn.out) => n[R[d].cmd.u] = Len(J[R[d].cmd.u])
        BY <1>2, <3>2 DEF PublishedTo
      <3> QED BY <3>1, <3>4, <3>5
    <2> QED BY <2>1, <2>2
  <1>8. PublishedTo(n, K, Q, Z) BY <1>3, <1>5, <1>6, <1>7 DEF PublishedTo
  <1> QED BY <1>4, <1>8 DEF IndexOK

\* The turn has run and its underlying is sealed: the next boot will tell the index.
LEMMA IndexSeals ==
  ASSUME NEW J, Filed(J), NEW K, NEW R, NEW c, NEW r, NEW Q, Becomes(R, c, r, Q), r.pc # "ran",
         R[c].pc # "ran", NEW Z, NEW ix, IndexOK(J, R, Z, ix), NEW u \in Book, u \notin Z,
         Free(R, u), NEW t, Ran(J, u, t, K), NEW Y, Y = Z \cup {u}
  PROVE  IndexOK(K, Q, Y, ix)
  <1>1. /\ Q[c] = r /\ c \in Client /\ \A d \in Client : d # c => Q[d] = R[d] BY BecomesIs
  <1>2. PICK n : PublishedTo(n, J, R, Z) /\ Reflects(ix, n, J) BY DEF IndexOK
  <1>3. /\ Within(K, n) /\ n[u] = Len(J[u]) /\ n[u] \in Nat
        /\ Binding(t.out) => n[u] + 1 = Len(K[u]) /\ t = K[u][Len(K[u])]
        /\ ~ Binding(t.out) => n[u] = Len(K[u])
        /\ \A v \in Book : v # u => K[v] = J[v]
        /\ \A v \in Book : \A i \in 1..n[v] : K[v][i] = J[v][i]
    BY <1>2, PublishedAfter
  <1>4. Reflects(ix, n, K) BY <1>2, <1>3, ReflectsAgree
  <1>5. \A v \in Book : Len(K[v]) <= n[v] + 1
    <2> SUFFICES ASSUME NEW v \in Book PROVE Len(K[v]) <= n[v] + 1 OBVIOUS
    <2>1. CASE v = u BY <1>3, <2>1
    <2>2. CASE v # u BY <1>2, <1>3, <2>2 DEF PublishedTo
    <2> QED BY <2>1, <2>2
  <1>6. \A v \in Book : n[v] # Len(K[v]) => v \in Y \/ \E d \in Client : Q[d].pc = "ran" /\ Q[d].cmd.u = v
    <2> SUFFICES ASSUME NEW v \in Book, n[v] # Len(K[v]), v \notin Y
                 PROVE  \E d \in Client : Q[d].pc = "ran" /\ Q[d].cmd.u = v
      OBVIOUS
    <2>1. v # u /\ v \notin Z OBVIOUS
    <2>2. PICK d \in Client : R[d].pc = "ran" /\ R[d].cmd.u = v BY <1>2, <1>3, <2>1 DEF PublishedTo
    <2>3. Q[d] = R[d] BY <1>1, <2>2
    <2> QED BY <2>2, <2>3
  <1>7. ASSUME NEW d \in Client, Q[d].pc = "ran"
        PROVE  /\ Q[d].cmd.u \notin Y
               /\ Binding(Q[d].turn.out) => /\ n[Q[d].cmd.u] + 1 = Len(K[Q[d].cmd.u])
                                            /\ Q[d].turn = K[Q[d].cmd.u][Len(K[Q[d].cmd.u])]
               /\ ~ Binding(Q[d].turn.out) => n[Q[d].cmd.u] = Len(K[Q[d].cmd.u])
    <2>1. d # c BY <1>1, <1>7
    <2>2. Q[d] = R[d] BY <1>1, <2>1
    <2>3. R[d].pc = "ran" /\ R[d].cmd.u # u BY <1>7, <2>2 DEF Free
    <2>4. R[d].cmd.u \in Book
      <3>1. R[d] \in RequestState BY DEF Becomes
      <3>2. R[d].cmd \in Cmd BY <2>3, <3>1, RequestShape DEF Waiting
      <3> QED BY <3>2, CmdIs
    <2>5. K[R[d].cmd.u] = J[R[d].cmd.u] BY <1>3, <2>3, <2>4
    <2>6. /\ R[d].cmd.u \notin Z
          /\ Binding(R[d].turn.out) => /\ n[R[d].cmd.u] + 1 = Len(J[R[d].cmd.u])
                                       /\ R[d].turn = J[R[d].cmd.u][Len(J[R[d].cmd.u])]
          /\ ~ Binding(R[d].turn.out) => n[R[d].cmd.u] = Len(J[R[d].cmd.u])
      BY <1>2, <2>3 DEF PublishedTo
    <2> QED BY <2>2, <2>3, <2>5, <2>6
  <1>8. PublishedTo(n, K, Q, Y) BY <1>3, <1>5, <1>6, <1>7 DEF PublishedTo
  <1> QED BY <1>4, <1>8 DEF IndexOK

LEMMA RanAdds ==
  ASSUME NEW J, NEW R, NEW c, NEW r, NEW Q, Becomes(R, c, r, Q), r.pc = "ran", RanOK(J, R),
         Free(R, r.cmd.u), r.turn \in TurnRec, r.turn.cmd = r.cmd, r.turn.account = AccountOf[c],
         r.cmd.op = "add" => r.turn.out.is \in {"entered", "rejected", "duplicate"},
         r.turn.out.is = "duplicate" /\ r.turn.out.terminal = "entered" =>
           Opened(J, r.cmd.u, r.turn.out.seq, <<AccountOf[c], r.cmd.key>>, r.turn.out.id)
  PROVE  RanOK(J, Q)
  <1>1. /\ Q[c] = r /\ c \in Client /\ \A d \in Client : d # c => Q[d] = R[d] BY BecomesIs
  <1>2. ASSUME NEW d \in Client, Q[d].pc = "ran"
        PROVE  /\ Q[d].turn \in TurnRec /\ Q[d].turn.cmd = Q[d].cmd /\ Q[d].turn.account = AccountOf[d]
               /\ Q[d].cmd.op = "add" => Q[d].turn.out.is \in {"entered", "rejected", "duplicate"}
               /\ Q[d].turn.out.is = "duplicate" /\ Q[d].turn.out.terminal = "entered" =>
                    Opened(J, Q[d].cmd.u, Q[d].turn.out.seq, <<AccountOf[d], Q[d].cmd.key>>, Q[d].turn.out.id)
    <2>1. CASE d = c BY <1>1, <2>1
    <2>2. CASE d # c
      <3>1. Q[d] = R[d] BY <1>1, <2>2
      <3> QED BY <1>2, <3>1 DEF RanOK
    <2> QED BY <2>1, <2>2
  <1>3. ASSUME NEW d \in Client, NEW e \in Client, Q[d].pc = "ran", Q[e].pc = "ran", Q[d].cmd.u = Q[e].cmd.u
        PROVE  d = e
    <2>1. CASE d = c /\ e # c BY <1>1, <1>3, <2>1 DEF Free
    <2>2. CASE e = c /\ d # c BY <1>1, <1>3, <2>2 DEF Free
    <2>3. CASE d # c /\ e # c
      <3>1. Q[d] = R[d] /\ Q[e] = R[e] BY <1>1, <2>3
      <3> QED BY <1>3, <3>1 DEF RanOK
    <2> QED BY <2>1, <2>2, <2>3
  <1> QED BY <1>2, <1>3 DEF RanOK

\* A cancel of the roll-back that ran leaves nothing of its item on the book, unless an
\* older order had the id.
LEMMA CancelEnds ==
  ASSUME FlowInv, NEW c \in Client, req[c].pc = "sent", NEW e \in Outcomes(req[c].cmd, AccountOf[c]),
         Execute(c, e), req[c].cmd.op = "cancel", NEW x \in ItemPlaced,
         Received(journal, AccountOf[c], x), req[c].cmd.u = x.u, req[c].cmd.id = x.id
  PROVE  Off(journal', resting', x.u, x.seq)
  <1> DEFINE m == req[c].cmd
             a == AccountOf[c]
             u == x.u
             s == x.seq
  <1> SUFFICES ASSUME s \in resting'[u], \A j \in 1..(s - 1) : Places(journal'[u][j]) # Places(journal'[u][s])
               PROVE  FALSE
    BY DEF Off
  <1>1. Result(m, a, e) /\ (~ Binding(e.out) => journal' = journal) BY JournalGrows
  <1>2. ~ Binding(e.out) /\ ~ e.rests BY <1>1 DEF Result, BindsAs
  <1>3. journal' = journal BY <1>1, <1>2
  <1>4. u \in Book /\ s \in Nat BY DEF ItemPlaced
  <1>5. s \in resting[u] /\ s \notin e.gone BY <1>2, <1>4, BooksAfter
  <1>6. PlacedOK(journal, resting, named) BY NowIs
  <1>7. s \in 1..Len(journal[u]) BY <1>4, <1>5, <1>6 DEF PlacedOK
  <1>8. /\ Places(journal[u][s]) = x.id /\ journal[u][s].account = a
        /\ \A j \in 1..Len(journal[u]) : j > s => Places(journal[u][j]) # x.id
    BY <1>7 DEF Received
  <1>9. Lone(journal, u, s)
    <2> SUFFICES ASSUME NEW j \in 1..Len(journal[u]), j # s
                 PROVE  Places(journal[u][j]) # Places(journal[u][s])
      BY DEF Lone
    <2>1. j > s \/ j \in 1..(s - 1) BY <1>7
    <2> QED BY <1>3, <1>8, <2>1
  <1>10. s \in named[u] BY <1>4, <1>5, <1>6, <1>9 DEF PlacedOK
  <1>11. s \in e.gone BY <1>1, <1>8, <1>10 DEF Result, IdOf
  <1> QED BY <1>5, <1>11

LEMMA TakesIs ==
  ASSUME NEW u, Takes(u)
  PROVE  u \notin sealed /\ Free(req, u)
  BY DEF Takes, Running, Free

LEMMA RanIs ==
  ASSUME FlowInv, NEW c \in Client, req[c].pc = "sent", NEW e \in Outcomes(req[c].cmd, AccountOf[c]),
         Execute(c, e)
  PROVE  /\ e.out \in Out /\ TurnOf(c, e.out) \in TurnRec /\ req[c].cmd.u \in Book
         /\ Ran(journal, req[c].cmd.u, TurnOf(c, e.out), journal')
  <1> DEFINE out == e.out
             t == TurnOf(c, out)
             u == req[c].cmd.u
  <1>1. /\ Result(req[c].cmd, AccountOf[c], e)
        /\ Binding(out) => Grown(journal, u, t, journal')
        /\ ~ Binding(out) => journal' = journal
    BY JournalGrows
  <1>2. out \in Out BY <1>1 DEF Result
  <1>3. Waiting(req[c]) BY DEF Waiting
  <1>4. t \in TurnRec /\ t.out = out /\ u \in Book BY <1>2, <1>3, TurnIs
  <1> HIDE DEF t, u, out
  <1>5. Ran(journal, u, t, journal') BY <1>1, <1>4 DEF Ran
  <1> QED BY <1>2, <1>4, <1>5 DEF t, u, out

LEMMA TurnKeeps ==
  ASSUME FlowInv, NEW c \in Client, Turn(c)
  PROVE  FlowInv'
  <1>1. PICK e \in Outcomes(req[c].cmd, AccountOf[c]) :
          /\ Execute(c, e)
          /\ req' = [req EXCEPT ![c].pc = "ran", ![c].turn = TurnOf(c, e.out)]
    BY DEF Turn
  <1>2. /\ req[c].pc = "sent" /\ Takes(req[c].cmd.u) /\ sealed' = sealed /\ minted' = minted
        /\ undone' = undone /\ told' = told /\ placed' = placed /\ IndexNow' = IndexNow
    BY DEF Turn, records, IndexNow
  <1> DEFINE m == req[c].cmd
             a == AccountOf[c]
             u == m.u
             out == e.out
             t == TurnOf(c, out)
             r == [req[c] EXCEPT !.pc = "ran", !.turn = t]
  <1>3. /\ req \in [Client -> RequestState] /\ req[c] \in RequestState /\ BatchFits(req[c])
        /\ Filed(journal) /\ IndexOK(journal, req, sealed, IndexNow) /\ IdemOK(journal, idem)
    BY NowIs
  <1>4. req' = [req EXCEPT ![c] = r] BY <1>1, <1>3
  <1>5. out \in Out /\ t \in TurnRec /\ u \in Book /\ Ran(journal, u, t, journal')
    BY <1>1, <1>2, RanIs
  <1>6. t.cmd = m /\ t.account = a /\ t.out = out /\ m \in Cmd /\ a \in Account
    BY <1>2, <1>5, TurnIs DEF Waiting
  <1>7. /\ CoreTypes(resting', named', idem', sealed, minted, req) /\ Filed(journal')
        /\ PlacedOK(journal', resting', named') /\ IdemOK(journal', idem') /\ RanOK(journal', req)
        /\ ClaimsOK(req, minted) /\ BatchOK(journal', req, resting')
        /\ UndoneOK(journal', resting', undone) /\ ToldOK(journal', told)
    BY <1>1, <1>2, ExecuteKeeps
  <1>8. u \notin sealed /\ Free(req, u) BY <1>2, TakesIs
  <1>9. Result(m, a, e) /\ Extends(journal, journal') BY <1>1, <1>2, JournalGrows
  <1>r. r = RunAs(req[c], t) BY DEF RunAs
  <1> HIDE DEF r, t
  <1>10. /\ r \in RequestState /\ r.pc = "ran" /\ r.cmd = m /\ r.turn = t /\ r.batch = req[c].batch
         /\ InBatch(r) <=> InBatch(req[c])
         /\ \A x, v : Claims(r, x, v) => Claims(req[c], x, v)
         /\ BatchFits(r) /\ UndoneTo(r) = req[c].batch.undo
    BY <1>2, <1>3, <1>5, <1>r, RunsIs
  <1>11. Becomes(req, c, r, req') BY <1>3, <1>4, <1>10 DEF Becomes
  <1>12. CoreTypes(resting', named', idem', sealed, minted, req') BY <1>7, <1>11, BecomesIs DEF CoreTypes
  <1>13. ClaimsOK(req', minted) BY <1>7, <1>10, <1>11, ClaimsKeep
  <1>14. IndexOK(journal', req', sealed, IndexNow)
    BY <1>2, <1>3, <1>5, <1>8, <1>10, <1>11, IndexRuns
  <1>15. RanOK(journal', req')
    <2>1. m.op = "add" => out.is \in {"entered", "rejected", "duplicate"} BY <1>9 DEF Result
    <2>2. ASSUME out.is = "duplicate", out.terminal = "entered"
          PROVE  Opened(journal', u, out.seq, <<a, m.key>>, out.id)
      <3> DEFINE first == idem[u][<<a, m.key>>]
      <3>1. /\ m.op = "add" /\ m.key # None /\ first # None /\ out.id = first.id /\ out.seq = first.seq
            /\ out.terminal = first.terminal
        BY <1>9, <2>2 DEF Result
      <3>2. m \in AddCmd BY <1>6, <3>1, CmdIs
      <3>3. m.key \in Key BY <3>1, <3>2 DEF AddCmd
      <3>4. <<a, m.key>> \in Account \X Key BY <1>6, <3>3
      <3>5. Opened(journal, u, first.seq, <<a, m.key>>, first.id) BY <1>3, <1>5, <2>2, <3>1, <3>4 DEF IdemOK
      <3> HIDE DEF first, a, u
      <3>6. Opened(journal', u, first.seq, <<a, m.key>>, first.id) BY <1>5, <1>9, <3>5, OpenedGrows
      <3> QED BY <3>1, <3>6
    <2> HIDE DEF out
    <2>3. r.turn.out = out /\ r.turn.cmd = r.cmd /\ r.turn.account = a /\ r.turn \in TurnRec
      BY <1>5, <1>6, <1>10
    <2>4. r.cmd.op = "add" => r.turn.out.is \in {"entered", "rejected", "duplicate"}
      BY <1>10, <2>1, <2>3
    <2>5. r.turn.out.is = "duplicate" /\ r.turn.out.terminal = "entered" =>
           Opened(journal', r.cmd.u, r.turn.out.seq, <<AccountOf[c], r.cmd.key>>, r.turn.out.id)
      BY <1>10, <2>2, <2>3
    <2>6. Free(req, r.cmd.u) BY <1>8, <1>10
    <2> QED BY <1>7, <1>10, <1>11, <2>3, <2>4, <2>5, <2>6, RanAdds
  <1>16. ReceiptsOK(journal', c, r, resting')
    <2> DEFINE b == req[c].batch
    <2>1. ReceiptsOK(journal', c, req[c], resting') BY <1>7 DEF BatchOK
    <2> SUFFICES ASSUME InBatch(r), b.aborted, ~ b.warned, NEW k \in 1..b.undo
                 PROVE  Off(journal', resting', b.ids[k].u, b.ids[k].seq)
      BY <1>10, <2>1 DEF ReceiptsOK
    <2>2. InBatch(req[c]) /\ b \in BatchState BY <1>3, <1>10, RequestShape
    <2>3. UndoneTo(req[c]) = b.undo - 1 BY <1>2 DEF UndoneTo
    <2>4. b.undo \in Nat /\ b.ids \in Seq(ItemPlaced) BY <2>2, BatchFields
    <2>5. CASE k \in 1..(b.undo - 1) BY <2>1, <2>2, <2>3, <2>5 DEF ReceiptsOK
    <2>6. CASE k = b.undo
      <3>1. /\ m.op = "cancel" /\ b.undo \in 1..Len(b.ids) /\ m.u = b.ids[k].u /\ m.id = b.ids[k].id
        BY <1>2, <1>3, <2>2, <2>6 DEF BatchFits, Waiting
      <3>2. b.ids[k] \in ItemPlaced BY <2>4, <2>6, <3>1, ElementOf
      <3>3. ReceiptsOK(journal, c, req[c], resting) BY NowIs
      <3>4. Received(journal, a, b.ids[k]) BY <2>2, <2>6, <3>1, <3>3 DEF ReceiptsOK, ItemsOK
      <3> QED BY <1>1, <1>2, <3>1, <3>2, <3>4, CancelEnds
    <2>7. k = b.undo \/ k \in 1..(b.undo - 1) BY <2>4
    <2> QED BY <2>5, <2>6, <2>7
  <1>17. BatchOK(journal', req', resting') BY <1>7, <1>10, <1>11, <1>16, BatchKeeps
  <1>18. Core(journal', resting', named', idem', sealed, req', minted, undone, IndexNow)
    BY <1>7, <1>12, <1>13, <1>14, <1>15, <1>17 DEF Core
  <1>19. CoreNow' BY <1>2, <1>18 DEF CoreNow
  <1>20. ToldOK(journal', told') /\ SessionsOK(placed') BY <1>2, <1>7, NowIs
  <1> QED BY <1>19, <1>20 DEF FlowInv, CoreNow

LEMMA SealedTurnKeeps ==
  ASSUME FlowInv, NEW c \in Client, SealedTurn(c)
  PROVE  FlowInv'
  <1> DEFINE u == req[c].cmd.u
             r == FailedReq(req[c])
  <1>1. PICK e \in Outcomes(req[c].cmd, AccountOf[c]) : Execute(c, e) BY DEF SealedTurn
  <1>2. /\ req[c].pc = "sent" /\ Takes(u) /\ sealed' = sealed \cup {u} /\ Failed(c) /\ minted' = minted
        /\ undone' = undone /\ told' = told /\ placed' = placed /\ IndexNow' = IndexNow
    BY DEF SealedTurn, records, IndexNow
  <1>3. /\ req \in [Client -> RequestState] /\ req[c] \in RequestState /\ BatchFits(req[c])
        /\ Filed(journal) /\ IndexOK(journal, req, sealed, IndexNow)
    BY NowIs
  <1>4. Waiting(req[c]) BY <1>2 DEF Waiting
  <1>5. req' = [req EXCEPT ![c] = r] BY <1>2, <1>4, FailedBecomes
  <1>6. u \in Book /\ Ran(journal, u, TurnOf(c, e.out), journal') BY <1>1, <1>2, RanIs
  <1>7. /\ CoreTypes(resting', named', idem', sealed, minted, req) /\ Filed(journal')
        /\ PlacedOK(journal', resting', named') /\ IdemOK(journal', idem') /\ RanOK(journal', req)
        /\ ClaimsOK(req, minted) /\ BatchOK(journal', req, resting')
        /\ UndoneOK(journal', resting', undone) /\ ToldOK(journal', told)
    BY <1>1, <1>2, ExecuteKeeps
  <1>8. u \notin sealed /\ Free(req, u) BY <1>2, TakesIs
  <1>9. /\ r \in RequestState /\ r.pc # "ran" /\ BatchFits(r) /\ ReceiptsOK(journal', c, r, resting')
        /\ \A x, v : Claims(r, x, v) => Claims(req[c], x, v)
    <2>1. ReceiptsOK(journal', c, req[c], resting') BY <1>7 DEF BatchOK
    <2> QED BY <1>3, <1>4, <2>1, FailedIs
  <1> HIDE DEF r
  <1>10. Becomes(req, c, r, req') /\ req[c].pc # "ran" BY <1>2, <1>3, <1>5, <1>9 DEF Becomes
  <1>11. CoreTypes(resting', named', idem', sealed', minted, req')
    BY <1>2, <1>6, <1>7, <1>10, BecomesIs DEF CoreTypes
  <1>12. RanOK(journal', req') BY <1>7, <1>9, <1>10, RanDrops
  <1>13. ClaimsOK(req', minted) BY <1>7, <1>9, <1>10, ClaimsKeep
  <1>14. BatchOK(journal', req', resting') BY <1>7, <1>9, <1>10, BatchKeeps
  <1> HIDE DEF u
  <1>15. IndexOK(journal', req', sealed', IndexNow)
    BY <1>2, <1>3, <1>6, <1>8, <1>9, <1>10, IndexSeals
  <1>16. Core(journal', resting', named', idem', sealed', req', minted, undone, IndexNow)
    BY <1>7, <1>11, <1>12, <1>13, <1>14, <1>15 DEF Core
  <1>17. CoreNow' BY <1>2, <1>16 DEF CoreNow
  <1>18. ToldOK(journal', told') /\ SessionsOK(placed') BY <1>2, <1>7, NowIs
  <1> QED BY <1>17, <1>18 DEF FlowInv, CoreNow
-----------------------------------------------------------------------------
(* The publication of a turn and the answer.                                *)

LEMMA ApplyNothing ==
  ASSUME NEW ix, NEW t, ~ Binding(t.out)
  PROVE  ApplyCommitted(ix, t) = ix
  <1>1. ~ Entered(t.out) /\ t.out.is # "replaced" /\ t.out.is # "cancelled only"
    BY DEF Binding, Entered
  <1> QED BY <1>1 DEF ApplyCommitted

LEMMA IndexPublishes ==
  ASSUME NEW J, Filed(J), NEW R, NEW c, NEW r, NEW Q, Becomes(R, c, r, Q), R[c].pc = "ran", r.pc # "ran",
         RanOK(J, R), NEW Z, NEW ix, IndexOK(J, R, Z, ix), NEW t, t = R[c].turn,
         NEW q, q = ApplyCommitted(ix, t)
  PROVE  IndexOK(J, Q, Z, q)
  <1> DEFINE u == R[c].cmd.u
  <1>1. /\ Q[c] = r /\ c \in Client /\ \A d \in Client : d # c => Q[d] = R[d] BY BecomesIs
  <1>2. PICK n : PublishedTo(n, J, R, Z) /\ Reflects(ix, n, J) BY DEF IndexOK
  <1>3. \A d \in Client : R[d] \in RequestState BY DEF Becomes
  <1>4. u \in Book
    <2>1. R[c].cmd \in Cmd BY <1>1, <1>3, RequestShape DEF Waiting
    <2> QED BY <2>1, CmdIs
  <1>5. \A d \in Client : Q[d].pc = "ran" => d # c /\ Q[d] = R[d] BY <1>1
  <1>6. \A d \in Client : R[d].pc = "ran" /\ d # c => R[d].cmd.u # u BY <1>1 DEF RanOK
  <1>7. /\ n \in [Book -> Nat]
        /\ \A v \in Book : n[v] <= Len(J[v]) /\ Len(J[v]) \in Nat /\ Len(J[v]) <= n[v] + 1
        /\ \A v \in Book : n[v] # Len(J[v]) => v \in Z \/ \E d \in Client : R[d].pc = "ran" /\ R[d].cmd.u = v
        /\ Binding(t.out) => n[u] + 1 = Len(J[u]) /\ t = J[u][Len(J[u])]
        /\ ~ Binding(t.out) => n[u] = Len(J[u])
    BY <1>1, <1>2 DEF PublishedTo, Within, Filed
  <1>8. CASE Binding(t.out)
    <2> DEFINE m == [n EXCEPT ![u] = n[u] + 1]
    <2>1. n[u] + 1 = Len(J[u]) /\ t = J[u][n[u] + 1] /\ n[u] < Len(J[u]) BY <1>4, <1>7, <1>8
    <2>2. t \in Bound
      <3>1. J[u] \in Seq(Bound) BY <1>4 DEF Filed
      <3>2. n[u] \in Nat BY <1>4, <1>7
      <3>3. Len(J[u]) \in 1..Len(J[u]) BY <2>1, <3>2
      <3> QED BY <2>1, <3>1, <3>3, ElementOf
    <2>3. ix \in IndexState /\ CountOK(ix) BY <1>2 DEF Reflects
    <2>4. Follows(ix, J[u][n[u] + 1], q) BY <2>1, <2>2, <2>3, ApplyFollows
    <2>5. Within(J, n) BY <1>2 DEF PublishedTo
    <2>6. m = [n EXCEPT ![u] = n[u] + 1] OBVIOUS
    <2>7. m[u] = Len(J[u]) /\ \A v \in Book : v # u => m[v] = n[v] BY <1>4, <1>7, <2>1
    <2> HIDE DEF m, u
    <2>8. Within(J, m) /\ Reflects(q, m, J) BY <1>2, <1>4, <2>1, <2>4, <2>5, <2>6, ReflectsNext
    <2>9. \A v \in Book : Len(J[v]) <= m[v] + 1
      <3> SUFFICES ASSUME NEW v \in Book PROVE Len(J[v]) <= m[v] + 1 OBVIOUS
      <3>1. CASE v = u BY <1>7, <2>7, <3>1
      <3>2. CASE v # u BY <1>7, <2>7, <3>2
      <3> QED BY <3>1, <3>2
    <2>10. ASSUME NEW v \in Book, m[v] # Len(J[v]), v \notin Z
           PROVE  \E d \in Client : Q[d].pc = "ran" /\ Q[d].cmd.u = v
      <3>1. v # u /\ n[v] # Len(J[v]) BY <2>7, <2>10
      <3>2. PICK d \in Client : R[d].pc = "ran" /\ R[d].cmd.u = v BY <1>7, <2>10, <3>1
      <3>3. d # c BY <3>1, <3>2 DEF u
      <3>4. Q[d] = R[d] BY <1>1, <3>3
      <3> QED BY <3>2, <3>4
    <2>11. ASSUME NEW d \in Client, Q[d].pc = "ran"
           PROVE  /\ Q[d].cmd.u \notin Z
                  /\ Binding(Q[d].turn.out) => /\ m[Q[d].cmd.u] + 1 = Len(J[Q[d].cmd.u])
                                               /\ Q[d].turn = J[Q[d].cmd.u][Len(J[Q[d].cmd.u])]
                  /\ ~ Binding(Q[d].turn.out) => m[Q[d].cmd.u] = Len(J[Q[d].cmd.u])
      <3>1. d # c /\ Q[d] = R[d] BY <1>5, <2>11
      <3>2. R[d].pc = "ran" /\ R[d].cmd.u # u BY <1>6, <2>11, <3>1
      <3>3. R[d].cmd.u \in Book
        <4>1. R[d].cmd \in Cmd BY <1>3, <3>2, RequestShape DEF Waiting
        <4> QED BY <4>1, CmdIs
      <3>4. m[R[d].cmd.u] = n[R[d].cmd.u] BY <2>7, <3>2, <3>3
      <3>5. /\ R[d].cmd.u \notin Z
            /\ Binding(R[d].turn.out) => /\ n[R[d].cmd.u] + 1 = Len(J[R[d].cmd.u])
                                         /\ R[d].turn = J[R[d].cmd.u][Len(J[R[d].cmd.u])]
            /\ ~ Binding(R[d].turn.out) => n[R[d].cmd.u] = Len(J[R[d].cmd.u])
        BY <1>2, <3>2 DEF PublishedTo
      <3> QED BY <3>1, <3>4, <3>5
    <2>12. PublishedTo(m, J, Q, Z) BY <2>8, <2>9, <2>10, <2>11 DEF PublishedTo
    <2> QED BY <2>8, <2>12 DEF IndexOK
  <1>9. CASE ~ Binding(t.out)
    <2>1. q = ix BY <1>9, ApplyNothing
    <2>2. n[u] = Len(J[u]) BY <1>7, <1>9
    <2>3. ASSUME NEW v \in Book, n[v] # Len(J[v]), v \notin Z
          PROVE  \E d \in Client : Q[d].pc = "ran" /\ Q[d].cmd.u = v
      <3>1. PICK d \in Client : R[d].pc = "ran" /\ R[d].cmd.u = v BY <1>7, <2>3
      <3>2. d # c BY <2>2, <2>3, <3>1
      <3>3. Q[d] = R[d] BY <1>1, <3>2
      <3> QED BY <3>1, <3>3
    <2>4. PublishedTo(n, J, Q, Z) BY <1>2, <1>5, <2>3 DEF PublishedTo
    <2> QED BY <1>2, <2>1, <2>4 DEF IndexOK
  <1> QED BY <1>8, <1>9

\* The venue after the publication, whatever becomes of the request.
LEMMA CorePublish ==
  ASSUME NEW J, NEW B, NEW M, NEW I, NEW Z, NEW R, NEW N, NEW U, NEW ix, Core(J, B, M, I, Z, R, N, U, ix),
         NEW c, NEW r, NEW Q, Becomes(R, c, r, Q), r.pc # "ran", R[c].pc = "ran",
         \A x \in OrderId, u \in Book : Claims(r, x, u) => Claims(R[c], x, u),
         BatchFits(r), ReceiptsOK(J, c, r, B), NEW q, q = ApplyCommitted(ix, R[c].turn)
  PROVE  Core(J, B, M, I, Z, Q, N, U, q)
  <1>1. /\ CoreTypes(B, M, I, Z, N, R) /\ Filed(J) /\ PlacedOK(J, B, M) /\ IdemOK(J, I) /\ RanOK(J, R)
        /\ IndexOK(J, R, Z, ix) /\ ClaimsOK(R, N) /\ BatchOK(J, R, B) /\ UndoneOK(J, B, U)
    BY DEF Core
  <1>2. CoreTypes(B, M, I, Z, N, Q) BY <1>1, BecomesIs DEF CoreTypes
  <1>3. RanOK(J, Q) BY <1>1, RanDrops
  <1>4. IndexOK(J, Q, Z, q) BY <1>1, IndexPublishes
  <1>5. ClaimsOK(Q, N) BY <1>1, ClaimsKeep
  <1>6. BatchOK(J, Q, B) BY <1>1, BatchKeeps
  <1> QED BY <1>1, <1>2, <1>3, <1>4, <1>5, <1>6 DEF Core

LEMMA PublishStep ==
  ASSUME FlowInv, NEW c \in Client, NEW heard, Publish(c, heard), NEW r \in RequestState,
         req' = [req EXCEPT ![c] = r], r.pc # "ran",
         \A x \in OrderId, u \in Book : Claims(r, x, u) => Claims(req[c], x, u),
         BatchFits(r), ReceiptsOK(journal, c, r, resting)
  PROVE  CoreNow'
  <1> DEFINE q == ApplyCommitted(IndexNow, req[c].turn)
  <1>1. CoreNow /\ req \in [Client -> RequestState] BY NowIs
  <1>2. Becomes(req, c, r, req') BY <1>1 DEF Becomes
  <1>3. /\ req[c].pc = "ran" /\ index' = q.map /\ count' = q.count /\ lost' = q.lost
        /\ journal' = journal /\ resting' = resting /\ named' = named /\ idem' = idem /\ sealed' = sealed
        /\ minted' = minted /\ undone' = undone
    BY DEF Publish, IndexNow, venue
  <1>4. q = ApplyCommitted(IndexNow, req[c].turn) OBVIOUS
  <1> HIDE DEF q
  <1>5. Core(journal, resting, named, idem, sealed, req', minted, undone, q)
    BY <1>1, <1>2, <1>3, <1>4, CorePublish DEF CoreNow
  <1>6. q \in IndexState
    <2>1. IndexOK(journal, req', sealed, q) BY <1>5 DEF Core
    <2> QED BY <2>1 DEF IndexOK, Reflects
  <1>7. IndexNow' = q BY <1>3, <1>6 DEF IndexNow, IndexState
  <1> QED BY <1>3, <1>5, <1>7 DEF CoreNow

\* What one session tracks.
TrackedIn(p) == {k \in Key : p[k] # None}
MapOK(p) ==
    /\ p \in [Key -> TrackedOrder \cup {None}]
    /\ IsFiniteSet(TrackedIn(p)) /\ Cardinality(TrackedIn(p)) <= MaxTracked

LEMMA SessionIs ==
  ASSUME NEW P, SessionsOK(P), NEW f \in Fix, NEW p, MapOK(p), NEW S, S = [P EXCEPT ![f] = p]
  PROVE  SessionsOK(S)
  <1>1. P \in [Fix -> [Key -> TrackedOrder \cup {None}]] BY DEF SessionsOK
  <1>2. p \in [Key -> TrackedOrder \cup {None}] BY DEF MapOK
  <1>3. S \in [Fix -> [Key -> TrackedOrder \cup {None}]] /\ S[f] = p /\ \A g \in Fix : g # f => S[g] = P[g]
    BY <1>1, <1>2
  <1>4. ASSUME NEW g \in Fix
        PROVE  /\ IsFiniteSet({k \in Key : S[g][k] # None})
               /\ Cardinality({k \in Key : S[g][k] # None}) <= MaxTracked
    <2>1. CASE g = f
      <3>1. {k \in Key : S[g][k] # None} = TrackedIn(p) BY <1>3, <2>1 DEF TrackedIn
      <3> QED BY <3>1 DEF MapOK
    <2>2. CASE g # f BY <1>3, <2>2 DEF SessionsOK
    <2> QED BY <2>1, <2>2
  <1> QED BY <1>3, <1>4 DEF SessionsOK

LEMMA MapShrinks ==
  ASSUME NEW p, MapOK(p), NEW s \in [Key -> TrackedOrder \cup {None}], \A k \in Key : s[k] # None => p[k] # None
  PROVE  MapOK(s) /\ TrackedIn(s) \subseteq TrackedIn(p)
  <1>1. TrackedIn(s) \subseteq TrackedIn(p) BY DEF TrackedIn
  <1>2. IsFiniteSet(TrackedIn(p)) /\ Cardinality(TrackedIn(p)) <= MaxTracked BY DEF MapOK
  <1>3. IsFiniteSet(TrackedIn(s)) /\ Cardinality(TrackedIn(s)) <= Cardinality(TrackedIn(p))
    BY <1>1, <1>2, FS_Subset
  <1>4. Cardinality(TrackedIn(p)) \in Nat /\ Cardinality(TrackedIn(s)) \in Nat
    BY <1>2, <1>3, FS_CardinalityType
  <1>5. Cardinality(TrackedIn(s)) <= MaxTracked BY <1>2, <1>3, <1>4, Parties
  <1> QED BY <1>1, <1>3, <1>5 DEF MapOK

LEMMA TrackKeeps ==
  ASSUME NEW f, MapOK(placed[f]), NEW map, MapOK(map), TrackedIn(map) \subseteq TrackedIn(placed[f]),
         NEW k, NEW o \in TrackedOrder, NEW s, s = Track(f, map, k, o)
  PROVE  MapOK(s)
  <1> DEFINE T == TrackedIn(placed[f])
  <1>1. T = Tracked(f) BY DEF TrackedIn, Tracked
  <1>2. CASE map[k] = None /\ Cardinality(T) >= MaxTracked BY <1>1, <1>2 DEF Track
  <1>3. CASE ~ (map[k] = None /\ Cardinality(T) >= MaxTracked)
    <2>1. s = [map EXCEPT ![k] = o] BY <1>1, <1>3 DEF Track
    <2>2. map \in [Key -> TrackedOrder \cup {None}] BY DEF MapOK
    <2>3. s \in [Key -> TrackedOrder \cup {None}] /\ \A x \in Key : x # k => s[x] = map[x] BY <2>1, <2>2
    <2>4. CASE map[k] # None
      <3>1. \A x \in Key : s[x] # None => map[x] # None BY <2>3, <2>4
      <3> QED BY <2>3, <3>1, MapShrinks
    <2>5. CASE map[k] = None
      <3>1. IsFiniteSet(T) /\ Cardinality(T) \in Nat BY FS_CardinalityType DEF MapOK
      <3>2. Cardinality(T) + 1 <= MaxTracked BY <1>3, <2>5, <3>1, Parties
      <3>3. TrackedIn(s) \subseteq T \cup {k} BY <2>3 DEF TrackedIn
      <3>4. IsFiniteSet(T \cup {k}) /\ Cardinality(T \cup {k}) <= Cardinality(T) + 1
        <4>1. /\ IsFiniteSet(T \cup {k})
              /\ Cardinality(T \cup {k}) = IF k \in T THEN Cardinality(T) ELSE Cardinality(T) + 1
          BY <3>1, FS_AddElement
        <4> QED BY <3>1, <4>1
      <3>5. IsFiniteSet(TrackedIn(s)) /\ Cardinality(TrackedIn(s)) <= Cardinality(T \cup {k})
        BY <3>3, <3>4, FS_Subset
      <3>6. Cardinality(TrackedIn(s)) \in Nat /\ Cardinality(T \cup {k}) \in Nat
        BY <3>4, <3>5, FS_CardinalityType
      <3>7. Cardinality(TrackedIn(s)) <= MaxTracked BY <3>1, <3>2, <3>4, <3>5, <3>6, Parties
      <3> QED BY <2>3, <3>5, <3>7 DEF MapOK
    <2> QED BY <2>4, <2>5
  <1> QED BY <1>2, <1>3

LEMMA TrackedAfterKeeps ==
  ASSUME NEW f, MapOK(placed[f]), NEW m \in Cmd, NEW out, NEW s, s = TrackedAfter(f, m, out)
  PROVE  MapOK(s)
  <1> DEFINE p == placed[f]
             without == [p EXCEPT ![m.orig] = None]
             order(id) == [u |-> m.u, id |-> id, qty |-> m.qty]
  <1>1. p \in [Key -> TrackedOrder \cup {None}] BY DEF MapOK
  <1>2. MapOK(without) /\ TrackedIn(without) \subseteq TrackedIn(p)
    <2>1. without \in [Key -> TrackedOrder \cup {None}] /\ \A k \in Key : without[k] # None => p[k] # None
      BY <1>1
    <2> HIDE DEF without
    <2> QED BY <2>1, MapShrinks
  <1>3. CASE m.op = "add" /\ out.is # "rejected"
    <2>1. m \in AddCmd BY <1>3, CmdIs
    <2>2. order(m.id) \in TrackedOrder BY <2>1 DEF AddCmd, TrackedOrder
    <2>3. s = Track(f, p, m.key, order(m.id)) BY <1>3 DEF TrackedAfter
    <2> HIDE DEF order
    <2> QED BY <2>2, <2>3, TrackKeeps
  <1>4. CASE m.op = "replace" /\ out.is = "replaced"
    <2>1. m \in ReplaceCmd BY <1>4, CmdIs
    <2>2. order(m.new) \in TrackedOrder BY <2>1 DEF ReplaceCmd, TrackedOrder
    <2>3. s = Track(f, without, m.key, order(m.new)) BY <1>4 DEF TrackedAfter
    <2> HIDE DEF order, without
    <2> QED BY <1>2, <2>2, <2>3, TrackKeeps
  <1>5. CASE (m.op = "cancel" /\ out.is = "cancelled") \/ (m.op = "replace" /\ out.is = "cancelled only")
    <2>1. s = without BY <1>5 DEF TrackedAfter
    <2> QED BY <1>2, <2>1
  <1>6. CASE m.op = "sweep"
    <2>1. s = [k \in Key |-> IF p[k] # None /\ p[k].u = m.u /\ p[k].id \in out.ids THEN None ELSE p[k]]
      BY <1>6 DEF TrackedAfter
    <2>2. s \in [Key -> TrackedOrder \cup {None}] /\ \A k \in Key : s[k] # None => p[k] # None
      BY <1>1, <2>1
    <2> QED BY <2>2, MapShrinks
  <1>7. CASE /\ ~ (m.op = "add" /\ out.is # "rejected") /\ ~ (m.op = "cancel" /\ out.is = "cancelled")
             /\ ~ (m.op = "replace" /\ out.is = "replaced") /\ ~ (m.op = "replace" /\ out.is = "cancelled only")
             /\ m.op # "sweep"
    <2>1. s = p BY <1>7 DEF TrackedAfter
    <2> QED BY <2>1
  <1> QED BY <1>3, <1>4, <1>5, <1>6, <1>7

\* An order that entered the book is the last turn of its journal until it is published.
LEMMA EnteredIs ==
  ASSUME FlowInv, NEW c \in Client, req[c].pc = "ran", req[c].cmd.op = "add", Entered(req[c].turn.out),
         NEW u, u = req[c].cmd.u, NEW t, t = req[c].turn
  PROVE  /\ u \in Book /\ t.cmd = req[c].cmd /\ t.account = AccountOf[c] /\ Places(t) = req[c].cmd.id
         /\ Len(journal[u]) \in Nat /\ t.seq = Len(journal[u])
         /\ t.seq \in 1..Len(journal[u]) /\ journal[u][t.seq] = t
  <1>1. /\ RanOK(journal, req) /\ Filed(journal) /\ req[c] \in RequestState
        /\ IndexOK(journal, req, sealed, IndexNow)
    BY NowIs
  <1>2. u \in Book BY <1>1, RequestShape, CmdIs DEF Waiting
  <1>3. t.cmd = req[c].cmd /\ t.account = AccountOf[c] BY <1>1 DEF RanOK
  <1>4. Binding(t.out) BY DEF Binding, Entered
  <1>5. PICK n : PublishedTo(n, journal, req, sealed) BY <1>1 DEF IndexOK
  <1>6. /\ n[u] + 1 = Len(journal[u]) /\ t = journal[u][Len(journal[u])]
        /\ n[u] \in Nat /\ Len(journal[u]) \in Nat
    BY <1>1, <1>2, <1>4, <1>5 DEF PublishedTo, Within, Filed
  <1>7. Len(journal[u]) \in 1..Len(journal[u]) BY <1>6
  <1>8. t.seq = Len(journal[u]) BY <1>1, <1>2, <1>6, <1>7 DEF Filed
  <1>9. Places(t) = req[c].cmd.id BY <1>3 DEF Places
  <1> QED BY <1>2, <1>3, <1>6, <1>7, <1>8, <1>9

\* What is told of a command that ran.
LEMMA AnswerIs ==
  ASSUME FlowInv, NEW c \in Client, req[c].pc = "ran", req[c].cmd.op = "add",
         Terminal(req[c].turn.out) # "rejected", NEW r, r = RenderedIdentity(req[c].cmd, req[c].turn),
         req[c].cmd.key # None
  PROVE  Opened(journal, req[c].cmd.u, r.seq, <<AccountOf[c], req[c].cmd.key>>, r.id)
  <1> DEFINE m == req[c].cmd
             t == req[c].turn
             u == m.u
             ak == <<AccountOf[c], m.key>>
  <1>1. /\ RanOK(journal, req) /\ Filed(journal) /\ req[c] \in RequestState
        /\ IndexOK(journal, req, sealed, IndexNow)
    BY NowIs
  <1>2. m \in Cmd /\ u \in Book BY <1>1, RequestShape, CmdIs DEF Waiting
  <1>3. /\ t \in TurnRec /\ t.cmd = m /\ t.account = AccountOf[c]
        /\ t.out.is \in {"entered", "rejected", "duplicate"}
        /\ t.out.is = "duplicate" /\ t.out.terminal = "entered" => Opened(journal, u, t.out.seq, ak, t.out.id)
    BY <1>1 DEF RanOK
  <1>4. CASE t.out.is = "duplicate"
    <2>1. r.id = t.out.id /\ r.seq = t.out.seq BY <1>4 DEF RenderedIdentity
    <2>2. t.out.terminal # "rejected" BY <1>4 DEF Terminal
    <2>3. t.out \in Out BY <1>3 DEF TurnRec
    <2>4. t.out.terminal = "entered" BY <1>4, <2>2, <2>3 DEF Out
    <2> QED BY <1>3, <1>4, <2>1, <2>4
  <1>5. CASE t.out.is # "duplicate"
    <2>1. t.out.is = "entered" BY <1>3, <1>5 DEF Terminal
    <2>2. r.id = m.id /\ r.seq = t.seq BY <1>5 DEF RenderedIdentity
    <2>3. Entered(t.out) BY <2>1 DEF Entered
    <2>4. t.seq \in 1..Len(journal[u]) /\ journal[u][t.seq] = t /\ Places(t) = m.id BY <2>3, EnteredIs
    <2>5. OpensUnder(t, ak) BY <1>3, <2>1 DEF OpensUnder, Entered
    <2> QED BY <2>2, <2>4, <2>5 DEF Opened
  <1> QED BY <1>4, <1>5

LEMMA AppendIs ==
  ASSUME NEW S, NEW a \in Seq(S), NEW e \in S
  PROVE  /\ Append(a, e) \in Seq(S) /\ Len(Append(a, e)) = Len(a) + 1 /\ Len(a) \in Nat
         /\ \A k \in 1..Len(Append(a, e)) :
              (k \in 1..Len(a) /\ Append(a, e)[k] = a[k]) \/ Append(a, e)[k] = e
  OBVIOUS

\* The receipt of an item of a batch, or of a cancel of its roll-back.
ItemOf(m, t) == [u |-> m.u, id |-> m.id, seq |-> IF Entered(t.out) THEN t.seq ELSE 0]
Receipt(b, m, t) == IF m.op = "add" THEN [b EXCEPT !.ids = Append(b.ids, ItemOf(m, t))] ELSE b

LEMMA ReceiptIs ==
  ASSUME NEW r0 \in RequestState, r0.pc = "ran", InBatch(r0), BatchFits(r0), NEW J, NEW c, NEW B,
         ReceiptsOK(J, c, r0, B), NEW b, b = r0.batch, NEW m, m = r0.cmd, NEW t, t.seq \in Nat,
         m.op = "add" => Received(J, AccountOf[c], ItemOf(m, t)),
         NEW w, w = Receipt(b, m, t), NEW r, r = BatchOf(w)
  PROVE  /\ r \in RequestState /\ r.pc # "ran" /\ BatchFits(r) /\ ReceiptsOK(J, c, r, B)
         /\ \A x, v : Claims(r, x, v) => Claims(r0, x, v)
  <1>1. Waiting(r0) BY DEF Waiting
  <1>2. b \in BatchState /\ m \in Cmd BY <1>1, RequestShape
  <1>3. /\ b.undo <= Len(b.ids) /\ (~ b.aborted => b.undo = 0)
        /\ (m.op = "add" /\ ~ b.aborted) \/ (m.op = "cancel" /\ b.aborted)
    BY <1>1 DEF BatchFits
  <1>4. b.ids \in Seq(ItemPlaced) /\ b.undo \in Nat BY <1>2, BatchFields
  <1>5. \A x, v : InIds(b, x, v) => Claims(r0, x, v) BY DEF Claims, InIds
  <1>6. CASE m.op = "add"
    <2> DEFINE e == ItemOf(m, t)
               s == Append(b.ids, e)
    <2>1. m \in AddCmd BY <1>2, <1>6, CmdIs
    <2>2. e \in ItemPlaced /\ e.u = m.u /\ e.id = m.id
      <3> DEFINE n == IF Entered(t.out) THEN t.seq ELSE 0
      <3>1. n \in Nat /\ m.u \in Book /\ m.id \in OrderId BY <2>1 DEF AddCmd
      <3>2. e = [u |-> m.u, id |-> m.id, seq |-> n] BY DEF ItemOf
      <3> HIDE DEF n, e
      <3> QED BY <3>1, <3>2 DEF ItemPlaced
    <2>a. Received(J, AccountOf[c], e) BY <1>6
    <2> HIDE DEF e
    <2>3. /\ s \in Seq(ItemPlaced) /\ Len(s) = Len(b.ids) + 1 /\ Len(b.ids) \in Nat
          /\ \A k \in 1..Len(s) : (k \in 1..Len(b.ids) /\ s[k] = b.ids[k]) \/ s[k] = e
      BY <1>4, <2>2, AppendIs
    <2>4. w = [b EXCEPT !.ids = s] BY <1>6 DEF e, Receipt
    <2> HIDE DEF s
    <2>5. w \in BatchState /\ w.ids = s /\ w.undo = b.undo /\ w.aborted = b.aborted
      <3>1. s \in Seq(ItemPlaced) BY <2>3
      <3>2. b = [left |-> b.left, ids |-> b.ids, atomic |-> b.atomic, aborted |-> b.aborted,
                 undo |-> b.undo, warned |-> b.warned]
            /\ b.left \in Seq(Item \cup {None}) /\ b.atomic \in BOOLEAN /\ b.aborted \in BOOLEAN
            /\ b.undo \in Nat /\ b.warned \in BOOLEAN
        BY <1>2, BatchFields
      <3>3. w = [left |-> b.left, ids |-> s, atomic |-> b.atomic, aborted |-> b.aborted,
                 undo |-> b.undo, warned |-> b.warned]
        BY <2>4, <3>2
      <3> QED BY <3>1, <3>2, <3>3 DEF BatchState
    <2>6. /\ r \in RequestState /\ r.pc = "batch" /\ r.batch = w
          /\ \A x, v : Claims(r, x, v) <=> InIds(w, x, v)
          /\ BatchFits(r) <=> w.undo <= Len(w.ids) /\ (~ w.aborted => w.undo = 0)
      BY <2>5, InBatchIs
    <2>7. BatchFits(r) BY <1>3, <1>4, <2>3, <2>5, <2>6
    <2>8. ReceiptsOK(J, c, r, B)
      <3>1. ItemsOK(J, c, b) BY DEF ReceiptsOK
      <3>2. ItemsOK(J, c, w) BY <2>3, <2>5, <2>a, <3>1 DEF ItemsOK
      <3>3. ~ r.batch.aborted BY <1>3, <1>6, <2>5, <2>6
      <3> QED BY <2>6, <3>2, <3>3 DEF ReceiptsOK
    <2>9. ASSUME NEW x, NEW v, Claims(r, x, v) PROVE Claims(r0, x, v)
      <3>1. PICK k \in 1..Len(s) : s[k].u = v /\ s[k].id = x BY <2>5, <2>6, <2>9 DEF InIds
      <3>2. CASE k \in 1..Len(b.ids) /\ s[k] = b.ids[k] BY <1>5, <3>1, <3>2 DEF InIds
      <3>3. CASE s[k] = e
        <4>1. Places(r0) = m.id /\ r0.cmd.u = m.u BY <1>6 DEF Places
        <4> QED BY <1>1, <2>2, <3>1, <3>3, <4>1 DEF Claims
      <3> QED BY <2>3, <3>2, <3>3
    <2> QED BY <2>6, <2>7, <2>8, <2>9
  <1>7. CASE m.op # "add"
    <2>1. w = b BY <1>7 DEF Receipt
    <2>2. /\ r \in RequestState /\ r.pc = "batch" /\ r.batch = b /\ InBatch(r)
          /\ \A x, v : Claims(r, x, v) <=> InIds(b, x, v)
          /\ BatchFits(r) <=> b.undo <= Len(b.ids) /\ (~ b.aborted => b.undo = 0)
          /\ UndoneTo(r) = b.undo
      BY <1>2, <2>1, InBatchIs
    <2>3. UndoneTo(r0) = b.undo BY DEF UndoneTo
    <2>4. ReceiptsOK(J, c, r, B) BY <2>2, <2>3 DEF ReceiptsOK
    <2> QED BY <1>3, <1>5, <2>2, <2>4
  <1> QED BY <1>6, <1>7

LEMMA PublishKeeps ==
  ASSUME FlowInv, NEW c \in Client, NEW heard \in BOOLEAN, Publish(c, heard)
  PROVE  FlowInv'
  <1>1. /\ req[c].pc = "ran" /\ journal' = journal
        /\ IF ~heard
           THEN req' = [req EXCEPT ![c] = Idle] /\ placed' = Disconnected(c) /\ UNCHANGED told
           ELSE IF c \in Fix THEN RenderFix(c)
           ELSE IF req[c].batch # None THEN BulkReceipt(c)
           ELSE RenderRest(c)
    BY DEF Publish, venue
  <1>2. /\ ToldOK(journal, told) /\ SessionsOK(placed) /\ req[c] \in RequestState /\ BatchFits(req[c])
        /\ ReceiptsOK(journal, c, req[c], resting)
    BY NowIs
  <1>3. Waiting(req[c]) BY <1>1 DEF Waiting
  <1>4. req[c].cmd \in Cmd BY <1>2, <1>3, RequestShape
  <1>5. ASSUME req' = [req EXCEPT ![c] = Idle] PROVE CoreNow'
    <2> DEFINE r == Idle
    <2>1. /\ r \in RequestState /\ r.pc # "ran" /\ BatchFits(r) /\ ReceiptsOK(journal, c, r, resting)
          /\ \A x, u : ~ Claims(r, x, u)
      BY IdleIs
    <2>2. req' = [req EXCEPT ![c] = r] BY <1>5
    <2> HIDE DEF r
    <2> QED BY <2>1, <2>2, PublishStep
  <1>6. CASE ~ heard
    <2>1. req' = [req EXCEPT ![c] = Idle] /\ placed' = Disconnected(c) /\ told' = told BY <1>1, <1>6
    <2>2. CoreNow' BY <1>5, <2>1
    <2>3. SessionsOK(placed') BY <1>2, <2>1, NoTrackingKeeps DEF Disconnected
    <2> QED BY <1>1, <1>2, <2>1, <2>2, <2>3 DEF FlowInv, CoreNow
  <1>7. CASE heard /\ c \in Fix
    <2> DEFINE p == TrackedAfter(c, req[c].cmd, req[c].turn.out)
    <2>1. placed' = [placed EXCEPT ![c] = p] /\ req' = [req EXCEPT ![c] = Idle] /\ told' = told
      BY <1>1, <1>7 DEF RenderFix
    <2>2. CoreNow' BY <1>5, <2>1
    <2>3. MapOK(placed[c]) BY <1>2, <1>7 DEF SessionsOK, MapOK, TrackedIn
    <2>4. MapOK(p) BY <1>4, <2>3, TrackedAfterKeeps
    <2> HIDE DEF p
    <2>5. SessionsOK(placed') BY <1>2, <1>7, <2>1, <2>4, SessionIs
    <2> QED BY <1>1, <1>2, <2>1, <2>2, <2>5 DEF FlowInv, CoreNow
  <1>8. CASE heard /\ c \notin Fix /\ req[c].batch # None
    <2> DEFINE b == req[c].batch
               m == req[c].cmd
               t == req[c].turn
               w == Receipt(b, m, t)
               r == BatchOf(w)
               x == ItemOf(m, t)
    <2>1. /\ req' = [req EXCEPT ![c] = r] /\ placed' = placed
          /\ told' = IF m.op = "add" THEN Heard(c, m, m.id, t.seq, t.out.is) ELSE told
      BY <1>1, <1>8 DEF BulkReceipt, Back, BatchOf, Receipt, ItemOf
    <2>2. InBatch(req[c]) BY <1>3, <1>8 DEF InBatch
    <2>3. t.seq \in Nat
      <3>1. RanOK(journal, req) BY NowIs
      <3>2. t \in TurnRec BY <1>1, <3>1 DEF RanOK
      <3> QED BY <3>2 DEF TurnRec
    <2>4. x.u = m.u /\ x.id = m.id /\ x.seq = IF Entered(t.out) THEN t.seq ELSE 0 BY DEF ItemOf
    <2>5. ASSUME m.op = "add" PROVE Received(journal, AccountOf[c], x)
      <3>1. CASE Entered(t.out)
        <4>1. /\ Places(t) = m.id /\ t.account = AccountOf[c] /\ Len(journal[m.u]) \in Nat
              /\ t.seq = Len(journal[m.u]) /\ t.seq \in 1..Len(journal[m.u]) /\ journal[m.u][t.seq] = t
          BY <1>1, <2>5, <3>1, EnteredIs
        <4>2. x.seq = t.seq BY <2>4, <3>1
        <4> HIDE DEF x, t, m
        <4> QED BY <2>4, <4>1, <4>2 DEF Received
      <3>2. CASE ~ Entered(t.out) BY <2>4, <3>2 DEF Received
      <3> QED BY <3>1, <3>2
    <2>6. /\ r \in RequestState /\ r.pc # "ran" /\ BatchFits(r) /\ ReceiptsOK(journal, c, r, resting)
          /\ \A y, v : Claims(r, y, v) => Claims(req[c], y, v)
      BY <1>1, <1>2, <2>2, <2>3, <2>5, ReceiptIs
    <2>7. ToldOK(journal, told')
      <3>1. CASE m.op = "add"
        <4>1. m \in AddCmd BY <1>4, <3>1, CmdIs
        <4>2. m.u \in Book /\ m.key \in Key \cup {None} BY <4>1 DEF AddCmd
        <4> DEFINE o == t.out.is
                   n == t.seq
                   id == m.id
        <4>3. told' = IF m.key = None THEN told ELSE told \cup {Accepted(c, m, id, n, o)}
          BY <2>1, <3>1 DEF Heard
        <4>4. m.key # None /\ o = "entered" => Opened(journal, m.u, n, <<AccountOf[c], m.key>>, id)
          <5> SUFFICES ASSUME m.key # None, o = "entered"
                       PROVE  Opened(journal, m.u, n, <<AccountOf[c], m.key>>, id)
            OBVIOUS
          <5>1. Entered(t.out) BY DEF Entered
          <5>2. /\ Places(t) = m.id /\ t.account = AccountOf[c] /\ t.cmd = m
                /\ t.seq \in 1..Len(journal[m.u]) /\ journal[m.u][t.seq] = t
            BY <1>1, <3>1, <5>1, EnteredIs
          <5>3. OpensUnder(t, <<AccountOf[c], m.key>>) BY <5>1, <5>2 DEF OpensUnder
          <5> QED BY <5>2, <5>3 DEF Opened
        <4> HIDE DEF o, n, id, m
        <4> QED BY <1>2, <4>2, <4>3, <4>4, TellsOne
      <3>2. CASE m.op # "add" BY <1>2, <2>1, <3>2
      <3> QED BY <3>1, <3>2
    <2> HIDE DEF r
    <2>8. CoreNow' BY <2>1, <2>6, PublishStep
    <2> QED BY <1>1, <1>2, <2>1, <2>7, <2>8 DEF FlowInv, CoreNow
  <1>9. CASE heard /\ c \notin Fix /\ req[c].batch = None
    <2> DEFINE m == req[c].cmd
               out == req[c].turn.out
               r == RenderedIdentity(m, req[c].turn)
    <2>1. /\ req' = [req EXCEPT ![c] = Idle] /\ placed' = placed
          /\ told' = IF m.op = "add" /\ Terminal(out) # "rejected" THEN Heard(c, m, r.id, r.seq, "entered") ELSE told
      BY <1>1, <1>9 DEF RenderRest
    <2>2. CoreNow' BY <1>5, <2>1
    <2>3. ToldOK(journal, told')
      <3>1. CASE m.op = "add" /\ Terminal(out) # "rejected"
        <4>1. told' = IF m.key = None THEN told ELSE told \cup {Accepted(c, m, r.id, r.seq, "entered")}
          BY <2>1, <3>1 DEF Heard
        <4>2. m \in AddCmd BY <1>4, <3>1, CmdIs
        <4>3. m.u \in Book /\ m.key \in Key \cup {None} BY <4>2 DEF AddCmd
        <4>4. m.key # None => Opened(journal, m.u, r.seq, <<AccountOf[c], m.key>>, r.id)
          BY <1>1, <3>1, AnswerIs
        <4> DEFINE n == r.seq
                   id == r.id
                   o == "entered"
        <4> HIDE DEF n, id, o, m
        <4>5. told' = IF m.key = None THEN told ELSE told \cup {Accepted(c, m, id, n, o)} BY <4>1 DEF n, id, o
        <4>6. m.key # None => Opened(journal, m.u, n, <<AccountOf[c], m.key>>, id) BY <4>4 DEF n, id
        <4> QED BY <1>2, <4>3, <4>5, <4>6, TellsOne
      <3>2. CASE ~ (m.op = "add" /\ Terminal(out) # "rejected") BY <1>2, <2>1, <3>2
      <3> QED BY <3>1, <3>2
    <2> QED BY <1>1, <1>2, <2>1, <2>2, <2>3 DEF FlowInv, CoreNow
  <1> QED BY <1>6, <1>7, <1>8, <1>9
-----------------------------------------------------------------------------
(* Boot, and the first boot.                                                *)

LEMMA AllQuiet ==
  ASSUME NEW R, R = [c \in Client |-> Idle]
  PROVE  /\ R \in [Client -> RequestState] /\ \A c \in Client : R[c] = Idle /\ R[c].pc # "ran"
         /\ \A J : RanOK(J, R)
         /\ \A N : ClaimsOK(R, N)
         /\ \A J, B : BatchOK(J, R, B)
  <1>1. R \in [Client -> RequestState] /\ \A c \in Client : R[c] = Idle BY IdleIs
  <1>2. \A c \in Client : R[c].pc # "ran" BY <1>1, IdleIs
  <1>3. \A J : RanOK(J, R) BY <1>2 DEF RanOK
  <1>4. \A N : ClaimsOK(R, N) BY <1>1, IdleIs DEF ClaimsOK
  <1>5. \A J, B : BatchOK(J, R, B) BY <1>1, IdleIs DEF BatchOK
  <1> QED BY <1>1, <1>2, <1>3, <1>4, <1>5

LEMMA NobodyTracks ==
  ASSUME NEW P, P = [f \in Fix |-> NoTracking]
  PROVE  SessionsOK(P)
  <1>1. NoTracking \in [Key -> TrackedOrder \cup {None}] /\ {k \in Key : NoTracking[k] # None} = {}
    BY DEF NoTracking
  <1>2. P \in [Fix -> [Key -> TrackedOrder \cup {None}]] /\ \A f \in Fix : P[f] = NoTracking BY <1>1
  <1>3. ASSUME NEW f \in Fix
        PROVE  /\ IsFiniteSet({k \in Key : P[f][k] # None})
               /\ Cardinality({k \in Key : P[f][k] # None}) <= MaxTracked
    <2>1. {k \in Key : P[f][k] # None} = {} BY <1>1, <1>2
    <2>2. IsFiniteSet({}) /\ Cardinality({}) = 0 /\ MaxTracked \in Nat BY FS_EmptySet, Parties
    <2>3. Cardinality({}) <= MaxTracked BY <2>2
    <2> QED BY <2>1, <2>2, <2>3, Zenon
  <1> QED BY <1>2, <1>3 DEF SessionsOK

\* After a boot the index has seen every turn of every journal.
LEMMA AllPublished ==
  ASSUME NEW J, Filed(J), Within(J, AllOf(J)), NEW R, \A c \in Client : R[c].pc # "ran", NEW Z
  PROVE  PublishedTo(AllOf(J), J, R, Z)
  <1>1. \A u \in Book : AllOf(J)[u] = Len(J[u]) /\ Len(J[u]) \in Nat BY DEF AllOf, Filed
  <1> QED BY <1>1 DEF PublishedTo

LEMMA RestartKeeps ==
  ASSUME FlowInv, Restart
  PROVE  FlowInv'
  <1>1. /\ index' = Rebuilt.map /\ count' = Rebuilt.count /\ lost' = Rebuilt.lost /\ sealed' = {}
        /\ placed' = [f \in Fix |-> NoTracking] /\ req' = [c \in Client |-> Idle] /\ journal' = journal
        /\ resting' = resting /\ named' = named /\ idem' = idem /\ minted' = 0 /\ told' = told /\ undone' = undone
    BY DEF Restart
  <1>2. /\ CoreTypes(resting, named, idem, sealed, minted, req) /\ Filed(journal)
        /\ PlacedOK(journal, resting, named) /\ IdemOK(journal, idem)
        /\ UndoneOK(journal, resting, undone) /\ ToldOK(journal, told)
    BY NowIs
  <1>3. /\ req' \in [Client -> RequestState] /\ (\A c \in Client : req'[c].pc # "ran")
        /\ RanOK(journal, req') /\ ClaimsOK(req', 0) /\ BatchOK(journal, req', resting)
    BY <1>1, AllQuiet
  <1>4. Within(journal, AllOf(journal)) /\ Reflects(Rebuilt, AllOf(journal), journal)
    BY <1>2, RebuiltReflects
  <1>5. PublishedTo(AllOf(journal), journal, req', {}) BY <1>2, <1>3, <1>4, AllPublished
  <1>6. IndexOK(journal, req', {}, Rebuilt) BY <1>4, <1>5 DEF IndexOK
  <1>7. Rebuilt \in IndexState BY <1>4 DEF Reflects
  <1> DEFINE q == Rebuilt
  <1>8. q \in IndexState /\ index' = q.map /\ count' = q.count /\ lost' = q.lost BY <1>1, <1>7
  <1> HIDE DEF q
  <1>9. IndexNow' = q BY <1>8 DEF IndexNow, IndexState
  <1>10. CoreTypes(resting, named, idem, {}, 0, req')
    <2>1. 0 \in 0..MaxOrders BY Parties
    <2>2. {} \in SUBSET Book OBVIOUS
    <2> QED BY <1>2, <1>3, <2>1, <2>2, Zenon DEF CoreTypes
  <1>11. Core(journal, resting, named, idem, {}, req', 0, undone, q)
    BY <1>2, <1>3, <1>6, <1>10 DEF Core, q
  <1>12. CoreNow' BY <1>1, <1>9, <1>11 DEF CoreNow
  <1>13. SessionsOK(placed') BY <1>1, NobodyTracks
  <1> QED BY <1>1, <1>2, <1>12, <1>13 DEF FlowInv, CoreNow

LEMMA InitHolds ==
  ASSUME FlowInit
  PROVE  FlowInv
  <1>1. /\ journal = [u \in Book |-> <<>>] /\ resting = [u \in Book |-> {}]
        /\ named = [u \in Book |-> {}]
        /\ idem = [u \in Book |-> [ak \in Account \X Key |-> None]]
        /\ index = EmptyIndex.map /\ count = EmptyIndex.count /\ lost = EmptyIndex.lost
        /\ sealed = {} /\ placed = [f \in Fix |-> NoTracking] /\ req = [c \in Client |-> Idle]
        /\ minted = 0 /\ told = {} /\ undone = {}
    BY DEF FlowInit
  <1>2. /\ journal \in [Book -> Seq(Bound)] /\ \A u \in Book : Len(journal[u]) = 0 /\ 1..Len(journal[u]) = {}
    BY <1>1
  <1>3. Filed(journal) BY <1>2 DEF Filed
  <1>4. /\ req \in [Client -> RequestState] /\ (\A c \in Client : req[c].pc # "ran")
        /\ RanOK(journal, req) /\ ClaimsOK(req, minted) /\ BatchOK(journal, req, resting)
    BY <1>1, AllQuiet
  <1>5. /\ resting \in [Book -> SUBSET Nat] /\ named \in [Book -> SUBSET Nat]
        /\ \A u \in Book : resting[u] = {} /\ named[u] = {}
    BY <1>1
  <1>6. /\ idem \in [Book -> [Account \X Key -> Idempotent \cup {None}]]
        /\ \A u \in Book, ak \in Account \X Key : idem[u][ak] = None
    BY <1>1
  <1>7. CoreTypes(resting, named, idem, sealed, minted, req) BY <1>1, <1>4, <1>5, <1>6, Parties DEF CoreTypes
  <1>8. PlacedOK(journal, resting, named) BY <1>2, <1>5 DEF PlacedOK
  <1>9. IdemOK(journal, idem) BY <1>2, <1>6 DEF IdemOK
  <1>10. UndoneOK(journal, resting, undone) BY <1>1, <1>5 DEF UndoneOK
  <1>11. IndexOK(journal, req, sealed, IndexNow)
    <2> DEFINE n == Walked(0, journal)
    <2>1. Within(journal, n) /\ Reflects(EmptyIndex, n, journal) BY <1>3, NothingReflected
    <2>2. IndexNow = EmptyIndex BY <1>1 DEF IndexNow, EmptyIndex
    <2>3. \A u \in Book : n[u] = 0 BY DEF Walked
    <2> HIDE DEF n
    <2>4. PublishedTo(n, journal, req, sealed) BY <1>2, <1>4, <2>1, <2>3 DEF PublishedTo
    <2> QED BY <2>1, <2>2, <2>4 DEF IndexOK
  <1>12. Core(journal, resting, named, idem, sealed, req, minted, undone, IndexNow)
    BY <1>3, <1>4, <1>7, <1>8, <1>9, <1>10, <1>11 DEF Core
  <1>13. ToldOK(journal, told) BY <1>1 DEF ToldOK
  <1>14. SessionsOK(placed) BY <1>1, NobodyTracks
  <1> QED BY <1>12, <1>13, <1>14 DEF FlowInv

LEMMA StepKeeps ==
  ASSUME FlowInv, [FlowNext]_flowVars
  PROVE  FlowInv'
  <1>1. ASSUME NEW c \in Rest, RestRequest(c) PROVE FlowInv'
    <2>1. ASSUME NEW u \in Book, NEW k \in Key, NEW q \in Qty, PlaceLimitOrder(c, u, k, q) PROVE FlowInv'
      <3>1. PlaceRest(c, AddOrder(u, k, q, "limit")) BY <2>1 DEF PlaceLimitOrder
      <3> QED BY <3>1, PlaceRestKeeps
    <2>2. ASSUME NEW u \in Book, NEW k \in Key, NEW q \in Qty, PlaceMarketOrder(c, u, k, q) PROVE FlowInv'
      <3>1. PlaceRest(c, AddOrder(u, k, q, "market")) BY <2>2 DEF PlaceMarketOrder
      <3> QED BY <3>1, PlaceRestKeeps
    <2>3. ASSUME NEW u \in Book, CancelRest(c, u) PROVE FlowInv' BY <2>3, CancelRestKeeps
    <2>4. ASSUME NEW items \in Batches, NEW atomic \in BOOLEAN, BulkStart(c, items, atomic) PROVE FlowInv'
      BY <2>4, BulkStartKeeps
    <2>5. CASE BulkNext(c) BY <2>5, BulkNextKeeps
    <2>6. CASE BulkRollBack(c) BY <2>6, BulkRollBackKeeps
    <2>7. CASE BulkAnswer(c) BY <2>7, BulkAnswerKeeps
    <2> QED BY <1>1, <2>1, <2>2, <2>3, <2>4, <2>5, <2>6, <2>7 DEF RestRequest
  <1>2. ASSUME NEW f \in Fix, FixRequest(f) PROVE FlowInv'
    <2>1. ASSUME NEW u \in Book, NEW k \in Key, NEW q \in Qty, NEW kind \in {"limit", "market"},
                 PlaceFix(f, u, k, q, kind)
          PROVE  FlowInv'
      BY <2>1, PlaceFixKeeps
    <2>2. ASSUME NEW u \in Book, CancelFix(f, u) PROVE FlowInv' BY <2>2, CancelFixKeeps
    <2>3. ASSUME NEW u \in Book, NEW o \in Key, NEW k \in Key, NEW q \in Qty, ReplaceFix(f, u, o, k, q)
          PROVE  FlowInv'
      BY <2>3, ReplaceFixKeeps
    <2> QED BY <1>2, <2>1, <2>2, <2>3 DEF FixRequest
  <1>3. ASSUME NEW c \in Client, Actor(c) PROVE FlowInv'
    <2>1. CASE Turn(c) BY <2>1, TurnKeeps
    <2>2. ASSUME NEW heard \in BOOLEAN, Publish(c, heard) PROVE FlowInv' BY <2>2, PublishKeeps
    <2>3. CASE SubmitRefused(c) BY <2>3, SubmitRefusedKeeps
    <2>4. CASE SealedTurn(c) BY <2>4, SealedTurnKeeps
    <2>5. CASE HangUp(c) BY <2>5, HangUpKeeps
    <2> QED BY <1>3, <2>1, <2>2, <2>3, <2>4, <2>5 DEF Actor
  <1>4. ASSUME NEW u \in Book, NEW s \in resting[u], Trade(u, s) PROVE FlowInv' BY <1>4, TradeKeeps
  <1>5. CASE Restart BY <1>5, RestartKeeps
  <1>6. CASE UNCHANGED flowVars
    <2>1. /\ journal' = journal /\ resting' = resting /\ named' = named /\ idem' = idem /\ sealed' = sealed /\ req' = req
          /\ minted' = minted /\ undone' = undone /\ IndexNow' = IndexNow /\ told' = told /\ placed' = placed
      BY <1>6 DEF flowVars, IndexNow
    <2> QED BY <2>1 DEF FlowInv
  <1> QED BY <1>1, <1>2, <1>3, <1>4, <1>5, <1>6 DEF FlowNext

LEMMA FlowInvHolds == FlowSpec => []FlowInv
  <1>1. FlowInit => FlowInv BY InitHolds
  <1>2. FlowInv /\ [FlowNext]_flowVars => FlowInv' BY StepKeeps
  <1> QED BY <1>1, <1>2, PTL DEF FlowSpec

\* The index is sound at every moment, for any parties, underlyings, ceilings and order of
\* requests, over restarts that hand out the order ids again: its counters are exact, its
\* entries name orders that entered the book, a resting order is found by its key, and the
\* id found takes it off the book unless another order had the id (IndexIsSound).
THEOREM IndexAlwaysSound == FlowSpec => []IndexIsSound
  <1>1. FlowInv => IndexIsSound BY CountsFollow, IndexFollows DEF IndexIsSound
  <1> QED BY <1>1, FlowInvHolds, PTL

\* What clients were told of the orders that entered, one by one or in a batch, stays true,
\* and so does a roll-back for the receipts of its batch, over restarts that hand out the
\* order ids again and up to the exceptions that AnswersHold names.
THEOREM AnswersAlwaysHold == FlowSpec => []AnswersHold
  <1>1. FlowInv => AnswersHold
    <2> SUFFICES ASSUME FlowInv PROVE RetriesNameOneOrder /\ RolledBackIsOff BY DEF AnswersHold
    <2>1. UndoneOK(journal, resting, undone) BY NowIs
    <2>2. RolledBackIsOff
      <3> SUFFICES ASSUME NEW u \in Book, NEW s \in resting[u], <<u, s>> \in undone
                   PROVE  \E j \in 1..(s - 1) : IdOf(u, j) = IdOf(u, s)
        BY DEF RolledBackIsOff
      <3>1. Off(journal, resting, u, s) BY <2>1 DEF UndoneOK
      <3> QED BY <3>1 DEF Off, IdOf
    <2> QED BY <2>2, RetriesFollow
  <1> QED BY <1>1, FlowInvHolds, PTL
-----------------------------------------------------------------------------
(* A restart and what the keys mean.                                        *)

LEMMA BookIsFinite == IsFiniteSet(Book)
  <1> DEFINE n == Len(Underlying)
  <1>1. Underlying \in Seq(Book) BY Listing
  <1>2. n \in Nat /\ Underlying \in [1..n -> Book] /\ DOMAIN Underlying = 1..n BY <1>1
  <1>3. \A u \in Book : \E i \in 1..n : Underlying[i] = u BY <1>2 DEF Book, Range
  <1>4. Underlying \in Surjection(1..n, Book) BY <1>2, <1>3 DEF Surjection
  <1>5. IsFiniteSet(1..n) BY <1>2, FS_Interval
  <1> HIDE DEF n
  <1> QED BY <1>4, <1>5, FS_Surjection

LEMMA OnlyOne ==
  ASSUME NEW S, IsFiniteSet(S), Cardinality(S) <= 1, NEW x \in S
  PROVE  S = {x}
  <1>1. /\ IsFiniteSet(S \ {x}) /\ Cardinality(S \ {x}) = Cardinality(S) - 1 BY FS_RemoveElement
  <1>2. Cardinality(S) \in Nat /\ Cardinality(S \ {x}) \in Nat BY <1>1, FS_CardinalityType
  <1>3. Cardinality(S \ {x}) = 0 BY <1>1, <1>2
  <1>4. S \ {x} = {} BY <1>1, <1>3, FS_EmptySet
  <1> QED BY <1>4

\* The last of the first n[u] turns of u that rebinds ak.
LEMMA LastRebinding ==
  ASSUME NEW J, NEW n, NEW u \in Book, n[u] \in Nat, NEW ak, NEW j \in 1..n[u], Rebinds(J[u][j], ak)
  PROVE  \E i \in Nat : LastAt(ak, u, i, n, J)
  <1> DEFINE N == {k \in Nat : k < n[u] /\ Rebinds(J[u][n[u] - k], ak)}
  <1>1. n[u] - j \in N
    <2>1. n[u] - j \in Nat /\ n[u] - j < n[u] /\ n[u] - (n[u] - j) = j OBVIOUS
    <2> QED BY <2>1
  <1>2. N \in SUBSET Nat /\ N # {} BY <1>1
  <1> HIDE DEF N
  <1>3. PICK k \in N : \A l \in N : k <= l BY <1>2, LeastNatural
  <1> DEFINE i == n[u] - k
  <1>4. k \in Nat /\ k < n[u] /\ Rebinds(J[u][i], ak) BY <1>3 DEF N
  <1>5. i \in 1..n[u] /\ i \in Nat BY <1>4
  <1>6. ASSUME NEW l \in 1..n[u], l > i, Rebinds(J[u][l], ak) PROVE FALSE
    <2>1. n[u] - l \in Nat /\ n[u] - l < n[u] /\ n[u] - (n[u] - l) = l BY <1>6
    <2>2. n[u] - l \in N BY <1>6, <2>1 DEF N
    <2>3. k <= n[u] - l BY <1>3, <2>2
    <2> QED BY <1>4, <1>6, <2>1, <2>3
  <1> QED BY <1>4, <1>5, <1>6 DEF LastAt

LEMMA RestartMeansTheSame ==
  ASSUME FlowInv, Restart, ~ lost, ~ lost', NEW ak \in Account \X Key,
         NEW S, S = {u \in Book : \E t \in Turns(u) : Rebinds(t, ak)},
         Cardinality(S) <= 1, \A u \in S : Unpublished(u) = {}
  PROVE  index'[ak] = index[ak]
  <1> DEFINE N == AllOf(journal)
             q == Rebuilt
  <1>1. Filed(journal) /\ IndexOK(journal, req, sealed, IndexNow) BY NowIs
  <1>2. PICK n : PublishedTo(n, journal, req, sealed) /\ Reflects(IndexNow, n, journal)
    BY <1>1 DEF IndexOK
  <1>3. Within(journal, N) /\ Reflects(q, N, journal) BY <1>1, RebuiltReflects
  <1>4. index' = q.map /\ lost' = q.lost /\ IndexNow.map = index /\ IndexNow.lost = lost
    BY DEF Restart, IndexNow
  <1>5. /\ \A u \in Book : n[u] <= Len(journal[u]) /\ Len(journal[u]) \in Nat /\ n[u] \in Nat
        /\ \A u \in Book : N[u] = Len(journal[u])
    BY <1>1, <1>2 DEF PublishedTo, Within, Filed, AllOf
  <1> HIDE DEF N, q
  <1>6. \A u \in Book : \A i \in 1..Len(journal[u]) : Rebinds(journal[u][i], ak) => u \in S
    BY DEF Turns
  <1>7. /\ Names(IndexNow, n, journal) /\ Names(q, N, journal) /\ Stands(IndexNow, n, journal)
        /\ Stands(q, N, journal)
    BY <1>2, <1>3 DEF Reflects
  <1>8. CASE S = {}
    <2>1. index[ak] = None
      <3> SUFFICES ASSUME index[ak] # None PROVE FALSE OBVIOUS
      <3>1. /\ index[ak].u \in Book /\ index[ak].seq \in 1..n[index[ak].u]
            /\ OpensUnder(journal[index[ak].u][index[ak].seq], ak)
        BY <1>4, <1>7 DEF Names
      <3>2. index[ak].seq \in 1..Len(journal[index[ak].u]) BY <1>5, <3>1
      <3> QED BY <1>6, <1>8, <3>1, <3>2 DEF Rebinds
    <2>2. index'[ak] = None
      <3> DEFINE e == q.map[ak]
      <3> SUFFICES ASSUME e # None PROVE FALSE BY <1>4
      <3>1. /\ e.u \in Book /\ e.seq \in 1..N[e.u] /\ OpensUnder(journal[e.u][e.seq], ak)
        BY <1>7 DEF Names
      <3>2. e.seq \in 1..Len(journal[e.u]) BY <1>5, <3>1
      <3> QED BY <1>6, <1>8, <3>1, <3>2 DEF Rebinds
    <2> QED BY <2>1, <2>2
  <1>9. CASE S # {}
    <2>1. PICK u : u \in S BY <1>9
    <2>2. S = {u} /\ u \in Book
      <3>1. S \subseteq Book OBVIOUS
      <3>2. IsFiniteSet(S) BY <3>1, BookIsFinite, FS_Subset
      <3> QED BY <2>1, <3>1, <3>2, OnlyOne
    <2>3. n[u] = Len(journal[u])
      <3>1. Unpublished(u) = {} BY <2>1
      <3>2. u \notin sealed /\ ~ Running(u) BY <3>1 DEF Unpublished
      <3> QED BY <1>2, <2>2, <3>2 DEF PublishedTo, Running
    <2>4. PICK t \in Turns(u) : Rebinds(t, ak) BY <2>1
    <2>5. PICK j \in 1..Len(journal[u]) : t = journal[u][j] BY <2>4 DEF Turns
    <2>6. \E i \in Nat : LastAt(ak, u, i, n, journal)
      <3>1. j \in 1..n[u] /\ n[u] \in Nat /\ Rebinds(journal[u][j], ak) BY <1>5, <2>2, <2>3, <2>4, <2>5
      <3> QED BY <2>2, <3>1, LastRebinding
    <2>7. PICK i \in Nat : LastAt(ak, u, i, n, journal) BY <2>6
    <2>8. LastAt(ak, u, i, N, journal)
      <3>1. N[u] = n[u] BY <1>5, <2>2, <2>3
      <3> QED BY <2>7, <3>1 DEF LastAt
    <2>9. \A v \in Book : v # u => \A k \in 1..Len(journal[v]) : ~ Rebinds(journal[v][k], ak)
      BY <1>6, <2>2
    <2>10. Alone(ak, u, N, journal) BY <1>5, <2>9 DEF Alone
    <2>11. Alone(ak, u, n, journal)
      <3> SUFFICES ASSUME NEW v \in Book, v # u, NEW k \in 1..n[v] PROVE ~ Rebinds(journal[v][k], ak)
        BY DEF Alone
      <3>1. k \in 1..Len(journal[v]) BY <1>5
      <3> QED BY <2>9, <3>1
    <2>12. index[ak] = Meant(journal[u][i], ak) BY <1>4, <1>7, <2>2, <2>7, <2>11 DEF Stands
    <2>13. q.map[ak] = Meant(journal[u][i], ak) BY <1>4, <1>7, <2>2, <2>8, <2>10 DEF Stands
    <2> QED BY <1>4, <2>12, <2>13
  <1> QED BY <1>8, <1>9

\* Only a boot counts as one.
LEMMA OnlyRestartRestarts ==
  ASSUME [FlowNext]_flowVars, restarts' # restarts
  PROVE  Restart
  <1>1. ASSUME NEW c \in Rest, RestRequest(c) PROVE restarts' = restarts
    BY <1>1 DEF RestRequest, PlaceLimitOrder, PlaceMarketOrder, PlaceRest, CancelRest, BulkStart,
                BulkNext, BulkRollBack, BulkAnswer, boots
  <1>2. ASSUME NEW f \in Fix, FixRequest(f) PROVE restarts' = restarts
    BY <1>2 DEF FixRequest, PlaceFix, CancelFix, ReplaceFix, boots
  <1>3. ASSUME NEW c \in Client, Actor(c) PROVE restarts' = restarts
    BY <1>3 DEF Actor, Turn, Publish, SubmitRefused, SealedTurn, HangUp, boots
  <1>4. ASSUME NEW u \in Book, NEW s \in resting[u], Trade(u, s) PROVE restarts' = restarts
    BY <1>4 DEF Trade, boots
  <1>5. CASE UNCHANGED flowVars BY <1>5 DEF flowVars
  <1> QED BY <1>1, <1>2, <1>3, <1>4, <1>5 DEF FlowNext

\* A key that one underlying binds means the same after a boot as before it, although
\* recovery reads the journals one underlying after the other (RestartKeepsCorrelation).
THEOREM CorrelationSurvives == FlowSpec => RestartKeepsCorrelation
  <1> DEFINE A == restarts' # restarts /\ ~ lost /\ ~ lost' =>
                    \A ak \in Account \X Key :
                      LET binders == {u \in Book : \E t \in Turns(u) : Rebinds(t, ak)} IN
                      (Cardinality(binders) <= 1 /\ \A u \in binders : Unpublished(u) = {})
                        => index'[ak] = index[ak]
  <1>1. FlowInv /\ [FlowNext]_flowVars => A
    <2> SUFFICES ASSUME FlowInv, [FlowNext]_flowVars, restarts' # restarts, ~ lost, ~ lost',
                        NEW ak \in Account \X Key, NEW S, S = {u \in Book : \E t \in Turns(u) : Rebinds(t, ak)},
                        Cardinality(S) <= 1, \A u \in S : Unpublished(u) = {}
                 PROVE  index'[ak] = index[ak]
      OBVIOUS
    <2>1. Restart BY OnlyRestartRestarts
    <2> QED BY <2>1, RestartMeansTheSame
  <1>2. FlowInv /\ [FlowNext]_flowVars => [A]_flowVars BY <1>1
  <1> QED BY <1>2, FlowInvHolds, PTL DEF FlowSpec, RestartKeepsCorrelation
==============================================================================
