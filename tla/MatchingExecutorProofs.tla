----------------------- MODULE MatchingExecutorProofs -----------------------
(***************************************************************************)
(* Machine-checked facts about MatchingExecutor, for every set of symbols, *)
(* accounts, prices and quantities, every sharing of owners, every mode of *)
(* self-trade prevention and every number of commands and restarts.        *)
(***************************************************************************)
EXTENDS MatchingExecutor, Functions, FiniteSetTheorems, WellFoundedInduction, TLAPS

-----------------------------------------------------------------------------
(* Finite sets and numbers.                                                 *)

\* Strict inclusion of finite sets is well founded: a set of finite sets has a minimal one.
LEMMA MinimalFiniteSet ==
    ASSUME NEW S, NEW C \in SUBSET FiniteSubsetsOf(S), C # {}
    PROVE  \E T \in C : \A U \in C : U \subseteq T => U = T
<1>1. PICK T \in C : \A U \in C : ~ (<<U, T>> \in StrictSubsetOrdering(S))
  BY FS_StrictSubsetOrderingWellFounded, WFMin
<1>2. ASSUME NEW U \in C, U \subseteq T PROVE U = T
  <2>1. <<U, T>> \in (SUBSET S) \X (SUBSET S)
    BY DEF FiniteSubsetsOf
  <2> QED
    BY <1>1, <1>2, <2>1 DEF StrictSubsetOrdering
<1> QED
  BY <1>2

\* Every non-empty set of naturals has a least element.
LEMMA LeastNatural ==
    ASSUME NEW N \in SUBSET Nat, N # {}
    PROVE  \E n \in N : \A m \in N : n <= m
<1> DEFINE C == {0 .. n : n \in N}
<1>1. C # {} /\ C \in SUBSET FiniteSubsetsOf(Nat)
  <2>1. \A n \in N : IsFiniteSet(0 .. n) /\ 0 .. n \subseteq Nat
    BY FS_Interval
  <2> QED
    BY <2>1 DEF FiniteSubsetsOf
<1> HIDE DEF C
<1>2. PICK T \in C : \A U \in C : U \subseteq T => U = T
  BY <1>1, MinimalFiniteSet
<1>3. PICK n \in N : T = 0 .. n
  BY <1>2 DEF C
<1>4. ASSUME NEW m \in N PROVE n <= m
  <2>1. n \in Nat /\ m \in Nat
    OBVIOUS
  <2>2. SUFFICES ASSUME m < n PROVE FALSE
    BY <2>1
  <2>3. 0 .. m \in C /\ 0 .. m \subseteq 0 .. n /\ n \notin 0 .. m /\ n \in 0 .. n
    BY <2>1, <2>2 DEF C
  <2> QED
    BY <1>2, <1>3, <2>3
<1> QED
  BY <1>4

\* The numbers of the model.
LEMMA Numbers ==
    /\ MaxSeq \in Nat
    /\ \A p \in Price : p \in Nat
    /\ \A q \in Quantity : q \in Nat /\ q > 0
    /\ \A i : i \in Ids <=> i \in Nat /\ i <= MaxSeq
<1>1. MaxSeq \in Nat
  BY ExecutorBounds
<1>2. Price \subseteq Nat /\ Quantity \subseteq Nat \ {0}
  BY ExecutorBounds
<1>3. \A i : i \in Ids <=> i \in Nat /\ i <= MaxSeq
  BY <1>1 DEF Ids
<1> QED
  BY <1>1, <1>2, <1>3
-----------------------------------------------------------------------------
(* Price-time priority.                                                     *)

\* Makers of one side of a book, told apart by their ids.
OneSide(S) ==
    /\ S \subseteq LeafOrder
    /\ \A a, b \in S : a.side = b.side
    /\ \A a, b \in S : a.id = b.id => a = b

\* Priority is a strict total order on them.
LEMMA BetterOrders ==
    ASSUME NEW S, OneSide(S)
    PROVE  /\ \A a, b \in S : a # b => Better(a, b) \/ Better(b, a)
           /\ \A a, b, c \in S : Better(a, b) /\ Better(b, c) => Better(a, c)
           /\ \A a \in S : ~ Better(a, a)
<1>1. ASSUME NEW a \in S PROVE a.price \in Nat /\ a.id \in Nat /\ a.side \in {"buy", "sell"}
  <2>1. a \in LeafOrder
    BY DEF OneSide
  <2>2. a.id \in Ids /\ a.price \in Price /\ a.side \in {"buy", "sell"}
    BY <2>1 DEF LeafOrder, Side
  <2> QED
    BY <2>2, Numbers
<1>2. ASSUME NEW a \in S, NEW b \in S, a # b PROVE Better(a, b) \/ Better(b, a)
  <2>1. a.id # b.id /\ a.side = b.side
    BY <1>2 DEF OneSide
  <2> QED
    BY <1>1, <2>1 DEF Better
<1>3. ASSUME NEW a \in S, NEW b \in S, NEW c \in S, Better(a, b), Better(b, c)
      PROVE  Better(a, c)
  <2>1. a.side = b.side /\ b.side = c.side
    BY DEF OneSide
  <2> QED
    BY <1>1, <1>3, <2>1 DEF Better
<1>4. \A a \in S : ~ Better(a, a)
  BY <1>1 DEF Better
<1> QED
  BY <1>2, <1>3, <1>4

\* A non-empty finite set of them has a best one.
LEMMA BestMaker ==
    ASSUME NEW S, OneSide(S), IsFiniteSet(S), S # {}
    PROVE  \E b \in S : \A m \in S \ {b} : Better(b, m)
<1> DEFINE Has(T) == \E b \in T : \A m \in T \ {b} : Better(b, m)
           C == {T \in SUBSET S : T # {} /\ ~ Has(T)}
<1> SUFFICES ASSUME ~ Has(S) PROVE FALSE
  OBVIOUS
<1>1. C # {} /\ C \in SUBSET FiniteSubsetsOf(S)
  BY FS_Subset DEF FiniteSubsetsOf
<1> HIDE DEF C
<1>2. PICK T \in C : \A U \in C : U \subseteq T => U = T
  BY <1>1, MinimalFiniteSet
<1>3. T \subseteq S /\ T # {} /\ ~ Has(T)
  BY <1>2 DEF C
<1>4. PICK m \in T : TRUE
  BY <1>3
<1>5. T \ {m} # {}
  BY <1>3, <1>4
<1>6. Has(T \ {m})
  <2>1. T \ {m} \in SUBSET S /\ T \ {m} \subseteq T /\ T \ {m} # T
    BY <1>3, <1>4
  <2> HIDE DEF Has
  <2> QED
    BY <1>2, <1>5, <2>1 DEF C
<1>7. PICK b \in T \ {m} : \A x \in (T \ {m}) \ {b} : Better(b, x)
  BY <1>6
<1>8. CASE Better(b, m)
  BY <1>3, <1>7, <1>8
<1>9. CASE Better(m, b)
  <2>1. \A x \in T \ {m} : Better(m, x)
    BY <1>3, <1>7, <1>9, BetterOrders
  <2> QED
    BY <1>3, <1>4, <2>1
<1> QED
  BY <1>3, <1>7, <1>8, <1>9, BetterOrders

\* They can be put in order, whatever their number.
LEMMA PriorityExists ==
    ASSUME NEW S, OneSide(S), IsFiniteSet(S)
    PROVE  \E q \in [1 .. Cardinality(S) -> S] :
             \A i, j \in 1 .. Cardinality(S) : i < j => Better(q[i], q[j])
<1> DEFINE Sortable(T) == \E q \in [1 .. Cardinality(T) -> T] :
                            \A i, j \in 1 .. Cardinality(T) : i < j => Better(q[i], q[j])
           C == {T \in SUBSET S : ~ Sortable(T)}
<1> SUFFICES ASSUME ~ Sortable(S) PROVE FALSE
  OBVIOUS
<1>1. C # {} /\ C \in SUBSET FiniteSubsetsOf(S)
  BY FS_Subset DEF FiniteSubsetsOf
<1> HIDE DEF C
<1>2. PICK T \in C : \A U \in C : U \subseteq T => U = T
  BY <1>1, MinimalFiniteSet
<1>3. T \subseteq S /\ IsFiniteSet(T) /\ ~ Sortable(T)
  BY <1>1, <1>2 DEF C, FiniteSubsetsOf
<1>4. T # {}
  <2> SUFFICES ASSUME T = {} PROVE Sortable(T)
    BY <1>3
  <2>1. Cardinality(T) = 0
    BY FS_EmptySet
  <2>2. [i \in 1 .. 0 |-> i] \in [1 .. Cardinality(T) -> T]
    BY <2>1
  <2> QED
    BY <2>1, <2>2
<1>5. PICK m \in T : \A x \in T \ {m} : Better(m, x)
  <2>1. OneSide(T)
    BY <1>3 DEF OneSide
  <2> QED
    BY <1>3, <1>4, <2>1, BestMaker
<1> DEFINE U == T \ {m}
           n == Cardinality(U)
<1>6. IsFiniteSet(U) /\ n \in Nat /\ Cardinality(T) = n + 1
  <2>1. IsFiniteSet(U) /\ n = Cardinality(T) - 1
    BY <1>3, FS_RemoveElement
  <2> QED
    BY <1>3, <2>1, FS_CardinalityType
<1>7. Sortable(U)
  BY <1>2, <1>3, <1>5 DEF C
<1>8. PICK g \in [1 .. n -> U] : \A i, j \in 1 .. n : i < j => Better(g[i], g[j])
  BY <1>7
<1> DEFINE f == [i \in 1 .. n + 1 |-> IF i = 1 THEN m ELSE g[i - 1]]
<1> HIDE DEF n
<1>9. /\ f \in [1 .. n + 1 -> T] /\ f[1] = m
      /\ \A i \in 2 .. n + 1 : f[i] = g[i - 1] /\ i - 1 \in 1 .. n /\ f[i] \in U
  BY <1>6, <1>8
<1>10. ASSUME NEW i \in 1 .. n + 1, NEW j \in 1 .. n + 1, i < j PROVE Better(f[i], f[j])
  <2>1. j \in 2 .. n + 1 /\ f[j] \in U
    BY <1>6, <1>9, <1>10
  <2>2. CASE i = 1
    BY <1>5, <1>9, <2>1, <2>2
  <2>3. CASE i # 1
    <3>1. i \in 2 .. n + 1 /\ i - 1 < j - 1
      BY <1>6, <1>10, <2>3
    <3> QED
      BY <1>8, <1>9, <2>1, <3>1
  <2> QED
    BY <2>2, <2>3
<1> HIDE DEF f
<1>11. Sortable(T)
  BY <1>6, <1>9, <1>10
<1> QED
  BY <1>3, <1>11

\* The queue a taker meets holds every maker it crosses, each once, the best first.
LEMMA PrioritySorts ==
    ASSUME NEW S, OneSide(S), IsFiniteSet(S)
    PROVE  LET q == Priority(S) IN
           /\ q \in [1 .. Len(q) -> S] /\ Len(q) \in Nat
           /\ \A m \in S : \E i \in 1 .. Len(q) : q[i] = m
           /\ \A i, j \in 1 .. Len(q) : i < j => q[i] # q[j]
<1> DEFINE n == Cardinality(S)
           q == Priority(S)
<1>1. n \in Nat
  BY FS_CardinalityType
<1>2. \E p \in [1 .. n -> S] : \A i, j \in DOMAIN p : i < j => Better(p[i], p[j])
  <2>1. PICK p \in [1 .. n -> S] : \A i, j \in 1 .. n : i < j => Better(p[i], p[j])
    BY PriorityExists
  <2>2. DOMAIN p = 1 .. n
    OBVIOUS
  <2> QED
    BY <2>1, <2>2
<1>3. q \in [1 .. n -> S] /\ \A i, j \in DOMAIN q : i < j => Better(q[i], q[j])
  BY <1>2 DEF Priority
<1> HIDE DEF n, q
<1>4. \A i, j \in 1 .. n : i < j => q[i] # q[j]
  BY <1>1, <1>3, BetterOrders
<1>5. q \in Injection(1 .. n, S)
  BY <1>1, <1>3, <1>4 DEF Injection, IsInjective
<1>6. Cardinality(1 .. n) = Cardinality(S)
  BY <1>1, FS_Interval DEF n
<1>7. q \in Surjection(1 .. n, S)
  BY <1>5, <1>6, FS_Injection
<1>8. Len(q) = n
  BY <1>1, <1>3
<1>9. \A m \in S : \E i \in 1 .. n : q[i] = m
  BY <1>3, <1>7 DEF Surjection
<1> QED
  BY <1>1, <1>3, <1>4, <1>8, <1>9 DEF q
-----------------------------------------------------------------------------
(* The walk of a taker.                                                     *)

\* What one can rely on of a walk over the first n makers of a queue.
WalkOK(q, n, o, w) ==
    /\ w \in [left : Nat, trades : SUBSET [maker : Range(q), qty : Nat],
              removed : SUBSET Range(q), stopped : BOOLEAN]
    /\ w.left <= o.qty
    /\ \A t \in w.trades : /\ \E i \in 1 .. n : q[i] = t.maker
                           /\ 0 < t.qty /\ t.qty <= t.maker.qty
                           /\ t.maker \notin w.removed
    /\ \A t, u \in w.trades : t.maker = u.maker => t = u
    /\ \A m \in w.removed : (\E i \in 1 .. n : q[i] = m) /\ m.owner = o.owner /\ stp # "None"
    /\ w.left > 0 /\ ~ w.stopped =>
         \A i \in 1 .. n : \/ q[i] \in w.removed
                           \/ \E t \in w.trades : t.maker = q[i] /\ t.qty = q[i].qty

\* The two ways a walk is updated.
LEMMA WalkUpdates ==
    ASSUME NEW A, NEW B, NEW C, NEW D,
           NEW w \in [left : A, trades : B, removed : C, stopped : D],
           NEW a \in A, NEW b \in B, NEW c \in C, NEW d \in D
    PROVE  /\ LET x == [w EXCEPT !.left = a, !.trades = b] IN
              /\ x \in [left : A, trades : B, removed : C, stopped : D]
              /\ x.left = a /\ x.trades = b /\ x.removed = w.removed /\ x.stopped = w.stopped
           /\ LET x == [w EXCEPT !.stopped = d, !.removed = c] IN
              /\ x \in [left : A, trades : B, removed : C, stopped : D]
              /\ x.left = w.left /\ x.trades = w.trades /\ x.removed = c /\ x.stopped = d
OBVIOUS

\* One maker more.
LEMMA MeetFacts ==
    ASSUME NEW q, NEW k \in Nat, q \in [1 .. k -> LeafOrder],
           \A i, j \in 1 .. k : i < j => q[i] # q[j],
           NEW n \in 1 .. k, NEW o, o.qty \in Nat, NEW w, WalkOK(q, n - 1, o, w)
    PROVE  WalkOK(q, n, o, Meet(o, w, q[n]))
<1> DEFINE m == q[n]
           amount == IF m.qty < w.left THEN m.qty ELSE w.left
           x == Meet(o, w, m)
<1>1. n \in Nat /\ n - 1 \in Nat /\ m \in LeafOrder /\ m \in Range(q) /\ m.qty \in Nat /\ m.qty > 0
  BY DEF LeafOrder, Range
<1>2. w \in [left : Nat, trades : SUBSET [maker : Range(q), qty : Nat],
             removed : SUBSET Range(q), stopped : BOOLEAN]
  BY DEF WalkOK
<1>3. \A i \in 1 .. n - 1 : i \in 1 .. n /\ q[i] # m
  BY <1>1
<1>4. \A i \in 1 .. n : i \in 1 .. n - 1 \/ i = n
  BY <1>1
<1>5. m \notin w.removed /\ \A t \in w.trades : t.maker # m
  BY <1>3 DEF WalkOK
<1>6. CASE w.left = 0 \/ w.stopped
  <2>1. x = w
    BY <1>6 DEF Meet
  <2> HIDE DEF x, m
  <2>2. ~ (w.left > 0 /\ ~ w.stopped)
    BY <1>2, <1>6
  <2> QED
    BY <1>3, <2>1, <2>2 DEF WalkOK, x, m
<1>7. CASE ~ (w.left = 0 \/ w.stopped) /\ stp # "None" /\ m.owner = o.owner
  <2>1. x = [w EXCEPT !.stopped = stp \in {"CancelTaker", "CancelBoth"},
                      !.removed = IF stp = "CancelTaker" THEN @ ELSE @ \cup {m}]
    BY <1>7 DEF Meet
  <2>2. /\ x.left = w.left /\ x.trades = w.trades
        /\ x.stopped = (stp \in {"CancelTaker", "CancelBoth"})
        /\ x.removed = IF stp = "CancelTaker" THEN w.removed ELSE w.removed \cup {m}
        /\ x \in [left : Nat, trades : SUBSET [maker : Range(q), qty : Nat],
                  removed : SUBSET Range(q), stopped : BOOLEAN]
    <3> DEFINE c == IF stp = "CancelTaker" THEN w.removed ELSE w.removed \cup {m}
               d == stp \in {"CancelTaker", "CancelBoth"}
    <3>1. w.left \in Nat /\ w.trades \in SUBSET [maker : Range(q), qty : Nat]
      BY <1>2
    <3>2. c \in SUBSET Range(q)
      BY <1>1, <1>2
    <3>3. d \in BOOLEAN
      OBVIOUS
    <3>4. x = [w EXCEPT !.stopped = d, !.removed = c]
      BY <2>1
    <3> HIDE DEF c, d, x
    <3>5. /\ x \in [left : Nat, trades : SUBSET [maker : Range(q), qty : Nat],
                    removed : SUBSET Range(q), stopped : BOOLEAN]
          /\ x.left = w.left /\ x.trades = w.trades /\ x.removed = c /\ x.stopped = d
      BY <1>2, <3>1, <3>2, <3>3, <3>4, WalkUpdates
    <3> QED
      BY <3>5 DEF c, d
  <2>3. ~ x.stopped => m \in x.removed
    BY <2>2
  <2> HIDE DEF x, m
  <2>4. x.removed \subseteq w.removed \cup {m} /\ w.removed \subseteq x.removed
    BY <2>2
  <2>5. \A y \in x.removed : (\E i \in 1 .. n : q[i] = y) /\ y.owner = o.owner /\ stp # "None"
    <3>1. \E i \in 1 .. n : q[i] = m
      BY <1>1 DEF m
    <3> QED
      BY <1>3, <1>7, <2>4, <3>1 DEF WalkOK
  <2>6. \A t \in x.trades : /\ \E i \in 1 .. n : q[i] = t.maker
                            /\ 0 < t.qty /\ t.qty <= t.maker.qty
                            /\ t.maker \notin x.removed
    BY <1>3, <1>5, <2>2, <2>4 DEF WalkOK
  <2>7. ASSUME x.left > 0, ~ x.stopped, NEW i \in 1 .. n
        PROVE  q[i] \in x.removed \/ \E t \in x.trades : t.maker = q[i] /\ t.qty = q[i].qty
    <3>1. CASE i = n
      BY <2>3, <2>7, <3>1 DEF m
    <3>2. CASE i \in 1 .. n - 1
      BY <1>7, <2>2, <2>4, <2>7, <3>2 DEF WalkOK
    <3> QED
      BY <1>4, <3>1, <3>2
  <2>8. x.left <= o.qty /\ \A t, u \in x.trades : t.maker = u.maker => t = u
    BY <2>2 DEF WalkOK
  <2>9. WalkOK(q, n, o, x)
    BY <2>2, <2>5, <2>6, <2>7, <2>8 DEF WalkOK
  <2> QED
    BY <2>9 DEF x, m
<1>8. CASE ~ (w.left = 0 \/ w.stopped) /\ ~ (stp # "None" /\ m.owner = o.owner)
  <2>1. x = [w EXCEPT !.left = @ - amount,
                      !.trades = @ \cup {[maker |-> m, qty |-> amount]}]
    BY <1>8 DEF Meet
  <2>2. /\ w.left \in Nat /\ amount \in Nat /\ 0 < amount /\ amount <= m.qty /\ amount <= w.left
        /\ w.left - amount > 0 => amount = m.qty
    BY <1>1, <1>2, <1>8
  <2> DEFINE leg == [maker |-> m, qty |-> amount]
  <2>3. leg \in [maker : Range(q), qty : Nat] /\ leg.maker = m /\ leg.qty = amount
    BY <1>1, <2>2
  <2> HIDE DEF amount
  <2>4. /\ x.left = w.left - amount /\ x.trades = w.trades \cup {leg}
        /\ x.removed = w.removed /\ x.stopped = w.stopped
        /\ x \in [left : Nat, trades : SUBSET [maker : Range(q), qty : Nat],
                  removed : SUBSET Range(q), stopped : BOOLEAN]
    <3> DEFINE a == w.left - amount
               b == w.trades \cup {leg}
    <3>1. a \in Nat
      BY <2>2
    <3>2. b \in SUBSET [maker : Range(q), qty : Nat]
      <4> HIDE DEF leg
      <4> QED
        BY <1>2, <2>3
    <3>3. w.removed \in SUBSET Range(q) /\ w.stopped \in BOOLEAN
      BY <1>2
    <3>4. x = [w EXCEPT !.left = a, !.trades = b]
      BY <2>1
    <3> HIDE DEF a, b, x, leg
    <3>5. /\ x \in [left : Nat, trades : SUBSET [maker : Range(q), qty : Nat],
                    removed : SUBSET Range(q), stopped : BOOLEAN]
          /\ x.left = a /\ x.trades = b /\ x.removed = w.removed /\ x.stopped = w.stopped
      BY <1>2, <3>1, <3>2, <3>3, <3>4, WalkUpdates
    <3> QED
      BY <3>5 DEF a, b
  <2> HIDE DEF leg, x, m
  <2>5. x.left <= o.qty
    BY <2>2, <2>4 DEF WalkOK
  <2>6. \A y \in x.removed : (\E i \in 1 .. n : q[i] = y) /\ y.owner = o.owner /\ stp # "None"
    BY <1>3, <2>4 DEF WalkOK
  <2>7. ASSUME NEW t \in x.trades
        PROVE  /\ \E i \in 1 .. n : q[i] = t.maker
               /\ 0 < t.qty /\ t.qty <= t.maker.qty
               /\ t.maker \notin x.removed
    <3>1. CASE t \in w.trades
      BY <1>3, <2>4, <3>1 DEF WalkOK
    <3>2. CASE t = leg
      <4>1. q[n] = t.maker /\ n \in 1 .. n
        BY <1>1, <2>3, <3>2 DEF m
      <4> QED
        BY <1>5, <2>2, <2>3, <2>4, <3>2, <4>1
    <3> QED
      BY <2>4, <3>1, <3>2
  <2>8. \A t, u \in x.trades : t.maker = u.maker => t = u
    BY <1>5, <2>3, <2>4 DEF WalkOK
  <2>9. ASSUME x.left > 0, ~ x.stopped, NEW i \in 1 .. n
        PROVE  q[i] \in x.removed \/ \E t \in x.trades : t.maker = q[i] /\ t.qty = q[i].qty
    <3>1. CASE i = n
      <4>1. leg \in x.trades /\ leg.maker = q[i] /\ leg.qty = q[i].qty
        BY <2>2, <2>3, <2>4, <2>9, <3>1 DEF m
      <4> QED
        BY <4>1
    <3>2. CASE i \in 1 .. n - 1
      <4>1. w.left > 0 /\ ~ w.stopped
        BY <1>8, <2>2
      <4> QED
        BY <2>4, <3>2, <4>1 DEF WalkOK
    <3> QED
      BY <1>4, <3>1, <3>2
  <2>10. WalkOK(q, n, o, x)
    BY <2>4, <2>5, <2>6, <2>7, <2>8, <2>9 DEF WalkOK
  <2> QED
    BY <2>10 DEF x, m
<1> QED
  BY <1>6, <1>7, <1>8

Start(o) == [left |-> o.qty, trades |-> {}, removed |-> {}, stopped |-> FALSE]

IsWalk(f, q, k, o) ==
    f = [i \in 0 .. k |-> IF i = 0 THEN Start(o) ELSE Meet(o, f[i - 1], q[i])]

\* The walk is defined: a queue of any length can be met maker by maker.
LEMMA WalkExists ==
    ASSUME NEW q, NEW k \in Nat, NEW o
    PROVE  \E f : IsWalk(f, q, k, o)
<1> DEFINE Step(f, i) == IF i = 0 THEN Start(o) ELSE Meet(o, f[i - 1], q[i])
           Walked(n) == \E f : f = [i \in 0 .. n |-> Step(f, i)]
           N == {n \in Nat : ~ Walked(n)}
<1> SUFFICES ASSUME ~ Walked(k) PROVE FALSE
  BY DEF IsWalk
<1>1. N \in SUBSET Nat /\ N # {}
  OBVIOUS
<1> HIDE DEF N
<1>2. PICK n \in N : \A m \in N : n <= m
  BY <1>1, LeastNatural
<1>3. n \in Nat /\ ~ Walked(n)
  BY <1>2 DEF N
<1>4. CASE n = 0
  <2> DEFINE f == [i \in 0 .. 0 |-> Start(o)]
  <2>1. f = [i \in 0 .. 0 |-> Step(f, i)]
    OBVIOUS
  <2> QED
    BY <1>3, <1>4, <2>1
<1>5. CASE n # 0
  <2>1. n - 1 \in Nat /\ Walked(n - 1)
    <3>1. n - 1 \in Nat /\ ~ (n <= n - 1)
      BY <1>3, <1>5
    <3> HIDE DEF Walked
    <3> QED
      BY <1>2, <3>1 DEF N
  <2>2. PICK g : g = [i \in 0 .. n - 1 |-> Step(g, i)]
    BY <2>1
  <2> DEFINE f == [i \in 0 .. n |-> IF i = n THEN Meet(o, g[n - 1], q[n]) ELSE g[i]]
  <2>3. \A i \in 0 .. n - 1 : i \in 0 .. n /\ i # n /\ f[i] = g[i] /\ g[i] = Step(g, i)
    BY <1>3, <2>1, <2>2
  <2>4. ASSUME NEW i \in 0 .. n PROVE f[i] = Step(f, i)
    <3>1. CASE i = n
      <4>1. n - 1 \in 0 .. n - 1 /\ f[n - 1] = g[n - 1] /\ n \in 0 .. n
        BY <1>3, <2>1, <2>3
      <4> QED
        BY <1>5, <3>1, <4>1
    <3>2. CASE i # n
      <4>1. i \in 0 .. n - 1 /\ f[i] = g[i] /\ g[i] = Step(g, i)
        <5>1. i \in 0 .. n - 1
          BY <1>3, <3>2
        <5> HIDE DEF f, Step
        <5> QED
          BY <2>3, <5>1
      <4>2. CASE i = 0
        BY <4>1, <4>2
      <4>3. CASE i # 0
        <5>1. i - 1 \in 0 .. n - 1 /\ f[i - 1] = g[i - 1]
          BY <1>3, <2>3, <4>1, <4>3
        <5> HIDE DEF f
        <5> QED
          BY <4>1, <4>3, <5>1
      <4> QED
        BY <4>2, <4>3
    <3> QED
      BY <3>1, <3>2
  <2>5. f = [i \in 0 .. n |-> f[i]]
    OBVIOUS
  <2> HIDE DEF f
  <2>6. f = [i \in 0 .. n |-> Step(f, i)]
    BY <2>4, <2>5
  <2> QED
    BY <1>3, <2>6
<1> QED
  BY <1>4, <1>5

\* What the executor relies on of a match. Makers are on the book and crossed, each is
\* met once and for no more than it has, self-trade prevention removes the owner's own
\* orders only, and a taker that is left over has emptied its side.
MatchOK(book, o, w) ==
    /\ w.left \in Nat /\ w.left <= o.qty
    /\ \A t \in w.trades : /\ t.maker \in book /\ t.qty \in Nat
                           /\ 0 < t.qty /\ t.qty <= t.maker.qty
                           /\ t.maker \notin w.removed
    /\ \A t, u \in w.trades : t.maker = u.maker => t = u
    /\ \A m \in w.removed : m \in book /\ m.owner = o.owner /\ stp # "None"
    /\ w.left > 0 /\ ~ w.stopped =>
         \A m \in book : Crosses(o, m) =>
             m \in w.removed \/ \E t \in w.trades : t.maker = m /\ t.qty = m.qty

LEMMA MatchFacts ==
    ASSUME NEW book \in SUBSET LeafOrder, \A a, b \in book : a.id = b.id => a = b,
           NEW o, o.side \in Side, o.qty \in Nat
    PROVE  MatchOK(book, o, Match(book, o))
<1> DEFINE S == {m \in book : Crosses(o, m)}
           q == Priority(S)
           k == Len(q)
           w == CHOOSE f : IsWalk(f, q, k, o)
<1>1. OneSide(S)
  <2>1. \A m \in S : m \in LeafOrder /\ m.side \in {"buy", "sell"} /\ m.side # o.side
    BY DEF LeafOrder, Side, Crosses
  <2>2. o.side \in {"buy", "sell"}
    BY DEF Side
  <2>3. \A a, b \in S : a.side = b.side
    BY <2>1, <2>2
  <2> HIDE DEF S
  <2>4. S \subseteq book
    BY DEF S
  <2> QED
    BY <2>3, <2>4 DEF OneSide
<1>2. IsFiniteSet(S)
  <2> DEFINE f == [m \in S |-> m.id]
  <2>1. \A m \in S : m.id \in Ids
    BY DEF LeafOrder
  <2>2. f \in [S -> Ids] /\ \A a, b \in S : f[a] = f[b] => a = b
    BY <2>1
  <2>3. f \in Injection(S, Ids)
    BY <2>2 DEF Injection, IsInjective
  <2>4. IsFiniteSet(Ids)
    BY Numbers, FS_Interval DEF Ids
  <2> QED
    BY <2>3, <2>4, FS_Injection
<1> HIDE DEF S
<1>3. /\ q \in [1 .. k -> S] /\ k \in Nat
      /\ \A m \in S : \E i \in 1 .. k : q[i] = m
      /\ \A i, j \in 1 .. k : i < j => q[i] # q[j]
  BY <1>1, <1>2, PrioritySorts
<1>4. Match(book, o) = w[k]
  BY DEF Match, Start, S, IsWalk
<1> HIDE DEF q, k
<1>5. w = [i \in 0 .. k |-> IF i = 0 THEN Start(o) ELSE Meet(o, w[i - 1], q[i])]
  <2>1. \E f : IsWalk(f, q, k, o)
    BY <1>3, WalkExists
  <2>2. IsWalk(w, q, k, o)
    BY <2>1
  <2> QED
    BY <2>2 DEF IsWalk
<1> HIDE DEF w
<1>6. w[0] = Start(o) /\ \A i \in 1 .. k : w[i] = Meet(o, w[i - 1], q[i])
  <2>1. 0 \in 0 .. k /\ \A i \in 1 .. k : i \in 0 .. k /\ i # 0
    BY <1>3
  <2> QED
    BY <1>5, <2>1
<1>7. q \in [1 .. k -> LeafOrder]
  BY <1>1, <1>3 DEF OneSide
<1>8. WalkOK(q, 0, o, w[0])
  <2> DEFINE b == Start(o)
  <2>1. /\ b \in [left : Nat, trades : SUBSET [maker : Range(q), qty : Nat],
                  removed : SUBSET Range(q), stopped : BOOLEAN]
        /\ b.left = o.qty /\ b.trades = {} /\ b.removed = {} /\ b.stopped = FALSE
    <3>1. {} \in SUBSET [maker : Range(q), qty : Nat] /\ {} \in SUBSET Range(q)
      OBVIOUS
    <3> QED
      BY <3>1 DEF Start
  <2> HIDE DEF b
  <2>2. ~ \E i \in 1 .. 0 : TRUE
    OBVIOUS
  <2>3. WalkOK(q, 0, o, b)
    BY <2>1, <2>2 DEF WalkOK
  <2> QED
    BY <1>6, <2>3 DEF b
<1>9. WalkOK(q, k, o, w[k])
  <2> DEFINE N == {n \in Nat : n <= k /\ ~ WalkOK(q, n, o, w[n])}
  <2> SUFFICES ASSUME N # {} PROVE FALSE
    BY <1>3
  <2> HIDE DEF N
  <2>1. PICK n \in N : \A m \in N : n <= m
    BY LeastNatural DEF N
  <2>2. n \in Nat /\ n <= k /\ ~ WalkOK(q, n, o, w[n])
    BY <2>1 DEF N
  <2>3. n \in 1 .. k /\ n - 1 \in Nat /\ n - 1 <= k /\ ~ (n <= n - 1)
    BY <1>3, <1>8, <2>2
  <2>4. WalkOK(q, n - 1, o, w[n - 1])
    BY <2>1, <2>3 DEF N
  <2>5. WalkOK(q, n, o, Meet(o, w[n - 1], q[n]))
    BY <1>3, <1>7, <2>3, <2>4, MeetFacts
  <2> QED
    BY <1>6, <2>2, <2>3, <2>5
<1> DEFINE x == w[k]
<1>10. /\ x.left \in Nat /\ x.trades \in SUBSET [maker : Range(q), qty : Nat]
       /\ x.removed \in SUBSET Range(q)
  BY <1>9 DEF WalkOK
<1>11. \A i \in 1 .. k : q[i] \in book
  BY <1>3 DEF S
<1> HIDE DEF x
<1>12. WalkOK(q, k, o, x)
  BY <1>9 DEF x
<1>13. ASSUME NEW t \in x.trades
       PROVE  /\ t.maker \in book /\ t.qty \in Nat /\ 0 < t.qty /\ t.qty <= t.maker.qty
              /\ t.maker \notin x.removed
  BY <1>10, <1>11, <1>12 DEF WalkOK
<1>14. \A m \in x.removed : m \in book /\ m.owner = o.owner /\ stp # "None"
  BY <1>11, <1>12 DEF WalkOK
<1>15. ASSUME x.left > 0, ~ x.stopped, NEW m \in book, Crosses(o, m)
       PROVE  m \in x.removed \/ \E t \in x.trades : t.maker = m /\ t.qty = m.qty
  <2>1. PICK i \in 1 .. k : q[i] = m
    BY <1>3, <1>15 DEF S
  <2> QED
    BY <1>12, <1>15, <2>1 DEF WalkOK
<1>16. x.left <= o.qty /\ \A t, u \in x.trades : t.maker = u.maker => t = u
  BY <1>12 DEF WalkOK
<1>17. MatchOK(book, o, x)
  BY <1>10, <1>13, <1>14, <1>15, <1>16 DEF MatchOK
<1> QED
  BY <1>4, <1>17 DEF x
-----------------------------------------------------------------------------
(* The inductive invariant.                                                 *)

\* Books, registry and history agree, in a live executor as in a captured one.
BookTypes(lv, rs, od) ==
    /\ lv \in [Symbol -> SUBSET LeafOrder]
    /\ rs \in [Ids -> Identity \cup {None}]
    /\ od \in [Ids -> Placed \cup {None}]

\* Each registered order is on its leaf, once, and nothing else is.
Registry(lv, rs) ==
    /\ \A s \in Symbol : \A m, x \in lv[s] : m.id = x.id => m = x
    /\ \A s \in Symbol : \A m \in lv[s] : rs[m.id] # None /\ rs[m.id].symbol = s
    /\ \A i \in Ids : rs[i] # None => \E m \in lv[rs[i].symbol] : m.id = i

\* The registry names the account that placed the order, and its owner.
Attribution(rs, od) ==
    /\ \A i \in Ids : rs[i] # None =>
         od[i] # None /\ rs[i].account = od[i].account /\ rs[i].owner = OwnerOf(rs[i].account)
    /\ \A i \in Ids : od[i] # None => ~ od[i].misattributed

\* What rests is what was placed less what was filled.
Quantities(lv, od) ==
    /\ \A s \in Symbol : \A m \in lv[s] : m.qty = od[m.id].qty - od[m.id].filled
    /\ \A i \in Ids : od[i] # None => od[i].filled <= od[i].qty

Uncrossed(lv) ==
    \A s \in Symbol : \A b, a \in lv[s] : b.side = "buy" /\ a.side = "sell" => b.price < a.price

BookOK(lv, rs, od) ==
    BookTypes(lv, rs, od) /\ Registry(lv, rs) /\ Attribution(rs, od) /\ Quantities(lv, od)
        /\ Uncrossed(lv)

\* Orders have the sequence numbers of the past, and each key that opened one is known.
KeysOK(od, idem, n) ==
    /\ idem \in [Account \X ClientOrderId -> Entry \cup {None}]
    /\ \A i \in Ids : od[i] # None => i < n
    /\ \A i \in Ids : od[i] # None /\ od[i].key # None => idem[<<od[i].account, od[i].key>>] # None
    /\ \A i, j \in Ids :
          /\ od[i] # None /\ od[j] # None /\ od[i].key # None
          /\ od[i].key = od[j].key /\ od[i].account = od[j].account
          => i = j

InvTypes ==
    /\ idToEngine \in [VenueOrderId -> Ids \cup {None}]
    /\ status \in [Symbol -> Status \cup {"Active"}]
    /\ seq \in Nat /\ seq <= MaxSeq + 1
    /\ minted \in [{"gateway", "maker"} -> Nat]
    /\ \A by \in {"gateway", "maker"} : minted[by] <= seq
    /\ stp \in {"None", StpMode}

\* A captured state is as sound as the live one was.
InvSaved ==
    saved # None => /\ BookOK(saved.leaves, saved.resting, saved.orders)
                    /\ KeysOK(saved.orders, saved.idempotency, seq)

Inv ==
    /\ InvTypes /\ InvSaved
    /\ BookOK(leaves, resting, orders) /\ KeysOK(orders, idempotency, seq)
-----------------------------------------------------------------------------
(* A placement.                                                             *)

\* What a gateway asks for.
Taker(o) ==
    /\ o.symbol \in Symbol /\ o.side \in Side /\ o.qty \in Quantity /\ o.tif \in TimeInForce
    /\ o.price \in Price \cup {None} /\ o.key \in ClientOrderId \cup {None}
    /\ o.account \in Account /\ o.owner = OwnerOf(o.account) /\ o.order \in VenueOrderId

\* The remainder that rests, and what a match leaves of a maker.
Remainder(o, w) ==
    [id |-> seq, side |-> o.side, price |-> o.price, qty |-> w.left, owner |-> o.owner,
     tif |-> o.tif]

Kept(w, m, x) ==
    /\ x \in LeafOrder /\ x.id = m.id /\ x.side = m.side /\ x.price = m.price
    /\ m \notin w.removed
    /\ \/ x = m /\ \A t \in w.trades : t.maker # m
       \/ \E t \in w.trades : /\ t.maker = m /\ t.qty < m.qty
                              /\ x = [m EXCEPT !.qty = m.qty - t.qty]
                              /\ x.qty = m.qty - t.qty

\* A book after a match: what is left of its makers, and the remainder of the taker.
LEMMA BookAfterFacts ==
    ASSUME NEW book \in SUBSET LeafOrder, NEW o, Taker(o), NEW w, MatchOK(book, o, w),
           seq \in Ids
    PROVE  /\ \A x \in BookAfter(book, o, w) :
                \/ Rests(o, w) /\ x = Remainder(o, w)
                \/ \E m \in book : Kept(w, m, x)
           /\ \A m \in book :
                m \notin w.removed /\ (\A t \in w.trades : t.maker = m => t.qty < m.qty) =>
                    \E x \in BookAfter(book, o, w) : Kept(w, m, x)
           /\ Rests(o, w) => Remainder(o, w) \in BookAfter(book, o, w) /\ Remainder(o, w) \in LeafOrder
<1> DEFINE NB == BookAfter(book, o, w)
           untouched == book \ (w.removed \cup {t.maker : t \in w.trades})
           partial == {[t.maker EXCEPT !.qty = @ - t.qty] : t \in {u \in w.trades : u.qty < u.maker.qty}}
           rest == IF Rests(o, w) THEN {Remainder(o, w)} ELSE {}
<1>1. NB = untouched \cup partial \cup rest
  BY DEF BookAfter, Remainder
<1>2. ASSUME NEW t \in w.trades, t.qty < t.maker.qty
      PROVE  LET x == [t.maker EXCEPT !.qty = @ - t.qty] IN
             x \in NB /\ t.maker \in book /\ Kept(w, t.maker, x)
  <2> DEFINE x == [t.maker EXCEPT !.qty = @ - t.qty]
             m == t.maker
  <2>1. m \in book /\ m \in LeafOrder /\ t.qty \in Nat /\ t.qty > 0 /\ m \notin w.removed
    BY DEF MatchOK
  <2>2. m.qty \in Nat /\ m.qty - t.qty \in Nat \ {0}
    BY <1>2, <2>1 DEF LeafOrder
  <2>3. x = [m EXCEPT !.qty = m.qty - t.qty]
    OBVIOUS
  <2>4. /\ x \in LeafOrder /\ x.id = m.id /\ x.side = m.side /\ x.price = m.price
        /\ x.qty = m.qty - t.qty
    BY <2>1, <2>2, <2>3 DEF LeafOrder
  <2>5. x \in partial
    BY <1>2
  <2> HIDE DEF x, partial
  <2>6. x \in NB
    BY <1>1, <2>5
  <2>7. Kept(w, m, x)
    <3> HIDE DEF m
    <3> QED
      BY <1>2, <2>1, <2>3, <2>4 DEF Kept, m
  <2> QED
    BY <2>1, <2>6, <2>7 DEF x
<1>3. ASSUME NEW m \in untouched PROVE m \in book /\ Kept(w, m, m)
  BY <1>3 DEF Kept
<1>4. Rests(o, w) => Remainder(o, w) \in LeafOrder
  <2> SUFFICES ASSUME Rests(o, w) PROVE Remainder(o, w) \in LeafOrder
    OBVIOUS
  <2>1. w.left \in Nat \ {0} /\ o.price \in Price
    BY DEF Rests, MatchOK, Taker
  <2>2. o.owner \in Owner
    BY DEF Taker, Owner
  <2> QED
    BY <2>1, <2>2 DEF Remainder, LeafOrder, Taker
<1>5. ASSUME NEW x \in NB
      PROVE  (Rests(o, w) /\ x = Remainder(o, w)) \/ \E m \in book : Kept(w, m, x)
  <2>1. CASE x \in untouched
    BY <1>3, <2>1
  <2>2. CASE x \in partial
    <3>1. PICK t \in w.trades : t.qty < t.maker.qty /\ x = [t.maker EXCEPT !.qty = @ - t.qty]
      BY <2>2
    <3> QED
      BY <1>2, <3>1
  <2>3. CASE x \in rest
    BY <2>3
  <2> HIDE DEF NB, untouched, partial, rest
  <2> QED
    BY <1>1, <2>1, <2>2, <2>3
<1>6. ASSUME NEW m \in book, m \notin w.removed, \A t \in w.trades : t.maker = m => t.qty < m.qty
      PROVE  \E x \in NB : Kept(w, m, x)
  <2>1. CASE \E t \in w.trades : t.maker = m
    <3>1. PICK t \in w.trades : t.maker = m
      BY <2>1
    <3>2. t.qty < t.maker.qty
      BY <1>6, <3>1
    <3> HIDE DEF NB
    <3> QED
      BY <1>2, <3>1, <3>2
  <2>2. CASE ~ \E t \in w.trades : t.maker = m
    <3>1. m \in untouched
      BY <1>6, <2>2
    <3> HIDE DEF NB, untouched, partial, rest
    <3> QED
      BY <1>1, <1>3, <3>1
  <2> QED
    BY <2>1, <2>2
<1>7. Rests(o, w) => Remainder(o, w) \in NB
  <2>1. Rests(o, w) => Remainder(o, w) \in rest
    OBVIOUS
  <2> HIDE DEF NB, untouched, partial, rest
  <2> QED
    BY <1>1, <2>1
<1> HIDE DEF NB
<1> QED
  BY <1>4, <1>5, <1>6, <1>7 DEF NB

\* A placement under way: taker o meets the book that is left without the orders in gone.
Adding(o, gone, book, w) ==
    /\ Taker(o) /\ seq \in Ids
    /\ \A i \in gone : i \in Ids /\ OnLeaf(i, o.symbol)
    /\ book \in SUBSET LeafOrder /\ MatchOK(book, o, w)
    /\ book = {m \in leaves[o.symbol] : m.id \notin gone}
    /\ leaves' = [leaves EXCEPT ![o.symbol] = BookAfter(book, o, w)]
    /\ resting' = [i \in Ids |->
                     IF i = seq /\ Rests(o, w)
                     THEN [symbol |-> o.symbol, order |-> o.order, account |-> o.account,
                           owner |-> o.owner, side |-> o.side]
                     ELSE IF i \in gone \cup Prune(w) THEN None ELSE resting[i]]
    /\ orders' = Record(o, w)

LEMMA AddingFacts ==
    ASSUME Inv, NEW o, Taker(o), seq \in Ids, NEW gone,
           \A i \in gone : i \in Ids /\ OnLeaf(i, o.symbol), RunAdd(o, gone)
    PROVE  /\ \E book, w : Adding(o, gone, book, w)
           /\ idToEngine' \in [VenueOrderId -> Ids \cup {None}]
<1> DEFINE book == {m \in leaves[o.symbol] : m.id \notin gone}
           w == Match(book, o)
<1>1. leaves[o.symbol] \in SUBSET LeafOrder /\ \A m, x \in leaves[o.symbol] : m.id = x.id => m = x
  BY DEF Inv, BookOK, BookTypes, Registry, Taker
<1>2. book \in SUBSET LeafOrder /\ \A m, x \in book : m.id = x.id => m = x
  BY <1>1
<1>3. o.side \in Side /\ o.qty \in Nat
  BY Numbers DEF Taker
<1> HIDE DEF book
<1>4. MatchOK(book, o, w)
  BY <1>2, <1>3, MatchFacts
<1>5. Adding(o, gone, book, w)
  BY <1>2, <1>4 DEF Adding, RunAdd, book
<1>6. Forget(gone \cup Prune(w)) \in [VenueOrderId -> Ids \cup {None}]
  BY DEF Forget, Inv, InvTypes
<1>7. idToEngine' \in [VenueOrderId -> Ids \cup {None}]
  <2>1. \/ idToEngine' = [Forget(gone \cup Prune(w)) EXCEPT ![o.order] = seq]
        \/ idToEngine' = Forget(gone \cup Prune(w))
    BY DEF RunAdd, book
  <2> HIDE DEF w
  <2> QED
    BY <1>6, <2>1
<1> QED
  BY <1>5, <1>7

\* The makers of the book are registered, with numbers of the past.
LEMMA MakerFacts ==
    ASSUME Inv, NEW o, NEW gone, NEW book, NEW w, Adding(o, gone, book, w)
    PROVE  /\ \A m, x \in book : m.id = x.id => m = x
           /\ \A m \in book : /\ m \in LeafOrder /\ m \in leaves[o.symbol] /\ m.id \in Ids
                              /\ m.id # seq /\ m.id \notin gone
                              /\ resting[m.id] # None /\ resting[m.id].symbol = o.symbol
                              /\ orders[m.id] # None
           /\ \A i \in Prune(w) : \E m \in book : m.id = i
           /\ \A m \in book : m.id \in Prune(w) <=>
                m \in w.removed \/ \E t \in w.trades : t.maker = m /\ t.qty = m.qty
           /\ resting[seq] = None /\ orders[seq] = None
<1>1. o.symbol \in Symbol
  BY DEF Adding, Taker
<1>2. \A m, x \in leaves[o.symbol] : m.id = x.id => m = x
  BY <1>1 DEF Inv, BookOK, Registry
<1>3. \A m \in leaves[o.symbol] : resting[m.id] # None /\ resting[m.id].symbol = o.symbol
  BY <1>1 DEF Inv, BookOK, Registry
<1>4. \A m \in book : m \in LeafOrder /\ m \in leaves[o.symbol] /\ m.id \in Ids /\ m.id \notin gone
  BY DEF Adding, LeafOrder
<1>5. \A i \in Ids : resting[i] # None => orders[i] # None
  BY DEF Inv, BookOK, Attribution
<1>6. \A i \in Ids : orders[i] # None => i # seq
  <2>1. \A i \in Ids : orders[i] # None => i < seq
    BY DEF Inv, KeysOK
  <2>2. \A i \in Ids : i \in Nat
    BY Numbers
  <2>3. seq \in Nat
    BY DEF Inv, InvTypes
  <2> QED
    BY <2>1, <2>2, <2>3
<1>7. seq \in Ids
  BY DEF Adding
<1>8. MatchOK(book, o, w)
  BY DEF Adding
<1>9. \A m, x \in book : m.id = x.id => m = x
  BY <1>2, <1>4
<1>10. \A i \in Prune(w) : \E m \in book : m.id = i
  BY <1>8 DEF Prune, MatchOK
<1>11. ASSUME NEW m \in book
       PROVE  m.id \in Prune(w) <=>
                m \in w.removed \/ \E t \in w.trades : t.maker = m /\ t.qty = m.qty
  <2>1. ASSUME m.id \in Prune(w)
        PROVE  m \in w.removed \/ \E t \in w.trades : t.maker = m /\ t.qty = m.qty
    <3>1. CASE \E t \in w.trades : t.qty = t.maker.qty /\ t.maker.id = m.id
      <4>1. PICK t \in w.trades : t.qty = t.maker.qty /\ t.maker.id = m.id
        BY <3>1
      <4>2. t.maker \in book
        BY <1>8 DEF MatchOK
      <4>3. t.maker = m
        BY <1>9, <4>1, <4>2
      <4> QED
        BY <4>1, <4>3
    <3>2. CASE \E x \in w.removed : x.id = m.id
      <4>1. PICK x \in w.removed : x.id = m.id
        BY <3>2
      <4>2. x \in book
        BY <1>8 DEF MatchOK
      <4> QED
        BY <1>9, <4>1, <4>2
    <3> QED
      BY <2>1, <3>1, <3>2 DEF Prune
  <2>2. ASSUME m \in w.removed \/ \E t \in w.trades : t.maker = m /\ t.qty = m.qty
        PROVE  m.id \in Prune(w)
    BY <2>2 DEF Prune
  <2> QED
    BY <2>1, <2>2
<1> QED
  BY <1>3, <1>4, <1>5, <1>6, <1>7, <1>9, <1>10, <1>11

\* The registry follows the book.
LEMMA AddRegistry ==
    ASSUME Inv, NEW o, NEW gone, NEW book, NEW w, Adding(o, gone, book, w)
    PROVE  /\ leaves' \in [Symbol -> SUBSET LeafOrder]
           /\ resting' \in [Ids -> Identity \cup {None}]
           /\ Registry(leaves', resting')
<1> DEFINE NB == BookAfter(book, o, w)
           id == [symbol |-> o.symbol, order |-> o.order, account |-> o.account,
                  owner |-> o.owner, side |-> o.side]
<1>1. /\ o.symbol \in Symbol /\ Taker(o) /\ seq \in Ids /\ MatchOK(book, o, w)
      /\ book \in SUBSET LeafOrder /\ book = {m \in leaves[o.symbol] : m.id \notin gone}
      /\ leaves' = [leaves EXCEPT ![o.symbol] = NB]
      /\ \A i \in gone : i \in Ids /\ OnLeaf(i, o.symbol)
  BY DEF Adding, Taker
<1>2. /\ leaves \in [Symbol -> SUBSET LeafOrder] /\ resting \in [Ids -> Identity \cup {None}]
      /\ Registry(leaves, resting)
  BY DEF Inv, BookOK, BookTypes
<1>3. id \in Identity /\ id # None /\ id.symbol = o.symbol
  <2>1. o.owner \in Owner
    BY <1>1 DEF Taker, Owner
  <2>2. id \in Identity
    BY <1>1, <2>1 DEF Identity, Taker
  <2> QED
    BY <2>2, NoneAssumption
<1>4. /\ \A x \in NB : (Rests(o, w) /\ x = Remainder(o, w)) \/ \E m \in book : Kept(w, m, x)
      /\ \A m \in book :
           m \notin w.removed /\ (\A t \in w.trades : t.maker = m => t.qty < m.qty) =>
               \E x \in NB : Kept(w, m, x)
      /\ Rests(o, w) => Remainder(o, w) \in NB /\ Remainder(o, w) \in LeafOrder
  BY <1>1, BookAfterFacts
<1>5. Remainder(o, w).id = seq
  BY DEF Remainder
<1>6. resting' = [i \in Ids |-> IF i = seq /\ Rests(o, w) THEN id
                                ELSE IF i \in gone \cup Prune(w) THEN None ELSE resting[i]]
  BY DEF Adding
<1> HIDE DEF id, NB
<1>7. NB \subseteq LeafOrder /\ \A x \in NB : x \in LeafOrder
  BY <1>4 DEF Kept
<1>8. leaves' \in [Symbol -> SUBSET LeafOrder]
  BY <1>1, <1>2, <1>7
<1>9. resting' \in [Ids -> Identity \cup {None}]
  BY <1>2, <1>3, <1>6
<1>10. ASSUME NEW m \in book, NEW x, Kept(w, m, x)
       PROVE  x.id = m.id /\ x.id \in Ids /\ resting'[x.id] = resting[m.id]
  <2>1. x.id = m.id /\ m.id \in Ids /\ m.id # seq /\ m.id \notin gone
    BY <1>10, MakerFacts DEF Kept
  <2>2. m \notin w.removed /\ ~ \E t \in w.trades : t.maker = m /\ t.qty = m.qty
    <3>1. \A t \in w.trades : t.maker = m => t.qty \in Nat /\ t.maker.qty = m.qty
      BY <1>1 DEF MatchOK
    <3>2. \A t, u \in w.trades : t.maker = u.maker => t = u
      BY <1>1 DEF MatchOK
    <3>3. m.qty \in Nat
      BY <1>1 DEF LeafOrder
    <3> QED
      BY <1>10, <3>1, <3>2, <3>3 DEF Kept
  <2>3. m.id \notin Prune(w)
    BY <2>2, MakerFacts
  <2> QED
    BY <1>6, <2>1, <2>3
<1>11. \A x, y \in NB : x.id = y.id => x = y
  <2> SUFFICES ASSUME NEW x \in NB, NEW y \in NB, x.id = y.id PROVE x = y
    OBVIOUS
  <2>1. ASSUME NEW m \in book, Kept(w, m, x) PROVE x.id = m.id /\ x.id # seq
    BY <2>1, MakerFacts DEF Kept
  <2>2. ASSUME NEW m \in book, Kept(w, m, y) PROVE y.id = m.id /\ y.id # seq
    BY <2>2, MakerFacts DEF Kept
  <2>3. CASE Rests(o, w) /\ x = Remainder(o, w)
    BY <1>4, <1>5, <2>2, <2>3
  <2>4. CASE \E m \in book : Kept(w, m, x)
    <3>1. PICK m \in book : Kept(w, m, x)
      BY <2>4
    <3>2. PICK n \in book : Kept(w, n, y)
      BY <1>4, <1>5, <2>1, <3>1
    <3>3. m = n
      BY <2>1, <2>2, <3>1, <3>2, MakerFacts
    <3>4. \A t, u \in w.trades : t.maker = u.maker => t = u
      BY <1>1 DEF MatchOK
    <3> QED
      BY <3>1, <3>2, <3>3, <3>4 DEF Kept
  <2> QED
    BY <1>4, <2>3, <2>4
<1>12. \A x \in NB : resting'[x.id] # None /\ resting'[x.id].symbol = o.symbol
  <2> SUFFICES ASSUME NEW x \in NB
               PROVE  resting'[x.id] # None /\ resting'[x.id].symbol = o.symbol
    OBVIOUS
  <2>1. CASE Rests(o, w) /\ x = Remainder(o, w)
    BY <1>1, <1>3, <1>5, <1>6, <2>1
  <2>2. CASE \E m \in book : Kept(w, m, x)
    <3>1. PICK m \in book : Kept(w, m, x)
      BY <2>2
    <3> QED
      BY <1>10, <3>1, MakerFacts
  <2> QED
    BY <1>4, <2>1, <2>2
<1>13. ASSUME NEW i \in Ids, resting'[i] # None
       PROVE  \E m \in leaves'[resting'[i].symbol] : m.id = i
  <2>1. CASE i = seq /\ Rests(o, w)
    <3>1. resting'[i].symbol = o.symbol
      BY <1>3, <1>6, <2>1
    <3>2. leaves'[o.symbol] = NB
      BY <1>1, <1>2
    <3> QED
      BY <1>4, <1>5, <2>1, <3>1, <3>2
  <2>2. CASE ~ (i = seq /\ Rests(o, w))
    <3>1. resting'[i] = resting[i] /\ i \notin gone /\ i \notin Prune(w)
      BY <1>6, <1>13, <2>2
    <3>2. resting[i].symbol \in Symbol
      <4>1. resting[i] \in Identity
        BY <1>2, <1>13, <3>1
      <4> QED
        BY <4>1 DEF Identity
    <3>3. PICK m \in leaves[resting[i].symbol] : m.id = i
      BY <1>2, <1>13, <3>1 DEF Registry
    <3>4. CASE resting[i].symbol = o.symbol
      <4>1. m \in book
        BY <1>1, <3>1, <3>3, <3>4
      <4>2. m \notin w.removed /\ \A t \in w.trades : t.maker = m => t.qty # m.qty
        BY <3>1, <3>3, <4>1, MakerFacts
      <4>3. \A t \in w.trades : t.maker = m => t.qty \in Nat /\ t.qty <= m.qty
        BY <1>1 DEF MatchOK
      <4>4. m.qty \in Nat
        BY <1>1, <4>1 DEF LeafOrder
      <4>5. \A t \in w.trades : t.maker = m => t.qty < m.qty
        BY <4>2, <4>3, <4>4
      <4>6. PICK x \in NB : Kept(w, m, x)
        BY <1>4, <4>1, <4>2, <4>5
      <4>7. x.id = i
        BY <3>3, <4>6 DEF Kept
      <4> QED
        BY <1>1, <1>2, <3>1, <3>4, <4>6, <4>7
    <3>5. CASE resting[i].symbol # o.symbol
      <4>1. leaves'[resting[i].symbol] = leaves[resting[i].symbol]
        BY <1>1, <1>2, <3>2, <3>5
      <4> QED
        BY <3>1, <3>3, <4>1
    <3> QED
      BY <3>4, <3>5
  <2> QED
    BY <2>1, <2>2
<1>14. ASSUME NEW s \in Symbol
       PROVE  /\ \A m, x \in leaves'[s] : m.id = x.id => m = x
              /\ \A m \in leaves'[s] : resting'[m.id] # None /\ resting'[m.id].symbol = s
  <2>1. CASE s = o.symbol
    <3>1. leaves'[s] = NB
      BY <1>1, <1>2, <2>1
    <3> QED
      BY <1>11, <1>12, <2>1, <3>1
  <2>2. CASE s # o.symbol
    <3>1. leaves'[s] = leaves[s]
      BY <1>1, <1>2, <2>2
    <3>2. \A m, x \in leaves[s] : m.id = x.id => m = x
      BY <1>2 DEF Registry
    <3>3. ASSUME NEW m \in leaves[s]
          PROVE  resting'[m.id] # None /\ resting'[m.id].symbol = s
      <4>1. resting[m.id] # None /\ resting[m.id].symbol = s
        BY <1>2 DEF Registry
      <4>2. m.id \in Ids
        <5>1. m \in LeafOrder
          BY <1>2
        <5> QED
          BY <5>1 DEF LeafOrder
      <4>3. m.id # seq
        BY <4>1, MakerFacts
      <4>4. m.id \notin gone
        <5> SUFFICES ASSUME m.id \in gone PROVE FALSE
          OBVIOUS
        <5>1. PICK x \in leaves[o.symbol] : x.id = m.id
          BY <1>1 DEF OnLeaf
        <5> QED
          BY <1>1, <1>2, <2>2, <4>1, <5>1 DEF Registry
      <4>5. m.id \notin Prune(w)
        <5> SUFFICES ASSUME m.id \in Prune(w) PROVE FALSE
          OBVIOUS
        <5>1. PICK x \in book : x.id = m.id
          BY MakerFacts
        <5> QED
          BY <2>2, <4>1, <5>1, MakerFacts
      <4> QED
        BY <1>6, <4>1, <4>2, <4>3, <4>4, <4>5
    <3> QED
      BY <3>1, <3>2, <3>3
  <2> QED
    BY <2>1, <2>2
<1> QED
  BY <1>8, <1>9, <1>13, <1>14 DEF Registry

\* What a placement does to the history: its own entry, and one leg for each maker it met.
LEMMA RecordFacts ==
    ASSUME Inv, NEW o, NEW gone, NEW book, NEW w, Adding(o, gone, book, w)
    PROVE  /\ orders' \in [Ids -> Placed \cup {None}]
           /\ Rests(o, w) => orders'[seq] # None
           /\ orders'[seq] # None => /\ orders'[seq].account = o.account /\ orders'[seq].key = o.key
                                     /\ orders'[seq].qty = o.qty /\ orders'[seq].filled = o.qty - w.left
                                     /\ ~ orders'[seq].misattributed
           /\ \A t \in w.trades :
                LET i == t.maker.id IN
                /\ i \in Ids /\ i # seq /\ orders[i] # None /\ orders'[i] # None
                /\ orders'[i].account = orders[i].account /\ orders'[i].key = orders[i].key
                /\ orders'[i].qty = orders[i].qty /\ orders'[i].filled = orders[i].filled + t.qty
                /\ ~ orders'[i].misattributed
           /\ \A i \in Ids : i # seq /\ (\A t \in w.trades : t.maker.id # i) => orders'[i] = orders[i]
<1> DEFINE mine == [account |-> o.account, key |-> o.key, qty |-> o.qty, filled |-> o.qty - w.left,
                    active |-> status[o.symbol] = "Active", misattributed |-> FALSE,
                    selfTrade |-> \E t \in w.trades : t.maker.owner = o.owner]
           leg(i) == CHOOSE t \in w.trades : t.maker.id = i
           met(i) == [orders[i] EXCEPT !.filled = @ + leg(i).qty,
                                       !.misattributed = @ \/ FillAccount(i) # orders[i].account]
<1>1. orders' = [i \in Ids |-> IF i = seq /\ HasMutation(o, w) THEN mine
                               ELSE IF \E t \in w.trades : t.maker.id = i THEN met(i)
                               ELSE orders[i]]
  BY DEF Adding, Record
<1>2. /\ Taker(o) /\ MatchOK(book, o, w) /\ seq \in Ids /\ orders \in [Ids -> Placed \cup {None}]
      /\ orders[seq] = None
  BY MakerFacts DEF Adding, Inv, BookOK, BookTypes
<1>3. mine \in Placed /\ mine # None /\ ~ mine.misattributed
  <2>1. o.qty - w.left \in Nat /\ o.qty \in Quantity
    <3>1. o.qty \in Nat /\ w.left \in Nat /\ w.left <= o.qty
      BY <1>2, Numbers DEF MatchOK, Taker
    <3> QED
      BY <1>2, <3>1 DEF Taker
  <2>2. mine \in Placed
    BY <1>2, <2>1 DEF Placed, Taker
  <2> QED
    BY <2>2, NoneAssumption
<1>4. ASSUME NEW t \in w.trades
      PROVE  LET i == t.maker.id IN
             /\ leg(i) = t /\ i \in Ids /\ i # seq /\ orders[i] # None /\ orders[i] \in Placed
             /\ t.qty \in Nat
             /\ met(i) \in Placed /\ met(i) # None /\ ~ met(i).misattributed
             /\ met(i).account = orders[i].account /\ met(i).key = orders[i].key
             /\ met(i).qty = orders[i].qty /\ met(i).filled = orders[i].filled + t.qty
  <2> DEFINE i == t.maker.id
             r == orders[i]
  <2>1. t.maker \in book /\ t.qty \in Nat
    BY <1>2 DEF MatchOK
  <2>2. i \in Ids /\ i # seq /\ r # None /\ resting[i] # None
    BY <2>1, MakerFacts
  <2>3. leg(i) = t
    <3>1. \A u \in w.trades : u.maker.id = i => u = t
      <4> SUFFICES ASSUME NEW u \in w.trades, u.maker.id = i PROVE u = t
        OBVIOUS
      <4>1. u.maker \in book
        BY <1>2 DEF MatchOK
      <4>2. u.maker = t.maker
        BY <2>1, <4>1, MakerFacts
      <4> QED
        BY <1>2, <4>2 DEF MatchOK
    <3> QED
      BY <3>1
  <2>4. r \in Placed
    BY <1>2, <2>2
  <2>5. FillAccount(i) = r.account /\ ~ r.misattributed
    BY <2>2 DEF FillAccount, Inv, BookOK, Attribution
  <2>6. r.filled \in Nat /\ r.filled + t.qty \in Nat
    <3>1. r.filled \in Nat
      BY <2>4 DEF Placed
    <3> QED
      BY <2>1, <3>1
  <2>7. met(i) = [r EXCEPT !.filled = r.filled + t.qty, !.misattributed = FALSE]
    BY <2>3, <2>5
  <2> HIDE DEF r, leg, met
  <2>8. /\ met(i) \in Placed /\ ~ met(i).misattributed
        /\ met(i).account = r.account /\ met(i).key = r.key
        /\ met(i).qty = r.qty /\ met(i).filled = r.filled + t.qty
    BY <2>4, <2>6, <2>7 DEF Placed
  <2>9. met(i) # None
    BY <2>8, NoneAssumption
  <2> QED
    BY <2>1, <2>2, <2>3, <2>4, <2>8, <2>9 DEF r
<1>5. mine.account = o.account /\ mine.key = o.key /\ mine.qty = o.qty /\ mine.filled = o.qty - w.left
  OBVIOUS
<1> HIDE DEF mine, leg, met
<1>6. \A i \in Ids : orders'[i] \in Placed \cup {None}
  <2> SUFFICES ASSUME NEW i \in Ids PROVE orders'[i] \in Placed \cup {None}
    OBVIOUS
  <2>1. CASE i = seq /\ HasMutation(o, w)
    BY <1>1, <1>3, <2>1
  <2>2. CASE ~ (i = seq /\ HasMutation(o, w)) /\ \E t \in w.trades : t.maker.id = i
    <3>1. PICK t \in w.trades : t.maker.id = i
      BY <2>2
    <3>2. met(i) \in Placed
      BY <1>4, <3>1
    <3> QED
      BY <1>1, <2>2, <3>2
  <2>3. CASE ~ (i = seq /\ HasMutation(o, w)) /\ ~ \E t \in w.trades : t.maker.id = i
    BY <1>1, <1>2, <2>3
  <2> QED
    BY <2>1, <2>2, <2>3
<1>7. orders' \in [Ids -> Placed \cup {None}]
  BY <1>1, <1>6
<1>8. ~ \E t \in w.trades : t.maker.id = seq
  BY <1>4
<1>9. orders'[seq] = IF HasMutation(o, w) THEN mine ELSE None
  BY <1>1, <1>2, <1>8
<1>10. Rests(o, w) => HasMutation(o, w)
  BY DEF HasMutation
<1>11. ASSUME NEW t \in w.trades
       PROVE  LET i == t.maker.id IN
                /\ i \in Ids /\ i # seq /\ orders[i] # None /\ orders'[i] # None
                /\ orders'[i].account = orders[i].account /\ orders'[i].key = orders[i].key
                /\ orders'[i].qty = orders[i].qty /\ orders'[i].filled = orders[i].filled + t.qty
                /\ ~ orders'[i].misattributed
  <2>1. orders'[t.maker.id] = met(t.maker.id)
    BY <1>1, <1>4
  <2> QED
    BY <1>4, <2>1
<1>12. \A i \in Ids : i # seq /\ (\A t \in w.trades : t.maker.id # i) => orders'[i] = orders[i]
  BY <1>1
<1> QED
  BY <1>3, <1>5, <1>7, <1>9, <1>10, <1>11, <1>12

\* Hence every order keeps its account, its key and what was placed.
LEMMA RecordKeeps ==
    ASSUME Inv, NEW o, NEW gone, NEW book, NEW w, Adding(o, gone, book, w), NEW i \in Ids, i # seq
    PROVE  /\ orders'[i] # None <=> orders[i] # None
           /\ orders[i] # None => /\ orders'[i].account = orders[i].account
                                  /\ orders'[i].key = orders[i].key
                                  /\ orders'[i].qty = orders[i].qty
                                  /\ ~ orders'[i].misattributed
<1>1. orders[i] # None => ~ orders[i].misattributed
  BY DEF Inv, BookOK, Attribution
<1>2. CASE \E t \in w.trades : t.maker.id = i
  <2>1. PICK t \in w.trades : t.maker.id = i
    BY <1>2
  <2> QED
    BY <2>1, RecordFacts
<1>3. CASE ~ \E t \in w.trades : t.maker.id = i
  BY <1>1, <1>3, RecordFacts
<1> QED
  BY <1>2, <1>3

\* Registry and history name the same accounts.
LEMMA AddAttribution ==
    ASSUME Inv, NEW o, NEW gone, NEW book, NEW w, Adding(o, gone, book, w)
    PROVE  Attribution(resting', orders')
<1> DEFINE id == [symbol |-> o.symbol, order |-> o.order, account |-> o.account,
                  owner |-> o.owner, side |-> o.side]
<1>1. resting' = [i \in Ids |-> IF i = seq /\ Rests(o, w) THEN id
                                ELSE IF i \in gone \cup Prune(w) THEN None ELSE resting[i]]
  BY DEF Adding
<1>2. id.account = o.account /\ id.owner = o.owner
  OBVIOUS
<1> HIDE DEF id
<1>3. o.owner = OwnerOf(o.account) /\ resting[seq] = None
  BY MakerFacts DEF Adding, Taker
<1>4. ASSUME NEW i \in Ids, resting'[i] # None
      PROVE  /\ orders'[i] # None /\ resting'[i].account = orders'[i].account
             /\ resting'[i].owner = OwnerOf(resting'[i].account)
  <2>1. CASE i = seq /\ Rests(o, w)
    <3>1. resting'[i] = id
      BY <1>1, <2>1
    <3>2. orders'[i] # None /\ orders'[i].account = o.account
      BY <2>1, RecordFacts
    <3> QED
      BY <1>2, <1>3, <3>1, <3>2
  <2>2. CASE ~ (i = seq /\ Rests(o, w))
    <3>1. resting'[i] = resting[i] /\ i # seq
      BY <1>1, <1>3, <1>4, <2>2
    <3>2. /\ orders[i] # None /\ resting[i].account = orders[i].account
          /\ resting[i].owner = OwnerOf(resting[i].account)
      BY <1>4, <3>1 DEF Inv, BookOK, Attribution
    <3> QED
      BY <3>1, <3>2, RecordKeeps
  <2> QED
    BY <2>1, <2>2
<1>5. ASSUME NEW i \in Ids, orders'[i] # None PROVE ~ orders'[i].misattributed
  <2>1. CASE i = seq
    BY <1>5, <2>1, RecordFacts
  <2>2. CASE i # seq
    BY <1>5, <2>2, RecordKeeps
  <2> QED
    BY <2>1, <2>2
<1> QED
  BY <1>4, <1>5 DEF Attribution

\* Quantities are conserved by full fills, partial fills and remainders.
LEMMA AddQuantities ==
    ASSUME Inv, NEW o, NEW gone, NEW book, NEW w, Adding(o, gone, book, w)
    PROVE  Quantities(leaves', orders')
<1> DEFINE NB == BookAfter(book, o, w)
<1>1. /\ o.symbol \in Symbol /\ Taker(o) /\ seq \in Ids /\ MatchOK(book, o, w)
      /\ book \in SUBSET LeafOrder
      /\ leaves' = [leaves EXCEPT ![o.symbol] = NB]
      /\ leaves \in [Symbol -> SUBSET LeafOrder] /\ orders \in [Ids -> Placed \cup {None}]
  BY DEF Adding, Taker, Inv, BookOK, BookTypes
<1>2. \A x \in NB : (Rests(o, w) /\ x = Remainder(o, w)) \/ \E m \in book : Kept(w, m, x)
  BY <1>1, BookAfterFacts
<1> HIDE DEF NB
<1>3. o.qty \in Nat /\ w.left \in Nat /\ w.left <= o.qty
  BY <1>1, Numbers DEF Taker, MatchOK
<1>4. ASSUME NEW i \in Ids, orders[i] # None
      PROVE  orders[i].qty \in Nat /\ orders[i].filled \in Nat /\ orders[i].filled <= orders[i].qty
  <2>1. orders[i] \in Placed
    BY <1>1, <1>4
  <2>2. orders[i].qty \in Quantity /\ orders[i].filled \in Nat
    BY <2>1 DEF Placed
  <2>3. orders[i].filled <= orders[i].qty
    BY <1>4 DEF Inv, BookOK, Quantities
  <2> QED
    BY <2>2, <2>3, Numbers
<1>5. ASSUME NEW m \in book
      PROVE  /\ m.id \in Ids /\ orders[m.id] # None /\ m.id # seq /\ m.qty \in Nat
             /\ m.qty = orders[m.id].qty - orders[m.id].filled
  <2>1. m \in leaves[o.symbol] /\ m \in LeafOrder /\ m.id \in Ids /\ orders[m.id] # None /\ m.id # seq
    BY MakerFacts
  <2>2. m.qty = orders[m.id].qty - orders[m.id].filled
    BY <1>1, <2>1 DEF Inv, BookOK, Quantities
  <2>3. m.qty \in Nat
    BY <2>1 DEF LeafOrder
  <2> QED
    BY <2>1, <2>2, <2>3
<1>6. ASSUME NEW x \in NB PROVE x.qty = orders'[x.id].qty - orders'[x.id].filled
  <2>1. CASE Rests(o, w) /\ x = Remainder(o, w)
    <3>1. x.id = seq /\ x.qty = w.left
      BY <2>1 DEF Remainder
    <3>2. orders'[seq].qty = o.qty /\ orders'[seq].filled = o.qty - w.left
      BY <2>1, RecordFacts
    <3> QED
      BY <1>3, <3>1, <3>2
  <2>2. CASE \E m \in book : Kept(w, m, x)
    <3>1. PICK m \in book : Kept(w, m, x)
      BY <2>2
    <3>2. CASE x = m /\ \A t \in w.trades : t.maker # m
      <4>1. \A t \in w.trades : t.maker.id # m.id
        <5> SUFFICES ASSUME NEW t \in w.trades, t.maker.id = m.id PROVE FALSE
          OBVIOUS
        <5>1. t.maker \in book
          BY <1>1 DEF MatchOK
        <5> QED
          BY <3>2, <5>1, MakerFacts
      <4>2. orders'[m.id] = orders[m.id]
        BY <1>5, <4>1, RecordFacts
      <4> QED
        BY <1>5, <3>2, <4>2
    <3>3. CASE \E t \in w.trades : t.maker = m /\ x.qty = m.qty - t.qty
      <4>1. PICK t \in w.trades : t.maker = m /\ x.qty = m.qty - t.qty
        BY <3>3
      <4>2. /\ orders'[m.id].qty = orders[m.id].qty
            /\ orders'[m.id].filled = orders[m.id].filled + t.qty
        BY <4>1, RecordFacts
      <4>3. t.qty \in Nat
        BY <1>1 DEF MatchOK
      <4>4. x.id = m.id
        BY <3>1 DEF Kept
      <4> QED
        BY <1>4, <1>5, <4>1, <4>2, <4>3, <4>4
    <3> QED
      BY <3>1, <3>2, <3>3 DEF Kept
  <2> QED
    BY <1>2, <2>1, <2>2
<1>7. ASSUME NEW s \in Symbol, NEW m \in leaves'[s]
      PROVE  m.qty = orders'[m.id].qty - orders'[m.id].filled
  <2>1. CASE s = o.symbol
    BY <1>1, <1>6, <1>7, <2>1
  <2>2. CASE s # o.symbol
    <3>1. m \in leaves[s]
      BY <1>1, <1>7, <2>2
    <3>2. m.id \in Ids
      <4>1. m \in LeafOrder
        BY <1>1, <3>1
      <4> QED
        BY <4>1 DEF LeafOrder
    <3>3. resting[m.id] # None /\ resting[m.id].symbol = s
      BY <3>1 DEF Inv, BookOK, Registry
    <3>4. m.id # seq
      BY <3>3, MakerFacts
    <3>5. \A t \in w.trades : t.maker.id # m.id
      <4> SUFFICES ASSUME NEW t \in w.trades, t.maker.id = m.id PROVE FALSE
        OBVIOUS
      <4>1. t.maker \in book
        BY <1>1 DEF MatchOK
      <4> QED
        BY <2>2, <3>3, <4>1, MakerFacts
    <3>6. orders'[m.id] = orders[m.id]
      BY <3>2, <3>4, <3>5, RecordFacts
    <3>7. m.qty = orders[m.id].qty - orders[m.id].filled
      BY <3>1 DEF Inv, BookOK, Quantities
    <3> QED
      BY <3>6, <3>7
  <2> QED
    BY <2>1, <2>2
<1>8. ASSUME NEW i \in Ids, orders'[i] # None PROVE orders'[i].filled <= orders'[i].qty
  <2>1. CASE i = seq
    <3>1. orders'[i].qty = o.qty /\ orders'[i].filled = o.qty - w.left
      BY <1>8, <2>1, RecordFacts
    <3> QED
      BY <1>3, <3>1
  <2>2. CASE \E t \in w.trades : t.maker.id = i
    <3>1. PICK t \in w.trades : t.maker.id = i
      BY <2>2
    <3>2. t.maker \in book /\ t.qty \in Nat /\ t.qty <= t.maker.qty
      BY <1>1 DEF MatchOK
    <3>3. orders'[i].qty = orders[i].qty /\ orders'[i].filled = orders[i].filled + t.qty
      BY <3>1, RecordFacts
    <3> QED
      BY <1>4, <1>5, <3>1, <3>2, <3>3
  <2>3. CASE i # seq /\ ~ \E t \in w.trades : t.maker.id = i
    <3>1. orders'[i] = orders[i]
      BY <2>3, RecordFacts
    <3> QED
      BY <1>4, <1>8, <3>1
  <2> QED
    BY <2>1, <2>2, <2>3
<1> QED
  BY <1>7, <1>8 DEF Quantities

\* A remainder rests only where nothing crosses it any more.
LEMMA AddUncrossed ==
    ASSUME Inv, NEW o, NEW gone, NEW book, NEW w, Adding(o, gone, book, w)
    PROVE  Uncrossed(leaves')
<1> DEFINE NB == BookAfter(book, o, w)
<1>1. /\ o.symbol \in Symbol /\ Taker(o) /\ seq \in Ids /\ MatchOK(book, o, w)
      /\ book \in SUBSET LeafOrder
      /\ leaves' = [leaves EXCEPT ![o.symbol] = NB]
      /\ leaves \in [Symbol -> SUBSET LeafOrder] /\ Uncrossed(leaves)
  BY DEF Adding, Taker, Inv, BookOK, BookTypes
<1>2. \A x \in NB : (Rests(o, w) /\ x = Remainder(o, w)) \/ \E m \in book : Kept(w, m, x)
  BY <1>1, BookAfterFacts
<1> HIDE DEF NB
<1>3. \A m \in book : m \in leaves[o.symbol]
  BY MakerFacts
<1>4. ASSUME Rests(o, w), NEW m \in book, NEW x, Kept(w, m, x) PROVE ~ Crosses(o, m)
  <2>1. w.left > 0 /\ ~ w.stopped
    BY <1>4 DEF Rests
  <2>2. \A t, u \in w.trades : t.maker = u.maker => t = u
    BY <1>1 DEF MatchOK
  <2>3. m.qty \in Nat /\ \A t \in w.trades : t.qty \in Nat
    BY <1>1 DEF MatchOK, LeafOrder
  <2>4. ~ (m \in w.removed \/ \E t \in w.trades : t.maker = m /\ t.qty = m.qty)
    BY <1>4, <2>2, <2>3 DEF Kept
  <2> QED
    BY <1>1, <2>1, <2>4 DEF MatchOK
<1>5. ASSUME NEW b \in NB, NEW a \in NB, b.side = "buy", a.side = "sell" PROVE b.price < a.price
  <2>1. CASE Rests(o, w) /\ b = Remainder(o, w)
    <3>1. b.side = o.side /\ b.price = o.price /\ o.price # None
      BY <2>1 DEF Remainder, Rests
    <3>2. PICK m \in book : Kept(w, m, a)
      BY <1>2, <1>5, <2>1
    <3>3. ~ Crosses(o, m)
      BY <1>4, <2>1, <3>2
    <3>4. m.side = "sell" /\ m.price = a.price /\ m.price \in Nat
      BY <1>1, <1>5, <3>2, Numbers DEF Kept, LeafOrder
    <3>5. o.price \in Nat
      BY <1>1, <3>1, Numbers DEF Taker
    <3> QED
      BY <1>5, <3>1, <3>3, <3>4, <3>5 DEF Crosses
  <2>2. CASE Rests(o, w) /\ a = Remainder(o, w)
    <3>1. a.side = o.side /\ a.price = o.price /\ o.price # None
      BY <2>2 DEF Remainder, Rests
    <3>2. PICK m \in book : Kept(w, m, b)
      BY <1>2, <1>5, <2>2
    <3>3. ~ Crosses(o, m)
      BY <1>4, <2>2, <3>2
    <3>4. m.side = "buy" /\ m.price = b.price /\ m.price \in Nat
      BY <1>1, <1>5, <3>2, Numbers DEF Kept, LeafOrder
    <3>5. o.price \in Nat
      BY <1>1, <3>1, Numbers DEF Taker
    <3> QED
      BY <1>5, <3>1, <3>3, <3>4, <3>5 DEF Crosses
  <2>3. CASE (\E m \in book : Kept(w, m, b)) /\ \E m \in book : Kept(w, m, a)
    <3>1. PICK m \in book : Kept(w, m, b)
      BY <2>3
    <3>2. PICK n \in book : Kept(w, n, a)
      BY <2>3
    <3>3. /\ m.side = "buy" /\ m.price = b.price /\ n.side = "sell" /\ n.price = a.price
          /\ m \in leaves[o.symbol] /\ n \in leaves[o.symbol]
      BY <1>3, <1>5, <3>1, <3>2 DEF Kept
    <3> QED
      BY <1>1, <3>3 DEF Uncrossed
  <2> QED
    BY <1>2, <2>1, <2>2, <2>3
<1>6. ASSUME NEW s \in Symbol, NEW b \in leaves'[s], NEW a \in leaves'[s],
             b.side = "buy", a.side = "sell"
      PROVE  b.price < a.price
  <2>1. CASE s = o.symbol
    BY <1>1, <1>5, <1>6, <2>1
  <2>2. CASE s # o.symbol
    <3>1. b \in leaves[s] /\ a \in leaves[s]
      BY <1>1, <1>6, <2>2
    <3> QED
      BY <1>1, <1>6, <3>1 DEF Uncrossed
  <2> QED
    BY <2>1, <2>2
<1> QED
  BY <1>6 DEF Uncrossed

\* A placement keeps books, registry and history sound.
LEMMA AddBook ==
    ASSUME Inv, NEW o, NEW gone, NEW book, NEW w, Adding(o, gone, book, w)
    PROVE  BookOK(leaves', resting', orders')
BY AddRegistry, RecordFacts, AddAttribution, AddQuantities, AddUncrossed DEF BookOK, BookTypes

\* What a placement takes off a book, and why.
LEMMA AddReasons ==
    ASSUME Inv, NEW o, NEW gone, NEW book, NEW w, Adding(o, gone, book, w),
           NEW s \in Symbol, NEW m \in leaves[s], \A x \in leaves'[s] : x.id # m.id
    PROVE  \/ orders'[m.id] # None /\ orders'[m.id].filled = orders'[m.id].qty
           \/ m.id \in gone
           \/ m.owner = o.owner /\ stp # "None"
<1> DEFINE NB == BookAfter(book, o, w)
<1>1. /\ o.symbol \in Symbol /\ Taker(o) /\ seq \in Ids /\ MatchOK(book, o, w)
      /\ book \in SUBSET LeafOrder /\ book = {x \in leaves[o.symbol] : x.id \notin gone}
      /\ leaves' = [leaves EXCEPT ![o.symbol] = NB]
      /\ leaves \in [Symbol -> SUBSET LeafOrder] /\ orders \in [Ids -> Placed \cup {None}]
  BY DEF Adding, Taker, Inv, BookOK, BookTypes
<1>2. \A y \in book :
         y \notin w.removed /\ (\A t \in w.trades : t.maker = y => t.qty < y.qty) =>
             \E x \in NB : Kept(w, y, x)
  BY <1>1, BookAfterFacts
<1> HIDE DEF NB
<1>3. s = o.symbol
  <2> SUFFICES ASSUME s # o.symbol PROVE FALSE
    OBVIOUS
  <2>1. leaves'[s] = leaves[s]
    BY <1>1
  <2> QED
    BY <2>1
<1>4. leaves'[s] = NB
  BY <1>1, <1>3
<1> SUFFICES ASSUME m.id \notin gone, m \notin w.removed
             PROVE  orders'[m.id] # None /\ orders'[m.id].filled = orders'[m.id].qty
  BY <1>1 DEF MatchOK
<1>5. m \in book
  BY <1>1, <1>3
<1>6. PICK t \in w.trades : t.maker = m /\ ~ (t.qty < m.qty)
  BY <1>2, <1>4, <1>5 DEF Kept
<1>7. t.qty \in Nat /\ t.qty <= m.qty /\ m.qty \in Nat
  BY <1>1, <1>5, <1>6 DEF MatchOK, LeafOrder
<1>8. /\ orders[m.id] # None /\ orders'[m.id] # None /\ m.id \in Ids
      /\ orders'[m.id].qty = orders[m.id].qty /\ orders'[m.id].filled = orders[m.id].filled + t.qty
  BY <1>6, RecordFacts
<1>9. m.qty = orders[m.id].qty - orders[m.id].filled
  BY DEF Inv, BookOK, Quantities
<1>10. orders[m.id].qty \in Nat /\ orders[m.id].filled \in Nat
  <2>1. orders[m.id] \in Placed
    BY <1>1, <1>8
  <2>2. orders[m.id].qty \in Quantity /\ orders[m.id].filled \in Nat
    BY <2>1 DEF Placed
  <2> QED
    BY <2>2, Numbers
<1> QED
  BY <1>6, <1>7, <1>8, <1>9, <1>10
-----------------------------------------------------------------------------
(* Cancels and sweeps.                                                      *)

\* Orders that are taken off leave book and registry together.
LEMMA TakeOffBook ==
    ASSUME Inv, NEW gone, TakeOff(gone)
    PROVE  /\ BookOK(leaves', resting', orders')
           /\ idToEngine' \in [VenueOrderId -> Ids \cup {None}]
<1>1. /\ BookTypes(leaves, resting, orders) /\ Registry(leaves, resting)
      /\ Attribution(resting, orders) /\ Quantities(leaves, orders) /\ Uncrossed(leaves)
      /\ orders' = orders
  BY DEF Inv, BookOK, TakeOff
<1>2. /\ leaves' = [s \in Symbol |-> {m \in leaves[s] : m.id \notin gone}]
      /\ resting' = [i \in Ids |-> IF i \in gone THEN None ELSE resting[i]]
  BY DEF TakeOff
<1>3. \A s \in Symbol : \A m : m \in leaves'[s] <=> m \in leaves[s] /\ m.id \notin gone
  BY <1>2
<1>4. leaves' \in [Symbol -> SUBSET LeafOrder]
  BY <1>1, <1>2 DEF BookTypes
<1>5. resting' \in [Ids -> Identity \cup {None}]
  BY <1>1, <1>2 DEF BookTypes
<1>6. \A i \in Ids : resting'[i] # None => i \notin gone /\ resting'[i] = resting[i]
  BY <1>2
<1>7. \A s \in Symbol : \A m \in leaves'[s] : m \in leaves[s] /\ m.id \in Ids /\ resting'[m.id] = resting[m.id]
  <2> SUFFICES ASSUME NEW s \in Symbol, NEW m \in leaves'[s]
               PROVE  m \in leaves[s] /\ m.id \in Ids /\ resting'[m.id] = resting[m.id]
    OBVIOUS
  <2>1. m \in leaves[s] /\ m.id \notin gone
    BY <1>3
  <2>2. m \in LeafOrder
    BY <1>1, <2>1 DEF BookTypes
  <2>3. m.id \in Ids
    BY <2>2 DEF LeafOrder
  <2> QED
    BY <1>2, <2>1, <2>3
<1>8. ASSUME NEW i \in Ids, resting'[i] # None PROVE \E m \in leaves'[resting'[i].symbol] : m.id = i
  <2>1. i \notin gone /\ resting'[i] = resting[i]
    BY <1>6, <1>8
  <2>2. resting[i].symbol \in Symbol
    <3>1. resting[i] \in Identity
      BY <1>1, <1>8, <2>1 DEF BookTypes
    <3> QED
      BY <3>1 DEF Identity
  <2>3. PICK m \in leaves[resting[i].symbol] : m.id = i
    BY <1>1, <1>8, <2>1 DEF Registry
  <2> QED
    BY <1>3, <2>1, <2>2, <2>3
<1>9. Registry(leaves', resting')
  BY <1>1, <1>7, <1>8 DEF Registry
<1>10. Attribution(resting', orders')
  BY <1>1, <1>6 DEF Attribution
<1>11. Quantities(leaves', orders')
  BY <1>1, <1>7 DEF Quantities
<1>12. Uncrossed(leaves')
  BY <1>1, <1>7 DEF Uncrossed
<1>13. idToEngine' \in [VenueOrderId -> Ids \cup {None}]
  BY DEF TakeOff, Forget, Inv, InvTypes
<1> QED
  BY <1>1, <1>4, <1>5, <1>9, <1>10, <1>11, <1>12, <1>13 DEF BookOK, BookTypes
-----------------------------------------------------------------------------
(* Keys.                                                                    *)

\* A turn that opens no order keeps what is known of the keys.
LEMMA KeysKept ==
    ASSUME NEW od, NEW idem, NEW n \in Nat, KeysOK(od, idem, n)
    PROVE  KeysOK(od, idem, n + 1)
<1>1. \A i \in Ids : i \in Nat
  BY Numbers
<1> QED
  BY <1>1 DEF KeysOK

\* A placement opens at most the order of its own sequence number.
LEMMA AddKeys ==
    ASSUME Inv, NEW o, NEW gone, NEW book, NEW w, Adding(o, gone, book, w),
           seq' = seq + 1,
           idempotency' \in [Account \X ClientOrderId -> Entry \cup {None}],
           \A k \in Account \X ClientOrderId : idempotency[k] # None => idempotency'[k] # None,
           o.key # None => /\ idempotency[<<o.account, o.key>>] = None
                           /\ idempotency'[<<o.account, o.key>>] # None
    PROVE  KeysOK(orders', idempotency', seq')
<1>1. /\ KeysOK(orders, idempotency, seq) /\ seq \in Nat /\ seq \in Ids /\ Taker(o)
      /\ orders \in [Ids -> Placed \cup {None}]
  BY DEF Inv, InvTypes, Adding, BookOK, BookTypes
<1>2. ASSUME NEW i \in Ids, i # seq, orders'[i] # None
      PROVE  orders[i] # None /\ orders'[i].account = orders[i].account /\ orders'[i].key = orders[i].key
  BY <1>2, RecordKeeps
<1>3. orders'[seq] # None => orders'[seq].account = o.account /\ orders'[seq].key = o.key
  BY RecordFacts
<1>4. ASSUME NEW i \in Ids, orders[i] # None
      PROVE  orders[i].account \in Account /\ orders[i].key \in ClientOrderId \cup {None}
  <2>1. orders[i] \in Placed
    BY <1>1, <1>4
  <2> QED
    BY <2>1 DEF Placed
<1>5. \A i \in Ids : orders'[i] # None => i < seq'
  <2>1. \A i \in Ids : i \in Nat /\ (orders[i] # None => i < seq)
    BY <1>1, Numbers DEF KeysOK
  <2> QED
    BY <1>1, <1>2, <2>1
<1>6. ASSUME NEW i \in Ids, orders'[i] # None, orders'[i].key # None
      PROVE  idempotency'[<<orders'[i].account, orders'[i].key>>] # None
  <2>1. CASE i = seq
    BY <1>3, <1>6, <2>1
  <2>2. CASE i # seq
    <3>1. orders[i] # None /\ orders'[i].account = orders[i].account /\ orders'[i].key = orders[i].key
      BY <1>2, <1>6, <2>2
    <3>2. idempotency[<<orders[i].account, orders[i].key>>] # None
      BY <1>1, <1>6, <3>1 DEF KeysOK
    <3>3. <<orders[i].account, orders[i].key>> \in Account \X ClientOrderId
      BY <1>4, <1>6, <3>1
    <3> QED
      BY <3>1, <3>2, <3>3
  <2> QED
    BY <2>1, <2>2
<1>7. ASSUME NEW i \in Ids, i # seq, orders'[i] # None, orders'[seq] # None, orders'[i].key # None,
             orders'[i].key = orders'[seq].key, orders'[i].account = orders'[seq].account
      PROVE  FALSE
  <2>1. orders[i] # None /\ orders'[i].account = orders[i].account /\ orders'[i].key = orders[i].key
    BY <1>2, <1>7
  <2>2. idempotency[<<orders[i].account, orders[i].key>>] # None
    BY <1>1, <1>7, <2>1 DEF KeysOK
  <2>3. orders[i].account = o.account /\ orders[i].key = o.key /\ o.key # None
    BY <1>3, <1>7, <2>1
  <2> QED
    BY <2>2, <2>3
<1>8. ASSUME NEW i \in Ids, NEW j \in Ids, orders'[i] # None, orders'[j] # None,
             orders'[i].key # None, orders'[i].key = orders'[j].key,
             orders'[i].account = orders'[j].account
      PROVE  i = j
  <2>1. CASE i # seq /\ j # seq
    <3>1. /\ orders[i] # None /\ orders'[i].account = orders[i].account /\ orders'[i].key = orders[i].key
          /\ orders[j] # None /\ orders'[j].account = orders[j].account /\ orders'[j].key = orders[j].key
      BY <1>2, <1>8, <2>1
    <3>2. /\ orders[i] # None /\ orders[j] # None /\ orders[i].key # None
          /\ orders[i].key = orders[j].key /\ orders[i].account = orders[j].account
      BY <1>8, <3>1
    <3> QED
      BY <1>1, <3>2 DEF KeysOK
  <2>2. CASE i = seq \/ j = seq
    BY <1>7, <1>8, <2>2
  <2> QED
    BY <2>1, <2>2
<1> QED
  BY <1>5, <1>6, <1>8 DEF KeysOK
-----------------------------------------------------------------------------
(* The invariant is kept, command by command.                               *)

\* A turn that keeps books and keys sound keeps the invariant: the capture is untouched,
\* and no counter of order ids outruns the sequence numbers.
LEMMA TurnInv ==
    ASSUME Inv, seq <= MaxSeq, seq' = seq + 1, saved' = saved,
           minted' = minted \/ \E a : Mint(a),
           stp' \in {"None", StpMode}, status' \in [Symbol -> Status \cup {"Active"}],
           idToEngine' \in [VenueOrderId -> Ids \cup {None}],
           BookOK(leaves', resting', orders'), KeysOK(orders', idempotency', seq')
    PROVE  Inv'
<1>1. /\ seq \in Nat /\ minted \in [{"gateway", "maker"} -> Nat]
      /\ \A by \in {"gateway", "maker"} : minted[by] <= seq
  BY DEF Inv, InvTypes
<1>2. seq' \in Nat /\ seq' <= MaxSeq + 1
  BY <1>1, Numbers
<1>3. /\ minted' \in [{"gateway", "maker"} -> Nat]
      /\ \A by \in {"gateway", "maker"} : minted'[by] <= seq'
  <2>1. CASE minted' = minted
    BY <1>1, <2>1
  <2>2. ASSUME NEW a, Mint(a)
        PROVE  /\ minted' \in [{"gateway", "maker"} -> Nat]
               /\ \A by \in {"gateway", "maker"} : minted'[by] <= seq'
    <3>1. Minter(a) \in {"gateway", "maker"}
      BY DEF Minter
    <3>2. minted' = [minted EXCEPT ![Minter(a)] = minted[Minter(a)] + 1]
      BY <2>2 DEF Mint
    <3> QED
      BY <1>1, <3>1, <3>2
  <2> QED
    BY <2>1, <2>2
<1>4. InvTypes'
  BY <1>2, <1>3 DEF InvTypes
<1>5. InvSaved'
  <2> SUFFICES ASSUME saved # None
               PROVE  /\ BookOK(saved.leaves, saved.resting, saved.orders)
                      /\ KeysOK(saved.orders, saved.idempotency, seq + 1)
    BY DEF InvSaved, BookOK, KeysOK, BookTypes, Registry, Attribution, Quantities, Uncrossed
  <2>1. /\ BookOK(saved.leaves, saved.resting, saved.orders)
        /\ KeysOK(saved.orders, saved.idempotency, seq)
    BY DEF Inv, InvSaved
  <2> QED
    BY <1>1, <2>1, KeysKept
<1> QED
  BY <1>4, <1>5 DEF Inv

\* A rejected command changes nothing but the sequence number.
LEMMA RejectedInv ==
    ASSUME Inv, Rejected, stp' = stp, saved' = saved, minted' = minted \/ \E a : Mint(a)
    PROVE  Inv'
<1>1. /\ seq <= MaxSeq /\ seq' = seq + 1 /\ leaves' = leaves /\ resting' = resting
      /\ orders' = orders /\ idToEngine' = idToEngine /\ idempotency' = idempotency
      /\ status' = status
  BY DEF Rejected, Turn, BookUntouched
<1>2. /\ BookOK(leaves', resting', orders') /\ stp' \in {"None", StpMode}
      /\ status' \in [Symbol -> Status \cup {"Active"}]
      /\ idToEngine' \in [VenueOrderId -> Ids \cup {None}]
  BY <1>1 DEF Inv, InvTypes
<1>3. seq \in Nat /\ KeysOK(orders, idempotency, seq)
  BY DEF Inv, InvTypes
<1>4. KeysOK(orders', idempotency', seq')
  BY <1>1, <1>3, KeysKept
<1> QED
  BY <1>1, <1>2, <1>4, TurnInv

\* So does a command that takes orders off.
LEMMA TakeOffInv ==
    ASSUME Inv, NEW gone, TakeOff(gone), NEW kind, NEW a, NEW owner, Turn(kind, a, owner),
           idempotency' = idempotency, status' = status, stp' = stp, saved' = saved,
           minted' = minted \/ \E b : Mint(b)
    PROVE  Inv'
<1>1. seq <= MaxSeq /\ seq' = seq + 1 /\ orders' = orders
  BY DEF Turn, TakeOff
<1>2. /\ BookOK(leaves', resting', orders')
      /\ idToEngine' \in [VenueOrderId -> Ids \cup {None}]
  BY TakeOffBook
<1>3. /\ stp' \in {"None", StpMode} /\ status' \in [Symbol -> Status \cup {"Active"}]
      /\ seq \in Nat /\ KeysOK(orders, idempotency, seq)
  BY DEF Inv, InvTypes
<1>4. KeysOK(orders', idempotency', seq')
  BY <1>1, <1>3, KeysKept
<1> QED
  BY <1>1, <1>2, <1>3, <1>4, TurnInv

\* The id of a placement is one of the counters', below the sequence number.
LEMMA PlacementFacts ==
    ASSUME Inv, seq <= MaxSeq, NEW a \in Account, NEW t \in Terms,
           NEW key \in ClientOrderId \cup {None}
    PROVE  /\ seq \in Ids /\ Taker(Placement(a, t, key, NextOrderId(a)))
           /\ Placement(a, t, key, NextOrderId(a)).symbol = t.symbol
           /\ Placement(a, t, key, NextOrderId(a)).account = a
           /\ Placement(a, t, key, NextOrderId(a)).owner = OwnerOf(a)
           /\ Placement(a, t, key, NextOrderId(a)).key = key
<1>1. /\ seq \in Nat /\ minted \in [{"gateway", "maker"} -> Nat]
      /\ \A by \in {"gateway", "maker"} : minted[by] <= seq
  BY DEF Inv, InvTypes
<1>2. seq \in Ids
  BY <1>1, Numbers
<1>3. Minter(a) \in {"gateway", "maker"}
  BY DEF Minter
<1>4. minted[Minter(a)] \in Nat /\ minted[Minter(a)] <= MaxSeq
  BY <1>1, <1>3, Numbers
<1>5. minted[Minter(a)] \in Ids
  BY <1>4, Numbers
<1>6. NextOrderId(a) \in VenueOrderId
  BY <1>3, <1>5 DEF NextOrderId, VenueOrderId
<1>7. /\ t.symbol \in Symbol /\ t.side \in Side /\ t.price \in Price \cup {None}
      /\ t.qty \in Quantity /\ t.tif \in TimeInForce
  BY DEF Terms
<1> HIDE DEF NextOrderId
<1> QED
  BY <1>2, <1>6, <1>7 DEF Placement, Taker

\* A placement that runs keeps the invariant when the map keeps the keys it knows.
LEMMA AddInv ==
    ASSUME Inv, NEW o, NEW gone, NEW book, NEW w, Adding(o, gone, book, w),
           NEW kind, NEW a, NEW owner, Turn(kind, a, owner),
           idToEngine' \in [VenueOrderId -> Ids \cup {None}],
           idempotency' \in [Account \X ClientOrderId -> Entry \cup {None}],
           \A k \in Account \X ClientOrderId : idempotency[k] # None => idempotency'[k] # None,
           o.key # None => /\ idempotency[<<o.account, o.key>>] = None
                           /\ idempotency'[<<o.account, o.key>>] # None,
           status' = status, stp' = stp, saved' = saved, minted' = minted \/ \E b : Mint(b)
    PROVE  Inv'
<1>1. seq <= MaxSeq /\ seq' = seq + 1
  BY DEF Turn
<1>2. BookOK(leaves', resting', orders')
  BY AddBook
<1>3. KeysOK(orders', idempotency', seq')
  BY <1>1, AddKeys
<1>4. stp' \in {"None", StpMode} /\ status' \in [Symbol -> Status \cup {"Active"}]
  BY DEF Inv, InvTypes
<1> QED
  BY <1>1, <1>2, <1>3, <1>4, TurnInv

\* What the map holds after a placement: the key's entry, and what it held.
LEMMA EntryFacts ==
    ASSUME Inv, seq \in Ids, NEW a \in Account, NEW t \in Terms, NEW key \in ClientOrderId \cup {None},
           idempotency' = IF key = None THEN idempotency
                          ELSE [idempotency EXCEPT ![<<a, key>>] = [terms |-> t, seq |-> seq]]
    PROVE  /\ idempotency' \in [Account \X ClientOrderId -> Entry \cup {None}]
           /\ \A k \in Account \X ClientOrderId : idempotency[k] # None => idempotency'[k] # None
           /\ key # None => idempotency'[<<a, key>>] # None
<1> DEFINE e == [terms |-> t, seq |-> seq]
<1>1. e \in Entry /\ e # None
  <2>1. e \in Entry
    BY DEF Entry
  <2> QED
    BY <2>1, NoneAssumption
<1>2. idempotency \in [Account \X ClientOrderId -> Entry \cup {None}]
  BY DEF Inv, KeysOK
<1>3. CASE key = None
  BY <1>2, <1>3
<1>4. CASE key # None
  <2>1. <<a, key>> \in Account \X ClientOrderId
    BY <1>4
  <2>2. idempotency' = [idempotency EXCEPT ![<<a, key>>] = e]
    BY <1>4
  <2> HIDE DEF e
  <2> QED
    BY <1>1, <1>2, <2>1, <2>2
<1> QED
  BY <1>3, <1>4

\* A client's placement either runs or leaves the books alone.
LEMMA AddOrderRuns ==
    ASSUME Inv, NEW a \in Account, NEW t \in Terms, NEW key \in ClientOrderId \cup {None},
           AddOrder(a, t, key)
    PROVE  \/ Rejected
           \/ /\ Turn("rejected", None, None) /\ BookUntouched /\ Place(a, t, key)
           \/ /\ Turn("add", a, OwnerOf(a)) /\ Place(a, t, key)
              /\ key # None => idempotency[<<a, key>>] = None
              /\ idToEngine' \in [VenueOrderId -> Ids \cup {None}]
              /\ \E o, book, w : Adding(o, {}, book, w) /\ o.owner = OwnerOf(a)
                                   /\ o.account = a /\ o.key = key
<1> SUFFICES ASSUME ~ Rejected, ~ (Turn("rejected", None, None) /\ BookUntouched /\ Place(a, t, key))
             PROVE  /\ Turn("add", a, OwnerOf(a)) /\ Place(a, t, key)
                    /\ key # None => idempotency[<<a, key>>] = None
                    /\ idToEngine' \in [VenueOrderId -> Ids \cup {None}]
                    /\ \E o, book, w : Adding(o, {}, book, w) /\ o.owner = OwnerOf(a)
                                         /\ o.account = a /\ o.key = key
  OBVIOUS
<1> DEFINE o == Placement(a, t, key, NextOrderId(a))
<1>1. Place(a, t, key) /\ (key # None => idempotency[<<a, key>>] = None)
  BY DEF AddOrder, Known
<1>2. Turn("add", a, OwnerOf(a)) /\ RunAdd(o, {})
  BY <1>1 DEF Place
<1>3. seq <= MaxSeq
  BY <1>2 DEF Turn
<1>4. seq \in Ids /\ Taker(o) /\ o.owner = OwnerOf(a) /\ o.account = a /\ o.key = key
  BY <1>3, PlacementFacts
<1> HIDE DEF o
<1>5. /\ \E book, w : Adding(o, {}, book, w)
      /\ idToEngine' \in [VenueOrderId -> Ids \cup {None}]
  BY <1>2, <1>4, AddingFacts
<1> QED
  BY <1>1, <1>2, <1>4, <1>5

LEMMA AddOrderInv ==
    ASSUME Inv, NEW a \in Account, NEW t \in Terms, NEW key \in ClientOrderId \cup {None},
           AddOrder(a, t, key)
    PROVE  Inv'
<1>1. stp' = stp /\ saved' = saved /\ Mint(a)
  BY DEF AddOrder, outside
<1>2. CASE Rejected
  BY <1>1, <1>2, RejectedInv
<1>3. CASE Turn("rejected", None, None) /\ BookUntouched /\ Place(a, t, key)
  <2>1. /\ seq <= MaxSeq /\ seq' = seq + 1 /\ leaves' = leaves /\ resting' = resting
        /\ orders' = orders /\ idToEngine' = idToEngine /\ status' = status
    BY <1>3 DEF Turn, BookUntouched, Place
  <2>2. seq \in Ids
    BY <2>1, PlacementFacts
  <2>3. /\ idempotency' \in [Account \X ClientOrderId -> Entry \cup {None}]
        /\ \A k \in Account \X ClientOrderId : idempotency[k] # None => idempotency'[k] # None
    BY <1>3, <2>2, EntryFacts DEF Place
  <2>4. seq \in Nat /\ KeysOK(orders, idempotency, seq) /\ orders \in [Ids -> Placed \cup {None}]
    BY DEF Inv, InvTypes, BookOK, BookTypes
  <2>5. KeysOK(orders, idempotency, seq + 1)
    BY <2>4, KeysKept
  <2>6. ASSUME NEW i \in Ids, orders[i] # None, orders[i].key # None
        PROVE  idempotency'[<<orders[i].account, orders[i].key>>] # None
    <3>1. orders[i] \in Placed
      BY <2>4, <2>6
    <3>2. <<orders[i].account, orders[i].key>> \in Account \X ClientOrderId
      BY <2>6, <3>1 DEF Placed
    <3>3. idempotency[<<orders[i].account, orders[i].key>>] # None
      BY <2>4, <2>6 DEF KeysOK
    <3> QED
      BY <2>3, <3>2, <3>3
  <2>7. KeysOK(orders', idempotency', seq')
    BY <2>1, <2>3, <2>5, <2>6 DEF KeysOK
  <2>8. /\ BookOK(leaves', resting', orders') /\ stp' \in {"None", StpMode}
        /\ status' \in [Symbol -> Status \cup {"Active"}]
        /\ idToEngine' \in [VenueOrderId -> Ids \cup {None}]
    BY <1>1, <2>1 DEF Inv, InvTypes
  <2> QED
    BY <1>1, <2>1, <2>7, <2>8, TurnInv
<1>4. CASE /\ Turn("add", a, OwnerOf(a)) /\ Place(a, t, key)
           /\ key # None => idempotency[<<a, key>>] = None
           /\ idToEngine' \in [VenueOrderId -> Ids \cup {None}]
           /\ \E o, book, w : Adding(o, {}, book, w) /\ o.owner = OwnerOf(a)
                                /\ o.account = a /\ o.key = key
  <2>1. PICK o : \E book, w : Adding(o, {}, book, w) /\ o.owner = OwnerOf(a)
                                /\ o.account = a /\ o.key = key
    BY <1>4
  <2>2. PICK book : \E w : Adding(o, {}, book, w) /\ o.owner = OwnerOf(a)
                             /\ o.account = a /\ o.key = key
    BY <2>1
  <2>3. PICK w : Adding(o, {}, book, w) /\ o.owner = OwnerOf(a) /\ o.account = a /\ o.key = key
    BY <2>2
  <2>4. seq \in Ids
    BY <2>3 DEF Adding
  <2>5. /\ idempotency' \in [Account \X ClientOrderId -> Entry \cup {None}]
        /\ \A k \in Account \X ClientOrderId : idempotency[k] # None => idempotency'[k] # None
        /\ key # None => idempotency'[<<a, key>>] # None
    BY <1>4, <2>4, EntryFacts DEF Place
  <2>6. status' = status
    BY <1>4 DEF Place
  <2>7. o.key # None => /\ idempotency[<<o.account, o.key>>] = None
                        /\ idempotency'[<<o.account, o.key>>] # None
    BY <1>4, <2>3, <2>5
  <2> QED
    BY <1>1, <1>4, <2>3, <2>5, <2>6, <2>7, AddInv
<1> QED
  BY <1>2, <1>3, <1>4, AddOrderRuns

\* An order that may be cancelled is on the named leaf, placed by the account and so of
\* its owner.
LEMMA CancellableFacts ==
    ASSUME Inv, NEW a, NEW s \in Symbol, NEW o, Cancellable(a, s, o)
    PROVE  LET i == idToEngine[o] IN
           /\ i \in Ids /\ OnLeaf(i, s) /\ resting[i] # None
           /\ orders[i] # None /\ orders[i].account = a /\ resting[i].owner = OwnerOf(a)
<1> DEFINE i == idToEngine[o]
<1>1. OnLeaf(i, s) /\ resting[i] # None /\ resting[i].account = a
  BY DEF Cancellable, AccountOwns
<1>2. PICK m \in leaves[s] : m.id = i
  BY <1>1 DEF OnLeaf
<1>3. m \in LeafOrder
  BY DEF Inv, BookOK, BookTypes
<1>4. i \in Ids
  BY <1>2, <1>3 DEF LeafOrder
<1> HIDE DEF i
<1>5. orders[i] # None /\ orders[i].account = a /\ resting[i].owner = OwnerOf(a)
  BY <1>1, <1>4 DEF Inv, BookOK, Attribution
<1> QED
  BY <1>1, <1>4, <1>5 DEF i

LEMMA CancelOrderInv ==
    ASSUME Inv, NEW a, NEW s, NEW o, CancelOrder(a, s, o)
    PROVE  Inv'
<1>1. stp' = stp /\ saved' = saved /\ minted' = minted
  BY DEF CancelOrder, outside
<1>2. CASE Rejected
  BY <1>1, <1>2, RejectedInv
<1>3. CASE ~ Rejected
  <2>1. /\ Turn("cancel", a, OwnerOf(a)) /\ TakeOff({idToEngine[o]})
        /\ idempotency' = idempotency /\ status' = status
    BY <1>3 DEF CancelOrder
  <2> QED
    BY <1>1, <2>1, TakeOffInv
<1> QED
  BY <1>2, <1>3

\* A replace cancels, and adds for the owner of the order it replaces.
LEMMA ReplaceRuns ==
    ASSUME Inv, NEW a \in Account, NEW o, NEW t \in Terms, Replace(a, o, t)
    PROVE  \/ Rejected
           \/ /\ Turn("replace", a, OwnerOf(a)) /\ Cancellable(a, t.symbol, o)
              /\ idempotency' = idempotency /\ status' = status
              /\ \/ TakeOff({idToEngine[o]})
                 \/ /\ idToEngine' \in [VenueOrderId -> Ids \cup {None}]
                    /\ \E p, book, w : /\ Adding(p, {idToEngine[o]}, book, w)
                                       /\ p.owner = OwnerOf(a) /\ p.key = None
<1> SUFFICES ASSUME ~ Rejected, ~ TakeOff({idToEngine[o]})
             PROVE  /\ Turn("replace", a, OwnerOf(a)) /\ Cancellable(a, t.symbol, o)
                    /\ idempotency' = idempotency /\ status' = status
                    /\ idToEngine' \in [VenueOrderId -> Ids \cup {None}]
                    /\ \E p, book, w : /\ Adding(p, {idToEngine[o]}, book, w)
                                       /\ p.owner = OwnerOf(a) /\ p.key = None
  BY DEF Replace
<1> DEFINE i == idToEngine[o]
           pl == Placement(a, t, None, NextOrderId(a))
           p == [pl EXCEPT !.owner = resting[i].owner]
<1>1. /\ Turn("replace", a, OwnerOf(a)) /\ Cancellable(a, t.symbol, o)
      /\ idempotency' = idempotency /\ status' = status /\ RunAdd(p, {i})
  BY DEF Replace
<1>2. seq <= MaxSeq
  BY <1>1 DEF Turn
<1>3. t.symbol \in Symbol
  BY DEF Terms
<1>4. i \in Ids /\ OnLeaf(i, t.symbol) /\ resting[i].owner = OwnerOf(a)
  BY <1>1, <1>3, CancellableFacts
<1>5. /\ seq \in Ids /\ Taker(pl) /\ pl.symbol = t.symbol /\ pl.owner = OwnerOf(a) /\ pl.key = None
  BY <1>2, PlacementFacts
<1>6. p = pl
  BY <1>4 DEF Placement
<1> HIDE DEF p, pl, i
<1>7. \A j \in {i} : j \in Ids /\ OnLeaf(j, pl.symbol)
  BY <1>4, <1>5
<1>8. RunAdd(pl, {i})
  BY <1>1, <1>6
<1>9. /\ \E book, w : Adding(pl, {i}, book, w)
      /\ idToEngine' \in [VenueOrderId -> Ids \cup {None}]
  BY <1>5, <1>7, <1>8, AddingFacts
<1> QED
  BY <1>1, <1>5, <1>9 DEF i

LEMMA ReplaceInv ==
    ASSUME Inv, NEW a \in Account, NEW o, NEW t \in Terms, Replace(a, o, t)
    PROVE  Inv'
<1>1. stp' = stp /\ saved' = saved /\ Mint(a)
  BY DEF Replace, outside
<1>2. CASE Rejected
  BY <1>1, <1>2, RejectedInv
<1>3. CASE ~ Rejected
  <2>1. Turn("replace", a, OwnerOf(a)) /\ idempotency' = idempotency /\ status' = status
    BY <1>3, ReplaceRuns
  <2>2. CASE TakeOff({idToEngine[o]})
    BY <1>1, <2>1, <2>2, TakeOffInv
  <2>3. CASE ~ TakeOff({idToEngine[o]})
    <3>1. /\ idToEngine' \in [VenueOrderId -> Ids \cup {None}]
          /\ \E p, book, w : /\ Adding(p, {idToEngine[o]}, book, w)
                             /\ p.owner = OwnerOf(a) /\ p.key = None
      BY <1>3, <2>3, ReplaceRuns
    <3>2. PICK p : \E book, w : Adding(p, {idToEngine[o]}, book, w) /\ p.key = None
      BY <3>1
    <3>3. PICK book : \E w : Adding(p, {idToEngine[o]}, book, w) /\ p.key = None
      BY <3>2
    <3>4. PICK w : Adding(p, {idToEngine[o]}, book, w) /\ p.key = None
      BY <3>3
    <3>5. /\ idempotency' \in [Account \X ClientOrderId -> Entry \cup {None}]
          /\ \A k \in Account \X ClientOrderId : idempotency[k] # None => idempotency'[k] # None
      BY <2>1 DEF Inv, KeysOK
    <3> QED
      BY <1>1, <2>1, <3>1, <3>4, <3>5, AddInv
  <2> QED
    BY <2>2, <2>3
<1> QED
  BY <1>2, <1>3

LEMMA SetInstrumentStatusInv ==
    ASSUME Inv, NEW s \in Symbol, NEW to \in Status, SetInstrumentStatus(s, to)
    PROVE  Inv'
<1>1. stp' = stp /\ saved' = saved /\ minted' = minted
  BY DEF SetInstrumentStatus, outside
<1>2. CASE Rejected
  BY <1>1, <1>2, RejectedInv
<1>3. CASE ~ Rejected
  <2>1. /\ seq <= MaxSeq /\ seq' = seq + 1 /\ leaves' = leaves /\ resting' = resting
        /\ orders' = orders /\ idToEngine' = idToEngine /\ idempotency' = idempotency
        /\ status' = [status EXCEPT ![s] = to]
    BY <1>3 DEF SetInstrumentStatus, Turn, BookUntouched
  <2>2. /\ BookOK(leaves', resting', orders') /\ stp' \in {"None", StpMode}
        /\ status' \in [Symbol -> Status \cup {"Active"}]
        /\ idToEngine' \in [VenueOrderId -> Ids \cup {None}]
    BY <1>1, <2>1 DEF Inv, InvTypes
  <2>3. seq \in Nat /\ KeysOK(orders, idempotency, seq)
    BY DEF Inv, InvTypes
  <2>4. KeysOK(orders', idempotency', seq')
    BY <2>1, <2>3, KeysKept
  <2> QED
    BY <1>1, <2>1, <2>2, <2>4, TurnInv
<1> QED
  BY <1>2, <1>3

\* Sweeps and evictions take orders off, whichever they choose.
LEMMA SweepInv ==
    ASSUME Inv,
           \/ \E a, scope, sides, owners : MassCancel(a, scope, sides, owners)
           \/ \E scope : MassCancelAll(scope)
           \/ Kill
           \/ EvictExpired
    PROVE  Inv'
<1>1. CASE \E a, scope, sides, owners : MassCancel(a, scope, sides, owners)
  <2>1. PICK a, scope, sides, owners : MassCancel(a, scope, sides, owners)
    BY <1>1
  <2> DEFINE gone == {i \in {j \in Registered : LET r == resting[j] IN
                                 r.symbol \in scope /\ r.side \in sides /\ r.owner \in owners
                                     /\ SameAccount(r, a)} : OnLeaf(i, resting[i].symbol)}
  <2>2. /\ Turn("massCancel", a, None) /\ TakeOff(gone) /\ idempotency' = idempotency
        /\ status' = status /\ minted' = minted /\ stp' = stp /\ saved' = saved
    BY <2>1 DEF MassCancel, Sweep, outside
  <2> HIDE DEF gone
  <2> QED
    BY <2>2, TakeOffInv
<1>2. CASE \E scope : MassCancelAll(scope)
  <2>1. PICK scope : MassCancelAll(scope)
    BY <1>2
  <2> DEFINE gone == {i \in {j \in Registered : resting[j].symbol \in scope} :
                         OnLeaf(i, resting[i].symbol)}
  <2>2. /\ Turn("venue", None, None) /\ TakeOff(gone) /\ idempotency' = idempotency
        /\ status' = status /\ minted' = minted /\ stp' = stp /\ saved' = saved
    BY <2>1 DEF MassCancelAll, Sweep, outside
  <2> HIDE DEF gone
  <2> QED
    BY <2>2, TakeOffInv
<1>3. CASE Kill
  <2> DEFINE gone == {i \in {j \in Registered : resting[j].owner = OwnerOf(MarketMaker)} :
                         OnLeaf(i, resting[i].symbol)}
  <2>1. /\ Turn("venue", None, None) /\ TakeOff(gone) /\ idempotency' = idempotency
        /\ status' = status /\ minted' = minted /\ stp' = stp /\ saved' = saved
    BY <1>3 DEF Kill, Sweep, outside
  <2> HIDE DEF gone
  <2> QED
    BY <2>1, TakeOffInv
<1>4. CASE EvictExpired
  <2> DEFINE gone == UNION {{m.id : m \in {x \in leaves[s] : x.tif = "Gtd"}} : s \in Symbol}
  <2>1. /\ Turn("venue", None, None) /\ TakeOff(gone) /\ idempotency' = idempotency
        /\ status' = status /\ minted' = minted /\ stp' = stp /\ saved' = saved
    BY <1>4 DEF EvictExpired, outside
  <2> HIDE DEF gone
  <2> QED
    BY <2>1, TakeOffInv
<1> QED
  BY <1>1, <1>2, <1>3, <1>4

\* A capture reads back every resting order as it is, since the registry names them all.
LEMMA CaptureInv ==
    ASSUME Inv, Capture
    PROVE  Inv'
<1> DEFINE lv == [s \in Symbol |->
                    {[m EXCEPT !.qty = CapturedQuantity(m)] :
                        m \in {x \in leaves[s] : resting[x.id] # None /\ resting[x.id].symbol = s}}]
           rs == [i \in Ids |-> IF resting[i] # None /\ OnLeaf(i, resting[i].symbol)
                                THEN resting[i] ELSE None]
<1>1. /\ saved' = [leaves |-> lv, resting |-> rs, idempotency |-> idempotency,
                   statuses |-> LeafStatus, orders |-> orders, served |-> status]
      /\ UNCHANGED <<leaves, stp, resting, idToEngine, idempotency, status, seq, minted,
                     restarts, orders, last>>
  BY DEF Capture
<1>2. BookOK(leaves, resting, orders) /\ KeysOK(orders, idempotency, seq) /\ InvTypes
  BY DEF Inv
<1>3. lv = leaves
  <2>1. ASSUME NEW s \in Symbol PROVE lv[s] = leaves[s]
    <3>1. {x \in leaves[s] : resting[x.id] # None /\ resting[x.id].symbol = s} = leaves[s]
      BY <1>2 DEF BookOK, Registry
    <3>2. \A m \in leaves[s] : [m EXCEPT !.qty = CapturedQuantity(m)] = m
      <4> SUFFICES ASSUME NEW m \in leaves[s] PROVE [m EXCEPT !.qty = m.qty] = m
        BY DEF CapturedQuantity
      <4>1. m \in LeafOrder
        BY <1>2 DEF BookOK, BookTypes
      <4> QED
        BY <4>1 DEF LeafOrder
    <3>3. lv[s] = {[m EXCEPT !.qty = CapturedQuantity(m)] : m \in leaves[s]}
      BY <3>1
    <3> QED
      BY <3>2, <3>3
  <2>2. leaves \in [Symbol -> SUBSET LeafOrder] /\ lv = [s \in Symbol |-> lv[s]]
    BY <1>2 DEF BookOK, BookTypes
  <2> HIDE DEF lv
  <2> QED
    BY <2>1, <2>2
<1>4. rs = resting
  <2>1. ASSUME NEW i \in Ids, resting[i] # None PROVE OnLeaf(i, resting[i].symbol)
    BY <1>2, <2>1 DEF BookOK, Registry, OnLeaf
  <2>2. resting \in [Ids -> Identity \cup {None}]
    BY <1>2 DEF BookOK, BookTypes
  <2> QED
    BY <2>1, <2>2
<1> HIDE DEF lv, rs
<1>5. /\ saved'.leaves = leaves /\ saved'.resting = resting /\ saved'.orders = orders
      /\ saved'.idempotency = idempotency
  BY <1>1, <1>3, <1>4
<1>6. InvSaved'
  <2>1. /\ BookOK(saved'.leaves, saved'.resting, saved'.orders)
        /\ KeysOK(saved'.orders, saved'.idempotency, seq')
    BY <1>1, <1>2, <1>5
  <2> QED
    BY <2>1 DEF InvSaved, BookOK, KeysOK, BookTypes, Registry, Attribution, Quantities, Uncrossed
<1>7. InvTypes'
  BY <1>1, <1>2 DEF InvTypes
<1>8. BookOK(leaves', resting', orders') /\ KeysOK(orders', idempotency', seq')
  BY <1>1, <1>2
<1> QED
  BY <1>6, <1>7, <1>8 DEF Inv

\* A set of sequence numbers has a greatest one.
LEMMA GreatestId ==
    ASSUME NEW held \in SUBSET Ids, held # {}
    PROVE  \E i \in held : \A j \in held : j <= i
<1> DEFINE N == {MaxSeq - i : i \in held}
<1>1. \A i \in held : i \in Nat /\ i <= MaxSeq /\ MaxSeq \in Nat
  BY Numbers
<1>2. N \in SUBSET Nat /\ N # {}
  BY <1>1
<1> HIDE DEF N
<1>3. PICK n \in N : \A m \in N : n <= m
  BY <1>2, LeastNatural
<1>4. PICK i \in held : n = MaxSeq - i
  BY <1>3 DEF N
<1>5. ASSUME NEW j \in held PROVE j <= i
  <2>1. MaxSeq - j \in N
    BY DEF N
  <2>2. MaxSeq - i <= MaxSeq - j
    BY <1>3, <1>4, <2>1
  <2> QED
    BY <1>1, <2>2
<1> QED
  BY <1>5

\* What a restore brings back was sound when it was captured, and still is.
LEMMA RestoreInv ==
    ASSUME Inv, Restore
    PROVE  Inv'
<1>1. /\ seq <= MaxSeq /\ seq' = seq + 1 /\ saved # None /\ saved' = saved /\ minted' = minted
      /\ leaves' = [s \in Symbol |-> saved.leaves[s]] /\ resting' = saved.resting
      /\ orders' = saved.orders /\ idempotency' = saved.idempotency
      /\ status' = [s \in Symbol |-> "Active"] /\ stp' = "None"
  BY DEF Restore, Turn, Rebuilt
<1>2. /\ BookOK(saved.leaves, saved.resting, saved.orders)
      /\ KeysOK(saved.orders, saved.idempotency, seq) /\ seq \in Nat
  BY <1>1 DEF Inv, InvSaved, InvTypes
<1>3. leaves' = saved.leaves
  BY <1>1, <1>2 DEF BookOK, BookTypes
<1>4. BookOK(leaves', resting', orders')
  BY <1>1, <1>2, <1>3
<1>5. KeysOK(orders', idempotency', seq')
  BY <1>1, <1>2, KeysKept
<1>6. idToEngine' \in [VenueOrderId -> Ids \cup {None}]
  <2> DEFINE held(o) == {i \in Ids : saved.resting[i] # None /\ saved.resting[i].order = o}
             first(o) == IF held(o) = {} THEN None ELSE CHOOSE i \in held(o) : \A j \in held(o) : j <= i
  <2>1. idToEngine' = [o \in VenueOrderId |-> first(o)]
    BY DEF Restore
  <2>2. ASSUME NEW o \in VenueOrderId PROVE first(o) \in Ids \cup {None}
    <3>1. CASE held(o) = {}
      BY <3>1
    <3>2. CASE held(o) # {}
      <4>1. held(o) \in SUBSET Ids
        OBVIOUS
      <4> HIDE DEF held
      <4>2. \E i \in held(o) : \A j \in held(o) : j <= i
        BY <3>2, <4>1, GreatestId
      <4>3. first(o) \in held(o)
        BY <3>2, <4>2
      <4> QED
        BY <4>1, <4>3
    <3> QED
      BY <3>1, <3>2
  <2> HIDE DEF first
  <2> QED
    BY <2>1, <2>2
<1>7. stp' \in {"None", StpMode} /\ status' \in [Symbol -> Status \cup {"Active"}]
  BY <1>1
<1> QED
  BY <1>1, <1>4, <1>5, <1>6, <1>7, TurnInv

LEMMA RestartInv ==
    ASSUME Inv, Restart
    PROVE  Inv'
<1>1. /\ minted' = [minted EXCEPT !["gateway"] = 0] /\ saved' = saved /\ saved = None
      /\ UNCHANGED <<leaves, stp, resting, idToEngine, idempotency, status, seq, orders>>
  BY DEF Restart
<1>2. InvTypes'
  BY <1>1 DEF Inv, InvTypes
<1>3. InvSaved'
  BY <1>1 DEF InvSaved
<1>4. BookOK(leaves', resting', orders') /\ KeysOK(orders', idempotency', seq')
  BY <1>1 DEF Inv
<1> QED
  BY <1>2, <1>3, <1>4 DEF Inv
-----------------------------------------------------------------------------
(* Theorems.                                                                *)

LEMMA InitInv == Init => Inv
<1> SUFFICES ASSUME Init PROVE Inv
  OBVIOUS
<1>1. /\ leaves = [s \in Symbol |-> {}] /\ resting = [i \in Ids |-> None]
      /\ orders = [i \in Ids |-> None] /\ idempotency = [k \in Account \X ClientOrderId |-> None]
      /\ saved = None
  BY DEF Init
<1>2. InvTypes
  <2>1. MaxSeq \in Nat
    BY Numbers
  <2> QED
    BY <2>1 DEF Init, InvTypes
<1>3. InvSaved
  BY <1>1 DEF InvSaved
<1>4. BookTypes(leaves, resting, orders)
  BY <1>1 DEF BookTypes
<1>5. /\ Registry(leaves, resting) /\ Attribution(resting, orders) /\ Quantities(leaves, orders)
      /\ Uncrossed(leaves)
  BY <1>1 DEF Registry, Attribution, Quantities, Uncrossed
<1>6. KeysOK(orders, idempotency, seq)
  BY <1>1 DEF KeysOK
<1> QED
  BY <1>2, <1>3, <1>4, <1>5, <1>6 DEF Inv, BookOK

LEMMA InvStep == Inv /\ [Next]_vars => Inv'
<1> SUFFICES ASSUME Inv, [Next]_vars PROVE Inv'
  OBVIOUS
<1>1. CASE Client
  <2>1. PICK a \in Account :
          \/ \E t \in Terms, key \in (IF a = MarketMaker THEN {} ELSE ClientOrderId) \cup {None} :
                AddOrder(a, t, key)
          \/ \E s \in Symbol, o \in Named : CancelOrder(a, s, o)
          \/ \E o \in Named, t \in Terms : Replace(a, o, t)
          \/ \E scope \in SUBSET Symbol \ {{}} :
                \/ \E side \in Side : MassCancel(a, scope, {side}, Owner)
                \/ \E b \in Account : MassCancel(a, scope, Side, {OwnerOf(b)})
    BY <1>1 DEF Client
  <2>2. ASSUME NEW t \in Terms, NEW key \in (IF a = MarketMaker THEN {} ELSE ClientOrderId) \cup {None},
               AddOrder(a, t, key)
        PROVE  Inv'
    <3>1. key \in ClientOrderId \cup {None}
      OBVIOUS
    <3> QED
      BY <2>2, <3>1, AddOrderInv
  <2>3. ASSUME NEW s, NEW o, CancelOrder(a, s, o) PROVE Inv'
    BY <2>3, CancelOrderInv
  <2>4. ASSUME NEW o, NEW t \in Terms, Replace(a, o, t) PROVE Inv'
    BY <2>4, ReplaceInv
  <2>5. ASSUME NEW scope, NEW sides, NEW owners, MassCancel(a, scope, sides, owners) PROVE Inv'
    BY <2>5, SweepInv
  <2> QED
    BY <2>1, <2>2, <2>3, <2>4, <2>5
<1>2. CASE Venue
  <2>1. ASSUME NEW s \in Symbol, NEW to \in Status, SetInstrumentStatus(s, to) PROVE Inv'
    BY <2>1, SetInstrumentStatusInv
  <2>2. ASSUME NEW scope, MassCancelAll(scope) PROVE Inv'
    BY <2>2, SweepInv
  <2>3. CASE Kill \/ EvictExpired
    BY <2>3, SweepInv
  <2> QED
    BY <1>2, <2>1, <2>2, <2>3 DEF Venue
<1>3. CASE Capture
  BY <1>3, CaptureInv
<1>4. CASE Restore
  BY <1>4, RestoreInv
<1>5. CASE Restart
  BY <1>5, RestartInv
<1>6. CASE UNCHANGED vars
  <2>1. UNCHANGED <<leaves, stp, resting, idToEngine, idempotency, status, seq, minted, saved, orders>>
    BY <1>6 DEF vars
  <2> QED
    BY <2>1 DEF Inv, InvTypes, InvSaved
<1> QED
  BY <1>1, <1>2, <1>3, <1>4, <1>5, <1>6 DEF Next

LEMMA InvAlways == Spec => []Inv
BY InitInv, InvStep, PTL DEF Spec

\* Registry and books never drift, over partial fills, self-trade prevention, sweeps,
\* evictions, captures, restores and restarts: what rests on a leaf is registered there
\* under its own id, what is registered rests, and every maker's leg of a fill goes to the
\* account that placed the maker.
THEOREM RegistryAlwaysSound == Spec => []RegistryIsSound
<1>1. Inv => RegistryIsSound
  <2> SUFFICES ASSUME Inv PROVE RegistryIsSound
    OBVIOUS
  <2>1. BookTypes(leaves, resting, orders) /\ Registry(leaves, resting) /\ Attribution(resting, orders)
    BY DEF Inv, BookOK
  <2>2. TypeOK
    <3>1. \A s \in Symbol : \A m \in leaves[s] : m \in LeafOrder
      BY <2>1 DEF BookTypes
    <3>2. seq \in 0 .. MaxSeq + 1
      BY Numbers DEF Inv, InvTypes
    <3> QED
      BY <2>1, <3>1, <3>2 DEF TypeOK, Inv, InvTypes, BookTypes, KeysOK
  <2>3. RegistryMatchesBook
    BY <2>1 DEF RegistryMatchesBook, Registry, OnLeaf
  <2>4. MakersAttributed
    BY <2>1 DEF MakersAttributed, Attribution
  <2> QED
    BY <2>2, <2>3, <2>4 DEF RegistryIsSound
<1> QED
  BY <1>1, InvAlways, PTL

\* The books hold what was placed less what was filled, nobody is filled beyond it, and no
\* book is left crossed: not by a taker that self-trade prevention stops or a partial fill,
\* nor by a restore onto fresh leaves.
THEOREM BooksAlwaysSound == Spec => []BooksAreSound
<1>1. Inv => BooksAreSound
  <2> SUFFICES ASSUME Inv PROVE BooksAreSound
    OBVIOUS
  <2>1. /\ BookTypes(leaves, resting, orders) /\ Registry(leaves, resting)
        /\ Attribution(resting, orders) /\ Quantities(leaves, orders) /\ Uncrossed(leaves)
    BY DEF Inv, BookOK
  <2>2. ASSUME NEW s \in Symbol, NEW m \in leaves[s]
        PROVE  orders[m.id] # None /\ m.qty = orders[m.id].qty - orders[m.id].filled
    <3>1. m \in LeafOrder
      BY <2>1 DEF BookTypes
    <3>2. m.id \in Ids
      BY <3>1 DEF LeafOrder
    <3>3. resting[m.id] # None
      BY <2>1 DEF Registry
    <3> QED
      BY <2>1, <3>2, <3>3 DEF Attribution, Quantities
  <2>3. QuantityConserved
    BY <2>1, <2>2 DEF QuantityConserved, Quantities
  <2>4. NeverCrossed
    BY <2>1 DEF NeverCrossed, Uncrossed
  <2> QED
    BY <2>3, <2>4 DEF BooksAreSound
<1> QED
  BY <1>1, InvAlways, PTL

\* A client order id opens at most one order of its account, however often it is sent, also
\* when a restore has brought an earlier idempotency map back.
THEOREM KeysOpenOneOrder == Spec => []OneOrderPerKey
<1>1. Inv => OneOrderPerKey
  BY DEF Inv, KeysOK, OneOrderPerKey
<1> QED
  BY <1>1, InvAlways, PTL

\* An order that is gone after a sweep or a cancel was among those taken off.
LEMMA TakeOffReasons ==
    ASSUME Inv, NEW gone, TakeOff(gone), NEW s \in Symbol, NEW m \in leaves[s],
           \A x \in leaves'[s] : x.id # m.id
    PROVE  m.id \in gone /\ m.id \in Ids
<1>1. m.id \in gone
  BY DEF TakeOff
<1>2. m \in LeafOrder
  BY DEF Inv, BookOK, BookTypes
<1> QED
  BY <1>1, <1>2 DEF LeafOrder

\* No step takes an order off its book but for one of the reasons of the property.
LEMMA StepReasons ==
    ASSUME Inv, [Next]_vars, NEW s \in Symbol, NEW m \in leaves[s],
           \A x \in leaves'[s] : x.id # m.id
    PROVE  \/ orders'[m.id] # None /\ orders'[m.id].filled = orders'[m.id].qty
           \/ last'.kind \in {"cancel", "replace", "massCancel"}
                  /\ last'.account = orders[m.id].account
           \/ last'.kind \in {"add", "replace"} /\ last'.owner = m.owner /\ stp # "None"
           \/ last'.kind \in {"venue", "restore"}
<1> DEFINE Goal ==
           \/ orders'[m.id] # None /\ orders'[m.id].filled = orders'[m.id].qty
           \/ last'.kind \in {"cancel", "replace", "massCancel"}
                  /\ last'.account = orders[m.id].account
           \/ last'.kind \in {"add", "replace"} /\ last'.owner = m.owner /\ stp # "None"
           \/ last'.kind \in {"venue", "restore"}
<1> SUFFICES Goal
  OBVIOUS
<1>1. ~ (leaves' = leaves)
  OBVIOUS
<1>2. ~ Rejected /\ ~ BookUntouched
  BY <1>1 DEF Rejected, BookUntouched
<1>3. ASSUME NEW kind, NEW a, NEW owner, Turn(kind, a, owner)
      PROVE  last'.kind = kind /\ last'.account = a /\ last'.owner = owner
  BY <1>3 DEF Turn
<1>4. ASSUME NEW a \in Account, NEW t \in Terms, NEW key \in ClientOrderId \cup {None},
             AddOrder(a, t, key)
      PROVE  Goal
  <2>1. /\ Turn("add", a, OwnerOf(a))
        /\ \E o, book, w : Adding(o, {}, book, w) /\ o.owner = OwnerOf(a)
    BY <1>2, <1>4, AddOrderRuns
  <2>2. PICK o : \E book, w : Adding(o, {}, book, w) /\ o.owner = OwnerOf(a)
    BY <2>1
  <2>3. PICK book : \E w : Adding(o, {}, book, w) /\ o.owner = OwnerOf(a)
    BY <2>2
  <2>4. PICK w : Adding(o, {}, book, w) /\ o.owner = OwnerOf(a)
    BY <2>3
  <2>5. \/ orders'[m.id] # None /\ orders'[m.id].filled = orders'[m.id].qty
        \/ m.owner = OwnerOf(a) /\ stp # "None"
    BY <2>4, AddReasons
  <2> QED
    BY <1>3, <2>1, <2>5
<1>5. ASSUME NEW a, NEW y \in Symbol, NEW o, CancelOrder(a, y, o) PROVE Goal
  <2>1. /\ Cancellable(a, y, o) /\ Turn("cancel", a, OwnerOf(a)) /\ TakeOff({idToEngine[o]})
    BY <1>2, <1>5 DEF CancelOrder
  <2>2. m.id = idToEngine[o]
    BY <2>1, TakeOffReasons
  <2>3. orders[m.id].account = a
    BY <2>1, <2>2, CancellableFacts
  <2> QED
    BY <1>3, <2>1, <2>3
<1>6. ASSUME NEW a \in Account, NEW o, NEW t \in Terms, Replace(a, o, t) PROVE Goal
  <2>1. Turn("replace", a, OwnerOf(a)) /\ Cancellable(a, t.symbol, o) /\ t.symbol \in Symbol
    BY <1>2, <1>6, ReplaceRuns DEF Terms
  <2>2. orders[idToEngine[o]].account = a
    BY <2>1, CancellableFacts
  <2>3. CASE TakeOff({idToEngine[o]})
    <3>1. m.id = idToEngine[o]
      BY <2>3, TakeOffReasons
    <3> QED
      BY <1>3, <2>1, <2>2, <3>1
  <2>4. CASE ~ TakeOff({idToEngine[o]})
    <3>1. \E p, book, w : Adding(p, {idToEngine[o]}, book, w) /\ p.owner = OwnerOf(a)
      BY <1>2, <1>6, <2>4, ReplaceRuns
    <3>2. PICK p : \E book, w : Adding(p, {idToEngine[o]}, book, w) /\ p.owner = OwnerOf(a)
      BY <3>1
    <3>3. PICK book : \E w : Adding(p, {idToEngine[o]}, book, w) /\ p.owner = OwnerOf(a)
      BY <3>2
    <3>4. PICK w : Adding(p, {idToEngine[o]}, book, w) /\ p.owner = OwnerOf(a)
      BY <3>3
    <3>5. \/ orders'[m.id] # None /\ orders'[m.id].filled = orders'[m.id].qty
          \/ m.id = idToEngine[o]
          \/ m.owner = OwnerOf(a) /\ stp # "None"
      BY <3>4, AddReasons
    <3> QED
      BY <1>3, <2>1, <2>2, <3>5
  <2> QED
    BY <2>3, <2>4
<1>7. ASSUME NEW a, NEW scope, NEW sides, NEW owners, MassCancel(a, scope, sides, owners)
      PROVE  Goal
  <2> DEFINE gone == {i \in {j \in Registered : LET r == resting[j] IN
                                 r.symbol \in scope /\ r.side \in sides /\ r.owner \in owners
                                     /\ SameAccount(r, a)} : OnLeaf(i, resting[i].symbol)}
  <2>1. Turn("massCancel", a, None) /\ TakeOff(gone)
    BY <1>7 DEF MassCancel, Sweep
  <2>2. \A i \in gone : i \in Ids /\ resting[i] # None /\ resting[i].account = a
    BY DEF Registered, SameAccount
  <2> HIDE DEF gone
  <2>3. m.id \in gone
    BY <2>1, TakeOffReasons
  <2>4. orders[m.id].account = a
    BY <2>2, <2>3 DEF Inv, BookOK, Attribution
  <2> QED
    BY <1>3, <2>1, <2>4
<1>8. CASE Client
  <2>1. PICK a \in Account :
          \/ \E t \in Terms, key \in (IF a = MarketMaker THEN {} ELSE ClientOrderId) \cup {None} :
                AddOrder(a, t, key)
          \/ \E y \in Symbol, o \in Named : CancelOrder(a, y, o)
          \/ \E o \in Named, t \in Terms : Replace(a, o, t)
          \/ \E scope \in SUBSET Symbol \ {{}} :
                \/ \E side \in Side : MassCancel(a, scope, {side}, Owner)
                \/ \E b \in Account : MassCancel(a, scope, Side, {OwnerOf(b)})
    BY <1>8 DEF Client
  <2>2. \A key \in (IF a = MarketMaker THEN {} ELSE ClientOrderId) \cup {None} :
           key \in ClientOrderId \cup {None}
    OBVIOUS
  <2> HIDE DEF Goal
  <2>3. ASSUME NEW t \in Terms, NEW key \in (IF a = MarketMaker THEN {} ELSE ClientOrderId) \cup {None},
               AddOrder(a, t, key)
        PROVE  Goal
    BY <1>4, <2>2, <2>3
  <2>4. ASSUME NEW y \in Symbol, NEW o, CancelOrder(a, y, o) PROVE Goal
    BY <1>5, <2>4
  <2>5. ASSUME NEW o, NEW t \in Terms, Replace(a, o, t) PROVE Goal
    BY <1>6, <2>5
  <2>6. ASSUME NEW scope, NEW sides, NEW owners, MassCancel(a, scope, sides, owners) PROVE Goal
    BY <1>7, <2>6
  <2> QED
    BY <2>1, <2>3, <2>4, <2>5, <2>6
<1>9. CASE Venue
  <2>1. ASSUME NEW y, NEW to, SetInstrumentStatus(y, to) PROVE FALSE
    BY <1>2, <2>1 DEF SetInstrumentStatus
  <2>2. ASSUME NEW scope, MassCancelAll(scope) PROVE last'.kind = "venue"
    BY <1>3, <2>2 DEF MassCancelAll
  <2>3. ASSUME Kill \/ EvictExpired PROVE last'.kind = "venue"
    BY <1>3, <2>3 DEF Kill, EvictExpired
  <2>4. last'.kind = "venue" => Goal
    OBVIOUS
  <2> HIDE DEF Goal
  <2> QED
    BY <1>9, <2>4, <2>1, <2>2, <2>3 DEF Venue
<1>10. CASE Restore
  BY <1>3, <1>10 DEF Restore
<1>11. CASE Capture \/ Restart \/ UNCHANGED vars
  BY <1>1, <1>11 DEF Capture, Restart, vars
<1> HIDE DEF Goal
<1> QED
  BY <1>8, <1>9, <1>10, <1>11 DEF Next

\* An order leaves its book filled, by its own account's cancel, replace or sweep, by
\* self-trade prevention of its own owner, or by the venue: never by another account's
\* command, whatever ids that account names.
THEOREM OrdersLeaveForAReason == Spec => RemovedForAReason
<1>1. Inv /\ [Next]_vars =>
        [\A s \in Symbol : \A m \in leaves[s] :
           (\A x \in leaves'[s] : x.id # m.id) =>
              \/ orders'[m.id] # None /\ orders'[m.id].filled = orders'[m.id].qty
              \/ last'.kind \in {"cancel", "replace", "massCancel"}
                     /\ last'.account = orders[m.id].account
              \/ last'.kind \in {"add", "replace"} /\ last'.owner = m.owner /\ stp # "None"
              \/ last'.kind \in {"venue", "restore"}]_vars
  BY StepReasons
<1> QED
  BY <1>1, InvAlways, PTL DEF Spec, RemovedForAReason
=============================================================================
