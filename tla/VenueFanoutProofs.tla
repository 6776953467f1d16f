-------------------------- MODULE VenueFanoutProofs --------------------------
(***************************************************************************)
(* Machine-checked facts about VenueFanout, for every set of underlyings   *)
(* and contracts and every day: the fan-out's summary and the expiry roll. *)
(***************************************************************************)
EXTENDS VenueFanout, FiniteSetTheorems, TLAPS

-----------------------------------------------------------------------------
(* The inductive invariant. The properties speak of a command that has      *)
(* ended; the invariant says how far one in progress has come.              *)

StatusCommand(s, to) == [kind |-> "status", symbol |-> s, to |-> to]

\* What a group of the expiry roll is made of.
RollCommand == {StatusCommand(s, to) : s \in Symbol, to \in {"Settling", "Expired"}}
                 \cup {[kind |-> "sweep"]}

\* The change of status is still to be submitted.
Ordered(s, to) == StatusCommand(s, to) \in Range(roll.todo)

\* The types the model's TypeOK leaves to the operations.
InvTypes ==
    /\ DOMAIN roll = {"todo", "target", "symbols", "groups", "on"}
    /\ roll.todo \in Seq(RollCommand)
    /\ roll.todo # <<>> => roll.on /\ roll.groups # <<>>
    /\ \A u \in Underlying : covered[u] \subseteq Of(u)

FanType == [kind : {"none", "sweep", "other"}, todo : Seq(Underlying),
            ok : SUBSET Underlying, bad : SUBSET Underlying, old : SUBSET Symbol]

\* The accounts of a fan-out: no underlying is forgotten, asked twice or counted twice.
FanAsks(f) ==
    IF f.kind = "none" THEN f.todo = <<>> /\ f.ok = {}
    ELSE
      /\ Len(f.todo) + Cardinality(f.ok) + Cardinality(f.bad) = Len(Tickers)
      /\ (f.ok \cup f.bad) \cap Range(f.todo) = {} /\ f.ok \cap f.bad = {}
      /\ f.ok \cup f.bad \cup Range(f.todo) = Underlying

\* What a mass cancel has found and not taken is on an underlying that has refused it or has
\* not been asked.
FanTakes(f) ==
    f.kind = "sweep" => \A s \in f.old : UnderlyingOf[s] \in f.bad \cup Range(f.todo)

GoodFan(f) ==
    /\ f \in FanType
    /\ IsFiniteSet(f.ok) /\ IsFiniteSet(f.bad) /\ IsInjective(f.todo)
    /\ FanAsks(f) /\ FanTakes(f)

\* Every fan-out under way, or ended.
InvFan ==
    /\ fan \in [Task -> FanType]
    /\ \A c \in Task : GoodFan(fan[c]) /\ fan[c].old \subseteq live

\* The roll's own fan-out is the sweep of the group it has begun.
InvSweep ==
    fan[TheRoll].kind # "none" =>
      fan[TheRoll].kind = "sweep" /\ roll.todo # <<>> /\ Head(roll.todo).kind = "sweep"

\* A group in progress: each contract is in the status of the target, or is about to be.
InvClosing ==
    roll.todo # <<>> => \A s \in Mine :
      /\ roll.target = Settling => status[s] \in {"Settling", "Expired"} \/ Ordered(s, "Settling")
      /\ roll.target = Expired => status[s] = "Expired" \/ Ordered(s, "Expired")

\* From the sweep on, whatever rests on the underlying of the group is exposed.
InvSwept ==
    /\ \A u \in Underlying : phase[u] >= Settling => live \cap Of(u) \subseteq exposed
    /\ roll.todo # <<>> /\ (Head(roll.todo).kind # "sweep" \/ Group \in fan[TheRoll].ok) =>
         live \cap Of(Group) \subseteq exposed

Inv == TypeOK /\ InvTypes /\ InvFan /\ InvSweep /\ RolledIsClosed /\ InvClosing /\ InvSwept

-----------------------------------------------------------------------------
(* Sequences.                                                               *)

\* The first element leaves a sequence.
LEMMA TailFacts ==
    ASSUME NEW S, NEW q \in Seq(S), q # <<>>
    PROVE  /\ Tail(q) \in Seq(S) /\ Len(Tail(q)) = Len(q) - 1 /\ Len(q) \in Nat
           /\ Head(q) \in S
           /\ Range(q) = {Head(q)} \cup Range(Tail(q))
           /\ IsInjective(q) => IsInjective(Tail(q)) /\ Head(q) \notin Range(Tail(q))
<1> DEFINE t == Tail(q)
           h == Head(q)
<1>1. /\ t \in Seq(S) /\ Len(t) = Len(q) - 1 /\ Len(q) \in Nat /\ Len(q) # 0
      /\ DOMAIN t = 1 .. Len(q) - 1 /\ DOMAIN q = 1 .. Len(q)
      /\ h = q[1] /\ h \in S /\ \A i \in 1 .. Len(q) - 1 : t[i] = q[i + 1]
  OBVIOUS
<1> HIDE DEF t, h
<1>2. ASSUME NEW x \in Range(q), x # h PROVE x \in Range(t)
  <2>1. PICK i \in 1 .. Len(q) : x = q[i]
    BY <1>1 DEF Range
  <2>2. i - 1 \in 1 .. Len(q) - 1 /\ x = t[i - 1]
    BY <1>1, <1>2, <2>1
  <2> QED
    BY <1>1, <2>2 DEF Range
<1>3. ASSUME NEW x \in Range(t) PROVE \E i \in 2 .. Len(q) : x = q[i]
  <2>1. PICK i \in 1 .. Len(q) - 1 : x = t[i]
    BY <1>1 DEF Range
  <2>2. i + 1 \in 2 .. Len(q) /\ x = q[i + 1]
    BY <1>1, <2>1
  <2> QED
    BY <2>2
<1>4. Range(q) = {h} \cup Range(t)
  <2>1. h \in Range(q)
    BY <1>1 DEF Range
  <2>2. \A x \in Range(t) : x \in Range(q)
    BY <1>1, <1>3 DEF Range
  <2> QED
    BY <1>2, <2>1, <2>2
<1>5. ASSUME IsInjective(q) PROVE IsInjective(t) /\ h \notin Range(t)
  <2>1. IsInjective(t)
    <3> SUFFICES ASSUME NEW i \in 1 .. Len(q) - 1, NEW j \in 1 .. Len(q) - 1, t[i] = t[j]
                 PROVE  i = j
      BY <1>1 DEF IsInjective
    <3>1. i + 1 \in DOMAIN q /\ j + 1 \in DOMAIN q /\ q[i + 1] = q[j + 1]
      BY <1>1
    <3>2. i + 1 = j + 1
      BY <1>5, <3>1 DEF IsInjective
    <3> QED
      BY <3>2
  <2>2. h \notin Range(t)
    BY <1>1, <1>3, <1>5 DEF IsInjective
  <2> QED
    BY <2>1, <2>2
<1> QED
  BY <1>1, <1>4, <1>5 DEF t, h

\* SetToSeq enumerates a finite set.
LEMMA SetToSeqEnumerates ==
    ASSUME NEW S, IsFiniteSet(S)
    PROVE  /\ SetToSeq(S) \in [1 .. Cardinality(S) -> S] /\ Cardinality(S) \in Nat
           /\ Range(SetToSeq(S)) = S
<1> DEFINE n == Cardinality(S)
           f == SetToSeq(S)
<1>1. n \in Nat /\ ExistsBijection(1 .. n, S)
  BY FS_CardinalityType
<1>2. \E g \in [1 .. n -> S] : IsInjective(g)
  BY <1>1 DEF ExistsBijection, Bijection, Injection, IsInjective
<1>3. f \in [1 .. n -> S] /\ IsInjective(f)
  BY <1>2 DEF SetToSeq
<1>4. f \in Injection(1 .. n, S)
  BY <1>3 DEF Injection, IsInjective
<1>5. Cardinality(1 .. n) = n
  BY <1>1, FS_Interval
<1>6. f \in Surjection(1 .. n, S)
  BY <1>4, <1>5, FS_Injection
<1>7. Range(f) = S
  BY <1>3, <1>6 DEF Surjection, Range
<1> QED
  BY <1>1, <1>3, <1>7

\* What a concatenation holds.
LEMMA ConcatFacts ==
    ASSUME NEW S, NEW p \in Seq(S), NEW q \in Seq(S)
    PROVE  /\ p \o q \in Seq(S) /\ Range(p \o q) = Range(p) \cup Range(q)
           /\ p # <<>> => p \o q # <<>> /\ Head(p \o q) = Head(p)
<1> DEFINE r == p \o q
<1>1. /\ r \in Seq(S) /\ Len(r) = Len(p) + Len(q) /\ Len(p) \in Nat /\ Len(q) \in Nat
      /\ DOMAIN r = 1 .. Len(p) + Len(q) /\ DOMAIN p = 1 .. Len(p) /\ DOMAIN q = 1 .. Len(q)
      /\ \A i \in 1 .. Len(p) : r[i] = p[i]
      /\ \A i \in 1 .. Len(q) : r[Len(p) + i] = q[i]
  OBVIOUS
<1> HIDE DEF r
<1>2. ASSUME NEW x \in Range(r) PROVE x \in Range(p) \cup Range(q)
  <2>1. PICK i \in 1 .. Len(p) + Len(q) : x = r[i]
    BY <1>1 DEF Range
  <2>2. CASE i <= Len(p)
    BY <1>1, <2>1, <2>2 DEF Range
  <2>3. CASE i > Len(p)
    <3>1. i - Len(p) \in 1 .. Len(q) /\ Len(p) + (i - Len(p)) = i
      BY <1>1, <2>1, <2>3
    <3> QED
      BY <1>1, <2>1, <3>1 DEF Range
  <2> QED
    BY <1>1, <2>1, <2>2, <2>3
<1>3. ASSUME NEW x \in Range(p) PROVE x \in Range(r)
  BY <1>1 DEF Range
<1>4. ASSUME NEW x \in Range(q) PROVE x \in Range(r)
  <2>1. PICK i \in 1 .. Len(q) : x = q[i]
    BY <1>1 DEF Range
  <2>2. Len(p) + i \in 1 .. Len(p) + Len(q)
    BY <1>1, <2>1
  <2> QED
    BY <1>1, <2>1, <2>2 DEF Range
<1>5. ASSUME p # <<>> PROVE r # <<>> /\ Head(r) = Head(p)
  BY <1>1, <1>5
<1> QED
  BY <1>1, <1>2, <1>3, <1>4, <1>5 DEF r
-----------------------------------------------------------------------------
(* The commands of a group.                                                 *)

\* One command per contract.
LEMMA LegsFacts ==
    ASSUME NEW symbols \in SUBSET Symbol, NEW to \in {"Settling", "Expired"}
    PROVE  /\ Legs(symbols, to) \in Seq(RollCommand)
           /\ \A s \in symbols : StatusCommand(s, to) \in Range(Legs(symbols, to))
<1> DEFINE order == SetToSeq(symbols)
           q == Legs(symbols, to)
<1>1. IsFiniteSet(symbols)
  BY FanoutAssumption, FS_Subset
<1>2. /\ order \in [1 .. Cardinality(symbols) -> symbols] /\ Cardinality(symbols) \in Nat
      /\ Range(order) = symbols
  BY <1>1, SetToSeqEnumerates
<1>3. q = [i \in 1 .. Cardinality(symbols) |-> StatusCommand(order[i], to)]
  BY <1>2 DEF Legs, StatusCommand
<1> HIDE DEF order, q
<1>4. \A i \in 1 .. Cardinality(symbols) : StatusCommand(order[i], to) \in RollCommand
  BY <1>2 DEF RollCommand
<1>5. q \in Seq(RollCommand)
  BY <1>2, <1>3, <1>4
<1>6. ASSUME NEW s \in symbols PROVE StatusCommand(s, to) \in Range(q)
  <2>1. PICK i \in 1 .. Cardinality(symbols) : order[i] = s
    BY <1>2, <1>6 DEF Range
  <2> QED
    BY <1>3, <2>1 DEF Range
<1> QED
  BY <1>5, <1>6 DEF q

\* The group's commands: the sweep first and a leg Settling per contract when the group was
\* before its expiry, a leg Expired per contract when it is to end there.
LEMMA TransitionFacts ==
    ASSUME NEW symbols \in SUBSET Symbol, NEW from, NEW to \in PreExpiry .. Expired
    PROVE  LET todo == TransitionCommands(symbols, from, to) IN
           /\ todo \in Seq(RollCommand)
           /\ from < Settling =>
                /\ todo # <<>> /\ Head(todo).kind = "sweep"
                /\ \A s \in symbols : StatusCommand(s, "Settling") \in Range(todo)
           /\ to = Expired => \A s \in symbols : StatusCommand(s, "Expired") \in Range(todo)
<1> DEFINE todo == TransitionCommands(symbols, from, to)
           sweep == <<[kind |-> "sweep"]>>
           s1 == Legs(symbols, "Settling")
           s2 == Legs(symbols, "Expired")
           first == IF from < Settling THEN sweep \o s1 ELSE <<>>
           second == IF to >= Expired THEN s2 ELSE <<>>
<1>1. todo = first \o second
  BY DEF TransitionCommands
<1>2. sweep \in Seq(RollCommand) /\ sweep # <<>> /\ Head(sweep).kind = "sweep"
  BY DEF RollCommand
<1>3. /\ s1 \in Seq(RollCommand) /\ s2 \in Seq(RollCommand)
      /\ \A s \in symbols : StatusCommand(s, "Settling") \in Range(s1)
      /\ \A s \in symbols : StatusCommand(s, "Expired") \in Range(s2)
  BY LegsFacts
<1> HIDE DEF sweep, s1, s2
<1>4. sweep \o s1 \in Seq(RollCommand) /\ Range(s1) \subseteq Range(sweep \o s1)
      /\ sweep \o s1 # <<>> /\ Head(sweep \o s1) = Head(sweep)
  BY <1>2, <1>3, ConcatFacts
<1>5. first \in Seq(RollCommand) /\ second \in Seq(RollCommand)
  BY <1>3, <1>4
<1> HIDE DEF first, second, todo
<1>6. /\ todo \in Seq(RollCommand) /\ Range(todo) = Range(first) \cup Range(second)
      /\ first # <<>> => todo # <<>> /\ Head(todo) = Head(first)
  BY <1>1, <1>5, ConcatFacts
<1>7. ASSUME from < Settling
      PROVE  /\ todo # <<>> /\ Head(todo).kind = "sweep"
             /\ \A s \in symbols : StatusCommand(s, "Settling") \in Range(todo)
  <2>1. first = sweep \o s1
    BY <1>7 DEF first
  <2> QED
    BY <1>2, <1>3, <1>4, <1>6, <2>1
<1>8. ASSUME to = Expired
      PROVE  \A s \in symbols : StatusCommand(s, "Expired") \in Range(todo)
  <2>1. second = s2
    BY <1>8 DEF Expired, second
  <2> QED
    BY <1>3, <1>6, <2>1
<1> QED
  BY <1>6, <1>7, <1>8 DEF todo
-----------------------------------------------------------------------------
(* What a step leaves alone.                                                *)

\* Every contract has a hosted underlying.
LEMMA Hosted == UnderlyingOf \in [Symbol -> Underlying]
BY FanoutAssumption DEF Underlying

\* A status that has left Active and Halted never returns, whatever is committed.
LEMMA CommitKeepsClosed ==
    ASSUME TypeOK, NEW s \in Symbol, NEW to \in Statuses, Commit(StatusCommand(s, to))
    PROVE  /\ status' \in [Symbol -> Statuses] /\ listed' = listed \cup {s}
           /\ UNCHANGED <<live, exposed>>
           /\ \A x \in Symbol :
                /\ status[x] \in {"Settling", "Expired"} => status'[x] \in {"Settling", "Expired"}
                /\ status[x] = "Expired" => status'[x] = "Expired"
           /\ to = "Settling" => status'[s] \in {"Settling", "Expired"}
           /\ to = "Expired" => status'[s] = "Expired"
<1>1. status \in [Symbol -> Statuses]
  BY DEF TypeOK
<1>2. /\ status' = IF CanTransition(status[s], to) THEN [status EXCEPT ![s] = to] ELSE status
      /\ listed' = listed \cup {s} /\ UNCHANGED <<live, exposed>>
  BY DEF Commit, StatusCommand
<1>3. \A x \in Symbol \ {s} : status'[x] = status[x]
  BY <1>1, <1>2
<1>4. status'[s] = IF CanTransition(status[s], to) THEN to ELSE status[s]
  BY <1>1, <1>2
<1>5. status[s] \in Statuses
  BY <1>1
<1> QED
  BY <1>1, <1>2, <1>3, <1>4, <1>5 DEF CanTransition, Statuses

\* A step that submits nothing of the roll keeps what is closed closed, if no closed
\* status changes.
LEMMA KeepClosed ==
    ASSUME Inv, UNCHANGED <<phase, covered, roll>>,
           \A x \in Symbol :
             /\ status[x] \in {"Settling", "Expired"} => status'[x] \in {"Settling", "Expired"}
             /\ status[x] = "Expired" => status'[x] = "Expired"
    PROVE  RolledIsClosed' /\ InvClosing'
<1>1. Mine' = Mine /\ Mine \subseteq Symbol
  BY DEF Mine, Group, Of
<1>2. InvClosing'
  BY <1>1 DEF Inv, InvClosing, Ordered
<1>3. RolledIsClosed'
  BY DEF Inv, RolledIsClosed, TypeOK
<1> QED
  BY <1>2, <1>3

\* A step that submits nothing of the roll and adds no order keeps the rolled books swept.
LEMMA KeepSwept ==
    ASSUME Inv, UNCHANGED <<phase, roll>>, fan'[TheRoll].ok \subseteq fan[TheRoll].ok,
           live' \ exposed' \subseteq live \ exposed
    PROVE  InvSwept'
<1>1. \A u : Of(u)' = Of(u)
  BY DEF Of
<1>2. Group' = Group
  BY DEF Group
<1> QED
  BY <1>1, <1>2 DEF Inv, InvSwept

\* A step that touches no fan-out and takes no order keeps them.
LEMMA KeepFan ==
    ASSUME Inv, UNCHANGED <<fan, roll>>, live \subseteq live'
    PROVE  InvFan' /\ InvSweep' /\ fan'[TheRoll].ok = fan[TheRoll].ok
<1>1. InvFan'
  BY DEF Inv, InvFan
<1>2. InvSweep'
  BY DEF Inv, InvSweep
<1> QED
  BY <1>1, <1>2

\* The parts of TypeOK and InvTypes a step outside the roll keeps.
LEMMA KeepTypes ==
    ASSUME Inv, UNCHANGED <<now, phase, covered, roll>>,
           status' \in [Symbol -> Statuses], listed \subseteq listed', listed' \subseteq Symbol,
           live' \subseteq listed', exposed' \subseteq live'
    PROVE  TypeOK' /\ InvTypes'
<1>1. covered' \in [Underlying -> SUBSET listed']
  BY DEF Inv, TypeOK
<1>2. roll'.symbols \subseteq listed'
  BY DEF Inv, TypeOK
<1>3. TypeOK'
  BY <1>1, <1>2 DEF Inv, TypeOK
<1>4. InvTypes'
  BY DEF Inv, InvTypes, Of
<1> QED
  BY <1>3, <1>4

-----------------------------------------------------------------------------
(* The accounts of one fan-out.                                             *)

\* A fan-out that has not begun.
LEMMA GoodNone == GoodFan(NoFan) /\ NoFan.kind = "none" /\ NoFan.old = {} /\ NoFan \in FanType
BY FS_EmptySet DEF GoodFan, FanType, FanAsks, FanTakes, NoFan, IsInjective

\* A fan-out starts with every underlying to ask.
LEMMA GoodFresh ==
    ASSUME Inv, NEW kind \in {"sweep", "other"}
    PROVE  /\ GoodFan(Fresh(kind)) /\ Fresh(kind).old \subseteq live
           /\ Fresh(kind).kind = kind /\ Fresh(kind).ok = {}
<1> DEFINE f == Fresh(kind)
<1>1. /\ f.kind = kind /\ f.todo = Tickers /\ f.ok = {} /\ f.bad = {}
      /\ f.old \subseteq live
  BY DEF Fresh
<1>2. Tickers \in Seq(Underlying) /\ IsInjective(Tickers) /\ Range(Tickers) = Underlying
  BY FanoutAssumption DEF Underlying, Range
<1>3. IsFiniteSet({}) /\ Cardinality({}) = 0 /\ Len(Tickers) \in Nat
  BY FS_EmptySet, FanoutAssumption
<1>4. f \in FanType
  BY <1>2 DEF Fresh, FanType, Inv, TypeOK
<1>5. \A s \in f.old : UnderlyingOf[s] \in Underlying
  BY <1>1, Hosted DEF Inv, TypeOK
<1> HIDE DEF f
<1>6. FanAsks(f)
  BY <1>1, <1>2, <1>3 DEF FanAsks
<1>7. FanTakes(f)
  BY <1>1, <1>2, <1>5 DEF FanTakes
<1>8. GoodFan(f)
  BY <1>1, <1>2, <1>3, <1>4, <1>6, <1>7 DEF GoodFan
<1> QED
  BY <1>1, <1>8 DEF f

\* Orders that leave a book leave what a mass cancel has still to take.
LEMMA GoodShrink ==
    ASSUME NEW f, GoodFan(f), NEW gone
    PROVE  LET g == [f EXCEPT !.old = @ \ gone] IN
           /\ GoodFan(g) /\ g.kind = f.kind /\ g.todo = f.todo /\ g.ok = f.ok /\ g.bad = f.bad
           /\ g.old = f.old \ gone
<1> DEFINE g == [f EXCEPT !.old = @ \ gone]
<1>1. /\ g.kind = f.kind /\ g.todo = f.todo /\ g.ok = f.ok /\ g.bad = f.bad
      /\ g.old = f.old \ gone /\ g \in FanType
  BY DEF GoodFan, FanType
<1> HIDE DEF g
<1> QED
  BY <1>1 DEF GoodFan, FanAsks, FanTakes, g

\* One more answer, of either kind. A mass cancel that is committed leaves no order it has
\* found on the underlying.
LEMMA GoodAnswer ==
    ASSUME NEW f, GoodFan(f), f.todo # <<>>, NEW g,
           \/ /\ g = [f EXCEPT !.todo = Tail(f.todo), !.ok = f.ok \cup {Head(f.todo)}]
              /\ f.kind = "sweep" => \A s \in f.old : UnderlyingOf[s] # Head(f.todo)
           \/ g = [f EXCEPT !.todo = Tail(f.todo), !.bad = f.bad \cup {Head(f.todo)}]
    PROVE  GoodFan(g) /\ g.kind = f.kind /\ g.old = f.old
<1> DEFINE u == Head(f.todo)
           t == Tail(f.todo)
<1>1. /\ f \in FanType /\ f.todo \in Seq(Underlying)
      /\ IsFiniteSet(f.ok) /\ IsFiniteSet(f.bad) /\ IsInjective(f.todo)
      /\ FanAsks(f) /\ FanTakes(f)
  BY DEF GoodFan, FanType
<1>2. /\ t \in Seq(Underlying) /\ Len(t) = Len(f.todo) - 1
      /\ Len(f.todo) \in Nat /\ u \in Underlying
      /\ Range(f.todo) = {u} \cup Range(t)
      /\ IsInjective(t) /\ u \notin Range(t)
  BY <1>1, TailFacts
<1> HIDE DEF u, t
<1>3. \/ /\ g = [f EXCEPT !.todo = t, !.ok = f.ok \cup {u}]
         /\ f.kind = "sweep" => \A s \in f.old : UnderlyingOf[s] # u
      \/ g = [f EXCEPT !.todo = t, !.bad = f.bad \cup {u}]
  BY DEF u, t
<1>4. /\ g \in FanType /\ g.kind = f.kind /\ g.todo = t /\ g.old = f.old
      /\ \/ g.ok = f.ok \cup {u} /\ g.bad = f.bad /\ (f.kind = "sweep" => \A s \in f.old : UnderlyingOf[s] # u)
         \/ g.ok = f.ok /\ g.bad = f.bad \cup {u}
  <2>1. CASE /\ g = [f EXCEPT !.todo = t, !.ok = f.ok \cup {u}]
             /\ f.kind = "sweep" => \A s \in f.old : UnderlyingOf[s] # u
    BY <1>1, <1>2, <2>1 DEF FanType
  <2>2. CASE g = [f EXCEPT !.todo = t, !.bad = f.bad \cup {u}]
    BY <1>1, <1>2, <2>2 DEF FanType
  <2> QED
    BY <1>3, <2>1, <2>2
<1>5. /\ IsFiniteSet(f.ok \cup {u}) /\ IsFiniteSet(f.bad \cup {u})
      /\ Cardinality(f.ok) \in Nat /\ Cardinality(f.bad) \in Nat
      /\ u \notin f.ok => Cardinality(f.ok \cup {u}) = Cardinality(f.ok) + 1
      /\ u \notin f.bad => Cardinality(f.bad \cup {u}) = Cardinality(f.bad) + 1
  BY <1>1, FS_AddElement, FS_CardinalityType
<1>6. IsFiniteSet(g.ok) /\ IsFiniteSet(g.bad)
  BY <1>1, <1>4, <1>5
<1>7. FanAsks(g)
  <2>0. g.kind # "none"
    BY <1>1, <1>4 DEF FanAsks
  <2>1. /\ Len(f.todo) + Cardinality(f.ok) + Cardinality(f.bad) = Len(Tickers)
        /\ (f.ok \cup f.bad) \cap Range(f.todo) = {} /\ f.ok \cap f.bad = {}
        /\ f.ok \cup f.bad \cup Range(f.todo) = Underlying
    BY <1>1, <1>4, <2>0 DEF FanAsks
  <2>2. u \notin f.ok /\ u \notin f.bad
    BY <1>2, <2>1
  <2>3. Len(g.todo) + Cardinality(g.ok) + Cardinality(g.bad) = Len(Tickers)
    <3>1. CASE g.ok = f.ok \cup {u} /\ g.bad = f.bad
      BY <1>2, <1>4, <1>5, <2>1, <2>2, <3>1
    <3>2. CASE g.ok = f.ok /\ g.bad = f.bad \cup {u}
      BY <1>2, <1>4, <1>5, <2>1, <2>2, <3>2
    <3> QED
      BY <1>4, <3>1, <3>2
  <2>4. (g.ok \cup g.bad) \cap Range(g.todo) = {} /\ g.ok \cap g.bad = {}
    BY <1>2, <1>4, <2>1, <2>2
  <2>5. g.ok \cup g.bad \cup Range(g.todo) = Underlying
    BY <1>2, <1>4, <2>1
  <2> QED
    BY <2>0, <2>3, <2>4, <2>5 DEF FanAsks
<1>8. FanTakes(g)
  BY <1>1, <1>2, <1>4 DEF FanTakes
<1> QED
  BY <1>2, <1>4, <1>6, <1>7, <1>8 DEF GoodFan

\* The fan-outs when orders leave the books.
LEMMA ShrunkFans ==
    ASSUME Inv, NEW gone
    PROVE  LET w == WithoutOld(gone) IN
           /\ w \in [Task -> FanType]
           /\ \A c \in Task :
                /\ GoodFan(w[c]) /\ w[c].old = fan[c].old \ gone
                /\ w[c].kind = fan[c].kind /\ w[c].todo = fan[c].todo
                /\ w[c].ok = fan[c].ok /\ w[c].bad = fan[c].bad
<1> DEFINE w == WithoutOld(gone)
<1>1. ASSUME NEW c \in Task
      PROVE  /\ GoodFan(w[c]) /\ w[c].old = fan[c].old \ gone
             /\ w[c].kind = fan[c].kind /\ w[c].todo = fan[c].todo
             /\ w[c].ok = fan[c].ok /\ w[c].bad = fan[c].bad
  <2>1. w[c] = [fan[c] EXCEPT !.old = @ \ gone] /\ GoodFan(fan[c])
    BY DEF WithoutOld, Inv, InvFan
  <2> QED
    BY <2>1, GoodShrink
<1>2. w \in [Task -> FanType]
  <2>1. \A c \in Task : w[c] \in FanType
    BY <1>1 DEF GoodFan
  <2> QED
    BY <2>1 DEF WithoutOld
<1> QED
  BY <1>1, <1>2

-----------------------------------------------------------------------------
(* Each step keeps the invariant.                                           *)

\* The venue at boot.
LEMMA InvInit == Init => Inv
<1> SUFFICES ASSUME Init PROVE Inv
  OBVIOUS
<1> USE DEF Init
<1>1. TypeOK
  BY FanoutAssumption
     DEF TypeOK, Statuses, PreExpiry, Settling, Expired, NoRoll
<1>2. InvTypes
  BY DEF InvTypes, NoRoll
<1>3. InvFan /\ InvSweep /\ RolledIsClosed
  BY GoodNone DEF InvFan, InvSweep, RolledIsClosed, Task
<1>4. InvClosing /\ InvSwept
  BY DEF InvClosing, InvSwept, NoRoll, PreExpiry, Settling
<1> QED
  BY <1>1, <1>2, <1>3, <1>4 DEF Inv

\* An order that comes after the sweep is exposed.
LEMMA InvAddOrder == ASSUME Inv, NEW s \in Symbol, AddOrder(s) PROVE Inv'
<1> USE DEF Inv
<1>1. /\ live' = live \cup {s} /\ listed' = listed \cup {s}
      /\ UNCHANGED <<now, status, phase, roll, fan, covered>>
      /\ exposed' = IF Swept(UnderlyingOf[s]) \/ phase[UnderlyingOf[s]] >= Settling
                    THEN exposed \cup {s} ELSE exposed
  BY DEF AddOrder
<1>2. TypeOK' /\ InvTypes'
  <2>1. /\ status' \in [Symbol -> Statuses] /\ listed \subseteq listed' /\ listed' \subseteq Symbol
        /\ live' \subseteq listed' /\ exposed' \subseteq live'
    BY <1>1 DEF TypeOK
  <2> QED
    BY <1>1, <2>1, KeepTypes
<1>3. InvFan' /\ InvSweep'
  BY <1>1, KeepFan
<1>4. RolledIsClosed' /\ InvClosing'
  BY <1>1, KeepClosed
<1>5. InvSwept'
  <2>1. \A u : Of(u)' = Of(u)
    BY DEF Of
  <2>2. \A u : s \in Of(u) => u = UnderlyingOf[s]
    BY DEF Of
  <2>3. ASSUME NEW u \in Underlying, phase'[u] >= Settling PROVE live' \cap Of(u)' \subseteq exposed'
    BY <1>1, <2>1, <2>2, <2>3 DEF InvSwept
  <2>4. ASSUME roll'.todo # <<>>, Head(roll'.todo).kind # "sweep" \/ Group' \in fan'[TheRoll].ok
        PROVE  live' \cap Of(Group)' \subseteq exposed'
    <3>1. Group' = Group /\ Of(Group)' = Of(Group)
      BY <1>1 DEF Group, Of
    <3>2. live \cap Of(Group) \subseteq exposed
      BY <1>1, <2>4, <3>1 DEF InvSwept
    <3>3. s \in Of(Group) => s \in exposed'
      BY <1>1, <2>2, <2>4, <3>1 DEF Swept, Group
    <3> QED
      BY <1>1, <3>1, <3>2, <3>3
  <2> QED
    BY <2>3, <2>4 DEF InvSwept
<1> QED
  BY <1>2, <1>3, <1>4, <1>5

\* A cancelled order rests nowhere.
LEMMA InvCancelOrder == ASSUME Inv, NEW s \in Symbol, CancelOrder(s) PROVE Inv'
<1>1. /\ live' = live \ {s} /\ exposed' = exposed \ {s} /\ fan' = WithoutOld({s})
      /\ UNCHANGED <<now, listed, status, phase, roll, covered>>
  BY DEF CancelOrder
<1>2. TypeOK' /\ InvTypes'
  <2>1. /\ status' \in [Symbol -> Statuses] /\ listed' \subseteq Symbol
        /\ live' \subseteq listed' /\ exposed' \subseteq live'
    BY <1>1 DEF Inv, TypeOK
  <2> QED
    BY <1>1, <2>1, KeepTypes
<1>3. live' \ exposed' \subseteq live \ exposed
  BY <1>1 DEF Inv, TypeOK
<1>4. /\ fan' \in [Task -> FanType]
      /\ \A c \in Task :
           /\ GoodFan(fan'[c]) /\ fan'[c].old = fan[c].old \ {s}
           /\ fan'[c].kind = fan[c].kind /\ fan'[c].ok = fan[c].ok
  BY <1>1, ShrunkFans
<1>5. InvFan'
  BY <1>1, <1>4 DEF Inv, InvFan
<1>6. InvSweep' /\ fan'[TheRoll].ok = fan[TheRoll].ok
  BY <1>1, <1>4 DEF Inv, InvSweep, Task
<1> QED
  BY <1>1, <1>2, <1>3, <1>5, <1>6, KeepClosed, KeepSwept DEF Inv

\* An operator's halt or resume reopens nothing the roll has closed.
LEMMA InvSetStatus == ASSUME Inv, NEW s \in Symbol, SubmitSetInstrumentStatus(s) PROVE Inv'
<1>1. PICK to \in {"Halted", "Active"} : Commit(StatusCommand(s, to))
  BY DEF SubmitSetInstrumentStatus, StatusCommand
<1>2. UNCHANGED <<now, phase, roll, fan, covered>>
  BY DEF SubmitSetInstrumentStatus
<1>3. TypeOK /\ to \in Statuses
  BY DEF Inv, Statuses
<1>4. /\ status' \in [Symbol -> Statuses] /\ listed' = listed \cup {s}
      /\ UNCHANGED <<live, exposed>>
      /\ \A x \in Symbol :
           /\ status[x] \in {"Settling", "Expired"} => status'[x] \in {"Settling", "Expired"}
           /\ status[x] = "Expired" => status'[x] = "Expired"
  BY <1>1, <1>3, CommitKeepsClosed
<1>5. TypeOK' /\ InvTypes'
  <2>1. /\ listed \subseteq listed' /\ listed' \subseteq Symbol
        /\ live' \subseteq listed' /\ exposed' \subseteq live'
    BY <1>3, <1>4 DEF TypeOK
  <2> QED
    BY <1>2, <1>4, <2>1, KeepTypes
<1>6. RolledIsClosed' /\ InvClosing'
  BY <1>2, <1>4, KeepClosed
<1>7. InvSwept' /\ InvFan' /\ InvSweep'
  BY <1>2, <1>4, KeepSwept, KeepFan
<1> QED
  BY <1>5, <1>6, <1>7 DEF Inv

\* A step of one fan-out, which keeps its accounts, leaves the roll and the books as they are.
LEMMA FanStep ==
    ASSUME Inv, NEW c \in Task, NEW f, fan' = [fan EXCEPT ![c] = f], GoodFan(f),
           f.old \subseteq live, c = TheRoll => f.ok \subseteq fan[c].ok, InvSweep',
           UNCHANGED <<now, phase, roll, covered, book>>
    PROVE  Inv'
<1>1. UNCHANGED <<now, phase, roll, covered, listed, status, live, exposed>>
  BY DEF book
<1>2. TypeOK' /\ InvTypes'
  <2>1. /\ status' \in [Symbol -> Statuses] /\ listed' \subseteq Symbol
        /\ live' \subseteq listed' /\ exposed' \subseteq live'
    BY <1>1 DEF Inv, TypeOK
  <2> QED
    BY <1>1, <2>1, KeepTypes
<1>3. /\ f \in FanType /\ fan \in [Task -> FanType] /\ TheRoll \in Task
      /\ fan'[c] = f /\ \A d \in Task \ {c} : fan'[d] = fan[d]
  BY DEF GoodFan, Inv, InvFan, Task
<1>4. InvFan'
  BY <1>1, <1>3 DEF Inv, InvFan
<1>5. fan'[TheRoll].ok \subseteq fan[TheRoll].ok
  BY <1>3
<1> QED
  BY <1>1, <1>2, <1>4, <1>5, KeepClosed, KeepSwept DEF Inv

\* A fan-out starts beside the others.
LEMMA InvFanStart ==
    ASSUME Inv, NEW c \in Caller, NEW kind \in {"sweep", "other"}, FanStart(c, kind)
    PROVE  Inv'
<1>1. fan' = [fan EXCEPT ![c] = Fresh(kind)] /\ UNCHANGED <<now, phase, roll, covered, book>>
  BY DEF FanStart
<1>2. GoodFan(Fresh(kind)) /\ Fresh(kind).old \subseteq live
  BY GoodFresh
<1>3. c \in Task /\ c # TheRoll
  BY FanoutAssumption DEF Task
<1>4. InvSweep'
  BY <1>1, <1>3 DEF Inv, InvSweep, InvFan, Task
<1> QED
  BY <1>1, <1>2, <1>3, <1>4, FanStep

\* A refused leg is counted as such.
LEMMA InvFanRefused == ASSUME Inv, NEW c \in Task, FanRefused(c) PROVE Inv'
<1> DEFINE f == fan[c]
           g == [f EXCEPT !.todo = Tail(f.todo), !.bad = f.bad \cup {Head(f.todo)}]
<1>1. /\ f.todo # <<>> /\ UNCHANGED <<now, phase, roll, covered, book>>
      /\ fan' = [fan EXCEPT ![c].todo = Tail(@), ![c].bad = @ \cup {Head(f.todo)}]
  BY DEF FanRefused, GoOn
<1>2. GoodFan(f) /\ f \in FanType /\ f.old \subseteq live /\ fan \in [Task -> FanType]
  BY DEF Inv, InvFan
<1>3. fan' = [fan EXCEPT ![c] = g]
  BY <1>1, <1>2 DEF FanType
<1>4. g.ok = f.ok
  BY <1>2 DEF FanType
<1> HIDE DEF g
<1>5. GoodFan(g) /\ g.kind = f.kind /\ g.old = f.old
  BY <1>1, <1>2, GoodAnswer DEF g
<1>6. fan'[TheRoll].kind = fan[TheRoll].kind
  BY <1>2, <1>3, <1>5 DEF Task
<1>7. InvSweep'
  BY <1>1, <1>6 DEF Inv, InvSweep
<1> HIDE DEF f
<1> QED
  BY <1>1, <1>2, <1>3, <1>4, <1>5, <1>7, FanStep DEF f

\* A committed leg takes the orders of its underlying, from every mass cancel under way.
LEMMA InvFanCommits == ASSUME Inv, NEW c \in Task, FanCommits(c) PROVE Inv'
<1> DEFINE u == Head(fan[c].todo)
<1>1. PICK legs \in (IF fan[c].kind = "sweep" THEN {LegsOf(u)} ELSE SUBSET (live \cap Of(u))) :
        /\ fan' = [WithoutOld(legs) EXCEPT ![c].todo = Tail(@), ![c].ok = @ \cup {u}]
        /\ live' = live \ legs /\ exposed' = exposed \ legs
  BY DEF FanCommits
<1>2. fan[c].todo # <<>> /\ UNCHANGED <<now, listed, status, phase, roll, covered>>
  BY DEF FanCommits
<1> DEFINE w == WithoutOld(legs)
           g == [w[c] EXCEPT !.todo = Tail(w[c].todo), !.ok = w[c].ok \cup {u}]
<1>3. /\ w \in [Task -> FanType]
      /\ \A d \in Task :
           /\ GoodFan(w[d]) /\ w[d].old = fan[d].old \ legs
           /\ w[d].kind = fan[d].kind /\ w[d].todo = fan[d].todo
           /\ w[d].ok = fan[d].ok /\ w[d].bad = fan[d].bad
  BY ShrunkFans
<1>4. fan' = [w EXCEPT ![c].todo = Tail(@), ![c].ok = @ \cup {u}]
  BY <1>1
<1>5. fan[c].kind = "sweep" => legs = live \cap Of(u)
  BY <1>1 DEF LegsOf
<1>6. \A d \in Task : fan[d].old \subseteq live /\ fan[d].old \subseteq Symbol
  BY DEF Inv, InvFan, TypeOK
<1>7. w[c].kind = "sweep" => \A s \in w[c].old : UnderlyingOf[s] # u
  <2>1. ASSUME w[c].kind = "sweep", NEW s \in w[c].old, UnderlyingOf[s] = u PROVE FALSE
    <3>1. s \in fan[c].old /\ s \notin legs /\ fan[c].kind = "sweep"
      BY <1>3, <2>1
    <3>2. s \in live \cap Of(u)
      BY <1>6, <2>1, <3>1 DEF Of
    <3> QED
      BY <1>5, <3>1, <3>2
  <2> QED
    BY <2>1
<1> HIDE DEF w
<1>8. w[c] \in FanType
  BY <1>3
<1>9. fan' = [w EXCEPT ![c] = g]
  BY <1>3, <1>4, <1>8 DEF FanType
<1>10. g.ok = w[c].ok \cup {u}
  BY <1>8 DEF FanType
<1>11. GoodFan(g) /\ g.kind = w[c].kind /\ g.old = w[c].old
  <2>1. u = Head(w[c].todo) /\ w[c].todo # <<>> /\ GoodFan(w[c])
    BY <1>2, <1>3
  <2> HIDE DEF u
  <2> QED
    BY <1>7, <2>1, GoodAnswer
<1> HIDE DEF u, g
<1>12. g \in FanType /\ TheRoll \in Task
  BY <1>11 DEF GoodFan, Task
<1>13. fan'[c] = g /\ \A d \in Task \ {c} : fan'[d] = w[d]
  BY <1>3, <1>9, <1>12
<1>14. fan' \in [Task -> FanType]
  BY <1>3, <1>9, <1>12
<1>15. InvFan'
  <2>1. ASSUME NEW d \in Task PROVE GoodFan(fan'[d]) /\ fan'[d].old \subseteq live'
    <3>1. GoodFan(fan'[d]) /\ fan'[d].old = w[d].old
      BY <1>3, <1>11, <1>13
    <3> QED
      BY <1>1, <1>3, <1>6, <3>1
  <2> QED
    BY <1>14, <2>1 DEF InvFan
<1>16. fan'[TheRoll].kind = fan[TheRoll].kind
  BY <1>3, <1>11, <1>12, <1>13
<1>17. InvSweep'
  BY <1>2, <1>16 DEF Inv, InvSweep
<1>18. live' \subseteq live /\ exposed' \subseteq live' /\ live' \ exposed' \subseteq live \ exposed
  BY <1>1 DEF Inv, TypeOK
<1>19. TypeOK' /\ InvTypes'
  <2>1. /\ status' \in [Symbol -> Statuses] /\ listed' \subseteq Symbol
        /\ live' \subseteq listed' /\ exposed' \subseteq live'
    BY <1>2, <1>18 DEF Inv, TypeOK
  <2> QED
    BY <1>2, <2>1, KeepTypes
<1>20. InvSwept'
  <2>1. CASE c # TheRoll
    <3>1. fan'[TheRoll].ok = fan[TheRoll].ok
      BY <1>3, <1>12, <1>13, <2>1
    <3> QED
      BY <1>2, <1>18, <3>1, KeepSwept
  <2>2. CASE c = TheRoll
    <3>1. /\ fan'[TheRoll].ok = fan[TheRoll].ok \cup {u}
          /\ \A d : Of(d)' = Of(d)
      BY <1>3, <1>10, <1>12, <1>13, <2>2 DEF Of
    <3>2. fan[c].kind = "sweep"
      <4>1. fan[c].kind = "none" \/ fan[c].kind = "sweep"
        BY <2>2 DEF Inv, InvSweep
      <4>3. fan[c].kind = "none" => fan[c].todo = <<>>
        BY DEF Inv, InvFan, GoodFan, FanAsks
      <4> QED
        BY <1>2, <4>1, <4>3
    <3>3. live' \cap Of(u) = {}
      BY <1>1, <1>5, <3>2
    <3>4. Group' = Group
      BY <1>2 DEF Group
    <3> QED
      BY <1>2, <1>18, <3>1, <3>3, <3>4 DEF Inv, InvSwept
  <2> QED
    BY <2>1, <2>2
<1> QED
  BY <1>2, <1>15, <1>17, <1>19, <1>20, KeepClosed DEF Inv

\* The roll has its fan-out only while its sweep is the command at hand.
LEMMA NoSweepUnderWay ==
    ASSUME Inv, roll.todo = <<>> \/ Head(roll.todo).kind # "sweep"
    PROVE  fan[TheRoll].kind = "none"
BY DEF Inv, InvSweep

\* A roll or a group begins or ends: nothing is left to submit.
LEMMA RollIdle ==
    ASSUME Inv, UNCHANGED <<now, phase, covered, listed, status, live, exposed>>,
           DOMAIN roll' = {"todo", "target", "symbols", "groups", "on"},
           roll'.todo = <<>>, roll'.symbols \subseteq listed,
           roll'.target \in PreExpiry .. Expired,
           InvFan', fan'[TheRoll].kind = "none"
    PROVE  Inv'
<1>1. TypeOK'
  BY DEF Inv, TypeOK
<1>2. InvTypes' /\ InvClosing'
  BY DEF Inv, InvTypes, InvClosing, Of
<1>3. RolledIsClosed' /\ InvSwept' /\ InvSweep'
  BY DEF Inv, RolledIsClosed, InvSwept, InvSweep, Of
<1> QED
  BY <1>1, <1>2, <1>3 DEF Inv

\* The roll starts with no command to submit.
LEMMA InvRollStart == Inv /\ RollStart => Inv'
<1> SUFFICES ASSUME Inv, RollStart PROVE Inv'
  OBVIOUS
<1>1. UNCHANGED <<now, phase, fan, covered, listed, status, live, exposed>> /\ ~roll.on
  BY DEF RollStart, book
<1>2. /\ DOMAIN roll' = {"todo", "target", "symbols", "groups", "on"}
      /\ roll'.todo = <<>> /\ roll'.symbols = listed /\ roll'.target = PhaseAt(now)
  BY DEF RollStart, NoRoll
<1>3. PhaseAt(now) \in PreExpiry .. Expired
  BY DEF PhaseAt, PreExpiry, Settling, Expired
<1>4. roll.todo = <<>>
  BY <1>1 DEF Inv, InvTypes
<1>5. InvFan' /\ fan'[TheRoll].kind = "none"
  BY <1>1, <1>4, NoSweepUnderWay DEF Inv, InvFan
<1> QED
  BY <1>1, <1>2, <1>3, <1>5, RollIdle

\* A refused command ends the group, whose phase stays; and the roll ends.
LEMMA InvRollRefused == Inv /\ (RollRefused \/ RollEnd) => Inv'
<1> SUFFICES ASSUME Inv, RollRefused \/ RollEnd PROVE Inv'
  OBVIOUS
<1>1. UNCHANGED <<now, phase, fan, covered, listed, status, live, exposed>>
  BY DEF RollRefused, RollEnd, LeaveGroup, book
<1>2. /\ DOMAIN roll' = {"todo", "target", "symbols", "groups", "on"}
      /\ roll'.todo = <<>> /\ roll'.symbols \subseteq listed
      /\ roll'.target \in PreExpiry .. Expired
      /\ roll.todo = <<>> \/ Head(roll.todo).kind # "sweep"
  <2>1. CASE RollRefused
    BY <2>1 DEF RollRefused, LeaveGroup, Inv, InvTypes, TypeOK
  <2>2. CASE RollEnd
    BY <2>2 DEF RollEnd, NoRoll, PreExpiry, Expired, Inv, InvTypes
  <2> QED
    BY <2>1, <2>2
<1>3. InvFan' /\ fan'[TheRoll].kind = "none"
  BY <1>1, <1>2, NoSweepUnderWay DEF Inv, InvFan
<1> QED
  BY <1>1, <1>2, <1>3, RollIdle

\* A group begins: every contract's change of status is ordered, the sweep first.
LEMMA InvRollGroup == Inv /\ RollGroup => Inv'
<1> SUFFICES ASSUME Inv, RollGroup PROVE Inv'
  OBVIOUS
<1>1. /\ UNCHANGED <<now, phase, fan, covered, listed, status, live, exposed>>
      /\ roll.on /\ roll.groups # <<>> /\ roll.todo = <<>>
  BY DEF RollGroup, book
<1>2. CASE roll' = [roll EXCEPT !.groups = Tail(@)]
  <2>1. /\ DOMAIN roll' = {"todo", "target", "symbols", "groups", "on"}
        /\ roll'.todo = <<>> /\ roll'.symbols \subseteq listed
        /\ roll'.target \in PreExpiry .. Expired
    BY <1>1, <1>2 DEF Inv, InvTypes, TypeOK
  <2>2. InvFan' /\ fan'[TheRoll].kind = "none"
    BY <1>1, NoSweepUnderWay DEF Inv, InvFan
  <2> QED
    BY <1>1, <2>1, <2>2, RollIdle
<1>3. CASE /\ ~ (roll.target <= phase[Group])
           /\ roll' = [roll EXCEPT !.todo = TransitionCommands(Mine, phase[Group], roll.target)]
  <2> DEFINE todo == TransitionCommands(Mine, phase[Group], roll.target)
  <2>1. roll.target \in PreExpiry .. Expired /\ Mine \subseteq Symbol
    BY DEF Inv, TypeOK, Mine, Of
  <2>2. /\ todo \in Seq(RollCommand)
        /\ phase[Group] < Settling =>
             /\ todo # <<>> /\ Head(todo).kind = "sweep"
             /\ \A s \in Mine : StatusCommand(s, "Settling") \in Range(todo)
        /\ roll.target = Expired => \A s \in Mine : StatusCommand(s, "Expired") \in Range(todo)
    BY <2>1, TransitionFacts
  <2>3. /\ DOMAIN roll' = {"todo", "target", "symbols", "groups", "on"}
        /\ roll'.todo = todo /\ roll'.target = roll.target /\ roll'.symbols = roll.symbols
        /\ roll'.groups = roll.groups /\ roll'.on = roll.on
    BY <1>3 DEF Inv, InvTypes
  <2> HIDE DEF todo
  <2>4. Group' = Group /\ Mine' = Mine
    BY <2>3 DEF Group, Mine, Of
  <2>5. TypeOK'
    BY <1>1, <2>3 DEF Inv, TypeOK
  <2>6. InvTypes'
    BY <1>1, <2>2, <2>3 DEF Inv, InvTypes, Of
  <2>7. InvClosing'
    <3>1. ASSUME roll.target = Settling, NEW s \in Mine
          PROVE  StatusCommand(s, "Settling") \in Range(todo)
      <4>1. Group \in Underlying
        BY <3>1, Hosted DEF Mine, Of
      <4>2. phase[Group] \in PreExpiry .. Expired
        BY <4>1 DEF Inv, TypeOK
      <4>3. phase[Group] < Settling
        BY <1>3, <3>1, <4>2 DEF PreExpiry, Settling, Expired
      <4> QED
        BY <2>2, <3>1, <4>3
    <3> QED
      BY <2>2, <2>3, <2>4, <3>1 DEF InvClosing, Ordered
  <2>8. InvSwept'
    <3>0. fan[TheRoll].ok = {}
      BY <1>1, NoSweepUnderWay DEF Inv, InvFan, GoodFan, FanAsks, Task
    <3>1. ASSUME todo # <<>>, Head(todo).kind # "sweep", NEW s \in live \cap Of(Group)
          PROVE  s \in exposed
      <4>1. Group \in Underlying
        BY <3>1, Hosted DEF Of
      <4>2. phase[Group] \in PreExpiry .. Expired
        BY <4>1 DEF Inv, TypeOK
      <4>3. phase[Group] >= Settling
        BY <2>2, <3>1, <4>2 DEF PreExpiry, Settling, Expired
      <4> QED
        BY <3>1, <4>1, <4>3 DEF Inv, InvSwept
    <3>2. Of(Group)' = Of(Group) /\ \A u : Of(u)' = Of(u)
      BY <2>4 DEF Of
    <3> QED
      BY <1>1, <2>3, <2>4, <3>0, <3>1, <3>2 DEF Inv, InvSwept
  <2>9. InvFan' /\ InvSweep' /\ RolledIsClosed'
    BY <1>1, NoSweepUnderWay DEF Inv, InvFan, InvSweep, RolledIsClosed
  <2> QED
    BY <2>5, <2>6, <2>7, <2>8, <2>9 DEF Inv
<1> QED
  BY <1>2, <1>3 DEF RollGroup

\* A committed command of a group, be it the last one, whose phase is then recorded.
LEMMA RecordedKeeps ==
    ASSUME Inv, roll.todo # <<>>, Recorded(Tail(roll.todo), Group),
           now' = now, InvFan', fan'[TheRoll].kind = "none",
           status' \in [Symbol -> Statuses],
           \A x \in Symbol :
             /\ status[x] \in {"Settling", "Expired"} => status'[x] \in {"Settling", "Expired"}
             /\ status[x] = "Expired" => status'[x] = "Expired",
           listed \subseteq listed', listed' \subseteq Symbol,
           live' \subseteq listed', exposed' \subseteq live',
           \A u \in Underlying : phase[u] >= Settling => live' \cap Of(u) \subseteq exposed',
           live' \cap Of(Group) \subseteq exposed',
           \A s \in Mine :
             /\ roll.target = Settling =>
                  \/ status'[s] \in {"Settling", "Expired"}
                  \/ StatusCommand(s, "Settling") \in Range(Tail(roll.todo))
             /\ roll.target = Expired =>
                  \/ status'[s] = "Expired"
                  \/ StatusCommand(s, "Expired") \in Range(Tail(roll.todo))
    PROVE  Inv'
<1> DEFINE rest == Tail(roll.todo)
<1>1. rest \in Seq(RollCommand)
  BY TailFacts DEF Inv, InvTypes
<1>2. Mine \subseteq listed /\ Mine \subseteq Symbol /\ Mine \subseteq Of(Group)
  BY DEF Mine, Of, Inv, TypeOK
<1>3. \A u : Of(u)' = Of(u)
  BY DEF Of
<1>4. InvFan' /\ InvSweep'
  BY DEF InvSweep
<1>5. /\ DOMAIN roll = {"todo", "target", "symbols", "groups", "on"}
      /\ roll.target \in PreExpiry .. Expired /\ roll.symbols \subseteq listed
      /\ roll.on /\ roll.groups # <<>>
      /\ phase \in [Underlying -> PreExpiry .. Expired]
      /\ covered \in [Underlying -> SUBSET listed]
      /\ \A u \in Underlying : covered[u] \subseteq Of(u)
  BY DEF Inv, TypeOK, InvTypes
<1>6. CASE rest = <<>>
  <2>1. /\ roll' = [roll EXCEPT !.todo = <<>>, !.groups = Tail(@)]
        /\ phase' = [phase EXCEPT ![Group] = roll.target]
        /\ covered' = [covered EXCEPT ![Group] = Mine]
    BY <1>6 DEF Recorded
  <2>2. /\ DOMAIN roll' = {"todo", "target", "symbols", "groups", "on"}
        /\ roll'.todo = <<>> /\ roll'.target = roll.target /\ roll'.symbols = roll.symbols
    BY <1>5, <2>1
  <2>3. /\ phase' \in [Underlying -> PreExpiry .. Expired]
        /\ covered' \in [Underlying -> SUBSET listed']
        /\ \A u \in Underlying \ {Group} : phase'[u] = phase[u] /\ covered'[u] = covered[u]
        /\ Group \in Underlying => phase'[Group] = roll.target /\ covered'[Group] = Mine
    BY <1>2, <1>5, <2>1
  <2>4. TypeOK'
    BY <1>5, <2>2, <2>3 DEF Inv, TypeOK
  <2>5. InvTypes'
    <3>1. \A u \in Underlying : covered'[u] \subseteq Of(u)
      BY <1>2, <1>5, <2>3
    <3>2. roll'.todo \in Seq(RollCommand)
      BY <2>2
    <3> QED
      BY <1>3, <2>2, <3>1, <3>2 DEF Inv, InvTypes
  <2>6. RolledIsClosed'
    <3>1. Range(rest) = {}
      BY <1>6 DEF Range
    <3>2. ASSUME NEW u \in Underlying, NEW s \in covered'[u]
          PROVE  /\ phase'[u] = Settling => status'[s] \in {"Settling", "Expired"}
                 /\ phase'[u] = Expired => status'[s] = "Expired"
      <4>1. CASE u = Group
        BY <2>3, <3>1, <3>2, <4>1
      <4>2. CASE u # Group
        <5>1. phase'[u] = phase[u] /\ s \in covered[u] /\ s \in Symbol
          BY <1>5, <2>3, <3>2, <4>2 DEF Of
        <5> QED
          BY <3>2, <5>1 DEF Inv, RolledIsClosed
      <4> QED
        BY <4>1, <4>2
    <3> QED
      BY <3>2 DEF RolledIsClosed
  <2>7. InvClosing' /\ InvSwept'
    <3>1. ASSUME NEW u \in Underlying, phase'[u] >= Settling PROVE live' \cap Of(u) \subseteq exposed'
      BY <2>3, <3>1
    <3> QED
      BY <1>3, <2>2, <3>1 DEF InvClosing, InvSwept
  <2> QED
    BY <1>4, <2>4, <2>5, <2>6, <2>7 DEF Inv
<1>7. CASE rest # <<>>
  <2>1. roll' = [roll EXCEPT !.todo = rest] /\ UNCHANGED <<phase, covered>>
    BY <1>7 DEF Recorded
  <2>2. /\ DOMAIN roll' = {"todo", "target", "symbols", "groups", "on"}
        /\ roll'.todo = rest /\ roll'.target = roll.target /\ roll'.symbols = roll.symbols
        /\ roll'.groups = roll.groups /\ roll'.on = roll.on
    BY <1>5, <2>1
  <2>3. Group' = Group /\ Mine' = Mine
    BY <2>2 DEF Group, Mine, Of
  <2>4. TypeOK'
    <3>1. covered' \in [Underlying -> SUBSET listed']
      BY <1>5, <2>1
    <3> QED
      BY <1>5, <2>1, <2>2, <3>1 DEF Inv, TypeOK
  <2>5. InvTypes'
    BY <1>1, <1>3, <1>5, <2>1, <2>2 DEF Inv, InvTypes
  <2>6. RolledIsClosed'
    <3>1. \A u \in Underlying : covered[u] \subseteq Symbol
      BY <1>5 DEF Of
    <3> QED
      BY <2>1, <3>1 DEF Inv, RolledIsClosed
  <2>7. InvClosing'
    BY <2>2, <2>3 DEF InvClosing, Ordered
  <2>8. InvSwept'
    BY <1>3, <2>1, <2>3 DEF InvSwept
  <2> QED
    BY <1>4, <2>4, <2>5, <2>6, <2>7, <2>8 DEF Inv
<1> QED
  BY <1>6, <1>7

\* A committed change of status: its contract has left the statuses that trade.
LEMMA InvRollStatus == Inv /\ RollStatus => Inv'
<1> SUFFICES ASSUME Inv, RollStatus PROVE Inv'
  OBVIOUS
<1>1. /\ roll.todo # <<>> /\ Head(roll.todo).kind = "status" /\ Commit(Head(roll.todo))
      /\ Recorded(Tail(roll.todo), Group) /\ UNCHANGED <<now, fan>>
  BY DEF RollStatus
<1>2. Head(roll.todo) \in RollCommand /\ Range(roll.todo) = {Head(roll.todo)} \cup Range(Tail(roll.todo))
  BY <1>1, TailFacts DEF Inv, InvTypes
<1>3. PICK s \in Symbol, to \in {"Settling", "Expired"} : Head(roll.todo) = StatusCommand(s, to)
  BY <1>1, <1>2 DEF RollCommand
<1>4. TypeOK /\ to \in Statuses /\ Commit(StatusCommand(s, to))
  BY <1>1, <1>3 DEF Inv, Statuses
<1>5. /\ status' \in [Symbol -> Statuses] /\ listed' = listed \cup {s}
      /\ UNCHANGED <<live, exposed>>
      /\ \A x \in Symbol :
           /\ status[x] \in {"Settling", "Expired"} => status'[x] \in {"Settling", "Expired"}
           /\ status[x] = "Expired" => status'[x] = "Expired"
      /\ to = "Settling" => status'[s] \in {"Settling", "Expired"}
      /\ to = "Expired" => status'[s] = "Expired"
  BY <1>4, CommitKeepsClosed
<1>6. /\ \A u \in Underlying : phase[u] >= Settling => live' \cap Of(u) \subseteq exposed'
      /\ live' \cap Of(Group) \subseteq exposed'
  BY <1>1, <1>5 DEF Inv, InvSwept
<1>7. ASSUME NEW x \in Mine
      PROVE  /\ roll.target = Settling =>
                  \/ status'[x] \in {"Settling", "Expired"}
                  \/ StatusCommand(x, "Settling") \in Range(Tail(roll.todo))
             /\ roll.target = Expired =>
                  \/ status'[x] = "Expired"
                  \/ StatusCommand(x, "Expired") \in Range(Tail(roll.todo))
  <2>1. x \in Symbol
    BY <1>7 DEF Mine, Of
  <2>2. \A t : StatusCommand(x, t) = Head(roll.todo) => x = s /\ t = to
    BY <1>3 DEF StatusCommand
  <2> QED
    BY <1>1, <1>2, <1>5, <1>7, <2>1, <2>2 DEF Inv, InvClosing, Ordered
<1>8. /\ listed \subseteq listed' /\ listed' \subseteq Symbol
      /\ live' \subseteq listed' /\ exposed' \subseteq live'
  BY <1>4, <1>5 DEF TypeOK
<1>9. InvFan' /\ fan'[TheRoll].kind = "none"
  BY <1>1, <1>5, NoSweepUnderWay DEF Inv, InvFan
<1> QED
  BY <1>1, <1>5, <1>6, <1>7, <1>8, <1>9, RecordedKeeps

\* The sweep begins: it has been on no underlying yet.
LEMMA InvRollSweep == Inv /\ RollSweep => Inv'
<1> SUFFICES ASSUME Inv, RollSweep PROVE Inv'
  OBVIOUS
<1> DEFINE f == Fresh("sweep")
<1>1. /\ roll.todo # <<>> /\ Head(roll.todo).kind = "sweep"
      /\ fan' = [fan EXCEPT ![TheRoll] = f] /\ UNCHANGED <<now, phase, roll, covered, book>>
  BY DEF RollSweep
<1>2. GoodFan(f) /\ f.old \subseteq live /\ f.kind = "sweep" /\ f.ok = {}
  BY GoodFresh
<1> HIDE DEF f
<1>3. TheRoll \in Task /\ fan'[TheRoll] = f
  BY <1>1 DEF Inv, InvFan, Task
<1>4. InvSweep'
  BY <1>1, <1>2, <1>3 DEF InvSweep
<1> QED
  BY <1>1, <1>2, <1>3, <1>4, FanStep

\* The sweep's answer: what rests on the group's underlying is new there or was refused.
LEMMA InvRollSwept == Inv /\ RollSwept => Inv'
<1> SUFFICES ASSUME Inv, RollSwept PROVE Inv'
  OBVIOUS
<1> DEFINE f == fan[TheRoll]
<1>1. /\ f.kind # "none" /\ f.todo = <<>> /\ fan' = [fan EXCEPT ![TheRoll] = NoFan]
      /\ UNCHANGED <<now, listed, status, live>>
  BY DEF RollSwept, FanDone
<1>2. roll.todo # <<>> /\ Head(roll.todo).kind = "sweep"
  BY <1>1 DEF Inv, InvSweep
<1>3. InvFan' /\ fan'[TheRoll].kind = "none"
  <2>1. /\ GoodFan(NoFan) /\ NoFan.kind = "none" /\ NoFan.old = {} /\ NoFan \in FanType
    BY GoodNone
  <2> QED
    BY <1>1, <2>1 DEF Inv, InvFan, Task
<1>4. CASE f.ok # {}
  <2>1. /\ Recorded(Tail(roll.todo), Group)
        /\ exposed' = IF Group \in f.bad THEN exposed \cup (live \cap Of(Group)) ELSE exposed
    BY <1>4 DEF RollSwept
  <2>2. /\ status \in [Symbol -> Statuses] /\ listed \subseteq Symbol /\ live \subseteq listed
        /\ exposed \subseteq live
    BY DEF Inv, TypeOK
  <2>3. exposed' \subseteq live' /\ exposed \subseteq exposed'
    BY <1>1, <2>1, <2>2
  <2>4. live' \cap Of(Group) \subseteq exposed'
    <3>1. CASE Group \in f.bad
      BY <1>1, <2>1, <3>1
    <3>2. CASE Group \in f.ok
      BY <1>1, <1>2, <2>3, <3>2 DEF Inv, InvSwept
    <3>3. CASE Group \notin f.ok \cup f.bad
      <4>1. FanAsks(f) /\ Range(f.todo) = {}
        BY <1>1 DEF Inv, InvFan, GoodFan, Task, Range
      <4>2. Group \notin Underlying
        BY <1>1, <3>3, <4>1 DEF FanAsks
      <4>3. Of(Group) = {}
        BY <4>2, Hosted DEF Of
      <4> QED
        BY <4>3
    <3> QED
      BY <3>1, <3>2, <3>3
  <2>5. \A u \in Underlying : phase[u] >= Settling => live' \cap Of(u) \subseteq exposed'
    BY <1>1, <2>3 DEF Inv, InvSwept
  <2>6. Range(roll.todo) = {Head(roll.todo)} \cup Range(Tail(roll.todo))
    BY <1>2, TailFacts DEF Inv, InvTypes
  <2>7. ASSUME NEW s \in Mine
        PROVE  /\ roll.target = Settling =>
                    \/ status'[s] \in {"Settling", "Expired"}
                    \/ StatusCommand(s, "Settling") \in Range(Tail(roll.todo))
               /\ roll.target = Expired =>
                    \/ status'[s] = "Expired"
                    \/ StatusCommand(s, "Expired") \in Range(Tail(roll.todo))
    <3>1. \A t : StatusCommand(s, t) # Head(roll.todo)
      BY <1>2 DEF StatusCommand
    <3> QED
      BY <1>1, <1>2, <2>6, <2>7, <3>1 DEF Inv, InvClosing, Ordered
  <2> QED
    BY <1>1, <1>2, <1>3, <2>1, <2>2, <2>3, <2>4, <2>5, <2>7, RecordedKeeps
<1>5. CASE f.ok = {}
  <2>1. LeaveGroup /\ UNCHANGED exposed
    BY <1>5 DEF RollSwept
  <2>2. /\ DOMAIN roll' = {"todo", "target", "symbols", "groups", "on"}
        /\ roll'.todo = <<>> /\ roll'.symbols \subseteq listed
        /\ roll'.target \in PreExpiry .. Expired
        /\ UNCHANGED <<phase, covered>>
    BY <2>1 DEF LeaveGroup, Inv, InvTypes, TypeOK
  <2> QED
    BY <1>1, <1>3, <2>1, <2>2, RollIdle
<1> QED
  BY <1>4, <1>5

\* The clock moves nothing.
LEMMA InvTick == Inv /\ Tick => Inv'
<1> SUFFICES ASSUME Inv, Tick PROVE Inv'
  OBVIOUS
<1>1. UNCHANGED <<phase, roll, fan, covered, listed, status, live, exposed>>
  BY DEF Tick, book
<1>2. TypeOK'
  BY <1>1, FanoutAssumption DEF Tick, Inv, TypeOK
<1>3. InvTypes'
  BY <1>1 DEF Inv, InvTypes, Of
<1> QED
  BY <1>1, <1>2, <1>3, KeepClosed, KeepSwept, KeepFan DEF Inv

\* A restart forgets the phases, the roll and the fan-out, and keeps the books.
LEMMA InvRestart == Inv /\ Restart => Inv'
<1> SUFFICES ASSUME Inv, Restart PROVE Inv'
  OBVIOUS
<1>1. /\ phase' = [u \in Underlying |-> PreExpiry] /\ covered' = [u \in Underlying |-> {}]
      /\ roll' = NoRoll /\ fan' = [c \in Task |-> NoFan]
      /\ UNCHANGED <<now, listed, status, live, exposed>>
  BY DEF Restart, book
<1>2. TypeOK'
  BY <1>1 DEF Inv, TypeOK, NoRoll, PreExpiry, Settling, Expired
<1>3. InvTypes'
  BY <1>1 DEF InvTypes, NoRoll
<1>4. InvFan' /\ InvSweep' /\ RolledIsClosed'
  BY <1>1, GoodNone DEF InvFan, InvSweep, RolledIsClosed, Task
<1>5. InvClosing' /\ InvSwept'
  BY <1>1 DEF InvClosing, InvSwept, NoRoll, PreExpiry, Settling
<1> QED
  BY <1>2, <1>3, <1>4, <1>5 DEF Inv

\* Every step keeps the invariant.
LEMMA InvStep == Inv /\ [Next]_vars => Inv'
<1> SUFFICES ASSUME Inv, [Next]_vars PROVE Inv'
  OBVIOUS
<1>1. CASE UNCHANGED vars
  <2>1. UNCHANGED <<now, phase, roll, fan, covered, listed, status, live, exposed>>
    BY <1>1 DEF vars
  <2>2. TypeOK' /\ InvTypes'
    BY <2>1 DEF Inv, TypeOK, InvTypes, Of
  <2> QED
    BY <2>1, <2>2, KeepClosed, KeepSwept, KeepFan DEF Inv
<1>2. CASE Next
  BY <1>2, InvAddOrder, InvCancelOrder, InvSetStatus, InvFanStart, InvFanCommits,
     InvFanRefused, InvRollStart, InvRollGroup, InvRollStatus, InvRollSweep, InvRollSwept, InvRollRefused,
     InvTick, InvRestart DEF Next, Client, Fan, Roll
<1> QED
  BY <1>1, <1>2
-----------------------------------------------------------------------------
(* The theorems.                                                            *)

\* Any number of venue-global commands under way at once, over any number of underlyings: each
\* asks every underlying once, and a mass cancel answers with a summary that is true of the
\* books, whatever the others, the roll and the traders do between its awaits.
THEOREM FanoutAlwaysTrue == Spec => []FanoutIsTrue
<1>1. Inv => FanoutIsTrue
  <2> SUFFICES ASSUME Inv PROVE FanoutIsTrue
    OBVIOUS
  <2>1. TypeOK
    BY DEF Inv
  <2>2. AsksEachOnce
    BY DEF Inv, InvFan, GoodFan, FanAsks, AsksEachOnce
  <2>3. SummaryIsTrue
    <3> SUFFICES ASSUME NEW c \in Task, FanDone(c), fan[c].kind = "sweep"
                 PROVE  /\ \A s \in fan[c].old : UnderlyingOf[s] \in fan[c].bad
                        /\ fan[c].ok = Underlying => fan[c].old = {}
      BY DEF SummaryIsTrue
    <3>1. GoodFan(fan[c]) /\ Range(fan[c].todo) = {}
      BY DEF Inv, InvFan, FanDone, Range
    <3>2. \A s \in fan[c].old : UnderlyingOf[s] \in fan[c].bad
      BY <3>1 DEF GoodFan, FanTakes
    <3>3. fan[c].ok \cap fan[c].bad = {} /\ fan[c].bad \subseteq Underlying
      BY <3>1 DEF GoodFan, FanAsks, FanType
    <3> QED
      BY <3>2, <3>3
  <2> QED
    BY <2>1, <2>2, <2>3 DEF FanoutIsTrue
<1> QED
  BY <1>1, InvInit, InvStep, PTL DEF Spec

\* A phase the expiry roll has recorded stands for closed books, for every day and set of
\* contracts: no refusal, retry, operator's resume or restart leaves one of them open.
THEOREM RollClosesBooks == Spec => []RolledIsClosed
<1>1. Inv => RolledIsClosed
  BY DEF Inv
<1> QED
  BY <1>1, InvInit, InvStep, PTL DEF Spec

\* What still rests on a rolled contract is what the roll's sweep could not have taken.
THEOREM RollLeavesOnlyExposed == Spec => []RolledRestsOnlyExposed
<1>1. Inv => RolledRestsOnlyExposed
  BY DEF Inv, InvTypes, InvSwept, RolledRestsOnlyExposed
<1> QED
  BY <1>1, InvInit, InvStep, PTL DEF Spec
=============================================================================
