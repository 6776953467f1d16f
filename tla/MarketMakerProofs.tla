-------------------------- MODULE MarketMakerProofs --------------------------
(***************************************************************************)
(* Machine-checked facts about MarketMaker, for every set of underlyings   *)
(* and contracts, every capacity of the sinks and every number of          *)
(* requotes, controls and crashes.                                         *)
(***************************************************************************)
EXTENDS MarketMaker, TLAPS

-----------------------------------------------------------------------------
(* The inductive invariant. The maker registers its new legs before it      *)
(* hands over a command, so the properties are about three places at once:  *)
(* the journals, the pipe from the maker to the actors, and the legs.       *)

\* The commands on their way, in the order in which the actors will see them.
Pipe == queue \o todo

Step == [u : Book, n : Nat]
Add == [op : {"add"}, u : Book, contract : Contract, side : Side, id : Nat, for : Nat]
Cancel == [op : {"cancel"}, u : Book, id : Nat]
Command == Add \cup Cancel

Same(a, b) == a.contract = b.contract /\ a.side = b.side

\* The adds that were journaled or may still be.
Piped == {m \in Range(Pipe) : m.op = "add"}
Journaled == UNION {Range(adds[u]) : u \in Book}

\* The types the model's TypeOK leaves to the operations.
InvTypes ==
    /\ sequenced \in [Book -> SUBSET Nat]
    /\ adds \in [Book -> Seq(Add)]
    /\ \A u \in Book : \A i \in 1..Len(adds[u]) : adds[u][i].u = u
    /\ book \in [Book -> SUBSET Nat]
    /\ steps \in Seq(Step)
    /\ queue \in Seq(Command) /\ todo \in Seq(Command)
    /\ \A a \in Journaled \cup Piped : a.contract \in Range(Contracts[a.u])
    /\ made \in Nat

InvDrive ==
    \/ drive = Parked
    \/ drive \in [pc : {"drive"}, step : Step]
    \/ /\ drive \in [pc : {"quote"}, step : Step, left : Seq(Contract)]
       /\ Range(drive.left) \subseteq Range(Contracts[drive.step.u])

\* Ids are handed out once and reach the journals in the order in which they were handed out.
InvIds ==
    /\ \A a \in Journaled \cup Range(Pipe) : a.id \in 1..nextId
    /\ \A i, j \in 1..Len(Pipe) : i < j /\ Pipe[i].op = "add" /\ Pipe[j].op = "add"
         => Pipe[i].id < Pipe[j].id
    /\ \A a \in Journaled, b \in Piped : a.id < b.id
    /\ \A u \in Book : \A i, j \in 1..Len(adds[u]) : i < j => adds[u][i].id < adds[u][j].id
    /\ IdsNeverReused

\* A leg is the last add of its contract and side, whether it was journaled, is on its way,
\* or was dropped; a cancel goes to the underlying that had, or will have, the order.
InvLegs ==
    /\ \A c \in Contract, s \in Side : legs[c][s] # None => legs[c][s] \in 1..nextId
    /\ \A a \in Journaled \cup Piped :
         legs[a.contract][a.side] # None /\ a.id <= legs[a.contract][a.side]
    /\ \A c \in Contract, s \in Side : \A a \in Journaled \cup Piped :
         a.id = legs[c][s] => a.contract = c /\ a.side = s
    /\ \A a \in Journaled \cup Piped, m \in Range(Pipe) :
         m.op = "cancel" /\ m.id = a.id => m.u = a.u

\* An add that rests, or is at place k of the pipe p, is the tracked leg, or its cancel follows
\* in the pipe, before any later add of its contract and side; or that cancel was lost.
Fate(a, k, p, lost, tracked) ==
    \/ a.id \in lost
    \/ a.id = tracked[a.contract][a.side]
    \/ \E j \in 1..Len(p) :
         /\ j > k /\ p[j].op = "cancel" /\ p[j].id = a.id
         /\ \A i \in 1..j : p[i].op = "add" /\ Same(p[i], a) => p[i].id <= a.id

InvFate ==
    /\ \A u \in Book : \A x \in book[u] : \E a \in Range(adds[u]) : a.id = x
    /\ \A u \in Book : \A a \in Range(adds[u]) : a.id \in book[u] =>
         /\ Fate(a, 0, Pipe, orphans, legs)
         /\ a.id \notin orphans => \A b \in Range(adds[u]) : Same(a, b) => b.id <= a.id
    /\ \A k \in 1..Len(Pipe) : Pipe[k].op = "add" => Fate(Pipe[k], k, Pipe, orphans, legs)

\* The places of the adds of a leg in the journal; what boot reads has a last element.
Own(u, c, s) == {i \in 1..Len(adds[u]) : adds[u][i].contract = c /\ adds[u][i].side = s}
HasMax(S) == \E m \in S : \A x \in S : x <= m

InvBoot ==
    /\ \A u \in Book, c \in Contract, s \in Side : Own(u, c, s) = {} \/ HasMax(Own(u, c, s))
    /\ HasMax({0} \cup JournaledIds)

InvCore == InvIds /\ InvLegs /\ InvFate /\ InvBoot

\* Steps are sequenced in the order of their prices, and the adds of a step are behind those of
\* the steps before it.
InvOrder ==
    /\ \A a \in Piped : a.for \in sequenced[a.u]
    /\ \A u \in Book : \A n \in sequenced[u] : n <= made
    /\ \A i \in 1..Len(steps) : steps[i].n <= made
    /\ \A i, j \in 1..Len(steps) : i < j => steps[i].n < steps[j].n
    /\ \A a \in Journaled \cup Piped : a.for <= made /\ \A i \in 1..Len(steps) : a.for < steps[i].n
    /\ drive # Parked =>
         /\ drive.step.n \in sequenced[drive.step.u]
         /\ \A i \in 1..Len(steps) : drive.step.n < steps[i].n
         /\ \A a \in Journaled \cup Piped : a.for <= drive.step.n
    /\ \A i, j \in 1..Len(Pipe) : i < j /\ Pipe[i].op = "add" /\ Pipe[j].op = "add"
         => Pipe[i].for <= Pipe[j].for
    /\ \A a \in Journaled, b \in Piped : a.for <= b.for

\* The underlyings that have journaled a control.
Told == {i \in 1..Len(Underlying) : switch[Underlying[i]] # None}

\* A control in progress has a last part of the underlyings before it, so the last underlying
\* is always among them.
Carried == [on : BOOLEAN, left : {SubSeq(Underlying, k, Len(Underlying)) : k \in 1..Len(Underlying)}]

InvSwitch ==
    /\ switch \in [Book -> BOOLEAN \cup {None}]
    /\ control \in [Operator -> Carried \cup {None}]
    /\ Told = {} \/ HasMax(Told)
    /\ SwitchSurvives

\* While a kill holds on an underlying, the requote in progress and every add on its way there
\* are for a price it had sequenced before the kill.
InvKill ==
    /\ swept \in [Book -> SUBSET [adds : Nat, steps : SUBSET Nat]]
    /\ \A u \in Book : \A kill \in swept[u] :
         /\ kill.adds <= Len(adds[u])
         /\ \A a \in Piped : a.u = u => a.for \in kill.steps
         /\ drive.pc = "quote" /\ drive.step.u = u => drive.step.n \in kill.steps
    /\ KillSweeps

Inv == TypeOK /\ InvTypes /\ InvDrive /\ InvCore /\ InvOrder /\ InvSwitch /\ InvKill

-----------------------------------------------------------------------------
(* Sequences and the pipe.                                                  *)

\* A sequence and one of its elements.
LEMMA SeqElement ==
    ASSUME NEW S, NEW q \in Seq(S)
    PROVE  /\ Len(q) \in Nat /\ DOMAIN q = 1..Len(q)
           /\ \A i \in 1..Len(q) : q[i] \in S /\ q[i] \in Range(q)
           /\ \A x \in Range(q) : x \in S /\ \E i \in 1..Len(q) : x = q[i]
BY DEF Range

\* The sequence p without its element g.
Without(p, g) == [i \in 1..Len(p) - 1 |-> IF i < g THEN p[i] ELSE p[i + 1]]
Down(g, j) == IF j < g THEN j ELSE j - 1
Up(g, i) == IF i < g THEN i ELSE i + 1

LEMMA WithoutFacts ==
    ASSUME NEW S, NEW p \in Seq(S), NEW g \in 1..Len(p)
    PROVE  /\ Without(p, g) \in Seq(S) /\ Len(Without(p, g)) = Len(p) - 1
           /\ \A i \in 1..Len(p) - 1 :
                Up(g, i) \in 1..Len(p) /\ Up(g, i) # g /\ Without(p, g)[i] = p[Up(g, i)]
           /\ \A j \in 1..Len(p) : j # g =>
                Down(g, j) \in 1..Len(p) - 1 /\ Without(p, g)[Down(g, j)] = p[j]
           /\ Range(Without(p, g)) \subseteq Range(p)
<1> DEFINE w == Without(p, g)
<1>1. Len(p) \in Nat /\ Len(p) >= 1 /\ \A i \in 1..Len(p) : p[i] \in S
  OBVIOUS
<1>2. w \in [1..Len(p) - 1 -> S]
  BY <1>1 DEF Without
<1>3. w \in Seq(S) /\ Len(w) = Len(p) - 1 /\ DOMAIN w = 1..Len(p) - 1
  BY <1>1, <1>2
<1>4. \A i \in 1..Len(p) - 1 : Up(g, i) \in 1..Len(p) /\ Up(g, i) # g /\ w[i] = p[Up(g, i)]
  BY <1>1 DEF Without, Up
<1>5. \A j \in 1..Len(p) : j # g => Down(g, j) \in 1..Len(p) - 1 /\ w[Down(g, j)] = p[j]
  BY <1>1 DEF Without, Down
<1>6. Range(w) \subseteq Range(p)
  <2>1. \A i \in DOMAIN w : \E j \in DOMAIN p : w[i] = p[j]
    BY <1>1, <1>3, <1>4
  <2> HIDE DEF w
  <2> QED
    BY <2>1 DEF Range
<1> QED
  BY <1>3, <1>4, <1>5, <1>6

\* The three ways in which the pipe moves: its first command is taken, the one between the
\* maker and a full channel is dropped, and one enters the channel.
LEMMA PipeMoves ==
    ASSUME NEW S, NEW q \in Seq(S), NEW t \in Seq(S)
    PROVE  /\ q \o t \in Seq(S) /\ Len(q \o t) = Len(q) + Len(t)
           /\ Len(q) \in Nat /\ Len(t) \in Nat
           /\ q # <<>> => /\ Tail(q) \o t = Without(q \o t, 1) /\ (q \o t)[1] = Head(q)
                          /\ Len(q) >= 1
           /\ t # <<>> => /\ q \o Tail(t) = Without(q \o t, Len(q) + 1)
                          /\ (q \o t)[Len(q) + 1] = Head(t) /\ Len(t) >= 1
                          /\ Append(q, Head(t)) \o Tail(t) = q \o t
<1> DEFINE p == q \o t
<1>1. /\ p \in Seq(S) /\ Len(p) = Len(q) + Len(t) /\ Len(q) \in Nat /\ Len(t) \in Nat
      /\ \A i \in 1..Len(p) : p[i] = IF i <= Len(q) THEN q[i] ELSE t[i - Len(q)]
  OBVIOUS
<1>2. ASSUME q # <<>> PROVE /\ Tail(q) \o t = Without(p, 1) /\ p[1] = Head(q) /\ Len(q) >= 1
  <2>1. /\ Tail(q) \in Seq(S) /\ Len(Tail(q)) = Len(q) - 1 /\ Len(q) >= 1 /\ Head(q) = q[1]
        /\ \A i \in 1..Len(q) - 1 : Tail(q)[i] = q[i + 1]
    BY <1>2
  <2>2. p[1] = Head(q)
    BY <1>1, <2>1
  <2>3. Without(p, 1) \in Seq(S) /\ Len(Without(p, 1)) = Len(p) - 1
    <3>1. 1 \in 1..Len(p) /\ p \in Seq(S)
      BY <1>1, <2>1
    <3> HIDE DEF p
    <3> QED
      BY <3>1, WithoutFacts
  <2>4. Tail(q) \o t \in Seq(S) /\ Len(Tail(q) \o t) = Len(p) - 1
    BY <1>1, <2>1
  <2>5. ASSUME NEW i \in 1..Len(p) - 1 PROVE (Tail(q) \o t)[i] = p[i + 1]
    <3>1. CASE i <= Len(q) - 1
      BY <1>1, <2>1, <2>5, <3>1
    <3>2. CASE i > Len(q) - 1
      BY <1>1, <2>1, <2>5, <3>2
    <3> QED
      BY <1>1, <2>5, <3>1, <3>2
  <2>6. \A i \in 1..Len(p) - 1 : Without(p, 1)[i] = p[i + 1]
    BY <1>1 DEF Without
  <2>7. Tail(q) \o t = Without(p, 1)
    <3> DEFINE a == Tail(q) \o t
               b == Without(p, 1)
    <3>1. a \in Seq(S) /\ b \in Seq(S) /\ Len(a) = Len(b) /\ \A i \in 1..Len(a) : a[i] = b[i]
      BY <2>3, <2>4, <2>5, <2>6
    <3> HIDE DEF a, b
    <3>2. a = b
      BY <3>1
    <3> QED
      BY <3>2 DEF a, b
  <2> QED
    BY <2>1, <2>2, <2>7
<1>3. ASSUME t # <<>>
      PROVE  /\ q \o Tail(t) = Without(p, Len(q) + 1) /\ p[Len(q) + 1] = Head(t) /\ Len(t) >= 1
             /\ Append(q, Head(t)) \o Tail(t) = p
  <2>1. /\ Tail(t) \in Seq(S) /\ Len(Tail(t)) = Len(t) - 1 /\ Len(t) >= 1 /\ Head(t) = t[1]
        /\ \A i \in 1..Len(t) - 1 : Tail(t)[i] = t[i + 1]
    BY <1>3
  <2>2. p[Len(q) + 1] = Head(t)
    BY <1>1, <2>1
  <2> DEFINE a == q \o Tail(t)
             b == Without(p, Len(q) + 1)
             c == Append(q, Head(t)) \o Tail(t)
  <2>3. a \in Seq(S) /\ Len(a) = Len(p) - 1
    BY <1>1, <2>1
  <2>4. b \in Seq(S) /\ Len(b) = Len(p) - 1
    <3>1. Len(q) + 1 \in 1..Len(p) /\ p \in Seq(S)
      BY <1>1, <2>1
    <3> HIDE DEF p
    <3> QED
      BY <3>1, WithoutFacts
  <2>5. Head(t) \in S /\ Append(q, Head(t)) \in Seq(S) /\ Len(Append(q, Head(t))) = Len(q) + 1
    BY <2>1
  <2>6. c \in Seq(S) /\ Len(c) = Len(p)
    BY <1>1, <2>1, <2>5
  <2>7. ASSUME NEW i \in 1..Len(p) - 1
        PROVE  a[i] = IF i <= Len(q) THEN q[i] ELSE t[i + 1 - Len(q)]
    BY <1>1, <2>1, <2>7
  <2>8. ASSUME NEW i \in 1..Len(p) - 1
        PROVE  b[i] = IF i <= Len(q) THEN q[i] ELSE t[i + 1 - Len(q)]
    BY <1>1, <2>1, <2>8 DEF Without
  <2>9. ASSUME NEW i \in 1..Len(p) PROVE c[i] = p[i]
    <3>1. CASE i <= Len(q)
      BY <1>1, <2>1, <2>5, <2>9, <3>1
    <3>2. CASE i = Len(q) + 1
      BY <1>1, <2>1, <2>5, <2>9, <3>2
    <3>3. CASE i > Len(q) + 1
      <4>1. c[i] = Tail(t)[i - (Len(q) + 1)]
        BY <1>1, <2>1, <2>5, <2>9, <3>3
      <4>2. i - (Len(q) + 1) \in 1..Len(t) - 1 /\ i - (Len(q) + 1) + 1 = i - Len(q)
        BY <1>1, <2>1, <2>9, <3>3
      <4>3. Tail(t)[i - (Len(q) + 1)] = t[i - Len(q)]
        BY <2>1, <4>2
      <4>4. p[i] = t[i - Len(q)]
        BY <1>1, <2>9, <3>3
      <4> QED
        BY <4>1, <4>3, <4>4
    <3>4. i \in Nat /\ Len(q) \in Nat
      BY <1>1, <2>9
    <3> HIDE DEF c, p
    <3> QED
      BY <3>1, <3>2, <3>3, <3>4
  <2> HIDE DEF a, b, c, p
  <2>10. a = b
    BY <2>3, <2>4, <2>7, <2>8
  <2>11. c = p
    BY <1>1, <2>6, <2>9
  <2> QED
    BY <2>1, <2>2, <2>10, <2>11 DEF a, b, c
<1> QED
  BY <1>1, <1>2, <1>3

-----------------------------------------------------------------------------
(* The fate of an add.                                                      *)

\* The fate of an add survives the loss of another command, unless that was its cancel.
LEMMA FateWithout ==
    ASSUME NEW p \in Seq(Command), NEW g \in 1..Len(p), NEW a \in Add, NEW k \in 0..Len(p),
           NEW lost, NEW more, NEW tracked, lost \subseteq more, Fate(a, k, p, lost, tracked),
           p[g].op = "cancel" /\ p[g].id = a.id /\ g > k => a.id \in more
    PROVE  Fate(a, Down(g, k), Without(p, g), more, tracked)
<1> DEFINE w == Without(p, g)
<1>1. /\ Len(w) = Len(p) - 1 /\ Len(p) \in Nat
      /\ \A i \in 1..Len(p) - 1 : Up(g, i) \in 1..Len(p) /\ w[i] = p[Up(g, i)]
      /\ \A j \in 1..Len(p) : j # g => Down(g, j) \in 1..Len(p) - 1 /\ w[Down(g, j)] = p[j]
  <2>1. Len(p) \in Nat
    OBVIOUS
  <2> QED
    BY <2>1, WithoutFacts, Zenon
<1> HIDE DEF w
<1>2. SUFFICES ASSUME a.id \notin more, a.id # tracked[a.contract][a.side]
               PROVE  \E j \in 1..Len(w) :
                        /\ j > Down(g, k) /\ w[j].op = "cancel" /\ w[j].id = a.id
                        /\ \A i \in 1..j : w[i].op = "add" /\ Same(w[i], a) => w[i].id <= a.id
  <2>1. Fate(a, Down(g, k), w, more, tracked) <=>
          \/ a.id \in more \/ a.id = tracked[a.contract][a.side]
          \/ \E j \in 1..Len(w) :
               /\ j > Down(g, k) /\ w[j].op = "cancel" /\ w[j].id = a.id
               /\ \A i \in 1..j : w[i].op = "add" /\ Same(w[i], a) => w[i].id <= a.id
    BY Zenon DEF Fate
  <2> QED
    BY <2>1, Zenon DEF w
<1>3. PICK j \in 1..Len(p) :
         /\ j > k /\ p[j].op = "cancel" /\ p[j].id = a.id
         /\ \A i \in 1..j : p[i].op = "add" /\ Same(p[i], a) => p[i].id <= a.id
  BY <1>2 DEF Fate
<1>4. j # g
  BY <1>2, <1>3
<1>5. /\ Down(g, j) \in 1..Len(w) /\ Down(g, j) > Down(g, k) /\ w[Down(g, j)] = p[j]
  BY <1>1, <1>3, <1>4 DEF Down
<1>6. ASSUME NEW i \in 1..Down(g, j), w[i].op = "add", Same(w[i], a) PROVE w[i].id <= a.id
  <2>1. i \in 1..Len(p) - 1 /\ Up(g, i) \in 1..j /\ w[i] = p[Up(g, i)]
    BY <1>1, <1>4, <1>5, <1>6 DEF Down, Up
  <2> QED
    BY <1>3, <1>6, <2>1
<1> QED
  BY <1>3, <1>5, <1>6

quotes == <<adds, book, legs, nextId, queue, todo, orphans>>

\* A step that leaves the maker's orders alone.
LEMMA OrdersUnchanged ==
    ASSUME InvCore, UNCHANGED quotes
    PROVE  InvCore'
<1>1. /\ adds' = adds /\ book' = book /\ legs' = legs /\ nextId' = nextId /\ orphans' = orphans
      /\ Pipe' = Pipe /\ Journaled' = Journaled /\ Piped' = Piped /\ JournaledIds' = JournaledIds
  BY DEF quotes, Pipe, Piped, Journaled, JournaledIds
<1>2. InvIds'
  BY <1>1 DEF InvCore, InvIds, IdsNeverReused
<1>3. InvLegs'
  BY <1>1 DEF InvCore, InvLegs
<1>4. InvFate'
  BY <1>1 DEF InvCore, InvFate, Fate
<1>5. InvBoot'
  BY <1>1 DEF InvCore, InvBoot, Own
<1> QED
  BY <1>2, <1>3, <1>4, <1>5 DEF InvCore

\* What the types say of the adds in both places.
LEMMA AddsTyped ==
    ASSUME InvTypes
    PROVE  /\ Pipe \in Seq(Command) /\ Len(Pipe) \in Nat
           /\ \A i \in 1..Len(Pipe) : Pipe[i] \in Command /\ Pipe[i] \in Range(Pipe)
           /\ \A m \in Range(Pipe) : m \in Command /\ \E i \in 1..Len(Pipe) : m = Pipe[i]
           /\ \A m \in Command : /\ m.op = "add" => m \in Add
                                 /\ m.op # "add" => m \in Cancel /\ m.op = "cancel"
           /\ Piped \subseteq Add /\ Journaled \subseteq Add
           /\ \A u \in Book : /\ adds[u] \in Seq(Add) /\ Len(adds[u]) \in Nat
                              /\ Range(adds[u]) \subseteq Journaled
                              /\ \A i \in 1..Len(adds[u]) : adds[u][i] \in Range(adds[u])
                              /\ \A a \in Range(adds[u]) : a.u = u /\ \E i \in 1..Len(adds[u]) : a = adds[u][i]
           /\ \A a \in Journaled : a.u \in Book /\ a \in Range(adds[a.u])
<1>1. Pipe \in Seq(Command) /\ Len(Pipe) \in Nat
  BY PipeMoves DEF InvTypes, Pipe
<1>2. /\ \A i \in 1..Len(Pipe) : Pipe[i] \in Command /\ Pipe[i] \in Range(Pipe)
      /\ \A m \in Range(Pipe) : m \in Command /\ \E i \in 1..Len(Pipe) : m = Pipe[i]
  BY <1>1, SeqElement
<1>3. \A m \in Command : /\ m.op = "add" => m \in Add
                         /\ m.op # "add" => m \in Cancel /\ m.op = "cancel"
  BY DEF Command, Add, Cancel
<1>4. Piped \subseteq Add
  BY <1>2, <1>3 DEF Piped
<1>5. ASSUME NEW u \in Book
      PROVE  /\ adds[u] \in Seq(Add) /\ Len(adds[u]) \in Nat
             /\ Range(adds[u]) \subseteq Journaled
             /\ \A i \in 1..Len(adds[u]) : adds[u][i] \in Range(adds[u])
             /\ \A a \in Range(adds[u]) : a \in Add /\ a.u = u /\ \E i \in 1..Len(adds[u]) : a = adds[u][i]
  <2>1. adds[u] \in Seq(Add)
    BY DEF InvTypes
  <2>2. /\ Len(adds[u]) \in Nat
        /\ \A i \in 1..Len(adds[u]) : adds[u][i] \in Range(adds[u])
        /\ \A a \in Range(adds[u]) : a \in Add /\ \E i \in 1..Len(adds[u]) : a = adds[u][i]
    BY <2>1, SeqElement
  <2>3. Range(adds[u]) \subseteq Journaled
    BY DEF Journaled
  <2>4. \A i \in 1..Len(adds[u]) : adds[u][i].u = u
    BY DEF InvTypes
  <2>5. \A a \in Range(adds[u]) : a.u = u
    BY <2>2, <2>4
  <2> QED
    BY <2>1, <2>2, <2>3, <2>5
<1>6. ASSUME NEW a \in Journaled PROVE a \in Add /\ a.u \in Book /\ a \in Range(adds[a.u])
  <2>1. PICK u \in Book : a \in Range(adds[u])
    BY DEF Journaled
  <2>2. a \in Add /\ a.u = u
    BY <1>5, <2>1
  <2> QED
    BY <2>1, <2>2
<1>7. Journaled \subseteq Add /\ \A a \in Journaled : a.u \in Book /\ a \in Range(adds[a.u])
  BY <1>6
<1>8. \A u \in Book :
         /\ adds[u] \in Seq(Add) /\ Len(adds[u]) \in Nat
         /\ Range(adds[u]) \subseteq Journaled
         /\ \A i \in 1..Len(adds[u]) : adds[u][i] \in Range(adds[u])
         /\ \A a \in Range(adds[u]) : a.u = u /\ \E i \in 1..Len(adds[u]) : a = adds[u][i]
  <2>1. \A u \in Book : adds[u] \in Seq(Add) /\ Len(adds[u]) \in Nat
    BY <1>5
  <2>2. \A u \in Book : Range(adds[u]) \subseteq Journaled
    BY <1>5
  <2>3. \A u \in Book : \A i \in 1..Len(adds[u]) : adds[u][i] \in Range(adds[u])
    BY <1>5
  <2>4. \A u \in Book : \A a \in Range(adds[u]) : a.u = u /\ \E i \in 1..Len(adds[u]) : a = adds[u][i]
    <3>1. ASSUME NEW u \in Book PROVE \A a \in Range(adds[u]) : a.u = u
      BY <1>5
    <3>2. ASSUME NEW u \in Book PROVE \A a \in Range(adds[u]) : \E i \in 1..Len(adds[u]) : a = adds[u][i]
      BY <1>5
    <3> QED
      BY <3>1, <3>2, Zenon
  <2> QED
    BY <2>1, <2>2, <2>3, <2>4, Zenon
<1> QED
  BY <1>1, <1>2, <1>3, <1>4, <1>7, <1>8, ZenonT(60)

-----------------------------------------------------------------------------
(* The steps of the orders.                                                 *)

\* What a command that leaves the pipe means for those that stay in it.
LEMMA PipeKeeps ==
    ASSUME InvTypes, InvCore, NEW g \in 1..Len(Pipe), Pipe' = Without(Pipe, g),
           UNCHANGED legs, orphans \subseteq orphans',
           Pipe[g].op = "cancel" => Pipe[g].id \in orphans' \/ g = 1
    PROVE  /\ Range(Pipe') \subseteq Range(Pipe) /\ Piped' \subseteq Piped
           /\ \A i \in 1..Len(Pipe') : Up(g, i) \in 1..Len(Pipe) /\ Pipe'[i] = Pipe[Up(g, i)]
           /\ \A i, j \in 1..Len(Pipe') : i < j /\ Pipe'[i].op = "add" /\ Pipe'[j].op = "add"
                => Pipe'[i].id < Pipe'[j].id
           /\ \A k \in 1..Len(Pipe') :
                Pipe'[k].op = "add" => Fate(Pipe'[k], k, Pipe', orphans', legs')
<1>1. /\ Pipe \in Seq(Command) /\ Len(Pipe) \in Nat
      /\ \A i \in 1..Len(Pipe) : Pipe[i] \in Command
      /\ \A m \in Command : m.op = "add" => m \in Add
  BY AddsTyped
<1>2. /\ Len(Pipe') = Len(Pipe) - 1
      /\ \A i \in 1..Len(Pipe') : Up(g, i) \in 1..Len(Pipe) /\ Up(g, i) # g /\ Pipe'[i] = Pipe[Up(g, i)]
      /\ Range(Pipe') \subseteq Range(Pipe)
  <2>1. /\ Len(Without(Pipe, g)) = Len(Pipe) - 1
        /\ \A i \in 1..Len(Pipe) - 1 :
             Up(g, i) \in 1..Len(Pipe) /\ Up(g, i) # g /\ Without(Pipe, g)[i] = Pipe[Up(g, i)]
        /\ Range(Without(Pipe, g)) \subseteq Range(Pipe)
    <3>1. Pipe \in Seq(Command)
      BY <1>1
    <3> QED
      BY <3>1, WithoutFacts
  <2> QED
    BY <2>1, Zenon
<1>3. Piped' \subseteq Piped
  BY <1>2 DEF Piped
<1>4. ASSUME NEW i \in 1..Len(Pipe'), NEW j \in 1..Len(Pipe'), i < j,
             Pipe'[i].op = "add", Pipe'[j].op = "add"
      PROVE  Pipe'[i].id < Pipe'[j].id
  <2>1. Up(g, i) < Up(g, j)
    BY <1>1, <1>2, <1>4 DEF Up
  <2>2. /\ Up(g, i) \in 1..Len(Pipe) /\ Pipe'[i] = Pipe[Up(g, i)]
        /\ Up(g, j) \in 1..Len(Pipe) /\ Pipe'[j] = Pipe[Up(g, j)]
    BY <1>2
  <2> QED
    BY <1>4, <2>1, <2>2 DEF InvCore, InvIds
<1>5. ASSUME NEW k \in 1..Len(Pipe'), Pipe'[k].op = "add"
      PROVE  Fate(Pipe'[k], k, Pipe', orphans', legs')
  <2> DEFINE l == Up(g, k)
  <2>1. l \in 1..Len(Pipe) /\ l # g /\ Pipe'[k] = Pipe[l] /\ k \in 1..Len(Pipe) - 1
    BY <1>2
  <2>2. l \in 0..Len(Pipe) /\ Down(g, l) = k /\ (g = 1 => l > g)
    BY <1>1, <2>1 DEF Down, Up
  <2> HIDE DEF l
  <2>3. Pipe[l] \in Add /\ Fate(Pipe[l], l, Pipe, orphans, legs)
    BY <1>1, <1>5, <2>1 DEF InvCore, InvFate
  <2>4. Pipe[g].op = "cancel" /\ Pipe[g].id = Pipe[l].id /\ g > l => Pipe[l].id \in orphans'
    BY <1>1, <2>1, <2>2
  <2>5. Fate(Pipe[l], Down(g, l), Without(Pipe, g), orphans', legs)
    BY <1>1, <2>1, <2>2, <2>3, <2>4, FateWithout
  <2> QED
    BY <2>1, <2>2, <2>5
<1> QED
  BY <1>2, <1>3, <1>4, <1>5

\* The pipe loses a command that leaves the journals alone: a cancel was executed and nothing
\* rests under its id, or it was dropped; or an add was dropped.
LEMMA PipeLoses ==
    ASSUME InvTypes, InvCore, NEW g \in 1..Len(Pipe), Pipe' = Without(Pipe, g),
           UNCHANGED <<adds, legs, nextId>>, orphans \subseteq orphans',
           \A u \in Book : book'[u] \subseteq book[u],
           Pipe[g].op = "cancel" =>
              \/ Pipe[g].id \in orphans'
              \/ g = 1 /\ \A u \in Book : \A a \in Range(adds[u]) :
                    a.id = Pipe[g].id => a.id \notin book'[u]
    PROVE  InvCore'
<1>1. /\ adds' = adds /\ legs' = legs /\ nextId' = nextId
      /\ Journaled' = Journaled /\ JournaledIds' = JournaledIds
  BY DEF Journaled, JournaledIds
<1>2. /\ Pipe \in Seq(Command) /\ Len(Pipe) \in Nat
      /\ \A u \in Book : Range(adds[u]) \subseteq Add
  BY AddsTyped
<1>3. /\ Range(Pipe') \subseteq Range(Pipe) /\ Piped' \subseteq Piped
      /\ \A i, j \in 1..Len(Pipe') : i < j /\ Pipe'[i].op = "add" /\ Pipe'[j].op = "add"
           => Pipe'[i].id < Pipe'[j].id
      /\ \A k \in 1..Len(Pipe') :
           Pipe'[k].op = "add" => Fate(Pipe'[k], k, Pipe', orphans', legs')
  BY PipeKeeps
<1>4. InvIds'
  <2>1. \A a \in Journaled' \cup Range(Pipe') : a.id \in 1..nextId'
    BY <1>1, <1>3 DEF InvCore, InvIds
  <2>2. \A a \in Journaled', b \in Piped' : a.id < b.id
    BY <1>1, <1>3 DEF InvCore, InvIds
  <2>3. \A u \in Book : \A i, j \in 1..Len(adds'[u]) : i < j => adds'[u][i].id < adds'[u][j].id
    BY <1>1 DEF InvCore, InvIds
  <2>4. IdsNeverReused'
    BY <1>1 DEF InvCore, InvIds, IdsNeverReused
  <2> QED
    BY <1>3, <2>1, <2>2, <2>3, <2>4 DEF InvIds
<1>5. InvLegs'
  BY <1>1, <1>3 DEF InvCore, InvLegs
<1>6. InvFate'
  <2>1. \A u \in Book : \A x \in book'[u] : \E a \in Range(adds'[u]) : a.id = x
    BY <1>1 DEF InvCore, InvFate
  <2>2. ASSUME NEW u \in Book, NEW a \in Range(adds[u]), a.id \in book'[u]
        PROVE  /\ Fate(a, 0, Pipe', orphans', legs)
               /\ a.id \notin orphans' => \A b \in Range(adds[u]) : Same(a, b) => b.id <= a.id
    <3>1. /\ a.id \in book[u] /\ Fate(a, 0, Pipe, orphans, legs)
          /\ a.id \notin orphans => \A b \in Range(adds[u]) : Same(a, b) => b.id <= a.id
      BY <2>2 DEF InvCore, InvFate
    <3>2. 0 \in 0..Len(Pipe) /\ Down(g, 0) = 0
      BY <1>2 DEF Down
    <3>3. Pipe[g].op = "cancel" /\ Pipe[g].id = a.id /\ g > 0 => a.id \in orphans'
      BY <2>2
    <3>4. Fate(a, Down(g, 0), Without(Pipe, g), orphans', legs)
      BY <1>2, <2>2, <3>1, <3>2, <3>3, FateWithout
    <3> QED
      BY <3>1, <3>2, <3>4
  <2> QED
    BY <1>1, <1>3, <2>1, <2>2 DEF InvFate
<1>7. InvBoot'
  BY <1>1 DEF InvCore, InvBoot, Own
<1> QED
  BY <1>4, <1>5, <1>6, <1>7 DEF InvCore

\* A client takes a quote off a book.
LEMMA BookShrinks ==
    ASSUME InvTypes, InvCore, UNCHANGED <<adds, legs, nextId, queue, todo, orphans>>,
           \A u \in Book : book'[u] \subseteq book[u]
    PROVE  InvCore'
<1>1. /\ adds' = adds /\ legs' = legs /\ nextId' = nextId /\ orphans' = orphans
      /\ Pipe' = Pipe /\ Journaled' = Journaled /\ Piped' = Piped /\ JournaledIds' = JournaledIds
  BY DEF Pipe, Piped, Journaled, JournaledIds
<1>2. InvIds'
  BY <1>1 DEF InvCore, InvIds, IdsNeverReused
<1>3. InvLegs'
  BY <1>1 DEF InvCore, InvLegs
<1>4. InvFate'
  <2>1. \A u \in Book : \A x \in book'[u] : \E a \in Range(adds[u]) : a.id = x
    BY DEF InvCore, InvFate
  <2>2. ASSUME NEW u \in Book, NEW a \in Range(adds[u]), a.id \in book'[u]
        PROVE  /\ Fate(a, 0, Pipe, orphans, legs)
               /\ a.id \notin orphans => \A b \in Range(adds[u]) : Same(a, b) => b.id <= a.id
    BY <2>2 DEF InvCore, InvFate
  <2>3. \A k \in 1..Len(Pipe) : Pipe[k].op = "add" => Fate(Pipe[k], k, Pipe, orphans, legs)
    BY DEF InvCore, InvFate
  <2> QED
    BY <1>1, <2>1, <2>2, <2>3 DEF InvFate
<1>5. InvBoot'
  BY <1>1 DEF InvCore, InvBoot, Own
<1> QED
  BY <1>2, <1>3, <1>4, <1>5 DEF InvCore

\* An element enters a sequence at its end.
LEMMA AppendFacts ==
    ASSUME NEW S, NEW q \in Seq(S), NEW x \in S
    PROVE  /\ Append(q, x) \in Seq(S) /\ Len(Append(q, x)) = Len(q) + 1 /\ Len(q) \in Nat
           /\ \A i \in 1..Len(q) : Append(q, x)[i] = q[i]
           /\ Append(q, x)[Len(q) + 1] = x
           /\ Range(Append(q, x)) = Range(q) \cup {x}
<1> DEFINE r == Append(q, x)
<1>1. /\ r \in Seq(S) /\ Len(r) = Len(q) + 1 /\ Len(q) \in Nat
      /\ \A i \in 1..Len(q) : r[i] = q[i]
      /\ r[Len(q) + 1] = x /\ DOMAIN r = 1..Len(q) + 1 /\ DOMAIN q = 1..Len(q)
  OBVIOUS
<1> HIDE DEF r
<1>2. Range(r) = Range(q) \cup {x}
  <2>1. \A i \in DOMAIN r : r[i] = x \/ \E j \in DOMAIN q : r[i] = q[j]
    BY <1>1
  <2>2. \A j \in DOMAIN q : j \in DOMAIN r /\ r[j] = q[j]
    BY <1>1
  <2>3. Len(q) + 1 \in DOMAIN r
    BY <1>1
  <2> QED
    BY <1>1, <2>1, <2>2, <2>3 DEF Range
<1> QED
  BY <1>1, <1>2 DEF r

\* The first command of the pipe is an add and is journaled: it rests as the last of its
\* contract and side, because the cancels of those before it have left the pipe.
LEMMA AddJournaled ==
    ASSUME InvTypes, InvCore, Len(Pipe) >= 1, Pipe[1].op = "add", Pipe' = Without(Pipe, 1),
           adds' = [adds EXCEPT ![Pipe[1].u] = Append(@, Pipe[1])],
           book' = [book EXCEPT ![Pipe[1].u] = @ \cup {Pipe[1].id}],
           UNCHANGED <<legs, nextId, orphans>>
    PROVE  InvCore'
<1> DEFINE m == Pipe[1]
<1>1. /\ Pipe \in Seq(Command) /\ Len(Pipe) \in Nat /\ 1 \in 1..Len(Pipe)
      /\ m \in Add /\ m \in Piped /\ m \in Range(Pipe)
      /\ Journaled \subseteq Add
      /\ \A a \in Journaled : a.u \in Book /\ a \in Range(adds[a.u])
      /\ \A u \in Book : /\ adds[u] \in Seq(Add) /\ Len(adds[u]) \in Nat
                         /\ Range(adds[u]) \subseteq Journaled
                         /\ \A i \in 1..Len(adds[u]) : adds[u][i] \in Range(adds[u])
  BY AddsTyped DEF Piped
<1>2. /\ m.u \in Book /\ m.id \in Nat /\ m.op = "add"
      /\ \A a \in Journaled : a.id \in Nat /\ a.id < m.id
      /\ legs' = legs /\ nextId' = nextId /\ orphans' = orphans
  BY <1>1 DEF Add, InvCore, InvIds
<1>3. /\ Range(Pipe') \subseteq Range(Pipe) /\ Piped' \subseteq Piped
      /\ \A i \in 1..Len(Pipe') : Up(1, i) \in 1..Len(Pipe) /\ Pipe'[i] = Pipe[Up(1, i)]
      /\ \A i, j \in 1..Len(Pipe') : i < j /\ Pipe'[i].op = "add" /\ Pipe'[j].op = "add"
           => Pipe'[i].id < Pipe'[j].id
      /\ \A k \in 1..Len(Pipe') :
           Pipe'[k].op = "add" => Fate(Pipe'[k], k, Pipe', orphans', legs')
  BY <1>1, <1>2, PipeKeeps
<1>4. \A b \in Piped' : m.id < b.id
  <2>1. ASSUME NEW b \in Piped' PROVE m.id < b.id
    <3>1. Pipe' \in Seq(Command)
      BY <1>1, WithoutFacts
    <3>2. PICK i \in 1..Len(Pipe') : b = Pipe'[i]
      BY <3>1, SeqElement DEF Piped
    <3>3. Up(1, i) > 1 /\ Up(1, i) \in 1..Len(Pipe) /\ b = Pipe[Up(1, i)] /\ b.op = "add"
      BY <1>1, <1>3, <3>2, <2>1 DEF Up, Piped
    <3> QED
      BY <1>1, <1>2, <3>3 DEF InvCore, InvIds
  <2> QED
    BY <2>1
<1> DEFINE n == Len(adds[m.u])
<1>5. /\ \A u \in Book : u # m.u => adds'[u] = adds[u] /\ book'[u] = book[u]
      /\ adds'[m.u] = Append(adds[m.u], m) /\ book'[m.u] = book[m.u] \cup {m.id}
  BY <1>1, <1>2 DEF InvTypes
<1>6. /\ Len(adds'[m.u]) = n + 1 /\ n \in Nat /\ adds'[m.u][n + 1] = m
      /\ \A i \in 1..n : adds'[m.u][i] = adds[m.u][i] /\ adds[m.u][i] \in Journaled
      /\ Range(adds'[m.u]) = Range(adds[m.u]) \cup {m}
  BY <1>1, <1>2, <1>5, AppendFacts
<1> HIDE DEF m, n
<1>7. Journaled' = Journaled \cup {m} /\ JournaledIds' = JournaledIds \cup {m.id}
  <2>1. /\ Range(adds'[m.u]) = Range(adds[m.u]) \cup {m}
        /\ \A u \in Book : u # m.u => Range(adds'[u]) = Range(adds[u])
    BY <1>5, <1>6
  <2>2. Journaled' = Journaled \cup {m}
    <3>1. ASSUME NEW a \in Journaled' PROVE a \in Journaled \cup {m}
      <4>1. PICK u \in Book : a \in Range(adds'[u])
        BY <3>1 DEF Journaled
      <4> QED
        BY <2>1, <4>1 DEF Journaled
    <3>2. ASSUME NEW a \in Journaled \cup {m} PROVE a \in Journaled'
      <4>1. PICK u \in Book : a \in Range(adds[u]) \/ (a = m /\ u = m.u)
        BY <1>2, <3>2 DEF Journaled
      <4>2. a \in Range(adds'[u])
        BY <2>1, <4>1
      <4> QED
        BY <4>2 DEF Journaled
    <3> QED
      BY <3>1, <3>2
  <2>3. JournaledIds = {r.id : r \in Journaled} /\ JournaledIds' = {r.id : r \in Journaled'}
    BY DEF Journaled, JournaledIds
  <2> QED
    BY <2>2, <2>3
<1>8. InvIds'
  <2>1. \A a \in Journaled' \cup Range(Pipe') : a.id \in 1..nextId'
    BY <1>1, <1>2, <1>3, <1>7 DEF InvCore, InvIds
  <2>2. \A a \in Journaled', b \in Piped' : a.id < b.id
    BY <1>2, <1>3, <1>4, <1>7 DEF InvCore, InvIds
  <2>3. ASSUME NEW u \in Book, NEW i \in 1..Len(adds'[u]), NEW j \in 1..Len(adds'[u]), i < j
        PROVE  adds'[u][i].id < adds'[u][j].id
    <3>1. CASE u # m.u
      BY <1>5, <2>3, <3>1 DEF InvCore, InvIds
    <3>2. CASE u = m.u /\ j = n + 1
      BY <1>2, <1>6, <2>3, <3>2
    <3>3. CASE u = m.u /\ j # n + 1
      <4>1. i \in 1..n /\ j \in 1..n
        BY <1>6, <2>3, <3>3
      <4> QED
        BY <1>2, <1>6, <2>3, <3>3, <4>1 DEF InvCore, InvIds, n
    <3> QED
      BY <3>1, <3>2, <3>3
  <2>4. IdsNeverReused'
    <3>1. ASSUME NEW u \in Book, NEW v \in Book,
                 NEW i \in 1..Len(adds'[u]), NEW j \in 1..Len(adds'[v]),
                 adds'[u][i].id = adds'[v][j].id
          PROVE  u = v /\ i = j
      <4>1. /\ (u = m.u /\ i = n + 1 /\ adds'[u][i] = m)
               \/ (i \in 1..Len(adds[u]) /\ adds'[u][i] = adds[u][i] /\ adds[u][i] \in Journaled)
        BY <1>1, <1>5, <1>6, <3>1 DEF n
      <4>2. /\ (v = m.u /\ j = n + 1 /\ adds'[v][j] = m)
               \/ (j \in 1..Len(adds[v]) /\ adds'[v][j] = adds[v][j] /\ adds[v][j] \in Journaled)
        BY <1>1, <1>5, <1>6, <3>1 DEF n
      <4>3. \A a \in Journaled : a.id < m.id /\ a.id \in Nat
        BY <1>1, <1>2
      <4>4. m.id \in Nat
        BY <1>2
      <4>5. CASE u = m.u /\ i = n + 1 /\ adds'[u][i] = m
        <5>1. CASE adds'[v][j] = adds[v][j] /\ adds[v][j] \in Journaled
          <6>1. adds[v][j].id = m.id
            BY <3>1, <4>5, <5>1
          <6>2. adds[v][j].id < m.id /\ adds[v][j].id \in Nat
            BY <4>3, <5>1
          <6> QED
            BY <4>4, <6>1, <6>2
        <5> QED
          BY <4>2, <4>5, <5>1
      <4>6. CASE v = m.u /\ j = n + 1 /\ adds'[v][j] = m
        <5>1. CASE adds'[u][i] = adds[u][i] /\ adds[u][i] \in Journaled
          <6>1. adds[u][i].id = m.id
            BY <3>1, <4>6, <5>1
          <6>2. adds[u][i].id < m.id /\ adds[u][i].id \in Nat
            BY <4>3, <5>1
          <6> QED
            BY <4>4, <6>1, <6>2
        <5> QED
          BY <4>1, <4>6, <5>1
      <4>7. CASE /\ i \in 1..Len(adds[u]) /\ adds'[u][i] = adds[u][i]
                 /\ j \in 1..Len(adds[v]) /\ adds'[v][j] = adds[v][j]
        BY <3>1, <4>7 DEF InvCore, InvIds, IdsNeverReused
      <4> QED
        BY <4>1, <4>2, <4>5, <4>6, <4>7
    <3> QED
      BY <3>1 DEF IdsNeverReused
  <2> QED
    BY <1>3, <2>1, <2>2, <2>3, <2>4 DEF InvIds
<1>9. InvLegs'
  <2>1. Journaled' \cup Piped' \subseteq Journaled \cup Piped
    BY <1>1, <1>3, <1>7
  <2> QED
    BY <1>2, <1>3, <2>1 DEF InvCore, InvLegs
<1>10. InvFate'
  <2>1. ASSUME NEW u \in Book, NEW x \in book'[u] PROVE \E a \in Range(adds'[u]) : a.id = x
    <3>1. CASE u = m.u
      BY <1>5, <1>6, <2>1, <3>1 DEF InvCore, InvFate
    <3>2. CASE u # m.u
      BY <1>5, <2>1, <3>2 DEF InvCore, InvFate
    <3> QED
      BY <3>1, <3>2
  <2>2. ASSUME NEW u \in Book, NEW a \in Range(adds[u]), a.id \in book'[u]
        PROVE  /\ Fate(a, 0, Pipe', orphans', legs')
               /\ a.id \notin orphans' => \A b \in Range(adds'[u]) : Same(a, b) => b.id <= a.id
    <3>1. a \in Add /\ a.id \in Nat /\ a.id < m.id /\ a.id \in book[u]
      BY <1>1, <1>2, <1>5, <2>2
    <3>2. /\ Fate(a, 0, Pipe, orphans, legs)
          /\ a.id \notin orphans => \A b \in Range(adds[u]) : Same(a, b) => b.id <= a.id
      BY <2>2, <3>1 DEF InvCore, InvFate
    <3>3. 0 \in 0..Len(Pipe) /\ Down(1, 0) = 0
      BY <1>1 DEF Down
    <3>4. Fate(a, Down(1, 0), Without(Pipe, 1), orphans, legs)
      BY <1>1, <1>2, <3>1, <3>2, <3>3, FateWithout DEF m
    <3>5. ASSUME a.id \notin orphans, Same(a, m) PROVE FALSE
      <4>1. a.id # legs[a.contract][a.side]
        <5>1. legs[m.contract][m.side] # None /\ m.id <= legs[m.contract][m.side]
          BY <1>1 DEF InvCore, InvLegs
        <5> QED
          BY <1>2, <3>1, <3>5, <5>1 DEF Same
      <4>2. PICK j \in 1..Len(Pipe) :
              \A i \in 1..j : Pipe[i].op = "add" /\ Same(Pipe[i], a) => Pipe[i].id <= a.id
        BY <3>2, <3>5, <4>1 DEF Fate
      <4>3. m.id <= a.id
        BY <1>1, <1>2, <3>5, <4>2 DEF m, Same
      <4> QED
        BY <1>2, <3>1, <4>3
    <3>6. a.id \notin orphans => \A b \in Range(adds'[u]) : Same(a, b) => b.id <= a.id
      <4>1. Range(adds'[u]) \subseteq Range(adds[u]) \cup {m}
        BY <1>5, <1>6
      <4> QED
        BY <3>2, <3>5, <4>1
    <3> QED
      BY <1>2, <3>3, <3>4, <3>6
  <2>3. ASSUME m.id \in book'[m.u]
        PROVE  /\ Fate(m, 0, Pipe', orphans', legs')
               /\ \A b \in Range(adds'[m.u]) : Same(m, b) => b.id <= m.id
    <3>1. Fate(m, 1, Pipe, orphans, legs)
      BY <1>1, <1>2 DEF InvCore, InvFate, m
    <3>2. 1 \in 0..Len(Pipe) /\ Down(1, 1) = 0
      BY <1>1 DEF Down
    <3>3. Fate(m, Down(1, 1), Without(Pipe, 1), orphans, legs)
      BY <1>1, <1>2, <3>1, <3>2, FateWithout DEF m
    <3>4. \A b \in Range(adds'[m.u]) : b.id <= m.id
      <4>1. \A b \in Range(adds'[m.u]) : b = m \/ b \in Journaled
        BY <1>1, <1>2, <1>6
      <4> QED
        BY <1>2, <4>1
    <3> QED
      BY <1>2, <3>2, <3>3, <3>4
  <2>4. ASSUME NEW u \in Book, NEW a \in Range(adds'[u]), a.id \in book'[u]
        PROVE  /\ Fate(a, 0, Pipe', orphans', legs')
               /\ a.id \notin orphans' => \A b \in Range(adds'[u]) : Same(a, b) => b.id <= a.id
    <3>1. a \in Range(adds[u]) \/ (u = m.u /\ a = m)
      BY <1>5, <1>6, <2>4
    <3> QED
      BY <2>2, <2>3, <2>4, <3>1
  <2> QED
    BY <1>3, <2>1, <2>4 DEF InvFate
<1>11. InvBoot'
  <2>1. ASSUME NEW u \in Book, NEW c \in Contract, NEW s \in Side
        PROVE  Own(u, c, s)' = {} \/ HasMax(Own(u, c, s)')
    <3>1. CASE u # m.u
      BY <1>5, <3>1 DEF InvCore, InvBoot, Own
    <3>2. CASE u = m.u /\ m.contract = c /\ m.side = s
      <4>1. n + 1 \in Own(u, c, s)' /\ \A i \in Own(u, c, s)' : i <= n + 1
        BY <1>6, <3>2 DEF Own
      <4> QED
        BY <4>1 DEF HasMax
    <3>3. CASE u = m.u /\ ~(m.contract = c /\ m.side = s)
      <4>1. Own(u, c, s)' = Own(u, c, s)
        BY <1>6, <3>3 DEF Own, n
      <4> QED
        BY <4>1 DEF InvCore, InvBoot
    <3> QED
      BY <3>1, <3>2, <3>3
  <2>2. HasMax({0} \cup JournaledIds')
    <3>1. JournaledIds = {r.id : r \in Journaled}
      BY DEF Journaled, JournaledIds
    <3>2. \A x \in {0} \cup JournaledIds' : x <= m.id
      BY <1>2, <1>7, <3>1
    <3>3. m.id \in {0} \cup JournaledIds'
      BY <1>7
    <3> QED
      BY <3>2, <3>3 DEF HasMax
  <2> QED
    BY <2>1, <2>2 DEF InvBoot
<1> QED
  BY <1>8, <1>9, <1>10, <1>11 DEF InvCore

\* One sequence after the other.
LEMMA ConcatFacts ==
    ASSUME NEW S, NEW q \in Seq(S), NEW t \in Seq(S)
    PROVE  /\ q \o t \in Seq(S) /\ Len(q \o t) = Len(q) + Len(t) /\ Len(q) \in Nat
           /\ \A i \in 1..Len(q) : (q \o t)[i] = q[i]
           /\ \A i \in 1..Len(t) : (q \o t)[Len(q) + i] = t[i]
<1>1. /\ q \o t \in Seq(S) /\ Len(q \o t) = Len(q) + Len(t) /\ Len(q) \in Nat /\ Len(t) \in Nat
      /\ \A i \in 1..Len(q) + Len(t) : (q \o t)[i] = IF i <= Len(q) THEN q[i] ELSE t[i - Len(q)]
  OBVIOUS
<1>2. ASSUME NEW i \in 1..Len(t) PROVE (q \o t)[Len(q) + i] = t[i]
  <2>1. Len(q) + i \in 1..Len(q) + Len(t) /\ ~(Len(q) + i <= Len(q)) /\ (Len(q) + i) - Len(q) = i
    BY <1>1
  <2> QED
    BY <1>1, <2>1
<1> QED
  BY <1>1, <1>2

\* The cancels of a requote: one for each leg there was.
LEMMA CancelsFacts ==
    ASSUME NEW u \in Book, NEW old \in [Side -> Nat \cup {None}]
    PROVE  /\ CancelsOf(u, old) \in Seq(Cancel) /\ Len(CancelsOf(u, old)) \in Nat
           /\ \A i \in 1..Len(CancelsOf(u, old)) :
                /\ CancelsOf(u, old)[i] \in Cancel /\ CancelsOf(u, old)[i].u = u
                /\ \E s \in Side : CancelsOf(u, old)[i].id = old[s]
           /\ \A s \in Side : old[s] # None =>
                \E i \in 1..Len(CancelsOf(u, old)) : CancelsOf(u, old)[i].id = old[s]
<1> DEFINE b == old["bid"]
           a == old["ask"]
<1>1. /\ b \in Nat \cup {None} /\ a \in Nat \cup {None}
      /\ b # None => CancelOf(u, b) \in Cancel /\ CancelOf(u, b).id = b /\ CancelOf(u, b).u = u
      /\ a # None => CancelOf(u, a) \in Cancel /\ CancelOf(u, a).id = a /\ CancelOf(u, a).u = u
  BY DEF Side, Cancel, CancelOf
<1>2. Side = {"bid", "ask"} /\ "bid" \in Side /\ "ask" \in Side
  BY DEF Side
<1>3. CASE b = None /\ a = None
  <2>1. CancelsOf(u, old) = <<>>
    BY <1>3 DEF CancelsOf
  <2> QED
    BY <1>2, <1>3, <2>1
<1>4. CASE b # None /\ a = None
  <2>1. CancelsOf(u, old) = <<CancelOf(u, b)>>
    BY <1>4 DEF CancelsOf
  <2> QED
    BY <1>1, <1>2, <1>4, <2>1
<1>5. CASE b = None /\ a # None
  <2>1. CancelsOf(u, old) = <<CancelOf(u, a)>>
    BY <1>5 DEF CancelsOf
  <2> QED
    BY <1>1, <1>2, <1>5, <2>1
<1>6. CASE b # None /\ a # None
  <2> DEFINE q == <<CancelOf(u, b)>> \o <<CancelOf(u, a)>>
  <2>1. CancelsOf(u, old) = q
    BY <1>6 DEF CancelsOf
  <2>2. /\ q \in Seq(Cancel) /\ Len(q) = 2 /\ q[1] = CancelOf(u, b) /\ q[2] = CancelOf(u, a)
    BY <1>1, <1>6
  <2> HIDE DEF q
  <2> QED
    BY <1>1, <1>2, <1>6, <2>1, <2>2 DEF q
<1> QED
  BY <1>3, <1>4, <1>5, <1>6

LEMMA NoneIsNoId == \A i \in Nat : i # None
BY MakerAssumption

\* A contract has one underlying.
LEMMA OneUnderlying ==
    ASSUME NEW c, NEW u \in Book, NEW v \in Book,
           c \in Range(Contracts[u]), c \in Range(Contracts[v])
    PROVE  u = v
BY MakerAssumption

\* What a requote of a contract c of u appends to the pipe: cancels C, then two adds.
RequoteShape(u, c, C, n) ==
    LET L == Len(Pipe)
        K == Len(C)
        a1 == AddOf(u, c, "bid", nextId + 1, n)
        a2 == AddOf(u, c, "ask", nextId + 2, n)
    IN  /\ u = drive.step.u /\ n = drive.step.n /\ c \in Range(Contracts[u])
        /\ K \in Nat /\ L \in Nat /\ a1 \in Add /\ a2 \in Add
        /\ \A i \in 1..K : C[i] \in Cancel /\ C[i].u = u /\ \E s \in Side : C[i].id = legs[c][s]
        /\ \A s \in Side : legs[c][s] # None => \E i \in 1..K : C[i].id = legs[c][s]
        /\ Len(Pipe') = L + K + 2 /\ Pipe' \in Seq(Command) /\ todo' \in Seq(Command)
        /\ \A i \in 1..L : Pipe'[i] = Pipe[i]
        /\ \A i \in 1..K : Pipe'[L + i] = C[i]
        /\ Pipe'[L + K + 1] = a1 /\ Pipe'[L + K + 2] = a2
        /\ legs' = [legs EXCEPT ![c] = [s \in Side |-> IF s = "bid" THEN nextId + 1
                                                       ELSE nextId + 2]]
        /\ nextId' = nextId + 2 /\ UNCHANGED <<adds, book, orphans>>

LEMMA RequotePipe ==
    ASSUME InvTypes, InvDrive, TypeOK, UpdateQuote
    PROVE  \E u \in Book, c \in Contract, C \in Seq(Cancel), n \in Nat :
             RequoteShape(u, c, C, n)
<1> DEFINE u == drive.step.u
           c == Head(drive.left)
           n == drive.step.n
           C == CancelsOf(u, legs[c])
           a1 == AddOf(u, c, "bid", nextId + 1, n)
           a2 == AddOf(u, c, "ask", nextId + 2, n)
<1>1. /\ u \in Book /\ n \in Nat /\ drive.left \in Seq(Contract) /\ drive.left # <<>>
      /\ Range(drive.left) \subseteq Range(Contracts[u])
  BY DEF UpdateQuote, InvDrive, Parked, Step
<1>2. c \in Contract /\ c \in Range(Contracts[u])
  <2>1. c = drive.left[1] /\ 1 \in 1..Len(drive.left)
    BY <1>1
  <2> QED
    BY <1>1, <2>1, SeqElement
<1>3. nextId \in Nat /\ legs[c] \in [Side -> Nat \cup {None}]
  BY <1>2, MakerAssumption DEF TypeOK
<1>4. a1 \in Add /\ a2 \in Add
  BY <1>1, <1>2, <1>3 DEF AddOf, Add, Side
<1>5. /\ todo = <<>> /\ todo' = C \o <<a1, a2>> /\ nextId' = nextId + 2 /\ queue' = queue
      /\ legs' = [legs EXCEPT ![c] = [s \in Side |-> IF s = "bid" THEN nextId + 1 ELSE nextId + 2]]
      /\ UNCHANGED <<adds, book, orphans>>
  BY DEF UpdateQuote, journal
<1>6. /\ C \in Seq(Cancel) /\ Len(C) \in Nat
      /\ \A i \in 1..Len(C) : C[i] \in Cancel /\ C[i].u = u /\ \E s \in Side : C[i].id = legs[c][s]
      /\ \A s \in Side : legs[c][s] # None => \E i \in 1..Len(C) : C[i].id = legs[c][s]
  BY <1>1, <1>3, CancelsFacts
<1> HIDE DEF u, c, n, C, a1, a2
<1>7. C \in Seq(Command) /\ <<a1, a2>> \in Seq(Command) /\ queue \in Seq(Command)
  <2>1. a1 \in Command /\ a2 \in Command /\ C \in Seq(Command)
    BY <1>4, <1>6 DEF Command
  <2> QED
    BY <2>1 DEF InvTypes
<1>8. Pipe = queue
  BY <1>5, <1>7 DEF Pipe
<1>9. /\ todo' \in Seq(Command) /\ Len(todo') = Len(C) + 2
      /\ \A i \in 1..Len(C) : todo'[i] = C[i]
      /\ todo'[Len(C) + 1] = a1 /\ todo'[Len(C) + 2] = a2
  BY <1>5, <1>6, <1>7
<1>10. Pipe' = queue \o todo'
  BY <1>5 DEF Pipe
<1>11. /\ Pipe' \in Seq(Command) /\ Len(Pipe') = Len(Pipe) + Len(C) + 2 /\ Len(Pipe) \in Nat
       /\ \A i \in 1..Len(Pipe) : Pipe'[i] = Pipe[i]
       /\ \A i \in 1..Len(C) + 2 : Pipe'[Len(Pipe) + i] = todo'[i]
  <2> DEFINE t == todo'
             p == Pipe'
  <2>1. t \in Seq(Command) /\ queue \in Seq(Command) /\ p = queue \o t /\ Len(t) = Len(C) + 2
    BY <1>7, <1>9, <1>10
  <2> HIDE DEF t, p
  <2>2. /\ p \in Seq(Command) /\ Len(p) = Len(queue) + Len(t) /\ Len(queue) \in Nat
        /\ \A i \in 1..Len(queue) : p[i] = queue[i]
        /\ \A i \in 1..Len(t) : p[Len(queue) + i] = t[i]
    <3>1. queue \in Seq(Command) /\ t \in Seq(Command)
      BY <2>1
    <3>2. /\ queue \o t \in Seq(Command) /\ Len(queue \o t) = Len(queue) + Len(t)
          /\ Len(queue) \in Nat
          /\ \A i \in 1..Len(queue) : (queue \o t)[i] = queue[i]
          /\ \A i \in 1..Len(t) : (queue \o t)[Len(queue) + i] = t[i]
      BY <3>1, ConcatFacts
    <3>3. p = queue \o t
      BY <2>1
    <3> QED
      BY <3>2, <3>3, Zenon
  <2>3. Len(p) = Len(queue) + Len(C) + 2
    BY <1>6, <2>1, <2>2
  <2> QED
    BY <1>8, <2>1, <2>2, <2>3 DEF t, p
<1>12. /\ \A i \in 1..Len(C) : Pipe'[Len(Pipe) + i] = C[i]
       /\ Pipe'[Len(Pipe) + Len(C) + 1] = a1 /\ Pipe'[Len(Pipe) + Len(C) + 2] = a2
  <2>1. /\ Len(C) + 1 \in 1..Len(C) + 2 /\ Len(C) + 2 \in 1..Len(C) + 2
        /\ \A i \in 1..Len(C) : i \in 1..Len(C) + 2
        /\ Len(Pipe) + (Len(C) + 1) = Len(Pipe) + Len(C) + 1
        /\ Len(Pipe) + (Len(C) + 2) = Len(Pipe) + Len(C) + 2
    BY <1>6, <1>11
  <2> QED
    BY <1>9, <1>11, <2>1
<1>13. /\ a1 = AddOf(u, c, "bid", nextId + 1, n) /\ a2 = AddOf(u, c, "ask", nextId + 2, n)
       /\ u = drive.step.u /\ n = drive.step.n
  BY DEF a1, a2, u, n
<1> QED
  <2> u \in Book /\ c \in Contract /\ C \in Seq(Cancel) /\ n \in Nat
    BY <1>1, <1>2, <1>6 DEF u, c, n
  <2> WITNESS u \in Book, c \in Contract, C \in Seq(Cancel), n \in Nat
  <2> QED
    BY <1>2, <1>4, <1>5, <1>6, <1>9, <1>11, <1>12, <1>13 DEF RequoteShape

\* A requote: the old legs are followed by their cancels, the new ones are tracked.
LEMMA Requoted ==
    ASSUME InvTypes, InvDrive, TypeOK, InvCore, UpdateQuote
    PROVE  InvCore'
<1>1. PICK u \in Book, c \in Contract, C \in Seq(Cancel), n \in Nat :
             RequoteShape(u, c, C, n)
  BY RequotePipe
<1> DEFINE L == Len(Pipe)
           K == Len(C)
           a1 == AddOf(u, c, "bid", nextId + 1, n)
           a2 == AddOf(u, c, "ask", nextId + 2, n)
<1>2. /\ a1.id = nextId + 1 /\ a1.contract = c /\ a1.side = "bid" /\ a1.op = "add" /\ a1.u = u
      /\ a2.id = nextId + 2 /\ a2.contract = c /\ a2.side = "ask" /\ a2.op = "add" /\ a2.u = u
      /\ a1.for = n /\ a2.for = n
  BY DEF AddOf
<1>3. /\ c \in Range(Contracts[u]) /\ K \in Nat /\ L \in Nat /\ a1 \in Add /\ a2 \in Add
      /\ \A i \in 1..K : C[i] \in Cancel /\ C[i].u = u /\ \E s \in Side : C[i].id = legs[c][s]
      /\ \A s \in Side : legs[c][s] # None => \E i \in 1..K : C[i].id = legs[c][s]
  BY <1>1 DEF RequoteShape
<1>4. /\ Len(Pipe') = L + K + 2 /\ Pipe' \in Seq(Command)
      /\ \A i \in 1..L : Pipe'[i] = Pipe[i]
      /\ \A i \in 1..K : Pipe'[L + i] = C[i]
      /\ Pipe'[L + K + 1] = a1 /\ Pipe'[L + K + 2] = a2
  BY <1>1 DEF RequoteShape
<1>5. /\ nextId' = nextId + 2 /\ adds' = adds /\ book' = book /\ orphans' = orphans
      /\ Journaled' = Journaled /\ JournaledIds' = JournaledIds
  BY <1>1 DEF RequoteShape, Journaled, JournaledIds
<1>6. /\ "bid" # "ask" /\ Side = {"bid", "ask"} /\ legs \in [Contract -> [Side -> 1..MaxIds \cup {None}]]
      /\ \A d \in Contract, s \in Side : d # c => legs'[d][s] = legs[d][s]
      /\ legs'[c]["bid"] = nextId + 1 /\ legs'[c]["ask"] = nextId + 2
  BY <1>1 DEF RequoteShape, TypeOK, Side
<1>7. /\ nextId \in Nat
      /\ \A d \in Contract, s \in Side : legs[d][s] # None => legs[d][s] \in 1..nextId
      /\ \A i \in 1..L : Pipe[i] \in Range(Pipe) /\ Pipe[i] \in Command
      /\ \A m \in Range(Pipe) : \E i \in 1..L : m = Pipe[i]
      /\ \A a \in Journaled \cup Piped : a \in Add /\ a.id \in 1..nextId
      /\ \A m \in Range(Pipe) : m.id \in 1..nextId
      /\ \A a \in Journaled \cup Piped : a.contract \in Contract /\ a.side \in Side
  <2>1. \A a \in Add : a.contract \in Contract /\ a.side \in Side
    BY DEF Add
  <2>2. Piped \subseteq Range(Pipe)
    BY DEF Piped
  <2>3. nextId \in Nat
    BY MakerAssumption DEF TypeOK
  <2> QED
    BY <2>1, <2>2, <2>3, AddsTyped DEF InvCore, InvIds, InvLegs
<1> HIDE DEF L, K, a1, a2
<1>8. \A i \in 1..K : C[i].op = "cancel" /\ C[i].id \in 1..nextId /\ C[i].id \in Nat
  <2>1. ASSUME NEW i \in 1..K PROVE C[i].op = "cancel" /\ C[i].id \in 1..nextId /\ C[i].id \in Nat
    <3>1. C[i].op = "cancel" /\ C[i].id \in Nat
      BY <1>3, <2>1 DEF Cancel
    <3>2. PICK s \in Side : C[i].id = legs[c][s]
      BY <1>3, <2>1
    <3>3. legs[c][s] # None
      BY <3>1, <3>2, MakerAssumption
    <3> QED
      BY <1>7, <3>1, <3>2, <3>3
  <2> QED
    BY <2>1
\* A place of the new pipe is one of the old, of a cancel, or of one of the two adds.
<1>9. ASSUME NEW i \in 1..Len(Pipe')
      PROVE  \/ i \in 1..L /\ Pipe'[i] = Pipe[i]
             \/ i > L /\ i <= L + K /\ i - L \in 1..K /\ Pipe'[i] = C[i - L]
             \/ i = L + K + 1 /\ Pipe'[i] = a1
             \/ i = L + K + 2 /\ Pipe'[i] = a2
  <2>1. \/ i \in 1..L \/ (i - L \in 1..K /\ L + (i - L) = i /\ i > L /\ i <= L + K)
        \/ i = L + K + 1 \/ i = L + K + 2
    BY <1>3, <1>4
  <2> QED
    BY <1>4, <2>1
<1>10. /\ L + K + 1 \in 1..Len(Pipe') /\ L + K + 2 \in 1..Len(Pipe')
       /\ \A i \in 1..L : i \in 1..Len(Pipe')
       /\ \A i \in 1..K : L + i \in 1..Len(Pipe')
  BY <1>3, <1>4
<1>11. \A m \in Range(Pipe') : \/ m \in Range(Pipe)
                               \/ \E i \in 1..K : m = C[i]
                               \/ m = a1 \/ m = a2
  <2>1. \A m \in Range(Pipe') : \E i \in 1..Len(Pipe') : m = Pipe'[i]
    BY <1>4, SeqElement
  <2> QED
    BY <1>7, <1>9, <2>1
<1>12. Piped' = Piped \cup {a1, a2}
  <2>1. ASSUME NEW m \in Piped' PROVE m \in Piped \cup {a1, a2}
    BY <1>8, <1>11, <2>1 DEF Piped
  <2>2. Range(Pipe) \subseteq Range(Pipe') /\ a1 \in Range(Pipe') /\ a2 \in Range(Pipe')
    <3>1. \A i \in 1..Len(Pipe') : Pipe'[i] \in Range(Pipe')
      BY <1>4, SeqElement
    <3> QED
      BY <1>4, <1>7, <1>10, <3>1
  <2> QED
    BY <1>2, <2>1, <2>2 DEF Piped
<1>13. InvIds'
  <2>1. \A a \in Journaled' \cup Range(Pipe') : a.id \in 1..nextId'
    BY <1>2, <1>5, <1>7, <1>8, <1>11
  <2>2. ASSUME NEW i \in 1..Len(Pipe'), NEW j \in 1..Len(Pipe'), i < j,
               Pipe'[i].op = "add", Pipe'[j].op = "add"
        PROVE  Pipe'[i].id < Pipe'[j].id
    <3>1. \/ i \in 1..L /\ Pipe'[i] = Pipe[i]
          \/ i = L + K + 1 /\ Pipe'[i] = a1
          \/ i = L + K + 2 /\ Pipe'[i] = a2
      BY <1>8, <1>9, <2>2
    <3>2. \/ j \in 1..L /\ Pipe'[j] = Pipe[j]
          \/ j = L + K + 1 /\ Pipe'[j] = a1
          \/ j = L + K + 2 /\ Pipe'[j] = a2
      BY <1>8, <1>9, <2>2
    <3>3. CASE j \in 1..L /\ Pipe'[j] = Pipe[j]
      <4>1. i \in 1..L /\ Pipe'[i] = Pipe[i]
        BY <1>3, <2>2, <3>1, <3>3
      <4> QED
        BY <2>2, <3>3, <4>1 DEF InvCore, InvIds, L
    <3>4. CASE i \in 1..L /\ Pipe'[i] = Pipe[i] /\ j \notin 1..L
      BY <1>2, <1>7, <3>2, <3>4
    <3>5. CASE i \notin 1..L /\ j \notin 1..L
      BY <1>2, <1>3, <1>7, <2>2, <3>1, <3>2, <3>5
    <3>6. /\ j \in 1..L => Pipe'[j] = Pipe[j]
          /\ i \in 1..L => Pipe'[i] = Pipe[i]
      BY <1>4
    <3> QED
      BY <3>3, <3>4, <3>5, <3>6
  <2>3. \A a \in Journaled', b \in Piped' : a.id < b.id
    <3>1. \A a \in Journaled, b \in Piped : a.id < b.id
      BY DEF InvCore, InvIds
    <3> QED
      BY <1>2, <1>5, <1>7, <1>12, <3>1
  <2>4. \A v \in Book : \A i, j \in 1..Len(adds'[v]) : i < j => adds'[v][i].id < adds'[v][j].id
    BY <1>5 DEF InvCore, InvIds
  <2>5. IdsNeverReused'
    BY <1>5 DEF InvCore, InvIds, IdsNeverReused
  <2> QED
    BY <2>1, <2>2, <2>3, <2>4, <2>5 DEF InvIds
<1>14. InvLegs'
  <2>1. ASSUME NEW d \in Contract, NEW s \in Side, legs'[d][s] # None PROVE legs'[d][s] \in 1..nextId'
    <3>1. CASE d = c
      BY <1>5, <1>6, <1>7, <3>1
    <3>2. CASE d # c
      BY <1>5, <1>6, <1>7, <2>1, <3>2
    <3> QED
      BY <3>1, <3>2
  <2>2. ASSUME NEW a \in Journaled' \cup Piped'
        PROVE  legs'[a.contract][a.side] # None /\ a.id <= legs'[a.contract][a.side]
    <3>1. CASE a = a1 \/ a = a2
      BY <1>2, <1>6, <1>7, <3>1, MakerAssumption
    <3>2. CASE a \in Journaled \cup Piped
      <4>1. /\ legs[a.contract][a.side] # None /\ a.id <= legs[a.contract][a.side]
        BY <3>2 DEF InvCore, InvLegs
      <4>2. CASE a.contract = c
        <5>1. legs'[c][a.side] \in Nat /\ legs'[c][a.side] > nextId /\ a.id <= nextId /\ a.id \in Nat
          BY <1>6, <1>7, <3>2
        <5> QED
          BY <1>7, <4>2, <5>1, NoneIsNoId
      <4>3. CASE a.contract # c
        BY <1>6, <1>7, <3>2, <4>1, <4>3
      <4> QED
        BY <4>2, <4>3
    <3> QED
      BY <1>5, <1>12, <3>1, <3>2
  <2>3. ASSUME NEW d \in Contract, NEW s \in Side, NEW a \in Journaled' \cup Piped', a.id = legs'[d][s]
        PROVE  a.contract = d /\ a.side = s
    <3>1. CASE d = c /\ (a = a1 \/ a = a2)
      BY <1>2, <1>6, <1>7, <2>3, <3>1
    <3>2. CASE d = c /\ a \in Journaled \cup Piped
      BY <1>6, <1>7, <2>3, <3>2
    <3>3. CASE d # c /\ (a = a1 \/ a = a2)
      <4>1. a.id \in Nat /\ a.id > nextId /\ a.id = legs[d][s]
        BY <1>2, <1>6, <1>7, <2>3, <3>3
      <4>2. legs[d][s] # None
        BY <4>1, NoneIsNoId
      <4>3. legs[d][s] \in 1..nextId
        BY <1>7, <4>2
      <4> QED
        BY <1>7, <4>1, <4>3
    <3>4. CASE d # c /\ a \in Journaled \cup Piped
      BY <1>6, <2>3, <3>4 DEF InvCore, InvLegs
    <3> QED
      BY <1>5, <1>12, <3>1, <3>2, <3>3, <3>4
  <2>4. ASSUME NEW a \in Journaled' \cup Piped', NEW m \in Range(Pipe'), m.op = "cancel", m.id = a.id
        PROVE  m.u = a.u
    <3>1. m # a1 /\ m # a2
      BY <1>2, <2>4
    <3>2. m.id \in 1..nextId
      BY <1>7, <1>8, <1>11, <3>1
    <3>3. a \in Journaled \cup Piped
      BY <1>2, <1>5, <1>7, <1>12, <2>4, <3>2
    <3>4. CASE m \in Range(Pipe)
      BY <2>4, <3>3, <3>4 DEF InvCore, InvLegs
    <3>5. CASE \E i \in 1..K : m = C[i]
      <4>1. m.u = u /\ \E s \in Side : m.id = legs[c][s]
        BY <1>3, <3>5
      <4>2. a.contract = c
        <5>1. PICK s \in Side : a.id = legs[c][s]
          BY <2>4, <4>1
        <5> QED
          BY <3>3, <5>1 DEF InvCore, InvLegs
      <4>3. a.contract \in Range(Contracts[a.u]) /\ a.u \in Book
        BY <1>7, <3>3 DEF InvTypes, Add
      <4> QED
        BY <1>3, <4>1, <4>2, <4>3, OneUnderlying
    <3> QED
      BY <1>11, <3>1, <3>4, <3>5
  <2> QED
    BY <2>1, <2>2, <2>3, <2>4 DEF InvLegs
\* What was tracked, or followed by its cancel, still has a fate.
<1>15. ASSUME NEW a \in Journaled \cup Piped, NEW k \in 0..L, Fate(a, k, Pipe, orphans, legs)
       PROVE  Fate(a, k, Pipe', orphans', legs')
  <2>1. CASE a.id \in orphans
    BY <1>5, <2>1 DEF Fate
  <2>2. CASE a.id = legs[a.contract][a.side] /\ a.contract # c
    BY <1>6, <1>7, <2>2 DEF Fate
  <2>3. CASE a.id = legs[a.contract][a.side] /\ a.contract = c
    <3>1. a.id \in Nat /\ a.id # None /\ a.side \in Side
      BY <1>7, MakerAssumption
    <3>2. PICK i \in 1..K : C[i].id = a.id
      BY <1>3, <2>3, <3>1
    <3>3. /\ L + i \in 1..Len(Pipe') /\ L + i > k /\ Pipe'[L + i] = C[i] /\ C[i].op = "cancel"
      BY <1>3, <1>4, <1>8, <1>10
    <3>4. ASSUME NEW l \in 1..L + i, Pipe'[l].op = "add", Same(Pipe'[l], a)
          PROVE  Pipe'[l].id <= a.id
      <4>1. l \in 1..Len(Pipe') /\ l # L + K + 1 /\ l # L + K + 2
        BY <1>3, <1>4
      <4>2. l \in 1..L /\ Pipe'[l] = Pipe[l]
        BY <1>8, <1>9, <3>4, <4>1
      <4>3. Pipe[l] \in Piped
        BY <1>7, <3>4, <4>2 DEF Piped
      <4>4. Pipe[l].id <= legs[a.contract][a.side]
        BY <3>4, <4>2, <4>3 DEF InvCore, InvLegs, Same
      <4> QED
        BY <2>3, <4>2, <4>4
    <3> QED
      BY <3>2, <3>3, <3>4 DEF Fate
  <2>4. CASE \E j \in 1..Len(Pipe) :
               /\ j > k /\ Pipe[j].op = "cancel" /\ Pipe[j].id = a.id
               /\ \A i \in 1..j : Pipe[i].op = "add" /\ Same(Pipe[i], a) => Pipe[i].id <= a.id
    <3>1. PICK j \in 1..L :
               /\ j > k /\ Pipe[j].op = "cancel" /\ Pipe[j].id = a.id
               /\ \A i \in 1..j : Pipe[i].op = "add" /\ Same(Pipe[i], a) => Pipe[i].id <= a.id
      BY <2>4 DEF L
    <3>2. j \in 1..Len(Pipe') /\ Pipe'[j] = Pipe[j] /\ \A i \in 1..j : Pipe'[i] = Pipe[i]
      BY <1>3, <1>4, <1>10, <3>1
    <3> QED
      BY <3>1, <3>2 DEF Fate
  <2> QED
    BY <1>15, <2>1, <2>2, <2>3, <2>4 DEF Fate
<1>16. InvFate'
  <2>1. \A v \in Book : \A x \in book'[v] : \E a \in Range(adds'[v]) : a.id = x
    BY <1>5 DEF InvCore, InvFate
  <2>2. ASSUME NEW v \in Book, NEW a \in Range(adds[v]), a.id \in book[v]
        PROVE  /\ Fate(a, 0, Pipe', orphans', legs')
               /\ a.id \notin orphans => \A b \in Range(adds[v]) : Same(a, b) => b.id <= a.id
    <3>1. a \in Journaled /\ 0 \in 0..L
      BY <1>3, <2>2, AddsTyped
    <3>2. Fate(a, 0, Pipe, orphans, legs)
      BY <2>2 DEF InvCore, InvFate
    <3>3. a.id \notin orphans => \A b \in Range(adds[v]) : Same(a, b) => b.id <= a.id
      BY <2>2 DEF InvCore, InvFate
    <3> QED
      BY <1>15, <3>1, <3>2, <3>3
  <2>3. ASSUME NEW k \in 1..Len(Pipe'), Pipe'[k].op = "add"
        PROVE  Fate(Pipe'[k], k, Pipe', orphans', legs')
    <3>1. CASE k \in 1..L /\ Pipe'[k] = Pipe[k]
      <4>1. Pipe[k] \in Piped /\ k \in 0..L
        BY <1>3, <1>7, <2>3, <3>1 DEF Piped
      <4>2. Fate(Pipe[k], k, Pipe, orphans, legs)
        BY <2>3, <3>1 DEF InvCore, InvFate, L
      <4> QED
        BY <1>15, <3>1, <4>1, <4>2
    <3>2. CASE Pipe'[k] = a1 \/ Pipe'[k] = a2
      BY <1>2, <1>6, <3>2 DEF Fate
    <3> QED
      BY <1>8, <1>9, <2>3, <3>1, <3>2
  <2> QED
    BY <1>5, <2>1, <2>2, <2>3 DEF InvFate
<1>17. InvBoot'
  BY <1>5 DEF InvCore, InvBoot, Own
<1> QED
  BY <1>13, <1>14, <1>16, <1>17 DEF InvCore

\* The greatest element that boot reads.
LEMMA MaxFacts ==
    ASSUME NEW S \in SUBSET Nat, HasMax(S)
    PROVE  Max(S) \in S /\ \A x \in S : x <= Max(S)
<1>1. \E m \in S : \A x \in S : m >= x
  BY DEF HasMax
<1> QED
  BY <1>1 DEF Max

\* The legs that boot finds are the last journaled adds, and no id is above its counter.
LEMMA RecoveredFacts ==
    ASSUME InvTypes, InvCore
    PROVE  /\ RecoveredFloor \in Nat /\ \A a \in Journaled : a.id <= RecoveredFloor
           /\ RecoveredFloor = 0 \/ \E a \in Journaled : RecoveredFloor = a.id
           /\ \A c \in Contract, s \in Side : RecoveredLegs[c][s] # None =>
                \E a \in Journaled : a.id = RecoveredLegs[c][s] /\ a.contract = c /\ a.side = s
           /\ \A a \in Journaled :
                \E b \in Range(adds[a.u]) : /\ Same(a, b) /\ a.id <= b.id
                                            /\ RecoveredLegs[a.contract][a.side] = b.id
           /\ RecoveredLegs \in [Contract -> [Side -> Nat \cup {None}]]
<1>1. /\ Journaled \subseteq Add
      /\ \A u \in Book : /\ adds[u] \in Seq(Add) /\ Len(adds[u]) \in Nat
                         /\ Range(adds[u]) \subseteq Journaled
                         /\ \A i \in 1..Len(adds[u]) : adds[u][i] \in Range(adds[u])
                         /\ \A a \in Range(adds[u]) : a.u = u /\ \E i \in 1..Len(adds[u]) : a = adds[u][i]
      /\ \A a \in Journaled : a.u \in Book /\ a \in Range(adds[a.u])
  BY AddsTyped
<1>2. \A a \in Add : a.id \in Nat /\ a.contract \in Contract /\ a.side \in Side
  BY DEF Add
<1>3. JournaledIds = {r.id : r \in Journaled}
  BY DEF Journaled, JournaledIds
<1>4. /\ RecoveredFloor \in Nat /\ \A a \in Journaled : a.id <= RecoveredFloor
      /\ RecoveredFloor = 0 \/ \E a \in Journaled : RecoveredFloor = a.id
  <2>1. {0} \cup JournaledIds \in SUBSET Nat /\ HasMax({0} \cup JournaledIds)
    BY <1>1, <1>2, <1>3 DEF InvCore, InvBoot
  <2>2. /\ RecoveredFloor \in {0} \cup JournaledIds
        /\ \A x \in {0} \cup JournaledIds : x <= RecoveredFloor
    BY <2>1, MaxFacts DEF RecoveredFloor
  <2> QED
    BY <1>3, <2>1, <2>2
<1> DEFINE Home(c) == CHOOSE v \in Book : c \in Range(Contracts[v])
<1>5. \A c \in Contract : Home(c) \in Book
  BY DEF Contract
<1>6. \A c, u : u \in Book /\ c \in Range(Contracts[u]) => Home(c) = u
  <2>1. ASSUME NEW c, NEW u \in Book, c \in Range(Contracts[u]) PROVE Home(c) = u
    <3>1. Home(c) \in Book /\ c \in Range(Contracts[Home(c)])
      BY <2>1
    <3> QED
      BY <2>1, <3>1, OneUnderlying
  <2> QED
    BY <2>1
<1>7. /\ \A c \in Contract, s \in Side : RecoveredLegs[c][s] = RecoveredLeg(Home(c), c, s)
      /\ DOMAIN RecoveredLegs = Contract /\ \A c \in Contract : DOMAIN RecoveredLegs[c] = Side
      /\ RecoveredLegs = [c \in Contract |-> RecoveredLegs[c]]
      /\ \A c \in Contract : RecoveredLegs[c] = [s \in Side |-> RecoveredLegs[c][s]]
  BY DEF RecoveredLegs
<1> HIDE DEF Home
<1>8. ASSUME NEW u \in Book, NEW c \in Contract, NEW s \in Side
      PROVE  /\ Own(u, c, s) = {} => RecoveredLeg(u, c, s) = None
             /\ Own(u, c, s) # {} => \E i \in Own(u, c, s) :
                  /\ RecoveredLeg(u, c, s) = adds[u][i].id
                  /\ \A j \in Own(u, c, s) : j <= i
  <2>1. /\ Own(u, c, s) = {} => RecoveredLeg(u, c, s) = None
        /\ Own(u, c, s) # {} => RecoveredLeg(u, c, s) = adds[u][Max(Own(u, c, s))].id
    BY DEF RecoveredLeg, Own
  <2>2. ASSUME Own(u, c, s) # {}
        PROVE  Max(Own(u, c, s)) \in Own(u, c, s) /\ \A j \in Own(u, c, s) : j <= Max(Own(u, c, s))
    <3>1. Own(u, c, s) \in SUBSET Nat
      BY <1>1 DEF Own
    <3>2. HasMax(Own(u, c, s))
      BY <2>2 DEF InvCore, InvBoot
    <3> QED
      BY <3>1, <3>2, MaxFacts
  <2> QED
    BY <2>1, <2>2
<1>9. ASSUME NEW c \in Contract, NEW s \in Side, RecoveredLegs[c][s] # None
      PROVE  \E a \in Journaled : a.id = RecoveredLegs[c][s] /\ a.contract = c /\ a.side = s
  <2>1. PICK i \in Own(Home(c), c, s) : RecoveredLegs[c][s] = adds[Home(c)][i].id
    BY <1>5, <1>7, <1>8, <1>9
  <2>2. /\ adds[Home(c)][i] \in Journaled /\ adds[Home(c)][i].contract = c /\ adds[Home(c)][i].side = s
    BY <1>1, <1>5, <2>1 DEF Own
  <2> QED
    BY <2>1, <2>2
<1>10. ASSUME NEW a \in Journaled
       PROVE  \E b \in Range(adds[a.u]) : /\ Same(a, b) /\ a.id <= b.id
                                          /\ RecoveredLegs[a.contract][a.side] = b.id
  <2>1. PICK i \in 1..Len(adds[a.u]) : a = adds[a.u][i]
    BY <1>1
  <2>2. /\ a.u \in Book /\ a.contract \in Contract /\ a.side \in Side /\ a.id \in Nat
        /\ i \in Own(a.u, a.contract, a.side)
    BY <1>1, <1>2, <2>1 DEF Own
  <2>3. Home(a.contract) = a.u
    BY <1>6, <2>2 DEF InvTypes
  <2>4. PICK k \in Own(a.u, a.contract, a.side) :
          /\ RecoveredLegs[a.contract][a.side] = adds[a.u][k].id
          /\ \A j \in Own(a.u, a.contract, a.side) : j <= k
    BY <1>7, <1>8, <2>2, <2>3
  <2>5. k \in 1..Len(adds[a.u]) /\ Same(a, adds[a.u][k]) /\ i <= k
    BY <2>2, <2>4 DEF Own, Same
  <2>6. i < k => a.id < adds[a.u][k].id
    BY <2>1, <2>2, <2>5 DEF InvCore, InvIds
  <2>7. adds[a.u][k] \in Range(adds[a.u]) /\ adds[a.u][k].id \in Nat /\ i \in Nat /\ k \in Nat
    BY <1>1, <1>2, <2>1, <2>2, <2>5
  <2>8. a.id <= adds[a.u][k].id
    BY <2>1, <2>2, <2>5, <2>6, <2>7
  <2> QED
    BY <2>4, <2>5, <2>7, <2>8
<1>11. RecoveredLegs \in [Contract -> [Side -> Nat \cup {None}]]
  <2>1. \A c \in Contract, s \in Side : RecoveredLegs[c][s] \in Nat \cup {None}
    BY <1>1, <1>2, <1>9
  <2>2. \A c \in Contract : RecoveredLegs[c] \in [Side -> Nat \cup {None}]
    BY <1>7, <2>1
  <2> QED
    BY <1>7, <2>2
<1> QED
  BY <1>4, <1>9, <1>10, <1>11

\* A crash: the pipe is lost, but what rests and has lost no cancel is the last add of its
\* contract and side, which is the leg that boot finds.
LEMMA Restarted ==
    ASSUME InvTypes, InvCore, Restart
    PROVE  InvCore'
<1>1. /\ adds' = adds /\ book' = book /\ orphans' = orphans /\ legs' = RecoveredLegs
      /\ nextId' = RecoveredFloor /\ queue' = <<>> /\ todo' = <<>>
      /\ Journaled' = Journaled /\ JournaledIds' = JournaledIds
  BY DEF Restart, journal, Journaled, JournaledIds
<1>2. Pipe' = <<>>
  <2>1. Pipe' = <<>> \o <<>>
    BY <1>1 DEF Pipe
  <2>2. <<>> \in Seq(Command)
    OBVIOUS
  <2> QED
    BY <2>1, <2>2
<1>3. Range(Pipe') = {} /\ Piped' = {} /\ Len(Pipe') = 0
  BY <1>2 DEF Piped, Range
<1>4. /\ RecoveredFloor \in Nat /\ \A a \in Journaled : a.id <= RecoveredFloor
      /\ \A c \in Contract, s \in Side : RecoveredLegs[c][s] # None =>
           \E a \in Journaled : a.id = RecoveredLegs[c][s] /\ a.contract = c /\ a.side = s
      /\ \A a \in Journaled :
           \E b \in Range(adds[a.u]) : /\ Same(a, b) /\ a.id <= b.id
                                       /\ RecoveredLegs[a.contract][a.side] = b.id
  BY RecoveredFacts
<1>5. /\ \A a \in Journaled : a \in Add /\ a.id \in Nat /\ a.id >= 1 /\ a.u \in Book
                              /\ a.contract \in Contract /\ a.side \in Side
      /\ \A u \in Book : Range(adds[u]) \subseteq Journaled
      /\ \A a \in Journaled : \E i \in 1..Len(adds[a.u]) : a = adds[a.u][i]
      /\ \A u \in Book : \A a \in Range(adds[u]) : a.u = u
  <2>1. \A a \in Journaled : a.id >= 1
    BY DEF InvCore, InvIds
  <2>2. \A a \in Add : a.id \in Nat /\ a.u \in Book /\ a.contract \in Contract /\ a.side \in Side
    BY DEF Add
  <2>3. /\ Journaled \subseteq Add
        /\ \A u \in Book : Range(adds[u]) \subseteq Journaled
        /\ \A u \in Book : \A a \in Range(adds[u]) : a.u = u
        /\ \A a \in Journaled : \E i \in 1..Len(adds[a.u]) : a = adds[a.u][i]
    BY AddsTyped
  <2> QED
    BY <2>1, <2>2, <2>3
<1>6. InvIds'
  <2>1. \A a \in Journaled' \cup Range(Pipe') : a.id \in 1..nextId'
    BY <1>1, <1>3, <1>4, <1>5
  <2>2. IdsNeverReused'
    BY <1>1 DEF InvCore, InvIds, IdsNeverReused
  <2>3. \A v \in Book : \A i, j \in 1..Len(adds'[v]) : i < j => adds'[v][i].id < adds'[v][j].id
    BY <1>1 DEF InvCore, InvIds
  <2> QED
    BY <1>3, <2>1, <2>2, <2>3 DEF InvIds
<1>7. InvLegs'
  <2>1. \A c \in Contract, s \in Side : legs'[c][s] # None => legs'[c][s] \in 1..nextId'
    BY <1>1, <1>4, <1>5
  <2>2. ASSUME NEW a \in Journaled
        PROVE  legs'[a.contract][a.side] # None /\ a.id <= legs'[a.contract][a.side]
    <3>1. PICK b \in Range(adds[a.u]) : a.id <= b.id /\ legs'[a.contract][a.side] = b.id
      BY <1>1, <1>4
    <3>2. b.id \in Nat
      BY <1>5, <3>1
    <3> QED
      BY <3>1, <3>2, NoneIsNoId
  <2>3. ASSUME NEW c \in Contract, NEW s \in Side, NEW a \in Journaled, a.id = legs'[c][s]
        PROVE  a.contract = c /\ a.side = s
    <3>1. PICK b \in Journaled : b.id = a.id /\ b.contract = c /\ b.side = s
      BY <1>1, <1>4, <1>5, <2>3, NoneIsNoId
    <3>2. PICK i \in 1..Len(adds[a.u]) : a = adds[a.u][i]
      BY <1>5
    <3>3. PICK j \in 1..Len(adds[b.u]) : b = adds[b.u][j]
      BY <1>5
    <3>4. a.u \in Book /\ b.u \in Book
      BY <1>5
    <3>5. adds[a.u][i].id = adds[b.u][j].id
      BY <3>1, <3>2, <3>3
    <3>6. a.u = b.u /\ i = j
      BY <3>4, <3>5 DEF InvCore, InvIds, IdsNeverReused
    <3> QED
      BY <3>1, <3>2, <3>3, <3>6
  <2> QED
    BY <1>1, <1>3, <2>1, <2>2, <2>3 DEF InvLegs
<1>8. InvFate'
  <2>1. \A u \in Book : \A x \in book'[u] : \E a \in Range(adds'[u]) : a.id = x
    BY <1>1 DEF InvCore, InvFate
  <2>2. ASSUME NEW u \in Book, NEW a \in Range(adds[u]), a.id \in book[u]
        PROVE  /\ Fate(a, 0, Pipe', orphans', legs')
               /\ a.id \notin orphans => \A b \in Range(adds[u]) : Same(a, b) => b.id <= a.id
    <3>1. a.id \notin orphans => \A b \in Range(adds[u]) : Same(a, b) => b.id <= a.id
      BY <2>2 DEF InvCore, InvFate
    <3>2. a \in Journaled /\ a.u = u
      BY <1>5, <2>2
    <3>3. PICK b \in Range(adds[u]) : /\ Same(a, b) /\ a.id <= b.id
                                      /\ RecoveredLegs[a.contract][a.side] = b.id
      BY <1>4, <3>2
    <3>4. a.id \in Nat /\ b.id \in Nat
      BY <1>5, <3>2, <3>3
    <3>5. a.id \notin orphans => a.id = RecoveredLegs[a.contract][a.side]
      BY <3>1, <3>3, <3>4
    <3> QED
      BY <1>1, <3>1, <3>5 DEF Fate
  <2> QED
    BY <1>1, <1>3, <2>1, <2>2 DEF InvFate
<1>9. InvBoot'
  BY <1>1 DEF InvCore, InvBoot, Own
<1> QED
  BY <1>6, <1>7, <1>8, <1>9 DEF InvCore

\* One step per operation that touches the maker's orders.
LEMMA CoreStep ==
    ASSUME TypeOK, InvTypes, InvDrive, InvCore, [Next]_vars
    PROVE  InvCore'
<1> DEFINE q == queue
           t == todo
<1>1. /\ q \in Seq(Command) /\ t \in Seq(Command) /\ Pipe = q \o t
  BY DEF InvTypes, Pipe
<1>2. /\ Len(Pipe) = Len(q) + Len(t) /\ Len(q) \in Nat /\ Len(t) \in Nat
      /\ q # <<>> => /\ Tail(q) \o t = Without(Pipe, 1) /\ Pipe[1] = Head(q) /\ Len(q) >= 1
      /\ t # <<>> => /\ q \o Tail(t) = Without(Pipe, Len(q) + 1)
                     /\ Pipe[Len(q) + 1] = Head(t) /\ Len(t) >= 1
                     /\ Append(q, Head(t)) \o Tail(t) = Pipe
  <2> HIDE DEF q, t
  <2>1. /\ Len(q \o t) = Len(q) + Len(t) /\ Len(q) \in Nat /\ Len(t) \in Nat
        /\ q # <<>> => /\ Tail(q) \o t = Without(q \o t, 1) /\ (q \o t)[1] = Head(q)
                       /\ Len(q) >= 1
        /\ t # <<>> => /\ q \o Tail(t) = Without(q \o t, Len(q) + 1)
                       /\ (q \o t)[Len(q) + 1] = Head(t) /\ Len(t) >= 1
                       /\ Append(q, Head(t)) \o Tail(t) = q \o t
    BY <1>1, PipeMoves
  <2> QED
    BY <1>1, <2>1, Zenon
<1>3. /\ q # <<>> => 1 \in 1..Len(Pipe)
      /\ t # <<>> => Len(q) + 1 \in 1..Len(Pipe)
  BY <1>2
<1>4. ASSUME NEW m PROVE orphans \subseteq Orphaned(m) /\ (m.op = "cancel" => m.id \in Orphaned(m))
  BY DEF Orphaned
<1>5. ASSUME \/ \E u \in Book : Price(u)
             \/ \E ok \in BOOLEAN : ForwardStep(ok)
             \/ UpdatePrice \/ SkipQuote \/ RequoteDone
             \/ \E o \in Operator, on \in BOOLEAN : IssueControl(o, on)
             \/ UNCHANGED vars
      PROVE  InvCore'
  <2>1. UNCHANGED quotes
    BY <1>5 DEF Price, ForwardStep, UpdatePrice, SkipQuote, RequoteDone, IssueControl,
                vars, quotes, maker, journal
  <2> QED
    BY <2>1, OrdersUnchanged
<1>6. CASE UpdateQuote
  BY <1>6, Requoted
<1>7. CASE Enqueue
  <2>1. CASE Len(queue) < SinkCapacity
    <3>1. /\ Pipe' = Pipe /\ UNCHANGED <<adds, legs, nextId, orphans, book>>
      BY <1>2, <1>7, <2>1 DEF Enqueue, Pipe, journal
    <3>2. /\ adds' = adds /\ book' = book /\ legs' = legs /\ nextId' = nextId /\ orphans' = orphans
          /\ Journaled' = Journaled /\ Piped' = Piped /\ JournaledIds' = JournaledIds
      BY <3>1 DEF Piped, Journaled, JournaledIds
    <3>3. InvIds'
      BY <3>1, <3>2 DEF InvCore, InvIds, IdsNeverReused
    <3>4. InvLegs'
      BY <3>1, <3>2 DEF InvCore, InvLegs
    <3>5. InvFate'
      BY <3>1, <3>2 DEF InvCore, InvFate, Fate
    <3>6. InvBoot'
      BY <3>1, <3>2 DEF InvCore, InvBoot, Own
    <3> QED
      BY <3>3, <3>4, <3>5, <3>6 DEF InvCore
  <2>2. CASE ~(Len(queue) < SinkCapacity)
    <3>1. /\ t # <<>> /\ todo' = Tail(t) /\ queue' = q /\ orphans' = Orphaned(Head(t))
          /\ UNCHANGED <<adds, legs, nextId, book>>
      BY <1>7, <2>2 DEF Enqueue, journal
    <3>2. Pipe' = Without(Pipe, Len(q) + 1)
      BY <1>2, <3>1 DEF Pipe
    <3>3. /\ orphans \subseteq orphans'
          /\ Pipe[Len(q) + 1].op = "cancel" => Pipe[Len(q) + 1].id \in orphans'
      BY <1>2, <1>4, <3>1
    <3> HIDE DEF q, t
    <3> QED
      BY <1>3, <3>1, <3>2, <3>3, PipeLoses
  <2> QED
    BY <2>1, <2>2
<1>8. CASE DropCommand
  <2>1. /\ q # <<>> /\ todo' = t /\ queue' = Tail(q) /\ orphans' = Orphaned(Head(q))
        /\ UNCHANGED <<adds, legs, nextId, book>>
    BY <1>8 DEF DropCommand, journal, maker
  <2>2. Pipe' = Without(Pipe, 1)
    BY <1>2, <2>1 DEF Pipe
  <2>3. orphans \subseteq orphans' /\ (Pipe[1].op = "cancel" => Pipe[1].id \in orphans')
    BY <1>2, <1>4, <2>1
  <2> HIDE DEF q, t
  <2> QED
    BY <1>3, <2>1, <2>2, <2>3, PipeLoses
<1>9. CASE Execute
  <2>1. /\ q # <<>> /\ todo' = t /\ queue' = Tail(q) /\ UNCHANGED <<legs, nextId, orphans>>
        /\ Pipe[1] = Head(queue)
    BY <1>2, <1>9 DEF Execute, maker
  <2>2. Pipe' = Without(Pipe, 1)
    BY <1>2, <2>1 DEF Pipe
  <2>3. Pipe[1] \in Range(Pipe) /\ Pipe[1] \in Command
    BY <1>3, <2>1, AddsTyped
  <2> HIDE DEF q, t
  <2>4. CASE Pipe[1].op = "add"
    <3>1. /\ adds' = [adds EXCEPT ![Pipe[1].u] = Append(@, Pipe[1])]
          /\ book' = [book EXCEPT ![Pipe[1].u] = @ \cup {Pipe[1].id}]
      BY <1>9, <2>1, <2>4 DEF Execute
    <3>2. Len(Pipe) >= 1
      BY <1>3, <2>1
    <3> QED
      BY <2>1, <2>2, <2>4, <3>1, <3>2, AddJournaled
  <2>5. CASE Pipe[1].op # "add"
    <3>1. /\ adds' = adds /\ book' = [book EXCEPT ![Pipe[1].u] = @ \ {Pipe[1].id}]
      BY <1>9, <2>1, <2>5 DEF Execute
    <3>2. Pipe[1].op = "cancel" /\ Pipe[1].u \in Book
      BY <2>3, <2>5 DEF Command, Add, Cancel
    <3>3. /\ \A u \in Book : book'[u] \subseteq book[u]
          /\ Pipe[1].id \notin book'[Pipe[1].u]
      BY <3>1, <3>2 DEF InvTypes
    <3>4. ASSUME NEW u \in Book, NEW a \in Range(adds[u]), a.id = Pipe[1].id PROVE a.id \notin book'[u]
      <4>1. a \in Journaled /\ a.u = u
        BY <3>4, AddsTyped
      <4>2. Pipe[1].u = a.u
        BY <2>3, <3>2, <3>4, <4>1 DEF InvCore, InvLegs
      <4> QED
        BY <3>3, <3>4, <4>1, <4>2
    <3> QED
      BY <1>3, <2>1, <2>2, <3>1, <3>2, <3>3, <3>4, PipeLoses
  <2> QED
    BY <2>4, <2>5
<1>10. CASE \E u \in Book : \E id \in book[u] : Trade(u, id)
  <2>0. PICK u \in Book : \E id \in book[u] : Trade(u, id)
    BY <1>10
  <2>1. PICK id \in book[u] : Trade(u, id)
    BY <2>0
  <2>2. \A v \in Book : book'[v] \subseteq book[v]
    BY <2>1 DEF Trade, InvTypes
  <2>3. UNCHANGED <<adds, legs, nextId, queue, todo, orphans>>
    BY <2>1 DEF Trade, journal, maker
  <2> QED
    BY <2>2, <2>3, BookShrinks
<1>11. CASE Restart
  BY <1>11, Restarted
<1>12. CASE \E o \in Operator, committed \in BOOLEAN : ControlTurn(o, committed)
  <2>1. \A v \in Book : book'[v] \subseteq book[v]
    BY <1>12 DEF ControlTurn, ApplyControl, InvTypes
  <2>2. UNCHANGED <<adds, legs, nextId, queue, todo, orphans>>
    BY <1>12 DEF ControlTurn, maker
  <2> QED
    BY <2>1, <2>2, BookShrinks
<1> QED
  BY <1>5, <1>6, <1>7, <1>8, <1>9, <1>10, <1>11, <1>12 DEF Next, Simulator, StepForwarder, Actors

-----------------------------------------------------------------------------
(* The types.                                                               *)

\* The rest of a sequence.
LEMMA TailFacts ==
    ASSUME NEW S, NEW q \in Seq(S), q # <<>>
    PROVE  /\ Tail(q) \in Seq(S) /\ Len(Tail(q)) = Len(q) - 1 /\ Len(q) \in Nat /\ Len(q) >= 1
           /\ Head(q) = q[1] /\ Head(q) \in S
           /\ \A i \in 1..Len(q) - 1 : Tail(q)[i] = q[i + 1]
           /\ Range(Tail(q)) \subseteq Range(q)
<1>1. /\ Tail(q) \in Seq(S) /\ Len(Tail(q)) = Len(q) - 1 /\ Len(q) \in Nat /\ Len(q) >= 1
      /\ Head(q) = q[1] /\ Head(q) \in S
      /\ \A i \in 1..Len(q) - 1 : Tail(q)[i] = q[i + 1]
  OBVIOUS
<1>2. Range(Tail(q)) \subseteq Range(q)
  <2>1. \A x \in Range(Tail(q)) : \E i \in 1..Len(q) - 1 : x = Tail(q)[i]
    <3> DEFINE t == Tail(q)
    <3>1. DOMAIN t = 1..Len(q) - 1
      BY <1>1
    <3> HIDE DEF t
    <3>2. \A x \in Range(t) : \E i \in 1..Len(q) - 1 : x = t[i]
      BY <3>1 DEF Range
    <3> QED
      BY <3>2 DEF t
  <2>2. \A i \in 1..Len(q) - 1 : i + 1 \in 1..Len(q)
    BY <1>1
  <2>3. \A i \in 1..Len(q) : q[i] \in Range(q)
    BY SeqElement
  <2> QED
    BY <1>1, <2>1, <2>2, <2>3
<1> QED
  BY <1>1, <1>2

\* The journal of an underlying grows by an add.
LEMMA JournalGrows ==
    ASSUME InvTypes, NEW m \in Add, adds' = [adds EXCEPT ![m.u] = Append(@, m)]
    PROVE  /\ Journaled' = Journaled \cup {m} /\ m.u \in Book
           /\ adds' \in [Book -> Seq(Add)]
           /\ \A u \in Book : \A i \in 1..Len(adds'[u]) : adds'[u][i].u = u
           /\ \A u \in Book : u # m.u => adds'[u] = adds[u]
           /\ Last(adds'[m.u]) = m
<1>1. /\ m.u \in Book /\ adds \in [Book -> Seq(Add)]
      /\ \A u \in Book : \A i \in 1..Len(adds[u]) : adds[u][i].u = u
  BY DEF InvTypes, Add
<1>2. /\ \A u \in Book : u # m.u => adds'[u] = adds[u]
      /\ adds'[m.u] = Append(adds[m.u], m)
  BY <1>1
<1> DEFINE n == Len(adds[m.u])
<1>3. /\ Append(adds[m.u], m) \in Seq(Add) /\ Len(Append(adds[m.u], m)) = n + 1 /\ n \in Nat
      /\ \A i \in 1..n : Append(adds[m.u], m)[i] = adds[m.u][i]
      /\ Append(adds[m.u], m)[n + 1] = m
      /\ Range(Append(adds[m.u], m)) = Range(adds[m.u]) \cup {m}
  BY <1>1, AppendFacts
<1>4. adds' \in [Book -> Seq(Add)]
  BY <1>1, <1>3
<1>5. ASSUME NEW u \in Book, NEW i \in 1..Len(adds'[u]) PROVE adds'[u][i].u = u
  <2>1. CASE u = m.u /\ i = n + 1
    BY <1>2, <1>3, <2>1
  <2>2. CASE u = m.u /\ i # n + 1
    <3>1. i \in 1..n
      BY <1>2, <1>3, <2>2
    <3> QED
      BY <1>1, <1>2, <1>3, <2>2, <3>1
  <2>3. CASE u # m.u
    BY <1>1, <1>2, <2>3
  <2> QED
    BY <2>1, <2>2, <2>3
<1>6. Journaled' = Journaled \cup {m}
  <2>1. /\ Range(adds'[m.u]) = Range(adds[m.u]) \cup {m}
        /\ \A u \in Book : u # m.u => Range(adds'[u]) = Range(adds[u])
    BY <1>2, <1>3
  <2>2. ASSUME NEW a \in Journaled' PROVE a \in Journaled \cup {m}
    <3>1. PICK u \in Book : a \in Range(adds'[u])
      BY <2>2 DEF Journaled
    <3> QED
      BY <2>1, <3>1 DEF Journaled
  <2>3. ASSUME NEW a \in Journaled \cup {m} PROVE a \in Journaled'
    <3>1. PICK u \in Book : a \in Range(adds[u]) \/ (a = m /\ u = m.u)
      BY <1>1, <2>3 DEF Journaled
    <3>2. a \in Range(adds'[u])
      BY <2>1, <3>1
    <3> QED
      BY <3>2 DEF Journaled
  <2> QED
    BY <2>2, <2>3
<1>7. Last(adds'[m.u]) = m
  BY <1>2, <1>3 DEF Last
<1> QED
  BY <1>1, <1>2, <1>4, <1>5, <1>6, <1>7

\* Every step but a requote keeps the order of the pipe, and journals at most its first command.
LEMMA PipeStep ==
    ASSUME InvTypes, [Next]_vars, ~UpdateQuote
    PROVE  /\ queue' \in Seq(Command) /\ todo' \in Seq(Command)
           /\ Range(Pipe') \subseteq Range(Pipe) /\ Piped' \subseteq Piped
           /\ \A i, j \in 1..Len(Pipe') : i < j =>
                \E k, l \in 1..Len(Pipe) : k < l /\ Pipe'[i] = Pipe[k] /\ Pipe'[j] = Pipe[l]
           /\ \/ adds' = adds
              \/ /\ Len(Pipe) >= 1 /\ Pipe[1] \in Add /\ Pipe[1] \in Piped
                 /\ Execute /\ Pipe[1] = Head(queue)
                 /\ adds' = [adds EXCEPT ![Pipe[1].u] = Append(@, Pipe[1])]
                 /\ \A j \in 1..Len(Pipe') : \E l \in 2..Len(Pipe) : Pipe'[j] = Pipe[l]
<1>1. /\ queue \in Seq(Command) /\ todo \in Seq(Command) /\ Pipe = queue \o todo
      /\ Pipe \in Seq(Command) /\ Len(Pipe) \in Nat
  BY AddsTyped DEF InvTypes, Pipe
<1> DEFINE q == queue
           t == todo
<1>2. /\ Len(Pipe) = Len(q) + Len(t) /\ Len(q) \in Nat /\ Len(t) \in Nat
      /\ q # <<>> => /\ Tail(q) \o t = Without(Pipe, 1) /\ Pipe[1] = Head(q) /\ Len(q) >= 1
      /\ t # <<>> => /\ q \o Tail(t) = Without(Pipe, Len(q) + 1)
                     /\ Pipe[Len(q) + 1] = Head(t) /\ Len(t) >= 1
                     /\ Append(q, Head(t)) \o Tail(t) = Pipe
  <2> HIDE DEF q, t
  <2>1. q \in Seq(Command) /\ t \in Seq(Command) /\ Pipe = q \o t
    BY <1>1 DEF q, t
  <2>2. /\ Len(q \o t) = Len(q) + Len(t) /\ Len(q) \in Nat /\ Len(t) \in Nat
        /\ q # <<>> => /\ Tail(q) \o t = Without(q \o t, 1) /\ (q \o t)[1] = Head(q)
                       /\ Len(q) >= 1
        /\ t # <<>> => /\ q \o Tail(t) = Without(q \o t, Len(q) + 1)
                       /\ (q \o t)[Len(q) + 1] = Head(t) /\ Len(t) >= 1
                       /\ Append(q, Head(t)) \o Tail(t) = q \o t
    BY <2>1, PipeMoves
  <2> QED
    BY <2>1, <2>2, Zenon
<1>3. /\ q # <<>> => 1 \in 1..Len(Pipe)
      /\ t # <<>> => Len(q) + 1 \in 1..Len(Pipe)
  BY <1>2
<1>4. /\ q # <<>> => Tail(q) \in Seq(Command)
      /\ t # <<>> => Tail(t) \in Seq(Command) /\ Append(q, Head(t)) \in Seq(Command)
  BY <1>1
<1> DEFINE Kept == /\ Range(Pipe') \subseteq Range(Pipe) /\ Piped' \subseteq Piped
                   /\ \A i, j \in 1..Len(Pipe') : i < j =>
                        \E k, l \in 1..Len(Pipe) : k < l /\ Pipe'[i] = Pipe[k] /\ Pipe'[j] = Pipe[l]
<1>5. ASSUME Pipe' = Pipe PROVE Kept
  BY <1>5 DEF Piped
<1>6. ASSUME NEW g \in 1..Len(Pipe), Pipe' = Without(Pipe, g)
      PROVE  /\ Kept
             /\ g = 1 => \A j \in 1..Len(Pipe') : \E l \in 2..Len(Pipe) : Pipe'[j] = Pipe[l]
  <2>1. /\ Len(Without(Pipe, g)) = Len(Pipe) - 1
        /\ \A i \in 1..Len(Pipe) - 1 :
             Up(g, i) \in 1..Len(Pipe) /\ Up(g, i) # g /\ Without(Pipe, g)[i] = Pipe[Up(g, i)]
        /\ Range(Without(Pipe, g)) \subseteq Range(Pipe)
    <3>1. Pipe \in Seq(Command)
      BY <1>1
    <3> QED
      BY <3>1, WithoutFacts
  <2>2. /\ Len(Pipe') = Len(Pipe) - 1
        /\ \A i \in 1..Len(Pipe') : Up(g, i) \in 1..Len(Pipe) /\ Up(g, i) # g /\ Pipe'[i] = Pipe[Up(g, i)]
        /\ Range(Pipe') \subseteq Range(Pipe)
    BY <1>6, <2>1, Zenon
  <2>3. Piped' \subseteq Piped
    BY <2>2 DEF Piped
  <2>4. \A i, j \in 1..Len(Pipe') : i < j => Up(g, i) < Up(g, j)
    BY <1>1, <2>2 DEF Up
  <2>5. \A i, j \in 1..Len(Pipe') : i < j =>
           \E k, l \in 1..Len(Pipe) : k < l /\ Pipe'[i] = Pipe[k] /\ Pipe'[j] = Pipe[l]
    BY <2>2, <2>4
  <2>6. ASSUME g = 1, NEW j \in 1..Len(Pipe') PROVE Up(g, j) \in 2..Len(Pipe) /\ Pipe'[j] = Pipe[Up(g, j)]
    BY <1>1, <2>2, <2>6 DEF Up
  <2> QED
    BY <2>2, <2>3, <2>5, <2>6
<1>7. CASE Enqueue
  <2>1. CASE Len(queue) < SinkCapacity
    <3>1. adds' = adds /\ t # <<>> /\ queue' = Append(q, Head(t)) /\ todo' = Tail(t)
      BY <1>7, <2>1 DEF Enqueue, journal
    <3>2. Pipe' = Pipe
      BY <1>2, <3>1 DEF Pipe
    <3> QED
      BY <1>4, <1>5, <3>1, <3>2
  <2>2. CASE ~(Len(queue) < SinkCapacity)
    <3>1. t # <<>> /\ todo' = Tail(t) /\ queue' = q /\ adds' = adds
      BY <1>7, <2>2 DEF Enqueue, journal
    <3>2. Pipe' = Without(Pipe, Len(q) + 1)
      BY <1>2, <3>1 DEF Pipe
    <3> QED
      BY <1>1, <1>3, <1>4, <1>6, <3>1, <3>2
  <2> QED
    BY <2>1, <2>2
<1>8. CASE DropCommand
  <2>1. q # <<>> /\ todo' = t /\ queue' = Tail(q) /\ adds' = adds
    BY <1>8 DEF DropCommand, journal, maker
  <2>2. Pipe' = Without(Pipe, 1)
    BY <1>2, <2>1 DEF Pipe
  <2> QED
    BY <1>1, <1>3, <1>4, <1>6, <2>1, <2>2
<1>9. CASE Execute
  <2>1. q # <<>> /\ todo' = t /\ queue' = Tail(q) /\ Pipe[1] = Head(queue)
    BY <1>2, <1>9 DEF Execute, maker
  <2>2. Pipe' = Without(Pipe, 1)
    BY <1>2, <2>1 DEF Pipe
  <2>3. CASE Pipe[1].op # "add"
    <3>1. adds' = adds
      BY <1>9, <2>1, <2>3 DEF Execute
    <3> QED
      BY <1>1, <1>3, <1>4, <1>6, <2>1, <2>2, <3>1
  <2>4. CASE Pipe[1].op = "add"
    <3>1. adds' = [adds EXCEPT ![Pipe[1].u] = Append(@, Pipe[1])]
      BY <1>9, <2>1, <2>4 DEF Execute
    <3>2. Pipe[1] \in Add /\ Pipe[1] \in Piped /\ Len(Pipe) >= 1
      BY <1>3, <2>1, <2>4, AddsTyped DEF Piped
    <3> QED
      BY <1>1, <1>3, <1>4, <1>6, <1>9, <2>1, <2>2, <3>1, <3>2
  <2> QED
    BY <2>3, <2>4
<1>10. CASE Restart
  <2>1. queue' = <<>> /\ todo' = <<>> /\ adds' = adds
    BY <1>10 DEF Restart, journal
  <2>2. <<>> \in Seq(Command)
    OBVIOUS
  <2>3. Pipe' = <<>>
    BY <2>1, <2>2 DEF Pipe
  <2>4. Range(Pipe') = {} /\ Piped' = {} /\ Len(Pipe') = 0
    BY <2>3 DEF Piped, Range
  <2> QED
    BY <2>1, <2>2, <2>4
<1>11. CASE queue' = queue /\ todo' = todo /\ adds' = adds
  <2>1. Pipe' = Pipe
    BY <1>11 DEF Pipe
  <2> QED
    BY <1>1, <1>5, <1>11, <2>1
<1>12. \/ Enqueue \/ DropCommand \/ Execute \/ Restart
       \/ (queue' = queue /\ todo' = todo /\ adds' = adds)
  BY DEF Next, Simulator, StepForwarder, Actors, Price, ForwardStep, UpdatePrice, SkipQuote, RequoteDone,
         IssueControl, ControlTurn, Trade, vars, maker, journal
<1> QED
  BY <1>7, <1>8, <1>9, <1>10, <1>11, <1>12

\* The switch that boot finds is the last one told, if any.
LEMMA RecoveredSwitchFacts ==
    ASSUME InvSwitch
    PROVE  /\ RecoveredSwitch \in BOOLEAN
           /\ Told = {} => RecoveredSwitch = TRUE
           /\ Told # {} => \E u \in Book : RecoveredSwitch = switch[u] /\ switch[u] # None
<1>1. /\ Told = {} => RecoveredSwitch = TRUE
      /\ Told # {} => RecoveredSwitch = switch[Underlying[Max(Told)]]
  BY DEF RecoveredSwitch, Told
<1>2. CASE Told = {}
  BY <1>1, <1>2
<1>3. CASE Told # {}
  <2>1. HasMax(Told) /\ Told \in SUBSET Nat
    BY <1>3, MakerAssumption DEF InvSwitch, Told
  <2>2. Max(Told) \in Told
    BY <2>1, MaxFacts
  <2>3. Underlying[Max(Told)] \in Book /\ switch[Underlying[Max(Told)]] # None
    BY <2>2, MakerAssumption DEF Told
  <2>4. switch[Underlying[Max(Told)]] \in BOOLEAN
    BY <2>3 DEF InvSwitch
  <2> QED
    BY <1>1, <1>3, <2>3, <2>4
<1> QED
  BY <1>2, <1>3

LEMMA TypesStep ==
    ASSUME TypeOK, InvTypes, InvDrive, InvCore, InvSwitch, [Next]_vars, InvCore'
    PROVE  TypeOK' /\ InvTypes' /\ InvDrive'
<1>1. /\ sequenced \in [Book -> SUBSET Nat] /\ adds \in [Book -> Seq(Add)]
      /\ \A u \in Book : \A i \in 1..Len(adds[u]) : adds[u][i].u = u
      /\ book \in [Book -> SUBSET Nat] /\ steps \in Seq(Step) /\ made \in Nat
      /\ \A a \in Journaled \cup Piped : a.contract \in Range(Contracts[a.u])
  BY DEF InvTypes
<1>2. /\ queue' \in Seq(Command) /\ todo' \in Seq(Command)
      /\ \A a \in Journaled' \cup Piped' : a.contract \in Range(Contracts[a.u])
      /\ adds' \in [Book -> Seq(Add)]
      /\ \A u \in Book : \A i \in 1..Len(adds'[u]) : adds'[u][i].u = u
  <2>1. CASE UpdateQuote
    <3>1. PICK u \in Book, c \in Contract, C \in Seq(Cancel), n \in Nat :
             RequoteShape(u, c, C, n)
      BY <2>1, RequotePipe
    <3>2. queue' = queue /\ adds' = adds /\ Journaled' = Journaled
      BY <2>1 DEF UpdateQuote, journal, Journaled
    <3> DEFINE L == Len(Pipe)
               K == Len(C)
               a1 == AddOf(u, c, "bid", nextId + 1, n)
               a2 == AddOf(u, c, "ask", nextId + 2, n)
    <3>4. /\ c \in Range(Contracts[u]) /\ K \in Nat /\ L \in Nat
          /\ \A i \in 1..K : C[i] \in Cancel
          /\ Len(Pipe') = L + K + 2 /\ Pipe' \in Seq(Command) /\ todo' \in Seq(Command)
          /\ \A i \in 1..L : Pipe'[i] = Pipe[i]
          /\ \A i \in 1..K : Pipe'[L + i] = C[i]
          /\ Pipe'[L + K + 1] = a1 /\ Pipe'[L + K + 2] = a2
      BY <3>1 DEF RequoteShape
    <3>5. a1.contract = c /\ a1.u = u /\ a2.contract = c /\ a2.u = u
      BY DEF AddOf
    <3> HIDE DEF L, K, a1, a2
    <3>3. ASSUME NEW a \in Piped' PROVE a.contract \in Range(Contracts[a.u])
      <4>1. PICK i \in 1..L + K + 2 : a = Pipe'[i]
        <5>1. a \in Range(Pipe') /\ Pipe' \in Seq(Command) /\ Len(Pipe') = L + K + 2
          BY <3>3, <3>4 DEF Piped
        <5>2. \E i \in 1..Len(Pipe') : a = Pipe'[i]
          BY <5>1, SeqElement
        <5> QED
          BY <5>1, <5>2
      <4>2. K \in Nat /\ L \in Nat /\ c \in Range(Contracts[u])
        BY <3>4
      <4>3. CASE i \in 1..L
        <5>1. a = Pipe[i] /\ a.op = "add"
          BY <3>4, <3>3, <4>1, <4>3 DEF Piped
        <5>2. a \in Piped
          BY <4>3, <5>1, AddsTyped DEF Piped, L
        <5> QED
          BY <1>1, <5>2
      <4>4. CASE i > L /\ i <= L + K
        <5>1. i - L \in 1..K /\ L + (i - L) = i
          BY <4>1, <4>2, <4>4
        <5>2. a \in Cancel
          BY <3>4, <4>1, <5>1
        <5> QED
          BY <3>3, <5>2 DEF Cancel, Piped
      <4>5. CASE i = L + K + 1
        BY <3>4, <3>5, <4>1, <4>5
      <4>6. CASE i = L + K + 2
        BY <3>4, <3>5, <4>1, <4>6
      <4> QED
        BY <4>1, <4>2, <4>3, <4>4, <4>5, <4>6
    <3> QED
      BY <1>1, <3>2, <3>3, <3>4 DEF InvTypes
  <2>2. CASE ~UpdateQuote
    <3>1. /\ queue' \in Seq(Command) /\ todo' \in Seq(Command) /\ Piped' \subseteq Piped
          /\ \/ adds' = adds
             \/ /\ Pipe[1] \in Add /\ Pipe[1] \in Piped
                /\ adds' = [adds EXCEPT ![Pipe[1].u] = Append(@, Pipe[1])]
      BY <2>2, PipeStep
    <3>2. CASE adds' = adds
      <4>1. Journaled' = Journaled
        BY <3>2 DEF Journaled
      <4> QED
        BY <1>1, <3>1, <3>2, <4>1
    <3>3. CASE /\ Pipe[1] \in Add /\ Pipe[1] \in Piped
               /\ adds' = [adds EXCEPT ![Pipe[1].u] = Append(@, Pipe[1])]
      <4>1. /\ Journaled' = Journaled \cup {Pipe[1]}
            /\ adds' \in [Book -> Seq(Add)]
            /\ \A u \in Book : \A i \in 1..Len(adds'[u]) : adds'[u][i].u = u
        BY <3>3, JournalGrows
      <4> QED
        BY <1>1, <3>1, <3>3, <4>1
    <3> QED
      BY <3>1, <3>2, <3>3
  <2> QED
    BY <2>1, <2>2
<1>3. /\ steps' \in Seq(Step) /\ sequenced' \in [Book -> SUBSET Nat] /\ made' \in Nat
      /\ Len(steps') <= StepCapacity /\ InvDrive'
  <2>1. Len(steps) <= StepCapacity /\ Len(steps) \in Nat /\ StepCapacity \in Nat
    BY <1>1, MakerAssumption DEF TypeOK
  <2>2. CASE \E u \in Book : Price(u)
    <3>1. PICK u \in Book : Price(u)
      BY <2>2
    <3>2. StepRecord(u, made + 1) \in Step
      BY <1>1, <3>1 DEF StepRecord, Step
    <3>3. /\ steps' = Append(steps, StepRecord(u, made + 1)) /\ made' = made + 1
          /\ Len(steps) < StepCapacity /\ sequenced' = sequenced /\ drive' = drive
      BY <3>1 DEF Price, Emit, journal, maker
    <3>4. InvDrive'
      BY <3>3 DEF InvDrive
    <3> QED
      BY <1>1, <2>1, <3>2, <3>3, <3>4
  <2>3. CASE \E ok \in BOOLEAN : ForwardStep(ok)
    <3>1. PICK ok \in BOOLEAN : ForwardStep(ok)
      BY <2>3
    <3> DEFINE s == Head(steps)
    <3>2. /\ steps # <<>> /\ steps' = Tail(steps) /\ made' = made
          /\ drive' = Parked \/ drive' = [pc |-> "drive", step |-> s]
          /\ sequenced' = sequenced \/ sequenced' = [sequenced EXCEPT ![s.u] = @ \cup {s.n}]
      BY <3>1 DEF ForwardStep, DriveAfter
    <3>3. s \in Step /\ Tail(steps) \in Seq(Step) /\ Len(Tail(steps)) = Len(steps) - 1
      BY <1>1, <3>2
    <3> HIDE DEF s
    <3>4. s.u \in Book /\ s.n \in Nat
      BY <3>3 DEF Step
    <3>5. sequenced' \in [Book -> SUBSET Nat]
      <4>1. CASE sequenced' = sequenced
        BY <1>1, <4>1
      <4>2. CASE sequenced' = [sequenced EXCEPT ![s.u] = @ \cup {s.n}]
        <5>1. sequenced[s.u] \cup {s.n} \in SUBSET Nat
          BY <1>1, <3>4
        <5> QED
          BY <1>1, <3>4, <4>2, <5>1
      <4> QED
        BY <3>2, <4>1, <4>2
    <3>6. InvDrive'
      BY <3>2, <3>3 DEF InvDrive, Parked
    <3> QED
      BY <1>1, <2>1, <3>2, <3>3, <3>5, <3>6
  <2>4. CASE UpdatePrice
    <3>1. /\ steps' = steps /\ sequenced' = sequenced /\ made' = made
          /\ drive.pc = "drive"
          /\ \/ drive' = Parked
             \/ drive' = [pc |-> "quote", step |-> drive.step, left |-> Contracts[drive.step.u]]
      BY <2>4 DEF UpdatePrice, journal
    <3>2. drive.step \in Step /\ drive.step.u \in Book
      BY <3>1 DEF InvDrive, Parked, Step
    <3>3. Contracts[drive.step.u] \in Seq(Contract)
      BY <3>2, MakerAssumption
    <3>4. InvDrive'
      <4>1. CASE drive' = Parked
        BY <4>1 DEF InvDrive
      <4>2. CASE drive' = [pc |-> "quote", step |-> drive.step, left |-> Contracts[drive.step.u]]
        BY <3>2, <3>3, <4>2 DEF InvDrive
      <4> QED
        BY <3>1, <4>1, <4>2
    <3> QED
      BY <1>1, <2>1, <3>1, <3>4
  <2>5. CASE UpdateQuote \/ SkipQuote
    <3>1. /\ steps' = steps /\ sequenced' = sequenced /\ made' = made
          /\ drive.pc = "quote" /\ drive.left # <<>> /\ drive' = [drive EXCEPT !.left = Tail(@)]
      BY <2>5 DEF UpdateQuote, SkipQuote, journal
    <3>2. /\ drive \in [pc : {"quote"}, step : Step, left : Seq(Contract)]
          /\ Range(drive.left) \subseteq Range(Contracts[drive.step.u])
      BY <3>1 DEF InvDrive, Parked
    <3>3. Tail(drive.left) \in Seq(Contract) /\ Range(Tail(drive.left)) \subseteq Range(drive.left)
      BY <3>1, <3>2, TailFacts
    <3>4. /\ drive' \in [pc : {"quote"}, step : Step, left : Seq(Contract)]
          /\ drive'.step = drive.step /\ drive'.left = Tail(drive.left)
      BY <3>1, <3>2, <3>3
    <3>5. InvDrive'
      BY <3>2, <3>3, <3>4 DEF InvDrive
    <3> QED
      BY <1>1, <2>1, <3>1, <3>5
  <2>6. CASE Restart
    <3>1. steps' = <<>> /\ drive' = Parked /\ sequenced' = sequenced /\ made' = made
      BY <2>6 DEF Restart, journal
    <3>2. InvDrive' /\ <<>> \in Seq(Step) /\ Len(<<>>) = 0
      BY <3>1 DEF InvDrive
    <3> QED
      BY <1>1, <2>1, <3>1, <3>2
  <2>7. CASE /\ steps' = steps /\ sequenced' = sequenced /\ made' = made
             /\ drive' = drive \/ drive' = Parked
    <3>1. InvDrive'
      BY <2>7 DEF InvDrive
    <3> QED
      BY <1>1, <2>1, <2>7, <3>1
  <2>8. \/ \E u \in Book : Price(u)
        \/ \E ok \in BOOLEAN : ForwardStep(ok)
        \/ UpdatePrice \/ UpdateQuote \/ SkipQuote \/ Restart
        \/ /\ steps' = steps /\ sequenced' = sequenced /\ made' = made
           /\ drive' = drive \/ drive' = Parked
    BY DEF Next, Simulator, StepForwarder, Actors, RequoteDone, Enqueue, Execute, DropCommand, Trade,
           IssueControl, ControlTurn, vars, maker, journal
  <2> QED
    BY <2>2, <2>3, <2>4, <2>5, <2>6, <2>7, <2>8
<1>4. /\ book' \in [Book -> SUBSET Nat] /\ \A u \in Book : book'[u] \subseteq 1..nextId'
  <2>1. ASSUME NEW u \in Book, NEW x \in book'[u] PROVE x \in 1..nextId'
    <3>1. PICK a \in Range(adds'[u]) : a.id = x
      BY <2>1 DEF InvCore, InvFate
    <3>2. a \in Journaled'
      BY <3>1 DEF Journaled
    <3> QED
      BY <3>1, <3>2 DEF InvCore, InvIds
  <2>2. \/ book' = book
        \/ \E u, x : book' = [book EXCEPT ![u] = x]
    BY DEF Next, Simulator, StepForwarder, Actors, Price, ForwardStep, UpdatePrice, UpdateQuote, SkipQuote,
           RequoteDone, Enqueue, Execute, DropCommand, Trade, IssueControl, ControlTurn, Restart, vars
  <2>3. \A u \in Book : book'[u] \subseteq Nat
    BY <2>1
  <2>4. book' = [u \in Book |-> book'[u]]
    BY <1>1, <2>2
  <2> QED
    BY <2>1, <2>3, <2>4
<1>5. nextId' \in 0..MaxIds /\ legs' \in [Contract -> [Side -> 1..MaxIds \cup {None}]]
  <2>1. /\ nextId \in 0..MaxIds /\ legs \in [Contract -> [Side -> 1..MaxIds \cup {None}]] /\ MaxIds \in Nat
    BY MakerAssumption DEF TypeOK
  <2>2. CASE UpdateQuote
    <3> DEFINE c == Head(drive.left)
    <3>1. /\ nextId' = nextId + 2 /\ nextId + 2 <= MaxIds
          /\ legs' = [legs EXCEPT ![c] = [s \in Side |-> IF s = "bid" THEN nextId + 1
                                                                  ELSE nextId + 2]]
      BY <2>2 DEF UpdateQuote
    <3> HIDE DEF c
    <3>2. [s \in Side |-> IF s = "bid" THEN nextId + 1 ELSE nextId + 2] \in [Side -> 1..MaxIds \cup {None}]
      BY <2>1, <3>1
    <3>3. nextId + 2 \in 0..MaxIds
      BY <2>1, <3>1
    <3>4. legs' \in [Contract -> [Side -> 1..MaxIds \cup {None}]]
      BY <2>1, <3>1, <3>2
    <3> QED
      BY <3>1, <3>3, <3>4
  <2>3. CASE Restart
    <3>1. legs' = RecoveredLegs /\ nextId' = RecoveredFloor
      BY <2>3 DEF Restart
    <3>2. /\ RecoveredFloor \in Nat
          /\ RecoveredFloor = 0 \/ \E a \in Journaled : RecoveredFloor = a.id
          /\ RecoveredLegs \in [Contract -> [Side -> Nat \cup {None}]]
      BY RecoveredFacts
    <3>3. RecoveredFloor <= MaxIds
      BY <2>1, <3>2 DEF InvCore, InvIds
    <3>4. \A c \in Contract, s \in Side : legs'[c][s] # None => legs'[c][s] \in 1..nextId'
      BY DEF InvCore, InvLegs
    <3>5. \A c \in Contract, s \in Side : RecoveredLegs[c][s] \in 1..MaxIds \cup {None}
      BY <2>1, <3>1, <3>2, <3>3, <3>4
    <3> QED
      BY <2>1, <3>1, <3>2, <3>3, <3>5
  <2>4. (legs' = legs /\ nextId' = nextId) \/ UpdateQuote \/ Restart
    BY DEF Next, Simulator, StepForwarder, Actors, Price, ForwardStep, UpdatePrice, SkipQuote,
           RequoteDone, Enqueue, Execute, DropCommand, Trade, IssueControl, ControlTurn, vars, maker
  <2> QED
    BY <2>1, <2>2, <2>3, <2>4
<1>6. Len(queue') <= SinkCapacity
  <2>1. Len(queue) <= SinkCapacity /\ Len(queue) \in Nat /\ SinkCapacity \in Nat /\ queue \in Seq(Command)
    BY MakerAssumption DEF TypeOK, InvTypes
  <2>2. CASE Enqueue
    <3>1. CASE Len(queue) < SinkCapacity
      <4>1. Head(todo) \in Command /\ queue' = Append(queue, Head(todo))
        BY <2>2, <3>1 DEF Enqueue, InvTypes
      <4> QED
        BY <2>1, <3>1, <4>1
    <3>2. CASE ~(Len(queue) < SinkCapacity)
      BY <2>1, <2>2, <3>2 DEF Enqueue
    <3> QED
      BY <3>1, <3>2
  <2>3. CASE queue # <<>> /\ queue' = Tail(queue)
    BY <2>1, <2>3, TailFacts
  <2>4. CASE queue' = <<>>
    BY <2>1, <2>4
  <2>5. Enqueue \/ (queue # <<>> /\ queue' = Tail(queue)) \/ queue' = <<>> \/ queue' = queue
    BY DEF Next, Simulator, StepForwarder, Actors, Price, ForwardStep, UpdatePrice, UpdateQuote, SkipQuote,
           RequoteDone, Execute, DropCommand, Trade, IssueControl, ControlTurn, Restart, vars
  <2> QED
    BY <2>1, <2>2, <2>3, <2>4, <2>5
<1>7. enabled' \in BOOLEAN /\ stale' \in BOOLEAN
  <2>1. enabled \in BOOLEAN /\ stale \in BOOLEAN
    BY DEF TypeOK
  <2>2. CASE \E o \in Operator, committed \in BOOLEAN : ControlTurn(o, committed)
    <3>1. PICK o \in Operator, committed \in BOOLEAN : ControlTurn(o, committed)
      BY <2>2
    <3>2. control[o] \in Carried
      BY <3>1 DEF ControlTurn, InvSwitch
    <3>3. control[o].on \in BOOLEAN
      BY <3>2 DEF Carried
    <3>4. enabled' = enabled \/ enabled' = control[o].on
      BY <3>1 DEF ControlTurn
    <3>5. stale' = stale \/ stale' = ~committed
      BY <3>1 DEF ControlTurn
    <3> QED
      BY <2>1, <3>3, <3>4, <3>5
  <2>3. CASE Restart
    <3>1. enabled' = RecoveredSwitch /\ stale' = FALSE
      BY <2>3 DEF Restart
    <3>2. RecoveredSwitch \in BOOLEAN
      BY RecoveredSwitchFacts
    <3> QED
      BY <3>1, <3>2
  <2>4. \/ \E o \in Operator, committed \in BOOLEAN : ControlTurn(o, committed)
        \/ Restart \/ (enabled' = enabled /\ stale' = stale)
    BY DEF Next, Simulator, StepForwarder, Actors, Price, ForwardStep, UpdatePrice, UpdateQuote, SkipQuote,
           RequoteDone, Enqueue, Execute, DropCommand, Trade, IssueControl, vars, operator
  <2> QED
    BY <2>1, <2>2, <2>3, <2>4
<1>8. TypeOK'
  <2>1. \A u \in Book : book'[u] \subseteq 1..MaxIds
    BY <1>4, <1>5, MakerAssumption
  <2> QED
    BY <1>3, <1>5, <1>6, <1>7, <2>1 DEF TypeOK
<1>9. InvTypes'
  BY <1>2, <1>3, <1>4 DEF InvTypes
<1> QED
  BY <1>3, <1>8, <1>9

-----------------------------------------------------------------------------
(* Causes before effects.                                                   *)

\* What a step does to the prices: one is made, one is sequenced or refused, or all are lost;
\* the requote in progress stays with its step.
LEMMA PriceStep ==
    ASSUME InvTypes, InvDrive, InvOrder, [Next]_vars
    PROVE  /\ \A u \in Book : sequenced[u] \subseteq sequenced'[u] /\ \A n \in sequenced'[u] : n <= made'
           /\ made \in Nat /\ made' \in Nat /\ made <= made'
           /\ \A i \in 1..Len(steps') : steps'[i].n <= made'
           /\ \A i, j \in 1..Len(steps') : i < j => steps'[i].n < steps'[j].n
           /\ \A n \in Nat : /\ n <= made
                             /\ \A i \in 1..Len(steps) : n < steps[i].n
                             => \A i \in 1..Len(steps') : n < steps'[i].n
           /\ drive' # Parked =>
                \/ drive # Parked /\ drive'.step = drive.step
                \/ /\ drive'.step.n \in sequenced'[drive'.step.u]
                   /\ \A i \in 1..Len(steps') : drive'.step.n < steps'[i].n
                   /\ \E i \in 1..Len(steps) : drive'.step = steps[i]
<1>1. /\ steps \in Seq(Step) /\ made \in Nat /\ sequenced \in [Book -> SUBSET Nat]
      /\ Len(steps) \in Nat /\ \A i \in 1..Len(steps) : steps[i] \in Step
  BY DEF InvTypes
<1>2. \A s \in Step : s.u \in Book /\ s.n \in Nat
  BY DEF Step
<1>3. /\ \A u \in Book : \A n \in sequenced[u] : n <= made
      /\ \A i \in 1..Len(steps) : steps[i].n <= made
      /\ \A i, j \in 1..Len(steps) : i < j => steps[i].n < steps[j].n
  BY DEF InvOrder
<1>4. CASE \E u \in Book : Price(u)
  <2>1. PICK u \in Book : Price(u)
    BY <1>4
  <2> DEFINE r == StepRecord(u, made + 1)
  <2>2. /\ steps' = Append(steps, r) /\ made' = made + 1 /\ sequenced' = sequenced /\ drive' = drive
    BY <2>1 DEF Price, Emit, journal, maker
  <2>3. r \in Step /\ r.n = made + 1
    BY <1>1, <2>1 DEF StepRecord, Step
  <2> HIDE DEF r
  <2>4. /\ Len(steps') = Len(steps) + 1 /\ steps'[Len(steps) + 1] = r
        /\ \A i \in 1..Len(steps) : steps'[i] = steps[i]
    BY <1>1, <2>2, <2>3, AppendFacts
  <2>5. ASSUME NEW i \in 1..Len(steps')
        PROVE  \/ i \in 1..Len(steps) /\ steps'[i] = steps[i] /\ steps'[i].n \in Nat
               \/ i = Len(steps) + 1 /\ steps'[i].n = made + 1
    BY <1>1, <1>2, <2>3, <2>4
  <2>6. \A i \in 1..Len(steps') : steps'[i].n <= made'
    BY <1>1, <1>3, <2>2, <2>5
  <2>7. \A i, j \in 1..Len(steps') : i < j => steps'[i].n < steps'[j].n
    <3>1. ASSUME NEW i \in 1..Len(steps'), NEW j \in 1..Len(steps'), i < j PROVE steps'[i].n < steps'[j].n
      <4>1. i \in 1..Len(steps)
        BY <1>1, <2>4, <3>1
      <4>2. CASE j = Len(steps) + 1
        BY <1>1, <1>2, <1>3, <2>3, <2>4, <4>1, <4>2
      <4>3. CASE j \in 1..Len(steps)
        BY <1>3, <2>4, <3>1, <4>1, <4>3
      <4> QED
        BY <2>5, <4>2, <4>3
    <3> QED
      BY <3>1
  <2>8. ASSUME NEW n \in Nat, n <= made, \A i \in 1..Len(steps) : n < steps[i].n,
               NEW i \in 1..Len(steps')
        PROVE  n < steps'[i].n
    BY <1>1, <2>5, <2>8
  <2>9. \A u1 \in Book : \A n \in sequenced'[u1] : n <= made'
    BY <1>1, <1>3, <2>2
  <2>10. made' \in Nat /\ made <= made'
    BY <1>1, <2>2
  <2> QED
    BY <1>1, <2>2, <2>6, <2>7, <2>8, <2>9, <2>10
<1>5. CASE \E ok \in BOOLEAN : ForwardStep(ok)
  <2>1. PICK ok \in BOOLEAN : ForwardStep(ok)
    BY <1>5
  <2> DEFINE s == Head(steps)
  <2>2. /\ steps # <<>> /\ steps' = Tail(steps) /\ made' = made
        /\ \/ drive' = Parked /\ sequenced' = sequenced
           \/ /\ drive' = [pc |-> "drive", step |-> s]
              /\ sequenced' = [sequenced EXCEPT ![s.u] = @ \cup {s.n}]
    BY <2>1 DEF ForwardStep, DriveAfter
  <2>3. /\ Tail(steps) \in Seq(Step) /\ Len(Tail(steps)) = Len(steps) - 1 /\ Len(steps) >= 1
        /\ s = steps[1] /\ s \in Step
        /\ \A i \in 1..Len(steps) - 1 : Tail(steps)[i] = steps[i + 1]
    BY <1>1, <2>2, TailFacts
  <2> HIDE DEF s
  <2>4. s.u \in Book /\ s.n \in Nat /\ s.n <= made /\ 1 \in 1..Len(steps)
    BY <1>1, <1>2, <1>3, <2>3
  <2>5. /\ Len(steps') = Len(steps) - 1
        /\ \A i \in 1..Len(steps') : i + 1 \in 2..Len(steps) /\ steps'[i] = steps[i + 1]
    BY <1>1, <2>2, <2>3
  <2>6. /\ \A i \in 1..Len(steps') : steps'[i].n <= made'
        /\ \A i, j \in 1..Len(steps') : i < j => steps'[i].n < steps'[j].n
        /\ \A i \in 1..Len(steps') : s.n < steps'[i].n
    <3>1. \A i \in 1..Len(steps') : i + 1 \in 1..Len(steps) /\ 1 < i + 1
      BY <1>1, <2>5
    <3>2. \A i, j \in 1..Len(steps') : i < j => i + 1 < j + 1
      BY <1>1, <2>5
    <3>3. \A i \in 1..Len(steps') : s.n < steps'[i].n
      BY <1>3, <2>3, <2>4, <2>5, <3>1
    <3>4. \A i, j \in 1..Len(steps') : i < j => steps'[i].n < steps'[j].n
      BY <1>3, <2>5, <3>1, <3>2
    <3>5. \A i \in 1..Len(steps') : steps'[i].n <= made'
      BY <1>3, <2>2, <2>5, <3>1
    <3> QED
      BY <3>3, <3>4, <3>5
  <2>7. ASSUME NEW n \in Nat, n <= made, \A i \in 1..Len(steps) : n < steps[i].n,
               NEW i \in 1..Len(steps')
        PROVE  n < steps'[i].n
    <3>1. i + 1 \in 1..Len(steps)
      BY <1>1, <2>5, <2>7
    <3> QED
      BY <2>5, <2>7, <3>1
  <2>8. CASE drive' = Parked /\ sequenced' = sequenced
    BY <1>1, <1>3, <2>2, <2>6, <2>7, <2>8
  <2>9. CASE /\ drive' = [pc |-> "drive", step |-> s]
             /\ sequenced' = [sequenced EXCEPT ![s.u] = @ \cup {s.n}]
    <3>1. /\ \A u \in Book : u # s.u => sequenced'[u] = sequenced[u]
          /\ sequenced'[s.u] = sequenced[s.u] \cup {s.n}
      BY <1>1, <2>4, <2>9
    <3>2. \A u \in Book : sequenced[u] \subseteq sequenced'[u] /\ \A n \in sequenced'[u] : n <= made'
      BY <1>3, <2>2, <2>4, <3>1
    <3>3. drive'.step = s
      BY <2>9
    <3>4. /\ drive'.step.n \in sequenced'[drive'.step.u]
          /\ \A i \in 1..Len(steps') : drive'.step.n < steps'[i].n
          /\ \E i \in 1..Len(steps) : drive'.step = steps[i]
      BY <2>3, <2>4, <2>6, <3>1, <3>3
    <3>5. made \in Nat /\ made' \in Nat /\ made <= made'
      BY <1>1, <2>2
    <3> QED
      BY <2>6, <2>7, <3>2, <3>4, <3>5
  <2> QED
    BY <2>2, <2>8, <2>9
<1>6. CASE Restart
  <2>1. steps' = <<>> /\ drive' = Parked /\ sequenced' = sequenced /\ made' = made
    BY <1>6 DEF Restart, journal
  <2>2. Len(steps') = 0
    BY <2>1
  <2> QED
    BY <1>1, <1>3, <2>1, <2>2
<1>7. CASE UpdatePrice \/ UpdateQuote \/ SkipQuote
  <2>1. steps' = steps /\ sequenced' = sequenced /\ made' = made
    BY <1>7 DEF UpdatePrice, UpdateQuote, SkipQuote, journal
  <2>2. drive' # Parked => drive # Parked /\ drive'.step = drive.step
    <3>1. CASE UpdatePrice
      BY <3>1 DEF UpdatePrice, Parked
    <3>2. CASE UpdateQuote \/ SkipQuote
      <4>1. drive.pc = "quote" /\ drive' = [drive EXCEPT !.left = Tail(@)]
        BY <3>2 DEF UpdateQuote, SkipQuote
      <4>2. drive \in [pc : {"quote"}, step : Step, left : Seq(Contract)] /\ drive # Parked
        BY <4>1 DEF InvDrive, Parked
      <4> QED
        BY <4>1, <4>2
    <3> QED
      BY <1>7, <3>1, <3>2
  <2> QED
    BY <1>1, <1>3, <2>1, <2>2
<1>8. CASE /\ steps' = steps /\ sequenced' = sequenced /\ made' = made
           /\ drive' = drive \/ drive' = Parked
  BY <1>1, <1>3, <1>8
<1>9. \/ \E u \in Book : Price(u)
      \/ \E ok \in BOOLEAN : ForwardStep(ok)
      \/ UpdatePrice \/ UpdateQuote \/ SkipQuote \/ Restart
      \/ /\ steps' = steps /\ sequenced' = sequenced /\ made' = made
         /\ drive' = drive \/ drive' = Parked
  BY DEF Next, Simulator, StepForwarder, Actors, RequoteDone, Enqueue, Execute, DropCommand, Trade,
         IssueControl, ControlTurn, vars, maker, journal
<1> QED
  BY <1>4, <1>5, <1>6, <1>7, <1>8, <1>9

\* One step for those that move the pipe along, one for the requote.
LEMMA OrderStep ==
    ASSUME TypeOK, InvTypes, InvDrive, InvOrder, [Next]_vars
    PROVE  InvOrder'
<1> DEFINE All == Journaled \cup Piped
<1>1. /\ \A u \in Book : sequenced[u] \subseteq sequenced'[u] /\ \A n \in sequenced'[u] : n <= made'
      /\ made \in Nat /\ made' \in Nat /\ made <= made'
      /\ \A i \in 1..Len(steps') : steps'[i].n <= made'
      /\ \A i, j \in 1..Len(steps') : i < j => steps'[i].n < steps'[j].n
      /\ \A n \in Nat : /\ n <= made
                        /\ \A i \in 1..Len(steps) : n < steps[i].n
                        => \A i \in 1..Len(steps') : n < steps'[i].n
      /\ drive' # Parked =>
           \/ drive # Parked /\ drive'.step = drive.step
           \/ /\ drive'.step.n \in sequenced'[drive'.step.u]
              /\ \A i \in 1..Len(steps') : drive'.step.n < steps'[i].n
              /\ \E i \in 1..Len(steps) : drive'.step = steps[i]
  BY PriceStep
<1>2. /\ Piped \subseteq Add /\ Journaled \subseteq Add
      /\ Pipe \in Seq(Command) /\ Len(Pipe) \in Nat
      /\ \A i \in 1..Len(Pipe) : Pipe[i] \in Command /\ Pipe[i] \in Range(Pipe)
      /\ \A m \in Range(Pipe) : \E i \in 1..Len(Pipe) : m = Pipe[i]
      /\ \A m \in Command : m.op = "add" => m \in Add
  BY AddsTyped
<1>3. \A a \in Add : a.u \in Book /\ a.for \in Nat /\ a.op = "add"
  BY DEF Add
<1>4. /\ \A a \in Piped : a.for \in sequenced[a.u]
      /\ \A a \in All : a.for <= made /\ \A i \in 1..Len(steps) : a.for < steps[i].n
      /\ drive # Parked =>
           /\ drive.step.n \in sequenced[drive.step.u]
           /\ \A i \in 1..Len(steps) : drive.step.n < steps[i].n
           /\ \A a \in All : a.for <= drive.step.n
      /\ \A i, j \in 1..Len(Pipe) : i < j /\ Pipe[i].op = "add" /\ Pipe[j].op = "add"
           => Pipe[i].for <= Pipe[j].for
      /\ \A a \in Journaled, b \in Piped : a.for <= b.for
      /\ \A u \in Book : \A n \in sequenced[u] : n <= made
  BY DEF InvOrder
<1>5. drive # Parked => drive.step \in Step /\ drive.step.u \in Book /\ drive.step.n \in Nat
  <2>1. drive # Parked => drive.step \in Step
    BY DEF InvDrive
  <2> QED
    BY <2>1 DEF Step
<1>6. \A i \in 1..Len(steps) : steps[i].n \in Nat
  <2>1. \A i \in 1..Len(steps) : steps[i] \in Step
    BY DEF InvTypes
  <2> QED
    BY <2>1 DEF Step
<1>7. SUFFICES
        /\ \A a \in Piped' : a.for \in sequenced'[a.u]
        /\ \A a \in Journaled' \cup Piped' : a \in All \/ (drive # Parked /\ drive' # Parked
                                             /\ drive'.step = drive.step /\ a.for = drive.step.n)
        /\ \A i, j \in 1..Len(Pipe') : i < j /\ Pipe'[i].op = "add" /\ Pipe'[j].op = "add"
             => Pipe'[i].for <= Pipe'[j].for
        /\ \A a \in Journaled', b \in Piped' : a.for <= b.for
  <2> HIDE DEF All
  <2>1. SUFFICES ASSUME
          /\ \A a \in Piped' : a.for \in sequenced'[a.u]
          /\ \A a \in Journaled' \cup Piped' : a \in All \/ (drive # Parked /\ drive' # Parked
                                               /\ drive'.step = drive.step /\ a.for = drive.step.n)
          /\ \A i, j \in 1..Len(Pipe') : i < j /\ Pipe'[i].op = "add" /\ Pipe'[j].op = "add"
               => Pipe'[i].for <= Pipe'[j].for
          /\ \A a \in Journaled', b \in Piped' : a.for <= b.for
        PROVE  InvOrder'
    BY Zenon
  <2>2. All \subseteq Add
    BY <1>2 DEF All
  <2>3. ASSUME drive # Parked PROVE drive.step.n <= made
    BY <1>4, <1>5, <2>3
  <2>4. ASSUME drive # Parked PROVE \A i \in 1..Len(steps') : drive.step.n < steps'[i].n
    BY <1>1, <1>4, <1>5, <2>3, <2>4
  <2>5. ASSUME NEW a \in Journaled' \cup Piped'
        PROVE  a.for <= made' /\ \A i \in 1..Len(steps') : a.for < steps'[i].n
    <3>1. CASE a \in All
      <4>1. a.for \in Nat /\ a.for <= made /\ \A i \in 1..Len(steps) : a.for < steps[i].n
        BY <1>3, <1>4, <2>2, <3>1
      <4> QED
        BY <1>1, <4>1
    <3>2. CASE drive # Parked /\ a.for = drive.step.n
      BY <1>1, <1>5, <2>3, <2>4, <3>2
    <3> QED
      BY <2>1, <2>5, <3>1, <3>2
  <2>6. ASSUME drive' # Parked
        PROVE  /\ drive'.step.n \in sequenced'[drive'.step.u]
               /\ \A i \in 1..Len(steps') : drive'.step.n < steps'[i].n
               /\ \A a \in Journaled' \cup Piped' : a.for <= drive'.step.n
    <3>1. CASE drive # Parked /\ drive'.step = drive.step
      <4>1. drive'.step.n \in sequenced'[drive'.step.u]
        BY <1>1, <1>4, <1>5, <3>1
      <4>2. \A a \in Journaled' \cup Piped' : a.for <= drive'.step.n
        BY <1>4, <1>5, <2>1, <3>1
      <4> QED
        BY <2>4, <3>1, <4>1, <4>2
    <3>2. CASE /\ drive'.step.n \in sequenced'[drive'.step.u]
               /\ \A i \in 1..Len(steps') : drive'.step.n < steps'[i].n
               /\ \E i \in 1..Len(steps) : drive'.step = steps[i]
      <4>1. PICK i \in 1..Len(steps) : drive'.step = steps[i]
        BY <3>2
      <4>2. ASSUME NEW a \in Journaled' \cup Piped' PROVE a.for <= drive'.step.n
        <5>1. CASE a \in All
          BY <1>3, <1>4, <1>6, <2>2, <4>1, <5>1
        <5>2. CASE drive # Parked /\ drive'.step = drive.step /\ a.for = drive.step.n
          BY <1>5, <5>2
        <5> QED
          BY <2>1, <4>2, <5>1, <5>2
      <4> QED
        BY <3>2, <4>2
    <3> QED
      BY <1>1, <2>6, <3>1, <3>2
  <2> QED
    BY <1>1, <2>1, <2>5, <2>6 DEF InvOrder
<1>8. CASE ~UpdateQuote
  <2>1. /\ Range(Pipe') \subseteq Range(Pipe) /\ Piped' \subseteq Piped
        /\ \A i, j \in 1..Len(Pipe') : i < j =>
             \E k, l \in 1..Len(Pipe) : k < l /\ Pipe'[i] = Pipe[k] /\ Pipe'[j] = Pipe[l]
        /\ \/ adds' = adds
           \/ /\ Len(Pipe) >= 1 /\ Pipe[1] \in Add /\ Pipe[1] \in Piped
              /\ adds' = [adds EXCEPT ![Pipe[1].u] = Append(@, Pipe[1])]
              /\ \A j \in 1..Len(Pipe') : \E l \in 2..Len(Pipe) : Pipe'[j] = Pipe[l]
    BY <1>8, PipeStep
  <2>2. \A a \in Piped' : a.for \in sequenced'[a.u]
    BY <1>1, <1>2, <1>3, <1>4, <2>1
  <2>3. \A i, j \in 1..Len(Pipe') : i < j /\ Pipe'[i].op = "add" /\ Pipe'[j].op = "add"
          => Pipe'[i].for <= Pipe'[j].for
    BY <1>4, <2>1
  <2>4. CASE adds' = adds
    <3>1. Journaled' = Journaled
      BY <2>4 DEF Journaled
    <3> QED
      BY <1>4, <2>1, <2>2, <2>3, <3>1
  <2>5. CASE /\ Len(Pipe) >= 1 /\ Pipe[1] \in Add /\ Pipe[1] \in Piped
             /\ adds' = [adds EXCEPT ![Pipe[1].u] = Append(@, Pipe[1])]
             /\ \A j \in 1..Len(Pipe') : \E l \in 2..Len(Pipe) : Pipe'[j] = Pipe[l]
    <3>1. Journaled' = Journaled \cup {Pipe[1]}
      BY <2>5, JournalGrows
    <3>2. ASSUME NEW b \in Piped' PROVE Pipe[1].for <= b.for
      <4>1. b \in Range(Pipe') /\ b.op = "add"
        BY DEF Piped
      <4>2. queue' \in Seq(Command) /\ todo' \in Seq(Command)
        BY <1>8, PipeStep
      <4>3. Pipe' \in Seq(Command)
        BY <4>2, PipeMoves DEF Pipe
      <4>4. PICK j \in 1..Len(Pipe') : b = Pipe'[j]
        BY <4>1, <4>3, SeqElement
      <4>5. PICK l \in 2..Len(Pipe) : b = Pipe[l]
        BY <2>5, <4>4
      <4>6. 1 \in 1..Len(Pipe) /\ l \in 1..Len(Pipe) /\ 1 < l /\ Pipe[1].op = "add"
        BY <1>2, <1>3, <2>5, <4>5
      <4> QED
        BY <1>4, <4>1, <4>5, <4>6
    <3> QED
      BY <1>4, <2>1, <2>2, <2>3, <2>5, <3>1, <3>2
  <2> QED
    BY <2>1, <2>4, <2>5
<1>9. CASE UpdateQuote
  <2>1. PICK u \in Book, c \in Contract, C \in Seq(Cancel), n \in Nat : RequoteShape(u, c, C, n)
    BY <1>9, RequotePipe
  <2> DEFINE L == Len(Pipe)
             K == Len(C)
  <2>2. /\ u = drive.step.u /\ n = drive.step.n /\ K \in Nat /\ L \in Nat
        /\ \A i \in 1..K : C[i] \in Cancel
        /\ Len(Pipe') = L + K + 2 /\ Pipe' \in Seq(Command)
        /\ \A i \in 1..L : Pipe'[i] = Pipe[i]
        /\ \A i \in 1..K : Pipe'[L + i] = C[i]
        /\ Pipe'[L + K + 1] = AddOf(u, c, "bid", nextId + 1, n)
        /\ Pipe'[L + K + 2] = AddOf(u, c, "ask", nextId + 2, n)
        /\ adds' = adds
    BY <2>1 DEF RequoteShape
  <2> HIDE DEF L, K
  <2>3. /\ drive # Parked /\ drive' # Parked /\ drive'.step = drive.step /\ sequenced' = sequenced
    <3>1. drive.pc = "quote" /\ drive' = [drive EXCEPT !.left = Tail(@)] /\ sequenced' = sequenced
      BY <1>9 DEF UpdateQuote, journal
    <3>2. drive \in [pc : {"quote"}, step : Step, left : Seq(Contract)] /\ drive # Parked
      BY <3>1 DEF InvDrive, Parked
    <3>3. drive'.pc = "quote" /\ drive'.step = drive.step
      BY <3>1, <3>2
    <3> QED
      BY <3>1, <3>2, <3>3 DEF Parked
  <2>4. Journaled' = Journaled
    BY <2>2 DEF Journaled
  <2>5. \A m \in Cancel : m.op # "add"
    BY DEF Cancel
  <2>6. ASSUME NEW i \in 1..Len(Pipe'), Pipe'[i].op = "add"
        PROVE  \/ i \in 1..L /\ Pipe'[i] = Pipe[i] /\ Pipe[i] \in Piped
               \/ i > L /\ Pipe'[i].u = u /\ Pipe'[i].for = n
    <3>1. i \in Nat /\ (i \in 1..L \/ (i > L /\ i - L \in 1..K) \/ i = L + K + 1 \/ i = L + K + 2)
      BY <2>2, <2>6
    <3>2. CASE i \in 1..L
      <4>1. Pipe'[i] = Pipe[i] /\ Pipe[i] \in Range(Pipe)
        BY <1>2, <2>2, <3>2 DEF L
      <4> QED
        BY <2>6, <3>2, <4>1 DEF Piped
    <3>3. CASE i > L /\ i - L \in 1..K
      <4>1. Pipe'[L + (i - L)] = C[i - L] /\ L + (i - L) = i /\ C[i - L] \in Cancel
        BY <2>2, <3>1, <3>3
      <4> QED
        BY <2>5, <2>6, <4>1
    <3>4. CASE i = L + K + 1 \/ i = L + K + 2
      <4>1. Pipe'[i].u = u /\ Pipe'[i].for = n
        BY <2>2, <3>4 DEF AddOf
      <4> QED
        BY <2>2, <3>4, <4>1
    <3> QED
      BY <3>1, <3>2, <3>3, <3>4
  <2>7. ASSUME NEW b \in Piped' PROVE b \in Piped \/ (b.u = u /\ b.for = n)
    <3>1. b \in Range(Pipe') /\ b.op = "add"
      BY DEF Piped
    <3>2. PICK i \in 1..Len(Pipe') : b = Pipe'[i]
      BY <2>2, <3>1, SeqElement
    <3> QED
      BY <2>6, <3>1, <3>2
  <2>8. n \in sequenced[u] /\ \A a \in All : a.for <= n
    BY <1>4, <2>2, <2>3
  <2>9. \A a \in Piped' : a.for \in sequenced'[a.u]
    BY <1>4, <2>3, <2>7, <2>8
  <2>10. ASSUME NEW i \in 1..Len(Pipe'), NEW j \in 1..Len(Pipe'), i < j, Pipe'[i].op = "add",
                Pipe'[j].op = "add"
         PROVE  Pipe'[i].for <= Pipe'[j].for
    <3>1. CASE i \in 1..L /\ j \in 1..L
      BY <1>4, <2>2, <2>10, <3>1 DEF L
    <3>2. CASE i \in 1..L /\ ~(j \in 1..L)
      BY <2>6, <2>8, <2>10, <3>2
    <3>3. CASE ~(i \in 1..L)
      <4>1. ~(j \in 1..L)
        BY <2>2, <2>10, <3>3
      <4> QED
        BY <2>6, <2>10, <3>3, <4>1
    <3> QED
      BY <3>1, <3>2, <3>3
  <2>11. \A a \in Journaled', b \in Piped' : a.for <= b.for
    BY <1>4, <2>4, <2>7, <2>8
  <2>12. \A a \in Journaled' \cup Piped' : a \in All \/ a.for = drive.step.n
    BY <2>2, <2>4, <2>7
  <2> QED
    BY <2>3, <2>9, <2>10, <2>11, <2>12
<1> QED
  BY <1>8, <1>9

-----------------------------------------------------------------------------
(* The kill switch.                                                         *)

\* The underlyings a control has not reached are a suffix of them all.
LEMMA ControlLeft ==
    ASSUME NEW k \in 1..Len(Underlying)
    PROVE  LET left == SubSeq(Underlying, k, Len(Underlying)) IN
           /\ Head(left) = Underlying[k] /\ Underlying[k] \in Book
           /\ Tail(left) = SubSeq(Underlying, k + 1, Len(Underlying))
           /\ Tail(left) = <<>> <=> k = Len(Underlying)
           /\ \A on : on \in BOOLEAN => None # [on |-> on, left |-> left]
<1>1. Underlying \in Seq(Book) /\ Len(Underlying) \in Nat
  BY MakerAssumption
<1> DEFINE left == SubSeq(Underlying, k, Len(Underlying))
           rest == SubSeq(Underlying, k + 1, Len(Underlying))
<1>2. /\ left \in Seq(Book) /\ Len(left) = Len(Underlying) - k + 1
      /\ \A i \in 1..Len(left) : left[i] = Underlying[k + i - 1]
  BY <1>1
<1>3. /\ rest \in Seq(Book) /\ Len(rest) = Len(Underlying) - k
      /\ \A i \in 1..Len(rest) : rest[i] = Underlying[k + i]
  BY <1>1
<1>4. \A on \in BOOLEAN : None # [on |-> on, left |-> left]
  <2>1. left \in Suffixes(Underlying)
    BY <1>1 DEF Suffixes
  <2> QED
    BY <2>1, MakerAssumption
<1> HIDE DEF left, rest
<1>5. left # <<>> /\ Len(left) >= 1 /\ Len(left) \in Nat
  BY <1>1, <1>2
<1>6. /\ Tail(left) \in Seq(Book) /\ Len(Tail(left)) = Len(left) - 1 /\ Head(left) = left[1]
      /\ \A i \in 1..Len(left) - 1 : Tail(left)[i] = left[i + 1]
  BY <1>2, <1>5, TailFacts
<1>7. Head(left) = Underlying[k]
  BY <1>1, <1>2, <1>5, <1>6
<1>8. \A i \in 1..Len(left) - 1 : Tail(left)[i] = rest[i]
  <2>1. ASSUME NEW i \in 1..Len(left) - 1 PROVE Tail(left)[i] = rest[i]
    <3>1. i + 1 \in 1..Len(left) /\ k + (i + 1) - 1 = k + i /\ i \in 1..Len(rest)
      BY <1>1, <1>2, <1>3, <2>1
    <3>2. left[i + 1] = Underlying[k + i]
      BY <1>2, <3>1
    <3> QED
      BY <1>3, <1>6, <2>1, <3>1, <3>2
  <2> QED
    BY <2>1
<1>9. Len(Tail(left)) = Len(rest)
  BY <1>1, <1>2, <1>3, <1>6
<1>10. Tail(left) = rest
  <2> DEFINE t == Tail(left)
  <2>1. t \in Seq(Book) /\ Len(t) = Len(rest) /\ rest \in Seq(Book) /\ \A i \in 1..Len(t) : t[i] = rest[i]
    BY <1>3, <1>6, <1>8, <1>9
  <2> HIDE DEF t
  <2>2. t = rest
    BY <2>1
  <2> QED
    BY <2>2 DEF t
<1>11. rest = <<>> <=> k = Len(Underlying)
  BY <1>1, <1>3
<1>12. Underlying[k] \in Book
  BY <1>1
<1> QED
  BY <1>4, <1>7, <1>10, <1>11, <1>12 DEF left, rest

LEMMA CarriedHas ==
    \A on \in BOOLEAN, k \in 1..Len(Underlying) :
        [on |-> on, left |-> SubSeq(Underlying, k, Len(Underlying))] \in Carried
BY DEF Carried

\* What a turn of a control does: at its k-th underlying the control is committed or refused.
LEMMA ControlFacts ==
    ASSUME InvSwitch, NEW o \in Operator, NEW committed \in BOOLEAN, ControlTurn(o, committed)
    PROVE  \E on \in BOOLEAN, k \in 1..Len(Underlying) :
             /\ Underlying[k] \in Book
             /\ k = Len(Underlying) => stale' = ~committed
             /\ k # Len(Underlying) =>
                  /\ stale' = stale
                  /\ control'[o] # None
             /\ control' \in [Operator -> Carried \cup {None}]
             /\ committed =>
                  /\ switch' = [switch EXCEPT ![Underlying[k]] = on] /\ enabled' = on
                  /\ book' = [book EXCEPT ![Underlying[k]] = ApplyControl(on, @)]
                  /\ swept' = IF on THEN [v \in Book |-> {}]
                              ELSE [swept EXCEPT ![Underlying[k]] =
                                      {[adds |-> Len(adds[Underlying[k]]),
                                        steps |-> sequenced[Underlying[k]]]}]
             /\ ~committed => UNCHANGED <<switch, enabled, book, swept>>
<1>1. control[o] \in Carried /\ control \in [Operator -> Carried \cup {None}]
  BY DEF ControlTurn, InvSwitch
<1>2. PICK on \in BOOLEAN, k \in 1..Len(Underlying) :
        control[o] = [on |-> on, left |-> SubSeq(Underlying, k, Len(Underlying))]
  BY <1>1 DEF Carried
<1> DEFINE left == SubSeq(Underlying, k, Len(Underlying))
           rest == SubSeq(Underlying, k + 1, Len(Underlying))
           u == Underlying[k]
<1>3. /\ Head(left) = u /\ u \in Book /\ Tail(left) = rest
      /\ rest = <<>> <=> k = Len(Underlying)
      /\ \A x : x \in BOOLEAN => None # [on |-> x, left |-> left]
  BY ControlLeft
<1>4. Len(Underlying) \in Nat /\ Underlying \in Seq(Book)
  BY MakerAssumption
<1>5. k # Len(Underlying) => k + 1 \in 1..Len(Underlying)
  BY <1>4
<1>6. k # Len(Underlying) => None # [on |-> on, left |-> rest]
  BY <1>5, ControlLeft
<1>7. k # Len(Underlying) => [on |-> on, left |-> rest] \in Carried
  BY <1>5, CarriedHas
<1> HIDE DEF left, rest
<1>8. control[o].on = on /\ control[o].left = left
  BY <1>2 DEF left
<1>9. /\ Head(control[o].left) = u /\ Tail(control[o].left) = rest
  BY <1>3, <1>8
<1>10. u = LastUnderlying <=> k = Len(Underlying)
  <2>1. DOMAIN Underlying = 1..Len(Underlying)
    BY <1>4
  <2>2. \A i, j \in DOMAIN Underlying : Underlying[i] = Underlying[j] => i = j
    BY MakerAssumption DEF IsInjective
  <2>3. k \in 1..Len(Underlying) /\ Len(Underlying) \in 1..Len(Underlying)
    BY <1>4
  <2> QED
    BY <2>1, <2>2, <2>3 DEF LastUnderlying
<1> HIDE DEF u
<1>11. control' = [control EXCEPT ![o] = IF rest = <<>> THEN None ELSE [on |-> on, left |-> rest]]
  BY <1>8, <1>9 DEF ControlTurn
<1>12. control' \in [Operator -> Carried \cup {None}]
       /\ control'[o] = IF rest = <<>> THEN None ELSE [on |-> on, left |-> rest]
  BY <1>1, <1>3, <1>7, <1>11
<1>13. stale' = IF k = Len(Underlying) THEN ~committed ELSE stale
  BY <1>9, <1>10 DEF ControlTurn
<1>14. /\ committed => /\ switch' = [switch EXCEPT ![u] = on] /\ enabled' = on
                       /\ book' = [book EXCEPT ![u] = ApplyControl(on, @)]
                       /\ swept' = IF on THEN [v \in Book |-> {}]
                                   ELSE [swept EXCEPT ![u] = {[adds |-> Len(adds[u]),
                                                               steps |-> sequenced[u]]}]
       /\ ~committed => UNCHANGED <<switch, enabled, book, swept>>
  BY <1>8, <1>9 DEF ControlTurn
<1> QED
  BY <1>3, <1>6, <1>12, <1>13, <1>14 DEF u

LEMMA SwitchStep ==
    ASSUME TypeOK, InvSwitch, [Next]_vars
    PROVE  InvSwitch'
<1>1. /\ switch \in [Book -> BOOLEAN \cup {None}] /\ enabled \in BOOLEAN /\ stale \in BOOLEAN
      /\ control \in [Operator -> Carried \cup {None}]
      /\ Told = {} \/ HasMax(Told)
      /\ (\A o \in Operator : control[o] = None) /\ ~stale => enabled = RecoveredSwitch
  BY DEF TypeOK, InvSwitch, SwitchSurvives
<1>2. /\ Underlying \in Seq(Book) /\ Len(Underlying) \in Nat /\ Len(Underlying) >= 1
      /\ \A i \in 1..Len(Underlying) : Underlying[i] \in Book
      /\ None \notin BOOLEAN
  BY MakerAssumption
<1>3. CASE UNCHANGED <<switch, control, stale, enabled>>
  BY <1>1, <1>3 DEF InvSwitch, Told, SwitchSurvives, RecoveredSwitch
<1>4. CASE \E o \in Operator, on \in BOOLEAN : IssueControl(o, on)
  <2>1. PICK o \in Operator, on \in BOOLEAN : IssueControl(o, on)
    BY <1>4
  <2>2. /\ control' = [control EXCEPT ![o] = [on |-> on, left |-> Underlying]] /\ switch' = switch
    BY <2>1 DEF IssueControl, journal
  <2>3. SubSeq(Underlying, 1, Len(Underlying)) = Underlying /\ 1 \in 1..Len(Underlying)
    BY <1>2
  <2>4. None # [on |-> on, left |-> Underlying]
    BY <2>3, ControlLeft
  <2>5. [on |-> on, left |-> Underlying] \in Carried
    BY <2>3 DEF Carried
  <2>6. control' \in [Operator -> Carried \cup {None}] /\ control'[o] # None
    BY <1>1, <2>2, <2>4, <2>5
  <2>7. Told' = Told
    BY <2>2 DEF Told
  <2> QED
    BY <1>1, <2>2, <2>6, <2>7 DEF InvSwitch, SwitchSurvives
<1>5. CASE \E o \in Operator, committed \in BOOLEAN : ControlTurn(o, committed)
  <2>1. PICK o \in Operator, committed \in BOOLEAN : ControlTurn(o, committed)
    BY <1>5
  <2>2. PICK on \in BOOLEAN, k \in 1..Len(Underlying) :
          /\ Underlying[k] \in Book
          /\ k = Len(Underlying) => stale' = ~committed
          /\ k # Len(Underlying) => control'[o] # None
          /\ control' \in [Operator -> Carried \cup {None}]
          /\ committed => switch' = [switch EXCEPT ![Underlying[k]] = on] /\ enabled' = on
          /\ ~committed => switch' = switch
    BY <2>1, ControlFacts
  <2> DEFINE u == Underlying[k]
  <2>3. switch' \in [Book -> BOOLEAN \cup {None}]
    BY <1>1, <2>2
  <2>4. committed => Told' = Told \cup {k}
    <3>1. \A i \in 1..Len(Underlying) : Underlying[i] = u => i = k
      <4>1. DOMAIN Underlying = 1..Len(Underlying)
        BY <1>2
      <4>2. \A i, j \in DOMAIN Underlying : Underlying[i] = Underlying[j] => i = j
        BY MakerAssumption DEF IsInjective
      <4> QED
        BY <4>1, <4>2
    <3>2. committed => \A i \in 1..Len(Underlying) : switch'[Underlying[i]] # None <=>
            switch[Underlying[i]] # None \/ i = k
      BY <1>1, <1>2, <2>2, <3>1
    <3> QED
      BY <2>2, <3>2 DEF Told
  <2>5. ~committed => Told' = Told
    BY <2>2 DEF Told
  <2>6. Told \subseteq 1..Len(Underlying) /\ Told \subseteq Nat /\ k \in Nat
    BY <1>2 DEF Told
  <2>7. HasMax(Told \cup {k})
    <3>1. CASE Told = {}
      BY <2>6, <3>1 DEF HasMax
    <3>2. CASE HasMax(Told)
      <4>1. PICK m \in Told : \A x \in Told : x <= m
        BY <3>2 DEF HasMax
      <4>2. CASE k <= m
        BY <4>1, <4>2 DEF HasMax
      <4>3. CASE ~(k <= m)
        <5>1. \A x \in Told \cup {k} : x <= k
          BY <2>6, <4>1, <4>3
        <5> QED
          BY <5>1 DEF HasMax
      <4> QED
        BY <4>2, <4>3
    <3> QED
      BY <1>1, <3>1, <3>2
  <2>8. Told' = {} \/ HasMax(Told')
    BY <1>1, <2>4, <2>5, <2>7
  <2>9. SwitchSurvives'
    <3>1. SUFFICES ASSUME \A x \in Operator : control'[x] = None, ~stale' PROVE enabled' = RecoveredSwitch'
      BY DEF SwitchSurvives
    <3>2. k = Len(Underlying) /\ committed
      BY <2>2, <3>1
    <3>3. switch'[u] = on /\ enabled' = on
      BY <1>1, <2>2, <3>2
    <3>4. Told' \in SUBSET Nat /\ HasMax(Told') /\ k \in Told' /\ Told' \subseteq 1..k
      BY <2>2, <2>4, <2>6, <2>7, <3>2
    <3>5. Max(Told') \in Told' /\ \A x \in Told' : x <= Max(Told')
      BY <3>4, MaxFacts
    <3>6. Max(Told') = k
      <4> DEFINE m == Max(Told')
      <4>1. m \in 1..k /\ k <= m /\ k \in Nat
        BY <2>6, <3>4, <3>5
      <4> HIDE DEF m
      <4>2. m = k
        BY <4>1
      <4> QED
        BY <4>2 DEF m
    <3>7. RecoveredSwitch' = switch'[Underlying[Max(Told')]]
      BY <3>4 DEF RecoveredSwitch, Told
    <3> QED
      BY <3>3, <3>6, <3>7
  <2> QED
    BY <2>2, <2>3, <2>8, <2>9 DEF InvSwitch
<1>6. CASE Restart
  <2>1. /\ enabled' = RecoveredSwitch /\ control' = [o \in Operator |-> None] /\ switch' = switch
    BY <1>6 DEF Restart, journal
  <2>2. Told' = Told /\ RecoveredSwitch' = RecoveredSwitch
    BY <2>1 DEF Told, RecoveredSwitch
  <2> QED
    BY <1>1, <2>1, <2>2 DEF InvSwitch, SwitchSurvives
<1>7. \/ UNCHANGED <<switch, control, stale, enabled>>
      \/ \E o \in Operator, on \in BOOLEAN : IssueControl(o, on)
      \/ \E o \in Operator, committed \in BOOLEAN : ControlTurn(o, committed)
      \/ Restart
  BY DEF Next, Simulator, StepForwarder, Actors, Price, ForwardStep, UpdatePrice, UpdateQuote, SkipQuote,
         RequoteDone, Enqueue, Execute, DropCommand, Trade, vars, operator, journal
<1> QED
  BY <1>3, <1>4, <1>5, <1>6, <1>7

\* The requote in progress is the one that was in progress, or there is none.
SameRequote == drive'.pc = "quote" => drive.pc = "quote" /\ drive'.step = drive.step

\* A step that journals no add and starts no requote disturbs no kill.
LEMMA KillKeeps ==
    ASSUME InvKill, swept' = swept, enabled' = enabled, adds' = adds, Piped' \subseteq Piped,
           \A u \in Book : book'[u] \subseteq book[u], SameRequote
    PROVE  InvKill'
<1>1. ASSUME NEW u \in Book, NEW kill \in swept[u]
      PROVE  /\ kill.adds <= Len(adds'[u])
             /\ \A a \in Piped' : a.u = u => a.for \in kill.steps
             /\ drive'.pc = "quote" /\ drive'.step.u = u => drive'.step.n \in kill.steps
  BY <1>1 DEF InvKill, SameRequote
<1>2. KillSweeps'
  BY DEF InvKill, KillSweeps
<1>3. swept' \in [Book -> SUBSET [adds : Nat, steps : SUBSET Nat]]
  BY DEF InvKill
<1> QED
  BY <1>1, <1>2, <1>3 DEF InvKill

LEMMA KillStep ==
    ASSUME TypeOK, InvTypes, InvDrive, InvCore, InvOrder, InvSwitch, InvKill, [Next]_vars
    PROVE  InvKill'
<1>1. /\ swept \in [Book -> SUBSET [adds : Nat, steps : SUBSET Nat]]
      /\ adds \in [Book -> Seq(Add)] /\ sequenced \in [Book -> SUBSET Nat]
      /\ book \in [Book -> SUBSET Nat]
      /\ \A u \in Book : Len(adds[u]) \in Nat
  BY DEF InvKill, InvTypes
<1>2. ~UpdateQuote => Piped' \subseteq Piped
  BY PipeStep
<1>3. CASE \E o \in Operator, committed \in BOOLEAN : ControlTurn(o, committed)
  <2>1. PICK o \in Operator, committed \in BOOLEAN : ControlTurn(o, committed)
    BY <1>3
  <2>2. PICK on \in BOOLEAN, k \in 1..Len(Underlying) :
          /\ Underlying[k] \in Book
          /\ committed =>
               /\ enabled' = on
               /\ book' = [book EXCEPT ![Underlying[k]] = ApplyControl(on, @)]
               /\ swept' = IF on THEN [v \in Book |-> {}]
                           ELSE [swept EXCEPT ![Underlying[k]] =
                                   {[adds |-> Len(adds[Underlying[k]]),
                                     steps |-> sequenced[Underlying[k]]]}]
          /\ ~committed => UNCHANGED <<switch, enabled, book, swept>>
    BY <2>1, ControlFacts
  <2> DEFINE u == Underlying[k]
             new == [adds |-> Len(adds[u]), steps |-> sequenced[u]]
  <2>3. adds' = adds /\ drive' = drive /\ Pipe' = Pipe /\ Piped' = Piped
    BY <2>1 DEF ControlTurn, maker, Pipe, Piped
  <2>4. CASE ~committed
    <3>1. SameRequote /\ \A v \in Book : book'[v] \subseteq book[v]
      BY <2>2, <2>3, <2>4 DEF SameRequote
    <3> QED
      BY <2>2, <2>3, <2>4, <3>1, KillKeeps
  <2>5. CASE committed /\ on
    <3>1. swept' = [v \in Book |-> {}]
      BY <2>2, <2>5
    <3> QED
      BY <3>1 DEF InvKill, KillSweeps
  <2>6. CASE committed /\ ~on
    <3>1. /\ swept' = [swept EXCEPT ![u] = {new}] /\ enabled' = FALSE
          /\ book' = [book EXCEPT ![u] = {}]
      BY <2>2, <2>6 DEF ApplyControl
    <3>2. /\ new \in [adds : Nat, steps : SUBSET Nat] /\ new.adds = Len(adds[u])
          /\ new.steps = sequenced[u]
      BY <1>1, <2>2
    <3> HIDE DEF new
    <3>3. /\ swept' \in [Book -> SUBSET [adds : Nat, steps : SUBSET Nat]]
          /\ swept'[u] = {new} /\ book'[u] = {}
          /\ \A v \in Book : v # u => swept'[v] = swept[v] /\ book'[v] = book[v]
      BY <1>1, <2>2, <3>1, <3>2
    <3>4. \A a \in Piped : a.u = u => a.for \in sequenced[u]
      BY DEF InvOrder
    <3>5. drive.pc = "quote" /\ drive.step.u = u => drive.step.n \in sequenced[u]
      BY DEF InvOrder, Parked
    <3>6. ASSUME NEW v \in Book, NEW kill \in swept'[v]
          PROVE  /\ kill.adds <= Len(adds[v])
                 /\ \A a \in Piped : a.u = v => a.for \in kill.steps
                 /\ drive.pc = "quote" /\ drive.step.u = v => drive.step.n \in kill.steps
                 /\ \A i \in 1..Len(adds[v]) : adds[v][i].id \in book'[v] =>
                      i > kill.adds /\ adds[v][i].for \in kill.steps
      <4>1. CASE v = u
        <5>1. kill = new
          BY <3>3, <3>6, <4>1
        <5> QED
          BY <1>1, <3>2, <3>3, <3>4, <3>5, <4>1, <5>1
      <4>2. CASE v # u
        BY <3>3, <3>6, <4>2 DEF InvKill, KillSweeps
      <4> QED
        BY <4>1, <4>2
    <3> QED
      BY <2>3, <3>1, <3>3, <3>6 DEF InvKill, KillSweeps
  <2> QED
    BY <2>4, <2>5, <2>6
<1>4. CASE Restart
  <2>1. /\ swept' = IF RecoveredSwitch THEN [u \in Book |-> {}] ELSE swept
        /\ enabled' = RecoveredSwitch /\ adds' = adds /\ book' = book /\ drive' = Parked
    BY <1>4 DEF Restart, journal
  <2>2. ~UpdateQuote
    <3>1. SUFFICES ASSUME UpdateQuote PROVE FALSE
      OBVIOUS
    <3>2. drive.pc = "quote" /\ drive' = [drive EXCEPT !.left = Tail(@)]
      BY <3>1 DEF UpdateQuote
    <3>3. drive'.pc = "quote"
      BY <3>2 DEF InvDrive, Parked
    <3> QED
      BY <2>1, <3>3 DEF Parked
  <2>3. Piped' \subseteq Piped
    BY <1>2, <2>2
  <2>4. drive'.pc # "quote"
    BY <2>1 DEF Parked
  <2>5. CASE RecoveredSwitch
    BY <2>1, <2>5 DEF InvKill, KillSweeps
  <2>6. CASE ~RecoveredSwitch
    <3>1. swept' = swept
      BY <2>1, <2>6
    <3>2. \A u \in Book : \A kill \in swept[u] :
            /\ kill.adds <= Len(adds[u])
            /\ \A a \in Piped' : a.u = u => a.for \in kill.steps
            /\ \A i \in 1..Len(adds[u]) : adds[u][i].id \in book[u] =>
                 i > kill.adds /\ adds[u][i].for \in kill.steps
      BY <2>3 DEF InvKill, KillSweeps
    <3> QED
      BY <1>1, <2>1, <2>4, <2>6, <3>1, <3>2 DEF InvKill, KillSweeps
  <2> QED
    BY <2>5, <2>6
<1>5. CASE UpdatePrice
  <2>1. UNCHANGED <<swept, enabled, adds, book, queue, todo>>
    BY <1>5 DEF UpdatePrice, operator, journal
  <2>2. Piped' = Piped
    BY <2>1 DEF Pipe, Piped
  <2>3. CASE enabled
    <3>1. \A u \in Book : swept[u] = {}
      BY <2>3 DEF InvKill, KillSweeps
    <3> QED
      BY <1>1, <2>1, <3>1 DEF InvKill, KillSweeps
  <2>4. CASE ~enabled
    <3>1. SameRequote
      BY <1>5, <2>4 DEF UpdatePrice, SameRequote, Parked
    <3> QED
      BY <2>1, <2>2, <3>1, KillKeeps
  <2> QED
    BY <2>3, <2>4
<1>6. CASE UpdateQuote
  <2>1. PICK u \in Book, c \in Contract, C \in Seq(Cancel), n \in Nat : RequoteShape(u, c, C, n)
    BY <1>6, RequotePipe
  <2> DEFINE L == Len(Pipe)
             K == Len(C)
             a1 == AddOf(u, c, "bid", nextId + 1, n)
             a2 == AddOf(u, c, "ask", nextId + 2, n)
  <2>2. /\ u = drive.step.u /\ n = drive.step.n /\ K \in Nat /\ L \in Nat
        /\ \A i \in 1..K : C[i] \in Cancel
        /\ Len(Pipe') = L + K + 2 /\ Pipe' \in Seq(Command)
        /\ \A i \in 1..L : Pipe'[i] = Pipe[i]
        /\ \A i \in 1..K : Pipe'[L + i] = C[i]
        /\ Pipe'[L + K + 1] = a1 /\ Pipe'[L + K + 2] = a2
    BY <2>1 DEF RequoteShape
  <2>3. a1.u = u /\ a1.for = n /\ a2.u = u /\ a2.for = n
    BY DEF AddOf
  <2> HIDE DEF K, a1, a2
  <2>4. ASSUME NEW a \in Piped' PROVE a \in Piped \/ (a.u = u /\ a.for = n)
    <3>1. a \in Range(Pipe') /\ a.op = "add"
      BY <2>4 DEF Piped
    <3>2. PICK i \in 1..Len(Pipe') : a = Pipe'[i]
      BY <2>2, <3>1, SeqElement
    <3>3. i \in 1..L \/ i - L \in 1..K \/ i = L + K + 1 \/ i = L + K + 2
      BY <2>2, <3>2
    <3>4. CASE i \in 1..L
      <4>1. a = Pipe[i]
        BY <2>2, <3>2, <3>4
      <4>2. Pipe[i] \in Range(Pipe)
        BY <3>4, AddsTyped
      <4> QED
        BY <3>1, <4>1, <4>2 DEF Piped
    <3>5. CASE i - L \in 1..K
      <4>1. L + (i - L) = i
        BY <2>2, <3>2
      <4>2. a = C[i - L] /\ C[i - L] \in Cancel
        BY <2>2, <3>2, <3>5, <4>1
      <4> QED
        BY <3>1, <4>2 DEF Cancel
    <3> QED
      BY <2>2, <2>3, <3>2, <3>3, <3>4, <3>5
  <2>5. /\ UNCHANGED <<swept, enabled, adds, book>> /\ drive.pc = "quote"
        /\ drive' = [drive EXCEPT !.left = Tail(@)]
    BY <1>6 DEF UpdateQuote, operator, journal
  <2>6. drive'.pc = "quote" /\ drive'.step = drive.step
    BY <2>5 DEF InvDrive, Parked
  <2>7. ASSUME NEW v \in Book, NEW kill \in swept[v]
        PROVE  /\ \A a \in Piped' : a.u = v => a.for \in kill.steps
               /\ drive'.step.u = v => drive'.step.n \in kill.steps
    <3>1. /\ \A a \in Piped : a.u = v => a.for \in kill.steps
          /\ drive.step.u = v => drive.step.n \in kill.steps
      BY <2>5, <2>7 DEF InvKill
    <3> QED
      BY <2>2, <2>4, <2>6, <3>1
  <2> QED
    BY <2>5, <2>7 DEF InvKill, KillSweeps
<1>7. CASE Execute
  <2>1. UNCHANGED <<swept, enabled, drive>> /\ queue # <<>> /\ ~UpdateQuote
    BY <1>7 DEF Execute, operator, maker, UpdateQuote, InvTypes
  <2>2. CASE adds' = adds
    <3>1. \A v \in Book : book'[v] \subseteq book[v]
      <4>1. Head(queue) \in Command
        BY <2>1 DEF InvTypes
      <4>2. CASE Head(queue).op = "add"
        <5>1. Head(queue) \in Add /\ Head(queue).u \in Book
          BY <4>1, <4>2, AddsTyped DEF Add
        <5>2. adds'[Head(queue).u] = Append(adds[Head(queue).u], Head(queue))
          BY <1>1, <1>7, <4>2, <5>1 DEF Execute
        <5>3. adds[Head(queue).u] \in Seq(Add)
          BY <1>1, <5>1
        <5>4. Len(Append(adds[Head(queue).u], Head(queue))) = Len(adds[Head(queue).u]) + 1
          BY <5>1, <5>3
        <5> QED
          BY <1>1, <2>2, <5>1, <5>2, <5>4
      <4>3. CASE Head(queue).op # "add"
        BY <1>1, <1>7, <4>3 DEF Execute
      <4> QED
        BY <4>2, <4>3
    <3> QED
      BY <1>2, <2>1, <2>2, <3>1, KillKeeps DEF SameRequote
  <2>3. CASE adds' # adds
    <3>1. /\ Pipe[1] \in Add /\ Pipe[1] \in Piped /\ Pipe[1] = Head(queue)
          /\ adds' = [adds EXCEPT ![Pipe[1].u] = Append(@, Pipe[1])]
      BY <2>1, <2>3, PipeStep
    <3> DEFINE m == Pipe[1]
               w == m.u
    <3>2. m.op = "add" /\ w \in Book /\ m.id \in Nat
      BY <3>1 DEF Add
    <3>3. book' = [book EXCEPT ![w] = @ \cup {m.id}]
      BY <1>7, <3>1, <3>2 DEF Execute
    <3>4. /\ adds[w] \in Seq(Add) /\ adds'[w] = Append(adds[w], m)
          /\ book'[w] = book[w] \cup {m.id}
          /\ \A v \in Book : v # w => adds'[v] = adds[v] /\ book'[v] = book[v]
      BY <1>1, <3>1, <3>2, <3>3
    <3>5. /\ Len(adds'[w]) = Len(adds[w]) + 1 /\ adds'[w][Len(adds[w]) + 1] = m
          /\ \A i \in 1..Len(adds[w]) : adds'[w][i] = adds[w][i]
      BY <3>1, <3>4, AppendFacts
    <3>6. \A i \in 1..Len(adds[w]) : adds[w][i].id # m.id
      <4>1. \A i \in 1..Len(adds[w]) : adds[w][i] \in Journaled /\ adds[w][i].id \in Nat
        <5>1. \A i \in 1..Len(adds[w]) : adds[w][i] \in Range(adds[w]) /\ adds[w][i] \in Add
          BY <3>4, SeqElement
        <5> QED
          BY <3>2, <5>1 DEF Journaled, Add
      <4>2. \A a \in Journaled : a.id < m.id
        BY <3>1 DEF InvCore, InvIds
      <4> QED
        BY <3>2, <4>1, <4>2
    <3> HIDE DEF m, w
    <3>7. ASSUME NEW v \in Book, NEW kill \in swept[v]
          PROVE  /\ kill.adds <= Len(adds'[v])
                 /\ \A a \in Piped' : a.u = v => a.for \in kill.steps
                 /\ drive.pc = "quote" /\ drive.step.u = v => drive.step.n \in kill.steps
                 /\ ~enabled
                 /\ \A i \in 1..Len(adds'[v]) : adds'[v][i].id \in book'[v] =>
                      i > kill.adds /\ adds'[v][i].for \in kill.steps
      <4>1. /\ kill.adds <= Len(adds[v]) /\ ~enabled
            /\ \A a \in Piped : a.u = v => a.for \in kill.steps
            /\ drive.pc = "quote" /\ drive.step.u = v => drive.step.n \in kill.steps
            /\ \A i \in 1..Len(adds[v]) : adds[v][i].id \in book[v] =>
                 i > kill.adds /\ adds[v][i].for \in kill.steps
        BY <3>7 DEF InvKill, KillSweeps
      <4>2. kill.adds \in Nat /\ Len(adds[v]) \in Nat
        BY <1>1, <3>7
      <4>3. \A a \in Piped' : a.u = v => a.for \in kill.steps
        BY <1>2, <2>1, <4>1
      <4>4. CASE v # w
        BY <3>4, <4>1, <4>3, <4>4
      <4>5. CASE v = w
        <5>1. kill.adds <= Len(adds'[w])
          BY <3>5, <4>1, <4>2, <4>5
        <5>2. m.for \in kill.steps
          BY <3>1, <4>1, <4>5 DEF m, w
        <5>3. ASSUME NEW i \in 1..Len(adds'[w]), adds'[w][i].id \in book'[w]
              PROVE  i > kill.adds /\ adds'[w][i].for \in kill.steps
          <6>1. CASE i \in 1..Len(adds[w])
            BY <3>4, <3>5, <3>6, <4>1, <4>5, <5>3, <6>1
          <6>2. CASE i = Len(adds[w]) + 1
            BY <3>5, <4>1, <4>2, <4>5, <5>2, <6>2
          <6> QED
            BY <3>5, <4>2, <4>5, <5>3, <6>1, <6>2
        <5> QED
          BY <4>1, <4>3, <4>5, <5>1, <5>3
      <4> QED
        BY <4>4, <4>5
    <3> QED
      BY <2>1, <3>7, <1>1 DEF InvKill, KillSweeps
  <2> QED
    BY <2>2, <2>3
<1>8. ASSUME \/ \E u \in Book : Price(u)
             \/ \E ok \in BOOLEAN : ForwardStep(ok)
             \/ SkipQuote \/ RequoteDone \/ Enqueue \/ DropCommand
             \/ \E u \in Book : \E id \in book[u] : Trade(u, id)
             \/ \E o \in Operator, on \in BOOLEAN : IssueControl(o, on)
             \/ UNCHANGED vars
      PROVE  InvKill'
  <2>1. swept' = swept /\ enabled' = enabled /\ adds' = adds
    BY <1>8 DEF Price, ForwardStep, SkipQuote, RequoteDone, Enqueue, DropCommand, Trade, IssueControl,
                operator, journal, vars
  <2>2. \A u \in Book : book'[u] \subseteq book[u]
    BY <1>1, <1>8 DEF Price, ForwardStep, SkipQuote, RequoteDone, Enqueue, DropCommand, Trade, IssueControl, vars
  <2>3. SameRequote
    BY <1>8 DEF Price, ForwardStep, SkipQuote, RequoteDone, Enqueue, DropCommand, Trade, IssueControl,
                maker, vars, SameRequote, DriveAfter, Parked, InvDrive
  <2>4. legs' = legs
    BY <1>8 DEF Price, ForwardStep, SkipQuote, RequoteDone, Enqueue, DropCommand, Trade, IssueControl,
                maker, vars
  <2>5. ~UpdateQuote
    <3>1. nextId' = nextId /\ nextId \in Nat
      BY <1>8, MakerAssumption DEF Price, ForwardStep, SkipQuote, RequoteDone, Enqueue, DropCommand, Trade,
                   IssueControl, maker, vars, TypeOK
    <3> QED
      BY <3>1 DEF UpdateQuote
  <2> QED
    BY <1>2, <2>1, <2>2, <2>3, <2>5, KillKeeps
<1> QED
  BY <1>3, <1>4, <1>5, <1>6, <1>7, <1>8 DEF Next, Simulator, StepForwarder, Actors
-----------------------------------------------------------------------------
(* The invariant is inductive.                                              *)

LEMMA InitInv == Init => Inv
<1> SUFFICES ASSUME Init PROVE Inv
  OBVIOUS
<1>1. /\ sequenced = [u \in Book |-> {}] /\ adds = [u \in Book |-> <<>>]
      /\ switch = [u \in Book |-> None] /\ book = [u \in Book |-> {}]
      /\ steps = <<>> /\ queue = <<>> /\ todo = <<>> /\ drive = Parked
      /\ legs = [c \in Contract |-> NoLegs] /\ nextId = 0 /\ enabled = TRUE
      /\ control = [o \in Operator |-> None] /\ stale = FALSE /\ made = 0
      /\ swept = [u \in Book |-> {}]
  BY DEF Init
<1>2. Pipe = <<>> /\ Len(Pipe) = 0 /\ Range(Pipe) = {} /\ Len(steps) = 0
  BY <1>1 DEF Pipe, Range
<1>3. Piped = {} /\ Journaled = {} /\ JournaledIds = {}
  <2>1. \A u \in Book : Range(adds[u]) = {}
    BY <1>1 DEF Range
  <2> QED
    BY <1>2, <2>1 DEF Piped, Journaled, JournaledIds
<1>4. \A u \in Book : adds[u] = <<>> /\ Len(adds[u]) = 0 /\ book[u] = {} /\ Range(adds[u]) = {}
  BY <1>1 DEF Range
<1>5. TypeOK
  <2>1. NoLegs \in [Side -> 1..MaxIds \cup {None}]
    BY DEF NoLegs
  <2>2. {SinkCapacity, StepCapacity} \subseteq Nat /\ MaxIds \in Nat
    BY MakerAssumption
  <2>3. Len(steps) <= StepCapacity /\ Len(queue) <= SinkCapacity /\ 0 \in 0..MaxIds
    BY <1>1, <2>2
  <2>4. legs \in [Contract -> [Side -> 1..MaxIds \cup {None}]]
    BY <1>1, <2>1
  <2>5. \A u \in Book : book[u] \subseteq 1..MaxIds
    BY <1>4
  <2> QED
    BY <1>1, <2>3, <2>4, <2>5 DEF TypeOK
<1>6. InvTypes
  <2>1. adds \in [Book -> Seq(Add)] /\ sequenced \in [Book -> SUBSET Nat] /\ book \in [Book -> SUBSET Nat]
    BY <1>1
  <2> QED
    BY <1>1, <1>3, <1>4, <2>1 DEF InvTypes
<1>7. InvDrive
  BY <1>1 DEF InvDrive
<1>8. InvCore
  <2>1. InvIds
    BY <1>2, <1>3, <1>4 DEF InvIds, IdsNeverReused
  <2>2. \A c \in Contract, s \in Side : legs[c][s] = None
    BY <1>1 DEF NoLegs
  <2>3. InvLegs
    BY <1>2, <1>3, <2>2 DEF InvLegs
  <2>4. InvFate
    BY <1>2, <1>4 DEF InvFate
  <2>5. \A u \in Book, c \in Contract, s \in Side : Own(u, c, s) = {}
    BY <1>4 DEF Own
  <2>6. HasMax({0} \cup JournaledIds)
    BY <1>3 DEF HasMax
  <2> QED
    BY <2>1, <2>3, <2>4, <2>5, <2>6 DEF InvCore, InvBoot
<1>9. InvOrder
  <2>1. \A u \in Book : sequenced[u] = {}
    BY <1>1
  <2> QED
    BY <1>1, <1>2, <1>3, <2>1 DEF InvOrder
<1>10. InvSwitch
  <2>1. \A u \in Book : switch[u] = None
    BY <1>1
  <2>2. Told = {}
    <3>1. \A i \in 1..Len(Underlying) : Underlying[i] \in Book
      BY MakerAssumption
    <3> QED
      BY <2>1, <3>1 DEF Told
  <2>3. /\ switch \in [Book -> BOOLEAN \cup {None}]
        /\ control \in [Operator -> Carried \cup {None}]
    BY <1>1
  <2>4. RecoveredSwitch = TRUE
    BY <2>2 DEF RecoveredSwitch, Told
  <2> QED
    BY <1>1, <2>1, <2>2, <2>3, <2>4 DEF InvSwitch, SwitchSurvives
<1>11. InvKill
  BY <1>1 DEF InvKill, KillSweeps
<1> QED
  BY <1>5, <1>6, <1>7, <1>8, <1>9, <1>10, <1>11 DEF Inv

LEMMA InvStep == Inv /\ [Next]_vars => Inv'
<1> SUFFICES ASSUME Inv, [Next]_vars PROVE Inv'
  OBVIOUS
<1>1. TypeOK /\ InvTypes /\ InvDrive /\ InvCore /\ InvOrder /\ InvSwitch /\ InvKill
  BY DEF Inv
<1>2. InvCore'
  BY <1>1, CoreStep
<1>3. TypeOK' /\ InvTypes' /\ InvDrive'
  BY <1>1, <1>2, TypesStep
<1>4. InvOrder'
  BY <1>1, OrderStep
<1>5. InvSwitch'
  BY <1>1, SwitchStep
<1>6. InvKill'
  BY <1>1, KillStep
<1> QED
  BY <1>2, <1>3, <1>4, <1>5, <1>6 DEF Inv

-----------------------------------------------------------------------------
(* The theorems.                                                            *)

\* Replace, never accumulate: over overlapping requotes, dropped commands, trades the maker never
\* hears of and crashes, an order of the maker that rests is the leg it tracks, or its cancel is
\* on the way, unless that cancel was lost; and no order id enters the journals twice.
THEOREM QuotesAlwaysAccounted == Spec => []QuotesAccounted
<1>1. Inv => QuotesAccounted
  <2> SUFFICES ASSUME Inv PROVE QuotesAccounted
    OBVIOUS
  <2>1. TypeOK /\ InvTypes /\ InvIds /\ InvFate
    BY DEF Inv, InvCore
  <2>2. ASSUME NEW u \in Book, NEW x \in book[u] PROVE x \in Tracked \cup Pending \cup orphans
    <3>1. PICK a \in Range(adds[u]) : a.id = x
      BY <2>1, <2>2 DEF InvFate
    <3>2. Fate(a, 0, Pipe, orphans, legs)
      BY <2>1, <2>2, <3>1 DEF InvFate
    <3>3. a \in Add
      BY <2>1, <3>1, AddsTyped
    <3>4. CASE a.id \in orphans
      BY <3>1, <3>4
    <3>5. CASE a.id = legs[a.contract][a.side]
      <4>1. a.contract \in Contract /\ a.side \in Side
        BY <3>3 DEF Add
      <4> QED
        BY <3>1, <3>5, <4>1 DEF Tracked
    <3>6. CASE \E j \in 1..Len(Pipe) : Pipe[j].op = "cancel" /\ Pipe[j].id = a.id
      <4>1. PICK j \in 1..Len(Pipe) : Pipe[j].op = "cancel" /\ Pipe[j].id = a.id
        BY <3>6
      <4>2. /\ queue \in Seq(Command) /\ todo \in Seq(Command)
            /\ Len(queue) \in Nat /\ Len(todo) \in Nat
        BY <2>1 DEF InvTypes
      <4>3. /\ Len(Pipe) = Len(queue) + Len(todo)
            /\ \A i \in 1..Len(queue) : Pipe[i] = queue[i]
            /\ \A i \in 1..Len(todo) : Pipe[Len(queue) + i] = todo[i]
        BY <4>2, ConcatFacts DEF Pipe
      <4>4. Pipe[j] \in Range(queue) \cup Range(todo)
        <5>1. CASE j <= Len(queue)
          <6>1. j \in 1..Len(queue)
            BY <4>2, <5>1
          <6> QED
            BY <4>2, <4>3, <6>1, SeqElement
        <5>2. CASE ~(j <= Len(queue))
          <6>1. j - Len(queue) \in 1..Len(todo) /\ Len(queue) + (j - Len(queue)) = j
            BY <4>2, <4>3, <5>2
          <6>2. Pipe[j] = todo[j - Len(queue)]
            BY <4>3, <6>1
          <6> QED
            BY <4>2, <6>1, <6>2, SeqElement
        <5> QED
          BY <5>1, <5>2
      <4> QED
        BY <3>1, <4>1, <4>4 DEF Pending
    <3> QED
      BY <3>2, <3>4, <3>5, <3>6 DEF Fate
  <2>3. UNION {book[u] : u \in Book} \subseteq Tracked \cup Pending \cup orphans
    BY <2>2
  <2> QED
    BY <2>1, <2>3 DEF QuotesAccounted, NoUntrackedQuote, InvIds
<1> QED
  BY <1>1, InitInv, InvStep, PTL DEF Spec

\* A cause before its effect: an add reaches the journal of its underlying only behind the step
\* that caused it and never behind an add of a later step, however steps, requotes, dropped
\* commands and crashes interleave.
THEOREM CauseBeforeEffect == Spec => QuotesFollowSteps
<1> DEFINE A == \A u \in Book : adds'[u] # adds[u] =>
                  LET new == Last(adds'[u]).for IN
                  new \in sequenced[u] /\ \A r \in Range(adds[u]) : r.for <= new
<1>1. Inv /\ [Next]_vars => A
  <2> SUFFICES ASSUME Inv, [Next]_vars, NEW u \in Book, adds'[u] # adds[u]
               PROVE  /\ Last(adds'[u]).for \in sequenced[u]
                      /\ \A r \in Range(adds[u]) : r.for <= Last(adds'[u]).for
    OBVIOUS
  <2>1. InvTypes /\ InvOrder
    BY DEF Inv
  <2>2. ~UpdateQuote
    BY DEF UpdateQuote, journal
  <2>3. /\ Pipe[1] \in Add /\ Pipe[1] \in Piped
        /\ adds' = [adds EXCEPT ![Pipe[1].u] = Append(@, Pipe[1])]
    BY <2>1, <2>2, PipeStep
  <2>4. /\ \A v \in Book : v # Pipe[1].u => adds'[v] = adds[v]
        /\ Last(adds'[Pipe[1].u]) = Pipe[1]
    BY <2>1, <2>3, JournalGrows
  <2>5. u = Pipe[1].u /\ Last(adds'[u]) = Pipe[1]
    BY <2>4
  <2>6. Range(adds[u]) \subseteq Journaled
    BY <2>1, AddsTyped
  <2> QED
    BY <2>1, <2>3, <2>5, <2>6 DEF InvOrder
<1>2. Inv /\ [Next]_vars => [A]_vars
  BY <1>1
<1>3. QuotesFollowSteps <=> [][A]_vars
  BY PTL DEF QuotesFollowSteps
<1> HIDE DEF A
<1> QED
  BY <1>2, <1>3, InitInv, InvStep, PTL DEF Spec

\* The switch survives the process: when no control is on its way and the last underlying has
\* committed the last control it was handed, the maker is on or off as a boot would find it,
\* however controls of several operators interleaved and whichever other underlying refused one.
THEOREM SwitchAlwaysSurvives == Spec => []SwitchSurvives
<1>1. Inv => SwitchSurvives
  BY DEF Inv, InvSwitch
<1> QED
  BY <1>1, InitInv, InvStep, PTL DEF Spec

\* A kill empties the maker's book of the underlying that commits it and, until the maker is on
\* again and over crashes too, only quotes of prices sequenced before it may still appear there.
THEOREM KillAlwaysSweeps == Spec => []KillSweeps
<1>1. Inv => KillSweeps
  BY DEF Inv, InvKill
<1> QED
  BY <1>1, InitInv, InvStep, PTL DEF Spec

==============================================================================
