--------------------------- MODULE AdmissionProofs ---------------------------
(***************************************************************************)
(* Machine-checked facts about Admission: for any clients, accounts,       *)
(* tickets, budgets, windows, ceilings and lifetimes.                      *)
(***************************************************************************)
EXTENDS Admission, FiniteSetTheorems, TLAPS

-----------------------------------------------------------------------------
(* The inductive invariant.                                                 *)

Claims == [account : Account, epoch : {0}, exp : Nat]

TaskRec ==
  [pc : {"idle", "check", "insert", "allowed", "open", "stuck"},
   goal : {"none", "token", "mint", "ws", "bad", "control"},
   claims : Claims \cup {None}, ticket : Ticket \cup {None},
   late : BOOLEAN, old : BOOLEAN, idle : Nat]

Held(t) == t.pc \in {"open", "stuck"} \/ t.goal = "control"

\* What a request or a socket is, whatever the rest of the venue does.
Shape(t) ==
  /\ t \in TaskRec
  /\ t.idle < MaxIdleTicks
  /\ t.goal \in {"mint", "ws", "control"} => t.claims \in Claims
  /\ t.goal = "control" => t.pc \in {"check", "insert"}
  /\ t.pc \in {"open", "stuck"} => t.goal = "ws"
  /\ t.pc = "allowed" => t.goal \in {"token", "mint", "ws"}
  /\ t.pc = "idle" <=> t.goal = "none"
  /\ t.pc = "idle" => t.ticket = None
  /\ t.claims = None => t.ticket = None /\ ~t.old
  /\ Held(t) => ~t.old /\ ~t.late

\* A ticket in a client's hands left the store for good, and a socket that came with one has
\* spent it; a request that began too late is still too late.
Backed(t, dr, out, sp, ep) ==
  /\ t.ticket # None => t.ticket \in dr /\ t.ticket \notin out
  /\ Held(t) /\ t.ticket # None => t.ticket \in sp
  /\ t.old => t.claims.epoch < ep[t.claims.account]

TasksOK ==
  /\ task \in [Client -> TaskRec]
  /\ \A c \in Client : Shape(task[c]) /\ Backed(task[c], drawn, DOMAIN tickets, spent, epoch)
  /\ \A c, d \in Client : c # d /\ task[c].ticket # None => task[c].ticket # task[d].ticket

StoreOK ==
  /\ now \in 0..MaxTime
  /\ epoch \in [Account -> Nat]
  /\ tokens \subseteq [account : Account, epoch : {0}, exp : 0..MaxTime + TokenTTL]
  /\ DOMAIN tickets \subseteq drawn /\ drawn \subseteq Ticket
  /\ IsFiniteSet(DOMAIN tickets) /\ Cardinality(DOMAIN tickets) <= MaxTickets
  /\ \A t \in DOMAIN tickets : tickets[t].claims \in Claims
  /\ spent \subseteq drawn /\ spent \cap DOMAIN tickets = {}

\* The holder of the gate is the client between the length check and its insert, and while it
\* holds the gate there is room for its key.
GateOK ==
  /\ gate \in Client \cup {None}
  /\ \A c \in Client : task[c].pc = "insert" <=> gate = c
  /\ IsFiniteSet(DOMAIN windows) /\ Cardinality(DOMAIN windows) <= MaxKeys
  /\ gate # None => Cardinality(DOMAIN windows) < MaxKeys

Bucket(S) == IsFiniteSet(S) /\ \A s \in S : s \in Nat \X Nat /\ s[1] <= now

\* As long as no clock read was stale, what the table knows of a key is what was admitted.
WindowsOK ==
  /\ DOMAIN windows \subseteq Keys
  /\ \A k \in DOMAIN windows : Bucket(windows[k])
  /\ blurred \in BOOLEAN
  /\ ~blurred => \A k \in Keys :
       /\ admitted[k] = IF k \in DOMAIN windows THEN Live(windows[k], now) ELSE {}
       /\ Cardinality(admitted[k]) <= LimitOf(k)

Holders == {c \in Client : HoldsSlot(c)}

SlotsOK ==
  /\ IsFiniteSet(Holders)
  /\ slots = Cardinality(Holders) /\ slots <= MaxConnections
  /\ gone \subseteq Holders

IInv == TasksOK /\ StoreOK /\ GateOK /\ WindowsOK /\ SlotsOK

-----------------------------------------------------------------------------
(* Helper facts: stamps.                                                    *)

\* A stamp is one more stamp, although many may carry the same instant.
LEMMA StampedIsOneMore ==
  ASSUME NEW S, IsFiniteSet(S), NEW at \in Nat
  PROVE  /\ \E n \in Nat : Stamped(S, at) = S \cup {<<at, n>>}
         /\ IsFiniteSet(Stamped(S, at))
         /\ Cardinality(Stamped(S, at)) = Cardinality(S) + 1
<1> DEFINE N == 0..Cardinality(S)
           Used == {<<at, n>> : n \in N}
<1>1. Cardinality(S) \in Nat
  BY FS_CardinalityType
<1>2. IsFiniteSet(N) /\ Cardinality(N) = Cardinality(S) + 1
  BY <1>1, FS_Interval
<1>3. \E n \in N : <<at, n>> \notin S
  <2> SUFFICES ASSUME \A n \in N : <<at, n>> \in S PROVE FALSE
    OBVIOUS
  <2> DEFINE f == [n \in N |-> <<at, n>>]
  <2>1. f \in Injection(N, S)
    BY DEF Injection, IsInjective
  <2>2. Cardinality(N) <= Cardinality(S)
    BY <2>1, <1>2, FS_Injection
  <2> QED
    BY <2>2, <1>1, <1>2
<1> DEFINE m == CHOOSE n \in N : <<at, n>> \notin S
<1>4. m \in N /\ <<at, m>> \notin S
  BY <1>3
<1>5. Stamped(S, at) = S \cup {<<at, m>>}
  BY DEF Stamped
<1>6. m \in Nat
  BY <1>1, <1>4
<1> HIDE DEF m
<1>7. IsFiniteSet(S \cup {<<at, m>>}) /\ Cardinality(S \cup {<<at, m>>}) = Cardinality(S) + 1
  BY <1>4, FS_AddElement
<1> QED
  BY <1>5, <1>6, <1>7

LEMMA LiveIsFinite ==
  ASSUME NEW S, IsFiniteSet(S), NEW at
  PROVE  /\ IsFiniteSet(Live(S, at)) /\ Live(S, at) \subseteq S
         /\ Cardinality(Live(S, at)) \in Nat
         /\ IsFiniteSet(Fresh(S, at)) /\ Fresh(S, at) \subseteq S
BY FS_Subset, FS_CardinalityType DEF Live, Fresh

-----------------------------------------------------------------------------
(* Helper facts: one client moves on.                                       *)

\* What backs a request is never taken back: a ticket that was drawn is not minted again, and
\* an epoch only grows.
LEMMA BackedStays ==
  ASSUME NEW t, NEW dr, NEW out, NEW sp, NEW ep, NEW dr2, NEW out2, NEW sp2, NEW ep2,
         Shape(t), Backed(t, dr, out, sp, ep),
         ep \in [Account -> Nat], ep2 \in [Account -> Nat],
         \A a \in Account : ep[a] <= ep2[a],
         dr \subseteq dr2, sp \subseteq sp2, \A x \in dr : x \in out2 => x \in out
  PROVE  Backed(t, dr2, out2, sp2, ep2)
<1>1. t.ticket # None => t.ticket \in dr2 /\ t.ticket \notin out2
  BY DEF Backed
<1>2. Held(t) /\ t.ticket # None => t.ticket \in sp2
  BY DEF Backed
<1>3. ASSUME t.old PROVE t.claims.epoch < ep2[t.claims.account]
  <2>1. t.claims \in Claims
    BY <1>3 DEF Shape, TaskRec
  <2>2. t.claims.account \in Account /\ t.claims.epoch = 0
    BY <2>1 DEF Claims
  <2>3. t.claims.epoch < ep[t.claims.account]
    BY <1>3 DEF Backed
  <2>4. ep[t.claims.account] \in Nat /\ ep2[t.claims.account] \in Nat
        /\ ep[t.claims.account] <= ep2[t.claims.account]
    BY <2>2
  <2> QED
    BY <2>2, <2>3, <2>4
<1> QED
  BY <1>1, <1>2, <1>3 DEF Backed

LEMMA TaskMoves ==
  ASSUME TasksOK, NEW c \in Client, NEW t, Becomes(c, t), Shape(t),
         Backed(t, drawn', DOMAIN tickets', spent', epoch'),
         \A d \in Client \ {c} : Backed(task[d], drawn', DOMAIN tickets', spent', epoch'),
         t.ticket # None => \A d \in Client \ {c} : t.ticket # task[d].ticket
  PROVE  TasksOK'
<1>1. task' \in [Client -> TaskRec] /\ task'[c] = t /\ \A d \in Client \ {c} : task'[d] = task[d]
  BY DEF TasksOK, Becomes, Shape
<1>2. \A d \in Client : Shape(task'[d]) /\ Backed(task'[d], drawn', DOMAIN tickets', spent', epoch')
  BY <1>1 DEF TasksOK
<1>3. ASSUME NEW d \in Client, NEW e \in Client, d # e, task'[d].ticket # None
      PROVE  task'[d].ticket # task'[e].ticket
  BY <1>1, <1>3 DEF TasksOK
<1> QED
  BY <1>1, <1>2, <1>3 DEF TasksOK

\* The same when the store and the epochs stand still and the ticket is kept or dropped.
LEMMA TaskMovesOn ==
  ASSUME TasksOK, NEW c \in Client, NEW t, Becomes(c, t), Shape(t),
         UNCHANGED <<drawn, tickets, spent, epoch>>,
         Backed(t, drawn, DOMAIN tickets, spent, epoch),
         t.ticket \in {None, task[c].ticket}
  PROVE  TasksOK'
<1>1. Backed(t, drawn', DOMAIN tickets', spent', epoch')
  OBVIOUS
<1>2. \A d \in Client \ {c} : Backed(task[d], drawn', DOMAIN tickets', spent', epoch')
  BY DEF TasksOK
<1>3. t.ticket # None => \A d \in Client \ {c} : t.ticket # task[d].ticket
  BY DEF TasksOK
<1> QED
  BY <1>1, <1>2, <1>3, TaskMoves

LEMMA IdleIsFine ==
  ASSUME NEW dr, NEW out, NEW sp, NEW ep
  PROVE  Shape(Idle) /\ Backed(Idle, dr, out, sp, ep) /\ ~Held(Idle) /\ Idle.ticket = None
         /\ Idle.pc = "idle"
BY AdmissionAssumption DEF Idle, Shape, Backed, Held, TaskRec, Claims

\* Who holds a slot after one client moved on.
LEMMA HoldersMove ==
  ASSUME task \in [Client -> TaskRec], NEW c \in Client, NEW t, Becomes(c, t)
  PROVE  /\ (Held(t) <=> Held(task[c])) => Holders' = Holders
         /\ Held(t) => Holders' = Holders \cup {c}
         /\ ~Held(t) => Holders' = Holders \ {c}
         /\ c \in Holders <=> Held(task[c])
<1>1. task' = [task EXCEPT ![c] = t] /\ task'[c] = t /\ \A d \in Client \ {c} : task'[d] = task[d]
  BY DEF Becomes
<1>2. \A d \in Client : d \in Holders <=> Held(task[d])
  BY DEF Holders, HoldsSlot, OnSocket, Held
<1>3. \A d \in Client : d \in Holders' <=> Held(task'[d])
  BY DEF Holders, HoldsSlot, OnSocket, Held
<1>4. Holders \subseteq Client /\ Holders' \subseteq Client
  BY DEF Holders
<1> QED
  BY <1>1, <1>2, <1>3, <1>4

\* A client that neither takes nor returns a slot leaves the slots in order.
LEMMA SlotsStay ==
  ASSUME SlotsOK, task \in [Client -> TaskRec], NEW c \in Client, NEW t, Becomes(c, t),
         Held(t) <=> Held(task[c]), UNCHANGED <<slots, gone>>
  PROVE  SlotsOK'
<1>1. Holders' = Holders
  BY HoldersMove
<1> QED
  BY <1>1 DEF SlotsOK

LEMMA SlotsReturn ==
  ASSUME SlotsOK, task \in [Client -> TaskRec], NEW c \in Client, Held(task[c]), EndSocket(c)
  PROVE  SlotsOK'
<1>1. Holders' = Holders \ {c} /\ c \in Holders
  BY HoldersMove, IdleIsFine DEF EndSocket
<1>2. IsFiniteSet(Holders \ {c}) /\ Cardinality(Holders \ {c}) = Cardinality(Holders) - 1
  BY <1>1, FS_RemoveElement DEF SlotsOK
<1>3. Cardinality(Holders) \in Nat
  BY FS_CardinalityType DEF SlotsOK
<1>4. gone' \subseteq Holders'
  BY <1>1 DEF SlotsOK, EndSocket
<1> QED
  BY <1>1, <1>2, <1>3, <1>4, AdmissionAssumption DEF SlotsOK, EndSocket, DropPermit

LEMMA SlotsTake ==
  ASSUME SlotsOK, task \in [Client -> TaskRec], NEW c \in Client, NEW t, Becomes(c, t),
         ~Held(task[c]), Held(t), slots < MaxConnections, slots' = slots + 1, UNCHANGED gone
  PROVE  SlotsOK'
<1>1. Holders' = Holders \cup {c} /\ c \notin Holders
  BY HoldersMove
<1>2. IsFiniteSet(Holders \cup {c}) /\ Cardinality(Holders \cup {c}) = Cardinality(Holders) + 1
  BY <1>1, FS_AddElement DEF SlotsOK
<1>3. Cardinality(Holders) \in Nat
  BY FS_CardinalityType DEF SlotsOK
<1>4. gone' \subseteq Holders'
  BY <1>1 DEF SlotsOK
<1> QED
  BY <1>1, <1>2, <1>3, <1>4, AdmissionAssumption DEF SlotsOK

\* A client that neither takes nor returns the gate.
LEMMA GateStays ==
  ASSUME GateOK, task \in [Client -> TaskRec], NEW c \in Client, NEW t, Becomes(c, t),
         t.pc = "insert" <=> task[c].pc = "insert", UNCHANGED <<gate, windows>>
  PROVE  GateOK'
BY DEF GateOK, Becomes

-----------------------------------------------------------------------------
(* Helper facts: the limiter.                                               *)

LEMMA KeyInKeys ==
  ASSUME TasksOK, NEW c \in Client
  PROVE  Key(c) \in Keys
<1>1. task[c].claims \in Claims \cup {None}
  BY DEF TasksOK, TaskRec
<1> QED
  BY <1>1 DEF Key, Keys, Claims

LEMMA LimitType ==
  ASSUME NEW k PROVE LimitOf(k) \in Nat
BY AdmissionAssumption DEF LimitOf

\* A bucket of the past read at a later instant.
LEMMA LiveTwice ==
  ASSUME NEW S, \A s \in S : s \in Nat \X Nat, NEW at \in Nat, NEW bt \in Nat, at <= bt
  PROVE  Live(Live(S, at), bt) = Live(S, bt)
<1>1. ASSUME NEW s \in S PROVE bt - s[1] < Window => at - s[1] < Window
  BY AdmissionAssumption
<1> QED
  BY <1>1 DEF Live

\* The end of a check keeps the table true to what was admitted.
LEMMA DecideKeepsWindows ==
  ASSUME TasksOK, StoreOK, WindowsOK, NEW c \in Client, NEW stamps,
         stamps = (IF Key(c) \in DOMAIN windows THEN windows[Key(c)] ELSE {}),
         Decide(c, stamps), UNCHANGED now
  PROVE  WindowsOK' /\ DOMAIN windows' = DOMAIN windows \cup {Key(c)}
<1> DEFINE k == Key(c)
<1>k. k \in Keys
  BY KeyInKeys
<1>n. now \in Nat
  BY AdmissionAssumption DEF StoreOK
<1>l. \A x : LimitOf(x) \in Nat
  BY LimitType
<1>b. Bucket(stamps)
  <2>1. CASE k \in DOMAIN windows
    BY <2>1 DEF WindowsOK
  <2>2. CASE k \notin DOMAIN windows
    BY <2>2, FS_EmptySet DEF Bucket
  <2> QED
    BY <2>1, <2>2
<1>1. PICK at \in {now - 1, now} \cap Nat :
        LET kept == Live(stamps, at)
            allowed == Cardinality(kept) < LimitOf(k)
        IN  /\ windows' = Put(windows, k, IF allowed THEN Stamped(kept, at) ELSE kept)
            /\ Note(at < now, IF allowed THEN {k} ELSE {})
  BY DEF Decide
<1>a. at \in Nat /\ at <= now
  BY <1>n
<1> DEFINE kept == Live(stamps, at)
           allowed == Cardinality(kept) < LimitOf(k)
           v == IF allowed THEN Stamped(kept, at) ELSE kept
<1> HIDE DEF k
<1>2. IsFiniteSet(kept) /\ kept \subseteq stamps /\ Cardinality(kept) \in Nat
  BY <1>b, LiveIsFinite DEF Bucket
<1>3. PICK n \in Nat : Stamped(kept, at) = kept \cup {<<at, n>>}
  BY <1>2, <1>a, StampedIsOneMore
<1>4. IsFiniteSet(Stamped(kept, at)) /\ Cardinality(Stamped(kept, at)) = Cardinality(kept) + 1
  BY <1>2, <1>a, StampedIsOneMore
<1>5. Bucket(v)
  BY <1>2, <1>3, <1>4, <1>a, <1>b DEF Bucket
<1>6. windows' = Put(windows, k, v) /\ Note(at < now, IF allowed THEN {k} ELSE {})
  BY <1>1
<1>7. /\ DOMAIN windows' = DOMAIN windows \cup {k}
      /\ windows'[k] = v
      /\ \A x \in DOMAIN windows \ {k} : windows'[x] = windows[x]
  BY <1>6 DEF Put
<1>8. \A x \in DOMAIN windows' : Bucket(windows'[x])
  BY <1>5, <1>7 DEF WindowsOK
<1>9. blurred' = (blurred \/ at < now)
  BY <1>6 DEF Note
<1>10. ASSUME ~blurred', NEW x \in Keys
       PROVE  /\ admitted'[x] = IF x \in DOMAIN windows' THEN Live(windows'[x], now) ELSE {}
              /\ Cardinality(admitted'[x]) <= LimitOf(x)
  <2>0. ~blurred /\ ~(at < now)
    BY <1>9, <1>10, Zenon
  <2>1. ~blurred /\ at = now
    BY <2>0, <1>a, <1>n
  <2>2. /\ admitted[x] = IF x \in DOMAIN windows THEN Live(windows[x], now) ELSE {}
        /\ Cardinality(admitted[x]) <= LimitOf(x)
    BY <2>1 DEF WindowsOK
  <2>3. admitted'[x] = IF x \in (IF allowed THEN {k} ELSE {}) THEN Stamped(admitted[x], now)
                       ELSE admitted[x]
    BY <1>6, <1>10 DEF Note
  <2>4. CASE x # k
    <3>1. admitted'[x] = admitted[x]
      BY <2>3, <2>4
    <3> QED
      BY <3>1, <2>2, <2>4, <1>7
  <2>5. CASE x = k
    <3>1. admitted[k] = kept
      <4>1. CASE k \in DOMAIN windows
        BY <4>1, <2>1, <2>2, <2>5 DEF k
      <4>2. CASE k \notin DOMAIN windows
        BY <4>2, <2>1, <2>2, <2>5 DEF k, Live
      <4> QED
        BY <4>1, <4>2
    <3>2. admitted'[k] = v
      BY <2>3, <2>5, <3>1, <2>1
    <3>3. Live(v, now) = v
      <4>1. \A s \in stamps : s \in Nat \X Nat
        BY <1>b DEF Bucket
      <4>2. Live(kept, now) = kept
        BY <2>1 DEF Live
      <4>3. now - <<now, n>>[1] < Window
        BY <1>n, AdmissionAssumption
      <4>4. Live(kept \cup {<<now, n>>}, now) = kept \cup {<<now, n>>}
        BY <4>2, <4>3 DEF Live
      <4> QED
        BY <4>2, <4>4, <1>3, <2>1
    <3>4. Cardinality(v) <= LimitOf(k)
      BY <1>2, <1>4, <1>l, <2>2, <2>5, <3>1
    <3> QED
      BY <3>2, <3>3, <3>4, <2>5, <1>7
  <2> QED
    BY <2>4, <2>5
<1>11. DOMAIN windows' \subseteq Keys /\ blurred' \in BOOLEAN
  BY <1>7, <1>9, <1>k DEF WindowsOK
<1>12. \A x : LimitOf(x)' = LimitOf(x)
  BY DEF LimitOf
<1>13. \A S : Bucket(S)' <=> Bucket(S)
  BY DEF Bucket
<1> HIDE DEF kept, allowed, v
<1> QED
  BY <1>7, <1>8, <1>10, <1>11, <1>12, <1>13 DEF WindowsOK, k

\* Sweeping drops what is out of the window, and what lies in the future of the clock read.
LEMMA SweptIsSmaller ==
  ASSUME WindowsOK, StoreOK, NEW at \in Nat
  PROVE  /\ DOMAIN Swept(at) \subseteq DOMAIN windows
         /\ \A k \in DOMAIN Swept(at) : Bucket(Swept(at)[k])
         /\ at = now => \A k \in DOMAIN windows :
              Live(windows[k], now) = IF k \in DOMAIN Swept(at) THEN Live(Swept(at)[k], now) ELSE {}
<1>1. DOMAIN Swept(at) = {k \in DOMAIN windows : Fresh(windows[k], at) # {}}
  BY DEF Swept
<1>2. \A k \in DOMAIN Swept(at) : Swept(at)[k] = Fresh(windows[k], at)
  BY DEF Swept
<1>3. ASSUME NEW k \in DOMAIN windows PROVE Bucket(Fresh(windows[k], at))
  <2>1. Bucket(windows[k])
    BY DEF WindowsOK
  <2> QED
    BY <2>1, LiveIsFinite DEF Bucket
<1>4. ASSUME at = now, NEW k \in DOMAIN windows
      PROVE  Live(windows[k], now) = Fresh(windows[k], at) /\ Live(Fresh(windows[k], at), now) = Fresh(windows[k], at)
  <2>1. Bucket(windows[k])
    BY DEF WindowsOK
  <2> QED
    BY <1>4, <2>1 DEF Bucket, Live, Fresh
<1> QED
  BY <1>1, <1>2, <1>3, <1>4

LEMMA SweepKeepsWindows ==
  ASSUME WindowsOK, StoreOK, NEW at \in Nat, windows' = Swept(at), UNCHANGED now,
         \/ UNCHANGED <<admitted, blurred>> /\ at = now
         \/ Note(at < now, {}) /\ at <= now
  PROVE  WindowsOK'
<1>n. now \in Nat
  BY AdmissionAssumption DEF StoreOK
<1>1. DOMAIN windows' \subseteq Keys
  BY SweptIsSmaller DEF WindowsOK
<1>2. \A k \in DOMAIN windows' : Bucket(windows'[k])
  BY SweptIsSmaller
<1>3. blurred' \in BOOLEAN
  BY DEF WindowsOK, Note
<1>4. ASSUME ~blurred', NEW x \in Keys
      PROVE  /\ admitted'[x] = IF x \in DOMAIN windows' THEN Live(windows'[x], now) ELSE {}
             /\ Cardinality(admitted'[x]) <= LimitOf(x)
  <2>1. ~blurred /\ at = now /\ admitted'[x] = admitted[x]
    <3>1. CASE UNCHANGED <<admitted, blurred>> /\ at = now
      BY <1>4, <3>1
    <3>2. CASE Note(at < now, {}) /\ at <= now
      <4>1. ~blurred /\ ~(at < now)
        BY <1>4, <3>2, Zenon DEF Note
      <4>2. admitted'[x] = admitted[x]
        BY <1>4, <3>2, Zenon DEF Note
      <4> QED
        BY <4>1, <4>2, <3>2, <1>n
    <3> QED
      BY <3>1, <3>2
  <2>2. admitted'[x] = admitted[x]
    BY <2>1
  <2>3. /\ admitted[x] = IF x \in DOMAIN windows THEN Live(windows[x], now) ELSE {}
        /\ Cardinality(admitted[x]) <= LimitOf(x)
    BY <2>1 DEF WindowsOK
  <2>4. DOMAIN windows' \subseteq DOMAIN windows
    BY SweptIsSmaller
  <2>5. \A k \in DOMAIN windows :
          Live(windows[k], now) = IF k \in DOMAIN windows' THEN Live(windows'[k], now) ELSE {}
    BY <2>1, SweptIsSmaller
  <2> QED
    BY <2>2, <2>3, <2>4, <2>5
<1>5. \A x : LimitOf(x)' = LimitOf(x)
  BY DEF LimitOf
<1>6. \A S : Bucket(S)' <=> Bucket(S)
  BY DEF Bucket
<1> QED
  BY <1>1, <1>2, <1>3, <1>4, <1>5, <1>6 DEF WindowsOK

LEMMA SweepKeepsSize ==
  ASSUME GateOK, WindowsOK, StoreOK, NEW at \in Nat
  PROVE  /\ IsFiniteSet(DOMAIN Swept(at))
         /\ Cardinality(DOMAIN Swept(at)) \in Nat
         /\ Cardinality(DOMAIN Swept(at)) <= Cardinality(DOMAIN windows)
         /\ Cardinality(DOMAIN windows) \in Nat
<1>1. DOMAIN Swept(at) \subseteq DOMAIN windows
  BY SweptIsSmaller
<1> QED
  BY <1>1, FS_Subset, FS_CardinalityType DEF GateOK

-----------------------------------------------------------------------------
(* What each step makes of the client that takes it.                        *)

\* The client moves on with what it has: the ticket is kept or dropped.
Moves(c, t) ==
  /\ Becomes(c, t)
  /\ Shape(t) /\ Backed(t, drawn, DOMAIN tickets, spent, epoch)
  /\ t.ticket \in {None, task[c].ticket}

LEMMA IdleMoves ==
  ASSUME NEW c \in Client, Becomes(c, Idle)
  PROVE  Moves(c, Idle)
BY IdleIsFine DEF Moves

LEMMA RefusedMoves ==
  ASSUME TasksOK, NEW c \in Client, task[c].pc \in {"check", "insert"}, Refused(c)
  PROVE  \E t : Moves(c, t) /\ (Held(t) <=> Held(task[c])) /\ t.pc # "insert"
<1>1. CASE task[c].goal = "control"
  <2> DEFINE t == [task[c] EXCEPT !.pc = "open", !.goal = "ws"]
  <2>1. Becomes(c, t)
    BY <1>1 DEF Refused, BackToLoop, Becomes
  <2>2. Shape(task[c]) /\ Backed(task[c], drawn, DOMAIN tickets, spent, epoch)
    BY DEF TasksOK
  <2>3. /\ t \in TaskRec /\ t.pc = "open" /\ t.goal = "ws" /\ t.claims = task[c].claims
        /\ t.ticket = task[c].ticket /\ t.late = task[c].late /\ t.old = task[c].old
        /\ t.idle = task[c].idle
    BY <2>2 DEF Shape, TaskRec
  <2> HIDE DEF t
  <2>4. Shape(t) /\ Backed(t, drawn, DOMAIN tickets, spent, epoch) /\ Held(t)
    BY <2>2, <2>3, <1>1 DEF Shape, Backed, Held
  <2> QED
    BY <2>1, <2>3, <2>4, <1>1 DEF Moves, Held
<1>2. CASE task[c].goal # "control"
  <2>1. Moves(c, Idle)
    BY <1>2, IdleMoves DEF Refused
  <2> QED
    BY <1>2, <2>1, IdleIsFine DEF Held
<1> QED
  BY <1>1, <1>2

LEMMA GotoMoves ==
  ASSUME TasksOK, NEW c \in Client, NEW pc \in {"insert", "allowed"},
         task[c].pc \in {"check", "insert"}, Goto(c, pc),
         pc = "allowed" => task[c].goal \notin {"control", "bad"},
         task[c].goal # "none"
  PROVE  \E t : Moves(c, t) /\ (Held(t) <=> Held(task[c])) /\ t.pc = pc
<1> DEFINE t == [task[c] EXCEPT !.pc = pc]
<1>1. Becomes(c, t)
  BY DEF Goto, Becomes
<1>2. Shape(task[c]) /\ Backed(task[c], drawn, DOMAIN tickets, spent, epoch)
  BY DEF TasksOK
<1>3. /\ t \in TaskRec /\ t.pc = pc /\ t.goal = task[c].goal /\ t.claims = task[c].claims
      /\ t.ticket = task[c].ticket /\ t.late = task[c].late /\ t.old = task[c].old
      /\ t.idle = task[c].idle
  BY <1>2 DEF Shape, TaskRec
<1>4. task[c].goal \in {"token", "mint", "ws", "bad", "control"}
  BY <1>2 DEF Shape, TaskRec
<1> HIDE DEF t
<1>5. Held(t) <=> Held(task[c])
  BY <1>3 DEF Held
<1>6. Shape(t)
  BY <1>2, <1>3, <1>4 DEF Shape, Held
<1>7. Backed(t, drawn, DOMAIN tickets, spent, epoch)
  BY <1>2, <1>3, <1>5 DEF Backed
<1> QED
  BY <1>1, <1>3, <1>5, <1>6, <1>7 DEF Moves

LEMMA DecideMoves ==
  ASSUME TasksOK, NEW c \in Client, task[c].pc \in {"check", "insert"}, task[c].goal # "none",
         NEW stamps, Decide(c, stamps)
  PROVE  \E t : Moves(c, t) /\ (Held(t) <=> Held(task[c])) /\ t.pc # "insert"
<1>1. \/ Goto(c, "allowed") /\ task[c].goal \notin {"control", "bad"}
      \/ Refused(c)
  BY Zenon DEF Decide
<1>2. CASE Goto(c, "allowed") /\ task[c].goal \notin {"control", "bad"}
  BY <1>2, GotoMoves
<1>3. CASE Refused(c)
  BY <1>3, RefusedMoves
<1> QED
  BY <1>1, <1>2, <1>3

-----------------------------------------------------------------------------
(* The limiter's steps.                                                     *)

LEMMA Busy ==
  ASSUME TasksOK, NEW c \in Client, task[c].pc # "idle"
  PROVE  task[c].goal # "none"
BY DEF TasksOK, Shape

LEMMA StoreStays ==
  ASSUME StoreOK, UNCHANGED <<now, creds, store>>
  PROVE  StoreOK'
BY DEF StoreOK, creds, store

LEMMA FastPathStep ==
  ASSUME IInv, NEW c \in Client, FastPath(c)
  PROVE  IInv'
<1>0. task[c].pc = "check" /\ Key(c) \in DOMAIN windows /\ Decide(c, windows[Key(c)])
      /\ UNCHANGED <<now, creds, store, gate, slots, gone>>
  BY DEF FastPath
<1>1. PICK t : Moves(c, t) /\ (Held(t) <=> Held(task[c])) /\ t.pc # "insert"
  BY <1>0, Busy, DecideMoves DEF IInv
<1>2. TasksOK'
  BY <1>0, <1>1, TaskMovesOn DEF IInv, Moves, creds, store
<1>3. SlotsOK'
  BY <1>0, <1>1, SlotsStay DEF IInv, Moves, TasksOK
<1>4. WindowsOK' /\ DOMAIN windows' = DOMAIN windows \cup {Key(c)}
  BY <1>0, DecideKeepsWindows DEF IInv
<1>5. GateOK'
  <2>1. DOMAIN windows' = DOMAIN windows
    BY <1>0, <1>4
  <2>2. task' = [task EXCEPT ![c] = t] /\ task \in [Client -> TaskRec]
    BY <1>1 DEF Moves, Becomes, IInv, TasksOK
  <2> QED
    BY <2>1, <2>2, <1>0, <1>1 DEF IInv, GateOK
<1>6. StoreOK'
  BY <1>0, StoreStays DEF IInv
<1> QED
  BY <1>2, <1>3, <1>4, <1>5, <1>6 DEF IInv

LEMMA InsertStep ==
  ASSUME IInv, NEW c \in Client, Insert(c)
  PROVE  IInv'
<1> DEFINE stamps == IF Key(c) \in DOMAIN windows THEN windows[Key(c)] ELSE {}
<1>0. task[c].pc = "insert" /\ gate' = None /\ Decide(c, stamps)
      /\ UNCHANGED <<now, creds, store, slots, gone>>
  BY DEF Insert
<1> HIDE DEF stamps
<1>1. PICK t : Moves(c, t) /\ (Held(t) <=> Held(task[c])) /\ t.pc # "insert"
  BY <1>0, Busy, DecideMoves DEF IInv
<1>2. TasksOK'
  BY <1>0, <1>1, TaskMovesOn DEF IInv, Moves, creds, store
<1>3. SlotsOK'
  BY <1>0, <1>1, SlotsStay DEF IInv, Moves, TasksOK
<1>4. WindowsOK' /\ DOMAIN windows' = DOMAIN windows \cup {Key(c)}
  BY <1>0, DecideKeepsWindows DEF IInv, stamps
<1>5. GateOK'
  <2>1. gate = c /\ Cardinality(DOMAIN windows) < MaxKeys /\ IsFiniteSet(DOMAIN windows)
    BY <1>0, AdmissionAssumption DEF IInv, GateOK
  <2>2. task' = [task EXCEPT ![c] = t] /\ task \in [Client -> TaskRec]
    BY <1>1 DEF Moves, Becomes, IInv, TasksOK
  <2>3. IsFiniteSet(DOMAIN windows') /\ Cardinality(DOMAIN windows') \in Nat
        /\ Cardinality(DOMAIN windows') <= Cardinality(DOMAIN windows) + 1
        /\ Cardinality(DOMAIN windows) \in Nat
    <3> DEFINE D == DOMAIN windows
    <3>1. IsFiniteSet(D) /\ Cardinality(D) \in Nat
      BY <2>1, FS_CardinalityType
    <3>2. IsFiniteSet(D \cup {Key(c)})
          /\ Cardinality(D \cup {Key(c)})
               = IF Key(c) \in D THEN Cardinality(D) ELSE Cardinality(D) + 1
      BY <3>1, FS_AddElement
    <3> QED
      BY <3>1, <3>2, <1>4
  <2>4. Cardinality(DOMAIN windows') <= MaxKeys
    BY <2>1, <2>3, AdmissionAssumption
  <2>5. \A d \in Client : task'[d].pc # "insert" /\ d # None
    BY <2>1, <2>2, <1>1, AdmissionAssumption DEF IInv, GateOK
  <2> QED
    BY <1>0, <2>3, <2>4, <2>5 DEF GateOK
<1>6. StoreOK'
  BY <1>0, StoreStays DEF IInv
<1> QED
  BY <1>2, <1>3, <1>4, <1>5, <1>6 DEF IInv

LEMMA NewKeyStep ==
  ASSUME IInv, NEW c \in Client, NewKey(c)
  PROVE  IInv'
<1> DEFINE room == IF Cardinality(DOMAIN windows) >= MaxKeys THEN Swept(now) ELSE windows
           full == Cardinality(DOMAIN room) >= MaxKeys
<1>0. task[c].pc = "check" /\ gate = None /\ windows' = room
      /\ (IF full THEN Refused(c) /\ UNCHANGED gate ELSE Goto(c, "insert") /\ gate' = c)
      /\ UNCHANGED <<now, creds, store, admitted, blurred, slots, gone>>
  BY DEF NewKey, GateFree
<1>n. now \in Nat
  BY AdmissionAssumption DEF IInv, StoreOK
<1>1. IsFiniteSet(DOMAIN room) /\ Cardinality(DOMAIN room) \in Nat
      /\ Cardinality(DOMAIN room) <= MaxKeys
  <2>1. IsFiniteSet(DOMAIN windows) /\ Cardinality(DOMAIN windows) <= MaxKeys
    BY DEF IInv, GateOK
  <2>2. /\ IsFiniteSet(DOMAIN Swept(now))
        /\ Cardinality(DOMAIN Swept(now)) \in Nat
        /\ Cardinality(DOMAIN Swept(now)) <= Cardinality(DOMAIN windows)
        /\ Cardinality(DOMAIN windows) \in Nat
    BY <1>n, SweepKeepsSize DEF IInv
  <2> QED
    BY <2>1, <2>2, AdmissionAssumption
<1>2. WindowsOK'
  <2>1. CASE room = windows
    BY <1>0, <2>1 DEF IInv, WindowsOK, Bucket, LimitOf
  <2>2. CASE room = Swept(now)
    BY <1>0, <2>2, <1>n, SweepKeepsWindows DEF IInv
  <2> QED
    BY <2>1, <2>2
<1>3. StoreOK'
  BY <1>0, StoreStays DEF IInv
<1> HIDE DEF room
<1>g. \A d \in Client : task[d].pc # "insert" /\ d # None
  BY <1>0, AdmissionAssumption DEF IInv, GateOK
<1>t. task \in [Client -> TaskRec]
  BY DEF IInv, TasksOK
<1>4. CASE full
  <2>1. PICK t : Moves(c, t) /\ (Held(t) <=> Held(task[c])) /\ t.pc # "insert"
    BY <1>0, <1>4, RefusedMoves DEF IInv
  <2>2. TasksOK' /\ SlotsOK'
    BY <1>0, <2>1, <1>t, TaskMovesOn, SlotsStay DEF IInv, Moves, creds, store
  <2>3. task' = [task EXCEPT ![c] = t] /\ gate' = None
    BY <2>1, <1>0, <1>4 DEF Moves, Becomes
  <2>4. GateOK'
    BY <1>0, <1>1, <1>g, <1>t, <2>1, <2>3 DEF GateOK
  <2> QED
    BY <1>2, <1>3, <2>2, <2>4 DEF IInv
<1>5. CASE ~full
  <2>1. PICK t : Moves(c, t) /\ (Held(t) <=> Held(task[c])) /\ t.pc = "insert"
    BY <1>0, <1>5, Busy, GotoMoves DEF IInv
  <2>2. TasksOK' /\ SlotsOK'
    BY <1>0, <2>1, <1>t, TaskMovesOn, SlotsStay DEF IInv, Moves, creds, store
  <2>3. task' = [task EXCEPT ![c] = t] /\ gate' = c
    BY <2>1, <1>0, <1>5 DEF Moves, Becomes
  <2>4. \A d \in Client : task'[d].pc = "insert" <=> d = c
    BY <1>g, <1>t, <2>1, <2>3
  <2>5. Cardinality(DOMAIN room) < MaxKeys
    BY <1>1, <1>5, AdmissionAssumption
  <2>6. GateOK'
    BY <1>0, <1>1, <1>g, <2>3, <2>4, <2>5 DEF GateOK
  <2> QED
    BY <1>2, <1>3, <2>2, <2>6 DEF IInv
<1> QED
  BY <1>4, <1>5

LEMMA SweepStep ==
  ASSUME IInv, SweepExpired
  PROVE  IInv'
<1>1. PICK at \in {now - 1, now} \cap Nat : windows' = Swept(at) /\ Note(at < now, {})
  BY DEF SweepExpired
<1>2. UNCHANGED <<now, creds, store, gate, slots, task, gone>>
  BY DEF SweepExpired
<1>n. now \in Nat /\ at \in Nat /\ at <= now
  BY AdmissionAssumption DEF IInv, StoreOK
<1>3. WindowsOK'
  BY <1>1, <1>2, <1>n, SweepKeepsWindows DEF IInv
<1>4. GateOK'
  <2>1. IsFiniteSet(DOMAIN windows') /\ Cardinality(DOMAIN windows') \in Nat
         /\ Cardinality(DOMAIN windows') <= Cardinality(DOMAIN windows)
         /\ Cardinality(DOMAIN windows) \in Nat
    BY <1>1, <1>n, SweepKeepsSize DEF IInv
  <2> QED
    BY <1>2, <2>1, AdmissionAssumption DEF IInv, GateOK
<1>5. StoreOK' /\ TasksOK' /\ SlotsOK'
  BY <1>2 DEF IInv, StoreOK, TasksOK, SlotsOK, Holders, HoldsSlot, OnSocket, creds, store
<1> QED
  BY <1>3, <1>4, <1>5 DEF IInv

-----------------------------------------------------------------------------
(* Requests begin.                                                          *)

LEMMA BeginWithout ==
  ASSUME NEW c \in Client, NEW goal \in {"token", "bad"}, NEW k, Begin(c, goal, None, k)
  PROVE  \E t : Moves(c, t) /\ ~Held(t) /\ t.pc = "check"
<1> DEFINE t == [Idle EXCEPT !.pc = "check", !.goal = goal]
<1>1. Becomes(c, t)
  BY DEF Begin
<1>2. /\ t \in TaskRec /\ t.pc = "check" /\ t.goal = goal /\ t.claims = None
      /\ t.ticket = None /\ t.late = FALSE /\ t.old = FALSE /\ t.idle = 0
  BY DEF Idle, TaskRec
<1> HIDE DEF t
<1>3. Shape(t) /\ Backed(t, drawn, DOMAIN tickets, spent, epoch) /\ ~Held(t)
  BY <1>2, AdmissionAssumption DEF Shape, Backed, Held
<1> QED
  BY <1>1, <1>2, <1>3 DEF Moves

LEMMA BeginWith ==
  ASSUME NEW c \in Client, NEW goal \in {"mint", "ws"}, NEW k \in Ticket \cup {None},
         NEW claims \in Claims, Begin(c, goal, claims, k)
  PROVE  \E t : /\ Becomes(c, t) /\ Shape(t) /\ ~Held(t) /\ t.pc = "check"
                /\ t.ticket = k /\ t.claims = claims
                /\ t.old => claims.epoch < epoch[claims.account]
<1> DEFINE l == k # None /\ claims.exp <= now
           o == claims.epoch < epoch[claims.account]
           t == [Idle EXCEPT !.pc = "check", !.goal = goal, !.claims = claims, !.ticket = k,
                             !.late = l, !.old = o]
<1>0. claims # None
  BY AdmissionAssumption DEF Claims
<1>1. Becomes(c, t)
  BY <1>0 DEF Begin
<1>b. l \in BOOLEAN /\ o \in BOOLEAN
  OBVIOUS
<1> HIDE DEF l, o
<1>2. /\ t \in TaskRec /\ t.pc = "check" /\ t.goal = goal /\ t.claims = claims
      /\ t.ticket = k /\ t.late = l /\ t.old = o /\ t.idle = 0
  BY <1>b DEF Idle, TaskRec
<1> HIDE DEF t
<1>3. Shape(t) /\ ~Held(t)
  BY <1>0, <1>2, AdmissionAssumption DEF Shape, Held
<1> QED
  BY <1>1, <1>2, <1>3, Zenon DEF o

LEMMA IdleIsNoHolder ==
  ASSUME TasksOK, NEW c \in Client, task[c].pc \in {"idle", "allowed"}
  PROVE  ~Held(task[c])
BY DEF TasksOK, Shape, Held

\* A step of one client that leaves the limiter, the slots and who holds them alone.
LEMMA OthersStay ==
  ASSUME IInv, NEW c \in Client, NEW t, Becomes(c, t),
         Held(t) <=> Held(task[c]), t.pc = "insert" <=> task[c].pc = "insert",
         UNCHANGED <<now, limiter, slots, gone>>
  PROVE  GateOK' /\ WindowsOK' /\ SlotsOK'
<1>1. GateOK'
  BY GateStays DEF IInv, TasksOK, limiter
<1>2. SlotsOK'
  BY SlotsStay DEF IInv, TasksOK
<1>3. WindowsOK'
  BY DEF IInv, WindowsOK, Bucket, LimitOf, limiter
<1> QED
  BY <1>1, <1>2, <1>3

LEMMA TokenIsClaims ==
  ASSUME StoreOK, NEW t \in tokens
  PROVE  t \in Claims
BY AdmissionAssumption DEF StoreOK, Claims

LEMMA RequestStep ==
  ASSUME IInv, NEW c \in Client, Request(c)
  PROVE  IInv'
<1>0. task[c].pc = "idle" /\ UNCHANGED <<now, creds, store, limiter, slots, gone>>
  BY DEF Request
<1>1. PICK t : Moves(c, t) /\ ~Held(t) /\ t.pc = "check"
  <2>1. CASE Begin(c, "token", None, None)
    BY <2>1, BeginWithout
  <2>2. CASE Begin(c, "bad", None, None)
    BY <2>2, BeginWithout
  <2>3. ASSUME NEW goal \in {"mint", "ws"}, NEW k \in tokens, Begin(c, goal, k, None)
        PROVE  \E t : Moves(c, t) /\ ~Held(t) /\ t.pc = "check"
    <3>1. k \in Claims
      BY TokenIsClaims DEF IInv
    <3>2. PICK t : /\ Becomes(c, t) /\ Shape(t) /\ ~Held(t) /\ t.pc = "check"
                   /\ t.ticket = None /\ t.claims = k
                   /\ t.old => k.epoch < epoch[k.account]
      BY <2>3, <3>1, BeginWith
    <3> QED
      BY <3>2 DEF Moves, Backed
  <2> QED
    BY <2>1, <2>2, <2>3 DEF Request
<1>2. TasksOK'
  BY <1>0, <1>1, TaskMovesOn DEF IInv, Moves, creds, store
<1>3. GateOK' /\ WindowsOK' /\ SlotsOK'
  BY <1>0, <1>1, IdleIsNoHolder, OthersStay DEF IInv, Moves
<1>4. StoreOK'
  BY <1>0, StoreStays DEF IInv
<1> QED
  BY <1>2, <1>3, <1>4 DEF IInv

LEMMA RedeemStep ==
  ASSUME IInv, NEW c \in Client, NEW k \in Ticket, Redeem(c, k)
  PROVE  IInv'
<1>0. task[c].pc = "idle" /\ UNCHANGED <<now, creds, drawn, spent, limiter, slots, gone>>
  BY DEF Redeem
<1>1. DOMAIN tickets' \subseteq DOMAIN tickets
      /\ \A x \in DOMAIN tickets' : tickets'[x] = tickets[x]
  BY DEF Redeem, Removed
<1>2. StoreOK'
  <2>1. IsFiniteSet(DOMAIN tickets') /\ Cardinality(DOMAIN tickets') \in Nat
        /\ Cardinality(DOMAIN tickets') <= Cardinality(DOMAIN tickets)
        /\ Cardinality(DOMAIN tickets) \in Nat
    BY <1>1, FS_Subset, FS_CardinalityType DEF IInv, StoreOK
  <2>2. Cardinality(DOMAIN tickets') <= MaxTickets
    BY <2>1, AdmissionAssumption DEF IInv, StoreOK
  <2> QED
    BY <1>0, <1>1, <2>1, <2>2 DEF IInv, StoreOK, creds
<1>3. \A d \in Client : Backed(task[d], drawn', DOMAIN tickets', spent', epoch')
  <2> SUFFICES ASSUME NEW d \in Client PROVE Backed(task[d], drawn', DOMAIN tickets', spent', epoch')
    OBVIOUS
  <2>1. Shape(task[d]) /\ Backed(task[d], drawn, DOMAIN tickets, spent, epoch)
    BY DEF IInv, TasksOK
  <2> QED
    BY <2>1, <1>0, <1>1 DEF Backed, creds
<1>4. PICK t : /\ Becomes(c, t) /\ Shape(t) /\ ~Held(t) /\ t.pc = "check"
               /\ Backed(t, drawn', DOMAIN tickets', spent', epoch')
               /\ t.ticket # None => t.ticket \in DOMAIN tickets
  <2>1. CASE Begin(c, "bad", None, None)
    <3>1. PICK t : Moves(c, t) /\ ~Held(t) /\ t.pc = "check"
      BY <2>1, BeginWithout
    <3>2. t.ticket = None
      <4>1. task[c].ticket = None
        BY <1>0 DEF IInv, TasksOK, Shape
      <4> QED
        BY <3>1, <4>1 DEF Moves
    <3> QED
      BY <3>1, <3>2, <1>0 DEF Moves, Backed, creds
  <2>2. CASE k \in DOMAIN tickets /\ tickets' = Removed(k) /\ Begin(c, "ws", tickets[k].claims, k)
    <3>1. tickets[k].claims \in Claims
      BY <2>2 DEF IInv, StoreOK
    <3> DEFINE cl == tickets[k].claims
    <3> HIDE DEF cl
    <3>2. PICK t : /\ Becomes(c, t) /\ Shape(t) /\ ~Held(t) /\ t.pc = "check"
                   /\ t.ticket = k /\ t.claims = cl
                   /\ t.old => cl.epoch < epoch[cl.account]
      BY <2>2, <3>1, BeginWith DEF cl
    <3>3. k \in drawn /\ k \notin DOMAIN tickets'
      BY <2>2 DEF IInv, StoreOK, Removed
    <3> QED
      BY <2>2, <3>2, <3>3, <1>0 DEF Backed, creds
  <2> QED
    BY <2>1, <2>2 DEF Redeem
<1>5. t.ticket # None => \A d \in Client \ {c} : t.ticket # task[d].ticket
  <2> SUFFICES ASSUME t.ticket # None, NEW d \in Client \ {c}, t.ticket = task[d].ticket PROVE FALSE
    OBVIOUS
  <2>1. Backed(task[d], drawn, DOMAIN tickets, spent, epoch)
    BY DEF IInv, TasksOK
  <2> QED
    BY <2>1, <1>4 DEF Backed
<1>6. TasksOK'
  BY <1>3, <1>4, <1>5, TaskMoves DEF IInv
<1>7. GateOK' /\ WindowsOK' /\ SlotsOK'
  BY <1>0, <1>4, IdleIsNoHolder, OthersStay DEF IInv
<1> QED
  BY <1>2, <1>6, <1>7 DEF IInv

-----------------------------------------------------------------------------
(* What follows an allowed request.                                         *)

LEMMA MintStep ==
  ASSUME IInv, NEW c \in Client, task[c].pc = "allowed", task[c].goal = "mint", MintTicket(c),
         UNCHANGED <<now, creds, spent, limiter, slots, gone>>
  PROVE  IInv'
<1> DEFINE live == {t \in DOMAIN tickets : tickets[t].expires > now}
           kept == [t \in live |-> tickets[t]]
<1>0. Becomes(c, Idle)
  BY DEF MintTicket
<1>l. IsFiniteSet(live) /\ Cardinality(live) \in Nat /\ Cardinality(live) <= MaxTickets
  <2>1. IsFiniteSet(DOMAIN tickets) /\ Cardinality(DOMAIN tickets) \in Nat
        /\ Cardinality(DOMAIN tickets) <= MaxTickets
    BY FS_CardinalityType DEF IInv, StoreOK
  <2>2. IsFiniteSet(live) /\ Cardinality(live) <= Cardinality(DOMAIN tickets)
    BY <2>1, FS_Subset
  <2> QED
    BY <2>1, <2>2, FS_CardinalityType, AdmissionAssumption
<1>c. task[c].claims \in Claims
  BY DEF IInv, TasksOK, Shape
<1>1. /\ StoreOK'
      /\ drawn \subseteq drawn' /\ \A x \in drawn : x \in DOMAIN tickets' => x \in DOMAIN tickets
  <2>1. CASE tickets' = kept /\ UNCHANGED drawn
    <3>1. DOMAIN tickets' = live /\ \A x \in live : tickets'[x] = tickets[x]
      BY <2>1
    <3> HIDE DEF kept
    <3> QED
      BY <2>1, <3>1, <1>l DEF IInv, StoreOK, creds
  <2>2. CASE /\ Cardinality(live) < MaxTickets
             /\ \E t \in Ticket \ drawn :
                  /\ tickets' = Put(kept, t, [claims |-> task[c].claims, expires |-> now + TicketTTL])
                  /\ drawn' = drawn \cup {t}
    <3>1. PICK t \in Ticket \ drawn :
                  /\ tickets' = Put(kept, t, [claims |-> task[c].claims, expires |-> now + TicketTTL])
                  /\ drawn' = drawn \cup {t}
      BY <2>2
    <3>2. /\ DOMAIN tickets' = live \cup {t}
          /\ tickets'[t].claims = task[c].claims
          /\ \A x \in live : x # t => tickets'[x] = tickets[x]
      BY <3>1 DEF Put
    <3>3. t \notin DOMAIN tickets
      BY DEF IInv, StoreOK
    <3> HIDE DEF kept
    <3>4. IsFiniteSet(live \cup {t}) /\ Cardinality(live \cup {t}) = Cardinality(live) + 1
      BY <3>3, <1>l, FS_AddElement
    <3>5. Cardinality(DOMAIN tickets') <= MaxTickets /\ IsFiniteSet(DOMAIN tickets')
      BY <2>2, <3>2, <3>4, <1>l, AdmissionAssumption
    <3>6. \A x \in DOMAIN tickets' : tickets'[x].claims \in Claims
      BY <1>c, <3>2, <3>3 DEF IInv, StoreOK
    <3>7. spent' \subseteq drawn' /\ spent' \cap DOMAIN tickets' = {}
      BY <3>1, <3>2 DEF IInv, StoreOK
    <3>8. /\ now' \in 0..MaxTime
          /\ epoch' \in [Account -> Nat]
          /\ tokens' \subseteq [account : Account, epoch : {0}, exp : 0..MaxTime + TokenTTL]
      BY DEF IInv, StoreOK, creds
    <3>9. DOMAIN tickets' \subseteq drawn' /\ drawn' \subseteq Ticket
      BY <3>1, <3>2 DEF IInv, StoreOK
    <3> HIDE DEF live
    <3>10. StoreOK'
      BY <3>5, <3>6, <3>7, <3>8, <3>9 DEF StoreOK
    <3> QED
      BY <3>1, <3>2, <3>10 DEF live
  <2>3. Cardinality(live) >= MaxTickets \/ Cardinality(live) < MaxTickets
    BY <1>l, AdmissionAssumption
  <2> QED
    BY <2>1, <2>2, <2>3 DEF MintTicket
<1>2. \A d \in Client : Backed(task[d], drawn', DOMAIN tickets', spent', epoch')
  <2> SUFFICES ASSUME NEW d \in Client PROVE Backed(task[d], drawn', DOMAIN tickets', spent', epoch')
    OBVIOUS
  <2>1. Shape(task[d]) /\ Backed(task[d], drawn, DOMAIN tickets, spent, epoch)
    BY DEF IInv, TasksOK
  <2> QED
    BY <2>1, <1>1 DEF Backed, creds
<1>3. TasksOK'
  BY <1>0, <1>2, IdleIsFine, TaskMoves DEF IInv
<1>4. GateOK' /\ WindowsOK' /\ SlotsOK'
  BY <1>0, IdleIsFine, IdleIsNoHolder, OthersStay DEF IInv
<1> QED
  BY <1>1, <1>3, <1>4 DEF IInv

LEMMA HandshakeStep ==
  ASSUME IInv, NEW c \in Client, task[c].pc = "allowed", task[c].goal = "ws", Current(c),
         AcquireSlot(c),
         spent' = IF task[c].ticket # None THEN spent \cup {task[c].ticket} ELSE spent,
         UNCHANGED <<now, creds, tickets, drawn, limiter, gone>>
  PROVE  IInv'
<1>s. Shape(task[c]) /\ Backed(task[c], drawn, DOMAIN tickets, spent, epoch) /\ ~Held(task[c])
  BY IdleIsNoHolder DEF IInv, TasksOK
<1>1. StoreOK'
  <2>1. spent' \subseteq drawn /\ spent' \cap DOMAIN tickets = {}
    BY <1>s DEF IInv, StoreOK, Backed
  <2> QED
    BY <2>1 DEF IInv, StoreOK, creds
<1>2. \A d \in Client : Backed(task[d], drawn', DOMAIN tickets', spent', epoch')
  <2> SUFFICES ASSUME NEW d \in Client PROVE Backed(task[d], drawn', DOMAIN tickets', spent', epoch')
    OBVIOUS
  <2>1. Shape(task[d]) /\ Backed(task[d], drawn, DOMAIN tickets, spent, epoch)
    BY DEF IInv, TasksOK
  <2> QED
    BY <2>1 DEF Backed, creds
<1>3. CASE slots < MaxConnections
  <2> DEFINE t == [task[c] EXCEPT !.pc = "open"]
  <2>1. Becomes(c, t) /\ slots' = slots + 1
    BY <1>3 DEF AcquireSlot, Goto, Becomes
  <2>2. /\ t \in TaskRec /\ t.pc = "open" /\ t.goal = "ws" /\ t.claims = task[c].claims
        /\ t.ticket = task[c].ticket /\ t.late = task[c].late /\ t.old = task[c].old
        /\ t.idle = task[c].idle
    BY <1>s DEF Shape, TaskRec
  <2> HIDE DEF t
  <2>3. ~task[c].old /\ ~task[c].late
    <3>1. ~task[c].late
      BY DEF Current
    <3>2. task[c].claims \in Claims
      BY <1>s DEF Shape
    <3>3. task[c].claims.account \in Account /\ task[c].claims.epoch = 0
      BY <3>2 DEF Claims
    <3>4. epoch[task[c].claims.account] \in Nat
      BY <3>3 DEF IInv, StoreOK
    <3>5. ~(task[c].claims.epoch < epoch[task[c].claims.account])
      BY <3>3, <3>4 DEF Current
    <3> QED
      BY <3>1, <3>5, <1>s DEF Backed
  <2>4. Shape(t) /\ Held(t)
    BY <1>s, <2>2, <2>3 DEF Shape, Held
  <2>5. Backed(t, drawn', DOMAIN tickets', spent', epoch')
    BY <1>s, <2>2, <2>3 DEF Backed
  <2>6. t.ticket # None => \A d \in Client \ {c} : t.ticket # task[d].ticket
    BY <2>2 DEF IInv, TasksOK
  <2>7. TasksOK'
    BY <1>2, <2>1, <2>4, <2>5, <2>6, TaskMoves DEF IInv
  <2>8. SlotsOK'
    BY <1>3, <1>s, <2>1, <2>4, SlotsTake DEF IInv, TasksOK
  <2>9. GateOK'
    BY <2>1, <2>2, GateStays DEF IInv, TasksOK, limiter
  <2>10. WindowsOK'
    BY DEF IInv, WindowsOK, Bucket, LimitOf, limiter
  <2> QED
    BY <1>1, <2>7, <2>8, <2>9, <2>10 DEF IInv
<1>4. CASE ~(slots < MaxConnections)
  <2>1. Becomes(c, Idle) /\ UNCHANGED slots
    BY <1>4 DEF AcquireSlot
  <2>2. TasksOK'
    BY <1>2, <2>1, IdleIsFine, TaskMoves DEF IInv
  <2>3. GateOK' /\ WindowsOK' /\ SlotsOK'
    BY <1>s, <2>1, IdleIsFine, OthersStay
  <2> QED
    BY <1>1, <2>2, <2>3 DEF IInv
<1> QED
  BY <1>3, <1>4

LEMMA AuthorizeStep ==
  ASSUME IInv, NEW c \in Client, Authorize(c)
  PROVE  IInv'
<1>0. task[c].pc = "allowed" /\ task[c].goal # "token" /\ UNCHANGED <<now, creds, limiter, gone>>
  BY DEF Authorize
<1>1. task[c].goal \in {"mint", "ws"}
  BY <1>0 DEF IInv, TasksOK, Shape
<1>2. CASE ~Current(c)
  <2>1. Becomes(c, Idle) /\ UNCHANGED <<slots, store>>
    BY <1>2 DEF Authorize
  <2>2. TasksOK'
    BY <1>0, <2>1, IdleIsFine, TaskMovesOn DEF IInv, creds, store
  <2>3. GateOK' /\ WindowsOK' /\ SlotsOK'
    BY <1>0, <2>1, IdleIsNoHolder, IdleIsFine, OthersStay DEF IInv
  <2> QED
    BY <1>0, <2>1, <2>2, <2>3, StoreStays DEF IInv
<1>3. CASE Current(c) /\ task[c].goal = "mint"
  <2>1. MintTicket(c) /\ UNCHANGED <<slots, spent>>
    BY <1>3 DEF Authorize
  <2> QED
    BY <1>0, <1>3, <2>1, MintStep
<1>4. CASE Current(c) /\ task[c].goal = "ws"
  <2>1. /\ AcquireSlot(c)
        /\ spent' = IF task[c].ticket # None THEN spent \cup {task[c].ticket} ELSE spent
        /\ UNCHANGED <<tickets, drawn>>
    BY <1>4 DEF Authorize
  <2> QED
    BY <1>0, <1>4, <2>1, HandshakeStep
<1> QED
  BY <1>1, <1>2, <1>3, <1>4

LEMMA IssueTokenStep ==
  ASSUME IInv, NEW c \in Client, IssueToken(c)
  PROVE  IInv'
<1>0. task[c].pc = "allowed" /\ Becomes(c, Idle)
      /\ UNCHANGED <<now, epoch, store, limiter, slots, gone>>
  BY DEF IssueToken
<1>1. TasksOK'
  BY <1>0, IdleIsFine, TaskMovesOn DEF IInv, store
<1>2. GateOK' /\ WindowsOK' /\ SlotsOK'
  BY <1>0, IdleIsNoHolder, IdleIsFine, OthersStay DEF IInv
<1>3. tokens' \subseteq [account : Account, epoch : {0}, exp : 0..MaxTime + TokenTTL]
  <2>1. now + TokenTTL \in 0..MaxTime + TokenTTL
    BY AdmissionAssumption DEF IInv, StoreOK
  <2> QED
    BY <2>1 DEF IssueToken, IInv, StoreOK
<1>4. StoreOK'
  BY <1>0, <1>3 DEF IInv, StoreOK, store
<1> QED
  BY <1>1, <1>2, <1>4 DEF IInv

-----------------------------------------------------------------------------
(* The socket loop and the environment.                                     *)

LEMMA EndSocketStep ==
  ASSUME IInv, NEW c \in Client, OnSocket(c), EndSocket(c),
         UNCHANGED <<now, creds, store, limiter>>
  PROVE  IInv'
<1>0. Becomes(c, Idle) /\ Held(task[c]) /\ task[c].pc # "insert"
  BY DEF EndSocket, Held, OnSocket
<1>1. TasksOK'
  BY <1>0, IdleIsFine, TaskMovesOn DEF IInv, creds, store
<1>2. SlotsOK'
  BY <1>0, SlotsReturn DEF IInv, TasksOK
<1>3. GateOK'
  BY <1>0, IdleIsFine, GateStays DEF IInv, TasksOK, limiter
<1>4. WindowsOK'
  BY DEF IInv, WindowsOK, Bucket, LimitOf, limiter
<1> QED
  BY <1>1, <1>2, <1>3, <1>4, StoreStays DEF IInv

\* A frame, a control frame, a heartbeat that finds nothing wrong and a send that is not read.
LEMMA SocketMoves ==
  ASSUME IInv, NEW c \in Client, task[c].pc = "open", NEW t \in TaskRec, Becomes(c, t),
         \/ t.pc \in {"open", "stuck"} /\ t.goal = "ws"
         \/ t.pc = "check" /\ t.goal = "control",
         t.claims = task[c].claims, t.ticket = task[c].ticket, t.late = task[c].late,
         t.old = task[c].old, t.idle < MaxIdleTicks,
         UNCHANGED <<now, creds, store, limiter, slots, gone>>
  PROVE  IInv'
<1>1. Shape(task[c]) /\ Backed(task[c], drawn, DOMAIN tickets, spent, epoch) /\ Held(task[c])
  BY DEF IInv, TasksOK, Held
<1>2. Held(t)
  BY DEF Held
<1>3. Shape(t) /\ Backed(t, drawn, DOMAIN tickets, spent, epoch)
  BY <1>1, <1>2 DEF Shape, Backed
<1>4. TasksOK'
  BY <1>3, TaskMovesOn DEF IInv, creds, store
<1>5. GateOK' /\ WindowsOK' /\ SlotsOK'
  BY <1>1, <1>2, OthersStay
<1> QED
  BY <1>4, <1>5, StoreStays DEF IInv

LEMMA FrameStep ==
  ASSUME IInv, NEW c \in Client, Frame(c)
  PROVE  IInv'
<1> DEFINE t == [task[c] EXCEPT !.idle = 0]
<1>0. Becomes(c, t) /\ task[c].pc = "open"
  BY DEF Frame, Becomes
<1>1. task[c] \in TaskRec /\ task[c].goal = "ws"
  BY <1>0 DEF IInv, TasksOK, Shape
<1>2. /\ t \in TaskRec /\ t.pc = task[c].pc /\ t.goal = task[c].goal /\ t.claims = task[c].claims
      /\ t.ticket = task[c].ticket /\ t.late = task[c].late /\ t.old = task[c].old
      /\ t.idle = 0
  BY <1>1 DEF TaskRec
<1> HIDE DEF t
<1> QED
  BY <1>0, <1>1, <1>2, SocketMoves, AdmissionAssumption DEF Frame

LEMMA ControlFrameStep ==
  ASSUME IInv, NEW c \in Client, ControlFrame(c)
  PROVE  IInv'
<1> DEFINE t == [task[c] EXCEPT !.pc = "check", !.goal = "control", !.idle = 0]
<1>0. Becomes(c, t) /\ task[c].pc = "open"
  BY DEF ControlFrame, Becomes
<1>1. task[c] \in TaskRec
  BY <1>0 DEF IInv, TasksOK, Shape
<1>2. /\ t \in TaskRec /\ t.pc = "check" /\ t.goal = "control" /\ t.claims = task[c].claims
      /\ t.ticket = task[c].ticket /\ t.late = task[c].late /\ t.old = task[c].old
      /\ t.idle = 0
  BY <1>1 DEF TaskRec
<1> HIDE DEF t
<1> QED
  BY <1>0, <1>2, SocketMoves, AdmissionAssumption DEF ControlFrame

\* A send that its peer does not read.
LEMMA GetsStuckStep ==
  ASSUME IInv, NEW c \in Client, task[c].pc = "open", GetsStuck(c),
         UNCHANGED <<now, creds, store, limiter>>
  PROVE  IInv'
<1> DEFINE t == [task[c] EXCEPT !.pc = "stuck"]
<1>0. Becomes(c, t) /\ UNCHANGED <<slots, gone>>
  BY DEF GetsStuck, Goto, Becomes
<1>1. task[c] \in TaskRec /\ task[c].goal = "ws" /\ task[c].idle < MaxIdleTicks
  BY DEF IInv, TasksOK, Shape
<1>2. /\ t \in TaskRec /\ t.pc = "stuck" /\ t.goal = task[c].goal /\ t.claims = task[c].claims
      /\ t.ticket = task[c].ticket /\ t.late = task[c].late /\ t.old = task[c].old
      /\ t.idle = task[c].idle
  BY <1>1 DEF TaskRec
<1> HIDE DEF t
<1> QED
  BY <1>0, <1>1, <1>2, SocketMoves

LEMMA HeartbeatStep ==
  ASSUME IInv, NEW c \in Client, Heartbeat(c)
  PROVE  IInv'
<1>0. task[c].pc = "open" /\ UNCHANGED <<now, creds, store, limiter>>
  BY DEF Heartbeat
<1>1. CASE EndSocket(c)
  BY <1>0, <1>1, EndSocketStep DEF OnSocket
<1>3. CASE GetsStuck(c)
  BY <1>0, <1>3, GetsStuckStep
<1>2. CASE ~IdleTooLong(c) /\ task' = [task EXCEPT ![c].idle = @ + 1] /\ UNCHANGED <<slots, gone>>
  <2> DEFINE t == [task[c] EXCEPT !.idle = task[c].idle + 1]
  <2>1. Becomes(c, t)
    BY <1>2 DEF Becomes
  <2>2. task[c] \in TaskRec /\ task[c].goal = "ws"
    BY <1>0 DEF IInv, TasksOK, Shape
  <2>3. /\ t \in TaskRec /\ t.pc = task[c].pc /\ t.goal = task[c].goal /\ t.claims = task[c].claims
        /\ t.ticket = task[c].ticket /\ t.late = task[c].late /\ t.old = task[c].old
        /\ t.idle = task[c].idle + 1 /\ task[c].idle \in Nat
    BY <2>2 DEF TaskRec
  <2> HIDE DEF t
  <2>4. t.idle < MaxIdleTicks
    BY <1>2, <2>3, AdmissionAssumption DEF IdleTooLong
  <2> QED
    BY <1>0, <1>2, <2>1, <2>2, <2>3, <2>4, SocketMoves
<1> QED
  BY <1>1, <1>2, <1>3 DEF Heartbeat

LEMMA RevokeStep ==
  ASSUME IInv, NEW a \in Account, Revoke(a)
  PROVE  IInv'
<1>0. UNCHANGED <<now, tokens, store, limiter, slots, task, gone>>
      /\ epoch' = [epoch EXCEPT ![a] = epoch[a] + 1]
  BY DEF Revoke
<1>1. epoch' \in [Account -> Nat] /\ \A x \in Account : epoch[x] <= epoch'[x]
  BY <1>0 DEF IInv, StoreOK
<1>2. StoreOK'
  BY <1>0, <1>1 DEF IInv, StoreOK, store
<1>3. TasksOK'
  <2>1. \A d \in Client : Backed(task[d], drawn, DOMAIN tickets, spent, epoch')
    <3> SUFFICES ASSUME NEW d \in Client PROVE Backed(task[d], drawn, DOMAIN tickets, spent, epoch')
      OBVIOUS
    <3>1. Shape(task[d]) /\ Backed(task[d], drawn, DOMAIN tickets, spent, epoch)
      BY DEF IInv, TasksOK
    <3>2. epoch \in [Account -> Nat]
      BY DEF IInv, StoreOK
    <3> QED
      BY <3>1, <3>2, <1>1, BackedStays
  <2> QED
    BY <2>1, <1>0 DEF IInv, TasksOK, store
<1>4. GateOK' /\ WindowsOK' /\ SlotsOK'
  BY <1>0 DEF IInv, GateOK, WindowsOK, SlotsOK, Bucket, LimitOf, limiter, Holders, HoldsSlot,
              OnSocket
<1> QED
  BY <1>2, <1>3, <1>4 DEF IInv

LEMMA VanishStep ==
  ASSUME IInv, NEW c \in Client, Vanish(c)
  PROVE  IInv'
<1>0. UNCHANGED <<now, creds, store, limiter, slots, task>> /\ HoldsSlot(c)
      /\ gone' = gone \cup {c}
  BY DEF Vanish, HoldsSlot
<1>1. SlotsOK'
  BY <1>0 DEF IInv, SlotsOK, Holders, HoldsSlot, OnSocket
<1>2. GateOK' /\ WindowsOK' /\ TasksOK'
  BY <1>0 DEF IInv, GateOK, WindowsOK, TasksOK, Bucket, LimitOf, limiter, creds, store
<1> QED
  BY <1>0, <1>1, <1>2, StoreStays DEF IInv

\* The clock moves on: what the table holds of the past window falls out of both.
LEMMA TickStep ==
  ASSUME IInv, Tick
  PROVE  IInv'
<1>0. /\ now < MaxTime /\ now' = now + 1
      /\ admitted' = [k \in Keys |-> Live(admitted[k], now + 1)]
      /\ UNCHANGED <<creds, store, windows, gate, blurred, slots, task, gone>>
  BY DEF Tick
<1>n. now \in Nat
  BY AdmissionAssumption DEF IInv, StoreOK
<1>1. StoreOK'
  BY <1>0, AdmissionAssumption DEF IInv, StoreOK, creds, store
<1>2. GateOK' /\ TasksOK' /\ SlotsOK'
  BY <1>0 DEF IInv, GateOK, TasksOK, SlotsOK, Holders, HoldsSlot, OnSocket, creds, store
<1>3. WindowsOK'
  <2>1. \A k \in DOMAIN windows : Bucket(windows[k])'
    <3> SUFFICES ASSUME NEW k \in DOMAIN windows PROVE Bucket(windows[k])'
      OBVIOUS
    <3>1. Bucket(windows[k])
      BY DEF IInv, WindowsOK
    <3>2. ASSUME NEW s \in windows[k] PROVE s \in Nat \X Nat /\ s[1] <= now + 1
      BY <3>1, <1>n DEF Bucket
    <3> QED
      BY <3>1, <3>2, <1>0 DEF Bucket
  <2>2. ASSUME ~blurred', NEW x \in Keys
        PROVE  /\ admitted'[x] = IF x \in DOMAIN windows THEN Live(windows[x], now + 1) ELSE {}
               /\ Cardinality(admitted'[x]) <= LimitOf(x)
    <3>1. /\ admitted[x] = IF x \in DOMAIN windows THEN Live(windows[x], now) ELSE {}
          /\ Cardinality(admitted[x]) <= LimitOf(x)
      BY <1>0, <2>2 DEF IInv, WindowsOK
    <3>2. CASE x \in DOMAIN windows
      <4>1. Bucket(windows[x])
        BY <3>2 DEF IInv, WindowsOK
      <4>2. admitted'[x] = Live(Live(windows[x], now), now + 1)
        BY <1>0, <3>1, <3>2
      <4>3. Live(Live(windows[x], now), now + 1) = Live(windows[x], now + 1)
        BY <4>1, <1>n, LiveTwice DEF Bucket
      <4>4. IsFiniteSet(admitted[x]) /\ admitted'[x] \subseteq admitted[x]
        BY <3>1, <3>2, <4>1, <4>2, LiveIsFinite DEF Bucket
      <4>5. Cardinality(admitted'[x]) <= Cardinality(admitted[x])
            /\ Cardinality(admitted'[x]) \in Nat /\ Cardinality(admitted[x]) \in Nat
        BY <4>4, FS_Subset, FS_CardinalityType
      <4> QED
        BY <3>1, <3>2, <4>2, <4>3, <4>5, LimitType
    <3>3. CASE x \notin DOMAIN windows
      <4>1. admitted'[x] = {} /\ admitted[x] = {}
        BY <1>0, <3>1, <3>3 DEF Live
      <4> QED
        BY <3>1, <3>3, <4>1
    <3> QED
      BY <3>2, <3>3
  <2>3. \A x : LimitOf(x)' = LimitOf(x)
    BY DEF LimitOf
  <2> QED
    BY <1>0, <2>1, <2>2, <2>3 DEF IInv, WindowsOK
<1> QED
  BY <1>1, <1>2, <1>3 DEF IInv

-----------------------------------------------------------------------------
(* The theorems.                                                            *)

LEMMA InitIInv ==
  ASSUME Init PROVE IInv
<1>1. TasksOK
  <2>1. task = [c \in Client |-> Idle]
    BY DEF Init
  <2>2. Shape(Idle) /\ Backed(Idle, drawn, DOMAIN tickets, spent, epoch) /\ Idle.ticket = None
    BY IdleIsFine
  <2>3. Idle \in TaskRec
    BY <2>2 DEF Shape
  <2> HIDE DEF Idle
  <2> QED
    BY <2>1, <2>2, <2>3 DEF TasksOK
<1>e. IsFiniteSet({}) /\ Cardinality({}) = 0
  BY FS_EmptySet
<1>2. StoreOK
  BY <1>e, AdmissionAssumption DEF Init, StoreOK, Empty
<1>t. \A c \in Client : task[c].pc = "idle" /\ ~HoldsSlot(c)
  BY DEF Init, Idle, HoldsSlot, OnSocket
<1>3. GateOK
  BY <1>e, <1>t, AdmissionAssumption DEF Init, GateOK, Empty
<1>4. WindowsOK
  <2>1. \A x : LimitOf(x) \in Nat
    BY LimitType
  <2>2. DOMAIN windows = {} /\ blurred = FALSE /\ \A x \in Keys : admitted[x] = {}
    BY DEF Init, Empty
  <2>3. \A x \in Keys : Cardinality(admitted[x]) <= LimitOf(x)
    <3> SUFFICES ASSUME NEW x \in Keys PROVE Cardinality(admitted[x]) <= LimitOf(x)
      OBVIOUS
    <3>1. Cardinality(admitted[x]) = 0
      BY <2>2, <1>e, Zenon
    <3>2. LimitOf(x) \in Nat
      BY <2>1
    <3> QED
      BY <3>1, <3>2
  <2> QED
    BY <2>2, <2>3 DEF WindowsOK
<1>5. SlotsOK
  <2>1. Holders = {}
    BY <1>t DEF Holders
  <2> QED
    BY <2>1, <1>e, AdmissionAssumption DEF Init, SlotsOK
<1> QED
  BY <1>1, <1>2, <1>3, <1>4, <1>5 DEF IInv

LEMMA NextIInv ==
  ASSUME IInv, [Next]_vars PROVE IInv'
<1>1. ASSUME NEW c \in Client, CheckAndRecordStatus(c) PROVE IInv'
  BY <1>1, FastPathStep, NewKeyStep, InsertStep DEF CheckAndRecordStatus
<1>2. ASSUME NEW c \in Client, Handle(c) PROVE IInv'
  BY <1>2, AuthorizeStep, IssueTokenStep DEF Handle
<1>3. ASSUME NEW c \in Client, Peers(c) PROVE IInv'
  <2>1. CASE Close(c)
    BY <2>1, EndSocketStep DEF Close
  <2> QED
    BY <1>3, <2>1, RequestStep, RedeemStep, FrameStep, ControlFrameStep, VanishStep DEF Peers
<1>4. ASSUME NEW c \in Client, Loop(c) PROVE IInv'
  <2>1. CASE SendStalls(c)
    BY <2>1, GetsStuckStep DEF SendStalls
  <2>2. CASE SendFails(c)
    BY <2>2, EndSocketStep DEF SendFails, OnSocket
  <2> QED
    BY <1>4, <2>1, <2>2, HeartbeatStep DEF Loop
<1>5. ASSUME NEW a \in Account, Revoke(a) PROVE IInv'
  BY <1>5, RevokeStep
<1>6. CASE UNCHANGED vars
  BY <1>6 DEF vars, creds, store, limiter, IInv, TasksOK, StoreOK, GateOK, WindowsOK, SlotsOK,
              Bucket, LimitOf, Holders, HoldsSlot, OnSocket
<1> QED
  BY <1>1, <1>2, <1>3, <1>4, <1>5, <1>6, SweepStep, TickStep DEF Next

THEOREM InductiveInvariant == Spec => []IInv
BY InitIInv, NextIInv, PTL DEF Spec

\* Every bound of admission holds for any number of callers and any ceilings: the key table and
\* the ticket store stay within theirs although the length is read before the insert
\* (check_and_record_status under new_key_gate, mint), no window of an account or a peer holds
\* more admissions than its budget unless a clock read was stale, and the connection slots are
\* exactly the sockets whatever way a socket ends.
THEOREM BoundsAlwaysHold == Spec => []BoundsHold
<1>1. ASSUME IInv PROVE BoundsHold
  <2>1. \A c \in Client : task[c].idle < MaxIdleTicks /\ Key(c) \in Keys
    BY <1>1, KeyInKeys DEF IInv, TasksOK, Shape
  <2>2. TypeOK
    BY <1>1, <2>1 DEF IInv, StoreOK, GateOK, WindowsOK, SlotsOK, Holders, TypeOK
  <2>3. KeySpaceBounded
    BY <1>1 DEF IInv, StoreOK, GateOK, KeySpaceBounded
  <2>4. BudgetHolds
    BY <1>1 DEF IInv, WindowsOK, BudgetHolds
  <2>5. SlotsAreSockets
    BY <1>1 DEF IInv, SlotsOK, Holders, SlotsAreSockets
  <2> QED
    BY <2>2, <2>3, <2>4, <2>5 DEF BoundsHold
<1> QED
  BY <1>1, InductiveInvariant, PTL

\* No credential is worth more than it says: a ticket opens one handshake however many present
\* it, because redeem takes it out of the store before anything else is looked at, and no
\* socket is open whose request began after the revocation of its account, or with a ticket
\* that outlived its token (admit, admit_ws_ticket read the epoch after the rate limit).
THEOREM CredentialsAlwaysHold == Spec => []CredentialsHold
<1>1. ASSUME IInv PROVE CredentialsHold
  <2>1. ASSUME NEW c \in Client
        PROVE  /\ OnSocket(c) => ~task[c].old /\ ~task[c].late
               /\ OnSocket(c) /\ task[c].ticket # None => task[c].ticket \in spent
    BY <1>1 DEF IInv, TasksOK, Shape, Backed, Held, OnSocket
  <2>2. spent \cap DOMAIN tickets = {}
    BY <1>1 DEF IInv, StoreOK
  <2>3. \A c, d \in Client : c # d /\ task[c].ticket # None => task[c].ticket # task[d].ticket
    BY <1>1 DEF IInv, TasksOK
  <2> QED
    BY <2>1, <2>2, <2>3 DEF CredentialsHold, TicketAdmitsOnce, RevokedIsRefused
<1> QED
  BY <1>1, InductiveInvariant, PTL
=============================================================================
