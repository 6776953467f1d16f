--------------------------- MODULE FixSessionProofs ---------------------------
(***************************************************************************)
(* Machine-checked facts about FixSession, for every number of             *)
(* connections, orders and sequence numbers, every bound of the resend log *)
(* and every point at which a store operation fails or the process dies.   *)
(***************************************************************************)
EXTENDS FixSession, FiniteSetTheorems, WellFoundedInduction, TLAPS

-----------------------------------------------------------------------------
(* The inductive invariant. A handler advances the counters in memory, in   *)
(* the store and in the audit trail one operation at a time, so between two *)
(* of them the properties rest on what the handler still has to do.         *)

Fsm == [phase : Phases, sender : Seq1, target : Seq1, todo : Seq(Ops),
        waits : Order \cup {None}, epoch : BOOLEAN, quietIn : BOOLEAN, probe : Probes,
        gone : BOOLEAN]
Entry == [era : 1..(MaxResets + 1), seq : Seq1]
Store == [sender : Seq1, target : Seq1, log : Seq(Entry), era : 1..(MaxResets + 1),
          resets : 0..MaxResets]

InvTypes ==
    /\ store \in Store /\ Len(store.log) <= LogLimit
    /\ lease \in Conn \cup {None}
    /\ conn \in [Conn -> Fsm]
    /\ mail \subseteq Order \X (Conn \cup {None})
    /\ journaled \subseteq Order /\ refused \subseteq Order
    /\ claimed \in [Seq1 -> Order \cup {None}] /\ revoked \in BOOLEAN

\* A connection without the lease: it has no counters and nothing to store.
Outside(f) ==
    /\ f.phase \in {"Closed", "AwaitingLogon", "Verifying", "Binding", "Closing"}
    /\ f.waits = None
    /\ f.todo = <<>> \/ f.todo = <<Close>>

\* The next operation of the handler puts the counters back.
Resetting(f) == f.todo # <<>> /\ f.todo[1].op = "reset"

\* The handler's next operation stores the reject of order k.
Rejecting(f, k) == f.todo # <<>> /\ f.todo[1].op = "emit" /\ f.todo[1].about = k

\* What the operations of a handler may be: it resets first or not at all, and consumes at most
\* one number, which the client used for no order.
TodoOK(f, cl) ==
    /\ f.waits # None => f.todo = <<>>
    /\ \A i \in 2..Len(f.todo) : f.todo[i].op # "reset"
    /\ \A i, j \in 1..Len(f.todo) : f.todo[i].op = "consume" /\ f.todo[j].op = "consume" => i = j
    /\ \A i \in 1..Len(f.todo) : f.todo[i].op = "consume" => cl[f.target] = None

\* A reset in progress: the counters in memory are those of the reset.
ResetOK(f, s) ==
    /\ s.resets < MaxResets /\ f.todo[1].target <= f.target
    /\ f.sender = s.sender \/ (f.sender = 1 /\ f.todo[1].trigger = "LogonReset")

\* Otherwise they are the stored ones, except for numbers received and not yet persisted; an
\* order among those has its answer, awaits it, or its reject is about to be stored.
CountersOK(f, s, cl, done) ==
    /\ f.sender = s.sender /\ s.target <= f.target
    /\ \A n \in s.target..(f.target - 1) : cl[n] # None =>
         cl[n] \in done \/ cl[n] = f.waits \/ Rejecting(f, cl[n])

Holder(f, s, cl, done) ==
    /\ f.phase \in {"Active", "AwaitingResend", "Closing"}
    /\ TodoOK(f, cl)
    /\ IF Resetting(f) THEN ResetOK(f, s) ELSE CountersOK(f, s, cl, done)

Done == journaled \cup refused

InvConn == \A c \in Conn : IF lease = c THEN Holder(conn[c], store, claimed, Done)
                           ELSE Outside(conn[c])

\* The connection that hears of a mutation is the one that waits for it.
InvMail == \A m \in mail : m[2] # None => lease = m[2] /\ conn[m[2]].waits = m[1]

\* No entry of the log is of a later era than the counters.
InvLog ==
    /\ store.era <= store.resets + 1
    /\ \A i \in 1..Len(store.log) : store.log[i].era <= store.era
    /\ NumbersNotReused

Inv == InvTypes /\ InvConn /\ InvMail /\ InvLog /\ ConsumedIsAnswered

-----------------------------------------------------------------------------
(* Operations and sessions.                                                 *)

LEMMA OpFacts ==
    /\ {Save, Consume, Close, Emit} \subseteq Ops
    /\ \A k \in Order \cup {None} : EmitAbout(k) \in Ops /\ EmitAbout(k).op = "emit" /\ EmitAbout(k).about = k
    /\ \A n \in Seq1, t \in {"LogonReset", "SequenceReset"} :
         /\ Reset(n, t) \in Ops /\ Reset(n, t).op = "reset"
         /\ Reset(n, t).target = n /\ Reset(n, t).trigger = t
    /\ Save.op = "save" /\ Consume.op = "consume" /\ Close.op = "close"
    /\ Emit.op = "emit" /\ Emit.about = None
    /\ \A o \in Ops : /\ o.op = "emit" => o.about \in Order \cup {None}
                      /\ o.op = "reset" => /\ o.target \in Seq1
                                           /\ o.trigger \in {"LogonReset", "SequenceReset"}
                      /\ o.op \in {"save", "consume", "close", "emit", "reset"}
<1>1. /\ {Save, Consume, Close} \subseteq Ops /\ Save.op = "save" /\ Consume.op = "consume"
      /\ Close.op = "close"
  BY DEF Save, Consume, Close, Ops
<1>2. \A k \in Order \cup {None} : EmitAbout(k) \in Ops /\ EmitAbout(k).op = "emit" /\ EmitAbout(k).about = k
  BY DEF EmitAbout, Ops
<1>3. Emit \in Ops /\ Emit.op = "emit" /\ Emit.about = None
  BY <1>2 DEF Emit
<1>4. \A n \in Seq1, t \in {"LogonReset", "SequenceReset"} :
         /\ Reset(n, t) \in Ops /\ Reset(n, t).op = "reset"
         /\ Reset(n, t).target = n /\ Reset(n, t).trigger = t
  BY DEF Reset, Ops
<1>5. ASSUME NEW o \in Ops
      PROVE  /\ o.op = "emit" => o.about \in Order \cup {None}
             /\ o.op = "reset" => /\ o.target \in Seq1
                                  /\ o.trigger \in {"LogonReset", "SequenceReset"}
             /\ o.op \in {"save", "consume", "close", "emit", "reset"}
  BY DEF Ops
<1> QED
  BY <1>1, <1>2, <1>3, <1>4, <1>5

LEMMA SeqNumbers == MaxSeq \in Nat /\ Seq1 \subseteq Nat /\ 1 \in Seq1 /\ 2 \in Seq1 /\ MaxResets \in Nat
                    /\ LogLimit \in Nat /\ LogLimit >= 1 /\ \A n \in Seq1 : n >= 1 /\ n <= MaxSeq
BY FixSessionAssumption DEF Seq1

LEMMA SeqNat ==
    ASSUME NEW n \in Seq1
    PROVE  n \in Nat /\ n >= 1 /\ n <= MaxSeq
BY FixSessionAssumption DEF Seq1

LEMMA FsmFacts ==
    ASSUME NEW f \in Fsm
    PROVE  /\ f.phase \in Phases /\ f.sender \in Seq1 /\ f.target \in Seq1 /\ f.todo \in Seq(Ops)
           /\ f.waits \in Order \cup {None} /\ f.epoch \in BOOLEAN /\ f.quietIn \in BOOLEAN
           /\ f.probe \in Probes /\ f.gone \in BOOLEAN
           /\ Len(f.todo) \in Nat /\ \A i \in 1..Len(f.todo) : f.todo[i] \in Ops
<1>1. /\ f.phase \in Phases /\ f.sender \in Seq1 /\ f.target \in Seq1 /\ f.todo \in Seq(Ops)
      /\ f.waits \in Order \cup {None} /\ f.epoch \in BOOLEAN /\ f.quietIn \in BOOLEAN
      /\ f.probe \in Probes /\ f.gone \in BOOLEAN
  BY DEF Fsm
<1>2. Len(f.todo) \in Nat /\ \A i \in 1..Len(f.todo) : f.todo[i] \in Ops
  BY <1>1
<1> QED
  BY <1>1, <1>2

\* A connection that has no session yet or no more.
LEMMA NewFacts ==
    ASSUME NEW p \in {"Closed", "AwaitingLogon"}
    PROVE  NewFsm(p) \in Fsm /\ Outside(NewFsm(p)) /\ NewFsm(p).waits = None
<1>1. <<>> \in Seq(Ops) /\ 1 \in Seq1
  BY SeqNumbers
<1> QED
  BY <1>1 DEF NewFsm, Fsm, Outside, Phases, Probes

LEMMA HeardFacts ==
    ASSUME NEW f \in Fsm
    PROVE  /\ Heard(f) \in Fsm
           /\ Heard(f).phase = f.phase /\ Heard(f).sender = f.sender /\ Heard(f).target = f.target
           /\ Heard(f).todo = f.todo /\ Heard(f).waits = f.waits
BY DEF Heard, Fsm, Probes

\* A session between two handlers: it holds the lease, its counters are the stored ones but for
\* numbers whose orders are answered, and nobody has a mutation of its under way.
Clean(c) ==
    /\ lease = c /\ conn[c] \in Fsm /\ conn[c].todo = <<>> /\ conn[c].waits = None
    /\ conn[c].phase \in {"Active", "AwaitingResend", "Closing"}
    /\ conn[c].sender = store.sender /\ store.target <= conn[c].target
    /\ \A n \in store.target..(conn[c].target - 1) : claimed[n] # None => claimed[n] \in Done
    /\ \A m \in mail : m[2] # c

LEMMA CleanFacts ==
    ASSUME InvTypes, InvConn, InvMail, NEW c \in Conn, Admitted(c), ~Busy(c)
    PROVE  Clean(c)
<1>1. conn[c] \in Fsm /\ conn[c].todo = <<>> /\ conn[c].waits = None
  BY DEF InvTypes, Busy
<1>2. lease = c
  BY DEF InvConn, Outside, Admitted
<1>3. Holder(conn[c], store, claimed, Done)
  BY <1>2 DEF InvConn
<1>4. /\ conn[c].phase \in {"Active", "AwaitingResend", "Closing"}
      /\ CountersOK(conn[c], store, claimed, Done)
  BY <1>1, <1>3 DEF Holder, Resetting
<1>5. \A m \in mail : m[2] # c
  <2>1. ASSUME NEW m \in mail, m[2] = c PROVE FALSE
    <3>1. m[1] \in Order /\ m[2] # None
      BY <2>1, FixSessionAssumption DEF InvTypes
    <3> QED
      BY <1>1, <2>1, <3>1, FixSessionAssumption DEF InvMail
  <2> QED
    BY <2>1
<1>6. \A n \in store.target..(conn[c].target - 1) : claimed[n] # None => claimed[n] \in Done
  BY <1>1, <1>4 DEF CountersOK, Rejecting
<1> QED
  BY <1>1, <1>2, <1>4, <1>5, <1>6 DEF Clean, CountersOK

-----------------------------------------------------------------------------
(* Steps of one connection.                                                 *)

\* The session of c moves and the others stay: what remains to be shown is about c.
LEMMA OneMoves ==
    ASSUME InvTypes, InvConn, NEW c \in Conn, NEW f \in Fsm, conn' = [conn EXCEPT ![c] = f], lease' = lease,
           IF lease = c THEN Holder(f, store', claimed', Done')
           ELSE Outside(f) /\ UNCHANGED <<store, claimed, journaled, refused>>
    PROVE  InvConn' /\ conn' \in [Conn -> Fsm] /\ conn'[c] = f /\ \A d \in Conn : d # c => conn'[d] = conn[d]
<1>1. conn \in [Conn -> Fsm]
  BY DEF InvTypes
<1>2. conn' \in [Conn -> Fsm] /\ conn'[c] = f /\ \A d \in Conn : d # c => conn'[d] = conn[d]
  BY <1>1
<1>3. ASSUME NEW d \in Conn
      PROVE  IF lease' = d THEN Holder(conn'[d], store', claimed', Done') ELSE Outside(conn'[d])
  <2>1. CASE d = c
    BY <1>2, <2>1
  <2>2. CASE d # c /\ lease = d
    <3>1. UNCHANGED <<store, claimed, journaled, refused>> /\ Done' = Done
      BY <2>2 DEF Done
    <3>2. Holder(conn[d], store, claimed, Done)
      BY <2>2 DEF InvConn
    <3> QED
      BY <1>2, <2>2, <3>1, <3>2
  <2>3. CASE d # c /\ lease # d
    BY <1>2, <2>3 DEF InvConn
  <2> QED
    BY <2>1, <2>2, <2>3
<1>4. InvConn'
  BY <1>3 DEF InvConn
<1> QED
  BY <1>2, <1>4

\* The connection's task ends, and the lease with it.
LEMMA DropStep ==
    ASSUME Inv, NEW c \in Conn, Drop(c), UNCHANGED <<store, journaled, refused, claimed, revoked>>
    PROVE  Inv'
<1>1. InvTypes /\ InvConn /\ InvMail /\ InvLog /\ ConsumedIsAnswered
  BY DEF Inv
<1>2. /\ conn \in [Conn -> Fsm] /\ lease \in Conn \cup {None}
      /\ mail \subseteq Order \X (Conn \cup {None})
  BY <1>1 DEF InvTypes
<1>3. NewFsm("Closed") \in Fsm /\ Outside(NewFsm("Closed"))
  BY NewFacts
<1>4. /\ conn' \in [Conn -> Fsm] /\ conn'[c] = NewFsm("Closed")
      /\ \A d \in Conn : d # c => conn'[d] = conn[d]
  BY <1>2, <1>3 DEF Drop
<1>5. lease' \in Conn \cup {None} /\ lease' # c /\ \A d \in Conn : d # c => (lease' = d <=> lease = d)
  BY <1>2, FixSessionAssumption DEF Drop
<1>6. ASSUME NEW d \in Conn
      PROVE  IF lease' = d THEN Holder(conn'[d], store', claimed', Done') ELSE Outside(conn'[d])
  <2>1. CASE d = c
    BY <1>3, <1>4, <1>5, <2>1
  <2>2. CASE d # c
    <3>1. Done' = Done /\ store' = store /\ claimed' = claimed
      BY DEF Done
    <3>2. IF lease = d THEN Holder(conn[d], store, claimed, Done) ELSE Outside(conn[d])
      BY <1>1 DEF InvConn
    <3> QED
      BY <1>4, <1>5, <2>2, <3>1, <3>2
  <2> QED
    BY <2>1, <2>2
<1>7. ASSUME NEW m \in mail'
      PROVE  /\ m \in Order \X (Conn \cup {None})
             /\ m[2] # None => lease' = m[2] /\ conn'[m[2]].waits = m[1]
  <2>1. PICK o \in mail : m = IF o[2] = c THEN <<o[1], None>> ELSE o
    BY DEF Drop
  <2>2. o \in Order \X (Conn \cup {None}) /\ o[1] \in Order /\ o[2] \in Conn \cup {None}
    BY <1>2
  <2>3. CASE o[2] = c
    BY <2>1, <2>2, <2>3
  <2>4. CASE o[2] # c
    <3>1. m = o
      BY <2>1, <2>4
    <3>2. o[2] # None => lease = o[2] /\ conn[o[2]].waits = o[1]
      BY <1>1 DEF InvMail
    <3> QED
      BY <1>4, <1>5, <2>2, <2>4, <3>1, <3>2
  <2> QED
    BY <2>3, <2>4
<1>8. InvTypes'
  BY <1>1, <1>4, <1>5, <1>7 DEF InvTypes
<1>9. InvConn' /\ InvMail'
  BY <1>6, <1>7 DEF InvConn, InvMail
<1>10. InvLog' /\ ConsumedIsAnswered'
  BY <1>1 DEF InvLog, NumbersNotReused, ConsumedIsAnswered
<1> QED
  BY <1>8, <1>9, <1>10 DEF Inv

\* A step that leaves the counters, the operations and the phases of all sessions alone.
LEMMA Unmoved ==
    ASSUME Inv, conn' \in [Conn -> Fsm], UNCHANGED <<store, lease, mail, journaled, refused, claimed>>,
           revoked' \in BOOLEAN,
           \A c \in Conn : /\ conn'[c].phase = conn[c].phase /\ conn'[c].sender = conn[c].sender
                           /\ conn'[c].target = conn[c].target /\ conn'[c].todo = conn[c].todo
                           /\ conn'[c].waits = conn[c].waits
    PROVE  Inv'
<1>1. InvTypes /\ InvConn /\ InvMail /\ InvLog /\ ConsumedIsAnswered
  BY DEF Inv
<1>2. Done' = Done
  BY DEF Done
<1>3. ASSUME NEW c \in Conn
      PROVE  IF lease' = c THEN Holder(conn'[c], store', claimed', Done') ELSE Outside(conn'[c])
  <2>1. IF lease = c THEN Holder(conn[c], store, claimed, Done) ELSE Outside(conn[c])
    BY <1>1 DEF InvConn
  <2>2. CASE lease = c
    <3>1. Holder(conn[c], store, claimed, Done)
      BY <2>1, <2>2
    <3>2. TodoOK(conn'[c], claimed) <=> TodoOK(conn[c], claimed)
      BY DEF TodoOK
    <3>3. Resetting(conn'[c]) <=> Resetting(conn[c])
      BY DEF Resetting
    <3>4. ResetOK(conn'[c], store) <=> ResetOK(conn[c], store)
      BY DEF ResetOK
    <3>5. CountersOK(conn'[c], store, claimed, Done) <=> CountersOK(conn[c], store, claimed, Done)
      BY DEF CountersOK, Rejecting
    <3>6. Holder(conn'[c], store, claimed, Done)
      BY <3>1, <3>2, <3>3, <3>4, <3>5 DEF Holder
    <3> QED
      BY <1>2, <2>2, <3>6
  <2>3. CASE lease # c
    BY <2>1, <2>3 DEF Outside
  <2> QED
    BY <2>2, <2>3
<1>4. InvConn'
  BY <1>3 DEF InvConn
<1>5. InvMail'
  <2>1. ASSUME NEW m \in mail, m[2] # None PROVE lease = m[2] /\ conn'[m[2]].waits = m[1]
    <3>1. lease = m[2] /\ conn[m[2]].waits = m[1] /\ m[2] \in Conn
      BY <1>1, <2>1 DEF InvMail, InvTypes
    <3> QED
      BY <3>1
  <2> QED
    BY <2>1 DEF InvMail
<1>6. InvTypes'
  BY <1>1 DEF InvTypes
<1>7. InvLog' /\ ConsumedIsAnswered'
  BY <1>1 DEF InvLog, NumbersNotReused, ConsumedIsAnswered
<1> QED
  BY <1>4, <1>5, <1>6, <1>7 DEF Inv

\* A connection without the lease moves.
LEMMA OutsideMoves ==
    ASSUME Inv, NEW c \in Conn, lease # c, NEW f \in Fsm, Outside(f), conn' = [conn EXCEPT ![c] = f],
           UNCHANGED <<store, lease, mail, journaled, refused, claimed, revoked>>
    PROVE  Inv'
<1>1. InvTypes /\ InvConn /\ InvMail /\ InvLog /\ ConsumedIsAnswered
  BY DEF Inv
<1>2. InvConn' /\ conn' \in [Conn -> Fsm] /\ \A d \in Conn : d # c => conn'[d] = conn[d]
  BY <1>1, OneMoves
<1>3. InvTypes'
  BY <1>1, <1>2 DEF InvTypes
<1>4. InvMail'
  BY <1>1, <1>2 DEF InvMail, InvTypes
<1>5. InvLog' /\ ConsumedIsAnswered'
  BY <1>1 DEF InvLog, NumbersNotReused, ConsumedIsAnswered
<1> QED
  BY <1>2, <1>3, <1>4, <1>5 DEF Inv

\* A handler begins: what it makes of the session in memory, and of the client's numbers.
LEMMA Handled ==
    ASSUME Inv, NEW c \in Conn, Clean(c), NEW g \in Fsm, conn' = [conn EXCEPT ![c] = g],
           UNCHANGED <<store, lease, journaled, refused, revoked>>,
           claimed' \in [Seq1 -> Order \cup {None}],
           \A n \in Seq1 : n < store.target => claimed'[n] \in {None, claimed[n]},
           Holder(g, store, claimed', Done),
           mail' = mail \/ (g.waits # None /\ mail' = mail \cup {<<g.waits, c>>})
    PROVE  Inv'
<1>1. InvTypes /\ InvConn /\ InvMail /\ InvLog /\ ConsumedIsAnswered
  BY DEF Inv
<1>2. lease = c /\ \A m \in mail : m[2] # c
  BY DEF Clean
<1>3. Done' = Done /\ store' = store
  BY DEF Done
<1>4. /\ InvConn' /\ conn' \in [Conn -> Fsm] /\ conn'[c] = g
      /\ \A d \in Conn : d # c => conn'[d] = conn[d]
  <2>1. IF lease = c THEN Holder(g, store', claimed', Done')
        ELSE Outside(g) /\ UNCHANGED <<store, claimed, journaled, refused>>
    BY <1>2, <1>3
  <2> QED
    BY <1>1, <2>1, OneMoves
<1>5. ASSUME NEW m \in mail'
      PROVE  /\ m \in Order \X (Conn \cup {None})
             /\ m[2] # None => lease' = m[2] /\ conn'[m[2]].waits = m[1]
  <2>1. CASE m \in mail
    <3>1. m[2] = None
      BY <1>1, <1>2, <2>1 DEF InvMail
    <3> QED
      BY <1>1, <2>1, <3>1 DEF InvTypes
  <2>2. CASE g.waits # None /\ m = <<g.waits, c>>
    <3>1. g.waits \in Order
      BY <2>2, FsmFacts
    <3> QED
      BY <1>2, <1>4, <2>2, <3>1
  <2> QED
    BY <2>1, <2>2
<1>6. InvTypes'
  BY <1>1, <1>4, <1>5 DEF InvTypes
<1>7. InvMail'
  BY <1>5 DEF InvMail
<1>8. InvLog'
  BY <1>1 DEF InvLog, NumbersNotReused
<1>9. ConsumedIsAnswered'
  BY <1>1, <1>3 DEF ConsumedIsAnswered, Done
<1> QED
  BY <1>4, <1>6, <1>7, <1>8, <1>9 DEF Inv

\* A handler that leaves both counters in memory alone before its first operation.
LEMMA PlainHandled ==
    ASSUME Inv, NEW c \in Conn, Clean(c), NEW g \in Fsm, conn' = [conn EXCEPT ![c] = g],
           UNCHANGED <<store, lease, mail, journaled, refused, claimed, revoked>>,
           g.phase \in {"Active", "AwaitingResend", "Closing"}, g.waits = None,
           g.sender = conn[c].sender, g.target = conn[c].target,
           \A i \in 1..Len(g.todo) : g.todo[i].op # "reset",
           \A i, j \in 1..Len(g.todo) : g.todo[i].op = "consume" /\ g.todo[j].op = "consume" => i = j,
           \A i \in 1..Len(g.todo) : g.todo[i].op = "consume" => claimed[conn[c].target] = None
    PROVE  Inv'
<1>1. g.todo \in Seq(Ops) /\ Len(g.todo) \in Nat
  BY FsmFacts
<1>2. ~Resetting(g)
  BY <1>1 DEF Resetting
<1>3. TodoOK(g, claimed)
  BY <1>1 DEF TodoOK
<1>4. CountersOK(g, store, claimed, Done)
  BY DEF Clean, CountersOK
<1>5. Holder(g, store, claimed', Done)
  BY <1>2, <1>3, <1>4 DEF Holder
<1>6. claimed' \in [Seq1 -> Order \cup {None}] /\ \A n \in Seq1 : claimed'[n] \in {None, claimed[n]}
  BY DEF Inv, InvTypes
<1> QED
  BY <1>5, <1>6, Handled

\* The lists of operations that those handlers write.
Lists == {<<>>, <<Emit>>, <<Emit, Close>>, <<Emit, Emit>>, <<Emit, Emit, Close>>}
Reads == {<<Consume>>, <<Emit, Consume>>, <<Consume, Emit>>, <<Emit, Consume, Close>>}

LEMMA ListFacts ==
    ASSUME NEW q \in Lists \cup Reads
    PROVE  /\ q \in Seq(Ops) /\ \A i \in 1..Len(q) : q[i].op # "reset"
           /\ \A i, j \in 1..Len(q) : q[i].op = "consume" /\ q[j].op = "consume" => i = j
           /\ q \in Lists => \A i \in 1..Len(q) : q[i].op # "consume"
<1>1. /\ Emit \in Ops /\ Consume \in Ops /\ Close \in Ops
      /\ Emit.op = "emit" /\ Consume.op = "consume" /\ Close.op = "close"
  BY OpFacts
<1> HIDE DEF Emit, Consume, Close, Ops
<1>2. CASE q \in {<<>>, <<Emit>>, <<Emit, Close>>, <<Emit, Emit>>, <<Emit, Emit, Close>>}
  <2>1. CASE q = <<>>
    BY <2>1
  <2>2. CASE q = <<Emit>>
    BY <1>1, <2>2
  <2>3. CASE q = <<Emit, Close>>
    BY <1>1, <2>3
  <2>4. CASE q = <<Emit, Emit>>
    BY <1>1, <2>4
  <2>5. CASE q = <<Emit, Emit, Close>>
    BY <1>1, <2>5
  <2> QED
    BY <1>2, <2>1, <2>2, <2>3, <2>4, <2>5
<1>3. CASE q \in {<<Consume>>, <<Emit, Consume>>, <<Consume, Emit>>, <<Emit, Consume, Close>>}
  <2>1. CASE q = <<Consume>>
    BY <1>1, <2>1 DEF Lists
  <2>2. CASE q = <<Emit, Consume>>
    BY <1>1, <2>2 DEF Lists
  <2>3. CASE q = <<Consume, Emit>>
    BY <1>1, <2>3 DEF Lists
  <2>4. CASE q = <<Emit, Consume, Close>>
    BY <1>1, <2>4 DEF Lists
  <2> QED
    BY <1>3, <2>1, <2>2, <2>3, <2>4
<1> QED
  BY <1>2, <1>3 DEF Lists, Reads

\* One step per handler that leaves the counters in memory alone.
LEMMA PlainStep ==
    ASSUME Inv, NEW c \in Conn,
           \/ Gap(c) \/ Duplicate(c) \/ Malformed(c) \/ DropRevoked(c)
           \/ Quiet(c) \/ Answered(c) \/ Read(c) \/ Logout(c)
    PROVE  Inv'
<1> DEFINE f == conn[c]
<1>1. Clean(c)
  <2>1. Admitted(c) /\ ~Busy(c)
    BY DEF Gap, Duplicate, Malformed, DropRevoked, Quiet, Answered, Read, Logout, Handle, Listening
  <2> QED
    BY <2>1, CleanFacts DEF Inv
<1>2. f \in Fsm /\ f.todo = <<>> /\ f.waits = None /\ f.phase \in {"Active", "AwaitingResend", "Closing"}
  BY <1>1 DEF Clean
<1>3. /\ Heard(f) \in Fsm /\ Heard(f).phase = f.phase /\ Heard(f).sender = f.sender
      /\ Heard(f).target = f.target /\ Heard(f).todo = f.todo /\ Heard(f).waits = f.waits
  BY <1>2, HeardFacts
<1> HIDE DEF f
<1>4. ASSUME NEW h \in Fsm, NEW p \in {"Active", "AwaitingResend", "Closing"},
             NEW q \in Lists \cup Reads, q \in Reads => claimed[f.target] = None,
             h.sender = f.sender, h.target = f.target, h.waits = None,
             conn' = [conn EXCEPT ![c] = [h EXCEPT !.phase = p, !.todo = q]],
             UNCHANGED <<store, lease, mail, journaled, refused, claimed, revoked>>
      PROVE  Inv'
  <2> DEFINE g == [h EXCEPT !.phase = p, !.todo = q]
  <2>1. /\ q \in Seq(Ops) /\ \A i \in 1..Len(q) : q[i].op # "reset"
        /\ \A i, j \in 1..Len(q) : q[i].op = "consume" /\ q[j].op = "consume" => i = j
        /\ \A i \in 1..Len(q) : q[i].op = "consume" => claimed[f.target] = None
    BY <1>4, ListFacts
  <2>2. /\ g \in Fsm /\ g.phase = p /\ g.todo = q /\ g.sender = f.sender /\ g.target = f.target
        /\ g.waits = None
    BY <1>4, <2>1 DEF Fsm, Phases
  <2> HIDE DEF g
  <2>3. conn' = [conn EXCEPT ![c] = g]
    BY <1>4 DEF g
  <2>4. /\ g \in Fsm
        /\ conn' = [conn EXCEPT ![c] = g]
        /\ g.phase \in {"Active", "AwaitingResend", "Closing"} /\ g.waits = None
        /\ g.sender = conn[c].sender /\ g.target = conn[c].target
        /\ \A i \in 1..Len(g.todo) : g.todo[i].op # "reset"
        /\ \A i, j \in 1..Len(g.todo) :
             g.todo[i].op = "consume" /\ g.todo[j].op = "consume" => i = j
        /\ \A i \in 1..Len(g.todo) : g.todo[i].op = "consume" => claimed[conn[c].target] = None
    BY <1>4, <2>1, <2>2, <2>3 DEF f
  <2>5. UNCHANGED <<store, lease, mail, journaled, refused, claimed, revoked>>
    BY <1>4
  <2> QED
    BY <1>1, <2>4, <2>5, PlainHandled
<1>5. CASE Gap(c)
  <2>1. /\ conn' = [conn EXCEPT ![c] = [Heard(f) EXCEPT !.phase = "AwaitingResend", !.todo = <<Emit>>]]
        /\ UNCHANGED <<store, lease, mail, journaled, refused, claimed, revoked>>
    BY <1>5 DEF Gap, Handle, f
  <2>2. <<Emit>> \in Lists /\ <<Emit>> \notin Reads
    BY OpFacts DEF Lists, Reads
  <2> QED
    BY <1>2, <1>3, <1>4, <2>1, <2>2
<1>6. CASE Duplicate(c)
  <2>1. /\ conn' = [conn EXCEPT ![c] = Heard(f)]
        /\ UNCHANGED <<store, lease, mail, journaled, refused, claimed, revoked>>
    BY <1>6 DEF Duplicate, Handle, f
  <2>2. Len(Heard(f).todo) = 0
    BY <1>2, <1>3
  <2> DEFINE g == Heard(f)
  <2>3. /\ g \in Fsm
        /\ conn' = [conn EXCEPT ![c] = g]
        /\ g.phase \in {"Active", "AwaitingResend", "Closing"} /\ g.waits = None
        /\ g.sender = conn[c].sender /\ g.target = conn[c].target
        /\ \A i \in 1..Len(g.todo) : g.todo[i].op # "reset"
        /\ \A i, j \in 1..Len(g.todo) :
             g.todo[i].op = "consume" /\ g.todo[j].op = "consume" => i = j
        /\ \A i \in 1..Len(g.todo) : g.todo[i].op = "consume" => claimed[conn[c].target] = None
    BY <1>2, <1>3, <2>1, <2>2 DEF f
  <2> HIDE DEF g
  <2> QED
    BY <1>1, <2>1, <2>3, PlainHandled
<1>7. CASE Malformed(c)
  <2>1. /\ conn' = [conn EXCEPT ![c] = [f EXCEPT !.todo = <<Emit>>]]
        /\ UNCHANGED <<store, lease, mail, journaled, refused, claimed, revoked>>
    BY <1>7 DEF Malformed, Handle, f
  <2>2. <<Emit>> \in Lists /\ <<Emit>> \notin Reads
    BY OpFacts DEF Lists, Reads
  <2>3. [f EXCEPT !.todo = <<Emit>>] = [f EXCEPT !.phase = f.phase, !.todo = <<Emit>>]
    BY <1>2 DEF Fsm
  <2> QED
    BY <1>2, <1>4, <2>1, <2>2, <2>3
<1>8. CASE DropRevoked(c)
  <2>1. /\ conn' = [conn EXCEPT ![c] = [Heard(f) EXCEPT !.phase = "Closing", !.todo = <<Emit, Close>>]]
        /\ UNCHANGED <<store, lease, mail, journaled, refused, claimed, revoked>>
    BY <1>8 DEF DropRevoked, Handle, f
  <2>2. <<Emit, Close>> \in Lists /\ <<Emit, Close>> \notin Reads
    BY OpFacts DEF Lists, Reads
  <2> QED
    BY <1>2, <1>3, <1>4, <2>1, <2>2
<1>9. CASE Quiet(c) \/ Answered(c) \/ Read(c)
  <2>1. PICK q \in Reads :
          /\ conn' = [conn EXCEPT ![c] = [Heard(f) EXCEPT !.todo = q]]
          /\ UNCHANGED <<store, lease, mail, journaled, refused, claimed, revoked>>
    BY <1>9 DEF Quiet, Answered, Read, Handle, f, Reads
  <2>2. claimed[f.target] = None
    BY <1>9 DEF Quiet, Answered, Read, InOrder, f
  <2>3. [Heard(f) EXCEPT !.todo = q] = [Heard(f) EXCEPT !.phase = f.phase, !.todo = q]
    BY <1>3 DEF Fsm
  <2> QED
    BY <1>2, <1>3, <1>4, <2>1, <2>2, <2>3
<1>10. CASE Logout(c)
  <2>1. /\ conn' = [conn EXCEPT ![c] = [Heard(f) EXCEPT !.phase = "Closing",
                                                        !.todo = <<Emit, Consume, Close>>]]
        /\ UNCHANGED <<store, lease, mail, journaled, refused, claimed, revoked>>
        /\ claimed[f.target] = None
    BY <1>10 DEF Logout, Handle, InOrder, f
  <2>2. <<Emit, Consume, Close>> \in Reads
    BY DEF Reads
  <2> QED
    BY <1>2, <1>3, <1>4, <2>1, <2>2
<1> QED
  BY <1>5, <1>6, <1>7, <1>8, <1>9, <1>10

LEMMA ResumedFacts ==
    ASSUME NEW p \in {"Active", "AwaitingResend", "Closing"}
    PROVE  Resumed(p) \in {"Active", "AwaitingResend", "Closing"} /\ Resumed(p) \in Phases
BY DEF Resumed, Phases

\* One step per handler that moves the expectation.
LEMMA MovingStep ==
    ASSUME Inv, NEW c \in Conn,
           \/ \E n \in Seq1 : GapFill(c, n) \/ SequenceReset(c, n)
           \/ \E k \in Order : RouteOrder(c, k) \/ RefuseOrder(c, k)
    PROVE  Inv'
<1> DEFINE f == conn[c]
<1>1. Clean(c)
  <2>1. Admitted(c) /\ ~Busy(c)
    BY DEF GapFill, SequenceReset, RouteOrder, RefuseOrder, Handle, Listening
  <2> QED
    BY <2>1, CleanFacts DEF Inv
<1>2. /\ f \in Fsm /\ f.todo = <<>> /\ f.waits = None /\ f.phase \in {"Active", "AwaitingResend", "Closing"}
      /\ f.sender = store.sender /\ store.target <= f.target
      /\ \A n \in store.target..(f.target - 1) : claimed[n] # None => claimed[n] \in Done
  BY <1>1 DEF Clean
<1>3. /\ Heard(f) \in Fsm /\ Heard(f).phase = f.phase /\ Heard(f).sender = f.sender
      /\ Heard(f).target = f.target /\ Heard(f).todo = f.todo /\ Heard(f).waits = f.waits
  BY <1>2, HeardFacts
<1>4. /\ store.target \in Seq1 /\ claimed \in [Seq1 -> Order \cup {None}] /\ store.sender \in Seq1
      /\ store.resets \in 0..MaxResets
  BY DEF Inv, InvTypes, Store
<1>5. f.target \in Seq1 /\ f.sender \in Seq1 /\ MaxSeq \in Nat /\ Seq1 = 1..MaxSeq /\ store.target \in Nat
  BY <1>2, <1>4, SeqNumbers, FsmFacts DEF Seq1
<1>6. Resumed(f.phase) \in {"Active", "AwaitingResend", "Closing"} /\ Resumed(f.phase) \in Phases
  BY <1>2, ResumedFacts
<1> HIDE DEF f
<1>7. ASSUME NEW new \in Seq1, GapFill(c, new) PROVE Inv'
  <2> DEFINE h == Heard(f)
             g == IF Forward(f, new) THEN [h EXCEPT !.target = new, !.todo = <<Save>>, !.phase = Resumed(@)]
                  ELSE h
  <2>1. /\ conn' = [conn EXCEPT ![c] = g] /\ mail' = mail
        /\ UNCHANGED <<store, lease, journaled, refused, revoked>>
        /\ claimed' = [n \in Seq1 |-> IF n \in f.target..(new - 1) THEN None ELSE claimed[n]]
    BY <1>7 DEF GapFill, Handle, f
  <2>2. claimed' \in [Seq1 -> Order \cup {None}] /\ \A n \in Seq1 : claimed'[n] \in {None, claimed[n]}
    BY <1>4, <2>1
  <2>3. <<Save>> \in Seq(Ops) /\ Len(<<Save>>) = 1 /\ <<Save>>[1].op = "save"
    BY OpFacts
  <2>4. CASE Forward(f, new)
    <3>1. /\ g \in Fsm /\ g.target = new /\ g.todo = <<Save>> /\ g.phase = Resumed(f.phase)
          /\ g.sender = f.sender /\ g.waits = None /\ new >= f.target
      BY <1>2, <1>3, <1>6, <2>3, <2>4 DEF Fsm, Forward
    <3> HIDE DEF g
    <3>2. TodoOK(g, claimed') /\ ~Resetting(g)
      BY <2>3, <3>1 DEF TodoOK, Resetting
    <3>3. CountersOK(g, store, claimed', Done)
      <4>1. store.target <= new /\ new \in Nat
        BY <1>2, <1>4, <1>5, <3>1
      <4>2. ASSUME NEW n \in store.target..(new - 1), claimed'[n] # None PROVE claimed'[n] \in Done
        <5>1. n \in Seq1 /\ n \in Nat
          BY <1>4, <1>5, <4>1, <4>2, SeqNumbers
        <5>2. n \notin f.target..(new - 1) /\ claimed'[n] = claimed[n]
          BY <2>1, <4>2, <5>1
        <5>3. n \in store.target..(f.target - 1)
          BY <1>5, <4>1, <4>2, <5>1, <5>2
        <5> QED
          BY <1>2, <4>2, <5>2, <5>3
      <4> QED
        BY <1>2, <3>1, <4>1, <4>2 DEF CountersOK
    <3>4. Holder(g, store, claimed', Done)
      BY <1>6, <3>1, <3>2, <3>3 DEF Holder
    <3> QED
      BY <1>1, <2>1, <2>2, <3>1, <3>4, Handled
  <2>5. CASE ~Forward(f, new)
    <3>1. /\ g \in Fsm /\ g.target = f.target /\ g.todo = <<>> /\ g.phase = f.phase
          /\ g.sender = f.sender /\ g.waits = None
      BY <1>2, <1>3, <2>5
    <3> HIDE DEF g
    <3>2. TodoOK(g, claimed') /\ ~Resetting(g)
      BY <3>1 DEF TodoOK, Resetting
    <3>3. \A n \in Seq1 : claimed'[n] # None => claimed'[n] = claimed[n]
      BY <2>2
    <3>4. CountersOK(g, store, claimed', Done)
      <4>1. \A n \in store.target..(f.target - 1) : n \in Seq1
        BY <1>4, <1>5
      <4> QED
        BY <1>2, <3>1, <3>3, <4>1 DEF CountersOK
    <3>5. Holder(g, store, claimed', Done)
      BY <1>2, <3>1, <3>2, <3>4 DEF Holder
    <3> QED
      BY <1>1, <2>1, <2>2, <3>1, <3>5, Handled
  <2> QED
    BY <2>4, <2>5
<1>8. ASSUME NEW new \in Seq1, SequenceReset(c, new) PROVE Inv'
  <2> DEFINE h == Heard(f)
             op == Reset(new, "SequenceReset")
             g == [h EXCEPT !.target = new, !.phase = Resumed(@), !.todo = <<op>>]
  <2>1. /\ conn' = [conn EXCEPT ![c] = g] /\ mail' = mail
        /\ UNCHANGED <<store, lease, journaled, refused, revoked>>
        /\ claimed' = claimed /\ store.resets < MaxResets
    BY <1>8 DEF SequenceReset, Handle, f
  <2>2. op \in Ops /\ op.op = "reset" /\ op.target = new /\ op.trigger = "SequenceReset"
    BY OpFacts
  <2> HIDE DEF op
  <2>3. <<op>> \in Seq(Ops) /\ Len(<<op>>) = 1 /\ <<op>>[1] = op /\ <<op>> # <<>>
    BY <2>2
  <2>4. /\ g \in Fsm /\ g.target = new /\ g.todo = <<op>> /\ g.phase = Resumed(f.phase)
        /\ g.sender = f.sender /\ g.waits = None
    BY <1>2, <1>3, <1>6, <2>3 DEF Fsm
  <2> HIDE DEF g
  <2>5. TodoOK(g, claimed') /\ Resetting(g)
    BY <2>2, <2>3, <2>4 DEF TodoOK, Resetting
  <2>6. ResetOK(g, store)
    <3>1. new <= new
      BY SeqNumbers
    <3> QED
      BY <1>2, <2>1, <2>2, <2>3, <2>4, <3>1 DEF ResetOK
  <2>7. Holder(g, store, claimed', Done)
    BY <1>6, <2>4, <2>5, <2>6 DEF Holder
  <2>8. claimed' \in [Seq1 -> Order \cup {None}] /\ \A n \in Seq1 : claimed'[n] \in {None, claimed[n]}
    BY <1>4, <2>1
  <2> QED
    BY <1>1, <2>1, <2>4, <2>7, <2>8, Handled
<1>9. ASSUME NEW k \in Order, NextIn(c, k), NEW g \in Fsm, g.target = f.target + 1,
             g.sender = f.sender, g.phase = Resumed(f.phase),
             \/ g.waits = k /\ g.todo = <<>>
             \/ g.waits = None /\ g.todo = <<EmitAbout(k)>>
      PROVE  /\ Holder(g, store, claimed', Done) /\ claimed' \in [Seq1 -> Order \cup {None}]
             /\ \A n \in Seq1 : n < store.target => claimed'[n] \in {None, claimed[n]}
  <2>1. claimed' = [claimed EXCEPT ![f.target] = k]
    BY <1>9 DEF NextIn, f
  <2>2. /\ claimed' \in [Seq1 -> Order \cup {None}] /\ claimed'[f.target] = k
        /\ \A n \in Seq1 : n # f.target => claimed'[n] = claimed[n]
    BY <1>4, <1>5, <2>1
  <2>3. \A n \in Seq1 : n < store.target => claimed'[n] \in {None, claimed[n]}
    BY <1>2, <1>5, <2>2
  <2>4. EmitAbout(k) \in Ops /\ EmitAbout(k).op = "emit" /\ EmitAbout(k).about = k
    BY OpFacts
  <2>5. TodoOK(g, claimed') /\ ~Resetting(g) /\ (g.waits = k \/ Rejecting(g, k))
    <3>1. CASE g.waits = k /\ g.todo = <<>>
      BY <3>1 DEF TodoOK, Resetting
    <3>2. CASE g.waits = None /\ g.todo = <<EmitAbout(k)>>
      <4> DEFINE e == EmitAbout(k)
      <4>1. Len(g.todo) = 1 /\ g.todo[1] = e /\ g.todo # <<>>
        BY <2>4, <3>2
      <4> HIDE DEF e
      <4>2. e.op = "emit" /\ e.about = k
        BY <2>4 DEF e
      <4> QED
        BY <3>2, <4>1, <4>2 DEF TodoOK, Resetting, Rejecting
    <3> QED
      BY <1>9, <3>1, <3>2
  <2>6. CountersOK(g, store, claimed', Done)
    <3>1. store.target <= f.target + 1
      BY <1>2, <1>5
    <3>2. ASSUME NEW n \in store.target..(f.target + 1 - 1), claimed'[n] # None
          PROVE  claimed'[n] \in Done \/ claimed'[n] = g.waits \/ Rejecting(g, claimed'[n])
      <4>1. CASE n = f.target
        BY <2>2, <2>5, <4>1
      <4>2. CASE n # f.target
        <5>1. n \in Seq1 /\ n \in store.target..(f.target - 1)
          BY <1>4, <1>5, <3>2, <4>2
        <5> QED
          BY <1>2, <2>2, <3>2, <4>2, <5>1
      <4> QED
        BY <4>1, <4>2
    <3>3. g.target = f.target + 1
      BY <1>9
    <3>4. /\ \A n \in store.target..(g.target - 1) : claimed'[n] # None =>
               claimed'[n] \in Done \/ claimed'[n] = g.waits \/ Rejecting(g, claimed'[n])
      <4>1. g.target - 1 = f.target + 1 - 1
        BY <1>5, <3>3, SeqNumbers
      <4> QED
        BY <3>2, <4>1, Zenon
    <3>5. g.sender = store.sender /\ store.target <= g.target
      BY <1>2, <1>9, <3>1, <3>3
    <3> QED
      BY <3>4, <3>5 DEF CountersOK
  <2>7. Holder(g, store, claimed', Done)
    BY <1>6, <1>9, <2>5, <2>6 DEF Holder
  <2> QED
    BY <2>2, <2>3, <2>7
<1>10. ASSUME NEW k \in Order, RouteOrder(c, k) PROVE Inv'
  <2> DEFINE h == Heard(f)
             g == [h EXCEPT !.target = @ + 1, !.phase = Resumed(@), !.waits = k, !.todo = <<>>]
  <2>1. /\ conn' = [conn EXCEPT ![c] = g] /\ mail' = mail \cup {<<k, c>>} /\ NextIn(c, k)
        /\ UNCHANGED <<store, lease, journaled, refused, revoked>> /\ f.target < MaxSeq
    BY <1>10 DEF RouteOrder, Handle, Deferred, NextIn, f
  <2>2. f.target + 1 \in Seq1 /\ <<>> \in Seq(Ops)
    BY <1>5, <2>1
  <2>3. /\ g \in Fsm /\ g.target = f.target + 1 /\ g.todo = <<>> /\ g.phase = Resumed(f.phase)
        /\ g.sender = f.sender /\ g.waits = k
    BY <1>3, <1>6, <2>2 DEF Fsm
  <2>4. k # None
    BY FixSessionAssumption
  <2> HIDE DEF g
  <2>5. /\ Holder(g, store, claimed', Done) /\ claimed' \in [Seq1 -> Order \cup {None}]
        /\ \A n \in Seq1 : n < store.target => claimed'[n] \in {None, claimed[n]}
    BY <1>9, <2>1, <2>3
  <2> QED
    BY <1>1, <2>1, <2>3, <2>4, <2>5, Handled
<1>11. ASSUME NEW k \in Order, RefuseOrder(c, k) PROVE Inv'
  <2> DEFINE h == Heard(f)
             g == [h EXCEPT !.target = @ + 1, !.phase = Resumed(@), !.todo = <<EmitAbout(k)>>]
  <2>1. /\ conn' = [conn EXCEPT ![c] = g] /\ mail' = mail /\ NextIn(c, k)
        /\ UNCHANGED <<store, lease, journaled, refused, revoked>> /\ f.target < MaxSeq
    BY <1>11 DEF RefuseOrder, Handle, NextIn, f
  <2>2. f.target + 1 \in Seq1 /\ <<EmitAbout(k)>> \in Seq(Ops)
    BY <1>5, <2>1, OpFacts
  <2>3. /\ g \in Fsm /\ g.target = f.target + 1 /\ g.todo = <<EmitAbout(k)>> /\ g.phase = Resumed(f.phase)
        /\ g.sender = f.sender /\ g.waits = None
    BY <1>2, <1>3, <1>6, <2>2 DEF Fsm
  <2> HIDE DEF g
  <2>4. /\ Holder(g, store, claimed', Done) /\ claimed' \in [Seq1 -> Order \cup {None}]
        /\ \A n \in Seq1 : n < store.target => claimed'[n] \in {None, claimed[n]}
    BY <1>9, <2>1, <2>3
  <2> QED
    BY <1>1, <2>1, <2>3, <2>4, Handled
<1> QED
  BY <1>7, <1>8, <1>10, <1>11

\* The logon is admitted: the session binds the counters it found.
LEMMA AdmitStep ==
    ASSUME Inv, NEW c \in Conn, NEW n \in Seq1, NEW reset \in BOOLEAN, Admit(c, n, reset)
    PROVE  Inv'
<1> DEFINE f == Bound(conn[c], n, reset)
           refuses == ~ TryClaim \/ TooLow(n, reset) \/ f.target > MaxSeq
<1>1. /\ conn[c].phase = "Binding"
      /\ IF reset THEN store.resets < MaxResets ELSE claimed[n] = None
      /\ UNCHANGED <<store, journaled, refused, claimed, revoked>>
  BY DEF Admit
<1>2. (refuses /\ Drop(c)) \/ (~refuses /\ lease' = c /\ conn' = [conn EXCEPT ![c] = f] /\ UNCHANGED mail)
  BY DEF Admit
<1>3. CASE refuses /\ Drop(c)
  BY <1>1, <1>3, DropStep
<1>4. CASE ~refuses /\ lease' = c /\ conn' = [conn EXCEPT ![c] = f] /\ UNCHANGED mail
  <2>1. InvTypes /\ InvConn /\ InvMail /\ InvLog /\ ConsumedIsAnswered
    BY DEF Inv
  <2>2. /\ conn \in [Conn -> Fsm] /\ conn[c] \in Fsm /\ store.sender \in Seq1 /\ store.target \in Seq1
        /\ store.resets \in Nat
    BY <2>1, SeqNumbers DEF InvTypes, Store
  <2>3. lease = None /\ ~TooLow(n, reset) /\ ~(f.target > MaxSeq)
    BY <1>4 DEF TryClaim
  <2>4. \A d \in Conn : Outside(conn[d])
    BY <2>1, <2>3, FixSessionAssumption DEF InvConn
  <2>5. \A m \in mail : m[2] = None
    BY <2>1, <2>3 DEF InvMail
  <2>6. conn[c].waits = None
    BY <2>4 DEF Outside
  <2>7. f \in Fsm /\ Holder(f, store, claimed, Done)
    <3> DEFINE base == [conn[c] EXCEPT !.epoch = SessionEpoch(conn[c]), !.phase = "Active"]
    <3>1. base \in Fsm /\ base.waits = None /\ base.phase = "Active"
      BY <2>2, <2>6 DEF Fsm, SessionEpoch, Phases
    <3>2. CASE reset
      <4> DEFINE r == Reset(1, "LogonReset")
                 todo == <<r, Save, Emit>>
      <4>1. f = [base EXCEPT !.sender = 1, !.target = 2, !.todo = todo]
        BY <3>2 DEF Bound
      <4>2. r \in Ops /\ r.op = "reset" /\ r.target = 1 /\ r.trigger = "LogonReset"
        BY OpFacts, SeqNumbers
      <4> HIDE DEF r, base, f
      <4>3. /\ todo \in Seq(Ops) /\ Len(todo) = 3 /\ todo[1] = r /\ todo[2].op = "save" /\ todo[3].op = "emit"
            /\ todo # <<>>
        BY <4>2, OpFacts
      <4> HIDE DEF todo
      <4>4. /\ f \in Fsm /\ f.sender = 1 /\ f.target = 2 /\ f.todo = todo /\ f.waits = None
            /\ f.phase = "Active"
        BY <3>1, <4>1, <4>3, SeqNumbers DEF Fsm
      <4>5. \A i \in 1..3 : i = 1 \/ i = 2 \/ i = 3
        OBVIOUS
      <4>6. \A i \in 1..3 : todo[i].op # "consume" /\ (i # 1 => todo[i].op # "reset")
        BY <4>2, <4>3, <4>5
      <4>7. TodoOK(f, claimed)
        <5>1. Len(f.todo) = 3 /\ \A i \in 2..3 : i \in 1..3 /\ i # 1
          BY <4>3, <4>4
        <5> QED
          BY <4>4, <4>6, <5>1 DEF TodoOK
      <4>8. Resetting(f) /\ ResetOK(f, store)
        BY <1>1, <3>2, <4>2, <4>3, <4>4 DEF Resetting, ResetOK
      <4> QED
        BY <4>4, <4>7, <4>8 DEF Holder
    <3>3. ASSUME NEW p \in {"Active", "AwaitingResend"}, NEW t \in {n + 1, store.target},
                 NEW todo \in {<<Save, Emit>>, <<Save, Emit, Emit>>}, t = n + 1 => n = store.target /\ claimed[n] = None,
                 f = [base EXCEPT !.sender = store.sender, !.target = t, !.phase = p, !.todo = todo]
          PROVE  f \in Fsm /\ Holder(f, store, claimed, Done)
      <4> HIDE DEF base, f
      <4>1. /\ todo \in Seq(Ops) /\ Len(todo) \in {2, 3} /\ todo # <<>>
            /\ \A i \in 1..Len(todo) : todo[i].op \in {"save", "emit"}
        <5>1. CASE todo = <<Save, Emit>>
          BY <5>1, OpFacts
        <5>2. CASE todo = <<Save, Emit, Emit>>
          BY <5>2, OpFacts
        <5> QED
          BY <3>3, <5>1, <5>2
      <4>2. f.target = t
        BY <3>1, <3>3 DEF Fsm
      <4>3. t \in Seq1 /\ t \in Nat /\ store.target <= t
        BY <2>2, <2>3, <3>3, <4>2, SeqNumbers DEF Seq1
      <4>4. /\ f \in Fsm /\ f.sender = store.sender /\ f.todo = todo /\ f.waits = None
            /\ f.phase = p
        BY <2>2, <3>1, <3>3, <4>1, <4>3 DEF Fsm, Phases
      <4>5. TodoOK(f, claimed)
        BY <4>1, <4>4 DEF TodoOK
      <4>6. ~Resetting(f)
        BY <4>1, <4>4 DEF Resetting
      <4>7. \A m \in store.target..(t - 1) : claimed[m] = None
        <5>1. CASE t = n + 1
          BY <2>2, <3>3, <5>1, SeqNumbers
        <5>2. CASE t = store.target
          <6> DEFINE x == store.target
          <6>1. x \in Nat /\ t = x
            BY <2>2, <5>2, SeqNumbers
          <6> HIDE DEF x
          <6>2. \A m \in x..(t - 1) : claimed[m] = None
            BY <6>1
          <6> QED
            BY <6>2 DEF x
        <5> QED
          BY <5>1, <5>2
      <4>8. CountersOK(f, store, claimed, Done)
        BY <4>2, <4>3, <4>4, <4>7 DEF CountersOK
      <4> QED
        BY <3>3, <4>4, <4>5, <4>6, <4>8 DEF Holder
    <3>4. CASE ~reset /\ n = store.target
      <4>1. f = [base EXCEPT !.sender = store.sender, !.target = n + 1, !.todo = <<Save, Emit>>]
        BY <3>4 DEF Bound
      <4>2. claimed[n] = None
        BY <1>1, <3>4
      <4> HIDE DEF f, base
      <4>3. f = [base EXCEPT !.sender = store.sender, !.target = n + 1, !.phase = "Active",
                             !.todo = <<Save, Emit>>]
        BY <3>1, <4>1 DEF Fsm
      <4> QED
        BY <3>3, <3>4, <4>2, <4>3
    <3>5. CASE ~reset /\ n # store.target
      <4>1. f = [base EXCEPT !.sender = store.sender, !.target = store.target,
                             !.phase = "AwaitingResend", !.todo = <<Save, Emit, Emit>>]
        BY <3>5 DEF Bound
      <4>2. store.target # n + 1
        BY <2>2, <2>3, <3>5, SeqNumbers DEF TooLow
      <4> HIDE DEF f, base
      <4> QED
        BY <3>3, <4>1, <4>2
    <3> QED
      BY <3>2, <3>4, <3>5
  <2> HIDE DEF f
  <2>8. conn' \in [Conn -> Fsm] /\ conn'[c] = f /\ \A d \in Conn : d # c => conn'[d] = conn[d]
    BY <1>4, <2>2, <2>7
  <2>9. Done' = Done /\ store' = store /\ claimed' = claimed
    BY <1>1 DEF Done
  <2>10. InvConn'
    <3>1. ASSUME NEW d \in Conn
          PROVE  IF lease' = d THEN Holder(conn'[d], store', claimed', Done') ELSE Outside(conn'[d])
      <4>1. CASE d = c
        BY <1>4, <2>7, <2>8, <2>9, <4>1
      <4>2. CASE d # c
        BY <1>4, <2>4, <2>8, <4>2
      <4> QED
        BY <4>1, <4>2
    <3> QED
      BY <3>1 DEF InvConn
  <2>11. InvTypes'
    BY <1>1, <1>4, <2>1, <2>8 DEF InvTypes
  <2>12. InvMail'
    BY <1>4, <2>5 DEF InvMail
  <2>13. InvLog' /\ ConsumedIsAnswered'
    BY <1>1, <2>1 DEF InvLog, NumbersNotReused, ConsumedIsAnswered
  <2> QED
    BY <2>10, <2>11, <2>12, <2>13 DEF Inv
<1> QED
  BY <1>2, <1>3, <1>4

LEMMA TickTodoFacts ==
    ASSUME NEW f, NEW beat \in BOOLEAN
    PROVE  TickTodo(f, beat) \in Lists
<1> DEFINE q == IF beat THEN <<Emit>> ELSE <<>>
           t == IF ProbeLate(f) THEN <<Emit, Close>>
                ELSE IF f.probe = "none" /\ f.quietIn THEN <<Emit>> ELSE <<>>
<1>1. TickTodo(f, beat) = q \o t
  BY DEF TickTodo
<1>2. q \in {<<Emit>>, <<>>} /\ t \in {<<Emit, Close>>, <<Emit>>, <<>>}
  OBVIOUS
<1> HIDE DEF q, t
<1>3. Emit \in Ops /\ Close \in Ops
  BY OpFacts
<1> HIDE DEF Emit, Close
<1>4. \A x \in Seq(Ops) : <<>> \o x = x /\ x \o <<>> = x
  OBVIOUS
<1>5. <<Emit>> \in Seq(Ops) /\ <<Emit, Close>> \in Seq(Ops) /\ <<>> \in Seq(Ops)
  BY <1>3
<1>6. <<Emit>> \o <<Emit, Close>> = <<Emit, Emit, Close>>
  <2> DEFINE x == <<Emit>> \o <<Emit, Close>>
             y == <<Emit, Emit, Close>>
  <2>1. x \in Seq(Ops) /\ y \in Seq(Ops) /\ Len(x) = 3 /\ Len(y) = 3
    BY <1>3
  <2>2. x[1] = y[1] /\ x[2] = y[2] /\ x[3] = y[3]
    BY <1>3
  <2>3. \A i \in 1..3 : i = 1 \/ i = 2 \/ i = 3
    OBVIOUS
  <2> HIDE DEF x, y
  <2>4. x = y
    BY <2>1, <2>2, <2>3
  <2> QED
    BY <2>4 DEF x, y
<1>7. <<Emit>> \o <<Emit>> = <<Emit, Emit>>
  <2> DEFINE x == <<Emit>> \o <<Emit>>
             y == <<Emit, Emit>>
  <2>1. x \in Seq(Ops) /\ y \in Seq(Ops) /\ Len(x) = 2 /\ Len(y) = 2
    BY <1>3
  <2>2. x[1] = y[1] /\ x[2] = y[2]
    BY <1>3
  <2>3. \A i \in 1..2 : i = 1 \/ i = 2
    OBVIOUS
  <2> HIDE DEF x, y
  <2>4. x = y
    BY <2>1, <2>2, <2>3
  <2> QED
    BY <2>4 DEF x, y
<1> QED
  BY <1>1, <1>2, <1>4, <1>5, <1>6, <1>7, Zenon DEF Lists

\* on_tick: only its operations and the probe are new.
LEMMA TickStep ==
    ASSUME Inv, NEW c \in Conn, NEW beat \in BOOLEAN, Tick(c, beat)
    PROVE  Inv'
<1> DEFINE f == conn[c]
<1>1. ~Busy(c) /\ UNCHANGED <<store, lease, mail, journaled, refused, claimed, revoked>>
  BY DEF Tick
<1>2. f \in Fsm /\ conn \in [Conn -> Fsm]
  BY DEF Inv, InvTypes
<1>3. /\ Close \in Ops /\ <<Close>> \in Seq(Ops)
  BY OpFacts
<1>4. ASSUME NEW p \in {"Active", "AwaitingResend", "Closing"}, NEW q \in Lists, NEW b \in Probes,
             Admitted(c), conn' = [conn EXCEPT ![c].todo = q, ![c].phase = p, ![c].probe = b]
      PROVE  Inv'
  <2> DEFINE g == [f EXCEPT !.todo = q, !.phase = p, !.probe = b]
  <2>1. Clean(c)
    BY <1>1, <1>4, CleanFacts DEF Inv
  <2>2. /\ q \in Seq(Ops) /\ \A i \in 1..Len(q) : q[i].op # "reset" /\ q[i].op # "consume"
    BY <1>4, ListFacts
  <2>3. /\ g \in Fsm /\ g.phase = p /\ g.todo = q /\ g.sender = f.sender /\ g.target = f.target
        /\ g.waits = f.waits
    BY <1>2, <1>4, <2>2 DEF Fsm, Phases
  <2>4. conn' = [conn EXCEPT ![c] = g]
    BY <1>2, <1>4
  <2> HIDE DEF g
  <2>5. /\ g.phase \in {"Active", "AwaitingResend", "Closing"} /\ g.waits = None
        /\ g.sender = conn[c].sender /\ g.target = conn[c].target
        /\ \A i \in 1..Len(g.todo) : g.todo[i].op # "reset"
        /\ \A i, j \in 1..Len(g.todo) : g.todo[i].op = "consume" /\ g.todo[j].op = "consume" => i = j
        /\ \A i \in 1..Len(g.todo) : g.todo[i].op = "consume" => claimed[conn[c].target] = None
    BY <1>4, <2>1, <2>2, <2>3 DEF Clean
  <2> QED
    BY <1>1, <2>1, <2>3, <2>4, <2>5, PlainHandled
<1>5. CASE /\ f.phase = "AwaitingLogon"
           /\ conn' = [conn EXCEPT ![c].phase = "Closing", ![c].todo = <<Close>>]
  <2> DEFINE g == [f EXCEPT !.phase = "Closing", !.todo = <<Close>>]
  <2>1. Outside(f) /\ lease # c
    BY <1>5 DEF Inv, InvConn, Holder
  <2>2. g \in Fsm /\ g.phase = "Closing" /\ g.todo = <<Close>> /\ g.waits = f.waits
    BY <1>2, <1>3 DEF Fsm, Phases
  <2>3. conn' = [conn EXCEPT ![c] = g]
    BY <1>2, <1>5
  <2>4. Outside(g)
    BY <2>1, <2>2 DEF Outside
  <2> HIDE DEF g
  <2> QED
    BY <1>1, <2>1, <2>2, <2>3, <2>4, OutsideMoves
<1>6. CASE /\ Admitted(c)
           /\ conn' = [conn EXCEPT ![c].phase = "Closing", ![c].todo = <<Emit, Close>>]
  <2>1. <<Emit, Close>> \in Lists /\ f.probe \in Probes
    BY <1>2, FsmFacts DEF Lists
  <2>2. conn' = [conn EXCEPT ![c].todo = <<Emit, Close>>, ![c].phase = "Closing", ![c].probe = f.probe]
    BY <1>2, <1>6 DEF Fsm
  <2> QED
    BY <1>4, <1>6, <2>1, <2>2
<1>7. CASE /\ Admitted(c)
           /\ conn' = [conn EXCEPT
                    ![c].todo = TickTodo(f, beat),
                    ![c].phase = IF ProbeLate(f) THEN "Closing" ELSE @,
                    ![c].probe = IF @ = "none" /\ f.quietIn THEN "sent" ELSE @]
  <2> DEFINE q == TickTodo(f, beat)
             p == IF ProbeLate(f) THEN "Closing" ELSE f.phase
             b == IF f.probe = "none" /\ f.quietIn THEN "sent" ELSE f.probe
  <2>1. q \in Lists
    BY TickTodoFacts
  <2>2. p \in {"Active", "AwaitingResend", "Closing"} /\ b \in Probes
    BY <1>2, <1>7, FsmFacts DEF Admitted, Probes
  <2>3. conn' = [conn EXCEPT ![c].todo = q, ![c].phase = p, ![c].probe = b]
    BY <1>2, <1>7 DEF Fsm
  <2> HIDE DEF q, p, b
  <2> QED
    BY <1>4, <1>7, <2>1, <2>2, <2>3
<1> QED
  BY <1>5, <1>6, <1>7 DEF Tick

\* The steps that begin and end connections.
LEMMA LifeStep ==
    ASSUME Inv, NEW c \in Conn,
           \/ Accept(c) \/ Logon(c) \/ Verified(c) \/ Disconnect(c) \/ Timeout(c) \/ Seal(c) \/ CloseStep(c)
           \/ Abandon(c)
    PROVE  Inv'
<1> DEFINE f == conn[c]
<1>1. f \in Fsm /\ conn \in [Conn -> Fsm] /\ revoked \in BOOLEAN
  BY DEF Inv, InvTypes
<1>2. f.phase \in {"Closed", "AwaitingLogon", "Verifying"} => Outside(f) /\ lease # c
  BY DEF Inv, InvConn, Holder
<1>3. CASE Drop(c) /\ UNCHANGED <<store, journaled, refused, claimed, revoked>>
  BY <1>3, DropStep
<1>4. CASE Accept(c)
  <2>1. NewFsm("AwaitingLogon") \in Fsm /\ Outside(NewFsm("AwaitingLogon"))
    BY NewFacts
  <2> QED
    BY <1>2, <1>4, <2>1, OutsideMoves DEF Accept
<1>5. CASE Logon(c)
  <2> DEFINE g == [f EXCEPT !.phase = "Verifying", !.quietIn = FALSE]
  <2>1. /\ f.phase = "AwaitingLogon" /\ conn' = [conn EXCEPT ![c].phase = "Verifying", ![c].quietIn = FALSE]
        /\ UNCHANGED <<store, lease, mail, journaled, refused, claimed, revoked>>
    BY <1>5 DEF Logon
  <2>2. g \in Fsm /\ g.phase = "Verifying" /\ g.todo = f.todo /\ g.waits = f.waits
    BY <1>1 DEF Fsm, Phases
  <2>3. conn' = [conn EXCEPT ![c] = g]
    BY <1>1, <2>1
  <2>4. Outside(g)
    BY <1>2, <2>1, <2>2 DEF Outside
  <2> HIDE DEF g
  <2> QED
    BY <1>2, <2>1, <2>2, <2>3, <2>4, OutsideMoves
<1>6. CASE /\ f.phase = "Verifying" /\ conn' = [conn EXCEPT ![c].phase = "Binding", ![c].epoch = revoked]
           /\ UNCHANGED <<store, lease, mail, journaled, refused, claimed, revoked>>
  <2> DEFINE g == [f EXCEPT !.phase = "Binding", !.epoch = revoked]
  <2>1. g \in Fsm /\ g.phase = "Binding" /\ g.todo = f.todo /\ g.waits = f.waits
    BY <1>1 DEF Fsm, Phases
  <2>2. conn' = [conn EXCEPT ![c] = g]
    BY <1>1, <1>6
  <2>3. Outside(g)
    BY <1>2, <1>6, <2>1 DEF Outside
  <2> HIDE DEF g
  <2> QED
    BY <1>2, <1>6, <2>1, <2>2, <2>3, OutsideMoves
<1>7. CASE Abandon(c)
  <2>1. conn' = [conn EXCEPT ![c].gone = TRUE]
        /\ UNCHANGED <<store, lease, mail, journaled, refused, claimed, revoked>>
    BY <1>7 DEF Abandon
  <2> DEFINE g == [f EXCEPT !.gone = TRUE]
  <2>2. /\ g \in Fsm /\ g.phase = f.phase /\ g.todo = f.todo /\ g.waits = f.waits
        /\ g.sender = f.sender /\ g.target = f.target
    BY <1>1 DEF Fsm
  <2>3. conn' = [conn EXCEPT ![c] = g]
    BY <1>1, <2>1
  <2> HIDE DEF g
  <2>4. conn' \in [Conn -> Fsm] /\ conn'[c] = g /\ \A d \in Conn : d # c => conn'[d] = conn[d]
    BY <1>1, <2>2, <2>3
  <2>5. \A d \in Conn : /\ conn'[d].phase = conn[d].phase /\ conn'[d].sender = conn[d].sender
                        /\ conn'[d].target = conn[d].target /\ conn'[d].todo = conn[d].todo
                        /\ conn'[d].waits = conn[d].waits
    BY <2>2, <2>4
  <2> QED
    BY <1>1, <2>1, <2>4, <2>5, Unmoved
<1> QED
  BY <1>3, <1>4, <1>5, <1>6, <1>7 DEF Verified, Disconnect, Timeout, Seal, CloseStep

\* The clock, the administrator, and the end of the process.
LEMMA VenueStep ==
    ASSUME Inv, TimePasses \/ Revoke \/ Crash
    PROVE  Inv'
<1>1. conn \in [Conn -> Fsm] /\ revoked \in BOOLEAN
  BY DEF Inv, InvTypes
<1>2. CASE TimePasses
  <2>1. ASSUME NEW c \in Conn
        PROVE  /\ conn'[c] \in Fsm /\ conn'[c].phase = conn[c].phase /\ conn'[c].sender = conn[c].sender
               /\ conn'[c].target = conn[c].target /\ conn'[c].todo = conn[c].todo
               /\ conn'[c].waits = conn[c].waits
    <3> DEFINE b == IF conn[c].probe = "sent" THEN "late" ELSE conn[c].probe
               g == [conn[c] EXCEPT !.quietIn = TRUE, !.probe = b]
    <3>1. conn[c] \in Fsm /\ b \in Probes
      BY <1>1, FsmFacts DEF Probes
    <3>2. /\ g \in Fsm /\ g.phase = conn[c].phase /\ g.sender = conn[c].sender
          /\ g.target = conn[c].target /\ g.todo = conn[c].todo /\ g.waits = conn[c].waits
      BY <3>1 DEF Fsm
    <3>3. conn'[c] = conn[c] \/ conn'[c] = g
      BY <1>2 DEF TimePasses
    <3> QED
      BY <3>1, <3>2, <3>3
  <2>2. conn' = [c \in Conn |-> conn'[c]]
    BY <1>2 DEF TimePasses
  <2>3. conn' \in [Conn -> Fsm]
    BY <2>1, <2>2
  <2>4. UNCHANGED <<store, lease, mail, journaled, refused, claimed, revoked>>
    BY <1>2 DEF TimePasses
  <2> QED
    BY <1>1, <2>1, <2>3, <2>4, Unmoved
<1>3. CASE Revoke
  <2>1. conn' = conn /\ revoked' \in BOOLEAN /\ UNCHANGED <<store, lease, mail, journaled, refused, claimed>>
    BY <1>3 DEF Revoke
  <2> QED
    BY <1>1, <2>1, Unmoved
<1>4. CASE Crash
  <2>1. /\ conn' = [c \in Conn |-> NewFsm("Closed")] /\ lease' = None /\ mail' = {}
        /\ UNCHANGED <<store, journaled, refused, claimed, revoked>>
    BY <1>4 DEF Crash
  <2>2. NewFsm("Closed") \in Fsm /\ Outside(NewFsm("Closed"))
    BY NewFacts
  <2>3. InvTypes' /\ InvMail'
    BY <2>1, <2>2 DEF Inv, InvTypes, InvMail
  <2>4. InvConn'
    BY <2>1, <2>2, FixSessionAssumption DEF InvConn
  <2>5. InvLog' /\ ConsumedIsAnswered'
    BY <2>1 DEF Inv, InvLog, NumbersNotReused, ConsumedIsAnswered
  <2> QED
    BY <2>3, <2>4, <2>5 DEF Inv
<1> QED
  BY <1>2, <1>3, <1>4

-----------------------------------------------------------------------------
(* The answers and the store operations.                                    *)

\* What is answered stays answered.
LEMMA HolderGrows ==
    ASSUME NEW f, NEW s, NEW cl, NEW done, NEW more, done \subseteq more, Holder(f, s, cl, done)
    PROVE  Holder(f, s, cl, more)
BY DEF Holder, CountersOK

\* The actor answers, and the handler that awaits it, if any, goes on.
LEMMA AnswerStep ==
    ASSUME Inv, NEW m \in mail, Commit(m) \/ SubmitFails(m)
    PROVE  Inv'
<1>1. InvTypes /\ InvConn /\ InvMail /\ InvLog /\ ConsumedIsAnswered
  BY DEF Inv
<1>2. /\ m \in Order \X (Conn \cup {None}) /\ m[1] \in Order /\ m[2] \in Conn \cup {None} /\ m[1] # None
      /\ conn \in [Conn -> Fsm] /\ mail \subseteq Order \X (Conn \cup {None})
  BY <1>1, FixSessionAssumption DEF InvTypes
<1>3. PICK q \in {<<Emit, Save>>, <<EmitAbout(m[1])>>} :
        /\ Answer(m, q) /\ mail' = mail \ {m} /\ journaled' \subseteq Order /\ Done \subseteq Done'
        /\ q = <<EmitAbout(m[1])>> \/ m[1] \in Done'
        /\ UNCHANGED <<store, lease, refused, claimed, revoked>>
  <2>1. CASE Commit(m)
    BY <1>1, <1>2, <2>1 DEF Commit, Done, InvTypes
  <2>2. CASE SubmitFails(m)
    BY <1>1, <2>2 DEF SubmitFails, Done, InvTypes
  <2> QED
    BY <2>1, <2>2
<1>4. InvLog' /\ ConsumedIsAnswered'
  <2>1. InvLog'
    BY <1>1, <1>3 DEF InvLog, NumbersNotReused
  <2>2. ConsumedIsAnswered'
    BY <1>1, <1>3 DEF ConsumedIsAnswered, Done
  <2> QED
    BY <2>1, <2>2
<1>5. CASE m[2] = None
  <2>1. conn' = conn
    BY <1>3, <1>5 DEF Answer
  <2>2. InvConn'
    <3>1. ASSUME NEW c \in Conn
          PROVE  IF lease' = c THEN Holder(conn'[c], store', claimed', Done') ELSE Outside(conn'[c])
      <4>1. CASE lease = c
        <5>1. Holder(conn[c], store, claimed, Done)
          BY <1>1, <4>1 DEF InvConn
        <5>2. Holder(conn[c], store, claimed, Done')
          BY <1>3, <5>1, HolderGrows
        <5> QED
          BY <1>3, <2>1, <4>1, <5>2
      <4>2. CASE lease # c
        BY <1>1, <1>3, <2>1, <4>2 DEF InvConn
      <4> QED
        BY <4>1, <4>2
    <3> QED
      BY <3>1 DEF InvConn
  <2>3. InvTypes' /\ InvMail'
    BY <1>1, <1>3, <2>1 DEF InvTypes, InvMail
  <2> QED
    BY <1>4, <2>2, <2>3 DEF Inv
<1>6. CASE m[2] # None
  <2> DEFINE c == m[2]
             f == conn[c]
             g == [f EXCEPT !.waits = None, !.todo = q]
  <2>1. c \in Conn /\ lease = c /\ f.waits = m[1] /\ f \in Fsm
    BY <1>1, <1>2, <1>6 DEF InvMail
  <2>2. Holder(f, store, claimed, Done)
    BY <1>1, <2>1 DEF InvConn
  <2>3. f.todo = <<>>
    BY <1>2, <2>1, <2>2 DEF Holder, TodoOK
  <2>4. /\ q \in Seq(Ops) /\ \A i \in 1..Len(q) : q[i].op \notin {"reset", "consume"}
        /\ q = <<EmitAbout(m[1])>> => q # <<>> /\ q[1].op = "emit" /\ q[1].about = m[1]
        /\ Len(q) \in Nat
    <3>1. CASE q = <<Emit, Save>>
      <4>1. Emit \in Ops /\ Save \in Ops /\ Emit.op = "emit" /\ Save.op = "save"
        BY OpFacts
      <4>2. q \in Seq(Ops) /\ Len(q) = 2 /\ q[1] = Emit /\ q[2] = Save
        BY <3>1, <4>1
      <4>3. \A i \in 1..2 : i = 1 \/ i = 2
        OBVIOUS
      <4>4. \A i \in 1..Len(q) : q[i].op \notin {"reset", "consume"}
        BY <4>1, <4>2, <4>3
      <4>5. q # <<EmitAbout(m[1])>>
        BY <4>2
      <4> QED
        BY <4>2, <4>4, <4>5
    <3>2. CASE q = <<EmitAbout(m[1])>>
      <4> DEFINE e == EmitAbout(m[1])
      <4>1. e \in Ops /\ e.op = "emit" /\ e.about = m[1]
        BY <1>2, OpFacts
      <4> HIDE DEF e
      <4>2. q = <<e>>
        BY <3>2 DEF e
      <4> QED
        BY <4>1, <4>2
    <3> QED
      BY <3>1, <3>2
  <2>5. <<>> \o q = q
    BY <2>4
  <2>6. conn' = [conn EXCEPT ![c] = g]
    <3>1. conn' = [conn EXCEPT ![c].waits = None, ![c].todo = @ \o q]
      BY <1>3, <1>6 DEF Answer
    <3>2. conn' = [conn EXCEPT ![c] = [f EXCEPT !.waits = None, !.todo = f.todo \o q]]
      BY <1>2, <2>1, <3>1 DEF Fsm
    <3> QED
      BY <2>3, <2>5, <3>2
  <2>7. /\ g \in Fsm /\ g.phase = f.phase /\ g.sender = f.sender /\ g.target = f.target
        /\ g.waits = None /\ g.todo = q
    BY <2>1, <2>4 DEF Fsm
  <2> HIDE DEF g, f
  <2>8. Holder(g, store, claimed, Done')
    <3>1. TodoOK(g, claimed) /\ ~Resetting(g)
      <4>1. ~Resetting(g)
        BY <2>4, <2>7 DEF Resetting
      <4> QED
        BY <2>4, <2>7, <4>1 DEF TodoOK
    <3>2. CountersOK(f, store, claimed, Done) /\ f.phase \in {"Active", "AwaitingResend", "Closing"}
      BY <2>2, <2>3 DEF Holder, Resetting
    <3>3. ASSUME NEW n \in store.target..(f.target - 1), claimed[n] # None
          PROVE  claimed[n] \in Done' \/ claimed[n] = g.waits \/ Rejecting(g, claimed[n])
      <4>1. claimed[n] \in Done \/ claimed[n] = m[1]
        BY <2>1, <2>3, <3>2, <3>3 DEF CountersOK, Rejecting, f
      <4>2. m[1] \in Done' \/ Rejecting(g, m[1])
        BY <1>3, <2>4, <2>7 DEF Rejecting
      <4> QED
        BY <1>3, <4>1, <4>2
    <3>4. CountersOK(g, store, claimed, Done')
      BY <2>7, <3>2, <3>3 DEF CountersOK
    <3> QED
      BY <2>7, <3>1, <3>2, <3>4 DEF Holder
  <2>9. InvConn' /\ conn' \in [Conn -> Fsm]
    <3>1. IF lease = c THEN Holder(g, store', claimed', Done')
          ELSE Outside(g) /\ UNCHANGED <<store, claimed, journaled, refused>>
      BY <1>3, <2>1, <2>8
    <3> HIDE DEF c
    <3>2. lease' = lease /\ c \in Conn
      BY <1>3, <2>1
    <3> QED
      BY <1>1, <2>6, <2>7, <3>1, <3>2, OneMoves
  <2>10. \A o \in mail' : o[2] = None
    <3>1. ASSUME NEW o \in mail, o[2] # None PROVE o = m
      <4>1. o[2] = m[2] /\ o[1] = m[1]
        BY <1>1, <2>1, <3>1 DEF InvMail, f
      <4> QED
        BY <1>2, <4>1
    <3> QED
      BY <1>3, <3>1
  <2>11. InvTypes' /\ InvMail'
    BY <1>1, <1>3, <2>9, <2>10 DEF InvTypes, InvMail
  <2> QED
    BY <1>4, <2>9, <2>11 DEF Inv
<1> QED
  BY <1>5, <1>6

\* Strict inclusion of finite sets is well founded: a set of finite sets has a minimal one.
LEMMA MinimalFiniteSet ==
    ASSUME NEW S, NEW C \in SUBSET FiniteSubsetsOf(S), C # {}
    PROVE  \E T \in C : \A U \in C : U \subseteq T => U = T
<1>1. PICK T \in C : \A U \in C : ~ (<<U, T>> \in StrictSubsetOrdering(S))
  BY FS_StrictSubsetOrderingWellFounded, WFMin
<1>2. ASSUME NEW U \in C, U \subseteq T PROVE U = T
  <2>1. <<U, T>> \in (SUBSET S) \X (SUBSET S)
    BY DEF FiniteSubsetsOf
  <2> QED
    BY <1>1, <1>2, <2>1 DEF StrictSubsetOrdering
<1> QED
  BY <1>2

\* Every non-empty set of naturals has a least element.
LEMMA LeastNatural ==
    ASSUME NEW N \in SUBSET Nat, N # {}
    PROVE  \E n \in N : \A m \in N : n <= m
<1> DEFINE C == {0 .. n : n \in N}
<1>1. C # {} /\ C \in SUBSET FiniteSubsetsOf(Nat)
  <2>1. \A n \in N : IsFiniteSet(0 .. n) /\ 0 .. n \subseteq Nat
    BY FS_Interval
  <2> QED
    BY <2>1 DEF FiniteSubsetsOf
<1> HIDE DEF C
<1>2. PICK T \in C : \A U \in C : U \subseteq T => U = T
  BY <1>1, MinimalFiniteSet
<1>3. PICK n \in N : T = 0 .. n
  BY <1>2 DEF C
<1>4. ASSUME NEW m \in N PROVE n <= m
  <2>1. n \in Nat /\ m \in Nat
    OBVIOUS
  <2>2. SUFFICES ASSUME m < n PROVE FALSE
    BY <2>1
  <2>3. 0 .. m \in C /\ 0 .. m \subseteq 0 .. n /\ n \notin 0 .. m /\ n \in 0 .. n
    BY <2>1, <2>2 DEF C
  <2> QED
    BY <1>2, <1>3, <2>3
<1> QED
  BY <1>4

\* push_outbound: the frame is last unless it went with the rest, and only the oldest
\* may be gone.
LEMMA PushFacts ==
    ASSUME NEW log \in Seq(Entry), NEW e \in Entry, Len(log) <= LogLimit
    PROVE  /\ Push(log, e) \in Seq(Entry) /\ Len(Push(log, e)) <= LogLimit
           /\ \E d \in 0..(Len(log) + 1) : \A i \in 1..Len(Push(log, e)) :
                /\ i + d \in 1..(Len(log) + 1)
                /\ Push(log, e)[i] = IF i + d = Len(log) + 1 THEN e ELSE log[i + d]
<1> DEFINE longer == Append(log, e)
           without(d) == SubSeq(longer, d + 1, Len(longer))
           fits == {d \in 0..Len(longer) :
                      \/ d = Len(longer)
                      \/ Len(without(d)) <= LogLimit /\ Bytes(without(d)) <= ByteLimit}
           least == CHOOSE d \in fits : \A x \in fits : d <= x
<1>1. /\ longer \in Seq(Entry) /\ Len(longer) = Len(log) + 1 /\ Len(log) \in Nat
      /\ \A i \in 1..(Len(log) + 1) : longer[i] = IF i = Len(log) + 1 THEN e ELSE log[i]
  OBVIOUS
<1>2. LogLimit \in Nat /\ LogLimit >= 1
  BY SeqNumbers
<1>3. Push(log, e) = without(least)
  BY DEF Push
<1> HIDE DEF longer
<1>4. fits \in SUBSET Nat /\ Len(longer) \in fits
  BY <1>1
<1>5. least \in fits
  <2> HIDE DEF fits
  <2>1. \E d \in fits : \A x \in fits : d <= x
    BY <1>4, LeastNatural
  <2> QED
    BY <2>1
<1> HIDE DEF least
<1>6. least \in 0..Len(longer) /\ (least = Len(longer) \/ Len(without(least)) <= LogLimit)
  BY <1>5
<1> HIDE DEF fits
<1>7. /\ without(least) \in Seq(Entry) /\ Len(without(least)) = Len(longer) - least
      /\ \A i \in 1..(Len(longer) - least) : without(least)[i] = longer[i + least]
  BY <1>1, <1>6
<1>8. Len(without(least)) <= LogLimit
  BY <1>1, <1>2, <1>6, <1>7
<1> HIDE DEF without
<1>9. \A i \in 1..Len(without(least)) :
         /\ i + least \in 1..(Len(log) + 1)
         /\ without(least)[i] = IF i + least = Len(log) + 1 THEN e ELSE log[i + least]
  BY <1>1, <1>6, <1>7
<1>10. least \in 0..(Len(log) + 1)
  BY <1>1, <1>6
<1> QED
  BY <1>3, <1>7, <1>8, <1>9, <1>10

\* The operations that are left after the first.
LEMMA RestFacts ==
    ASSUME NEW f \in Fsm, f.todo # <<>>
    PROVE  /\ Tail(f.todo) \in Seq(Ops) /\ Len(Tail(f.todo)) = Len(f.todo) - 1 /\ Len(f.todo) >= 1
           /\ Head(f.todo) = f.todo[1] /\ f.todo[1] \in Ops
           /\ \A i \in 1..Len(Tail(f.todo)) : /\ Tail(f.todo)[i] = f.todo[i + 1]
                                              /\ i + 1 \in 2..Len(f.todo) /\ i + 1 \in 1..Len(f.todo)
<1>1. f.todo \in Seq(Ops) /\ Len(f.todo) \in Nat
  BY FsmFacts
<1> DEFINE q == f.todo
<1> HIDE DEF q
<1>2. q \in Seq(Ops) /\ q # <<>>
  BY <1>1 DEF q
<1>3. /\ Tail(q) \in Seq(Ops) /\ Len(Tail(q)) = Len(q) - 1 /\ Len(q) >= 1
      /\ Head(q) = q[1] /\ q[1] \in Ops /\ Len(q) \in Nat
      /\ \A i \in 1..(Len(q) - 1) : Tail(q)[i] = q[i + 1]
  BY <1>2
<1>4. \A i \in 1..Len(Tail(q)) : /\ Tail(q)[i] = q[i + 1] /\ i + 1 \in 2..Len(q) /\ i + 1 \in 1..Len(q)
  BY <1>3
<1> QED
  BY <1>3, <1>4 DEF q

\* The connection whose handler has store operations left holds the lease.
LEMMA HandlerHolds ==
    ASSUME Inv, NEW c \in Conn, conn[c].todo # <<>>, Head(conn[c].todo).op # "close"
    PROVE  lease = c /\ conn[c].waits = None /\ \A m \in mail : m[2] = None
<1>1. InvTypes /\ InvConn /\ InvMail
  BY DEF Inv
<1>2. conn[c] \in Fsm
  BY <1>1 DEF InvTypes
<1>3. lease = c
  <2>1. ASSUME conn[c].todo = <<Close>> PROVE FALSE
    BY <2>1, OpFacts
  <2> QED
    BY <1>1, <2>1 DEF InvConn, Outside
<1>4. conn[c].waits = None
  BY <1>1, <1>3 DEF InvConn, Holder, TodoOK
<1>5. ASSUME NEW m \in mail, m[2] # None PROVE FALSE
  <2>1. m[2] = c /\ m[1] = None /\ m[1] \in Order
    BY <1>1, <1>3, <1>4, <1>5 DEF InvMail, InvTypes
  <2> QED
    BY <2>1, FixSessionAssumption
<1> QED
  BY <1>3, <1>4, <1>5

\* A store operation of the holder.
LEMMA StoreMoves ==
    ASSUME Inv, NEW c \in Conn, lease = c, \A m \in mail : m[2] = None, NEW g \in Fsm,
           conn' = [conn EXCEPT ![c] = g], UNCHANGED <<lease, mail, journaled, revoked>>,
           store' \in Store, Len(store'.log) <= LogLimit, refused' \subseteq Order,
           claimed' \in [Seq1 -> Order \cup {None}],
           Holder(g, store', claimed', Done'), InvLog', ConsumedIsAnswered'
    PROVE  Inv'
<1>1. InvTypes /\ InvConn
  BY DEF Inv
<1>2. InvConn' /\ conn' \in [Conn -> Fsm]
  <2>1. IF lease = c THEN Holder(g, store', claimed', Done')
        ELSE Outside(g) /\ UNCHANGED <<store, claimed, journaled, refused>>
    OBVIOUS
  <2> QED
    BY <1>1, <2>1, OneMoves
<1>3. InvTypes'
  BY <1>1, <1>2 DEF InvTypes
<1>4. InvMail'
  BY DEF InvMail
<1> QED
  BY <1>2, <1>3, <1>4 DEF Inv

\* Of a list of operations whose first is done, what stays.
LEMMA TodoRest ==
    ASSUME NEW f \in Fsm, f.todo # <<>>, NEW g \in Fsm, g.todo = Tail(f.todo), g.waits = None,
           NEW cl, NEW new, TodoOK(f, cl),
           \/ g.target = f.target /\ new = cl
           \/ f.todo[1].op = "consume"
           \/ new = [n \in Seq1 |-> None]
    PROVE  TodoOK(g, new) /\ ~Resetting(g)
<1>1. /\ Tail(f.todo) \in Seq(Ops) /\ Len(Tail(f.todo)) = Len(f.todo) - 1 /\ Len(f.todo) >= 1
      /\ \A i \in 1..Len(Tail(f.todo)) : /\ Tail(f.todo)[i] = f.todo[i + 1]
                                         /\ i + 1 \in 2..Len(f.todo) /\ i + 1 \in 1..Len(f.todo)
  BY RestFacts
<1>2. Len(g.todo) \in Nat /\ g.target \in Seq1 /\ Len(f.todo) \in Nat
  BY FsmFacts
<1>3. \A i \in 1..Len(g.todo) : /\ g.todo[i] = f.todo[i + 1] /\ i + 1 \in 1..Len(f.todo)
                                /\ i + 1 # 1 /\ g.todo[i].op # "reset"
  BY <1>1, <1>2 DEF TodoOK
<1>4. ~Resetting(g)
  <2>1. g.todo \in Seq(Ops)
    BY FsmFacts
  <2>2. ASSUME g.todo # <<>> PROVE 1 \in 1..Len(g.todo)
    BY <2>1, <2>2
  <2> QED
    BY <1>3, <2>2 DEF Resetting
<1>5. \A i, j \in 1..Len(g.todo) : g.todo[i].op = "consume" /\ g.todo[j].op = "consume" => i = j
  <2>1. ASSUME NEW i \in 1..Len(g.todo), NEW j \in 1..Len(g.todo), g.todo[i].op = "consume", g.todo[j].op = "consume"
        PROVE  i = j
    <3>1. i + 1 = j + 1
      BY <1>3, <2>1 DEF TodoOK
    <3> QED
      BY <1>2, <3>1
  <2> QED
    BY <2>1
<1>6. ASSUME NEW i \in 1..Len(g.todo), g.todo[i].op = "consume" PROVE new[g.target] = None
  <2>1. f.todo[i + 1].op = "consume" /\ i + 1 \in 1..Len(f.todo) /\ i + 1 # 1
    BY <1>3, <1>6
  <2>2. CASE g.target = f.target /\ new = cl
    BY <2>1, <2>2 DEF TodoOK
  <2>3. CASE f.todo[1].op = "consume"
    <3>1. 1 \in 1..Len(f.todo)
      BY <1>1, <1>2
    <3> QED
      BY <2>1, <2>3, <3>1 DEF TodoOK
  <2>4. CASE new = [n \in Seq1 |-> None]
    BY <1>2, <2>4
  <2> QED
    BY <2>2, <2>3, <2>4
<1>7. \A i \in 2..Len(g.todo) : g.todo[i].op # "reset"
  BY <1>2, <1>3
<1> QED
  BY <1>4, <1>5, <1>6, <1>7 DEF TodoOK

\* emit: the frame takes the durable number and the counter moves past it.
LEMMA EmitInv ==
    ASSUME Inv, NEW c \in Conn, conn[c].todo # <<>>, ~Exhausted(conn[c]), EmitStep(c),
           UNCHANGED <<lease, mail, journaled, revoked>>
    PROVE  Inv'
<1> DEFINE f == conn[c]
           g == [Rest(f) EXCEPT !.sender = @ + 1]
           e == [era |-> store.era, seq |-> f.sender]
<1>1. InvTypes /\ InvConn /\ InvLog /\ ConsumedIsAnswered
  BY DEF Inv
<1>2. f \in Fsm /\ store \in Store /\ Len(store.log) <= LogLimit
  BY <1>1 DEF InvTypes
<1>3. /\ Head(f.todo) = f.todo[1] /\ f.todo[1] \in Ops /\ f.todo[1].op = "emit"
      /\ Tail(f.todo) \in Seq(Ops)
  BY <1>2, RestFacts DEF EmitStep
<1>4. lease = c /\ f.waits = None /\ \A m \in mail : m[2] = None
  BY <1>3, HandlerHolds DEF EmitStep
<1>5. Holder(f, store, claimed, Done) /\ ~Resetting(f)
  BY <1>1, <1>3, <1>4 DEF InvConn, Resetting
<1>6. CountersOK(f, store, claimed, Done) /\ TodoOK(f, claimed) /\ f.phase \in {"Active", "AwaitingResend", "Closing"}
  BY <1>5 DEF Holder
<1>7. f.sender \in Seq1 /\ f.sender # MaxSeq /\ f.sender = store.sender
  BY <1>2, <1>3, <1>6, FsmFacts DEF Exhausted, CountersOK
<1>8. f.sender + 1 \in Seq1 /\ f.sender + 1 > f.sender /\ f.sender \in Nat
  BY <1>7, SeqNumbers DEF Seq1
<1>9. g \in Fsm
  BY <1>2, <1>3, <1>8 DEF Rest, Fsm
<1>10. /\ g.todo = Tail(f.todo) /\ g.waits = None /\ g.target = f.target /\ g.phase = f.phase
       /\ g.sender = f.sender + 1
  BY <1>2, <1>4 DEF Rest, Fsm
<1>11. /\ store.sender \in Seq1 /\ store.target \in Seq1 /\ store.log \in Seq(Entry)
       /\ store.era \in 1..(MaxResets + 1) /\ store.resets \in 0..MaxResets
  BY <1>2 DEF Store
<1>12. e \in Entry
  BY <1>7, <1>11 DEF Entry
<1>13. store' = [store EXCEPT !.log = Push(store.log, e), !.sender = f.sender + 1]
  BY DEF EmitStep, StoreOutbound
<1>14. Push(store.log, e) \in Seq(Entry) /\ Len(Push(store.log, e)) <= LogLimit
  BY <1>2, <1>11, <1>12, PushFacts
<1>15. /\ store' \in Store /\ store'.log = Push(store.log, e) /\ store'.sender = f.sender + 1
       /\ store'.target = store.target /\ store'.era = store.era /\ store'.resets = store.resets
  BY <1>2, <1>8, <1>13, <1>14 DEF Store
<1>16. /\ refused' \subseteq Order /\ claimed' = claimed /\ refused \subseteq refused'
       /\ \A k \in Order : f.todo[1].about = k => k \in refused'
  <2>1. f.todo[1].about \in Order \cup {None} /\ None \notin Order
    BY <1>3, OpFacts, FixSessionAssumption
  <2> QED
    BY <1>1, <1>3, <2>1 DEF EmitStep, InvTypes
<1>17. conn' = [conn EXCEPT ![c] = g]
  BY DEF EmitStep
<1>18. PICK d \in 0..(Len(store.log) + 1) : \A i \in 1..Len(store'.log) :
            /\ i + d \in 1..(Len(store.log) + 1)
            /\ store'.log[i] = IF i + d = Len(store.log) + 1 THEN e ELSE store.log[i + d]
  <2> HIDE DEF e
  <2>1. \E d \in 0..(Len(store.log) + 1) : \A i \in 1..Len(Push(store.log, e)) :
            /\ i + d \in 1..(Len(store.log) + 1)
            /\ Push(store.log, e)[i] = IF i + d = Len(store.log) + 1 THEN e ELSE store.log[i + d]
    BY <1>2, <1>11, <1>12, PushFacts
  <2> QED
    BY <1>15, <2>1, Zenon
<1> HIDE DEF g, f
<1>19. TodoOK(g, claimed') /\ ~Resetting(g)
  <2>1. g.target = f.target /\ claimed' = claimed
    BY <1>10, <1>16
  <2>2. f.todo # <<>>
    BY DEF f
  <2> QED
    BY <1>2, <1>6, <1>9, <1>10, <2>1, <2>2, TodoRest
<1>20. CountersOK(g, store', claimed', Done')
  <2>1. g.sender = store'.sender /\ store'.target <= g.target
    BY <1>6, <1>10, <1>15 DEF CountersOK
  <2>2. store'.target..(g.target - 1) = store.target..(f.target - 1)
    BY <1>10, <1>15
  <2>3. ASSUME NEW n \in store.target..(f.target - 1), claimed[n] # None PROVE claimed[n] \in Done'
    <3>1. claimed[n] \in Done \/ claimed[n] = f.waits \/ Rejecting(f, claimed[n])
      BY <1>6, <2>3 DEF CountersOK
    <3>2. n \in Seq1
      BY <1>2, <1>11, <2>3, FsmFacts, SeqNumbers DEF Seq1
    <3>3. claimed[n] \in Order
      BY <1>1, <2>3, <3>2 DEF InvTypes
    <3>4. CASE claimed[n] \in Done
      BY <1>16, <3>4 DEF Done
    <3>5. CASE Rejecting(f, claimed[n])
      BY <1>16, <3>3, <3>5 DEF Done, Rejecting
    <3>6. CASE claimed[n] = f.waits
      BY <1>4, <2>3, <3>6 DEF f
    <3> QED
      BY <3>1, <3>4, <3>5, <3>6
  <2> QED
    BY <1>16, <2>1, <2>2, <2>3 DEF CountersOK
<1>21. Holder(g, store', claimed', Done')
  BY <1>6, <1>10, <1>19, <1>20 DEF Holder
<1>22. InvLog'
  <2>0. Len(store.log) \in Nat /\ Len(store'.log) \in Nat /\ store'.log \in Seq(Entry)
    BY <1>11, <1>14, <1>15
  <2>1. \A i \in 1..Len(store.log) : /\ store.log[i] \in Entry /\ store.log[i].era <= store.era
                                     /\ store.log[i].era = store.era => store.log[i].seq < store.sender
    BY <1>1, <1>11 DEF InvLog, NumbersNotReused
  <2>2. e.era = store.era /\ e.seq = store.sender
    BY <1>7
  <2> HIDE DEF e
  <2>3. ASSUME NEW x \in Entry PROVE x.era \in Nat /\ x.seq \in Nat
    <3>1. x.era \in 1..(MaxResets + 1) /\ x.seq \in Seq1
      BY DEF Entry
    <3>2. x.seq \in Nat
      BY <3>1, SeqNat
    <3>3. x.era \in Nat
      BY <3>1, FixSessionAssumption
    <3> QED
      BY <3>2, <3>3
  <2>4. store.era \in Nat /\ store.sender \in Nat
    BY <1>7, <1>8, <1>11, SeqNumbers
  <2>5. ASSUME NEW i \in 1..Len(store'.log)
        PROVE  /\ store'.log[i].era <= store.era
               /\ store'.log[i].era = store.era => store'.log[i].seq < store.sender + 1
    <3>1. CASE i + d = Len(store.log) + 1
      BY <1>18, <2>2, <2>4, <3>1
    <3>2. CASE i + d # Len(store.log) + 1
      <4>1. i + d \in 1..Len(store.log) /\ store'.log[i] = store.log[i + d]
        BY <1>18, <2>0, <3>2
      <4>2. /\ store'.log[i] \in Entry /\ store'.log[i].era <= store.era
            /\ store'.log[i].era = store.era => store'.log[i].seq < store.sender
        <5>1. PICK k \in 1..Len(store.log) : store'.log[i] = store.log[k]
          BY <4>1, Zenon
        <5>2. /\ store.log[k] \in Entry /\ store.log[k].era <= store.era
              /\ store.log[k].era = store.era => store.log[k].seq < store.sender
          BY <2>1
        <5> QED
          BY <5>1, <5>2
      <4>3. store'.log[i].seq \in Nat
        BY <2>3, <4>2
      <4> QED
        BY <2>4, <4>2, <4>3
    <3> QED
      BY <3>1, <3>2
  <2>6. ASSUME NEW i \in 1..Len(store'.log), NEW j \in 1..Len(store'.log), i < j,
               store'.log[i].era = store'.log[j].era
        PROVE  store'.log[i].seq < store'.log[j].seq
    <3>1. i + d \in 1..Len(store.log) /\ store'.log[i] = store.log[i + d] /\ i + d < j + d
      BY <1>18, <2>0, <2>6
    <3>2. CASE j + d = Len(store.log) + 1
      <4>1. store'.log[j] = e
        BY <1>18, <2>6, <3>2
      <4>2. store'.log[i].era = store.era => store'.log[i].seq < store.sender
        <5>1. PICK k \in 1..Len(store.log) : store'.log[i] = store.log[k]
          BY <3>1, Zenon
        <5>2. store.log[k].era = store.era => store.log[k].seq < store.sender
          BY <2>1
        <5> QED
          BY <5>1, <5>2
      <4> QED
        BY <2>2, <2>6, <4>1, <4>2
    <3>3. CASE j + d # Len(store.log) + 1
      <4>1. j + d \in 1..Len(store.log) /\ store'.log[j] = store.log[j + d]
        BY <1>18, <2>0, <3>3
      <4>2. DOMAIN store.log = 1..Len(store.log)
        BY <1>11
      <4> QED
        BY <1>1, <2>6, <3>1, <4>1, <4>2 DEF InvLog, NumbersNotReused
    <3> QED
      BY <3>2, <3>3
  <2>7. DOMAIN store'.log = 1..Len(store'.log)
    BY <2>0
  <2>8. NumbersNotReused'
    BY <1>7, <1>15, <2>5, <2>6, <2>7 DEF NumbersNotReused
  <2> QED
    BY <1>1, <1>15, <2>5, <2>8 DEF InvLog
<1>23. ConsumedIsAnswered'
  BY <1>1, <1>15, <1>16 DEF ConsumedIsAnswered
<1>24. claimed' \in [Seq1 -> Order \cup {None}] /\ Len(store'.log) <= LogLimit
  BY <1>1, <1>14, <1>15, <1>16 DEF InvTypes
<1> QED
  BY <1>4, <1>9, <1>15, <1>16, <1>17, <1>21, <1>22, <1>23, <1>24, StoreMoves

\* persist_counters, consume_inbound: the durable expectation catches up with the one in memory,
\* and past the number that is consumed.
LEMMA SaveInv ==
    ASSUME Inv, NEW c \in Conn, conn[c].todo # <<>>, ~Exhausted(conn[c]), SaveStep(c) \/ ConsumeStep(c),
           UNCHANGED <<lease, mail, journaled, revoked>>
    PROVE  Inv' /\ store'.target >= store.target
<1> DEFINE f == conn[c]
<1>1. InvTypes /\ InvConn /\ InvLog /\ ConsumedIsAnswered
  BY DEF Inv
<1>2. f \in Fsm /\ store \in Store /\ Len(store.log) <= LogLimit
  BY <1>1 DEF InvTypes
<1>3. f.sender \in Seq1 /\ f.target \in Seq1 /\ f.phase \in Phases /\ f.todo # <<>>
  BY <1>2, FsmFacts
<1>4. /\ Head(f.todo) = f.todo[1] /\ Tail(f.todo) \in Seq(Ops)
      /\ 1 \in 1..Len(f.todo)
  <2>1. Head(f.todo) = f.todo[1] /\ Tail(f.todo) \in Seq(Ops) /\ Len(f.todo) >= 1
    BY <1>2, <1>3, RestFacts
  <2> QED
    BY <1>2, <2>1, FsmFacts
<1>5. PICK k \in {0, 1}, p \in Phases :
        /\ f.todo[1].op = IF k = 0 THEN "save" ELSE "consume"
        /\ p = IF k = 0 THEN f.phase ELSE Resumed(f.phase)
        /\ store' = [store EXCEPT !.sender = f.sender, !.target = f.target + k]
        /\ conn' = [conn EXCEPT ![c] = [f EXCEPT !.target = f.target + k, !.phase = p,
                                                 !.todo = Tail(f.todo)]]
  <2>1. CASE SaveStep(c)
    <3>1. f.target + 0 = f.target
      <4>1. f.target \in Nat
        BY <1>3, SeqNat
      <4> QED
        BY <4>1
    <3>2. [f EXCEPT !.target = f.target, !.phase = f.phase, !.todo = Tail(f.todo)] = Rest(f)
      BY <1>2 DEF Rest, Fsm
    <3>3. /\ f.todo[1].op = "save" /\ store' = [store EXCEPT !.sender = f.sender, !.target = f.target]
          /\ conn' = [conn EXCEPT ![c] = Rest(f)]
      BY <1>4, <2>1 DEF SaveStep, SaveCounters
    <3> HIDE DEF f
    <3> QED
      BY <1>3, <3>1, <3>2, <3>3
  <2>2. CASE ConsumeStep(c)
    <3> DEFINE h == [f EXCEPT !.target = @ + 1, !.phase = Resumed(@)]
    <3>1. h.todo = f.todo /\ h.sender = f.sender /\ h.target = f.target + 1
      BY <1>2 DEF Fsm
    <3>2. [f EXCEPT !.target = f.target + 1, !.phase = Resumed(f.phase), !.todo = Tail(f.todo)] = Rest(h)
      BY <1>2, <3>1 DEF Rest, Fsm
    <3>3. Head(h.todo).op = "consume" /\ store' = SaveCounters(h) /\ conn' = [conn EXCEPT ![c] = Rest(h)]
      BY <2>2 DEF ConsumeStep
    <3> HIDE DEF h
    <3>4. /\ f.todo[1].op = "consume"
          /\ store' = [store EXCEPT !.sender = f.sender, !.target = f.target + 1]
      BY <1>4, <3>1, <3>3 DEF SaveCounters
    <3>5. Resumed(f.phase) \in Phases
      BY <1>3 DEF Resumed, Phases
    <3> HIDE DEF f
    <3>6. conn' = [conn EXCEPT ![c] = [f EXCEPT !.target = f.target + 1, !.phase = Resumed(f.phase),
                                              !.todo = Tail(f.todo)]]
      BY <3>2, <3>3
    <3>7. 1 \in {0, 1} /\ 1 # 0
      OBVIOUS
    <3> QED
      BY <3>4, <3>5, <3>6, <3>7
  <2> QED
    BY <2>1, <2>2
<1> DEFINE g == [f EXCEPT !.target = f.target + k, !.phase = p, !.todo = Tail(f.todo)]
<1>6. f.todo[1].op \notin {"close", "emit", "reset"}
  BY <1>5
<1>7. lease = c /\ f.waits = None /\ \A m \in mail : m[2] = None
  BY <1>3, <1>4, <1>6, HandlerHolds
<1>8. Holder(f, store, claimed, Done) /\ ~Resetting(f)
  BY <1>1, <1>6, <1>7 DEF InvConn, Resetting
<1>9. CountersOK(f, store, claimed, Done) /\ TodoOK(f, claimed) /\ f.phase \in {"Active", "AwaitingResend", "Closing"}
  BY <1>8 DEF Holder
<1>10. /\ f.target + k \in Seq1 /\ f.target + k >= f.target
       /\ k = 1 => claimed[f.target] = None
  <2>1. CASE k = 0
    BY <1>3, <2>1, SeqNumbers DEF Seq1
  <2>2. CASE k = 1
    <3>1. f.target # MaxSeq
      BY <1>4, <1>5, <2>2 DEF Exhausted
    <3>2. claimed[f.target] = None
      BY <1>4, <1>5, <1>9, <2>2 DEF TodoOK
    <3> QED
      BY <1>3, <2>2, <3>1, <3>2, SeqNumbers DEF Seq1
  <2> QED
    BY <2>1, <2>2
<1>11. p \in {"Active", "AwaitingResend", "Closing"}
  BY <1>5, <1>9 DEF Resumed
<1>12. g \in Fsm
  BY <1>2, <1>4, <1>10 DEF Fsm
<1>13. /\ g.todo = Tail(f.todo) /\ g.waits = None /\ g.target = f.target + k /\ g.phase = p
       /\ g.sender = f.sender
  BY <1>2, <1>7 DEF Fsm
<1>14. /\ store.sender \in Seq1 /\ store.target \in Seq1 /\ store.log \in Seq(Entry)
       /\ store.era \in 1..(MaxResets + 1) /\ store.resets \in 0..MaxResets
  BY <1>2 DEF Store
<1>15. f.sender = store.sender /\ store.target <= f.target
  BY <1>9 DEF CountersOK
<1>16. /\ store' \in Store /\ store'.log = store.log /\ store'.sender = f.sender
       /\ store'.target = f.target + k /\ store'.era = store.era /\ store'.resets = store.resets
  BY <1>2, <1>3, <1>5, <1>10 DEF Store
<1>17. refused' = refused /\ claimed' = claimed /\ Done' = Done
  BY DEF SaveStep, ConsumeStep, Done
<1>18. conn' = [conn EXCEPT ![c] = g]
  BY <1>5
<1> HIDE DEF g, f
<1>19. TodoOK(g, claimed') /\ ~Resetting(g)
  <2>1. (g.target = f.target /\ claimed' = claimed) \/ f.todo[1].op = "consume"
    <3>1. CASE k = 0
      <4>1. f.target \in Nat
        BY <1>3, SeqNat
      <4>2. g.target = f.target
        BY <1>13, <3>1, <4>1
      <4> QED
        BY <1>17, <4>2
    <3>2. CASE k = 1
      BY <1>5, <3>2
    <3> QED
      BY <3>1, <3>2
  <2> QED
    BY <1>2, <1>3, <1>9, <1>12, <1>13, <2>1, TodoRest
<1>20. CountersOK(g, store', claimed', Done')
  <2>1. g.sender = store'.sender /\ store'.target <= g.target /\ store'.target = g.target /\ g.target \in Nat
    <3>1. f.target + k \in Nat
      BY <1>10, SeqNat
    <3> QED
      BY <1>13, <1>16, <3>1
  <2> QED
    BY <2>1 DEF CountersOK
<1>21. Holder(g, store', claimed', Done')
  BY <1>11, <1>13, <1>19, <1>20 DEF Holder
<1>22. InvLog'
  BY <1>1, <1>15, <1>16 DEF InvLog, NumbersNotReused
<1>23. ConsumedIsAnswered'
  <2>1. ASSUME NEW n \in Seq1, claimed[n] # None, n < f.target + k PROVE claimed[n] \in Done
    <3>1. CASE n < store.target
      BY <1>1, <2>1, <3>1 DEF ConsumedIsAnswered, Done
    <3>2. CASE n >= store.target /\ n < f.target
      <4>1. n \in store.target..(f.target - 1)
        <5>1. n \in Nat /\ f.target \in Nat /\ store.target \in Nat
          BY <1>3, <1>14, SeqNat
        <5> QED
          BY <3>2, <5>1
      <4>2. claimed[n] \in Done \/ claimed[n] = f.waits \/ Rejecting(f, claimed[n])
        BY <1>9, <2>1, <4>1 DEF CountersOK
      <4> QED
        BY <1>6, <1>7, <2>1, <4>2 DEF Rejecting
    <3>3. CASE n = f.target
      <4>1. k = 1
        BY <1>3, <2>1, <3>3, SeqNumbers
      <4> QED
        BY <1>10, <2>1, <3>3, <4>1
    <3>4. n < store.target \/ (n >= store.target /\ n < f.target) \/ n = f.target
      <4>1. n \in Nat /\ f.target \in Nat /\ store.target \in Nat
        BY <1>3, <1>14, SeqNumbers
      <4>2. n < f.target + 1
        BY <2>1, <4>1
      <4> QED
        BY <1>15, <4>1, <4>2
    <3> QED
      BY <3>1, <3>2, <3>3, <3>4
  <2> QED
    BY <1>16, <1>17, <2>1 DEF ConsumedIsAnswered, Done
<1>24. claimed' \in [Seq1 -> Order \cup {None}] /\ Len(store'.log) <= LogLimit /\ refused' \subseteq Order
  BY <1>1, <1>2, <1>16, <1>17 DEF InvTypes
<1>25. Inv'
  BY <1>7, <1>12, <1>16, <1>18, <1>21, <1>22, <1>23, <1>24, StoreMoves
<1>26. store'.target >= store.target
  <2>1. f.target \in Nat /\ store.target \in Nat /\ f.target + k \in Nat
    BY <1>3, <1>10, <1>14, SeqNumbers
  <2> QED
    BY <1>10, <1>15, <1>16, <2>1
<1> QED
  BY <1>25, <1>26

\* record_reset: the counters of the reset become durable, and the client numbers afresh.
LEMMA ResetInv ==
    ASSUME Inv, NEW c \in Conn, conn[c].todo # <<>>, ResetStep(c),
           UNCHANGED <<lease, mail, journaled, revoked>>
    PROVE  Inv' /\ store'.resets > store.resets
<1> DEFINE f == conn[c]
           g == Rest(f)
           o == f.todo[1]
<1>1. InvTypes /\ InvConn /\ InvLog /\ ConsumedIsAnswered
  BY DEF Inv
<1>2. f \in Fsm /\ store \in Store /\ Len(store.log) <= LogLimit /\ f.todo # <<>>
  BY <1>1 DEF InvTypes
<1>3. /\ Head(f.todo) = o /\ o \in Ops /\ o.op = "reset"
      /\ Tail(f.todo) \in Seq(Ops)
  BY <1>2, RestFacts DEF ResetStep
<1>4. lease = c /\ f.waits = None /\ \A m \in mail : m[2] = None
  BY <1>2, <1>3, HandlerHolds
<1>5. Holder(f, store, claimed, Done) /\ Resetting(f)
  BY <1>1, <1>2, <1>3, <1>4 DEF InvConn, Resetting
<1>6. ResetOK(f, store) /\ TodoOK(f, claimed) /\ f.phase \in {"Active", "AwaitingResend", "Closing"}
  BY <1>5 DEF Holder
<1>7. /\ o.target \in Seq1 /\ o.trigger \in {"LogonReset", "SequenceReset"}
      /\ f.sender \in Seq1 /\ f.target \in Seq1
  BY <1>2, <1>3, OpFacts, FsmFacts
<1>8. /\ store.resets < MaxResets /\ o.target <= f.target
      /\ f.sender = store.sender \/ o.trigger = "LogonReset"
  BY <1>6 DEF ResetOK
<1>9. g \in Fsm
  BY <1>2, <1>3 DEF Rest, Fsm
<1>10. /\ g.todo = Tail(f.todo) /\ g.waits = None /\ g.target = f.target /\ g.phase = f.phase
       /\ g.sender = f.sender
  BY <1>2, <1>4 DEF Rest, Fsm
<1>11. /\ store.sender \in Seq1 /\ store.target \in Seq1 /\ store.log \in Seq(Entry)
       /\ store.era \in 1..(MaxResets + 1) /\ store.resets \in 0..MaxResets
  BY <1>2 DEF Store
<1> DEFINE era == IF o.trigger = "LogonReset" THEN store.era + 1 ELSE store.era
<1>12. store' = [store EXCEPT !.sender = f.sender, !.target = o.target, !.resets = store.resets + 1, !.era = era]
  BY <1>3 DEF ResetStep, RecordReset
<1>13. /\ store.era \in Nat /\ store.resets \in Nat /\ MaxResets \in Nat
       /\ store.era <= store.resets + 1 /\ store.era >= 1
  BY <1>1, <1>11, FixSessionAssumption DEF InvLog
<1>14. /\ era \in 1..(MaxResets + 1) /\ store.resets + 1 \in 0..MaxResets
       /\ era <= store.resets + 1 + 1 /\ era >= store.era
       /\ era = store.era => o.trigger # "LogonReset"
  BY <1>8, <1>13
<1> HIDE DEF era
<1>15. /\ store' \in Store /\ store'.log = store.log /\ store'.sender = f.sender
       /\ store'.target = o.target /\ store'.era = era /\ store'.resets = store.resets + 1
  BY <1>2, <1>7, <1>12, <1>14 DEF Store
<1>16. refused' = refused /\ claimed' = [n \in Seq1 |-> None] /\ Done' = Done
  BY DEF ResetStep, Done
<1>17. conn' = [conn EXCEPT ![c] = g]
  BY DEF ResetStep
<1> HIDE DEF g, f
<1>18. TodoOK(g, claimed') /\ ~Resetting(g)
  BY <1>2, <1>6, <1>9, <1>10, <1>16, TodoRest
<1>19. CountersOK(g, store', claimed', Done')
  <2>1. g.sender = store'.sender /\ store'.target <= g.target
    BY <1>8, <1>10, <1>15
  <2>2. ASSUME NEW n \in store'.target..(g.target - 1) PROVE claimed'[n] = None
    <3>1. store'.target \in Nat /\ g.target \in Nat /\ g.target <= MaxSeq /\ store'.target >= 1
      BY <1>7, <1>10, <1>15, SeqNat
    <3>2. n \in Seq1
      BY <2>2, <3>1, FixSessionAssumption DEF Seq1
    <3> QED
      BY <1>16, <3>2
  <2> QED
    BY <2>1, <2>2 DEF CountersOK
<1>20. Holder(g, store', claimed', Done')
  BY <1>6, <1>10, <1>18, <1>19 DEF Holder
<1>21. InvLog'
  <2>1. Len(store.log) \in Nat /\ DOMAIN store.log = 1..Len(store.log)
    BY <1>11
  <2>2. ASSUME NEW i \in 1..Len(store.log)
        PROVE  /\ store.log[i].era <= era
               /\ store.log[i].era = era => store.log[i].seq < f.sender
    <3>1. /\ store.log[i].era <= store.era
          /\ store.log[i].era = store.era => store.log[i].seq < store.sender
      BY <1>1, <2>1 DEF InvLog, NumbersNotReused
    <3>2. store.log[i].era \in 1..(MaxResets + 1)
      <4>1. store.log[i] \in Entry
        BY <1>11
      <4> QED
        BY <4>1 DEF Entry
    <3>3. store.log[i].era \in Nat /\ era \in Nat
      BY <1>13, <1>14, <3>2
    <3>4. store.log[i].era <= era
      BY <1>13, <1>14, <3>1, <3>3
    <3>5. ASSUME store.log[i].era = era PROVE store.log[i].seq < f.sender
      <4>1. era = store.era
        BY <1>13, <1>14, <3>1, <3>3, <3>5
      <4> QED
        BY <1>8, <1>14, <3>1, <3>5, <4>1
    <3> QED
      BY <3>4, <3>5
  <2>3. NumbersNotReused'
    BY <1>1, <1>15, <2>1, <2>2 DEF InvLog, NumbersNotReused
  <2> QED
    BY <1>14, <1>15, <2>2, <2>3 DEF InvLog
<1>22. ConsumedIsAnswered'
  BY <1>16 DEF ConsumedIsAnswered
<1>23. claimed' \in [Seq1 -> Order \cup {None}] /\ Len(store'.log) <= LogLimit /\ refused' \subseteq Order
  BY <1>1, <1>2, <1>15, <1>16 DEF InvTypes
<1>24. Inv'
  BY <1>4, <1>9, <1>15, <1>17, <1>20, <1>21, <1>22, <1>23, StoreMoves
<1> QED
  BY <1>13, <1>15, <1>24

\* The next store operation of a handler succeeds. Only a reset moves the durable expectation back.
LEMMA StoreOpStep ==
    ASSUME Inv, NEW c \in Conn, StoreStep(c)
    PROVE  Inv' /\ (store'.target < store.target => store'.resets > store.resets)
<1>1. CASE EmitStep(c)
  <2>1. Inv'
    BY <1>1, EmitInv DEF StoreStep
  <2>2. store \in Store
    BY DEF Inv, InvTypes
  <2>3. store'.target = store.target /\ store.target \in Seq1
    BY <1>1, <2>2 DEF EmitStep, StoreOutbound, Store
  <2>4. store.target \in Nat
    BY <2>3, SeqNat
  <2> QED
    BY <2>1, <2>3, <2>4
<1>2. CASE SaveStep(c) \/ ConsumeStep(c)
  <2>1. Inv' /\ store'.target >= store.target
    BY <1>2, SaveInv DEF StoreStep
  <2>2. store.target \in Nat /\ store'.target \in Nat
    <3>1. store \in Store /\ store' \in Store
      BY <2>1 DEF Inv, InvTypes
    <3>2. store.target \in Seq1 /\ store'.target \in Seq1
      BY <3>1 DEF Store
    <3> QED
      BY <3>2, SeqNat
  <2> QED
    BY <2>1, <2>2
<1>3. CASE ResetStep(c)
  BY <1>3, ResetInv DEF StoreStep
<1> QED
  BY <1>1, <1>2, <1>3 DEF StoreStep

-----------------------------------------------------------------------------
(* The theorems.                                                            *)

\* Every step but a store operation leaves the store alone.
LEMMA InvStep ==
    ASSUME Inv, [Next]_vars
    PROVE  Inv' /\ (store'.target < store.target => store'.resets > store.resets)
<1>1. ASSUME store' = store PROVE ~(store'.target < store.target)
  <2>1. store.target \in Seq1
    BY DEF Inv, InvTypes, Store
  <2>2. store.target \in Nat
    BY <2>1, SeqNat
  <2> QED
    BY <1>1, <2>2
<1>2. ASSUME NEW c \in Conn, Client(c) PROVE Inv' /\ store' = store
  <2>1. CASE Logon(c) \/ Abandon(c)
    <3>1. Inv'
      BY <2>1, LifeStep
    <3> QED
      BY <2>1, <3>1 DEF Logon, Abandon
  <2>2. CASE \/ \E n \in Seq1 : GapFill(c, n) \/ SequenceReset(c, n)
             \/ \E k \in Order : RouteOrder(c, k) \/ RefuseOrder(c, k)
    <3>1. Inv'
      BY <2>2, MovingStep
    <3> QED
      BY <2>2, <3>1 DEF GapFill, SequenceReset, RouteOrder, RefuseOrder, Handle
  <2>3. CASE \/ Gap(c) \/ Duplicate(c) \/ Malformed(c) \/ DropRevoked(c)
             \/ Quiet(c) \/ Answered(c) \/ Read(c) \/ Logout(c)
    <3>1. Inv'
      BY <2>3, PlainStep
    <3> QED
      BY <2>3, <3>1 DEF Gap, Duplicate, Malformed, DropRevoked, Quiet, Answered, Read, Logout, Handle
  <2> QED
    BY <1>2, <2>1, <2>2, <2>3 DEF Client
<1>3. ASSUME NEW c \in Conn, Session(c)
      PROVE  Inv' /\ (store'.target < store.target => store'.resets > store.resets)
  <2>1. CASE StoreStep(c)
    BY <2>1, StoreOpStep
  <2>2. CASE Seal(c) \/ CloseStep(c) \/ Accept(c) \/ Verified(c) \/ Disconnect(c) \/ Timeout(c)
    <3>1. Inv'
      BY <2>2, LifeStep
    <3>2. store' = store
      BY <2>2 DEF Seal, CloseStep, Accept, Verified, Disconnect, Timeout
    <3> QED
      BY <1>1, <3>1, <3>2
  <2>3. CASE Admits(c)
    <3>1. PICK n \in Seq1, reset \in BOOLEAN : Admit(c, n, reset)
      BY <2>3 DEF Admits
    <3>2. Inv'
      BY <3>1, AdmitStep
    <3>3. store' = store
      BY <3>1 DEF Admit
    <3> QED
      BY <1>1, <3>2, <3>3
  <2>4. CASE \E beat \in BOOLEAN : Tick(c, beat)
    <3>1. PICK beat \in BOOLEAN : Tick(c, beat)
      BY <2>4
    <3>2. Inv'
      BY <3>1, TickStep
    <3>3. store' = store
      BY <3>1 DEF Tick
    <3> QED
      BY <1>1, <3>2, <3>3
  <2> QED
    BY <1>3, <2>1, <2>2, <2>3, <2>4 DEF Session
<1>4. ASSUME NEW m \in mail, Commit(m) \/ SubmitFails(m) PROVE Inv' /\ store' = store
  <2>1. Inv'
    BY <1>4, AnswerStep
  <2> QED
    BY <1>4, <2>1 DEF Commit, SubmitFails
<1>5. ASSUME TimePasses \/ Revoke \/ Crash PROVE Inv' /\ store' = store
  <2>1. Inv'
    BY <1>5, VenueStep
  <2> QED
    BY <1>5, <2>1 DEF TimePasses, Revoke, Crash
<1>6. ASSUME UNCHANGED vars PROVE Inv' /\ store' = store
  <2>1. UNCHANGED <<store, lease, conn, mail, journaled, refused, claimed, revoked>>
    BY <1>6 DEF vars
  <2>2. conn' \in [Conn -> Fsm] /\ revoked' \in BOOLEAN
    BY <2>1 DEF Inv, InvTypes
  <2>3. Inv'
    BY <2>1, <2>2, Unmoved
  <2> QED
    BY <2>1, <2>3
<1> QED
  BY <1>1, <1>2, <1>3, <1>4, <1>5, <1>6 DEF Next

LEMMA InitInv == Init => Inv
<1> SUFFICES ASSUME Init PROVE Inv
  OBVIOUS
<1>1. NewFsm("Closed") \in Fsm /\ Outside(NewFsm("Closed"))
  BY NewFacts
<1>2. conn \in [Conn -> Fsm] /\ \A c \in Conn : Outside(conn[c]) /\ lease # c
  BY <1>1, FixSessionAssumption DEF Init
<1>3. 1 \in Seq1 /\ <<>> \in Seq(Entry) /\ 1 \in 1..(MaxResets + 1) /\ 0 \in 0..MaxResets
  BY SeqNumbers
<1>4. store \in Store /\ store.log = <<>> /\ store.era = 1 /\ store.resets = 0 /\ store.sender = 1
  BY <1>3 DEF Init, Store
<1>5. Len(store.log) = 0 /\ 0 <= LogLimit /\ DOMAIN store.log = {}
  BY <1>4, FixSessionAssumption
<1>6. InvTypes
  BY <1>2, <1>4, <1>5 DEF Init, InvTypes
<1>7. InvConn /\ InvMail
  BY <1>2 DEF Init, InvConn, InvMail
<1>8. InvLog
  BY <1>4, <1>5 DEF InvLog, NumbersNotReused
<1>9. ConsumedIsAnswered
  BY DEF Init, ConsumedIsAnswered
<1> QED
  BY <1>6, <1>7, <1>8, <1>9 DEF Inv

LEMMA InvAlways == Spec => []Inv
<1>1. Inv /\ [Next]_vars => Inv'
  BY InvStep
<1> QED
  BY InitInv, <1>1, PTL DEF Spec

\* SequenceNumbersSound, for any number of connections and orders, any largest number, any bound
\* of the log and wherever a store operation fails, a connection ends or the process dies: no
\* number of an era is given to two frames (store_outbound_and_advance, record_reset), and the one
\* session that holds the key (SessionLeaseRegistry) numbers from the durable counter.
THEOREM NumbersAlwaysSound == Spec => []SequenceNumbersSound
<1>1. Inv => SequenceNumbersSound
  <2> SUFFICES ASSUME Inv PROVE SequenceNumbersSound
    OBVIOUS
  <2>1. InvTypes /\ InvConn /\ InvLog
    BY DEF Inv
  <2>2. TypeOK
    <3>1. /\ store.sender \in Seq1 /\ store.target \in Seq1 /\ store.log \in Seq(Entry)
          /\ store.era \in 1..(MaxResets + 1) /\ store.resets \in 0..MaxResets
      BY <2>1 DEF InvTypes, Store
    <3>2. ASSUME NEW c \in Conn
          PROVE  /\ conn[c].phase \in Phases /\ conn[c].probe \in Probes
                 /\ conn[c].sender \in Seq1 /\ conn[c].target \in Seq1
                 /\ conn[c].todo \in Seq(Ops) /\ conn[c].waits \in Order \cup {None}
                 /\ {conn[c].epoch, conn[c].quietIn, conn[c].gone} \subseteq BOOLEAN
      <4>1. conn[c] \in Fsm
        BY <2>1 DEF InvTypes
      <4> QED
        BY <4>1, FsmFacts
    <3> QED
      BY <2>1, <3>1, <3>2 DEF InvTypes, TypeOK, Entry
  <2>3. LiveCountersInStep
    <3>1. ASSUME NEW c \in Conn, Admitted(c)
          PROVE  /\ lease = c
                 /\ conn[c].todo = <<>> => conn[c].sender = store.sender /\ conn[c].target >= store.target
      <4>1. lease = c
        BY <2>1, <3>1 DEF InvConn, Outside, Admitted
      <4>2. Holder(conn[c], store, claimed, Done)
        BY <2>1, <4>1 DEF InvConn
      <4>3. ASSUME conn[c].todo = <<>> PROVE conn[c].sender = store.sender /\ store.target <= conn[c].target
        BY <4>2, <4>3 DEF Holder, Resetting, CountersOK
      <4>4. conn[c].target \in Nat /\ store.target \in Nat
        <5>1. conn[c] \in Fsm /\ store.target \in Seq1
          BY <2>1 DEF InvTypes, Store
        <5> QED
          BY <5>1, FsmFacts, SeqNat
      <4> QED
        BY <4>1, <4>3, <4>4
    <3> QED
      BY <3>1 DEF LiveCountersInStep
  <2> QED
    BY <2>1, <2>2, <2>3 DEF InvLog, SequenceNumbersSound
<1> QED
  BY InvAlways, <1>1, PTL

\* ConsumedIsAnswered: an order whose number is durably consumed is journaled or its reject is
\* stored, since route_order leaves the inbound number in memory until the reports are stored,
\* and every other save finds the numbers it passes answered.
THEOREM ConsumedAlwaysAnswered == Spec => []ConsumedIsAnswered
<1>1. Inv => ConsumedIsAnswered
  BY DEF Inv
<1> QED
  BY InvAlways, <1>1, PTL

\* TargetMovesBackAudited: of all operations on the store only record_reset can lower the durable
\* inbound expectation, and it writes its audit entry with it.
THEOREM OnlyResetsMoveBack == Spec => TargetMovesBackAudited
<1>1. Inv /\ [Next]_vars => [store'.target < store.target => store'.resets > store.resets]_vars
  BY InvStep
<1> QED
  BY InvAlways, <1>1, PTL DEF Spec, TargetMovesBackAudited


-----------------------------------------------------------------------------
(* serve_resend: the walk over the stored frames.                           *)

ServeStart(begin, end) ==
    [seq |-> begin, cursor |-> OutboundRange(begin, end), reply |-> <<>>]

IsServing(f, k, begin, end) ==
    f = [i \in 0..k |-> IF i = 0 THEN ServeStart(begin, end) ELSE ServeTurn(f[i - 1], Upper(end))]

\* The loop can be followed for any number of turns.
LEMMA ServingExists ==
    ASSUME NEW k \in Nat, NEW begin, NEW end
    PROVE  \E f : IsServing(f, k, begin, end)
<1> DEFINE Step(f, i) == IF i = 0 THEN ServeStart(begin, end) ELSE ServeTurn(f[i - 1], Upper(end))
           Walked(n) == \E f : f = [i \in 0 .. n |-> Step(f, i)]
           N == {n \in Nat : ~ Walked(n)}
<1> SUFFICES ASSUME ~ Walked(k) PROVE FALSE
  BY DEF IsServing
<1>1. N \in SUBSET Nat /\ N # {}
  OBVIOUS
<1> HIDE DEF N
<1>2. PICK n \in N : \A m \in N : n <= m
  BY <1>1, LeastNatural
<1>3. n \in Nat /\ ~ Walked(n)
  BY <1>2 DEF N
<1>4. CASE n = 0
  <2> DEFINE f == [i \in 0 .. 0 |-> ServeStart(begin, end)]
  <2>1. f = [i \in 0 .. 0 |-> Step(f, i)]
    OBVIOUS
  <2> QED
    BY <1>3, <1>4, <2>1
<1>5. CASE n # 0
  <2>1. n - 1 \in Nat /\ Walked(n - 1)
    <3>1. n - 1 \in Nat /\ ~ (n <= n - 1)
      BY <1>3, <1>5
    <3> HIDE DEF Walked
    <3> QED
      BY <1>2, <3>1 DEF N
  <2>2. PICK g : g = [i \in 0 .. n - 1 |-> Step(g, i)]
    BY <2>1
  <2> DEFINE f == [i \in 0 .. n |-> IF i = n THEN ServeTurn(g[n - 1], Upper(end)) ELSE g[i]]
  <2>3. \A i \in 0 .. n - 1 : i \in 0 .. n /\ i # n /\ f[i] = g[i] /\ g[i] = Step(g, i)
    BY <1>3, <2>1, <2>2
  <2>4. ASSUME NEW i \in 0 .. n PROVE f[i] = Step(f, i)
    <3>1. CASE i = n
      <4>1. n - 1 \in 0 .. n - 1 /\ f[n - 1] = g[n - 1] /\ n \in 0 .. n
        BY <1>3, <2>1, <2>3
      <4> QED
        BY <1>5, <3>1, <4>1
    <3>2. CASE i # n
      <4>1. i \in 0 .. n - 1 /\ f[i] = g[i] /\ g[i] = Step(g, i)
        <5>1. i \in 0 .. n - 1
          BY <1>3, <3>2
        <5> HIDE DEF f, Step
        <5> QED
          BY <2>3, <5>1
      <4>2. CASE i = 0
        BY <4>1, <4>2
      <4>3. CASE i # 0
        <5>1. i - 1 \in 0 .. n - 1 /\ f[i - 1] = g[i - 1]
          BY <1>3, <2>3, <4>1, <4>3
        <5> HIDE DEF f
        <5> QED
          BY <4>1, <4>3, <5>1
      <4> QED
        BY <4>2, <4>3
    <3> QED
      BY <3>1, <3>2
  <2>5. f = [i \in 0 .. n |-> f[i]]
    OBVIOUS
  <2> HIDE DEF f
  <2>6. f = [i \in 0 .. n |-> Step(f, i)]
    BY <2>4, <2>5
  <2> QED
    BY <1>3, <2>6
<1> QED
  BY <1>4, <1>5

\* In the first era the log is sorted as it stands.
Sorted ==
    /\ \A i \in 1..Len(store.log) : store.log[i].seq \in Seq1 /\ store.log[i].seq < store.sender
                                    /\ store.log[i].era \in Nat
    /\ \A i, j \in 1..Len(store.log) : i < j => store.log[i].seq < store.log[j].seq

LEMMA FirstEraIsSorted ==
    ASSUME Inv, store.era = 1
    PROVE  /\ Sorted /\ Len(store.log) \in Nat /\ DOMAIN store.log = 1..Len(store.log)
           /\ Len(store.log) <= LogLimit /\ store.sender \in Seq1
<1>1. store.log \in Seq(Entry) /\ store.sender \in Seq1 /\ Len(store.log) <= LogLimit
  BY DEF Inv, InvTypes, Store
<1>2. Len(store.log) \in Nat /\ DOMAIN store.log = 1..Len(store.log)
      /\ \A i \in 1..Len(store.log) : store.log[i] \in Entry
  BY <1>1
<1>3. ASSUME NEW i \in 1..Len(store.log)
      PROVE  store.log[i].seq \in Seq1 /\ store.log[i].era \in Nat /\ store.log[i].era = 1
  <2>1. store.log[i].seq \in Seq1 /\ store.log[i].era \in 1..(MaxResets + 1)
    BY <1>2 DEF Entry
  <2>2. store.log[i].era <= 1
    BY DEF Inv, InvLog
  <2> QED
    BY <2>1, <2>2, SeqNumbers
<1>4. Sorted
  BY <1>2, <1>3 DEF Sorted, Inv, InvLog, NumbersNotReused
<1> QED
  BY <1>1, <1>2, <1>4

LEMMA PeekIsFirst ==
    ASSUME Sorted, Len(store.log) \in Nat, NEW C \in SUBSET (1..Len(store.log)), C # {}
    PROVE  /\ Peek(C) \in C
           /\ \A j \in C \ {Peek(C)} : PeekSeq(C) < store.log[j].seq
<1>1. PICK i \in C : \A j \in C : i <= j
  <2>1. C \in SUBSET Nat
    OBVIOUS
  <2> QED
    BY <2>1, LeastNatural
<1>2. \A j \in C : SortsBefore(i, j)
  <2> SUFFICES ASSUME NEW j \in C PROVE SortsBefore(i, j)
    OBVIOUS
  <2>1. i = j \/ i < j
    BY <1>1
  <2>2. CASE i = j
    BY <2>2, <1>1 DEF SortsBefore
  <2>3. CASE i < j
    BY <2>3 DEF SortsBefore, Sorted
  <2> QED
    BY <2>1, <2>2, <2>3
<1>3. Peek(C) \in C /\ \A j \in C : SortsBefore(Peek(C), j)
  BY <1>2, Zenon DEF Peek
<1> DEFINE p == Peek(C)
<1>4. ASSUME NEW j \in C \ {p} PROVE store.log[p].seq < store.log[j].seq
  <2>1. p \in 1..Len(store.log) /\ j \in 1..Len(store.log) /\ p # j /\ SortsBefore(p, j)
    BY <1>3
  <2> HIDE DEF p
  <2>2. p < j \/ j < p
    BY <2>1
  <2>3. store.log[p].seq \in Nat /\ store.log[j].seq \in Nat
    BY <2>1, SeqNumbers DEF Sorted
  <2>4. ~ (store.log[j].seq < store.log[p].seq)
    BY <2>1, <2>3 DEF SortsBefore
  <2> QED
    BY <2>1, <2>2, <2>3, <2>4 DEF Sorted
<1> QED
  BY <1>3, <1>4 DEF PeekSeq

Reply == [seq : Nat, to : Nat, era : Nat \cup {None}]
Serving == [seq : Nat, cursor : SUBSET (1..Len(store.log)), reply : Seq(Reply)]

\* The frames an answer entry stands for hold nothing that is stored, unless it replays one.
Honest(e) ==
    e.era = None => \A j \in 1..Len(store.log) :
                      ~ (e.seq <= store.log[j].seq /\ store.log[j].seq < e.to)

\* After some turns: the reply covers the range up to here, and the cursor is at the first
\* stored frame from here on.
ServedTo(s, begin, end) ==
    /\ s \in Serving
    /\ begin <= s.seq /\ s.seq <= Upper(end) + 1
    /\ s.cursor = {i \in OutboundRange(begin, end) : s.seq <= store.log[i].seq}
    /\ s.reply = <<>> => s.seq = begin
    /\ s.reply # <<>> => s.reply[1].seq = begin /\ s.reply[Len(s.reply)].to = s.seq
    /\ \A i \in 1..(Len(s.reply) - 1) : s.reply[i + 1].seq = s.reply[i].to
    /\ \A i \in 1..Len(s.reply) : Honest(s.reply[i])

\* The turns that are left are enough: two a stored frame, and one for the tail.
TurnsLeft(s, i, end) ==
    \/ s.seq > Upper(end)
    \/ i + 2 * Cardinality(s.cursor)
         + (IF s.cursor # {} /\ PeekSeq(s.cursor) = s.seq THEN 0 ELSE 1) <= 2 * LogLimit + 1

\* One more entry at the end of a reply.
LEMMA ReplyGrows ==
    ASSUME NEW r \in Seq(Reply), NEW e \in Reply, NEW begin \in Nat, NEW at \in Nat,
           e.seq = at, Honest(e),
           r = <<>> => at = begin,
           r # <<>> => r[1].seq = begin /\ r[Len(r)].to = at,
           \A i \in 1..(Len(r) - 1) : r[i + 1].seq = r[i].to,
           \A i \in 1..Len(r) : Honest(r[i]),
           NEW t, t = Append(r, e)
    PROVE  /\ t \in Seq(Reply) /\ t # <<>> /\ t[1].seq = begin /\ t[Len(t)].to = e.to
           /\ \A i \in 1..(Len(t) - 1) : t[i + 1].seq = t[i].to
           /\ \A i \in 1..Len(t) : Honest(t[i])
<1>1. t \in Seq(Reply) /\ Len(t) = Len(r) + 1 /\ Len(r) \in Nat
  OBVIOUS
<1>2. t[Len(r) + 1] = e /\ \A i \in 1..Len(r) : t[i] = r[i]
  OBVIOUS
<1>3. r = <<>> <=> Len(r) = 0
  OBVIOUS
<1>4. t # <<>> /\ t[Len(t)].to = e.to
  BY <1>1, <1>2
<1>5. t[1].seq = begin
  <2>1. CASE r = <<>>
    BY <2>1, <1>1, <1>2, <1>3
  <2>2. CASE r # <<>>
    <3>1. 1 \in 1..Len(r)
      BY <2>2, <1>1, <1>3
    <3> QED
      BY <3>1, <2>2, <1>2
  <2> QED
    BY <2>1, <2>2
<1>6. ASSUME NEW i \in 1..(Len(t) - 1) PROVE t[i + 1].seq = t[i].to
  <2>1. i \in 1..Len(r) /\ Len(r) # 0
    BY <1>1
  <2>2. CASE i = Len(r)
    BY <2>1, <2>2, <1>1, <1>2, <1>3
  <2>3. CASE i # Len(r)
    <3>1. i + 1 \in 1..Len(r) /\ i \in 1..(Len(r) - 1)
      BY <2>1, <2>3, <1>1
    <3> QED
      BY <3>1, <2>1, <1>2
  <2> QED
    BY <2>2, <2>3
<1>7. ASSUME NEW i \in 1..Len(t) PROVE Honest(t[i])
  <2>1. i = Len(r) + 1 \/ i \in 1..Len(r)
    BY <1>1
  <2> QED
    BY <2>1, <1>2
<1> QED
  BY <1>1, <1>4, <1>5, <1>6, <1>7

LEMMA UpperType ==
    ASSUME store.sender \in Seq1, NEW end \in 0..MaxSeq
    PROVE  Upper(end) \in Nat /\ Upper(end) < store.sender /\ (end = 0 \/ Upper(end) <= end)
           /\ \A n \in Nat : n < store.sender /\ (end = 0 \/ n <= end) => n <= Upper(end)
BY SeqNumbers DEF Upper, Seq1

LEMMA RangeFacts ==
    ASSUME Sorted, Len(store.log) \in Nat, DOMAIN store.log = 1..Len(store.log),
           store.sender \in Seq1, NEW begin \in Seq1, NEW end \in 0..MaxSeq
    PROVE  /\ OutboundRange(begin, end) \subseteq 1..Len(store.log)
           /\ \A j \in 1..Len(store.log) :
                begin <= store.log[j].seq /\ store.log[j].seq <= Upper(end)
                  => j \in OutboundRange(begin, end)
           /\ \A j \in OutboundRange(begin, end) :
                begin <= store.log[j].seq /\ store.log[j].seq <= Upper(end)
<1>1. \A j \in 1..Len(store.log) : store.log[j].seq \in Nat /\ store.log[j].seq < store.sender
  BY SeqNumbers DEF Sorted
<1>2. Upper(end) \in Nat /\ Upper(end) < store.sender /\ (end = 0 \/ Upper(end) <= end)
           /\ \A n \in Nat : n < store.sender /\ (end = 0 \/ n <= end) => n <= Upper(end)
  BY UpperType
<1>3. begin \in Nat /\ end \in Nat
  BY SeqNumbers
<1>4. OutboundRange(begin, end) \subseteq 1..Len(store.log)
  BY DEF OutboundRange
<1>5. ASSUME NEW j \in 1..Len(store.log), begin <= store.log[j].seq, store.log[j].seq <= Upper(end)
      PROVE  j \in OutboundRange(begin, end)
  BY <1>1, <1>2, <1>3, <1>5 DEF OutboundRange
<1>6. ASSUME NEW j \in OutboundRange(begin, end)
      PROVE  begin <= store.log[j].seq /\ store.log[j].seq <= Upper(end)
  <2>1. j \in 1..Len(store.log) /\ begin <= store.log[j].seq /\ (end = 0 \/ store.log[j].seq <= end)
    BY <1>1, <1>3, <1>4 DEF OutboundRange
  <2> QED
    BY <2>1, <1>1, <1>2
<1> QED
  BY <1>4, <1>5, <1>6

\* One turn of the loop.
LEMMA TurnServes ==
    ASSUME Sorted, Len(store.log) \in Nat, DOMAIN store.log = 1..Len(store.log),
           store.sender \in Seq1, NEW begin \in Seq1, NEW end \in 0..MaxSeq,
           NEW s, ServedTo(s, begin, end), NEW i \in Nat, TurnsLeft(s, i, end),
           NEW t, t = ServeTurn(s, Upper(end))
    PROVE  ServedTo(t, begin, end) /\ TurnsLeft(t, i + 1, end)
<1> DEFINE U == Upper(end)
           R == OutboundRange(begin, end)
           L == Len(store.log)
<1>u. U \in Nat /\ begin \in Nat /\ L \in Nat /\ LogLimit \in Nat
  BY UpperType, SeqNumbers, FixSessionAssumption
<1>r. /\ R \subseteq 1..L
      /\ \A j \in 1..L : begin <= store.log[j].seq /\ store.log[j].seq <= U => j \in R
      /\ \A j \in R : begin <= store.log[j].seq /\ store.log[j].seq <= U
  BY RangeFacts
<1>l. \A j \in 1..L : store.log[j].seq \in Nat /\ store.log[j].era \in Nat
  BY SeqNumbers DEF Sorted
<1>s. /\ s \in Serving /\ s.seq \in Nat /\ s.reply \in Seq(Reply)
      /\ begin <= s.seq /\ s.seq <= U + 1
      /\ s.cursor = {j \in R : s.seq <= store.log[j].seq}
  BY DEF ServedTo, Serving
<1>f. IsFiniteSet(s.cursor) /\ Cardinality(s.cursor) \in Nat
  <2>1. s.cursor \subseteq 1..L
    BY <1>s DEF Serving
  <2>2. IsFiniteSet(1..L)
    <3> HIDE DEF L
    <3>1. 1 \in Int /\ L \in Int
      BY <1>u
    <3> QED
      BY <3>1, FS_Interval
  <2> QED
    BY <2>1, <2>2, FS_Subset, FS_CardinalityType
<1>h. /\ s.reply = <<>> => s.seq = begin
      /\ s.reply # <<>> => s.reply[1].seq = begin /\ s.reply[Len(s.reply)].to = s.seq
      /\ \A k \in 1..(Len(s.reply) - 1) : s.reply[k + 1].seq = s.reply[k].to
      /\ \A k \in 1..Len(s.reply) : Honest(s.reply[k])
  BY DEF ServedTo
<1> HIDE DEF U, R, L
<1>1. CASE s.seq > U
  <2>1. t = s
    BY <1>1 DEF ServeTurn, U
  <2> QED
    BY <2>1, <1>1 DEF TurnsLeft, U
<1>2. CASE s.seq <= U /\ s.cursor # {} /\ PeekSeq(s.cursor) = s.seq
  <2> DEFINE p == Peek(s.cursor)
             e == [seq |-> s.seq, to |-> s.seq + 1, era |-> store.log[p].era]
  <2>1. p \in s.cursor /\ \A j \in s.cursor \ {p} : s.seq < store.log[j].seq
    <3>1. s.cursor \in SUBSET (1..Len(store.log))
      BY <1>s, <1>r DEF L
    <3> QED
      BY <1>2, <3>1, PeekIsFirst
  <2>2. p \in 1..L /\ p \in R /\ store.log[p].seq = s.seq
    BY <2>1, <1>s, <1>r, <1>2 DEF PeekSeq
  <2>3. t = [seq |-> s.seq + 1, cursor |-> s.cursor \ {p}, reply |-> Append(s.reply, e)]
    <3>1. ~ (s.seq > U)
      BY <1>2, <1>u, <1>s
    <3> QED
      BY <3>1, <1>2 DEF ServeTurn, U
  <2>4. e \in Reply /\ e.seq = s.seq /\ e.to = s.seq + 1 /\ Honest(e)
    <3>1. store.log[p].era \in Nat /\ store.log[p].era # None
      BY <2>2, <1>l, FixSessionAssumption
    <3> QED
      BY <3>1, <1>s DEF Reply, Honest
  <2> DEFINE c == s.cursor \ {p}
             r == Append(s.reply, e)
  <2>5. c = {j \in R : s.seq + 1 <= store.log[j].seq}
    <3>1. ASSUME NEW j \in c PROVE j \in R /\ s.seq + 1 <= store.log[j].seq
      <4>1. j \in R /\ j \in 1..L /\ s.seq < store.log[j].seq
        BY <2>1, <1>s, <1>r
      <4> QED
        BY <4>1, <1>l, <1>s
    <3>2. ASSUME NEW j \in R, s.seq + 1 <= store.log[j].seq PROVE j \in c
      <4>1. j \in 1..L
        BY <1>r
      <4>2. s.seq <= store.log[j].seq /\ store.log[j].seq # s.seq
        BY <4>1, <3>2, <1>l, <1>s
      <4> QED
        BY <4>2, <2>2, <1>s
    <3> QED
      BY <3>1, <3>2
  <2>6. IsFiniteSet(c) /\ Cardinality(c) = Cardinality(s.cursor) - 1
    BY <2>1, <1>f, FS_RemoveElement
  <2> HIDE DEF e, p
  <2>7. /\ r \in Seq(Reply) /\ r # <<>> /\ r[1].seq = begin /\ r[Len(r)].to = e.to
        /\ \A k \in 1..(Len(r) - 1) : r[k + 1].seq = r[k].to
        /\ \A k \in 1..Len(r) : Honest(r[k])
    <3>1. r = Append(s.reply, e)
      OBVIOUS
    <3>2. e \in Reply /\ e.seq = s.seq /\ Honest(e)
      BY <2>4
    <3> HIDE DEF r, e
    <3> QED
      BY <3>1, <3>2, <1>h, <1>s, <1>u, ReplyGrows
  <2>8. t.seq = s.seq + 1 /\ t.cursor = c /\ t.reply = r /\ t \in Serving
    <3>1. c \in SUBSET (1..Len(store.log)) /\ s.seq + 1 \in Nat
      BY <1>s DEF Serving
    <3> HIDE DEF c, r
    <3> QED
      BY <2>3, <2>7, <3>1 DEF Serving, c, r
  <2> HIDE DEF r
  <2>9. ServedTo(t, begin, end)
    <3>1. begin <= s.seq + 1 /\ s.seq + 1 <= U + 1
      BY <1>2, <1>s, <1>u
    <3>2. t.cursor = {j \in R : t.seq <= store.log[j].seq}
      BY <2>5, <2>8
    <3> HIDE DEF c
    <3> QED
      BY <2>4, <2>7, <2>8, <3>1, <3>2 DEF ServedTo, U, R
  <2>10. TurnsLeft(t, i + 1, end)
    <3>1. i + 2 * Cardinality(s.cursor) <= 2 * LogLimit + 1 \/ s.seq > U
      BY <1>2, <1>f DEF TurnsLeft, U
    <3>2. i + 2 * Cardinality(s.cursor) <= 2 * LogLimit + 1
      BY <3>1, <1>2, <1>s, <1>u
    <3> DEFINE x == IF t.cursor # {} /\ PeekSeq(t.cursor) = t.seq THEN 0 ELSE 1
    <3>3. x \in {0, 1}
      OBVIOUS
    <3> HIDE DEF x
    <3>4. i + 1 + 2 * Cardinality(c) + x <= 2 * LogLimit + 1
      BY <3>2, <3>3, <2>6, <1>f, <1>u
    <3> QED
      BY <3>4, <2>8 DEF TurnsLeft, x
  <2> QED
    BY <2>9, <2>10
<1>3. CASE s.seq <= U /\ ~ (s.cursor # {} /\ PeekSeq(s.cursor) = s.seq)
  <2> DEFINE to == GapEnd(s.cursor, U)
             e == [seq |-> s.seq, to |-> to, era |-> None]
             r == Append(s.reply, e)
  <2>1. t = [s EXCEPT !.seq = to, !.reply = r]
    <3>1. ~ (s.seq > U)
      BY <1>3, <1>u, <1>s
    <3> QED
      BY <3>1, <1>3 DEF ServeTurn, U
  <2>2. /\ to \in Nat /\ s.seq < to /\ to <= U + 1
        /\ \A j \in s.cursor : to <= store.log[j].seq
        /\ to > U \/ (s.cursor # {} /\ PeekSeq(s.cursor) = to)
    <3>1. CASE s.cursor # {}
      <4> DEFINE p == Peek(s.cursor)
      <4>1. s.cursor \in SUBSET (1..Len(store.log))
        BY <1>s, <1>r DEF L
      <4>2. p \in s.cursor /\ \A j \in s.cursor \ {p} : PeekSeq(s.cursor) < store.log[j].seq
        BY <3>1, <4>1, PeekIsFirst
      <4>3. p \in 1..L /\ p \in R /\ s.seq <= store.log[p].seq /\ store.log[p].seq <= U
        BY <4>2, <1>s, <1>r
      <4>4. PeekSeq(s.cursor) = store.log[p].seq
        BY DEF PeekSeq
      <4> HIDE DEF p
      <4>5. PeekSeq(s.cursor) \in Nat /\ PeekSeq(s.cursor) # s.seq /\ PeekSeq(s.cursor) <= U
            /\ s.seq <= PeekSeq(s.cursor)
        BY <4>3, <4>4, <1>3, <3>1, <1>l
      <4>6. to = PeekSeq(s.cursor)
        BY <4>5, <3>1 DEF GapEnd
      <4>7. ASSUME NEW j \in s.cursor PROVE to <= store.log[j].seq
        <5>1. j \in 1..L /\ (j = p \/ PeekSeq(s.cursor) < store.log[j].seq)
          BY <4>2, <4>1 DEF L
        <5> QED
          BY <5>1, <4>4, <4>5, <4>6, <1>l
      <4> QED
        BY <4>5, <4>6, <4>7, <3>1, <1>s, <1>u
    <3>2. CASE s.cursor = {}
      <4>1. to = U + 1
        BY <3>2 DEF GapEnd
      <4> QED
        BY <4>1, <3>2, <1>s, <1>u, <1>3
    <3> QED
      BY <3>1, <3>2
  <2> HIDE DEF to
  <2>3. e \in Reply /\ e.seq = s.seq /\ e.to = to /\ Honest(e)
    <3>1. ASSUME NEW j \in 1..Len(store.log), s.seq <= store.log[j].seq, store.log[j].seq < to
          PROVE  FALSE
      <4>1. j \in 1..L /\ store.log[j].seq \in Nat
        BY <1>l DEF L
      <4>2. begin <= store.log[j].seq /\ store.log[j].seq <= U
        BY <4>1, <3>1, <2>2, <1>s, <1>u
      <4>3. j \in s.cursor
        BY <4>1, <4>2, <3>1, <1>r, <1>s
      <4> QED
        BY <4>3, <4>1, <3>1, <2>2
    <3>2. e \in Reply /\ e.seq = s.seq /\ e.to = to
      BY <1>s, <2>2 DEF Reply
    <3> HIDE DEF e
    <3> QED
      BY <3>1, <3>2 DEF Honest
  <2> HIDE DEF e
  <2>4. /\ r \in Seq(Reply) /\ r # <<>> /\ r[1].seq = begin /\ r[Len(r)].to = e.to
        /\ \A k \in 1..(Len(r) - 1) : r[k + 1].seq = r[k].to
        /\ \A k \in 1..Len(r) : Honest(r[k])
    <3>1. r = Append(s.reply, e)
      OBVIOUS
    <3>2. e \in Reply /\ e.seq = s.seq /\ Honest(e)
      BY <2>3
    <3> HIDE DEF r, e
    <3> QED
      BY <3>1, <3>2, <1>h, <1>s, <1>u, ReplyGrows
  <2> HIDE DEF r
  <2>5. t.seq = to /\ t.cursor = s.cursor /\ t.reply = r /\ t \in Serving
    BY <2>1, <2>2, <2>4, <1>s DEF Serving
  <2>6. s.cursor = {j \in R : to <= store.log[j].seq}
    <3>1. ASSUME NEW j \in s.cursor PROVE j \in R /\ to <= store.log[j].seq
      BY <2>2, <1>s
    <3>2. ASSUME NEW j \in R, to <= store.log[j].seq PROVE j \in s.cursor
      <4>1. j \in 1..L /\ store.log[j].seq \in Nat
        BY <1>r, <1>l
      <4>2. s.seq <= store.log[j].seq
        BY <4>1, <3>2, <2>2, <1>s
      <4> QED
        BY <4>2, <1>s
    <3> QED
      BY <3>1, <3>2
  <2>7. ServedTo(t, begin, end)
    <3>1. begin <= to /\ to <= U + 1
      BY <2>2, <1>s, <1>u
    <3>2. t.cursor = {j \in R : t.seq <= store.log[j].seq}
      BY <2>5, <2>6
    <3> QED
      BY <2>3, <2>4, <2>5, <3>1, <3>2 DEF ServedTo, U, R
  <2>8. TurnsLeft(t, i + 1, end)
    <3>1. CASE to > U
      BY <3>1, <2>5 DEF TurnsLeft, U
    <3>2. CASE s.cursor # {} /\ PeekSeq(s.cursor) = to
      <4>1. i + 2 * Cardinality(s.cursor) + 1 <= 2 * LogLimit + 1 \/ s.seq > U
        BY <1>3 DEF TurnsLeft, U
      <4>2. i + 2 * Cardinality(s.cursor) + 1 <= 2 * LogLimit + 1
        BY <4>1, <1>3, <1>s, <1>u
      <4>3. i + 1 + 2 * Cardinality(s.cursor) + 0 <= 2 * LogLimit + 1
        BY <4>2, <1>f, <1>u
      <4> QED
        BY <4>3, <3>2, <2>5 DEF TurnsLeft
    <3> QED
      BY <3>1, <3>2, <2>2
  <2> QED
    BY <2>7, <2>8
<1> QED
  BY <1>1, <1>2, <1>3, <1>s, <1>u

\* The reply of serve_resend to any range.
LEMMA ResendServes ==
    ASSUME Inv, store.era = 1, NEW begin \in Seq1, NEW end \in 0..MaxSeq
    PROVE  LET reply == ServeResend(begin, end)
               upper == Upper(end)
               stored == {store.log[i].seq : i \in DOMAIN store.log}
           IN  IF begin > upper THEN reply = <<>>
               ELSE /\ reply # <<>> /\ reply[1].seq = begin /\ Last(reply).to = upper + 1
                    /\ \A i \in 1..(Len(reply) - 1) : reply[i + 1].seq = reply[i].to
                    /\ \A i \in DOMAIN reply :
                         reply[i].era = None => stored \cap (reply[i].seq..(reply[i].to - 1)) = {}
<1> DEFINE K == 2 * LogLimit + 1
           U == Upper(end)
           w == CHOOSE f : IsServing(f, K, begin, end)
<1>0. /\ Sorted /\ Len(store.log) \in Nat /\ DOMAIN store.log = 1..Len(store.log)
      /\ Len(store.log) <= LogLimit /\ store.sender \in Seq1
  BY FirstEraIsSorted
<1>k. K \in Nat /\ U \in Nat /\ begin \in Nat /\ LogLimit \in Nat
  BY <1>0, UpperType, SeqNumbers, FixSessionAssumption
<1>1. ServeResend(begin, end) = w[K].reply
  BY DEF ServeResend, IsServing, ServeStart
<1> HIDE DEF K, U
<1>2. w = [i \in 0..K |-> IF i = 0 THEN ServeStart(begin, end) ELSE ServeTurn(w[i - 1], U)]
  <2>1. \E f : IsServing(f, K, begin, end)
    BY <1>k, ServingExists
  <2>2. IsServing(w, K, begin, end)
    BY <2>1
  <2> QED
    BY <2>2 DEF IsServing, U
<1> HIDE DEF w
<1>3. w[0] = ServeStart(begin, end) /\ \A i \in 1..K : w[i] = ServeTurn(w[i - 1], U)
  <2>1. 0 \in 0..K /\ \A i \in 1..K : i \in 0..K /\ i # 0
    BY <1>k
  <2> QED
    BY <1>2, <2>1
<1>4. CASE begin > U
  <2> DEFINE N == {n \in Nat : n <= K /\ w[n] # ServeStart(begin, end)}
  <2>1. N = {}
    <3> SUFFICES ASSUME N # {} PROVE FALSE
      OBVIOUS
    <3> HIDE DEF N
    <3>1. PICK n \in N : \A m \in N : n <= m
      BY LeastNatural DEF N
    <3>2. n \in Nat /\ n <= K /\ w[n] # ServeStart(begin, end)
      BY <3>1 DEF N
    <3>3. n \in 1..K /\ n - 1 \in Nat /\ n - 1 <= K /\ ~ (n <= n - 1)
      BY <3>2, <1>3, <1>k
    <3>4. w[n - 1] = ServeStart(begin, end)
      BY <3>1, <3>3 DEF N
    <3>5. ServeStart(begin, end).seq = begin
      BY DEF ServeStart
    <3> QED
      BY <3>2, <3>3, <3>4, <3>5, <1>3, <1>4 DEF ServeTurn
  <2>2. w[K] = ServeStart(begin, end)
    BY <2>1, <1>k
  <2> QED
    BY <2>2, <1>1, <1>4 DEF ServeStart, U
<1>5. CASE ~ (begin > U)
  <2> DEFINE N == {n \in Nat : n <= K /\ ~ (ServedTo(w[n], begin, end) /\ TurnsLeft(w[n], n, end))}
  <2>1. ServedTo(w[0], begin, end) /\ TurnsLeft(w[0], 0, end)
    <3> DEFINE s == ServeStart(begin, end)
               R == OutboundRange(begin, end)
    <3>1. s.seq = begin /\ s.cursor = R /\ s.reply = <<>>
      BY DEF ServeStart
    <3>2. R \subseteq 1..Len(store.log) /\ \A j \in R : begin <= store.log[j].seq
      BY <1>0, RangeFacts
    <3>3. s \in Serving
      <4>1. <<>> \in Seq(Reply)
        OBVIOUS
      <4> QED
        BY <3>2, <4>1, <1>k DEF ServeStart, Serving
    <3> HIDE DEF s
    <3>4. ServedTo(s, begin, end)
      <4>1. s.cursor = {j \in R : s.seq <= store.log[j].seq}
        BY <3>1, <3>2
      <4>2. begin <= s.seq /\ s.seq <= U + 1
        BY <3>1, <1>k, <1>5
      <4>3. Len(s.reply) = 0
        BY <3>1
      <4> QED
        BY <3>1, <3>3, <4>1, <4>2, <4>3 DEF ServedTo, U
    <3>5. Cardinality(R) \in Nat /\ Cardinality(R) <= LogLimit
      <4>1. 1 \in Int /\ Len(store.log) \in Int
        BY <1>0
      <4>2. IsFiniteSet(1..Len(store.log)) /\ Cardinality(1..Len(store.log)) = Len(store.log)
        BY <4>1, <1>0, FS_Interval
      <4>3. IsFiniteSet(R) /\ Cardinality(R) <= Cardinality(1..Len(store.log))
        BY <3>2, <4>2, FS_Subset
      <4> QED
        BY <4>2, <4>3, <1>0, <1>k, FS_CardinalityType
    <3> DEFINE x == IF s.cursor # {} /\ PeekSeq(s.cursor) = s.seq THEN 0 ELSE 1
    <3>6. x \in {0, 1}
      OBVIOUS
    <3> HIDE DEF x, R
    <3>7. 0 + 2 * Cardinality(R) + x <= 2 * LogLimit + 1
      BY <3>5, <3>6, <1>k
    <3>8. TurnsLeft(s, 0, end)
      BY <3>1, <3>7 DEF TurnsLeft, x
    <3> QED
      BY <3>4, <3>8, <1>3 DEF s
  <2>2. N = {}
    <3> SUFFICES ASSUME N # {} PROVE FALSE
      OBVIOUS
    <3> HIDE DEF N
    <3>1. PICK n \in N : \A m \in N : n <= m
      BY LeastNatural DEF N
    <3>2. n \in Nat /\ n <= K /\ ~ (ServedTo(w[n], begin, end) /\ TurnsLeft(w[n], n, end))
      BY <3>1 DEF N
    <3>3. n \in 1..K /\ n - 1 \in Nat /\ n - 1 <= K /\ ~ (n <= n - 1) /\ (n - 1) + 1 = n
      BY <3>2, <2>1, <1>k
    <3>4. ServedTo(w[n - 1], begin, end) /\ TurnsLeft(w[n - 1], n - 1, end)
      BY <3>1, <3>3 DEF N
    <3>5. w[n] = ServeTurn(w[n - 1], Upper(end))
      BY <3>3, <1>3 DEF U
    <3>6. ServedTo(w[n], begin, end) /\ TurnsLeft(w[n], (n - 1) + 1, end)
      BY <3>3, <3>4, <3>5, <1>0, TurnServes
    <3> QED
      BY <3>2, <3>3, <3>6
  <2> DEFINE s == w[K]
             r == s.reply
  <2>3. ServedTo(s, begin, end) /\ TurnsLeft(s, K, end)
    BY <2>2, <1>k
  <2> HIDE DEF s
  <2>4. s \in Serving /\ s.seq \in Nat /\ r \in Seq(Reply) /\ begin <= s.seq /\ s.seq <= U + 1
    BY <2>3 DEF ServedTo, Serving, U
  <2>5. s.seq > U
    <3> SUFFICES ASSUME ~ (s.seq > U) PROVE FALSE
      OBVIOUS
    <3> DEFINE x == IF s.cursor # {} /\ PeekSeq(s.cursor) = s.seq THEN 0 ELSE 1
    <3>1. K + 2 * Cardinality(s.cursor) + x <= 2 * LogLimit + 1
      BY <2>3 DEF TurnsLeft, U
    <3>2. IsFiniteSet(s.cursor) /\ Cardinality(s.cursor) \in Nat
      <4>1. 1 \in Int /\ Len(store.log) \in Int
        BY <1>0
      <4>2. IsFiniteSet(1..Len(store.log))
        BY <4>1, FS_Interval
      <4>3. s.cursor \subseteq 1..Len(store.log)
        BY <2>4 DEF Serving
      <4> QED
        BY <4>2, <4>3, FS_Subset, FS_CardinalityType
    <3>3. x \in {0, 1} /\ (x = 0 => s.cursor # {})
      OBVIOUS
    <3> HIDE DEF x
    <3>4. x = 0 /\ Cardinality(s.cursor) = 0
      BY <3>1, <3>2, <3>3, <1>k DEF K
    <3> QED
      BY <3>2, <3>3, <3>4, FS_EmptySet
  <2>6. s.seq = U + 1 /\ s.seq # begin
    BY <2>4, <2>5, <1>5, <1>k
  <2>7. /\ r # <<>> /\ r[1].seq = begin /\ r[Len(r)].to = U + 1
        /\ \A i \in 1..(Len(r) - 1) : r[i + 1].seq = r[i].to
        /\ \A i \in 1..Len(r) : Honest(r[i])
    BY <2>3, <2>6 DEF ServedTo
  <2>8. ASSUME NEW i \in DOMAIN r, r[i].era = None
        PROVE  {store.log[j].seq : j \in DOMAIN store.log} \cap (r[i].seq..(r[i].to - 1)) = {}
    <3>1. i \in 1..Len(r) /\ r[i] \in Reply
      BY <2>4
    <3>2. r[i].seq \in Nat /\ r[i].to \in Nat
      BY <3>1 DEF Reply
    <3>3. \A j \in 1..Len(store.log) :
            ~ (r[i].seq <= store.log[j].seq /\ store.log[j].seq < r[i].to)
      BY <3>1, <2>7, <2>8 DEF Honest
    <3>4. ASSUME NEW j \in DOMAIN store.log, store.log[j].seq \in r[i].seq..(r[i].to - 1)
          PROVE  FALSE
      <4>1. store.log[j].seq \in Nat /\ j \in 1..Len(store.log)
        BY <1>0, SeqNumbers DEF Sorted
      <4> QED
        BY <3>2, <3>3, <3>4, <4>1
    <3> QED
      BY <3>4
  <2>9. ServeResend(begin, end) = r
    BY <1>1 DEF s
  <2> HIDE DEF r
  <2> QED
    BY <1>5, <2>7, <2>8, <2>9 DEF Last, U
<1> QED
  BY <1>4, <1>5

\* The reply to a ResendRequest (serve_resend, outbound_range), for any log limit, any range and
\* whatever was evicted from the log: it starts at the number asked for, walks to the last
\* number the venue has used without a hole, and fills no gap over a stored frame, as long as
\* no logon has reset the numbers.
THEOREM ResendAlwaysComplete == Spec => []ResendIsComplete
<1>1. ASSUME Inv PROVE ResendIsComplete
  BY <1>1, ResendServes DEF ResendIsComplete
<1> QED
  BY <1>1, InvAlways, PTL
==============================================================================
