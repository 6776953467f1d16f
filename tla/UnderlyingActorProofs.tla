------------------------ MODULE UnderlyingActorProofs ------------------------
(***************************************************************************)
(* Machine-checked facts about UnderlyingActor, for every executor, every  *)
(* set of commands and every bound on sequences and time; and about        *)
(* SnapshotRestore, for any interleaving of turns, captures, restores,     *)
(* journal faults, crashes and recoveries, provided the tail read-back of  *)
(* an ambiguous append can be trusted; and about ActorMailbox, for every   *)
(* finite set of callers and every capacity of the mailbox.                *)
(***************************************************************************)
EXTENDS SnapshotRestore, ActorMailbox, SequenceTheorems, TLAPS

-----------------------------------------------------------------------------
(* Helper facts.                                                            *)

\* Extending the history by one executed command keeps it a history of books.
LEMMA ExtendType ==
    ASSUME NEW tr \in [0 .. MaxSeq + 1 -> Book], NEW n \in Seqs, NEW c \in Command
    PROVE  Extend(tr, n, c) \in [0 .. MaxSeq + 1 -> Book]
BY BoundsAssumption, ExecutorAssumption DEF Extend, Seqs

\* The history after an append is a history of books, whatever the slot holds.
LEMMA TraceAfterType ==
    ASSUME TypeOK, NEW n \in Seqs, NEW slots \in [Seqs -> CommandRecord \cup {None}],
           slots[n] = commands[n] \/ slots[n] \in CommandRecord
    PROVE  TraceAfter(slots, n) \in [0 .. MaxSeq + 1 -> Book]
<1>1. CASE slots[n] = commands[n]
  BY <1>1 DEF TraceAfter, TypeOK
<1>2. CASE slots[n] \in CommandRecord
  <2>1. slots[n].cmd \in Command
    BY <1>2 DEF CommandRecord
  <2>2. Extend(trace, n, slots[n].cmd) \in [0 .. MaxSeq + 1 -> Book]
    BY <2>1, ExtendType DEF TypeOK
  <2> QED
    BY <2>2 DEF TraceAfter, TypeOK
<1> QED
  BY <1>1, <1>2

\* A projection of one outcome leaves a well-typed store.
LEMMA ProjectType ==
    ASSUME NEW store \in [Seqs -> Result \cup {None}], NEW n \in Seqs, NEW o \in Result
    PROVE  Project(store, n, o) \in [Seqs -> Result \cup {None}]
BY DEF Project
-----------------------------------------------------------------------------
(* Type correctness.                                                        *)

\* A freshly started venue is well typed.
LEMMA TypeInit == Init => TypeOK
BY BoundsAssumption, ExecutorAssumption
   DEF Init, TypeOK, EmptySlots, Seqs, Times

\* The write-ahead step of a turn keeps the types, whatever the append answers.
LEMMA TypeSubmit ==
    ASSUME TypeOK, NEW c \in Command, Submit(c)
    PROVE  TypeOK'
<1> DEFINE n == nextSequence
           rec == [cmd |-> c, ts |-> clock]
<1>1. n \in Seqs /\ rec \in CommandRecord
  BY DEF TypeOK, Submit, Ready, CommandRecord
<1>2. WriteAheadCommand(rec) /\ trace' = TraceAfter(commands', n)
  BY DEF Submit
<1>3. /\ commands' \in [Seqs -> CommandRecord \cup {None}]
      /\ commands'[n] = commands[n] \/ commands'[n] \in CommandRecord
      /\ inflight' \subseteq CommandAppend \cup EventAppend
  <2>1. commands \in [Seqs -> CommandRecord \cup {None}]
    BY DEF TypeOK
  <2>2. \A late \in LateAppends("command", n, rec) : late \subseteq CommandAppend
    BY <1>1 DEF LateAppends, CommandAppend
  <2>3. commands' \in {commands, [commands EXCEPT ![n] = rec]} \cup Settled(commands, n, rec)
    BY <1>2 DEF WriteAheadCommand
  <2>4. \A t \in {commands, [commands EXCEPT ![n] = rec]} \cup Settled(commands, n, rec) :
           /\ t \in [Seqs -> CommandRecord \cup {None}]
           /\ t[n] = commands[n] \/ t[n] \in CommandRecord
    BY <1>1, <2>1 DEF Settled, Insert
  <2>5. inflight' \subseteq CommandAppend \cup EventAppend
    BY <1>2, <2>2 DEF WriteAheadCommand, TypeOK
  <2> QED
    BY <2>3, <2>4, <2>5
<1>4. trace' \in [0 .. MaxSeq + 1 -> Book]
  BY <1>1, <1>2, <1>3, TraceAfterType
<1>5. \/ pc' = "execute" /\ turn' = rec /\ refused' \subseteq refused
      \/ UNCHANGED <<pc, turn>> /\ refused' = refused \cup {[seq |-> n, rec |-> rec]}
  BY <1>2 DEF WriteAheadCommand, Proceed, Reuse
<1>6. refused' \subseteq [seq : Seqs, rec : CommandRecord]
  BY <1>1, <1>5 DEF TypeOK
<1> QED
  BY <1>1, <1>3, <1>4, <1>5, <1>6 DEF TypeOK, Submit

\* Execution and the event append keep the types.
LEMMA TypeExecute == TypeOK /\ ExecuteAndAppendEvent => TypeOK'
<1> SUFFICES ASSUME TypeOK, ExecuteAndAppendEvent PROVE TypeOK'
  OBVIOUS
<1> DEFINE n == nextSequence
           evt == [cmd |-> turn.cmd, ts |-> turn.ts, outcome |-> Outcome(book, turn.cmd)]
<1>1. n \in Seqs /\ turn \in CommandRecord /\ book \in Book
  BY DEF TypeOK, ExecuteAndAppendEvent, TurnEvent
<1>2. evt \in EventRecord /\ NextBook(book, turn.cmd) \in Book
  BY <1>1, ExecutorAssumption DEF CommandRecord, EventRecord
<1>3. events' \in [Seqs -> EventRecord \cup {None}]
  <2>1. events' = [events EXCEPT ![n] = evt] \/ events' \in Settled(events, n, evt)
    BY DEF ExecuteAndAppendEvent, TurnEvent
  <2> QED
    BY <1>1, <1>2, <2>1 DEF TypeOK, Settled, Insert
<1>4. \A late \in LateAppends("event", n, evt) : late \subseteq EventAppend
  BY <1>1, <1>2 DEF LateAppends, EventAppend
<1>5. inflight' \subseteq CommandAppend \cup EventAppend
  BY <1>4 DEF ExecuteAndAppendEvent, TurnEvent, TypeOK
<1>6. \/ pc' = "fanout" /\ turn' = evt /\ sealed' = sealed
      \/ pc' = "idle" /\ turn' = turn /\ sealed' = "JournalUnavailable"
  BY DEF ExecuteAndAppendEvent, TurnEvent, EventAppendFailed, Seal
<1> QED
  BY <1>1, <1>2, <1>3, <1>5, <1>6 DEF TypeOK, ExecuteAndAppendEvent, TurnEvent, SealReason

\* Fan-out keeps the types: the sequence advances inside its range or the actor seals.
LEMMA TypeFanOut == TypeOK /\ (FanOutAndAdvance \/ ProjectionFails) => TypeOK'
<1> SUFFICES ASSUME TypeOK, FanOutAndAdvance \/ ProjectionFails PROVE TypeOK'
  OBVIOUS
<1>1. nextSequence \in Seqs /\ turn \in EventRecord
  BY DEF TypeOK, FanOutAndAdvance, ProjectionFails
<1>2. turn.outcome \in Result /\ turn.cmd \in Command
  BY <1>1 DEF EventRecord
<1>3. /\ Project(executions, nextSequence, turn.outcome) \in [Seqs -> Result \cup {None}]
      /\ Project(positions, nextSequence, turn.outcome) \in [Seqs -> Result \cup {None}]
  BY <1>1, <1>2, ProjectType DEF TypeOK
<1>4. CASE FanOutAndAdvance
  <2>1. nextSequence' \in Seqs /\ pc' = "idle" /\ sealed' \in SealReason \cup {None}
    BY <1>1, <1>4, BoundsAssumption DEF FanOutAndAdvance, Advance, Seal, SealReason, TypeOK, Seqs
  <2>2. acked' \subseteq [seq : Seqs, cmd : Command, outcome : Result]
    BY <1>1, <1>2, <1>4 DEF FanOutAndAdvance, TypeOK
  <2>3. nextSequence' \in 0 .. MaxSeq + 1
    BY <2>1, BoundsAssumption DEF Seqs
  <2> QED
    BY <1>3, <1>4, <2>1, <2>2, <2>3 DEF FanOutAndAdvance, TypeOK, journal
<1>5. CASE ProjectionFails
  BY <1>3, <1>5 DEF ProjectionFails, TypeOK, journal, Seal, SealReason
<1> QED
  BY <1>4, <1>5

\* An append that lands late keeps the types.
LEMMA TypeLate == TypeOK /\ (LateCommandLands \/ LateEventLands) => TypeOK'
<1> SUFFICES ASSUME TypeOK, LateCommandLands \/ LateEventLands PROVE TypeOK'
  OBVIOUS
<1>1. CASE LateCommandLands
  <2>1. PICK a \in inflight :
          /\ a.kind = "command"
          /\ commands' = Insert(commands, a.seq, a.rec)
          /\ trace' = TraceAfter(commands', a.seq)
          /\ inflight' = inflight \ {a}
    BY <1>1 DEF LateCommandLands
  <2>2. a.seq \in Seqs /\ a.rec \in CommandRecord
    BY <2>1 DEF TypeOK, CommandAppend, EventAppend
  <2>3. /\ commands' \in [Seqs -> CommandRecord \cup {None}]
        /\ commands'[a.seq] = commands[a.seq] \/ commands'[a.seq] \in CommandRecord
    BY <2>1, <2>2 DEF Insert, TypeOK
  <2>4. trace' \in [0 .. MaxSeq + 1 -> Book]
    BY <2>1, <2>2, <2>3, TraceAfterType
  <2> QED
    BY <1>1, <2>1, <2>3, <2>4 DEF LateCommandLands, TypeOK, process
<1>2. CASE LateEventLands
  <2>1. PICK a \in inflight :
          /\ a.kind = "event"
          /\ events' = Insert(events, a.seq, a.rec)
          /\ inflight' = inflight \ {a}
    BY <1>2 DEF LateEventLands
  <2>2. a.seq \in Seqs /\ a.rec \in EventRecord
    BY <2>1 DEF TypeOK, CommandAppend, EventAppend
  <2>3. events' \in [Seqs -> EventRecord \cup {None}]
    BY <2>1, <2>2 DEF Insert, TypeOK
  <2> QED
    BY <1>2, <2>1, <2>3 DEF LateEventLands, TypeOK, process, history
<1> QED
  BY <1>1, <1>2

\* One iteration of the recovery walk keeps the types.
LEMMA TypeReplay == TypeOK /\ ReplayCommand => TypeOK'
<1> SUFFICES ASSUME TypeOK, ReplayCommand PROVE TypeOK'
  OBVIOUS
<1> DEFINE n == nextSequence
           c == commands[n].cmd
<1>1. n \in Seqs /\ commands[n] \in CommandRecord
  BY DEF TypeOK, ReplayCommand
<1>2. c \in Command /\ NextBook(book, c) \in Book /\ Outcome(book, c) \in Result
  BY <1>1, ExecutorAssumption DEF CommandRecord, TypeOK
<1>3. /\ Project(executions, n, Outcome(book, c)) \in [Seqs -> Result \cup {None}]
      /\ Project(positions, n, Outcome(book, c)) \in [Seqs -> Result \cup {None}]
  BY <1>1, <1>2, ProjectType DEF TypeOK
<1>4. n + 1 \in 0 .. MaxSeq + 1
  BY <1>1, BoundsAssumption DEF Seqs
<1> QED
  BY <1>2, <1>3, <1>4 DEF ReplayCommand, TypeOK, journal, history

\* Crash, boot, the rest of the walk and the clock keep the types.
LEMMA TypeRest ==
    TypeOK /\ (Crash \/ Boot \/ Resume \/ Tick \/ UNCHANGED vars) => TypeOK'
<1> SUFFICES ASSUME TypeOK, Crash \/ Boot \/ Resume \/ Tick \/ UNCHANGED vars
             PROVE  TypeOK'
  OBVIOUS
<1>1. CASE Crash
  BY <1>1, BoundsAssumption, ExecutorAssumption
     DEF Crash, TypeOK, journal, history, EmptySlots, Seqs
<1>2. CASE Boot
  BY <1>2 DEF Boot, TypeOK, journal, history
<1>4. CASE Resume
  <2>1. MaxSeq \in 0 .. MaxSeq + 1
    BY BoundsAssumption
  <2> QED
    BY <1>4, <2>1 DEF Resume, TypeOK, journal, history
<1>5. CASE Tick
  BY <1>5, BoundsAssumption DEF Tick, TypeOK, journal, process, history, Times
<1>6. CASE UNCHANGED vars
  BY <1>6 DEF vars, TypeOK
<1> QED
  BY <1>1, <1>2, <1>4, <1>5, <1>6

\* Every step keeps the types.
LEMMA TypeStep == TypeOK /\ [Next]_vars => TypeOK'
BY TypeSubmit, TypeExecute, TypeFanOut, TypeLate, TypeReplay, TypeRest DEF Next

\* Type correctness of the actor, its journal and its recovery, under every fault
\* the journal can show (ReadBackReliable or not).
THEOREM TypeCorrect == Spec => []TypeOK
<1>1. Init => TypeOK
  BY TypeInit
<1>2. TypeOK /\ [Next]_vars => TypeOK'
  BY TypeStep
<1> QED
  BY <1>1, <1>2, PTL DEF Spec
-----------------------------------------------------------------------------
(* The inductive invariant behind the safety theorems. NoCursorGap,          *)
(* EventPairsCommand, AckedIsDurable and BookIsReplay speak of a live actor; *)
(* what makes them inductive is what is true of the journal while the        *)
(* process is down or walking it, and of the turn in progress.               *)

\* Nothing is in flight, nothing marks an epoch, and only a live process is in a
\* turn or sealed.
InvShape ==
    /\ inflight = {} /\ markers = EmptySlots
    /\ status # "live" => pc = "idle" /\ sealed = None
    /\ sealed # None => pc = "idle"
    /\ status # "corrupt"

\* The durable commands have no gap, whether or not a process is up.
Contiguous ==
    \A m, n \in Seqs : m < n /\ commands[n] # None => commands[m] # None

\* Past the last durable command the history does not change any more.
TraceIsFlat ==
    \A m, k \in 0 .. MaxSeq + 1 :
        m <= k /\ (\A j \in Seqs : m <= j => commands[j] = None) => trace[k] = trace[m]

\* A process that is down has lost its volatile state.
InvDown ==
    status = "down" =>
        book = InitBook /\ nextSequence = 0 /\ executions = EmptySlots /\ positions = EmptySlots

\* The recovery walk has re-executed exactly the commands before its position.
InvWalk ==
    status = "recovering" =>
        /\ book = trace[nextSequence]
        /\ \A n \in Seqs : n < nextSequence => commands[n] # None

\* Both stores hold the fills of the sequences before nextSequence.
InvStores ==
    status = "recovering" \/ (status = "live" /\ sealed = None) =>
        \A n \in Seqs :
            /\ executions[n] = IF n < nextSequence THEN OrderedFill(n) ELSE None
            /\ positions[n] = IF n < nextSequence THEN OrderedFill(n) ELSE None

\* The record a turn carries is the durable one.
InvTurn ==
    /\ pc = "execute" => commands[nextSequence] = turn
    /\ pc = "fanout" => events[nextSequence] = turn

\* A refused command is not durable.
InvRefused == \A r \in refused : commands[r.seq] # r.rec

ReliableInv ==
    /\ TypeOK /\ InvShape
    /\ Contiguous /\ NoCursorGap
    /\ TraceIsFlat /\ BookIsReplay /\ InvDown /\ InvWalk
    /\ EventPairsCommand /\ AckedIsDurable
    /\ InvStores /\ InvTurn /\ InvRefused

\* The inductive invariant holds of a freshly started venue.
LEMMA ReliableInit == Init => ReliableInv
<1> SUFFICES ASSUME Init PROVE ReliableInv
  OBVIOUS
<1>1. TypeOK
  BY TypeInit
<1>2. \A n \in Seqs : n + 1 \in 0 .. MaxSeq + 1 /\ n \in 0 .. MaxSeq + 1
  BY BoundsAssumption DEF Seqs
<1>3. InvShape /\ Contiguous /\ NoCursorGap /\ InvDown /\ InvWalk
  BY NoneAssumption DEF Init, InvShape, Contiguous, NoCursorGap, InvDown, InvWalk, EmptySlots, Seqs
<1>4. TraceIsFlat /\ BookIsReplay
  BY <1>2, BoundsAssumption
     DEF Init, TraceIsFlat, BookIsReplay, TraceIsReplay, BookPosition, EmptySlots, Seqs
<1>5. EventPairsCommand /\ AckedIsDurable /\ InvTurn /\ InvRefused
  BY DEF Init, EventPairsCommand, AckedIsDurable, InvTurn, InvRefused, EmptySlots
<1>6. InvStores
  BY DEF Init, InvStores, EmptySlots, Seqs
<1> QED
  BY <1>1, <1>3, <1>4, <1>5, <1>6 DEF ReliableInv

\* With a trustworthy read-back, a write-ahead either commits this record in a free
\* slot and goes on, or changes nothing durable and refuses.
LEMMA SubmitCases ==
    ASSUME ReadBackReliable, ReliableInv, NEW c \in Command, Submit(c)
    PROVE  LET rec == [cmd |-> c, ts |-> clock] IN
           /\ nextSequence \in Seqs /\ commands[nextSequence] = None /\ rec \in CommandRecord
           /\ \A m \in Seqs : nextSequence <= m => commands[m] = None
           /\ inflight' = {}
           /\ \/ /\ commands' = [commands EXCEPT ![nextSequence] = rec]
                 /\ Proceed(rec)
                 /\ trace' = Extend(trace, nextSequence, c)
              \/ /\ UNCHANGED <<commands, trace>> /\ Reuse(rec)
<1> DEFINE n == nextSequence
           rec == [cmd |-> c, ts |-> clock]
<1>1. n \in Seqs /\ rec \in CommandRecord /\ commands \in [Seqs -> CommandRecord \cup {None}]
  BY DEF ReliableInv, TypeOK, Submit, Ready, CommandRecord
<1>2. \A m \in Seqs : n <= m => commands[m] = None
  BY <1>1 DEF ReliableInv, NoCursorGap, Submit, Ready, Seqs
<1>3. commands[n] = None
  BY <1>1, <1>2 DEF Seqs
<1>4. rec # None
  BY <1>1, NoneAssumption
<1>5. /\ inflight' = {}
      /\ \/ commands' = [commands EXCEPT ![n] = rec] /\ Proceed(rec)
         \/ UNCHANGED commands /\ Reuse(rec)
  <2>1. WriteAheadCommand(rec) /\ inflight = {}
    BY DEF Submit, ReliableInv, InvShape
  <2>2. LateAppends("command", n, rec) = {{}}
    BY DEF LateAppends
  <2>3. Settled(commands, n, rec) = {commands, [commands EXCEPT ![n] = rec]}
    BY <1>3 DEF Settled, Insert
  <2>4. [commands EXCEPT ![n] = rec][n] # None
    BY <1>1, <1>4
  <2>5. ReadBack(commands', n) = {commands'[n] # None}
    BY DEF ReadBack
  <2> QED
    BY <1>3, <2>1, <2>2, <2>3, <2>4, <2>5 DEF WriteAheadCommand
<1>6. commands' = [commands EXCEPT ![n] = rec] => trace' = Extend(trace, n, c)
  BY <1>1, <1>3, <1>4 DEF Submit, TraceAfter
<1>7. UNCHANGED commands => UNCHANGED trace
  BY DEF Submit, TraceAfter
<1> QED
  BY <1>1, <1>2, <1>3, <1>5, <1>6, <1>7

\* Writing one command at the end of the journal extends the history by it and
\* leaves everything before it as it was.
LEMMA HistoryExtends ==
    ASSUME TypeOK, TraceIsReplay, TraceIsFlat, NEW n \in Seqs, NEW rec \in CommandRecord,
           \A m \in Seqs : n <= m => commands[m] = None,
           commands' = [commands EXCEPT ![n] = rec],
           trace' = Extend(trace, n, rec.cmd)
    PROVE  /\ TraceIsReplay' /\ TraceIsFlat'
           /\ \A m \in Seqs : m <= n => trace'[m] = trace[m]
           /\ \A m \in Seqs : m # n => commands'[m] = commands[m]
           /\ \A m \in Seqs : m < n => OrderedOutcome(m)' = OrderedOutcome(m)
           /\ \A m \in Seqs : m < n => OrderedFill(m)' = OrderedFill(m)
           /\ trace'[MaxSeq + 1] = NextBook(trace[n], rec.cmd)
           /\ commands'[n] = rec
<1>1. /\ commands \in [Seqs -> CommandRecord \cup {None}]
      /\ trace \in [0 .. MaxSeq + 1 -> Book]
      /\ rec # None
  BY NoneAssumption DEF TypeOK
<1>2. /\ n \in Nat /\ MaxSeq \in Nat /\ n <= MaxSeq
      /\ \A m \in Seqs : m \in Nat /\ m \in 0 .. MaxSeq + 1 /\ m + 1 \in 0 .. MaxSeq + 1
  BY BoundsAssumption DEF Seqs
<1>3. /\ DOMAIN trace = 0 .. MaxSeq + 1
      /\ \A m \in 0 .. MaxSeq + 1 :
            trace'[m] = IF m <= n THEN trace[m] ELSE NextBook(trace[n], rec.cmd)
  BY <1>1 DEF Extend
<1>4. commands'[n] = rec /\ \A m \in Seqs : m # n => commands'[m] = commands[m]
  BY <1>1
<1>5. \A m \in Seqs : m <= n => trace'[m] = trace[m]
  BY <1>2, <1>3
<1>6. TraceIsReplay'
  <2>1. trace'[0] = InitBook
    BY <1>2, <1>3 DEF TraceIsReplay
  <2>2. ASSUME NEW m \in Seqs
        PROVE  trace'[m + 1] = IF commands'[m] = None THEN trace'[m]
                               ELSE NextBook(trace'[m], commands'[m].cmd)
    <3>1. CASE m < n
      <4>1. commands'[m] = commands[m] /\ trace'[m] = trace[m] /\ trace'[m + 1] = trace[m + 1]
        BY <1>2, <1>3, <1>4, <3>1
      <4> QED
        BY <4>1 DEF TraceIsReplay
    <3>2. CASE m = n
      BY <1>1, <1>2, <1>3, <1>4, <3>2
    <3>3. CASE m > n
      <4>1. commands'[m] = None
        BY <1>2, <1>4, <3>3
      <4>2. trace'[m + 1] = NextBook(trace[n], rec.cmd) /\ trace'[m] = NextBook(trace[n], rec.cmd)
        BY <1>2, <1>3, <3>3
      <4> QED
        BY <4>1, <4>2
    <3> QED
      BY <1>2, <3>1, <3>2, <3>3
  <2> QED
    BY <2>1, <2>2 DEF TraceIsReplay
<1>7. TraceIsFlat'
  <2> SUFFICES ASSUME NEW m \in 0 .. MaxSeq + 1, NEW k \in 0 .. MaxSeq + 1, m <= k,
                      \A j \in Seqs : m <= j => commands'[j] = None
               PROVE  trace'[k] = trace'[m]
    BY DEF TraceIsFlat
  <2>1. ~ (m <= n)
    BY <1>1, <1>4
  <2>2. m > n /\ k > n
    BY <1>2, <2>1
  <2> QED
    BY <1>2, <1>3, <2>2
<1>8. \A m \in Seqs : m < n => OrderedOutcome(m)' = OrderedOutcome(m)
  BY <1>2, <1>4, <1>5 DEF OrderedOutcome
<1>9. \A m \in Seqs : m < n => OrderedFill(m)' = OrderedFill(m)
  BY <1>2, <1>4, <1>8 DEF OrderedFill
<1>10. trace'[MaxSeq + 1] = NextBook(trace[n], rec.cmd)
  BY <1>2, <1>3
<1> QED
  BY <1>4, <1>5, <1>6, <1>7, <1>8, <1>9, <1>10

\* A step that writes no command changes neither the history nor what it says.
LEMMA HistoryUnchanged ==
    ASSUME UNCHANGED <<commands, trace>>
    PROVE  /\ TraceIsReplay' = TraceIsReplay /\ TraceIsFlat' = TraceIsFlat
           /\ Contiguous' = Contiguous
           /\ \A m \in Seqs : OrderedOutcome(m)' = OrderedOutcome(m)
           /\ \A m \in Seqs : OrderedFill(m)' = OrderedFill(m)
BY DEF TraceIsReplay, TraceIsFlat, Contiguous, OrderedOutcome, OrderedFill

\* The write-ahead step keeps the invariant.
LEMMA ReliableSubmit ==
    ASSUME ReadBackReliable, ReliableInv, NEW c \in Command, Submit(c)
    PROVE  ReliableInv'
<1> DEFINE n == nextSequence
           rec == [cmd |-> c, ts |-> clock]
<1>1. TypeOK'
  BY TypeSubmit DEF ReliableInv
<1>2. /\ n \in Seqs /\ commands[n] = None /\ rec \in CommandRecord /\ rec # None
      /\ \A m \in Seqs : n <= m => commands[m] = None
      /\ inflight' = {}
  BY SubmitCases, NoneAssumption
<1>3. /\ status = "live" /\ pc = "idle" /\ sealed = None
      /\ UNCHANGED <<events, markers, status, nextSequence, sealed, book, executions, positions, acked>>
  BY DEF Submit, Ready
<1>4. InvDown' /\ InvWalk'
  BY <1>3 DEF InvDown, InvWalk
<1>5. \A m \in Seqs : events[m] # None => m < n
  <2>1. \A m \in Seqs : events[m] # None => commands[m] # None
    BY DEF ReliableInv, EventPairsCommand
  <2>2. \A m \in Seqs : n <= m \/ m < n
    BY <1>2, BoundsAssumption DEF Seqs
  <2> QED
    BY <1>2, <2>1, <2>2
<1>6. \A a \in acked : a.seq \in Seqs /\ a.seq < n
  BY <1>2 DEF ReliableInv, AckedIsDurable, TypeOK, Seqs
<1>7. CASE commands' = [commands EXCEPT ![n] = rec] /\ Proceed(rec) /\ trace' = Extend(trace, n, c)
  <2>1. rec.cmd = c
    OBVIOUS
  <2>2. /\ TraceIsReplay' /\ TraceIsFlat'
        /\ \A m \in Seqs : m <= n => trace'[m] = trace[m]
        /\ \A m \in Seqs : m # n => commands'[m] = commands[m]
        /\ \A m \in Seqs : m < n => OrderedOutcome(m)' = OrderedOutcome(m)
        /\ \A m \in Seqs : m < n => OrderedFill(m)' = OrderedFill(m)
        /\ commands'[n] = rec
    BY <1>2, <1>7, <2>1, HistoryExtends DEF ReliableInv, BookIsReplay
  <2>3. pc' = "execute" /\ turn' = rec /\ refused' = refused \ {[seq |-> n, rec |-> rec]}
    BY <1>7 DEF Proceed
  <2>4. InvShape'
    BY <1>2, <1>3 DEF ReliableInv, InvShape, EmptySlots
  <2>5. Contiguous' /\ NoCursorGap'
    <3>1. \A m \in Seqs : m < n => commands[m] # None
      BY <1>2, <1>3 DEF ReliableInv, NoCursorGap
    <3>2. \A m \in Seqs : commands'[m] # None <=> m <= n
      BY <1>2, <2>2, <3>1 DEF Seqs
    <3>3. Contiguous'
      BY <1>2, <3>2 DEF Contiguous, Seqs
    <3>4. NoCursorGap'
      BY <1>2, <1>3, <2>3, <3>2 DEF NoCursorGap, Seqs
    <3> QED
      BY <3>3, <3>4
  <2>6. BookIsReplay'
    <3>1. book = trace[n]
      BY <1>3 DEF ReliableInv, BookIsReplay, BookPosition
    <3>2. BookPosition' = n
      BY <1>3, <2>3 DEF BookPosition
    <3>3. n <= n
      BY <1>2 DEF Seqs
    <3> QED
      BY <1>2, <1>3, <2>2, <3>1, <3>2, <3>3 DEF BookIsReplay
  <2>7. EventPairsCommand'
    <3>1. \A m \in Seqs : m < n => m # n
      BY <1>2 DEF Seqs
    <3> QED
      BY <1>3, <1>5, <2>2, <3>1 DEF ReliableInv, EventPairsCommand
  <2>8. AckedIsDurable'
    <3>1. \A a \in acked : commands'[a.seq] = commands[a.seq] /\ events'[a.seq] = events[a.seq]
      BY <1>2, <1>3, <1>6, <2>2 DEF Seqs
    <3> QED
      BY <1>3, <3>1 DEF ReliableInv, AckedIsDurable
  <2>9. InvStores'
    BY <1>3, <2>2 DEF ReliableInv, InvStores
  <2>10. InvTurn'
    BY <1>3, <2>2, <2>3 DEF InvTurn
  <2>11. InvRefused'
    <3> SUFFICES ASSUME NEW r \in refused' PROVE commands'[r.seq] # r.rec
      BY DEF InvRefused
    <3>1. r \in refused /\ r # [seq |-> n, rec |-> rec]
      BY <2>3
    <3>2. r \in [seq : Seqs, rec : CommandRecord]
      BY <3>1 DEF ReliableInv, TypeOK
    <3>3. CASE r.seq = n
      BY <2>2, <3>1, <3>2, <3>3
    <3>4. CASE r.seq # n
      BY <2>2, <3>1, <3>2, <3>4 DEF ReliableInv, InvRefused
    <3> QED
      BY <3>3, <3>4
  <2> QED
    BY <1>1, <1>4, <2>2, <2>4, <2>5, <2>6, <2>7, <2>8, <2>9, <2>10, <2>11 DEF ReliableInv
<1>8. CASE UNCHANGED <<commands, trace>> /\ Reuse(rec)
  <2>1. UNCHANGED <<pc, turn>> /\ refused' = refused \cup {[seq |-> n, rec |-> rec]}
    BY <1>8 DEF Reuse
  <2>2. /\ TraceIsReplay' /\ TraceIsFlat' /\ Contiguous'
        /\ \A m \in Seqs : OrderedOutcome(m)' = OrderedOutcome(m)
        /\ \A m \in Seqs : OrderedFill(m)' = OrderedFill(m)
    BY <1>8, HistoryUnchanged DEF ReliableInv, BookIsReplay
  <2>3. InvShape' /\ NoCursorGap'
    BY <1>2, <1>3, <1>8, <2>1 DEF ReliableInv, InvShape, NoCursorGap, EmptySlots
  <2>4. BookIsReplay' /\ InvTurn'
    BY <1>3, <1>8, <2>1, <2>2 DEF ReliableInv, BookIsReplay, BookPosition, InvTurn
  <2>5. EventPairsCommand' /\ AckedIsDurable' /\ InvStores'
    BY <1>3, <1>8, <2>1, <2>2
       DEF ReliableInv, EventPairsCommand, AckedIsDurable, InvStores
  <2>6. InvRefused'
    BY <1>2, <1>8, <2>1 DEF ReliableInv, InvRefused
  <2> QED
    BY <1>1, <1>4, <2>2, <2>3, <2>4, <2>5, <2>6 DEF ReliableInv
<1> QED
  BY <1>7, <1>8, SubmitCases

\* Execution and the event append keep the invariant.
LEMMA ReliableExecute ==
    ASSUME ReadBackReliable, ReliableInv, ExecuteAndAppendEvent
    PROVE  ReliableInv'
<1> DEFINE n == nextSequence
           evt == [cmd |-> turn.cmd, ts |-> turn.ts, outcome |-> Outcome(book, turn.cmd)]
<1>1. TypeOK'
  BY TypeExecute DEF ReliableInv
<1>2. /\ n \in Seqs /\ n + 1 \in 0 .. MaxSeq + 1 /\ commands[n] = turn /\ turn \in CommandRecord
      /\ turn # None /\ status = "live" /\ pc = "execute" /\ sealed = None
  BY BoundsAssumption, NoneAssumption
     DEF ReliableInv, TypeOK, InvTurn, InvShape, ExecuteAndAppendEvent, TurnEvent, Seqs
<1>3. /\ UNCHANGED <<commands, trace, markers, status, nextSequence, executions, positions,
                      acked, refused>>
      /\ book' = NextBook(book, turn.cmd)
  BY DEF ExecuteAndAppendEvent, TurnEvent
<1>4. book = trace[n] /\ evt.outcome = OrderedOutcome(n)
  BY <1>2 DEF ReliableInv, BookIsReplay, BookPosition, OrderedOutcome
<1>5. book' = trace[n + 1]
  BY <1>2, <1>3, <1>4 DEF ReliableInv, BookIsReplay, TraceIsReplay
<1>6. /\ TraceIsReplay' /\ TraceIsFlat' /\ Contiguous'
      /\ \A m \in Seqs : OrderedOutcome(m)' = OrderedOutcome(m)
      /\ \A m \in Seqs : OrderedFill(m)' = OrderedFill(m)
  BY <1>3, HistoryUnchanged DEF ReliableInv, BookIsReplay
<1>7. /\ inflight' = {}
      /\ events' = events \/ events' = [events EXCEPT ![n] = evt]
      /\ \/ pc' = "fanout" /\ turn' = evt /\ sealed' = None /\ events' = [events EXCEPT ![n] = evt]
         \/ pc' = "idle" /\ sealed' = "JournalUnavailable"
  BY <1>2 DEF ExecuteAndAppendEvent, TurnEvent, EventAppendFailed, Settled, Insert, LateAppends, Seal, ReliableInv, InvShape
<1>8. "JournalUnavailable" # None
  BY NoneAssumption DEF SealReason
<1>9. InvShape' /\ InvDown' /\ InvWalk' /\ NoCursorGap'
  BY <1>2, <1>3, <1>7, <1>8 DEF ReliableInv, InvShape, InvDown, InvWalk, NoCursorGap, EmptySlots
<1>10. BookIsReplay'
  <2>1. BookPosition' = n + 1
    BY <1>3, <1>7, <1>8 DEF BookPosition
  <2> QED
    BY <1>3, <1>5, <1>6, <2>1 DEF BookIsReplay
<1>11. EventPairsCommand'
  <2>1. ASSUME NEW m \in Seqs, events'[m] # None
        PROVE  /\ commands'[m] # None
               /\ events'[m] = [cmd |-> commands'[m].cmd, ts |-> commands'[m].ts,
                                outcome |-> OrderedOutcome(m)']
    <3>1. CASE events'[m] = events[m]
      BY <1>3, <1>6, <2>1, <3>1 DEF ReliableInv, EventPairsCommand
    <3>2. CASE m = n /\ events'[n] = evt
      BY <1>2, <1>3, <1>4, <1>6, <3>2
    <3> QED
      BY <1>2, <1>7, <3>1, <3>2 DEF ReliableInv, TypeOK
  <2> QED
    BY <2>1 DEF EventPairsCommand
<1>12. AckedIsDurable'
  <2> SUFFICES ASSUME NEW a \in acked
               PROVE  events'[a.seq] # None /\ events'[a.seq].outcome = a.outcome
    BY <1>3 DEF ReliableInv, AckedIsDurable
  <2>1. a.seq \in Seqs /\ events[a.seq] # None /\ events[a.seq].outcome = a.outcome
    BY DEF ReliableInv, AckedIsDurable, TypeOK
  <2>2. events[a.seq].outcome = OrderedOutcome(a.seq)
    <3>1. events[a.seq] = [cmd |-> commands[a.seq].cmd, ts |-> commands[a.seq].ts,
                           outcome |-> OrderedOutcome(a.seq)]
      BY <2>1 DEF ReliableInv, EventPairsCommand
    <3> QED
      BY <3>1
  <2>3. evt # None
    <3>1. evt \in EventRecord
      BY <1>2, ExecutorAssumption DEF CommandRecord, EventRecord, ReliableInv, TypeOK
    <3> QED
      BY <3>1, NoneAssumption
  <2>4. CASE a.seq = n /\ events'[n] = evt
    BY <1>4, <2>1, <2>2, <2>3, <2>4
  <2>5. CASE events'[a.seq] = events[a.seq]
    BY <2>1, <2>5
  <2> QED
    BY <1>2, <1>7, <2>1, <2>4, <2>5 DEF ReliableInv, TypeOK
<1>13. InvStores'
  BY <1>2, <1>3, <1>6, <1>7, <1>8 DEF ReliableInv, InvStores
<1>14. InvTurn' /\ InvRefused'
  BY <1>2, <1>3, <1>7 DEF ReliableInv, InvTurn, InvRefused, TypeOK
<1> QED
  BY <1>1, <1>6, <1>9, <1>10, <1>11, <1>12, <1>13, <1>14 DEF ReliableInv

\* A completed and a failed fan-out keep the invariant.
LEMMA ReliableFanOut ==
    ASSUME ReliableInv, FanOutAndAdvance \/ ProjectionFails
    PROVE  ReliableInv'
<1> DEFINE n == nextSequence
<1>1. TypeOK'
  BY TypeFanOut DEF ReliableInv
<1>2. /\ n \in Seqs /\ n \in 0 .. MaxSeq /\ MaxSeq \in Nat
      /\ events[n] = turn /\ turn \in EventRecord /\ turn # None
      /\ status = "live" /\ pc = "fanout" /\ sealed = None
  BY BoundsAssumption, NoneAssumption
     DEF ReliableInv, TypeOK, InvTurn, InvShape, FanOutAndAdvance, ProjectionFails, Seqs
<1>3. UNCHANGED <<commands, events, markers, inflight, trace, status, book, refused>>
  BY DEF FanOutAndAdvance, ProjectionFails, journal
<1>4. /\ commands[n] # None /\ turn.cmd = commands[n].cmd /\ turn.outcome = OrderedOutcome(n)
      /\ OrderedOutcome(n) \in Result /\ OrderedOutcome(n) # None
  <2>1. /\ commands[n] # None
        /\ turn = [cmd |-> commands[n].cmd, ts |-> commands[n].ts, outcome |-> OrderedOutcome(n)]
    BY <1>2 DEF ReliableInv, EventPairsCommand
  <2>2. turn.outcome \in Result
    BY <1>2 DEF EventRecord
  <2> QED
    BY <2>1, <2>2, NoneAssumption
<1>5. /\ TraceIsReplay' /\ TraceIsFlat' /\ Contiguous'
      /\ \A m \in Seqs : OrderedOutcome(m)' = OrderedOutcome(m)
      /\ \A m \in Seqs : OrderedFill(m)' = OrderedFill(m)
  BY <1>3, HistoryUnchanged DEF ReliableInv, BookIsReplay
<1>6. book = trace[n + 1]
  BY <1>2 DEF ReliableInv, BookIsReplay, BookPosition
<1>7. EventPairsCommand' /\ InvDown' /\ InvWalk' /\ InvRefused'
  BY <1>2, <1>3, <1>5 DEF ReliableInv, EventPairsCommand, InvDown, InvWalk, InvRefused
<1>8. /\ "SequenceExhausted" # None /\ "ProjectionFailed" # None
  BY NoneAssumption DEF SealReason
<1>9. pc' = "idle" /\ InvTurn'
  BY DEF FanOutAndAdvance, Advance, ProjectionFails, Seal, InvTurn
<1>10. \/ nextSequence' = n + 1 /\ sealed' = None /\ FanOutAndAdvance
       \/ nextSequence' = n /\ sealed' # None
  BY <1>2, <1>8 DEF FanOutAndAdvance, Advance, ProjectionFails, Seal
<1>11. InvShape'
  BY <1>2, <1>3, <1>9 DEF ReliableInv, InvShape, EmptySlots
<1>12. NoCursorGap'
  <2>1. \A m \in Seqs : commands[m] # None <=> m < n + 1
    BY <1>2 DEF ReliableInv, NoCursorGap, Seqs
  <2> QED
    BY <1>2, <1>3, <1>9, <1>10, <2>1 DEF NoCursorGap, Seqs
<1>13. BookIsReplay'
  <2>1. BookPosition' = n + 1
    BY <1>2, <1>9, <1>10 DEF BookPosition
  <2> QED
    BY <1>3, <1>5, <1>6, <2>1 DEF BookIsReplay
<1>14. AckedIsDurable'
  <2>1. acked' = acked \/ acked' = acked \cup {[seq |-> n, cmd |-> turn.cmd, outcome |-> turn.outcome]}
    BY DEF FanOutAndAdvance, ProjectionFails
  <2> QED
    BY <1>2, <1>3, <1>4, <2>1 DEF ReliableInv, AckedIsDurable
<1>15. InvStores'
  <2>1. CASE nextSequence' = n + 1 /\ sealed' = None /\ FanOutAndAdvance
    <3>1. OrderedFill(n) = IF OrderedOutcome(n) \in Filling THEN OrderedOutcome(n) ELSE None
      BY <1>4 DEF OrderedFill
    <3>2. /\ executions' = Project(executions, n, OrderedOutcome(n))
          /\ positions' = Project(positions, n, OrderedOutcome(n))
      BY <1>4, <2>1 DEF FanOutAndAdvance
    <3>3. \A m \in Seqs :
            /\ executions[m] = IF m < n THEN OrderedFill(m) ELSE None
            /\ positions[m] = IF m < n THEN OrderedFill(m) ELSE None
      BY <1>2 DEF ReliableInv, InvStores
    <3>4. ASSUME NEW m \in Seqs
          PROVE  /\ executions'[m] = IF m < n + 1 THEN OrderedFill(m) ELSE None
                 /\ positions'[m] = IF m < n + 1 THEN OrderedFill(m) ELSE None
      <4>1. CASE m = n
        BY <1>2, <3>1, <3>2, <3>3, <4>1 DEF Project, ReliableInv, TypeOK
      <4>2. CASE m # n
        <5>1. m < n + 1 <=> m < n
          BY <1>2, <4>2 DEF Seqs
        <5>2. executions'[m] = executions[m] /\ positions'[m] = positions[m]
          BY <3>2, <4>2 DEF Project, ReliableInv, TypeOK
        <5> QED
          BY <3>3, <5>1, <5>2
      <4> QED
        BY <4>1, <4>2
    <3> QED
      BY <1>5, <2>1, <3>4 DEF InvStores
  <2>2. CASE sealed' # None
    BY <1>2, <1>3, <2>2 DEF InvStores
  <2> QED
    BY <1>10, <2>1, <2>2
<1> QED
  BY <1>1, <1>5, <1>7, <1>9, <1>11, <1>12, <1>13, <1>14, <1>15 DEF ReliableInv

\* Whatever record lies at or beyond a sequence, a command is there too, and one
\* at that very sequence: the walk of recovery meets no hole.
LEMMA WalkMeetsCommand ==
    ASSUME ReliableInv, NEW n \in Seqs, RecordsFrom(n)
    PROVE  commands[n] # None
<1>1. PICK m \in Seqs : m >= n /\ (commands[m] # None \/ events[m] # None \/ markers[m] # None)
  BY DEF RecordsFrom
<1>2. markers[m] = None
  BY DEF ReliableInv, InvShape, EmptySlots
<1>3. commands[m] # None
  BY <1>1, <1>2 DEF ReliableInv, EventPairsCommand
<1>4. m = n \/ n < m
  BY <1>1, BoundsAssumption DEF Seqs
<1> QED
  BY <1>3, <1>4 DEF ReliableInv, Contiguous

\* Re-executing the command at the position of the walk keeps the invariant.
LEMMA ReliableReplay ==
    ASSUME ReliableInv, ReplayCommand
    PROVE  ReliableInv'
<1> DEFINE n == nextSequence
           c == commands[n].cmd
<1>1. TypeOK'
  BY TypeReplay DEF ReliableInv
<1>2. /\ n \in Seqs /\ commands[n] # None /\ status = "recovering"
      /\ pc = "idle" /\ sealed = None /\ book = trace[n]
      /\ MaxSeq \in Nat
  BY BoundsAssumption DEF ReplayCommand, ReliableInv, InvShape, InvWalk
<1>3. Outcome(book, c) = OrderedOutcome(n)
  BY <1>2 DEF OrderedOutcome
<1>4. StoredEventMatches(n)
  BY <1>2, <1>3 DEF StoredEventMatches, ReliableInv, EventPairsCommand
<1>5. /\ book' = NextBook(book, c)
      /\ executions' = Project(executions, n, OrderedOutcome(n))
      /\ positions' = Project(positions, n, OrderedOutcome(n))
      /\ nextSequence' = n + 1
      /\ UNCHANGED <<commands, events, markers, inflight, status, pc, turn, sealed,
                     acked, refused, trace>>
  BY <1>3, <1>4 DEF ReplayCommand, journal, history
<1>6. /\ TraceIsReplay' /\ TraceIsFlat' /\ Contiguous'
      /\ \A m \in Seqs : OrderedOutcome(m)' = OrderedOutcome(m)
      /\ \A m \in Seqs : OrderedFill(m)' = OrderedFill(m)
  BY <1>5, HistoryUnchanged DEF ReliableInv, BookIsReplay
<1>7. book' = trace[n + 1]
  BY <1>2, <1>5 DEF ReliableInv, BookIsReplay, TraceIsReplay
<1>8. InvShape' /\ NoCursorGap' /\ InvDown' /\ InvTurn'
  BY <1>2, <1>5 DEF ReliableInv, InvShape, NoCursorGap, InvDown, InvTurn, EmptySlots
<1>9. BookIsReplay' /\ AckedIsDurable' /\ EventPairsCommand' /\ InvRefused'
  BY <1>2, <1>5, <1>6
     DEF ReliableInv, BookIsReplay, AckedIsDurable, EventPairsCommand, InvRefused
<1>10. InvWalk'
  <2>1. \A m \in Seqs : m < n + 1 => commands[m] # None
    BY <1>2 DEF ReliableInv, InvWalk, Seqs
  <2> QED
    BY <1>5, <1>7, <2>1 DEF InvWalk
<1>11. InvStores'
  <2>1. OrderedFill(n) = IF OrderedOutcome(n) \in Filling THEN OrderedOutcome(n) ELSE None
    BY <1>2 DEF OrderedFill
  <2>2. \A m \in Seqs :
          /\ executions[m] = IF m < n THEN OrderedFill(m) ELSE None
          /\ positions[m] = IF m < n THEN OrderedFill(m) ELSE None
    BY <1>2 DEF ReliableInv, InvStores
  <2>3. ASSUME NEW m \in Seqs
        PROVE  /\ executions'[m] = IF m < n + 1 THEN OrderedFill(m) ELSE None
               /\ positions'[m] = IF m < n + 1 THEN OrderedFill(m) ELSE None
    <3>1. CASE m = n
      <4>1. m < n + 1 /\ ~(m < n)
        BY <1>2, <3>1 DEF Seqs
      <4> QED
        BY <1>2, <1>5, <2>1, <2>2, <3>1, <4>1 DEF Project, ReliableInv, TypeOK
    <3>2. CASE m # n
      <4>1. m < n + 1 <=> m < n
        BY <1>2, <3>2 DEF Seqs
      <4>2. executions'[m] = executions[m] /\ positions'[m] = positions[m]
        BY <1>5, <3>2 DEF Project, ReliableInv, TypeOK
      <4> QED
        BY <2>2, <4>1, <4>2
    <3> QED
      BY <3>1, <3>2
  <2> QED
    BY <1>5, <1>6, <2>3 DEF InvStores
<1> QED
  BY <1>1, <1>6, <1>8, <1>9, <1>10, <1>11 DEF ReliableInv

\* The end of the walk keeps the invariant: what resumes is the whole journal.
LEMMA ReliableResume ==
    ASSUME ReliableInv, Resume
    PROVE  ReliableInv'
<1> DEFINE n == nextSequence
<1>1. TypeOK'
  BY TypeRest DEF ReliableInv
<1>2. /\ status = "recovering" /\ pc = "idle" /\ sealed = None /\ book = trace[n]
      /\ MaxSeq \in Nat /\ n \in 0 .. MaxSeq + 1
      /\ \A m \in Seqs : m < n => commands[m] # None
  BY BoundsAssumption DEF Resume, ReliableInv, InvShape, InvWalk, TypeOK
<1>3. /\ UNCHANGED <<commands, events, markers, inflight, pc, turn, sealed, book,
                      executions, positions, acked, refused, trace>>
      /\ (status' = "live" /\ nextSequence' = n) \/ status' = "exhausted"
  BY DEF Resume, journal, history
<1>4. /\ TraceIsReplay' /\ TraceIsFlat' /\ Contiguous'
      /\ \A m \in Seqs : OrderedOutcome(m)' = OrderedOutcome(m)
      /\ \A m \in Seqs : OrderedFill(m)' = OrderedFill(m)
  BY <1>3, HistoryUnchanged DEF ReliableInv, BookIsReplay
<1>5. \A m \in Seqs : commands[m] # None <=> m < n
  <2>1. \A m \in Seqs : m >= n => commands[m] = None
    BY DEF Resume, RecordsFrom
  <2>2. \A m \in Seqs : m >= n \/ m < n
    BY <1>2 DEF Seqs
  <2> QED
    BY <1>2, <2>1, <2>2
<1>6. InvShape' /\ InvDown' /\ InvWalk' /\ InvTurn'
  BY <1>2, <1>3 DEF ReliableInv, InvShape, InvDown, InvWalk, InvTurn, EmptySlots
<1>7. NoCursorGap'
  BY <1>2, <1>3, <1>5 DEF NoCursorGap
<1>8. BookIsReplay'
  BY <1>2, <1>3, <1>4 DEF BookIsReplay, BookPosition
<1>9. EventPairsCommand' /\ AckedIsDurable' /\ InvRefused'
  BY <1>3, <1>4 DEF ReliableInv, EventPairsCommand, AckedIsDurable, InvRefused
<1>10. InvStores'
  BY <1>2, <1>3, <1>4 DEF ReliableInv, InvStores
<1> QED
  BY <1>1, <1>4, <1>6, <1>7, <1>8, <1>9, <1>10 DEF ReliableInv

\* A crash and a boot keep the invariant.
LEMMA ReliableCrashBoot ==
    ASSUME ReliableInv, Crash \/ Boot
    PROVE  ReliableInv'
<1>1. TypeOK'
  BY TypeRest DEF ReliableInv
<1>2. /\ UNCHANGED <<commands, events, markers, inflight, acked, refused, trace>>
      /\ pc' = "idle" /\ sealed' = None /\ status' \in {"down", "recovering"}
  BY DEF Crash, Boot, journal, history, ReliableInv, InvShape
<1>3. /\ TraceIsReplay' /\ TraceIsFlat' /\ Contiguous'
      /\ \A m \in Seqs : OrderedOutcome(m)' = OrderedOutcome(m)
      /\ \A m \in Seqs : OrderedFill(m)' = OrderedFill(m)
  BY <1>2, HistoryUnchanged DEF ReliableInv, BookIsReplay
<1>4. InvShape' /\ NoCursorGap' /\ BookIsReplay' /\ InvTurn'
  BY <1>2, <1>3 DEF ReliableInv, InvShape, NoCursorGap, BookIsReplay, InvTurn, EmptySlots
<1>5. EventPairsCommand' /\ AckedIsDurable' /\ InvRefused'
  BY <1>2, <1>3 DEF ReliableInv, EventPairsCommand, AckedIsDurable, InvRefused
<1>6. /\ book' = InitBook /\ nextSequence' = 0
      /\ executions' = EmptySlots /\ positions' = EmptySlots
  BY DEF Crash, Boot, ReliableInv, InvDown
<1>7. InvDown' /\ InvWalk' /\ InvStores'
  BY <1>2, <1>3, <1>6, BoundsAssumption
     DEF InvDown, InvWalk, InvStores, ReliableInv, BookIsReplay, TraceIsReplay, EmptySlots, Seqs
<1> QED
  BY <1>1, <1>3, <1>4, <1>5, <1>7 DEF ReliableInv

\* The steps that touch neither journal, book nor store keep the invariant.
LEMMA ReliableQuiet ==
    ASSUME ReliableInv, Tick \/ UNCHANGED vars
    PROVE  ReliableInv'
<1>1. TypeOK'
  BY TypeRest DEF ReliableInv
<1>2. UNCHANGED <<commands, events, markers, inflight, status, pc, turn, nextSequence, sealed,
                  book, executions, positions, acked, refused, trace>>
  BY DEF Tick, vars, journal, process, history
<1>3. /\ TraceIsReplay' /\ TraceIsFlat' /\ Contiguous'
      /\ \A m \in Seqs : OrderedOutcome(m)' = OrderedOutcome(m)
      /\ \A m \in Seqs : OrderedFill(m)' = OrderedFill(m)
  BY <1>2, HistoryUnchanged DEF ReliableInv, BookIsReplay
<1>4. InvShape' /\ NoCursorGap' /\ InvDown' /\ InvWalk' /\ InvTurn' /\ InvRefused' /\ AckedIsDurable'
  BY <1>2 DEF ReliableInv, InvShape, NoCursorGap, InvDown, InvWalk, InvTurn, InvRefused, AckedIsDurable
<1>5. BookIsReplay' /\ EventPairsCommand' /\ InvStores'
  BY <1>2, <1>3 DEF ReliableInv, BookIsReplay, BookPosition, EventPairsCommand, InvStores
<1> QED
  BY <1>1, <1>3, <1>4, <1>5 DEF ReliableInv

\* Every step keeps the invariant.
LEMMA ReliableStep ==
    ASSUME ReadBackReliable, ReliableInv, [Next]_vars
    PROVE  ReliableInv'
<1>1. CASE \E c \in Command : Submit(c)
  BY <1>1, ReliableSubmit
<1>2. CASE ExecuteAndAppendEvent
  BY <1>2, ReliableExecute
<1>3. CASE FanOutAndAdvance \/ ProjectionFails
  BY <1>3, ReliableFanOut
<1>4. CASE LateCommandLands \/ LateEventLands
  BY <1>4 DEF LateCommandLands, LateEventLands, ReliableInv, InvShape
<1>5. CASE Crash \/ Boot
  BY <1>5, ReliableCrashBoot
<1>6. CASE ReplayCommand
  BY <1>6, ReliableReplay
<1>8. CASE Resume
  BY <1>8, ReliableResume
<1>9. CASE Tick \/ UNCHANGED vars
  BY <1>9, ReliableQuiet
<1> QED
  BY <1>1, <1>2, <1>3, <1>4, <1>5, <1>6, <1>8, <1>9 DEF Next

\* The inductive invariant holds in every reachable state.
LEMMA ReliableInvariant == ReadBackReliable => (Spec => []ReliableInv)
<1> SUFFICES ASSUME ReadBackReliable PROVE Spec => []ReliableInv
  OBVIOUS
<1>1. Init => ReliableInv
  BY ReliableInit
<1>2. ReliableInv /\ [Next]_vars => ReliableInv'
  BY ReliableStep
<1> QED
  BY <1>1, <1>2, PTL DEF Spec
-----------------------------------------------------------------------------
(* The safety theorems. Each holds for every executor, every bound and every *)
(* interleaving of turns, journal faults, crashes and recoveries, provided    *)
(* the tail read-back of an ambiguous append can be trusted.                  *)

\* Recovery equals the live venue: in every state of a live actor the book it
\* serves is the re-execution of the durable commands from an empty book.
THEOREM BookIsAlwaysReplay == ReadBackReliable => (Spec => []BookIsReplay)
<1>1. ReliableInv => BookIsReplay
  BY DEF ReliableInv
<1> QED
  BY <1>1, ReliableInvariant, PTL

\* No receipt is ever lost: the command and the event a caller was told about stay
\* durable with that outcome across any crash.
THEOREM ReceiptsSurvive == ReadBackReliable => (Spec => []AckedIsDurable)
<1>1. ReliableInv => AckedIsDurable
  BY DEF ReliableInv
<1> QED
  BY <1>1, ReliableInvariant, PTL

\* Sequence numbers of durable commands have no gap, and an event never stands
\* without the command it records.
THEOREM JournalIsPaired ==
    ReadBackReliable => (Spec => [](NoCursorGap /\ EventPairsCommand))
<1>1. ReliableInv => NoCursorGap /\ EventPairsCommand
  BY DEF ReliableInv
<1> QED
  BY <1>1, ReliableInvariant, PTL

\* The stores an unsealed actor serves between turns are the journal's fills.
THEOREM StoresAlwaysMatch == ReadBackReliable => (Spec => []StoresMatchJournal)
<1>1. ReliableInv => StoresMatchJournal
  <2> SUFFICES ASSUME ReliableInv, status = "live", pc = "idle", sealed = None, NEW n \in Seqs
               PROVE  executions[n] = OrderedFill(n) /\ positions[n] = OrderedFill(n)
    BY DEF StoresMatchJournal
  <2>1. nextSequence \in Seqs
    BY DEF ReliableInv, TypeOK
  <2>2. CASE n < nextSequence
    BY <2>2 DEF ReliableInv, InvStores
  <2>3. CASE ~(n < nextSequence)
    <3>1. commands[n] = None
      BY <2>1, <2>3, BoundsAssumption DEF ReliableInv, NoCursorGap, Seqs
    <3>2. OrderedFill(n) = None
      BY <3>1 DEF OrderedFill
    <3> QED
      BY <2>3, <3>2 DEF ReliableInv, InvStores
  <2> QED
    BY <2>2, <2>3
<1> QED
  BY <1>1, ReliableInvariant, PTL

\* With a trustworthy read-back the walk of recovery meets no gap and never halts on
\* the actor's own journal, and no command that was refused is in a live book.
THEOREM RecoveryIsFaithful ==
    ReadBackReliable =>
        (Spec => [](RecoveryMeetsNoGap /\ RecoveryNeverCorrupt /\ RefusedNeverExecuted))
<1>1. ReliableInv => RecoveryNeverCorrupt /\ RefusedNeverExecuted
  BY DEF ReliableInv, InvShape, InvRefused, RecoveryNeverCorrupt, RefusedNeverExecuted
<1>2. ReliableInv => RecoveryMeetsNoGap
  BY WalkMeetsCommand DEF RecoveryMeetsNoGap
<1> QED
  BY <1>1, <1>2, ReliableInvariant, PTL
-----------------------------------------------------------------------------
(* Fail-stop, whatever the journal does.                                     *)

\* Only a live actor between turns is sealed.
SealShape == sealed # None => pc = "idle" /\ status = "live"

\* A sealed actor is always between turns.
LEMMA SealShapeInvariant == Spec => [](TypeOK /\ SealShape)
<1>1. Init => SealShape
  BY DEF Init, SealShape
<1>2. TypeOK /\ SealShape /\ [Next]_vars => SealShape'
  <2> SUFFICES ASSUME TypeOK, SealShape, [Next]_vars PROVE SealShape'
    OBVIOUS
  <2>1. CASE \E c \in Command : Submit(c)
    BY <2>1 DEF Submit, Ready, SealShape
  <2>2. CASE ExecuteAndAppendEvent
    BY <2>2 DEF ExecuteAndAppendEvent, TurnEvent, EventAppendFailed, SealShape, Seal
  <2>3. CASE FanOutAndAdvance \/ ProjectionFails
    BY <2>3 DEF FanOutAndAdvance, Advance, ProjectionFails, SealShape, Seal
  <2>4. CASE LateCommandLands \/ LateEventLands \/ Tick \/ UNCHANGED vars
    BY <2>4 DEF LateCommandLands, LateEventLands, Tick, vars, process, SealShape
  <2>5. CASE Crash \/ Boot \/ ReplayCommand \/ Resume
    BY <2>5 DEF Crash, Boot, ReplayCommand, Resume, SealShape
  <2> QED
    BY <2>1, <2>2, <2>3, <2>4, <2>5 DEF Next
<1> QED
  BY <1>1, <1>2, TypeCorrect, PTL DEF Spec

\* A sealed actor stays sealed and silent until the process ends: no turn, no
\* store, no sequence and no receipt after the seal, under every journal fault.
THEOREM SealedStaysSealed == Spec => SealedIsFinal
<1> DEFINE Silent == \/ status' = "down"
                     \/ UNCHANGED <<status, pc, sealed, book, executions, positions,
                                    nextSequence, acked>>
<1>1. TypeOK /\ SealShape /\ [Next]_vars => [status = "live" /\ sealed # None => Silent]_vars
  <2> SUFFICES ASSUME SealShape, Next, status = "live", sealed # None PROVE Silent
    OBVIOUS
  <2>1. pc = "idle"
    BY DEF SealShape
  <2>2. CASE \E c \in Command : Submit(c)
    BY <2>2 DEF Submit, Ready
  <2>3. CASE ExecuteAndAppendEvent \/ FanOutAndAdvance \/ ProjectionFails
    BY <2>1, <2>3 DEF ExecuteAndAppendEvent, TurnEvent, FanOutAndAdvance, ProjectionFails
  <2>4. CASE LateCommandLands \/ LateEventLands \/ Tick
    BY <2>4 DEF LateCommandLands, LateEventLands, Tick, process, history
  <2>5. CASE Crash \/ Boot \/ ReplayCommand \/ Resume
    BY <2>5 DEF Crash, Boot, ReplayCommand, Resume
  <2> QED
    BY <2>2, <2>3, <2>4, <2>5 DEF Next
<1> QED
  BY <1>1, SealShapeInvariant, PTL DEF SealedIsFinal, Spec
-----------------------------------------------------------------------------
(* Refinement.                                                               *)

\* The outcome the order gives is a result.
LEMMA OrderedOutcomeType ==
    ASSUME TypeOK, NEW m \in Seqs, commands[m] # None
    PROVE  commands[m].cmd \in Command /\ OrderedOutcome(m) \in Result
<1>1. commands[m] \in CommandRecord /\ trace[m] \in Book
  BY BoundsAssumption DEF TypeOK, Seqs
<1> QED
  BY <1>1, ExecutorAssumption DEF CommandRecord, OrderedOutcome

\* Initial states map to initial states of the ledger.
LEMMA LedgerInitially == Init => Ledger!LedgerInit
<1> SUFFICES ASSUME Init PROVE Ledger!LedgerInit
  OBVIOUS
<1>1. LedgerBar = [n \in Seqs |-> None]
  BY DEF Init, LedgerBar, EmptySlots
<1>2. MaxSeq + 1 \in 0 .. MaxSeq + 1
  BY BoundsAssumption
<1>3. trace[MaxSeq + 1] = InitBook /\ ToldBar = {}
  BY <1>2 DEF Init, ToldBar
<1> QED
  BY <1>1, <1>3 DEF Ledger!LedgerInit, Ledger!LedgerSeqs, Seqs

\* A step that writes no command and tells nobody anything is a stutter.
LEMMA LedgerStutter ==
    ASSUME UNCHANGED <<commands, trace, acked>>
    PROVE  UNCHANGED Ledger!lvars
BY DEF Ledger!lvars, LedgerBar, ToldBar, OrderedOutcome

\* A committed write-ahead takes the first free sequence of the ledger.
LEMMA LedgerSequences ==
    ASSUME ReadBackReliable, ReliableInv, NEW c \in Command, Submit(c)
    PROVE  [Ledger!LedgerNext]_(Ledger!lvars)
<1> DEFINE n == nextSequence
           rec == [cmd |-> c, ts |-> clock]
<1>1. /\ n \in Seqs /\ rec \in CommandRecord /\ rec # None
      /\ \A m \in Seqs : n <= m => commands[m] = None
      /\ MaxSeq \in Nat /\ n \in 0 .. MaxSeq + 1 /\ MaxSeq + 1 \in 0 .. MaxSeq + 1
  BY SubmitCases, NoneAssumption, BoundsAssumption DEF Seqs
<1>2. acked' = acked
  BY DEF Submit
<1>3. CASE commands' = [commands EXCEPT ![n] = rec] /\ trace' = Extend(trace, n, c)
  <2>1. rec.cmd = c
    OBVIOUS
  <2>2. /\ TraceIsReplay'
        /\ \A m \in Seqs : m <= n => trace'[m] = trace[m]
        /\ \A m \in Seqs : m # n => commands'[m] = commands[m]
        /\ \A m \in Seqs : m < n => OrderedOutcome(m)' = OrderedOutcome(m)
        /\ trace'[MaxSeq + 1] = NextBook(trace[n], c)
        /\ commands'[n] = rec
    BY <1>1, <1>3, <2>1, HistoryExtends DEF ReliableInv, BookIsReplay
  <2>3. trace[MaxSeq + 1] = trace[n]
    BY <1>1 DEF ReliableInv, TraceIsFlat, Seqs
  <2>4. \A m \in Seqs : LedgerBar[m] # None <=> m < n
    <3>1. \A m \in Seqs : commands[m] # None <=> m < n
      BY <1>1 DEF ReliableInv, NoCursorGap, Submit, Ready, Seqs
    <3>2. \A m \in Seqs : commands[m] # None => LedgerBar[m] # None
      <4> SUFFICES ASSUME NEW m \in Seqs, commands[m] # None
                   PROVE  [cmd |-> commands[m].cmd, outcome |-> OrderedOutcome(m)] # None
        BY DEF LedgerBar
      <4>1. commands[m].cmd \in Command /\ OrderedOutcome(m) \in Result
        BY OrderedOutcomeType DEF ReliableInv
      <4> QED
        BY <4>1, EntryAssumption
    <3> QED
      BY <3>1, <3>2 DEF LedgerBar
  <2>5. LedgerBar' = [LedgerBar EXCEPT ![n] = [cmd |-> c, outcome |-> Outcome(trace[n], c)]]
    <3>1. n <= n /\ trace'[n] = trace[n] /\ commands'[n].cmd = c /\ commands'[n] # None
      BY <1>1, <2>1, <2>2 DEF Seqs
    <3>2. LedgerBar'[n] = [cmd |-> c, outcome |-> Outcome(trace[n], c)]
      BY <1>1, <3>1 DEF LedgerBar, OrderedOutcome
    <3>3. ASSUME NEW m \in Seqs, m # n PROVE LedgerBar'[m] = LedgerBar[m]
      <4>1. commands'[m] = commands[m]
        BY <2>2, <3>3
      <4>2. commands[m] # None => m < n
        BY <1>1 DEF Seqs
      <4>3. commands[m] # None => OrderedOutcome(m)' = OrderedOutcome(m)
        BY <2>2, <4>2
      <4> QED
        BY <4>1, <4>3 DEF LedgerBar
    <3> QED
      BY <1>1, <3>2, <3>3 DEF LedgerBar
  <2>6. ToldBar' = ToldBar
    BY <1>2 DEF ToldBar
  <2>7. Ledger!Sequence(n, c)
    BY <2>2, <2>3, <2>4, <2>5, <2>6 DEF Ledger!Sequence, Ledger!LedgerSeqs, Seqs
  <2> QED
    BY <1>1, <2>7 DEF Ledger!LedgerNext, Ledger!LedgerSeqs, Seqs
<1>4. CASE UNCHANGED <<commands, trace>>
  BY <1>2, <1>4, LedgerStutter
<1> QED
  BY <1>3, <1>4, SubmitCases

\* A completed turn tells the outcome the ledger holds at its sequence.
LEMMA LedgerTells ==
    ASSUME ReliableInv, FanOutAndAdvance
    PROVE  Ledger!LedgerNext
<1> DEFINE n == nextSequence
<1>1. /\ n \in Seqs /\ events[n] = turn /\ turn \in EventRecord /\ turn # None
  BY NoneAssumption DEF ReliableInv, TypeOK, InvTurn, FanOutAndAdvance
<1>2. /\ commands[n] # None
      /\ turn = [cmd |-> commands[n].cmd, ts |-> commands[n].ts, outcome |-> OrderedOutcome(n)]
  BY <1>1 DEF ReliableInv, EventPairsCommand
<1>3. /\ LedgerBar[n] = [cmd |-> commands[n].cmd, outcome |-> OrderedOutcome(n)]
      /\ LedgerBar[n].outcome = turn.outcome
  BY <1>1, <1>2 DEF LedgerBar
<1>4. LedgerBar[n] # None
  <2>1. commands[n].cmd \in Command /\ OrderedOutcome(n) \in Result
    BY <1>1, <1>2, OrderedOutcomeType DEF ReliableInv
  <2> QED
    BY <1>3, <2>1, EntryAssumption
<1>5. UNCHANGED <<commands, trace>>
  BY DEF FanOutAndAdvance, journal
<1>6. LedgerBar' = LedgerBar
  BY <1>5 DEF LedgerBar, OrderedOutcome
<1>7. ToldBar' = ToldBar \cup {[seq |-> n, outcome |-> turn.outcome]}
  <2> DEFINE receipt == [seq |-> n, cmd |-> turn.cmd, outcome |-> turn.outcome]
             pair(a) == [seq |-> a.seq, outcome |-> a.outcome]
  <2>1. acked' = acked \cup {receipt}
    BY DEF FanOutAndAdvance
  <2>2. pair(receipt) = [seq |-> n, outcome |-> turn.outcome]
    OBVIOUS
  <2>3. ToldBar = {pair(a) : a \in acked} /\ ToldBar' = {pair(a) : a \in acked'}
    BY DEF ToldBar
  <2> HIDE DEF receipt, pair
  <2> QED
    BY <2>1, <2>2, <2>3
<1>8. Ledger!Tell(n)
  BY <1>3, <1>4, <1>5, <1>6, <1>7 DEF Ledger!Tell
<1> QED
  BY <1>1, <1>8 DEF Ledger!LedgerNext, Ledger!LedgerSeqs, Seqs

\* Every step maps to a step of the ledger or to a stutter.
LEMMA LedgerStep ==
    ASSUME ReadBackReliable, ReliableInv, [Next]_vars
    PROVE  [Ledger!LedgerNext]_(Ledger!lvars)
<1>1. CASE \E c \in Command : Submit(c)
  BY <1>1, LedgerSequences
<1>2. CASE FanOutAndAdvance
  BY <1>2, LedgerTells
<1>3. CASE LateCommandLands \/ LateEventLands
  BY <1>3 DEF LateCommandLands, LateEventLands, ReliableInv, InvShape
<1>4. CASE \/ ExecuteAndAppendEvent \/ ProjectionFails \/ Crash \/ Boot \/ ReplayCommand
           \/ Resume \/ Tick \/ UNCHANGED vars
  <2>1. UNCHANGED <<commands, trace, acked>>
    BY <1>4 DEF ExecuteAndAppendEvent, TurnEvent, ProjectionFails, Crash, Boot, ReplayCommand,
                Resume, Tick, vars, journal, history
  <2> QED
    BY <2>1, LedgerStutter
<1> QED
  BY <1>1, <1>2, <1>3, <1>4 DEF Next

\* The actor with its crashes, its journal faults and its recoveries implements one
\* totally ordered ledger of deterministic executions (SequencedLedger).
THEOREM ActorImplementsLedger == ReadBackReliable => (Spec => ImplementsLedger)
<1> SUFFICES ASSUME ReadBackReliable PROVE Spec => ImplementsLedger
  OBVIOUS
<1>1. Init => Ledger!LedgerInit
  BY LedgerInitially
<1>2. ReliableInv /\ [Next]_vars => [Ledger!LedgerNext]_(Ledger!lvars)
  BY LedgerStep
<1>3. Spec => []ReliableInv
  BY ReliableInvariant
<1> QED
  BY <1>1, <1>2, <1>3, PTL DEF Spec, ImplementsLedger, Ledger!LedgerSpec

-----------------------------------------------------------------------------
(* Snapshots and restores: the inductive invariant.                         *)

\* A sequence number that is used: by a command or by an epoch marker.
Covered(n) == commands[n] # None \/ markers[n] # None

SnapShape ==
    /\ status # "live" => pc = "idle" /\ sealed = None
    /\ sealed # None => pc = "idle"
    /\ status = "down" => book = InitBook /\ nextSequence = 0

\* The used numbers have no gap, whether or not a process is up, and an event stands by
\* its command.
SnapJournal ==
    /\ \A m, n \in Seqs : m < n /\ Covered(n) => Covered(m)
    /\ \A n \in Seqs : events[n] # None => commands[n] # None

\* A live actor stands at the end of them. Its own number may carry the marker of a restore
\* that was rolled back, and carries a command only while its turn runs or it is sealed.
SnapLive ==
    status = "live" =>
        /\ \A n \in Seqs : n < nextSequence => Covered(n)
        /\ \A n \in Seqs : n > nextSequence => ~ Covered(n)
        /\ pc = "idle" /\ sealed = None => commands[nextSequence] = None
        /\ line.from <= nextSequence

SnapTurn ==
    /\ pc = "execute" => commands[nextSequence] = turn
    /\ pc = "fanout" => /\ events[nextSequence] = turn /\ commands[nextSequence] # None
                        /\ commands[nextSequence].cmd = turn.cmd

\* The walk of recovery has re-executed the commands before its position, and found every
\* stored event there to be the one that the re-execution gives.
SnapWalk ==
    status = "recovering" =>
        /\ book = trace[nextSequence]
        /\ \A n \in Seqs : n < nextSequence =>
             Covered(n) /\ (events[n] # None => events[n].outcome = OrderedOutcome(n))

\* Where the line began, what the latest restore left in the journal, and which numbers carry
\* a marker beside a command.
SnapLine ==
    /\ \A n \in Seqs : n < line.from => Covered(n)
    /\ restoredAt = 0 => line.book = trace
    /\ restoredAt # 0 => markers[restoredAt - 1] # None
    /\ SequenceUsedOnce
    /\ status = "live" /\ markers[nextSequence] # None => nextSequence \in rolledBack

SnapInv ==
    /\ SnapshotTypeOK /\ SnapShape /\ SnapJournal /\ SnapLive /\ SnapTurn /\ SnapWalk /\ SnapLine
    /\ TraceIsReplay /\ TraceIsFlat /\ BookFollowsLine /\ AckedIsDurable

\* A step that touches neither the journal's commands and markers nor the line.
LEMMA LineKept ==
    ASSUME SnapInv, UNCHANGED <<commands, markers, trace, line, restoredAt, rolledBack>>,
           status' = "live" => \/ status = "live" /\ nextSequence' = nextSequence
                               \/ markers[nextSequence'] = None
    PROVE  SnapLine' /\ LineSteps'
<1>1. \A m \in Seqs : Covered(m)' = Covered(m)
  BY DEF Covered
<1>2. SequenceUsedOnce'
  BY DEF SnapInv, SnapLine, SequenceUsedOnce
<1>3. SnapLine'
  BY <1>1, <1>2 DEF SnapInv, SnapLine
<1> QED
  BY <1>3 DEF SnapInv, BookFollowsLine, LineSteps

\* A diverged line stays what it is while the stored events stay.
LEMMA DivergedKept ==
    ASSUME SnapInv, UNCHANGED <<commands, events, markers, trace, line, restoredAt>>
    PROVE  line'.diverged => DivergedUnseen'
<1>1. \A m \in Seqs : OrderedOutcome(m)' = OrderedOutcome(m)
  BY DEF OrderedOutcome
<1> QED
  BY <1>1 DEF SnapInv, BookFollowsLine, DivergedUnseen

-----------------------------------------------------------------------------
(* The write-ahead step.                                                    *)

\* With a trustworthy read-back, a write-ahead either commits this record in a free
\* slot and extends both histories, or changes nothing durable and refuses.
LEMMA SubmitOutcomes ==
    ASSUME ReadBackReliable, SnapInv, NEW c \in Command, SubmitOnLine(c)
    PROVE  LET rec == [cmd |-> c, ts |-> clock] IN
           /\ nextSequence \in Seqs /\ rec \in CommandRecord /\ rec # None
           /\ status = "live" /\ pc = "idle" /\ sealed = None
           /\ \A m \in Seqs : nextSequence <= m => commands[m] = None
           /\ \/ /\ commands' = [commands EXCEPT ![nextSequence] = rec]
                 /\ pc' = "execute" /\ turn' = rec
                 /\ trace' = Extend(trace, nextSequence, c)
                 /\ line' = [line EXCEPT !.book = Extend(line.book, nextSequence, c)]
              \/ UNCHANGED <<commands, trace, pc, turn, line>>
<1> DEFINE n == nextSequence
           rec == [cmd |-> c, ts |-> clock]
<1>1. /\ n \in Seqs /\ rec \in CommandRecord /\ commands \in [Seqs -> CommandRecord \cup {None}]
      /\ status = "live" /\ pc = "idle" /\ sealed = None
  BY DEF SnapInv, SnapshotTypeOK, TypeOK, SubmitOnLine, Submit, Ready, CommandRecord
<1>2. ASSUME NEW m \in Seqs, n <= m PROVE commands[m] = None
  <2>1. m = n \/ m > n
    BY <1>1, <1>2, BoundsAssumption DEF Seqs
  <2> QED
    BY <1>1, <2>1 DEF SnapInv, SnapLive, Covered
<1>3. commands[n] = None
  BY <1>1 DEF SnapInv, SnapLive
<1>4. rec # None
  BY <1>1, NoneAssumption
<1>5. \/ commands' = [commands EXCEPT ![n] = rec] /\ Proceed(rec)
      \/ UNCHANGED commands /\ Reuse(rec)
  <2>1. WriteAheadCommand(rec)
    BY DEF SubmitOnLine, Submit
  <2>2. Settled(commands, n, rec) = {commands, [commands EXCEPT ![n] = rec]}
    BY <1>3 DEF Settled, Insert
  <2>3. [commands EXCEPT ![n] = rec][n] # None
    BY <1>1, <1>4
  <2>4. ReadBack(commands', n) = {commands'[n] # None}
    BY DEF ReadBack
  <2> QED
    BY <1>3, <2>1, <2>2, <2>3, <2>4 DEF WriteAheadCommand
<1>6. CASE commands' = [commands EXCEPT ![n] = rec] /\ Proceed(rec)
  <2>1. commands'[n] = rec /\ commands' # commands
    BY <1>1, <1>3, <1>4, <1>6
  <2>2. trace' = Extend(trace, n, c)
    BY <1>3, <1>4, <2>1 DEF SubmitOnLine, Submit, TraceAfter
  <2>3. line' = [line EXCEPT !.book = Extend(line.book, n, c)]
    BY <2>1 DEF SubmitOnLine
  <2> QED
    BY <1>1, <1>2, <1>4, <1>6, <2>2, <2>3 DEF Proceed
<1>7. CASE UNCHANGED commands /\ Reuse(rec)
  <2>1. UNCHANGED <<trace, line>>
    BY <1>7 DEF SubmitOnLine, Submit, TraceAfter
  <2> QED
    BY <1>1, <1>2, <1>4, <1>7, <2>1 DEF Reuse
<1> QED
  BY <1>5, <1>6, <1>7

\* The state of a line of books is extended by one executed command, as the history is.
LEMMA LineExtends ==
    ASSUME NEW b \in [0 .. MaxSeq + 1 -> Book], NEW n \in Seqs, NEW c \in Command
    PROVE  /\ Extend(b, n, c) \in [0 .. MaxSeq + 1 -> Book]
           /\ \A m \in Seqs : m <= n => Extend(b, n, c)[m] = b[m]
           /\ \A m \in 0 .. MaxSeq + 1 : m > n => Extend(b, n, c)[m] = NextBook(b[n], c)
<1>1. \A m \in Seqs : m \in 0 .. MaxSeq + 1
  BY BoundsAssumption DEF Seqs
<1>2. \A m \in 0 .. MaxSeq + 1 : Extend(b, n, c)[m] = IF m <= n THEN b[m] ELSE NextBook(b[n], c)
  BY DEF Extend
<1>3. \A m \in 0 .. MaxSeq + 1 : m > n => ~(m <= n)
  BY BoundsAssumption DEF Seqs
<1> QED
  BY <1>1, <1>2, <1>3, ExtendType

LEMMA SnapSubmit ==
    ASSUME ReadBackReliable, SnapInv, NEW c \in Command, SubmitOnLine(c)
    PROVE  SnapInv'
<1> DEFINE n == nextSequence
           rec == [cmd |-> c, ts |-> clock]
<1>1. /\ n \in Seqs /\ rec \in CommandRecord /\ rec # None
      /\ status = "live" /\ pc = "idle" /\ sealed = None
      /\ \A m \in Seqs : n <= m => commands[m] = None
      /\ \/ /\ commands' = [commands EXCEPT ![n] = rec]
            /\ pc' = "execute" /\ turn' = rec
            /\ trace' = Extend(trace, n, c)
            /\ line' = [line EXCEPT !.book = Extend(line.book, n, c)]
         \/ UNCHANGED <<commands, trace, pc, turn, line>>
  BY SubmitOutcomes
<1>2. /\ UNCHANGED <<events, markers, status, nextSequence, sealed, book, acked>>
      /\ UNCHANGED <<epoch, saved, restoredAt, rolledBack>>
  BY DEF SubmitOnLine, Submit
<1>3. TypeOK'
  BY TypeSubmit DEF SnapInv, SnapshotTypeOK, SubmitOnLine
<1>4. CASE UNCHANGED <<commands, trace, pc, turn, line>>
  <2>1. SnapshotTypeOK'
    BY <1>2, <1>3, <1>4 DEF SnapInv, SnapshotTypeOK
  <2>2. TraceIsReplay' /\ TraceIsFlat'
    BY <1>4, HistoryUnchanged DEF SnapInv
  <2>3. SnapShape' /\ SnapJournal' /\ SnapLive' /\ SnapTurn' /\ SnapWalk' /\ AckedIsDurable'
    BY <1>1, <1>2, <1>4 DEF SnapInv, SnapShape, SnapJournal, SnapLive, SnapTurn, SnapWalk, AckedIsDurable, Covered
  <2>4. SnapLine' /\ LineSteps' /\ (line'.diverged => DivergedUnseen')
    BY <1>1, <1>2, <1>4, LineKept, DivergedKept
  <2>5. BookFollowsLine'
    BY <1>2, <1>4, <2>4 DEF SnapInv, BookFollowsLine, BookPosition
  <2> QED
    BY <2>1, <2>2, <2>3, <2>4, <2>5 DEF SnapInv
<1>5. CASE /\ commands' = [commands EXCEPT ![n] = rec]
           /\ pc' = "execute" /\ turn' = rec
           /\ trace' = Extend(trace, n, c)
           /\ line' = [line EXCEPT !.book = Extend(line.book, n, c)]
  <2>1. /\ line \in [from : Seqs, book : [0 .. MaxSeq + 1 -> Book], diverged : BOOLEAN]
        /\ line.book \in [0 .. MaxSeq + 1 -> Book] /\ line.from \in Seqs
        /\ commands \in [Seqs -> CommandRecord \cup {None}]
    BY DEF SnapInv, SnapshotTypeOK, TypeOK
  <2>2. /\ Extend(line.book, n, c) \in [0 .. MaxSeq + 1 -> Book]
        /\ \A m \in Seqs : m <= n => Extend(line.book, n, c)[m] = line.book[m]
        /\ \A m \in 0 .. MaxSeq + 1 : m > n => Extend(line.book, n, c)[m] = NextBook(line.book[n], c)
    BY <1>1, <2>1, LineExtends
  <2>3. /\ line' \in [from : Seqs, book : [0 .. MaxSeq + 1 -> Book], diverged : BOOLEAN]
        /\ line'.book = Extend(line.book, n, c) /\ line'.from = line.from /\ line'.diverged = line.diverged
    BY <1>5, <2>1, <2>2
  <2>4. SnapshotTypeOK'
    BY <1>2, <1>3, <2>3 DEF SnapInv, SnapshotTypeOK
  <2>5. commands'[n] = rec /\ \A m \in Seqs : m # n => commands'[m] = commands[m]
    BY <1>1, <1>5, <2>1
  <2>6. TraceIsReplay' /\ TraceIsFlat'
    <3>1. TypeOK /\ TraceIsReplay /\ TraceIsFlat
      BY DEF SnapInv, SnapshotTypeOK
    <3>2. rec.cmd = c
      OBVIOUS
    <3>3. trace' = Extend(trace, n, rec.cmd)
      BY <1>5, <3>2
    <3> HIDE DEF rec, n
    <3> QED
      BY <1>1, <1>5, <3>1, <3>3, HistoryExtends
  <2>7. SnapShape' /\ SnapTurn' /\ SnapWalk' /\ AckedIsDurable'
    BY <1>1, <1>2, <1>5, <2>5 DEF SnapInv, SnapShape, SnapTurn, SnapWalk, AckedIsDurable, TypeOK, SnapshotTypeOK
  <2>8. SnapLive' /\ SnapJournal'
    <3>1. \A m \in Seqs : m < n => Covered(m)
      BY <1>1 DEF SnapInv, SnapLive
    <3>2. \A m \in Seqs : m > n => ~Covered(m)'
      <4>1. ASSUME NEW m \in Seqs, m > n PROVE ~Covered(m)' /\ m # n
        <5>1. m # n
          BY <1>1, <4>1, BoundsAssumption DEF Seqs
        <5> QED
          BY <1>1, <1>2, <2>5, <4>1, <5>1 DEF SnapInv, SnapLive, Covered
      <4> QED
        BY <4>1
    <3>3. \A m \in Seqs : Covered(m) => Covered(m)'
      BY <1>1, <1>2, <2>5 DEF Covered
    <3>4. \A m, k \in Seqs : m < k /\ Covered(k)' => Covered(m)'
      <4>1. ASSUME NEW m \in Seqs, NEW k \in Seqs, m < k, Covered(k)' PROVE m < n
        BY <1>1, <3>2, <4>1, BoundsAssumption DEF Seqs
      <4> QED
        BY <3>1, <3>3, <4>1
    <3>5. \A m \in Seqs : events'[m] # None => commands'[m] # None
      BY <1>1, <1>2, <2>5 DEF SnapInv, SnapJournal
    <3>6. \A m \in Seqs : m < n => Covered(m)'
      BY <3>1, <3>3
    <3>7. line'.from <= nextSequence'
      BY <1>1, <1>2, <2>3 DEF SnapInv, SnapLive
    <3>8. SnapLive'
      BY <1>2, <1>5, <3>2, <3>6, <3>7 DEF SnapLive
    <3> QED
      BY <3>4, <3>5, <3>8 DEF SnapJournal
  <2>9. BookFollowsLine'
    <3>1. /\ book = line.book[n]
          /\ \A m \in line.from .. MaxSeq :
                line.book[m + 1] = IF commands[m] = None THEN line.book[m]
                                   ELSE NextBook(line.book[m], commands[m].cmd)
      BY <1>1 DEF SnapInv, BookFollowsLine, LineSteps, BookPosition
    <3>2. n <= n /\ n \in Seqs
      BY <1>1, BoundsAssumption DEF Seqs
    <3>3. BookPosition' = n /\ book' = line'.book[n]
      BY <1>1, <1>2, <1>5, <2>2, <2>3, <3>1, <3>2 DEF BookPosition
    <3>4. ASSUME NEW m \in line.from .. MaxSeq
          PROVE  line'.book[m + 1] = IF commands'[m] = None THEN line'.book[m]
                                     ELSE NextBook(line'.book[m], commands'[m].cmd)
      <4>1. m \in Seqs /\ m + 1 \in 0 .. MaxSeq + 1 /\ m \in 0 .. MaxSeq + 1
        BY <2>1, BoundsAssumption DEF Seqs
      <4>2. CASE m < n
        <5>1. m + 1 \in Seqs /\ m + 1 <= n /\ m <= n /\ m # n
          BY <1>1, <4>1, <4>2, BoundsAssumption DEF Seqs
        <5> QED
          BY <2>2, <2>3, <2>5, <3>1, <4>1, <5>1
      <4>3. CASE m = n
        <5>1. m + 1 > n /\ m <= n
          BY <1>1, <4>1, <4>3, BoundsAssumption DEF Seqs
        <5>2. line'.book[m + 1] = NextBook(line.book[n], c) /\ line'.book[m] = line.book[n]
          BY <2>2, <2>3, <4>1, <4>3, <5>1
        <5> QED
          BY <1>1, <2>5, <4>3, <5>2
      <4>4. CASE m > n
        <5>1. m + 1 > n /\ n <= m /\ m # n
          BY <1>1, <4>1, <4>4, BoundsAssumption DEF Seqs
        <5>2. line'.book[m + 1] = NextBook(line.book[n], c) /\ line'.book[m] = NextBook(line.book[n], c)
          BY <2>2, <2>3, <4>1, <4>4, <5>1
        <5>3. commands'[m] = None
          BY <1>1, <2>5, <4>1, <5>1
        <5> QED
          BY <5>2, <5>3
      <4> QED
        BY <1>1, <4>1, <4>2, <4>3, <4>4, BoundsAssumption DEF Seqs
    <3>5. ASSUME line'.diverged PROVE DivergedUnseen'
      <4>1. /\ restoredAt > 0 /\ markers[restoredAt - 1] # None /\ line.book = trace /\ line.from = 0
            /\ \A m \in Seqs : events[m] # None => events[m].outcome = OrderedOutcome(m)
        BY <2>3, <3>5 DEF SnapInv, BookFollowsLine, DivergedUnseen
      <4>2. line'.book = trace' /\ line'.from = 0
        BY <1>5, <2>3, <4>1
      <4>3. ASSUME NEW m \in Seqs, events'[m] # None PROVE events'[m].outcome = OrderedOutcome(m)'
        <5>1. commands[m] # None
          BY <1>2, <4>3 DEF SnapInv, SnapJournal
        <5>2. ~(n <= m)
          BY <1>1, <5>1
        <5>3. m <= n /\ m # n
          BY <1>1, <5>2, BoundsAssumption DEF Seqs
        <5>4. trace'[m] = trace[m]
          BY <2>2, <2>3, <4>1, <4>2, <5>3
        <5> QED
          BY <1>2, <2>5, <4>1, <4>3, <5>3, <5>4 DEF OrderedOutcome
      <4> QED
        BY <1>2, <4>1, <4>2, <4>3 DEF DivergedUnseen
    <3>6. LineSteps'
      BY <2>3, <3>4 DEF LineSteps
    <3> QED
      BY <3>3, <3>5, <3>6 DEF BookFollowsLine
  <2>10. SnapLine'
    <3>1. \A m \in Seqs : Covered(m) => Covered(m)'
      BY <1>1, <1>2, <2>5 DEF Covered
    <3>2. \A m \in Seqs : m < line'.from => Covered(m)'
      BY <2>3, <3>1 DEF SnapInv, SnapLine
    <3>3. restoredAt = 0 => line'.book = trace'
      BY <1>5, <2>3 DEF SnapInv, SnapLine
    <3>4. SequenceUsedOnce'
      BY <1>1, <1>2, <2>5 DEF SnapInv, SnapLine, SequenceUsedOnce
    <3> QED
      BY <1>1, <1>2, <3>2, <3>3, <3>4 DEF SnapInv, SnapLine
  <2> QED
    BY <2>4, <2>6, <2>7, <2>8, <2>9, <2>10 DEF SnapInv
<1> QED
  BY <1>1, <1>4, <1>5

-----------------------------------------------------------------------------
(* The rest of a turn.                                                      *)

\* A step that leaves the journal's commands and markers and the line alone.
LEMMA SnapKeeps ==
    ASSUME SnapInv, UNCHANGED <<commands, markers, trace>>, UNCHANGED snapshotVars, TypeOK'
    PROVE  /\ SnapshotTypeOK' /\ TraceIsReplay' /\ TraceIsFlat'
           /\ \A m \in Seqs : OrderedOutcome(m)' = OrderedOutcome(m)
           /\ \A m \in Seqs : Covered(m)' = Covered(m)
<1>1. UNCHANGED <<epoch, saved, line, restoredAt, rolledBack>>
  BY DEF snapshotVars
<1>2. SnapshotTypeOK'
  BY <1>1 DEF SnapInv, SnapshotTypeOK
<1>3. TraceIsReplay' /\ TraceIsFlat' /\ \A m \in Seqs : OrderedOutcome(m)' = OrderedOutcome(m)
  BY HistoryUnchanged DEF SnapInv
<1>4. \A m \in Seqs : Covered(m)' = Covered(m)
  BY DEF Covered
<1> QED
  BY <1>2, <1>3, <1>4

LEMMA SnapExecute ==
    ASSUME SnapInv, ExecuteAndAppendEvent, UNCHANGED snapshotVars
    PROVE  SnapInv'
<1> DEFINE n == nextSequence
           evt == TurnEvent
<1>1. /\ n \in Seqs /\ status = "live" /\ pc = "execute" /\ sealed = None /\ turn \in CommandRecord
      /\ commands[n] = turn /\ turn # None /\ book \in Book
      /\ events \in [Seqs -> EventRecord \cup {None}]
  BY NoneAssumption
     DEF SnapInv, SnapshotTypeOK, TypeOK, SnapTurn, SnapShape, ExecuteAndAppendEvent
<1>2. UNCHANGED <<commands, markers, status, nextSequence, acked, trace, line, restoredAt, rolledBack>>
  BY DEF ExecuteAndAppendEvent, snapshotVars
<1>3. TypeOK'
  BY TypeExecute DEF SnapInv, SnapshotTypeOK
<1>4. /\ SnapshotTypeOK' /\ TraceIsReplay' /\ TraceIsFlat'
      /\ \A m \in Seqs : OrderedOutcome(m)' = OrderedOutcome(m)
      /\ \A m \in Seqs : Covered(m)' = Covered(m)
  BY <1>2, <1>3, SnapKeeps
<1>5. evt \in EventRecord /\ evt # None /\ evt.cmd = turn.cmd
  BY <1>1, ExecutorAssumption, NoneAssumption DEF TurnEvent, CommandRecord, EventRecord
<1>6. /\ \/ pc' = "fanout" /\ turn' = evt /\ sealed' = sealed /\ events' = [events EXCEPT ![n] = evt]
                /\ events[n] \in {None, evt}
         \/ pc' = "idle" /\ sealed' = "JournalUnavailable" /\ events' \in {events, Insert(events, n, evt)}
      /\ book' = NextBook(book, turn.cmd)
  BY DEF ExecuteAndAppendEvent, AppendOk, Settled, EventAppendFailed, Seal
<1> HIDE DEF evt, n
<1>7. /\ \A m \in Seqs : m # n => events'[m] = events[m]
      /\ events'[n] \in {events[n], evt}
      /\ events[n] # None => events'[n] = events[n]
  <2>1. CASE events' = [events EXCEPT ![n] = evt] /\ events[n] \in {None, evt}
    BY <1>1, <2>1
  <2>2. CASE events' \in {events, Insert(events, n, evt)}
    BY <1>1, <2>2 DEF Insert
  <2> QED
    BY <1>6, <2>1, <2>2
<1>8. sealed' # None => sealed' = "JournalUnavailable" /\ pc' = "idle"
  BY <1>1, <1>6
<1>9. SnapShape'
  BY <1>1, <1>2, <1>8 DEF SnapShape
<1>10. SnapJournal'
  <2>1. \A m \in Seqs : events'[m] # None => commands'[m] # None
    BY <1>1, <1>2, <1>7 DEF SnapInv, SnapJournal
  <2>2. \A m, k \in Seqs : m < k /\ Covered(k)' => Covered(m)'
    BY <1>4 DEF SnapInv, SnapJournal
  <2> QED
    BY <2>1, <2>2 DEF SnapJournal
<1>11. ~(pc' = "idle" /\ sealed' = None)
  BY <1>1, <1>6, NoneAssumption DEF SealReason
<1>12. SnapLive'
  BY <1>1, <1>2, <1>4, <1>11 DEF SnapInv, SnapLive, n
<1>13. SnapTurn'
  <2>1. ASSUME pc' = "fanout"
        PROVE  events'[n] = turn' /\ commands'[n] # None /\ commands'[n].cmd = turn'.cmd
    BY <1>1, <1>2, <1>5, <1>6, <2>1
  <2>2. pc' # "execute"
    BY <1>6
  <2> QED
    BY <1>2, <2>1, <2>2 DEF SnapTurn, n
<1>14. SnapWalk'
  BY <1>1, <1>2 DEF SnapWalk
<1>15. AckedIsDurable'
  <2>1. ASSUME NEW a \in acked
        PROVE  /\ commands'[a.seq] # None /\ commands'[a.seq].cmd = a.cmd
               /\ events'[a.seq] # None /\ events'[a.seq].outcome = a.outcome
    <3>1. /\ commands[a.seq] # None /\ commands[a.seq].cmd = a.cmd
          /\ events[a.seq] # None /\ events[a.seq].outcome = a.outcome /\ a.seq \in Seqs
      BY DEF SnapInv, SnapshotTypeOK, TypeOK, AckedIsDurable
    <3>2. events'[a.seq] = events[a.seq]
      BY <1>7, <3>1
    <3> QED
      BY <1>2, <3>1, <3>2
  <2> QED
    BY <1>2, <2>1 DEF AckedIsDurable
<1>16. BookFollowsLine'
  <2>1. /\ book = line.book[n]
        /\ \A m \in line.from .. MaxSeq :
              line.book[m + 1] = IF commands[m] = None THEN line.book[m]
                                 ELSE NextBook(line.book[m], commands[m].cmd)
    BY <1>1 DEF SnapInv, BookFollowsLine, LineSteps, BookPosition, n
  <2>2. n \in line.from .. MaxSeq
    <3>1. line.from \in Seqs /\ line.from <= n
      BY <1>1 DEF SnapInv, SnapLive, SnapshotTypeOK, n
    <3> QED
      BY <1>1, <3>1, BoundsAssumption DEF Seqs
  <2>3. book' = line.book[n + 1]
    BY <1>1, <1>6, <2>1, <2>2
  <2>4. BookPosition' = n + 1
    BY <1>2, <1>6, <1>11 DEF BookPosition, n
  <2>5. ASSUME line'.diverged PROVE DivergedUnseen'
    <3>1. /\ restoredAt > 0 /\ markers[restoredAt - 1] # None /\ line.book = trace /\ line.from = 0
          /\ \A m \in Seqs : events[m] # None => events[m].outcome = OrderedOutcome(m)
      BY <1>2, <2>5 DEF SnapInv, BookFollowsLine, DivergedUnseen
    <3>2. evt.outcome = OrderedOutcome(n)
      BY <1>1, <2>1, <3>1 DEF evt, TurnEvent, OrderedOutcome
    <3>3. ASSUME NEW m \in Seqs, events'[m] # None PROVE events'[m].outcome = OrderedOutcome(m)
      BY <1>7, <3>1, <3>2, <3>3
    <3> QED
      BY <1>2, <1>4, <3>1, <3>3 DEF DivergedUnseen
  <2>6. LineSteps'
    BY <1>1, <1>2, LineKept
  <2> QED
    BY <1>2, <2>3, <2>4, <2>5, <2>6 DEF BookFollowsLine
<1>17. SnapLine'
  BY <1>1, <1>2, LineKept
<1> QED
  BY <1>4, <1>9, <1>10, <1>12, <1>13, <1>14, <1>15, <1>16, <1>17 DEF SnapInv

LEMMA SnapFanOut ==
    ASSUME SnapInv, FanOutAndAdvance \/ ProjectionFails, UNCHANGED snapshotVars
    PROVE  SnapInv'
<1> DEFINE n == nextSequence
<1>1. /\ n \in Seqs /\ status = "live" /\ pc = "fanout" /\ sealed = None /\ turn \in EventRecord
      /\ turn # None /\ events[n] = turn /\ commands[n] # None /\ commands[n].cmd = turn.cmd
  BY NoneAssumption
     DEF SnapInv, SnapshotTypeOK, TypeOK, SnapTurn, SnapShape, FanOutAndAdvance, ProjectionFails
<1>2. UNCHANGED <<commands, events, markers, status, book, trace, line, restoredAt, rolledBack>>
  BY DEF FanOutAndAdvance, ProjectionFails, snapshotVars, journal
<1>3. TypeOK'
  BY TypeFanOut DEF SnapInv, SnapshotTypeOK
<1>4. /\ SnapshotTypeOK' /\ TraceIsReplay' /\ TraceIsFlat'
      /\ \A m \in Seqs : OrderedOutcome(m)' = OrderedOutcome(m)
      /\ \A m \in Seqs : Covered(m)' = Covered(m)
  BY <1>2, <1>3, SnapKeeps
<1>5. /\ pc' = "idle"
      /\ \/ n < MaxSeq /\ nextSequence' = n + 1 /\ sealed' = None
         \/ nextSequence' = n /\ sealed' \in SealReason /\ sealed' # None
      /\ acked' \subseteq acked \cup {[seq |-> n, cmd |-> turn.cmd, outcome |-> turn.outcome]}
  <2>1. CASE FanOutAndAdvance
    <3>1. acked' = acked \cup {[seq |-> n, cmd |-> turn.cmd, outcome |-> turn.outcome]} /\ Advance(n)
      BY <2>1 DEF FanOutAndAdvance
    <3>2. \/ n < MaxSeq /\ nextSequence' = n + 1 /\ pc' = "idle" /\ sealed' = None
          \/ nextSequence' = n /\ pc' = "idle" /\ sealed' = "SequenceExhausted"
      BY <1>1, <3>1 DEF Advance, Seal
    <3> QED
      BY <3>1, <3>2, NoneAssumption DEF SealReason
  <2>2. CASE ProjectionFails
    BY <2>2, NoneAssumption DEF ProjectionFails, Seal, SealReason
  <2> QED
    BY <2>1, <2>2
<1>6. SnapShape' /\ SnapTurn' /\ SnapWalk'
  BY <1>1, <1>2, <1>5 DEF SnapShape, SnapTurn, SnapWalk
<1>7. SnapJournal'
  BY <1>2, <1>4 DEF SnapInv, SnapJournal
<1>8. AckedIsDurable'
  <2>1. ASSUME NEW a \in acked'
        PROVE  /\ commands[a.seq] # None /\ commands[a.seq].cmd = a.cmd
               /\ events[a.seq] # None /\ events[a.seq].outcome = a.outcome
    <3>1. CASE a \in acked
      BY <3>1 DEF SnapInv, AckedIsDurable
    <3>2. CASE a = [seq |-> n, cmd |-> turn.cmd, outcome |-> turn.outcome]
      BY <1>1, <3>2
    <3> QED
      BY <1>5, <3>1, <3>2
  <2> QED
    BY <1>2, <2>1 DEF AckedIsDurable
<1>9. SnapLive'
  <2>1. Covered(n) /\ line.from \in Seqs /\ line.from <= n
    BY <1>1 DEF Covered, SnapInv, SnapLive, SnapshotTypeOK
  <2>2. CASE n < MaxSeq /\ nextSequence' = n + 1 /\ sealed' = None
    <3>1. n + 1 \in Seqs /\ line.from <= n + 1
      BY <1>1, <2>1, <2>2, BoundsAssumption DEF Seqs
    <3>2. \A m \in Seqs : /\ m < n + 1 => m < n \/ m = n
                          /\ m > n + 1 => m > n
      BY <1>1, BoundsAssumption DEF Seqs
    <3>3. n + 1 > n
      BY <1>1, BoundsAssumption DEF Seqs
    <3>4. \A m \in Seqs : /\ m < n => Covered(m)
                          /\ m > n => ~Covered(m)
      BY <1>1 DEF SnapInv, SnapLive
    <3>5. commands'[n + 1] = None
      BY <1>2, <3>1, <3>3, <3>4 DEF Covered
    <3>6. \A m \in Seqs : /\ m < n + 1 => Covered(m)'
                          /\ m > n + 1 => ~Covered(m)'
      BY <1>4, <2>1, <3>2, <3>4
    <3> QED
      BY <1>2, <2>2, <3>1, <3>5, <3>6 DEF SnapLive
  <2>3. CASE nextSequence' = n /\ sealed' # None
    BY <1>1, <1>2, <1>4, <2>1, <2>3 DEF SnapInv, SnapLive
  <2> QED
    BY <1>5, <2>2, <2>3
<1>11. SnapLine' /\ LineSteps'
  <2>1. nextSequence' = n \/ markers[nextSequence'] = None
    <3>1. CASE n < MaxSeq /\ nextSequence' = n + 1
      <4>1. n + 1 \in Seqs /\ n + 1 > n
        BY <1>1, <3>1, BoundsAssumption DEF Seqs
      <4> QED
        BY <1>1, <3>1, <4>1 DEF SnapInv, SnapLive, Covered
    <3> QED
      BY <1>5, <3>1
  <2> QED
    BY <1>1, <1>2, <2>1, LineKept
<1>10. BookFollowsLine'
  <2>1. BookPosition = n + 1 /\ BookPosition' = n + 1
    BY <1>1, <1>5 DEF BookPosition
  <2> QED
    BY <1>1, <1>2, <1>11, <2>1, DivergedKept DEF SnapInv, BookFollowsLine
<1> QED
  BY <1>4, <1>6, <1>7, <1>8, <1>9, <1>10, <1>11 DEF SnapInv

-----------------------------------------------------------------------------
(* Crash and recovery.                                                      *)

LEMMA SnapCrash ==
    ASSUME SnapInv, CrashForgetsEpoch
    PROVE  SnapInv'
<1>1. /\ status' = "down" /\ pc' = "idle" /\ sealed' = None /\ nextSequence' = 0 /\ book' = InitBook
      /\ UNCHANGED <<commands, events, markers, acked, trace, saved, line, restoredAt, rolledBack>> /\ epoch' = 0
  BY DEF CrashForgetsEpoch, Crash, journal, history
<1>2. TypeOK'
  BY TypeRest DEF SnapInv, SnapshotTypeOK, CrashForgetsEpoch
<1>3. SnapshotTypeOK'
  BY <1>1, <1>2 DEF SnapInv, SnapshotTypeOK
<1>4. TraceIsReplay' /\ TraceIsFlat'
  BY <1>1, HistoryUnchanged DEF SnapInv
<1>5. SnapShape' /\ SnapJournal' /\ SnapLive' /\ SnapTurn' /\ SnapWalk' /\ AckedIsDurable'
  BY <1>1 DEF SnapInv, SnapShape, SnapJournal, SnapLive, SnapTurn, SnapWalk, AckedIsDurable, Covered
<1>6. SnapLine' /\ BookFollowsLine'
  BY <1>1, LineKept, DivergedKept DEF BookFollowsLine
<1> QED
  BY <1>3, <1>4, <1>5, <1>6 DEF SnapInv

LEMMA SnapBoot ==
    ASSUME SnapInv, Boot, UNCHANGED snapshotVars
    PROVE  SnapInv'
<1>1. /\ status = "down" /\ status' = "recovering"
      /\ UNCHANGED <<commands, events, markers, acked, trace, pc, turn, nextSequence, sealed, book, line, restoredAt, rolledBack>>
  BY DEF Boot, journal, history, snapshotVars
<1>2. TypeOK'
  BY TypeRest DEF SnapInv, SnapshotTypeOK
<1>3. /\ SnapshotTypeOK' /\ TraceIsReplay' /\ TraceIsFlat'
      /\ \A m \in Seqs : OrderedOutcome(m)' = OrderedOutcome(m)
      /\ \A m \in Seqs : Covered(m)' = Covered(m)
  BY <1>1, <1>2, SnapKeeps
<1>4. pc = "idle" /\ sealed = None /\ book = InitBook /\ nextSequence = 0 /\ trace[0] = InitBook
  BY <1>1 DEF SnapInv, SnapShape, TraceIsReplay
<1>5. SnapShape' /\ SnapLive' /\ SnapTurn' /\ AckedIsDurable'
  BY <1>1, <1>4 DEF SnapInv, SnapShape, SnapLive, SnapTurn, AckedIsDurable
<1>6. SnapJournal'
  BY <1>1, <1>3 DEF SnapInv, SnapJournal
<1>7. SnapWalk'
  BY <1>1, <1>4, BoundsAssumption DEF SnapWalk, Seqs
<1>8. SnapLine' /\ BookFollowsLine'
  BY <1>1, LineKept, DivergedKept DEF BookFollowsLine
<1> QED
  BY <1>3, <1>5, <1>6, <1>7, <1>8 DEF SnapInv

\* One iteration of the walk: the command at its position is re-executed and its stored event
\* compared, or there is only a marker to pass, or the walk ends in corruption.
LEMMA SnapWalks ==
    ASSUME SnapInv, (ReplayCommand /\ UNCHANGED snapshotVars) \/ SkipSequence
    PROVE  SnapInv'
<1> DEFINE n == nextSequence
<1>1. /\ n \in Seqs /\ status = "recovering" /\ RecordsFrom(n) /\ pc = "idle" /\ sealed = None
      /\ book = trace[n] /\ UNCHANGED snapshotVars
      /\ UNCHANGED <<commands, events, markers, acked, trace, pc, turn, sealed>>
  BY DEF SnapInv, SnapShape, SnapWalk, ReplayCommand, SkipSequence, journal, history
<1>2. TypeOK'
  <2>1. TypeOK
    BY DEF SnapInv, SnapshotTypeOK
  <2>2. CASE ReplayCommand
    BY <2>1, <2>2, TypeReplay
  <2>3. CASE SkipSequence
    <3>1. n + 1 \in 0 .. MaxSeq + 1
      BY <1>1, BoundsAssumption DEF Seqs
    <3> QED
      BY <1>1, <2>1, <2>3, <3>1 DEF SkipSequence, TypeOK, journal, history
  <2> QED
    BY <2>2, <2>3
<1>3. /\ SnapshotTypeOK' /\ TraceIsReplay' /\ TraceIsFlat'
      /\ \A m \in Seqs : OrderedOutcome(m)' = OrderedOutcome(m)
      /\ \A m \in Seqs : Covered(m)' = Covered(m)
  BY <1>1, <1>2, SnapKeeps
<1>4. \/ status' = "corrupt"
      \/ /\ status' = "recovering" /\ nextSequence' = n + 1
         /\ book' = IF commands[n] = None THEN book ELSE NextBook(book, commands[n].cmd)
         /\ commands[n] # None => StoredEventMatches(n)
  BY <1>1 DEF ReplayCommand, SkipSequence
<1>5. SnapShape' /\ SnapLive' /\ SnapTurn' /\ AckedIsDurable'
  BY <1>1, <1>4 DEF SnapInv, SnapShape, SnapLive, SnapTurn, AckedIsDurable, snapshotVars
<1>6. SnapJournal'
  BY <1>1, <1>3 DEF SnapInv, SnapJournal
<1>7. Covered(n)
  <2>1. PICK m \in Seqs : m >= n /\ (commands[m] # None \/ events[m] # None \/ markers[m] # None)
    BY <1>1 DEF RecordsFrom
  <2>2. Covered(m)
    BY <2>1 DEF SnapInv, SnapJournal, Covered
  <2>3. m = n \/ n < m
    BY <1>1, <2>1, BoundsAssumption DEF Seqs
  <2> QED
    BY <1>1, <2>2, <2>3 DEF SnapInv, SnapJournal
<1>8. SnapWalk'
  <2> SUFFICES ASSUME status' = "recovering" PROVE SnapWalk'
    BY DEF SnapWalk
  <2>1. book' = trace[n + 1]
    BY <1>1, <1>4 DEF SnapInv, TraceIsReplay
  <2>2. ASSUME NEW m \in Seqs, m < n + 1
        PROVE  Covered(m) /\ (events[m] # None => events[m].outcome = OrderedOutcome(m))
    <3>1. CASE m < n
      BY <1>1, <3>1 DEF SnapInv, SnapWalk
    <3>2. CASE m = n
      <4>1. ASSUME events[n] # None PROVE events[n].outcome = OrderedOutcome(n)
        <5>1. commands[n] # None
          BY <1>1, <4>1 DEF SnapInv, SnapJournal
        <5>2. StoredEventMatches(n)
          BY <1>4, <5>1
        <5> QED
          BY <1>1, <4>1, <5>2 DEF StoredEventMatches, OrderedOutcome
      <4> QED
        BY <1>7, <3>2, <4>1
    <3> QED
      BY <1>1, <2>2, <3>1, <3>2, BoundsAssumption DEF Seqs
  <2> QED
    BY <1>1, <1>3, <1>4, <2>1, <2>2 DEF SnapWalk
<1>9. SnapLine' /\ BookFollowsLine'
  <2>1. UNCHANGED <<line, restoredAt, rolledBack>> /\ status' # "live"
    BY <1>1, <1>4 DEF snapshotVars
  <2> QED
    BY <1>1, <2>1, LineKept, DivergedKept DEF BookFollowsLine
<1> QED
  BY <1>3, <1>5, <1>6, <1>8, <1>9 DEF SnapInv

\* The end of the walk: the line is the re-execution of the whole journal, and every receipt
\* that was ever given stands.
LEMMA SnapResume ==
    ASSUME SnapInv, ResumeOnReplay
    PROVE  /\ SnapInv'
           /\ \A a \in acked : /\ commands[a.seq] # None /\ commands[a.seq].cmd = a.cmd
                               /\ OrderedOutcome(a.seq) = a.outcome
<1> DEFINE n == nextSequence
<1>1. /\ status = "recovering" /\ ~RecordsFrom(n) /\ pc = "idle" /\ sealed = None /\ book = trace[n]
      /\ UNCHANGED <<commands, events, markers, acked, trace, pc, turn, sealed, book>>
      /\ UNCHANGED <<epoch, saved, restoredAt, rolledBack>>
      /\ \/ n \in Seqs /\ status' = "live" /\ nextSequence' = n
         \/ status' = "exhausted"
  BY DEF SnapInv, SnapShape, SnapWalk, ResumeOnReplay, Resume, journal, history
<1>2. /\ n \in 0 .. MaxSeq + 1 /\ trace \in [0 .. MaxSeq + 1 -> Book] /\ MaxSeq \in Nat
  BY BoundsAssumption DEF SnapInv, SnapshotTypeOK, TypeOK
<1>3. /\ line \in [from : Seqs, book : [0 .. MaxSeq + 1 -> Book], diverged : BOOLEAN]
      /\ \/ line' = line /\ book = line.book[n]
         \/ line' = [from |-> 0, book |-> trace, diverged |-> TRUE] /\ book # line.book[n]
  BY DEF SnapInv, SnapshotTypeOK, ResumeOnReplay
<1>4. /\ line' \in [from : Seqs, book : [0 .. MaxSeq + 1 -> Book], diverged : BOOLEAN]
      /\ book = line'.book[n]
      /\ \/ line' = line
         \/ line'.from = 0 /\ line'.book = trace /\ book # line.book[n]
  <2>1. CASE line' = line /\ book = line.book[n]
    BY <1>3, <2>1
  <2>2. CASE line' = [from |-> 0, book |-> trace, diverged |-> TRUE] /\ book # line.book[n]
    <3>1. 0 \in Seqs /\ TRUE \in BOOLEAN
      BY <1>2 DEF Seqs
    <3>2. line'.from = 0 /\ line'.book = trace
      BY <2>2
    <3> QED
      BY <1>1, <1>2, <2>2, <3>1, <3>2
  <2> QED
    BY <1>3, <2>1, <2>2
<1>5. TypeOK'
  BY TypeRest DEF SnapInv, SnapshotTypeOK, ResumeOnReplay
<1>6. SnapshotTypeOK'
  BY <1>1, <1>4, <1>5 DEF SnapInv, SnapshotTypeOK
<1>7. TraceIsReplay' /\ TraceIsFlat'
  BY <1>1, HistoryUnchanged DEF SnapInv
<1>8. \A m \in Seqs : m >= n => commands[m] = None /\ events[m] = None /\ markers[m] = None
  BY <1>1 DEF RecordsFrom
<1>9. SnapShape' /\ SnapTurn' /\ SnapWalk' /\ AckedIsDurable' /\ SnapJournal'
  BY <1>1 DEF SnapInv, SnapShape, SnapTurn, SnapWalk, AckedIsDurable, SnapJournal, Covered
<1>10. SnapLive'
  <2> SUFFICES ASSUME n \in Seqs, status' = "live", nextSequence' = n PROVE SnapLive'
    BY <1>1 DEF SnapLive
  <2>1. \A m \in Seqs : m < n => Covered(m)'
    BY <1>1 DEF SnapInv, SnapWalk, Covered
  <2>2. \A m \in Seqs : m > n => ~Covered(m)'
    <3>1. \A m \in Seqs : m > n => m >= n
      BY <1>2 DEF Seqs
    <3> QED
      BY <1>1, <1>8, <3>1 DEF Covered
  <2>3. commands'[n] = None /\ 0 <= n
    BY <1>1, <1>2, <1>8 DEF Seqs
  <2>4. line'.from <= n
    <3>1. CASE line' = line
      <4>1. ~(n < line.from)
        BY <1>8, <1>2 DEF SnapInv, SnapLine, Covered, Seqs
      <4> QED
        BY <1>2, <1>4, <3>1, <4>1 DEF Seqs
    <3> QED
      BY <1>4, <2>3, <3>1
  <2> QED
    BY <2>1, <2>2, <2>3, <2>4 DEF SnapLive
<1>11. BookFollowsLine'
  <2>1. LineSteps'
    <3>1. CASE line' = line
      BY <1>1, <3>1 DEF SnapInv, BookFollowsLine, LineSteps
    <3>2. CASE line'.from = 0 /\ line'.book = trace
      <4>1. \A m \in 0 .. MaxSeq : trace[m + 1] = IF commands[m] = None THEN trace[m]
                                                  ELSE NextBook(trace[m], commands[m].cmd)
        BY DEF SnapInv, TraceIsReplay, Seqs
      <4> QED
        BY <1>1, <3>2, <4>1 DEF LineSteps
    <3> QED
      BY <1>4, <3>1, <3>2
  <2>2. status' = "live" => book' = line'.book[BookPosition']
    BY <1>1, <1>4 DEF BookPosition
  <2>3. line'.diverged => DivergedUnseen'
    <3>1. CASE line' = line
      BY <1>1, <3>1, DivergedKept
    <3>2. CASE line'.from = 0 /\ line'.book = trace /\ book # line.book[n]
      <4>1. restoredAt # 0 /\ restoredAt \in Seqs
        BY <1>1, <3>2 DEF SnapInv, SnapLine, SnapshotTypeOK
      <4>2. restoredAt > 0 /\ markers[restoredAt - 1] # None
        BY <4>1, BoundsAssumption DEF SnapInv, SnapLine, Seqs
      <4>3. ASSUME NEW m \in Seqs, events[m] # None PROVE events[m].outcome = OrderedOutcome(m)
        <5>1. ~(m >= n)
          BY <1>8, <4>3
        <5>2. m < n
          BY <1>2, <5>1 DEF Seqs
        <5> QED
          BY <1>1, <4>3, <5>2 DEF SnapInv, SnapWalk
      <4>4. \A m \in Seqs : OrderedOutcome(m)' = OrderedOutcome(m)
        BY <1>1 DEF OrderedOutcome
      <4> QED
        BY <1>1, <3>2, <4>2, <4>3, <4>4 DEF DivergedUnseen
    <3> QED
      BY <1>4, <3>1, <3>2
  <2> QED
    BY <2>1, <2>2, <2>3 DEF BookFollowsLine
<1>13. SnapLine'
  <2>1. \A m \in Seqs : m < line'.from => Covered(m)'
    <3>1. \A m \in Seqs : ~(m < 0)
      BY <1>2 DEF Seqs
    <3> QED
      BY <1>1, <1>4, <3>1 DEF SnapInv, SnapLine, Covered
  <2>2. restoredAt = 0 => line'.book = trace
    BY <1>4 DEF SnapInv, SnapLine
  <2>3. SequenceUsedOnce'
    BY <1>1 DEF SnapInv, SnapLine, SequenceUsedOnce
  <2>4. status' = "live" => markers'[nextSequence'] = None
    <3>1. n \in Seqs => n >= n
      BY <1>2 DEF Seqs
    <3> QED
      BY <1>1, <1>8, <3>1
  <2> QED
    BY <1>1, <2>1, <2>2, <2>3, <2>4 DEF SnapInv, SnapLine
<1>12. ASSUME NEW a \in acked
       PROVE  /\ commands[a.seq] # None /\ commands[a.seq].cmd = a.cmd
              /\ OrderedOutcome(a.seq) = a.outcome
  <2>1. /\ commands[a.seq] # None /\ commands[a.seq].cmd = a.cmd /\ a.seq \in Seqs
        /\ events[a.seq] # None /\ events[a.seq].outcome = a.outcome
    BY DEF SnapInv, SnapshotTypeOK, TypeOK, AckedIsDurable
  <2>2. a.seq < n
    <3>1. ~(a.seq >= n)
      BY <1>8, <2>1
    <3> QED
      BY <1>2, <2>1, <3>1 DEF Seqs
  <2> QED
    BY <1>1, <2>1, <2>2 DEF SnapInv, SnapWalk
<1> QED
  BY <1>6, <1>7, <1>9, <1>10, <1>11, <1>12, <1>13 DEF SnapInv

-----------------------------------------------------------------------------
(* Capture and restore.                                                     *)

LEMMA SnapCapture ==
    ASSUME SnapInv, Capture \/ UNCHANGED <<vars, snapshotVars>>
    PROVE  SnapInv'
<1>1. /\ UNCHANGED <<commands, events, markers, inflight, status, pc, turn, nextSequence,
                      sealed, book, executions, positions, clock, acked, refused, trace>>
      /\ UNCHANGED <<epoch, line, restoredAt, rolledBack>>
      /\ saved' = saved \/ saved' = [book |-> book, executions |-> executions, positions |-> positions]
  BY DEF Capture, vars, snapshotVars
<1>2. SnapshotTypeOK'
  BY <1>1 DEF SnapInv, SnapshotTypeOK, TypeOK
<1>3. TraceIsReplay' /\ TraceIsFlat' /\ \A m \in Seqs : OrderedOutcome(m)' = OrderedOutcome(m)
  BY <1>1, HistoryUnchanged DEF SnapInv
<1>4. \A m \in Seqs : Covered(m)' = Covered(m)
  BY <1>1 DEF Covered
<1>5. SnapShape' /\ SnapTurn' /\ AckedIsDurable'
  BY <1>1 DEF SnapInv, SnapShape, SnapTurn, AckedIsDurable
<1>6. SnapJournal' /\ SnapLive'
  BY <1>1, <1>4 DEF SnapInv, SnapJournal, SnapLive
<1>7. SnapWalk'
  BY <1>1, <1>3, <1>4 DEF SnapInv, SnapWalk
<1>8. SnapLine' /\ BookFollowsLine'
  BY <1>1, LineKept, DivergedKept DEF SnapInv, BookFollowsLine, BookPosition
<1> QED
  BY <1>2, <1>3, <1>5, <1>6, <1>7, <1>8 DEF SnapInv

\* A restore that completes starts a new line past its marker; one that is rolled back leaves at
\* most the marker at the number the next command takes.
LEMMA SnapRestore ==
    ASSUME SnapInv, Restore
    PROVE  SnapInv'
<1> DEFINE n == nextSequence
           marker == [epoch |-> epoch + 1, ts |-> clock]
<1>1. /\ status = "live" /\ pc = "idle" /\ sealed = None /\ n \in Seqs /\ n < MaxSeq
      /\ saved \in [book : Book, executions : [Seqs -> Result \cup {None}],
                    positions : [Seqs -> Result \cup {None}]]
      /\ UNCHANGED <<commands, events, inflight, status, pc, turn, sealed, clock, saved>>
      /\ UNCHANGED <<acked, refused, trace>>
  BY DEF Restore, Restorable, Ready, SnapInv, SnapshotTypeOK, TypeOK, history
<1>2. /\ marker \in MarkerRecord /\ marker # None /\ epoch + 1 \in Nat
      /\ markers \in [Seqs -> MarkerRecord \cup {None}]
  <2>1. epoch \in Nat /\ clock \in Times
    BY DEF SnapInv, SnapshotTypeOK, TypeOK
  <2> QED
    BY <2>1, NoneAssumption DEF MarkerRecord, SnapInv, SnapshotTypeOK, TypeOK
<1>3. \/ /\ markers' = [markers EXCEPT ![n] = marker]
         /\ book' = saved.book
         /\ executions' = saved.executions /\ positions' = saved.positions
         /\ epoch' = epoch + 1 /\ nextSequence' = n + 1
         /\ restoredAt' = n + 1
         /\ line' = [from |-> n + 1, book |-> [m \in DOMAIN trace |-> saved.book], diverged |-> FALSE]
         /\ UNCHANGED rolledBack
      \/ /\ markers' \in {markers, Insert(markers, n, marker)}
         /\ UNCHANGED <<book, executions, positions, epoch, nextSequence, restoredAt, line>>
         /\ rolledBack' = rolledBack \cup {n}
  BY DEF Restore, RollBack, Settled
<1> HIDE DEF marker
<1>4. /\ markers' \in [Seqs -> MarkerRecord \cup {None}]
      /\ \A m \in Seqs : m # n => markers'[m] = markers[m]
      /\ markers[n] # None => markers'[n] # None
  BY <1>1, <1>2, <1>3 DEF Insert
<1>5. TraceIsReplay' /\ TraceIsFlat'
  BY <1>1, HistoryUnchanged DEF SnapInv
<1>6. SnapShape' /\ SnapTurn' /\ SnapWalk' /\ AckedIsDurable'
  BY <1>1 DEF SnapInv, SnapShape, SnapTurn, SnapWalk, AckedIsDurable
<1>7. /\ \A m \in Seqs : m < n => Covered(m) /\ Covered(m)'
      /\ \A m \in Seqs : m > n => ~Covered(m) /\ ~Covered(m)'
      /\ commands[n] = None /\ line.from <= n
  <2>1. /\ \A m \in Seqs : m < n => Covered(m)
        /\ \A m \in Seqs : m > n => ~Covered(m)
        /\ commands[n] = None /\ line.from <= n
    BY <1>1 DEF SnapInv, SnapLive
  <2>2. \A m \in Seqs : m # n => Covered(m)' = Covered(m)
    BY <1>1, <1>4 DEF Covered
  <2>3. \A m \in Seqs : m < n \/ m > n => m # n
    BY <1>1, BoundsAssumption DEF Seqs
  <2> QED
    BY <2>1, <2>2, <2>3
<1>8. SnapJournal'
  <2>1. \A m, k \in Seqs : m < k /\ Covered(k)' => Covered(m)'
    <3>1. ASSUME NEW m \in Seqs, NEW k \in Seqs, m < k, Covered(k)' PROVE m < n
      BY <1>1, <1>7, <3>1, BoundsAssumption DEF Seqs
    <3> QED
      BY <1>7, <3>1
  <2> QED
    BY <1>1, <2>1 DEF SnapInv, SnapJournal
<1>9. CASE /\ UNCHANGED <<book, executions, positions, epoch, nextSequence, restoredAt, line>>
           /\ rolledBack' = rolledBack \cup {n}
  <2>1. SnapshotTypeOK'
    BY <1>1, <1>4, <1>9 DEF SnapInv, SnapshotTypeOK, TypeOK
  <2>2. SnapLive'
    BY <1>1, <1>7, <1>9 DEF SnapLive
  <2>3. \A m \in Seqs : (markers[m] # None => markers'[m] # None) /\ (Covered(m) => Covered(m)')
    BY <1>1, <1>4 DEF Covered
  <2>4. restoredAt # 0 => restoredAt - 1 \in Seqs
    BY BoundsAssumption DEF SnapInv, SnapshotTypeOK, Seqs
  <2>5. line'.diverged => DivergedUnseen'
    <3>1. \A m \in Seqs : OrderedOutcome(m)' = OrderedOutcome(m)
      BY <1>1 DEF OrderedOutcome
    <3>2. restoredAt > 0 => restoredAt # 0
      OBVIOUS
    <3> QED
      BY <1>1, <1>9, <2>3, <2>4, <3>1, <3>2 DEF SnapInv, BookFollowsLine, DivergedUnseen
  <2>6. BookFollowsLine'
    BY <1>1, <1>9, <2>5 DEF SnapInv, BookFollowsLine, BookPosition, LineSteps
  <2>7. SequenceUsedOnce'
    BY <1>1, <1>4, <1>7, <1>9 DEF SnapInv, SnapLine, SequenceUsedOnce
  <2>8. SnapLine'
    BY <1>1, <1>9, <2>3, <2>4, <2>7 DEF SnapInv, SnapLine
  <2> QED
    BY <1>5, <1>6, <1>8, <2>1, <2>2, <2>6, <2>8 DEF SnapInv
<1>10. CASE /\ markers' = [markers EXCEPT ![n] = marker]
            /\ book' = saved.book
            /\ executions' = saved.executions /\ positions' = saved.positions
            /\ epoch' = epoch + 1 /\ nextSequence' = n + 1
            /\ restoredAt' = n + 1
            /\ line' = [from |-> n + 1, book |-> [m \in DOMAIN trace |-> saved.book], diverged |-> FALSE]
            /\ UNCHANGED rolledBack
  <2>1. /\ n + 1 \in Seqs /\ n + 1 \in 0 .. MaxSeq + 1 /\ n + 1 > n /\ n + 1 <= n + 1 /\ MaxSeq \in Nat
    BY <1>1, BoundsAssumption DEF Seqs
  <2>2. saved.book \in Book /\ DOMAIN trace = 0 .. MaxSeq + 1
    BY <1>1 DEF SnapInv, SnapshotTypeOK, TypeOK
  <2>3. /\ line' \in [from : Seqs, book : [0 .. MaxSeq + 1 -> Book], diverged : BOOLEAN]
        /\ line'.from = n + 1 /\ line'.diverged = FALSE /\ \A m \in 0 .. MaxSeq + 1 : line'.book[m] = saved.book
    BY <1>10, <2>1, <2>2
  <2>4. TypeOK'
    BY <1>1, <1>4, <1>10, <2>1, <2>2 DEF SnapInv, SnapshotTypeOK, TypeOK
  <2>5. SnapshotTypeOK'
    BY <1>1, <1>2, <1>10, <2>1, <2>3, <2>4 DEF SnapInv, SnapshotTypeOK
  <2>6. SnapLive'
    <3>1. markers'[n] # None
      BY <1>1, <1>2, <1>10
    <3>2. \A m \in Seqs : /\ m < n + 1 => m < n \/ m = n
                          /\ m > n + 1 => m > n
      BY <1>1, BoundsAssumption DEF Seqs
    <3>3. \A m \in Seqs : /\ m < n + 1 => Covered(m)'
                          /\ m > n + 1 => ~Covered(m)'
      BY <1>7, <3>1, <3>2 DEF Covered
    <3>4. commands'[n + 1] = None
      BY <1>1, <1>7, <2>1 DEF Covered
    <3> QED
      BY <1>10, <2>1, <2>3, <3>3, <3>4 DEF SnapLive
  <2>7. BookFollowsLine'
    <3>1. BookPosition' = n + 1
      BY <1>1, <1>10 DEF BookPosition
    <3> HIDE DEF n
    <3>2. ASSUME NEW m \in (n + 1) .. MaxSeq
          PROVE  commands'[m] = None /\ line'.book[m + 1] = line'.book[m]
      <4>1. m \in Seqs /\ m > n /\ m \in 0 .. MaxSeq + 1 /\ m + 1 \in 0 .. MaxSeq + 1
        BY <1>1, BoundsAssumption DEF Seqs
      <4> QED
        BY <1>1, <1>7, <2>3, <4>1 DEF Covered
    <3>3. book' = line'.book[BookPosition']
      BY <1>10, <2>1, <2>3, <3>1
    <3>4. \A m \in line'.from .. MaxSeq :
              line'.book[m + 1] = IF commands'[m] = None THEN line'.book[m]
                                  ELSE NextBook(line'.book[m], commands'[m].cmd)
      BY <2>3, <3>2
    <3> QED
      BY <2>3, <3>3, <3>4 DEF BookFollowsLine, LineSteps
  <2>8. SnapLine'
    <3>1. markers'[n] # None /\ restoredAt' - 1 = n /\ restoredAt' # 0
      BY <1>1, <1>2, <1>10, BoundsAssumption DEF Seqs
    <3>2. \A m \in Seqs : m < n + 1 => m < n \/ m = n
      BY <1>1, BoundsAssumption DEF Seqs
    <3>3. \A m \in Seqs : m < line'.from => Covered(m)'
      BY <1>7, <2>3, <3>1, <3>2 DEF Covered
    <3>4. SequenceUsedOnce'
      BY <1>1, <1>4, <1>7, <1>10 DEF SnapInv, SnapLine, SequenceUsedOnce
    <3>5. markers'[nextSequence'] = None
      BY <1>7, <1>10, <2>1 DEF Covered
    <3> QED
      BY <3>1, <3>3, <3>4, <3>5 DEF SnapLine
  <2> QED
    BY <1>5, <1>6, <1>8, <2>5, <2>6, <2>7, <2>8 DEF SnapInv
<1> QED
  BY <1>3, <1>9, <1>10

-----------------------------------------------------------------------------
(* The theorems.                                                            *)

LEMMA SnapInit == SnapshotInit => SnapInv
<1> SUFFICES ASSUME SnapshotInit PROVE SnapInv
  OBVIOUS
<1>1. Init /\ epoch = 0 /\ saved = None /\ restoredAt = 0 /\ rolledBack = {} /\ line = [from |-> 0, book |-> trace, diverged |-> FALSE]
  BY DEF SnapshotInit
<1>2. ReliableInv
  BY <1>1, ReliableInit
<1>3. TypeOK /\ TraceIsReplay /\ TraceIsFlat /\ AckedIsDurable
  BY <1>2 DEF ReliableInv, BookIsReplay
<1>4. trace \in [0 .. MaxSeq + 1 -> Book] /\ 0 \in Seqs /\ 0 \in Nat /\ MaxSeq \in Nat
  BY <1>3, BoundsAssumption DEF TypeOK, Seqs
<1>5. line.from = 0 /\ line.book = trace /\ line.diverged = FALSE /\ line \in [from : Seqs, book : [0 .. MaxSeq + 1 -> Book], diverged : BOOLEAN]
  BY <1>1, <1>4
<1>6. SnapshotTypeOK
  BY <1>1, <1>3, <1>4, <1>5 DEF SnapshotTypeOK
<1>7. \A n \in Seqs : ~Covered(n) /\ commands[n] = None /\ events[n] = None /\ markers[n] = None
  BY <1>1 DEF Init, Covered, EmptySlots
<1>8. SnapShape /\ SnapTurn /\ SnapWalk
  BY <1>1 DEF Init, SnapShape, SnapTurn, SnapWalk
<1>9. SnapJournal
  BY <1>7 DEF SnapJournal
<1>10. SnapLive
  <2>1. nextSequence = 0 /\ \A n \in Seqs : ~(n < 0)
    BY <1>1, BoundsAssumption DEF Init, Seqs
  <2> QED
    BY <1>4, <1>5, <1>7, <2>1 DEF SnapLive
<1>11. BookFollowsLine
  <2>1. BookPosition = 0 /\ book = trace[0]
    BY <1>1, <1>4, NoneAssumption DEF Init, BookPosition
  <2>2. \A n \in 0 .. MaxSeq : trace[n + 1] = IF commands[n] = None THEN trace[n]
                                              ELSE NextBook(trace[n], commands[n].cmd)
    BY <1>3 DEF TraceIsReplay, Seqs
  <2> QED
    BY <1>5, <2>1, <2>2 DEF BookFollowsLine, LineSteps
<1>12. SnapLine
  <2>1. nextSequence = 0 /\ \A n \in Seqs : ~(n < 0)
    BY <1>1, BoundsAssumption DEF Init, Seqs
  <2> QED
    BY <1>1, <1>4, <1>5, <1>7, <2>1 DEF SnapLine, SequenceUsedOnce
<1> QED
  BY <1>3, <1>6, <1>8, <1>9, <1>10, <1>11, <1>12 DEF SnapInv

LEMMA SnapStep ==
    ASSUME ReadBackReliable, SnapInv, [SnapshotNext]_<<vars, snapshotVars>>
    PROVE  SnapInv'
<1>1. CASE \E c \in Command : SubmitOnLine(c)
  BY <1>1, SnapSubmit
<1>2. CASE TurnStep
  BY <1>2, SnapExecute, SnapFanOut DEF TurnStep
<1>3. CASE WalkStep \/ SkipSequence
  BY <1>3, SnapBoot, SnapWalks DEF WalkStep
<1>4. CASE CrashForgetsEpoch
  BY <1>4, SnapCrash
<1>5. CASE ResumeOnReplay
  BY <1>5, SnapResume
<1>6. CASE Capture \/ UNCHANGED <<vars, snapshotVars>>
  BY <1>6, SnapCapture
<1>7. CASE Restore
  BY <1>7, SnapRestore
<1> QED
  BY <1>1, <1>2, <1>3, <1>4, <1>5, <1>6, <1>7 DEF SnapshotNext

LEMMA SnapInvariant == ReadBackReliable => (SnapshotSpec => []SnapInv)
<1> SUFFICES ASSUME ReadBackReliable PROVE SnapshotSpec => []SnapInv
  OBVIOUS
<1>1. SnapInv /\ [SnapshotNext]_<<vars, snapshotVars>> => SnapInv'
  BY SnapStep
<1> QED
  BY SnapInit, <1>1, PTL DEF SnapshotSpec

\* SequenceIsSound: across every capture, completed or rolled-back restore, crash and recovery,
\* the numbers before the actor's position all name a command or an epoch marker, none at or
\* after it is taken when the actor accepts work (but by a marker that was rolled back), and a
\* command shares its number with no marker of a restore that completed.
THEOREM SequenceContinues == ReadBackReliable => (SnapshotSpec => []SequenceIsSound)
<1>1. SnapInv => SequenceIsSound
  <2> SUFFICES ASSUME SnapInv PROVE SequenceIsSound
    OBVIOUS
  <2>1. status = "live" => nextSequence \in Seqs
    BY DEF SnapInv, SnapshotTypeOK, TypeOK
  <2>2. SequenceIsCovered
    <3> SUFFICES ASSUME status = "live", NEW n \in 0 .. nextSequence - 1
                 PROVE  commands[n] # None \/ markers[n] # None
      BY DEF SequenceIsCovered
    <3>1. n \in Seqs /\ n < nextSequence
      BY <2>1, BoundsAssumption DEF Seqs
    <3> QED
      BY <3>1 DEF SnapInv, SnapLive, Covered
  <2>3. SequenceIsFresh
    <3> SUFFICES ASSUME Ready, NEW n \in Seqs, n >= nextSequence
                 PROVE  /\ commands[n] = None /\ events[n] = None
                        /\ markers[n] # None => n = nextSequence /\ n \in rolledBack
      BY DEF SequenceIsFresh
    <3>1. n = nextSequence \/ n > nextSequence
      BY <2>1, BoundsAssumption DEF Seqs, Ready
    <3>2. commands[n] = None
      BY <3>1 DEF Ready, SnapInv, SnapLive, Covered
    <3>3. events[n] = None
      BY <3>2 DEF SnapInv, SnapJournal
    <3> QED
      BY <3>1, <3>2, <3>3 DEF Ready, SnapInv, SnapLive, SnapLine, Covered
  <2> QED
    BY <2>2, <2>3 DEF SnapInv, SnapLine, SequenceIsSound
<1> QED
  BY SnapInvariant, <1>1, PTL

\* BookFollowsLine: after a restore the served book is the captured one plus the commands
\* executed since, through crashes and recoveries; a recovery that ends on another book has a
\* restore behind it, and every durable event agrees with the re-execution it is on.
THEOREM BookStaysOnLine == ReadBackReliable => (SnapshotSpec => []BookFollowsLine)
<1>1. SnapInv => BookFollowsLine
  BY DEF SnapInv
<1> QED
  BY SnapInvariant, <1>1, PTL

\* ResumeHonoursReceipts holds with restores, too: receipts given on a restored line are events
\* that recovery compares, so that it halts where the re-execution gives another outcome.
THEOREM ReceiptsHonouredAcrossRestores ==
    ReadBackReliable => (SnapshotSpec => ResumeHonoursReceipts)
<1> SUFFICES ASSUME ReadBackReliable PROVE SnapshotSpec => ResumeHonoursReceipts
  OBVIOUS
<1> DEFINE Honoured == \A a \in acked : /\ commands[a.seq] # None /\ commands[a.seq].cmd = a.cmd
                                        /\ OrderedOutcome(a.seq) = a.outcome
<1>1. SnapInv /\ [SnapshotNext]_<<vars, snapshotVars>>
      => [status = "recovering" /\ status' \in {"live", "exhausted"} => Honoured]_vars
  <2> SUFFICES ASSUME SnapInv, SnapshotNext, status = "recovering", status' \in {"live", "exhausted"}
               PROVE  Honoured
    BY DEF snapshotVars
  <2>1. ResumeOnReplay
    BY DEF SnapshotNext, SubmitOnLine, Submit, Ready, TurnStep, ExecuteAndAppendEvent, FanOutAndAdvance,
           ProjectionFails, WalkStep, Boot, ReplayCommand, SkipSequence, CrashForgetsEpoch, Crash, Capture,
           Restore, Restorable
  <2> QED
    BY <2>1, SnapResume
<1> QED
  BY SnapInvariant, <1>1, PTL DEF SnapshotSpec, ResumeHonoursReceipts


-----------------------------------------------------------------------------
(* The mailbox: the inductive invariant. What the properties say of a       *)
(* message depends on where it is: in the channel, in the loop's hands, or  *)
(* out of both.                                                             *)

\* No message occurs twice in s.
NoDuplicates(s) == \A i, j \in 1 .. Len(s) : s[i] = s[j] => i = j

\* The messages that are still with the actor.
Held == Range(queue) \cup current

\* A message is in one place at a time, its sender has sent nothing else, and it has
\* not run yet.
InvPlaces ==
    /\ NoDuplicates(queue)
    /\ Range(queue) \cap current = {}
    /\ \A c, d \in current : c = d
    /\ ran \subseteq accepted /\ Held \subseteq accepted \ ran
    /\ \A c \in Held : answer[c] \in {"waiting", "gone"}
    /\ \A c \in Caller : answer[c] = "none" => c \notin accepted

\* The loop holds a message exactly between the receive and the end of its turn; the
\* drain and the end come with a closed channel, the end with an empty one too.
InvLoop ==
    /\ current # {} <=> loop \in {"received", "turn"}
    /\ loop \in {"drain", "stopped"} => closed
    /\ loop = "drain" => cancelled
    /\ loop = "stopped" => queue = <<>>

\* What the cancel found in the channel is not the message whose turn has begun.
InvCancel ==
    /\ ~ cancelled => queuedAtCancel = {}
    /\ loop = "turn" => current \cap queuedAtCancel = {}

\* Only a failed task drops reply channels, and without a cancel or a failure nothing
\* that was accepted is lost.
InvFailure ==
    /\ \A c \in Caller : answer[c] = "dropped" => failed
    /\ ~ cancelled /\ ~ failed => accepted = ran \cup Held

Inv == MessagesAccounted /\ InvPlaces /\ InvLoop /\ InvCancel /\ InvFailure
-----------------------------------------------------------------------------
(* The channel as a sequence without duplicates.                            *)

\* A message enters at the end of the channel.
LEMMA ChannelAppend ==
    ASSUME NEW s \in Seq(Caller), NEW c \in Caller
    PROVE  /\ Append(s, c) \in Seq(Caller) /\ Len(Append(s, c)) = Len(s) + 1
           /\ Range(Append(s, c)) = Range(s) \cup {c}
           /\ NoDuplicates(s) /\ c \notin Range(s) => NoDuplicates(Append(s, c))
<1> DEFINE t == Append(s, c)
<1>1. /\ t \in Seq(Caller) /\ Len(t) = Len(s) + 1 /\ Len(s) \in Nat
      /\ DOMAIN t = 1 .. Len(s) + 1 /\ DOMAIN s = 1 .. Len(s)
      /\ t[Len(s) + 1] = c /\ \A i \in 1 .. Len(s) : t[i] = s[i]
  OBVIOUS
<1> HIDE DEF t
<1>2. Range(t) = Range(s) \cup {c}
  BY <1>1 DEF Range
<1>3. ASSUME NoDuplicates(s), c \notin Range(s) PROVE NoDuplicates(t)
  <2>1. \A i \in 1 .. Len(s) : s[i] # c
    BY <1>1, <1>3 DEF Range
  <2> QED
    BY <1>1, <1>3, <2>1 DEF NoDuplicates
<1> QED
  BY <1>1, <1>2, <1>3 DEF t

\* A message leaves at the head of the channel.
LEMMA ChannelTail ==
    ASSUME NEW s \in Seq(Caller), s # <<>>, NoDuplicates(s)
    PROVE  /\ Tail(s) \in Seq(Caller) /\ Len(Tail(s)) = Len(s) - 1
           /\ Head(s) \in Range(s) /\ Head(s) \in Caller
           /\ Range(Tail(s)) = Range(s) \ {Head(s)}
           /\ NoDuplicates(Tail(s))
<1> DEFINE t == Tail(s)
           h == Head(s)
<1>1. /\ t \in Seq(Caller) /\ Len(t) = Len(s) - 1 /\ Len(s) \in Nat /\ Len(s) # 0
      /\ DOMAIN t = 1 .. Len(s) - 1 /\ DOMAIN s = 1 .. Len(s)
      /\ h = s[1] /\ h \in Caller /\ \A i \in 1 .. Len(s) - 1 : t[i] = s[i + 1]
  OBVIOUS
<1> HIDE DEF t, h
<1>2. h \in Range(s)
  BY <1>1 DEF Range
<1>3. ASSUME NEW x \in Range(t) PROVE x \in Range(s) \ {h}
  <2>1. PICK i \in 1 .. Len(s) - 1 : x = t[i]
    BY <1>1 DEF Range
  <2>2. i + 1 \in 1 .. Len(s) /\ x = s[i + 1] /\ i + 1 # 1 /\ 1 \in 1 .. Len(s)
    BY <1>1, <2>1
  <2> QED
    BY <1>1, <2>2 DEF Range, NoDuplicates
<1>4. ASSUME NEW x \in Range(s), x # h PROVE x \in Range(t)
  <2>1. PICK i \in 1 .. Len(s) : x = s[i]
    BY <1>1 DEF Range
  <2>2. i - 1 \in 1 .. Len(s) - 1 /\ x = t[i - 1]
    BY <1>1, <1>4, <2>1
  <2> QED
    BY <1>1, <2>2 DEF Range
<1>5. NoDuplicates(t)
  BY <1>1 DEF NoDuplicates
<1> QED
  BY <1>1, <1>2, <1>3, <1>4, <1>5 DEF t, h

\* The empty channel holds nothing.
LEMMA ChannelEmpty == Range(<<>>) = {} /\ NoDuplicates(<<>>) /\ <<>> \in Seq(Caller) /\ Len(<<>>) = 0
BY DEF Range, NoDuplicates
-----------------------------------------------------------------------------
(* Each step keeps the invariant.                                           *)

\* A freshly spawned actor.
LEMMA InvInit == MailboxInit => Inv
<1> SUFFICES ASSUME MailboxInit PROVE Inv
  OBVIOUS
<1> USE DEF MailboxInit
<1>1. Range(queue) = {} /\ NoDuplicates(queue) /\ queue \in Seq(Caller) /\ Len(queue) = 0
  BY DEF Range, NoDuplicates
<1>2. MailboxTypeOK
  <2>1. Len(queue) <= EffectiveCapacity
    BY <1>1, MailboxAssumption DEF EffectiveCapacity
  <2>2. closed \in BOOLEAN /\ cancelled \in BOOLEAN /\ handles \in BOOLEAN /\ failed \in BOOLEAN
    BY Zenon
  <2>3. /\ answer \in [Caller -> {"none", "waiting", "gone", "dropped", "Ok",
                                "JournalUnavailable", "RateLimited", "ShuttingDown"}]
        /\ current \subseteq Caller /\ accepted \subseteq Caller /\ ran \subseteq Caller
        /\ queuedAtCancel \subseteq Caller
        /\ loop \in {"select", "recv", "received", "turn", "drain", "stopped"}
    OBVIOUS
  <2> QED
    BY <1>1, <2>1, <2>2, <2>3, Zenon DEF MailboxTypeOK
<1>3. MessagesAccounted
  BY <1>2 DEF MessagesAccounted, QueuedAtCancelNeverRuns, DrainedMeansNotRun, DropRunsEverything
<1>4. InvPlaces
  BY <1>1 DEF InvPlaces, Held
<1>5. InvLoop
  BY DEF InvLoop
<1>6. InvCancel
  BY DEF InvCancel
<1>7. InvFailure
  BY <1>1 DEF InvFailure, Held
<1> QED
  BY <1>3, <1>4, <1>5, <1>6, <1>7 DEF Inv

\* A caller's message is refused, or enters the channel it was in no place of before.
LEMMA InvSend == ASSUME Inv, NEW c \in Caller, Send(c) PROVE Inv'
<1> USE DEF Inv, MessagesAccounted
<1>1. /\ queue \in Seq(Caller) /\ NoDuplicates(queue) /\ c \notin Held /\ c \notin accepted
      /\ c \notin ran /\ c \notin Range(queue)
  BY DEF MailboxTypeOK, Send, InvPlaces, Held
<1>2. CASE /\ UNCHANGED <<queue, accepted>>
           /\ answer' \in {[answer EXCEPT ![c] = "ShuttingDown"],
                           [answer EXCEPT ![c] = "JournalUnavailable"],
                           [answer EXCEPT ![c] = "RateLimited"]}
  <2>1. MailboxTypeOK'
    BY <1>2 DEF MailboxTypeOK, Send
  <2>2. answer'[c] \in {"ShuttingDown", "JournalUnavailable", "RateLimited"}
    BY <1>2 DEF MailboxTypeOK
  <2>3. \A d \in Caller \ {c} : answer'[d] = answer[d]
    BY <1>2 DEF MailboxTypeOK
  <2>4. InvPlaces'
    BY <1>1, <1>2, <2>2, <2>3 DEF InvPlaces, Send, Held, MailboxTypeOK
  <2>5. DrainedMeansNotRun' /\ InvFailure'
    BY <1>1, <1>2, <2>2, <2>3 DEF DrainedMeansNotRun, InvFailure, Send, Held
  <2> QED
    BY <1>2, <2>1, <2>4, <2>5
       DEF QueuedAtCancelNeverRuns, DropRunsEverything, InvLoop, InvCancel, Send
<1>3. CASE /\ ~ closed /\ ~ Full
           /\ answer' = [answer EXCEPT ![c] = "waiting"]
           /\ queue' = Append(queue, c) /\ accepted' = accepted \cup {c}
  <2>1. /\ queue' \in Seq(Caller) /\ Len(queue') = Len(queue) + 1 /\ Len(queue) \in Nat
        /\ Range(queue') = Range(queue) \cup {c} /\ NoDuplicates(queue')
    BY <1>1, <1>3, ChannelAppend
  <2>2. /\ answer'[c] = "waiting" /\ \A d \in Caller \ {c} : answer'[d] = answer[d]
        /\ Held' = Held \cup {c}
    BY <1>3, <2>1 DEF MailboxTypeOK, Held, Send
  <2>3. Len(queue') <= EffectiveCapacity'
    BY <1>3, <2>1, MailboxAssumption DEF Full, EffectiveCapacity
  <2>4. MailboxTypeOK'
    BY <1>3, <2>1, <2>3 DEF MailboxTypeOK, Send
  <2>5. InvPlaces'
    BY <1>1, <1>3, <2>1, <2>2 DEF InvPlaces, Send, Held, MailboxTypeOK, InvLoop
  <2>6. DrainedMeansNotRun' /\ InvFailure'
    BY <1>1, <1>3, <2>2 DEF DrainedMeansNotRun, InvFailure, Send
  <2>7. loop \notin {"drain", "stopped"}
    BY <1>3 DEF InvLoop
  <2> QED
    BY <1>3, <2>4, <2>5, <2>6, <2>7
       DEF QueuedAtCancelNeverRuns, DropRunsEverything, InvLoop, InvCancel, Send
<1> QED
  BY <1>2, <1>3 DEF Send, StoppedError

\* A caller that finds its reply channel dropped, or gives up, moves no message.
LEMMA InvCaller == ASSUME Inv, NEW c \in Caller, SeeDropped(c) \/ GiveUp(c) PROVE Inv'
<1> USE DEF Inv, MessagesAccounted
<1>1. UNCHANGED <<queue, closed, cancelled, loop, current, handles, accepted, ran, failed,
                  queuedAtCancel>>
  BY DEF SeeDropped, GiveUp
<1>2. /\ \A d \in Caller \ {c} : answer'[d] = answer[d]
      /\ \/ answer[c] = "waiting" /\ answer'[c] = "gone"
         \/ answer[c] = "dropped" /\ answer'[c] \in {"ShuttingDown", "JournalUnavailable"}
  BY DEF SeeDropped, GiveUp, StoppedError, MailboxTypeOK
<1>3. MailboxTypeOK'
  BY <1>1 DEF MailboxTypeOK, SeeDropped, GiveUp, StoppedError
<1>4. InvPlaces'
  BY <1>1, <1>2 DEF InvPlaces, Held, MailboxTypeOK
<1>5. DrainedMeansNotRun' /\ InvFailure'
  BY <1>1, <1>2 DEF DrainedMeansNotRun, InvFailure, Held
<1> QED
  BY <1>1, <1>3, <1>4, <1>5
     DEF QueuedAtCancelNeverRuns, DropRunsEverything, InvLoop, InvCancel

\* The drop of the last handle changes nothing the invariant speaks of.
LEMMA InvDropHandles == Inv /\ DropHandles => Inv'
<1> SUFFICES ASSUME Inv, DropHandles PROVE Inv'
  OBVIOUS
<1>1. MailboxTypeOK'
  BY DEF Inv, MessagesAccounted, MailboxTypeOK, DropHandles
<1> QED
  BY <1>1 DEF DropHandles, Inv, MessagesAccounted, QueuedAtCancelNeverRuns, DrainedMeansNotRun,
              DropRunsEverything, InvPlaces, InvLoop, InvCancel, InvFailure, Held

\* The cancel: nothing in the channel has run, and the message in the loop's hands is not
\* in the channel.
LEMMA InvShutdown == Inv /\ Shutdown => Inv'
<1> SUFFICES ASSUME Inv, Shutdown PROVE Inv'
  OBVIOUS
<1> USE DEF Inv, MessagesAccounted, Shutdown
<1>1. Range(queue) \cap ran = {} /\ Range(queue) \cap current = {} /\ Range(queue) \subseteq Caller
  BY DEF InvPlaces, Held, MailboxTypeOK
<1>2. MailboxTypeOK'
  BY <1>1 DEF MailboxTypeOK
<1>3. InvPlaces'
  BY DEF InvPlaces, Held
<1>4. InvFailure' /\ DropRunsEverything'
  BY DEF InvFailure, DropRunsEverything
<1> QED
  BY <1>1, <1>2, <1>3, <1>4
     DEF QueuedAtCancelNeverRuns, DrainedMeansNotRun, InvLoop, InvCancel

\* The poll of the token moves no message; the drain it may start closes the channel.
LEMMA InvPollCancel == Inv /\ PollCancel => Inv'
<1> SUFFICES ASSUME Inv, PollCancel PROVE Inv'
  OBVIOUS
<1> USE DEF Inv, MessagesAccounted, PollCancel
<1>1. \/ cancelled /\ loop' = "drain" /\ closed' = TRUE
      \/ ~ cancelled /\ loop' = "recv" /\ closed' = closed
  BY DEF CloseAndDrain
<1>2. MailboxTypeOK'
  BY <1>1 DEF MailboxTypeOK
<1>3. InvPlaces' /\ InvFailure'
  BY DEF InvPlaces, InvFailure, Held
<1>4. InvLoop' /\ InvCancel' /\ DropRunsEverything'
  BY <1>1 DEF InvLoop, InvCancel, DropRunsEverything
<1> QED
  BY <1>2, <1>3, <1>4 DEF QueuedAtCancelNeverRuns, DrainedMeansNotRun

\* The receive hands the head of the channel to the loop, or ends with the channel.
LEMMA InvPollRecv == Inv /\ PollRecv => Inv'
<1> SUFFICES ASSUME Inv, PollRecv PROVE Inv'
  OBVIOUS
<1> USE DEF Inv, MessagesAccounted
<1>1. /\ queue \in Seq(Caller) /\ NoDuplicates(queue) /\ loop = "recv" /\ current = {}
      /\ UNCHANGED <<cancelled, answer, handles, accepted, ran, failed, queuedAtCancel>>
  BY DEF MailboxTypeOK, InvPlaces, InvLoop, PollRecv
<1>2. CASE /\ queue # <<>> /\ current' = {Head(queue)} /\ queue' = Tail(queue)
           /\ loop' = "received" /\ closed' = closed
  <2>1. /\ queue' \in Seq(Caller) /\ Len(queue') = Len(queue) - 1 /\ Len(queue) \in Nat
        /\ Range(queue') = Range(queue) \ {Head(queue)} /\ NoDuplicates(queue')
        /\ Head(queue) \in Range(queue) /\ Head(queue) \in Caller
    BY <1>1, <1>2, ChannelTail
  <2>2. Held' = Held
    BY <1>1, <1>2, <2>1 DEF Held
  <2>3. Len(queue') <= EffectiveCapacity'
    BY <2>1, MailboxAssumption DEF MailboxTypeOK, EffectiveCapacity
  <2>4. MailboxTypeOK'
    BY <1>1, <1>2, <2>1, <2>3 DEF MailboxTypeOK
  <2>5. InvPlaces'
    BY <1>1, <1>2, <2>1, <2>2 DEF InvPlaces
  <2>6. InvFailure'
    BY <1>1, <2>2 DEF InvFailure
  <2> QED
    BY <1>1, <1>2, <2>4, <2>5, <2>6
       DEF QueuedAtCancelNeverRuns, DrainedMeansNotRun, DropRunsEverything, InvLoop, InvCancel
<1>3. CASE /\ EndOfChannel /\ loop' = "stopped" /\ closed' = TRUE
           /\ UNCHANGED <<queue, current>>
  <2>1. queue = <<>> /\ Held = {} /\ Held' = {}
    BY <1>1, <1>3, ChannelEmpty DEF EndOfChannel, Held
  <2>2. MailboxTypeOK'
    BY <1>1, <1>3 DEF MailboxTypeOK
  <2>3. InvPlaces' /\ InvFailure'
    BY <1>1, <1>3, <2>1 DEF InvPlaces, InvFailure
  <2>4. InvLoop' /\ InvCancel' /\ DropRunsEverything'
    BY <1>1, <1>3, <2>1 DEF InvLoop, InvCancel, DropRunsEverything, InvFailure
  <2> QED
    BY <1>1, <2>2, <2>3, <2>4 DEF QueuedAtCancelNeverRuns, DrainedMeansNotRun
<1>4. CASE loop' = "select" /\ UNCHANGED <<queue, current, closed>>
  <2>1. MailboxTypeOK'
    BY <1>1, <1>4 DEF MailboxTypeOK
  <2>2. InvPlaces' /\ InvFailure'
    BY <1>1, <1>4 DEF InvPlaces, InvFailure, Held
  <2> QED
    BY <1>1, <1>4, <2>1, <2>2
       DEF QueuedAtCancelNeverRuns, DrainedMeansNotRun, DropRunsEverything, InvLoop, InvCancel
<1> QED
  BY <1>2, <1>3, <1>4 DEF PollRecv

\* What a reply changes: the answer of a caller that waits, and nobody else's.
LEMMA ReplyEffect ==
    ASSUME MailboxTypeOK, NEW c \in Caller, NEW what \in {"Ok", "JournalUnavailable", "ShuttingDown"},
           Reply(c, what)
    PROVE  /\ answer' \in [Caller -> {"none", "waiting", "gone", "dropped", "Ok",
                                      "JournalUnavailable", "RateLimited", "ShuttingDown"}]
           /\ \A d \in Caller \ {c} : answer'[d] = answer[d]
           /\ answer'[c] = IF answer[c] = "waiting" THEN what ELSE answer[c]
BY DEF MailboxTypeOK, Reply

\* The second look at the token: the turn of a message that the cancel did not find in the
\* channel begins, or a message that has not run is answered ShuttingDown.
LEMMA InvRecheck == Inv /\ Recheck => Inv'
<1> SUFFICES ASSUME Inv, Recheck PROVE Inv'
  OBVIOUS
<1> USE DEF Inv, MessagesAccounted
<1>1. /\ loop = "received"
      /\ UNCHANGED <<queue, closed, cancelled, handles, accepted, ran, failed, queuedAtCancel>>
  BY DEF Recheck
<1>2. CASE /\ cancelled /\ \E c \in current : Reply(c, "ShuttingDown")
           /\ loop' = "select" /\ current' = {}
  <2>1. PICK c \in current : Reply(c, "ShuttingDown")
    BY <1>2
  <2>2. c \in Caller /\ c \in Held /\ current = {c} /\ c \notin ran /\ c \notin Range(queue)
    BY <2>1 DEF MailboxTypeOK, Held, InvPlaces
  <2>3. /\ \A d \in Caller \ {c} : answer'[d] = answer[d]
        /\ answer'[c] \in {"ShuttingDown", "gone"}
    BY <2>1, <2>2, ReplyEffect DEF InvPlaces
  <2>4. MailboxTypeOK'
    BY <1>1, <1>2, <2>1, <2>2, ReplyEffect DEF MailboxTypeOK
  <2>5. InvPlaces'
    BY <1>1, <1>2, <2>2, <2>3 DEF InvPlaces, Held, MailboxTypeOK
  <2>6. DrainedMeansNotRun' /\ InvFailure'
    BY <1>1, <1>2, <2>2, <2>3 DEF DrainedMeansNotRun, InvFailure
  <2> QED
    BY <1>1, <1>2, <2>4, <2>5, <2>6
       DEF QueuedAtCancelNeverRuns, DropRunsEverything, InvLoop, InvCancel
<1>3. CASE ~ cancelled /\ loop' = "turn" /\ UNCHANGED <<answer, current>>
  <2>1. MailboxTypeOK'
    BY <1>1, <1>3 DEF MailboxTypeOK
  <2>2. InvPlaces' /\ InvFailure'
    BY <1>1, <1>3 DEF InvPlaces, InvFailure, Held
  <2> QED
    BY <1>1, <1>3, <2>1, <2>2
       DEF QueuedAtCancelNeverRuns, DrainedMeansNotRun, DropRunsEverything, InvLoop, InvCancel
<1> QED
  BY <1>2, <1>3 DEF Recheck, MustReject

\* A whole turn: the message has run and its caller, if it still waits, hears the result.
LEMMA InvProcess == Inv /\ Process => Inv'
<1> SUFFICES ASSUME Inv, Process PROVE Inv'
  OBVIOUS
<1> USE DEF Inv, MessagesAccounted
<1>1. /\ loop = "turn" /\ loop' = "select" /\ current' = {}
      /\ UNCHANGED <<queue, closed, cancelled, handles, accepted, failed, queuedAtCancel>>
  BY DEF Process
<1>2. PICK c \in current, result \in TurnAnswers : Reply(c, result) /\ ran' = ran \cup {c}
  BY DEF Process
<1>3. /\ c \in Caller /\ c \in Held /\ current = {c} /\ c \notin Range(queue)
      /\ c \notin queuedAtCancel /\ c \in accepted
  BY <1>1, <1>2 DEF MailboxTypeOK, Held, InvPlaces, InvCancel
<1>4. /\ \A d \in Caller \ {c} : answer'[d] = answer[d]
      /\ answer'[c] \in {"Ok", "JournalUnavailable", "gone"}
  BY <1>2, <1>3, ReplyEffect DEF InvPlaces, TurnAnswers
<1>5. MailboxTypeOK'
  BY <1>1, <1>2, <1>3, ReplyEffect DEF MailboxTypeOK, TurnAnswers
<1>6. InvPlaces'
  BY <1>1, <1>2, <1>3, <1>4 DEF InvPlaces, Held, MailboxTypeOK
<1>7. DrainedMeansNotRun' /\ InvFailure'
  BY <1>1, <1>2, <1>3, <1>4 DEF DrainedMeansNotRun, InvFailure, Held
<1> QED
  BY <1>1, <1>2, <1>3, <1>5, <1>6, <1>7
     DEF QueuedAtCancelNeverRuns, DropRunsEverything, InvLoop, InvCancel

\* The death of the task empties every place; only the message of the turn may have run.
LEMMA InvTaskFails == Inv /\ TaskFails => Inv'
<1> SUFFICES ASSUME Inv, TaskFails PROVE Inv'
  OBVIOUS
<1> USE DEF Inv, MessagesAccounted, TaskFails
<1>1. /\ ran \subseteq ran' /\ ran' \subseteq ran \cup current /\ current \subseteq Held
      /\ Held \subseteq accepted /\ ran \subseteq accepted
  BY DEF InvPlaces, Held
<1>2. Range(queue') = {} /\ NoDuplicates(queue') /\ Held' = {}
  BY DEF Held, Range, NoDuplicates
<1>3. answer' \in [Caller -> {"none", "waiting", "gone", "dropped", "Ok",
                              "JournalUnavailable", "RateLimited", "ShuttingDown"}]
  BY DEF MailboxTypeOK
<1>4. queue' \in Seq(Caller) /\ Len(queue') <= EffectiveCapacity'
  BY MailboxAssumption DEF EffectiveCapacity
<1>5. MailboxTypeOK'
  BY <1>1, <1>3, <1>4 DEF MailboxTypeOK
<1>6. InvPlaces'
  <2>1. \A c \in Caller : answer'[c] = "none" => answer[c] = "none"
    BY DEF MailboxTypeOK
  <2>2. current' = {} /\ accepted' = accepted
    OBVIOUS
  <2> QED
    BY <1>1, <1>2, <2>1, <2>2 DEF InvPlaces
<1>7. QueuedAtCancelNeverRuns'
  BY <1>1 DEF QueuedAtCancelNeverRuns, InvCancel
<1> QED
  BY <1>5, <1>6, <1>7 DEF DrainedMeansNotRun, DropRunsEverything, InvLoop, InvCancel, InvFailure

\* The drain answers a message that has not run, or ends with the channel.
LEMMA InvDrain == Inv /\ Drain => Inv'
<1> SUFFICES ASSUME Inv, Drain PROVE Inv'
  OBVIOUS
<1> USE DEF Inv, MessagesAccounted
<1>1. /\ queue \in Seq(Caller) /\ NoDuplicates(queue) /\ loop = "drain" /\ current = {}
      /\ closed /\ cancelled
      /\ UNCHANGED <<closed, cancelled, current, handles, accepted, ran, failed, queuedAtCancel>>
  BY DEF MailboxTypeOK, InvPlaces, InvLoop, Drain
<1>2. CASE /\ queue # <<>> /\ Reply(Head(queue), "ShuttingDown")
           /\ queue' = Tail(queue) /\ loop' = loop
  <2> DEFINE c == Head(queue)
  <2>1. /\ queue' \in Seq(Caller) /\ Len(queue') = Len(queue) - 1 /\ Len(queue) \in Nat
        /\ Range(queue') = Range(queue) \ {c} /\ NoDuplicates(queue')
        /\ c \in Range(queue) /\ c \in Caller
    BY <1>1, <1>2, ChannelTail
  <2>2. Held' = Held \ {c} /\ c \in Held /\ c \notin ran
    BY <1>1, <2>1 DEF Held, InvPlaces
  <2> HIDE DEF c
  <2>3. Reply(c, "ShuttingDown")
    BY <1>2 DEF c
  <2>4. /\ \A d \in Caller \ {c} : answer'[d] = answer[d]
        /\ answer'[c] \in {"ShuttingDown", "gone"}
    BY <2>1, <2>2, <2>3, ReplyEffect DEF InvPlaces
  <2>5. Len(queue') <= EffectiveCapacity'
    BY <2>1, MailboxAssumption DEF MailboxTypeOK, EffectiveCapacity
  <2>6. MailboxTypeOK'
    BY <1>1, <1>2, <2>1, <2>3, <2>5, ReplyEffect DEF MailboxTypeOK
  <2>7. InvPlaces'
    BY <1>1, <2>1, <2>2, <2>4 DEF InvPlaces, Held, MailboxTypeOK
  <2>8. DrainedMeansNotRun' /\ InvFailure'
    BY <1>1, <2>2, <2>4 DEF DrainedMeansNotRun, InvFailure
  <2> QED
    BY <1>1, <1>2, <2>6, <2>7, <2>8
       DEF QueuedAtCancelNeverRuns, DropRunsEverything, InvLoop, InvCancel
<1>3. CASE EndOfChannel /\ loop' = "stopped" /\ UNCHANGED <<answer, queue>>
  <2>1. MailboxTypeOK'
    BY <1>1, <1>3 DEF MailboxTypeOK
  <2>2. InvPlaces' /\ InvFailure'
    BY <1>1, <1>3 DEF InvPlaces, InvFailure, Held
  <2> QED
    BY <1>1, <1>3, <2>1, <2>2
       DEF QueuedAtCancelNeverRuns, DrainedMeansNotRun, DropRunsEverything, InvLoop, InvCancel,
           EndOfChannel
<1> QED
  BY <1>2, <1>3 DEF Drain

\* Every step keeps the invariant.
LEMMA InvStep == Inv /\ [MailboxNext]_mailboxVars => Inv'
<1> SUFFICES ASSUME Inv, [MailboxNext]_mailboxVars PROVE Inv'
  OBVIOUS
<1>1. CASE UNCHANGED mailboxVars
  <2>1. MailboxTypeOK'
    BY <1>1 DEF Inv, MessagesAccounted, MailboxTypeOK, mailboxVars
  <2> QED
    BY <1>1, <2>1 DEF mailboxVars, Inv, MessagesAccounted, QueuedAtCancelNeverRuns, DrainedMeansNotRun,
              DropRunsEverything, InvPlaces, InvLoop, InvCancel, InvFailure, Held
<1>2. CASE MailboxNext
  BY <1>2, InvSend, InvCaller, InvDropHandles, InvShutdown, InvPollCancel, InvPollRecv,
     InvRecheck, InvProcess, InvDrain, InvTaskFails DEF MailboxNext, LoopStep
<1> QED
  BY <1>1, <1>2

\* A message queued when the shutdown fired never runs, a caller told ShuttingDown may send
\* again, and the drop of the last handle runs everything accepted: for every number of
\* callers, every capacity, and a cancel or a failure of the task at any point of the loop.
THEOREM MailboxAccountsForMessages == MailboxSpec => []MessagesAccounted
<1>1. Inv => MessagesAccounted
  BY DEF Inv
<1> QED
  BY <1>1, InvInit, InvStep, PTL DEF MailboxSpec
=============================================================================
