--------------------------- MODULE UnderlyingActor ---------------------------
(***************************************************************************)
(* The per-underlying single-writer actor (src/exchange/actor.rs), its     *)
(* durable journal (src/exchange/journal.rs, src/db/journal.rs) and boot   *)
(* recovery (src/exchange/recovery.rs, src/state.rs).                      *)
(*                                                                         *)
(* One command is one turn: write-ahead append of the command at sequence  *)
(* N, execution, append of the paired event, fan-out, advance of N. A turn *)
(* is three steps here, cut where a crash leaves different durable states. *)
(*                                                                         *)
(* The actor is generic in its executor (CommandExecutor), and so is this  *)
(* module: Book, NextBook and Outcome are constants. The executor is       *)
(* deterministic, which is what the code requires of it.                   *)
(***************************************************************************)
EXTENDS Integers

CONSTANTS Command, Book, InitBook, NextBook(_, _),
          Result,             \* the outcomes of an execution (VenueOutcome)
          Outcome(_, _),
          Filling,            \* the outcomes that carry fills
          MaxSeq,             \* u64::MAX, the last underlying_sequence
          MaxTime,            \* bound on the venue clock
          ReadBackReliable,   \* TRUE: the tail read-back of an ambiguous append
                              \* answers, and the append is settled by then
          None

ASSUME BoundsAssumption == MaxSeq \in Nat /\ MaxTime \in Nat /\ ReadBackReliable \in BOOLEAN

Seqs  == 0 .. MaxSeq
Times == 0 .. MaxTime

SealReason == {"SequenceExhausted", "JournalUnavailable", "ProjectionFailed"}

\* A write-ahead record and an event record; the sequence is the index.
CommandRecord == [cmd : Command, ts : Times]
EventRecord   == [cmd : Command, ts : Times, outcome : Result]
MarkerRecord  == [epoch : Nat, ts : Times]

\* An append whose answer was Ambiguous and which has not settled yet.
CommandAppend == [kind : {"command"}, seq : Seqs, rec : CommandRecord]
EventAppend   == [kind : {"event"}, seq : Seqs, rec : EventRecord]

ASSUME NoneAssumption ==
    /\ None \notin CommandRecord /\ None \notin EventRecord /\ None \notin MarkerRecord
    /\ None \notin Result /\ None \notin SealReason

ASSUME ExecutorAssumption ==
    /\ InitBook \in Book
    /\ Filling \subseteq Result
    /\ \A b \in Book, c \in Command : NextBook(b, c) \in Book /\ Outcome(b, c) \in Result

VARIABLES
    \* --- durable: the journal's (sequence, kind) -> payload map ---
    commands,       \* [Seqs -> CommandRecord or None]
    events,         \* [Seqs -> EventRecord or None]
    markers,        \* [Seqs -> epoch marker payload or None]; written by SnapshotRestore
    inflight,       \* appends that answered Ambiguous and may still land
    \* --- the process ---
    status,         \* "live", "down", "recovering", "corrupt" or "exhausted"
    pc,             \* where the turn stands: "idle", "execute" or "fanout"
    turn,           \* the record of the turn in progress
    nextSequence,   \* next_sequence; during recovery, the walk's position
    sealed,         \* None or the SealReason
    book,           \* the executor's state
    executions,     \* the executions store: [Seqs -> Result or None]
    positions,      \* the positions store, as the set of legs folded into it
    clock,          \* the venue clock
    \* --- what was said to callers, and the history the journal stands for ---
    acked,          \* receipts and published events
    refused,        \* commands answered "nothing executed, N is reused"
    trace           \* trace[n]: the executor's state before sequence n

journal == <<commands, events, markers, inflight>>
process == <<status, pc, turn, nextSequence, sealed, book, executions, positions>>
history == <<acked, refused, trace>>
vars == <<commands, events, markers, inflight, status, pc, turn, nextSequence,
          sealed, book, executions, positions, clock, acked, refused, trace>>

EmptySlots == [n \in Seqs |-> None]

Init ==
    /\ commands = EmptySlots /\ events = EmptySlots /\ markers = EmptySlots
    /\ inflight = {}
    /\ status = "live" /\ pc = "idle" /\ turn = None
    /\ nextSequence = 0 /\ sealed = None
    /\ book = InitBook
    /\ executions = EmptySlots /\ positions = EmptySlots
    /\ clock = 0
    /\ acked = {} /\ refused = {}
    /\ trace = [n \in 0 .. MaxSeq + 1 |-> InitBook]
-----------------------------------------------------------------------------
(* The journal.  Its key is (sequence, kind): re-appending the same payload *)
(* is a no-op, a different payload conflicts, nothing is ever overwritten.  *)

\* What a settled append leaves in a slot (INSERT ... ON CONFLICT DO NOTHING).
Insert(slots, n, rec) ==
    IF slots[n] = None THEN [slots EXCEPT ![n] = rec] ELSE slots

\* The append answers Ok: the slot was free, or held the identical payload.
AppendOk(slots, n, rec) == slots[n] \in {None, rec}

\* The states a slot map can be left in by an append that answered Ambiguous.
\* A late one is remembered in inflight and may land at any later moment.
Settled(slots, n, rec) == {slots, Insert(slots, n, rec)}

LateAppends(kind, n, rec) ==
    IF ReadBackReliable THEN {{}} ELSE {{}, {[kind |-> kind, seq |-> n, rec |-> rec]}}

\* Mutants: the read-back is left out, and the append is taken to have failed,
\* or to have committed.
ReadBackFailed(slots, n) == {FALSE}
ReadBackAssumed(slots, n) == {TRUE}

\* contains(N, Command): any command at N counts, a failed read does not.
ReadBack(slots, n) ==
    IF ReadBackReliable THEN {slots[n] # None} ELSE {slots[n] # None, FALSE}

\* The history the journal stands for once command c is at n.
Extend(tr, n, c) ==
    [m \in DOMAIN tr |-> IF m <= n THEN tr[m] ELSE NextBook(tr[n], c)]

TraceAfter(slots, n) ==
    IF slots[n] = commands[n] THEN trace ELSE Extend(trace, n, slots[n].cmd)

\* An append that answered Ambiguous lands now, or meets a taken slot. Boot
\* reads the journal once, so an append that lands during the walk is one that
\* lands after it.
LateCommandLands ==
    \E a \in inflight :
        /\ a.kind = "command" /\ status # "recovering"
        /\ commands' = Insert(commands, a.seq, a.rec)
        /\ trace' = TraceAfter(commands', a.seq)
        /\ inflight' = inflight \ {a}
        /\ UNCHANGED <<events, markers, clock, acked, refused>> /\ UNCHANGED process

LateEventLands ==
    \E a \in inflight :
        /\ a.kind = "event" /\ status # "recovering"
        /\ events' = Insert(events, a.seq, a.rec)
        /\ inflight' = inflight \ {a}
        /\ UNCHANGED <<commands, markers, clock>> /\ UNCHANGED process /\ UNCHANGED history
-----------------------------------------------------------------------------
(* The turn.                                                                *)

\* write_ahead_command answered Committed: the turn goes on to execute.
Proceed(rec) ==
    /\ pc' = "execute" /\ turn' = rec
    /\ refused' = refused \ {[seq |-> nextSequence, rec |-> rec]}

\* write_ahead_command answered Reuse: JournalUnavailable, N is reused.
Reuse(rec) ==
    /\ refused' = refused \cup {[seq |-> nextSequence, rec |-> rec]}
    /\ UNCHANGED <<pc, turn>>

\* Step 1 of handle: the write-ahead append and its read-back. AppendFailed and
\* Conflict are one case: nothing is written and N is reused.
WriteAheadCommand(rec) ==
    LET n == nextSequence IN
    \/ /\ AppendOk(commands, n, rec)
       /\ commands' = [commands EXCEPT ![n] = rec]
       /\ Proceed(rec) /\ UNCHANGED inflight
    \/ /\ Reuse(rec) /\ UNCHANGED <<commands, inflight>>
    \/ /\ commands' \in Settled(commands, n, rec)
       /\ \E late \in LateAppends("command", n, rec) : inflight' = inflight \cup late
       /\ \E present \in ReadBack(commands', n) :
              IF present THEN Proceed(rec) ELSE Reuse(rec)

\* Mutant: the seal is not looked at.
ReadyThoughSealed == status = "live" /\ pc = "idle"

\* The actor is between turns and not sealed.
Ready == status = "live" /\ pc = "idle" /\ sealed = None

Submit(c) ==
    /\ Ready
    /\ WriteAheadCommand([cmd |-> c, ts |-> clock])
    /\ trace' = TraceAfter(commands', nextSequence)
    /\ UNCHANGED <<events, markers, status, nextSequence, sealed, book,
                   executions, positions, clock, acked>>

Seal(reason) == sealed' = reason /\ pc' = "idle"

\* Mutant: a failed event append is ignored.
CarryOn(evt) == pc' = "fanout" /\ turn' = evt /\ UNCHANGED sealed

EventAppendFailed(evt) == Seal("JournalUnavailable") /\ UNCHANGED turn

\* The paired event carries the command's own timestamp.
TurnEvent == [cmd |-> turn.cmd, ts |-> turn.ts, outcome |-> Outcome(book, turn.cmd)]

\* Steps 3 and 4: execute, then append the paired event. An append that does not
\* answer Ok seals the actor, the ambiguous one that landed included.
ExecuteAndAppendEvent ==
    LET n   == nextSequence
        evt == TurnEvent
    IN
    /\ status = "live" /\ pc = "execute"
    /\ book' = NextBook(book, turn.cmd)
    /\ \/ /\ AppendOk(events, n, evt)
          /\ events' = [events EXCEPT ![n] = evt]
          /\ pc' = "fanout" /\ turn' = evt
          /\ UNCHANGED <<sealed, inflight>>
       \/ /\ events' \in Settled(events, n, evt)
          /\ \E late \in LateAppends("event", n, evt) : inflight' = inflight \cup late
          /\ EventAppendFailed(evt)
    /\ UNCHANGED <<commands, markers, status, nextSequence, executions, positions,
                   clock, acked, refused, trace>>

\* Mutant: the stores are not rebuilt at boot.
ProjectLive(store, n, outcome) ==
    IF outcome \in Filling /\ status = "live" THEN [store EXCEPT ![n] = outcome] ELSE store

\* StoreFanOut: the executions leg, then the positions leg.
Project(store, n, outcome) ==
    IF outcome \in Filling THEN [store EXCEPT ![n] = outcome] ELSE store

\* Mutant: the sequence is advanced without the overflow check.
AdvanceUnchecked(n) == nextSequence' = n + 1 /\ pc' = "idle" /\ UNCHANGED sealed

\* checked_next: a sequence that cannot advance seals the actor.
Advance(n) ==
    IF n < MaxSeq
    THEN nextSequence' = n + 1 /\ pc' = "idle" /\ UNCHANGED sealed
    ELSE Seal("SequenceExhausted") /\ UNCHANGED nextSequence

\* Step 5: stores first, then the feed, then N advances and the caller is told.
FanOutAndAdvance ==
    LET n == nextSequence IN
    /\ status = "live" /\ pc = "fanout"
    /\ executions' = Project(executions, n, turn.outcome)
    /\ positions' = Project(positions, n, turn.outcome)
    /\ acked' = acked \cup {[seq |-> n, cmd |-> turn.cmd, outcome |-> turn.outcome]}
    /\ Advance(n)
    /\ turn' = None
    /\ UNCHANGED journal /\ UNCHANGED <<status, book, clock, refused, trace>>

\* A store refuses a leg: the second one leaves the executions leg behind.
ProjectionFails ==
    LET n == nextSequence IN
    /\ status = "live" /\ pc = "fanout" /\ turn.outcome \in Filling
    /\ executions' \in {executions, Project(executions, n, turn.outcome)}
    /\ Seal("ProjectionFailed") /\ turn' = None
    /\ UNCHANGED journal
    /\ UNCHANGED <<status, nextSequence, book, positions, clock, acked, refused, trace>>
-----------------------------------------------------------------------------
(* The process dies (a crash, or boot refusing to start) and boots again.   *)

Crash ==
    /\ status # "down"
    /\ status' = "down" /\ pc' = "idle" /\ turn' = None
    /\ nextSequence' = 0 /\ sealed' = None
    /\ book' = InitBook /\ executions' = EmptySlots /\ positions' = EmptySlots
    /\ UNCHANGED journal /\ UNCHANGED history /\ UNCHANGED clock

Boot ==
    /\ status = "down"
    /\ status' = "recovering"
    /\ UNCHANGED <<pc, turn, nextSequence, sealed, book, executions, positions, clock>>
    /\ UNCHANGED journal /\ UNCHANGED history

\* Mutant: recovery stops at the last event, a command without one is dropped.
EventsFrom(n) == \E m \in Seqs : m >= n /\ events[m] # None

\* The journal holds a record of some kind at n or beyond.
RecordsFrom(n) ==
    \E m \in Seqs : m >= n /\ (commands[m] # None \/ events[m] # None \/ markers[m] # None)

\* Mutant: a stored event is not compared with the derived one.
StoredEventTrusted(n) == TRUE

\* stored_event_at / stored_event_matches: the oracle compare of the reducer. The journal
\* is one that this code wrote: a reject kind that an older build stored as Internal, which
\* the compare lets pass, does not occur in it.
StoredEventMatches(n) ==
    events[n] \in {None, [cmd |-> commands[n].cmd, ts |-> commands[n].ts,
                          outcome |-> Outcome(book, commands[n].cmd)]}

\* One iteration of reduce_into_executor: re-execute the command at the walk's
\* position, compare, and project the derived event into the stores.
ReplayCommand ==
    LET n == nextSequence IN
    /\ status = "recovering" /\ n \in Seqs /\ RecordsFrom(n)
    /\ commands[n] # None
    /\ IF StoredEventMatches(n)
       THEN /\ book' = NextBook(book, commands[n].cmd)
            /\ executions' = Project(executions, n, Outcome(book, commands[n].cmd))
            /\ positions' = Project(positions, n, Outcome(book, commands[n].cmd))
            /\ nextSequence' = n + 1
            /\ UNCHANGED status
       ELSE /\ status' = "corrupt"
            /\ UNCHANGED <<book, executions, positions, nextSequence>>
    /\ UNCHANGED <<pc, turn, sealed, clock>> /\ UNCHANGED journal /\ UNCHANGED history

\* Pass 2 of boot: resume past the last journaled sequence, if there is one.
Resume ==
    /\ status = "recovering" /\ ~ RecordsFrom(nextSequence)
    /\ IF nextSequence \in Seqs
       THEN status' = "live" /\ UNCHANGED nextSequence
       ELSE status' = "exhausted" /\ nextSequence' = MaxSeq
    /\ UNCHANGED <<pc, turn, sealed, book, executions, positions, clock>>
    /\ UNCHANGED journal /\ UNCHANGED history

Tick ==
    /\ clock < MaxTime
    /\ clock' = clock + 1
    /\ UNCHANGED journal /\ UNCHANGED process /\ UNCHANGED history
-----------------------------------------------------------------------------
Next ==
    \/ \E c \in Command : Submit(c)
    \/ ExecuteAndAppendEvent
    \/ FanOutAndAdvance
    \/ ProjectionFails
    \/ LateCommandLands
    \/ LateEventLands
    \/ Crash
    \/ Boot
    \/ ReplayCommand
    \/ Resume
    \/ Tick

Spec == Init /\ [][Next]_vars
-----------------------------------------------------------------------------
(* Properties.                                                              *)

\* Type correctness of the journal, the process and the history.
TypeOK ==
    /\ commands \in [Seqs -> CommandRecord \cup {None}]
    /\ events \in [Seqs -> EventRecord \cup {None}]
    /\ markers \in [Seqs -> MarkerRecord \cup {None}]
    /\ inflight \subseteq CommandAppend \cup EventAppend
    /\ status \in {"live", "down", "recovering", "corrupt", "exhausted"}
    /\ pc \in {"idle", "execute", "fanout"}
    /\ turn \in CommandRecord \cup EventRecord \cup {None}
    /\ pc = "execute" => turn \in CommandRecord
    /\ pc = "fanout" => turn \in EventRecord
    /\ nextSequence \in 0 .. MaxSeq + 1
    /\ status = "live" => nextSequence \in Seqs
    /\ sealed \in SealReason \cup {None}
    /\ book \in Book
    /\ executions \in [Seqs -> Result \cup {None}]
    /\ positions \in [Seqs -> Result \cup {None}]
    /\ clock \in Times
    /\ acked \subseteq [seq : Seqs, cmd : Command, outcome : Result]
    /\ refused \subseteq [seq : Seqs, rec : CommandRecord]
    /\ trace \in [0 .. MaxSeq + 1 -> Book]

\* The sequence up to which the live book has executed: a turn past execution and
\* a sealed actor have executed nextSequence itself.
BookPosition ==
    IF pc = "fanout" \/ sealed # None THEN nextSequence + 1 ELSE nextSequence

\* The outcome the total order gives at a taken sequence number.
OrderedOutcome(n) == Outcome(trace[n], commands[n].cmd)

\* trace really is the re-execution of the durable commands from an empty book.
TraceIsReplay ==
    /\ trace[0] = InitBook
    /\ \A n \in Seqs :
          trace[n + 1] = IF commands[n] = None THEN trace[n]
                         ELSE NextBook(trace[n], commands[n].cmd)

\* "N is reused, no cursor gap": the durable commands of a live actor are exactly
\* the sequences before its position, plus the one its turn has written ahead.
NoCursorGap ==
    status = "live" =>
        \A n \in Seqs : commands[n] # None <=>
            (n < nextSequence \/ (n = nextSequence /\ (pc # "idle" \/ sealed # None)))

\* The pairing the journal promises: an event is durable only with its command,
\* and records that command, its timestamp and the outcome the order gives.
EventPairsCommand ==
    \A n \in Seqs : events[n] # None =>
        /\ commands[n] # None
        /\ events[n] = [cmd |-> commands[n].cmd, ts |-> commands[n].ts,
                        outcome |-> OrderedOutcome(n)]

\* A receipt or a published event is backed by both durable records, before and
\* after any crash.
AckedIsDurable ==
    \A a \in acked :
        /\ commands[a.seq] # None /\ commands[a.seq].cmd = a.cmd
        /\ events[a.seq] # None /\ events[a.seq].outcome = a.outcome

\* The served book is the re-execution of the durable commands, in every state of
\* a live actor: after a crash and a recovery, and while sealed, too.
BookIsReplay ==
    TraceIsReplay /\ (status = "live" => book = trace[BookPosition])

\* The fills the total order gives: what both stores must hold at n.
OrderedFill(n) ==
    IF commands[n] # None /\ OrderedOutcome(n) \in Filling THEN OrderedOutcome(n) ELSE None

\* An actor that takes commands serves stores that agree with the journal and with
\* each other; only a seal may leave them behind.
StoresMatchJournal ==
    status = "live" /\ pc = "idle" /\ sealed = None =>
        \A n \in Seqs : executions[n] = OrderedFill(n) /\ positions[n] = OrderedFill(n)

\* Recovery never halts on a journal this actor wrote.
RecoveryNeverCorrupt == status # "corrupt"

\* The walk of recovery never stands at a sequence without a command while records
\* lie at or behind it: it cannot end early and forget a tail.
RecoveryMeetsNoGap ==
    status = "recovering" /\ nextSequence \in Seqs /\ RecordsFrom(nextSequence) =>
        commands[nextSequence] # None

\* A command answered "nothing executed, N is reused" is in no live book.
RefusedNeverExecuted ==
    \A r \in refused :
        ~ (status = "live" /\ r.seq < BookPosition /\ commands[r.seq] = r.rec)

\* A recovery that runs to its end stands by every receipt ever given: the recovered
\* history holds that command at that sequence with that outcome. Otherwise boot halts.
ResumeHonoursReceipts ==
    [][status = "recovering" /\ status' \in {"live", "exhausted"} =>
          \A a \in acked :
              /\ commands[a.seq] # None /\ commands[a.seq].cmd = a.cmd
              /\ OrderedOutcome(a.seq) = a.outcome]_vars

\* Fail-stop: while sealed the process mutates no book, no store and no sequence,
\* and tells nobody anything; only a crash ends it.
SealedIsFinal ==
    [][status = "live" /\ sealed # None =>
          \/ status' = "down"
          \/ UNCHANGED <<status, pc, sealed, book, executions, positions,
                         nextSequence, acked>>]_vars
-----------------------------------------------------------------------------
(* The write-ahead turn protocol implements SequencedLedger: the durable    *)
(* commands are the ledger, their re-execution gives the outcomes and the   *)
(* state, and the receipts are what was told. A crash, a boot, a refusal    *)
(* and a seal are stuttering steps.                                         *)

ASSUME EntryAssumption == None \notin [cmd : Command, outcome : Result]

LedgerBar ==
    [n \in Seqs |-> IF commands[n] = None THEN None
                    ELSE [cmd |-> commands[n].cmd, outcome |-> OrderedOutcome(n)]]

ToldBar == {[seq |-> a.seq, outcome |-> a.outcome] : a \in acked}

Ledger == INSTANCE SequencedLedger
            WITH ledger <- LedgerBar, state <- trace[MaxSeq + 1], told <- ToldBar

\* The actor, its crashes and its recoveries behave as one totally ordered ledger
\* of deterministic executions, as long as the tail read-back can be trusted.
ImplementsLedger == Ledger!LedgerSpec
=============================================================================
