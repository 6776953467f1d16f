--------------------------- MODULE SnapshotRestore ---------------------------
(***************************************************************************)
(* Snapshot capture and restore of one underlying (UnderlyingActor::capture *)
(* and ::restore in src/exchange/actor.rs), on top of the turn protocol. A  *)
(* restore swaps the book and both stores for a captured cut, journals an   *)
(* epoch marker at the continued sequence and goes on past it. Recovery     *)
(* skips the marker.                                                        *)
(***************************************************************************)
EXTENDS UnderlyingActor

VARIABLES
    epoch,        \* the actor's epoch counter; it lives in memory only
    saved,        \* the captured VenueSnapshot held by the administrator, or None
    line,         \* line.book[n]: the state before n of the line the live actor is
                  \* on, which began at sequence line.from; line.diverged: boot
                  \* resumed on another book than the one served before the crash
    restoredAt,   \* the sequence the latest completed restore continues from, or 0
    rolledBack    \* the sequences at which a restore was refused by its marker append

snapshotVars == <<epoch, saved, line, restoredAt, rolledBack>>

SnapshotInit ==
    /\ Init
    /\ epoch = 0 /\ saved = None /\ restoredAt = 0 /\ rolledBack = {}
    /\ line = [from |-> 0, book |-> trace, diverged |-> FALSE]

\* capture: a pure read between turns. It does not look at the seal.
Capture ==
    /\ status = "live" /\ pc = "idle"
    /\ saved' = [book |-> book, executions |-> executions, positions |-> positions]
    /\ UNCHANGED vars /\ UNCHANGED <<epoch, line, restoredAt, rolledBack>>

\* The gates of restore. A cut the executor or a store refuses leaves no trace.
Restorable == Ready /\ saved # None /\ nextSequence < MaxSeq

\* Mutants: the sequence goes on past a marker that was not written; the swap comes
\* before the marker.
ContinueAnyway ==
    /\ nextSequence' = nextSequence + 1
    /\ UNCHANGED <<book, executions, positions, epoch, restoredAt, line>>
KeepRestored ==
    /\ book' = saved.book /\ executions' = saved.executions /\ positions' = saved.positions
    /\ UNCHANGED <<epoch, nextSequence, restoredAt, line>>

\* The marker append comes before the swap: when it does not answer Ok, nothing in
\* the process has changed.
RollBack == UNCHANGED <<book, executions, positions, epoch, nextSequence, restoredAt, line>>

\* The whole restore. An ambiguous marker append may be durable after the roll-back.
Restore ==
    LET n      == nextSequence
        marker == [epoch |-> epoch + 1, ts |-> clock]
    IN
    /\ Restorable
    /\ \/ /\ AppendOk(markers, n, marker)
          /\ markers' = [markers EXCEPT ![n] = marker]
          /\ book' = saved.book
          /\ executions' = saved.executions /\ positions' = saved.positions
          /\ epoch' = epoch + 1 /\ nextSequence' = n + 1
          /\ restoredAt' = n + 1
          /\ line' = [from |-> n + 1, book |-> [m \in DOMAIN trace |-> saved.book],
                      diverged |-> FALSE]
          /\ UNCHANGED rolledBack
       \/ /\ markers' \in Settled(markers, n, marker)
          /\ RollBack
          /\ rolledBack' = rolledBack \cup {n}
    /\ UNCHANGED <<commands, events, inflight, status, pc, turn, sealed, clock, saved>>
    /\ UNCHANGED history

SubmitOnLine(c) ==
    /\ Submit(c)
    /\ line' = IF commands' = commands THEN line
               ELSE [line EXCEPT !.book = Extend(@, nextSequence, c)]
    /\ UNCHANGED <<epoch, saved, restoredAt, rolledBack>>

\* A restart forgets the epoch counter; the snapshot is outside the process.
CrashForgetsEpoch ==
    /\ Crash
    /\ epoch' = 0
    /\ UNCHANGED <<saved, line, restoredAt, rolledBack>>

\* Boot serves the book its walk has built. The venue stays on the line it was on when
\* that is the book of the line; otherwise it has left it for the re-execution of the
\* whole journal.
ResumeOnReplay ==
    /\ Resume
    /\ line' = IF book = line.book[nextSequence] THEN line
               ELSE [from |-> 0, book |-> trace, diverged |-> TRUE]
    /\ UNCHANGED <<epoch, saved, restoredAt, rolledBack>>

\* No command at this sequence, but an epoch marker: the walk of recovery goes on.
SkipSequence ==
    /\ status = "recovering" /\ nextSequence \in Seqs /\ RecordsFrom(nextSequence)
    /\ commands[nextSequence] = None
    /\ nextSequence' = nextSequence + 1
    /\ UNCHANGED <<status, pc, turn, sealed, book, executions, positions, clock>>
    /\ UNCHANGED journal /\ UNCHANGED history
    /\ UNCHANGED snapshotVars

\* The steps that a snapshot has no part in. Late appends are left out, as the read-back
\* is taken to be reliable here, and so is the clock: no step below compares times.
TurnStep == (ExecuteAndAppendEvent \/ FanOutAndAdvance \/ ProjectionFails) /\ UNCHANGED snapshotVars

WalkStep == (Boot \/ ReplayCommand) /\ UNCHANGED snapshotVars

SnapshotNext ==
    \/ \E c \in Command : SubmitOnLine(c)
    \/ TurnStep
    \/ WalkStep
    \/ SkipSequence
    \/ CrashForgetsEpoch
    \/ ResumeOnReplay
    \/ Capture
    \/ Restore

SnapshotSpec == SnapshotInit /\ [][SnapshotNext]_<<vars, snapshotVars>>
-----------------------------------------------------------------------------
(* Properties.                                                              *)

\* Type correctness of the snapshot state.
SnapshotTypeOK ==
    /\ TypeOK
    /\ epoch \in Nat
    /\ saved = None \/ saved \in [book : Book, executions : [Seqs -> Result \cup {None}],
                                  positions : [Seqs -> Result \cup {None}]]
    /\ line \in [from : Seqs, book : [0 .. MaxSeq + 1 -> Book], diverged : BOOLEAN]
    /\ restoredAt \in Seqs
    /\ rolledBack \subseteq Seqs

\* Nothing is skipped: every sequence before the actor's position names a durable
\* command or an epoch marker.
SequenceIsCovered ==
    status = "live" =>
        \A n \in 0 .. nextSequence - 1 : commands[n] # None \/ markers[n] # None

\* Nothing restarts: an actor that takes a command or a restore stands at a number that
\* no durable command, event or marker carries, and neither does any later one. The
\* marker of a restore that was rolled back may lie at that number.
SequenceIsFresh ==
    Ready =>
        \A n \in Seqs : n >= nextSequence =>
            /\ commands[n] = None /\ events[n] = None
            /\ markers[n] # None => n = nextSequence /\ n \in rolledBack

\* Nothing is used twice: a command and a marker share a number only when the restore of
\* that marker was rolled back.
SequenceUsedOnce ==
    \A n \in Seqs : commands[n] # None /\ markers[n] # None => n \in rolledBack

\* The line steps by the durable commands, and by nothing else, from where it began.
LineSteps ==
    \A n \in line.from .. MaxSeq :
        line.book[n + 1] = IF commands[n] = None THEN line.book[n]
                           ELSE NextBook(line.book[n], commands[n].cmd)

\* What a venue that left its line by a restart is on: the re-execution of the journal
\* from an empty book, across a restore whose marker is durable, and no durable event
\* tells the two apart: each one is what that re-execution gives.
DivergedUnseen ==
    /\ restoredAt > 0 /\ markers[restoredAt - 1] # None
    /\ line.book = trace /\ line.from = 0
    /\ \A n \in Seqs : events[n] # None => events[n].outcome = OrderedOutcome(n)

\* A live venue serves the book of the line it was on, through captures, restores that
\* complete or are rolled back, crashes and recoveries: the cut it last restored (or the
\* empty book) and the commands sequenced since. A restart takes it off that line only
\* across a restore, and only when no event journaled since tells: recovery rebuilds
\* from an empty book, skips the marker, and halts at the first event that differs.
BookFollowsLine ==
    /\ LineSteps
    /\ status = "live" => book = line.book[BookPosition]
    /\ line.diverged => DivergedUnseen

\* "A journal that crosses a real restore boundary fails fail-stop at the first
\* post-restore command [...], a safe halt rather than a silent divergent resume". The
\* code does not keep this: see the README.
RestoreBoundaryHalts == status = "live" => ~ line.diverged

\* The state of captures and restores is sound: its types, and a sequence that neither
\* skips, restarts nor is used twice across restores, failed markers and restarts.
SequenceIsSound ==
    SnapshotTypeOK /\ SequenceIsCovered /\ SequenceIsFresh /\ SequenceUsedOnce
=============================================================================
