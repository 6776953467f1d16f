---------------------------- MODULE ActorMailbox ----------------------------
(***************************************************************************)
(* The bounded mailbox of one underlying's actor and its two ways to stop   *)
(* (ActorHandle::submit, ::snapshot, ActorShutdown::shutdown and the        *)
(* receive loop UnderlyingActor::run in src/exchange/actor.rs).             *)
(*                                                                          *)
(* Callers, the loop and the owner of the shutdown token are concurrent     *)
(* tasks. The biased select polls the token and then the channel, and the   *)
(* token can be cancelled between the two, so they are separate steps. A    *)
(* turn itself is synchronous; UnderlyingActor says what happens inside.    *)
(***************************************************************************)
EXTENDS Naturals, Sequences, FiniteSets, Functions

CONSTANTS Caller,      \* the tasks that send one message each
          Capacity     \* ActorConfig::mailbox_capacity as configured

ASSUME MailboxAssumption == Capacity \in Nat /\ IsFiniteSet(Caller)

\* spawn_underlying_actor clamps the capacity to at least one.
EffectiveCapacity == IF Capacity = 0 THEN 1 ELSE Capacity

VARIABLES
    queue,        \* the messages in the channel, by the caller that sent them
    closed,       \* rx.close() was called, or the receiver is gone
    cancelled,    \* the shutdown token
    loop,         \* "select", "recv", "received", "turn", "drain" or "stopped"
    current,      \* the message the loop holds, a set of at most one caller
    answer,       \* per caller: "none", "waiting", "gone" (it gave up), "dropped"
                  \* (its reply channel is) or the answer it got
    handles,      \* FALSE once the last ActorHandle is dropped
    accepted,     \* callers whose message entered the channel
    ran,          \* callers whose message was processed (its turn ran)
    failed,       \* the loop's task died in the middle of a turn
    queuedAtCancel \* the messages still in the channel when the token fired

mailboxVars == <<queue, closed, cancelled, loop, current, answer, handles, accepted, ran,
          failed, queuedAtCancel>>

MailboxInit ==
    /\ queue = <<>> /\ closed = FALSE /\ cancelled = FALSE
    /\ loop = "select" /\ current = {}
    /\ answer = [c \in Caller |-> "none"]
    /\ handles = TRUE
    /\ accepted = {} /\ ran = {} /\ failed = FALSE /\ queuedAtCancel = {}
-----------------------------------------------------------------------------
(* Callers.                                                                 *)

\* stopped_error: how a caller that finds the actor gone is told.
StoppedError == IF cancelled THEN "ShuttingDown" ELSE "JournalUnavailable"

Full == Len(queue) >= EffectiveCapacity

\* submit and snapshot: try_send, then await the reply.
Send(c) ==
    /\ answer[c] = "none" /\ handles
    /\ \/ /\ closed
          /\ answer' = [answer EXCEPT ![c] = StoppedError]
          /\ UNCHANGED <<queue, accepted>>
       \/ /\ ~ closed /\ Full
          /\ answer' = [answer EXCEPT ![c] = "RateLimited"]
          /\ UNCHANGED <<queue, accepted>>
       \/ /\ ~ closed /\ ~ Full
          /\ answer' = [answer EXCEPT ![c] = "waiting"]
          /\ queue' = Append(queue, c)
          /\ accepted' = accepted \cup {c}
    /\ UNCHANGED <<closed, cancelled, loop, current, handles, ran, failed, queuedAtCancel>>

\* The reply channel was dropped: the caller looks at the token when it wakes.
SeeDropped(c) ==
    /\ answer[c] = "dropped"
    /\ answer' = [answer EXCEPT ![c] = StoppedError]
    /\ UNCHANGED <<queue, closed, cancelled, loop, current, handles, accepted, ran,
                   failed, queuedAtCancel>>

\* The caller's future is dropped while it waits: its message stays where it is.
GiveUp(c) ==
    /\ answer[c] = "waiting"
    /\ answer' = [answer EXCEPT ![c] = "gone"]
    /\ UNCHANGED <<queue, closed, cancelled, loop, current, handles, accepted, ran,
                   failed, queuedAtCancel>>

\* reply.send: a caller that gave up hears nothing.
Reply(c, what) ==
    answer' = [answer EXCEPT ![c] = IF @ = "waiting" THEN what ELSE @]

\* Every ActorHandle is dropped: nobody waits on one any more.
DropHandles ==
    /\ handles /\ \A c \in Caller : answer[c] \notin {"waiting", "dropped"}
    /\ handles' = FALSE
    /\ UNCHANGED <<queue, closed, cancelled, loop, current, answer, accepted, ran,
                   failed, queuedAtCancel>>

\* ActorShutdown::shutdown, by its only owner.
Shutdown ==
    /\ ~ cancelled
    /\ cancelled' = TRUE
    /\ queuedAtCancel' = Range(queue)
    /\ UNCHANGED <<queue, closed, loop, current, answer, handles, accepted, ran, failed>>
-----------------------------------------------------------------------------
(* The receive loop.                                                        *)

\* Mutant: the drain does not close the mailbox first.
DrainOpen == loop' = "drain" /\ UNCHANGED closed

CloseAndDrain == loop' = "drain" /\ closed' = TRUE

\* The cancellation branch is polled first.
PollCancel ==
    /\ loop = "select"
    /\ \/ cancelled /\ CloseAndDrain
       \/ ~ cancelled /\ loop' = "recv" /\ UNCHANGED closed
    /\ UNCHANGED <<queue, cancelled, current, answer, handles, accepted, ran, failed,
                   queuedAtCancel>>

\* recv answers None: the channel is empty and nobody can send any more.
EndOfChannel == queue = <<>> /\ (closed \/ ~ handles)

\* The recv branch: a message, the end of the channel, or back to waiting.
PollRecv ==
    /\ loop = "recv"
    /\ \/ /\ queue # <<>>
          /\ current' = {Head(queue)} /\ queue' = Tail(queue)
          /\ loop' = "received" /\ UNCHANGED closed
       \/ /\ EndOfChannel
          /\ loop' = "stopped" /\ closed' = TRUE
          /\ UNCHANGED <<queue, current>>
       \/ /\ queue = <<>> /\ ~ EndOfChannel /\ cancelled
          /\ loop' = "select" /\ UNCHANGED <<queue, current, closed>>
    /\ UNCHANGED <<cancelled, answer, handles, accepted, ran, failed, queuedAtCancel>>

\* Mutant: the token is not looked at again.
NoRecheck == FALSE

MustReject == cancelled

\* The token is looked at again after the receive: process or reject.
Recheck ==
    /\ loop = "received"
    /\ \/ /\ MustReject
          /\ \E c \in current : Reply(c, "ShuttingDown")
          /\ loop' = "select" /\ current' = {}
       \/ /\ ~ MustReject
          /\ loop' = "turn" /\ UNCHANGED <<answer, current>>
    /\ UNCHANGED <<queue, closed, cancelled, handles, accepted, ran, failed, queuedAtCancel>>

TurnAnswers == {"Ok", "JournalUnavailable"}

\* process: the whole turn (or journal read), then the reply.
Process ==
    /\ loop = "turn"
    /\ \E c \in current :
          /\ \E result \in TurnAnswers : Reply(c, result)
          /\ ran' = ran \cup {c}
    /\ loop' = "select" /\ current' = {}
    /\ UNCHANGED <<queue, closed, cancelled, handles, accepted, failed, queuedAtCancel>>

\* The task dies in the turn, before or after the command is durable: the receiver
\* and every reply channel it holds are dropped.
TaskFails ==
    /\ loop = "turn"
    /\ ran' \in {ran, ran \cup current}
    /\ answer' = [c \in Caller |->
                    IF answer[c] = "waiting" THEN "dropped" ELSE answer[c]]
    /\ loop' = "stopped" /\ closed' = TRUE /\ failed' = TRUE
    /\ queue' = <<>> /\ current' = {}
    /\ UNCHANGED <<cancelled, handles, accepted, queuedAtCancel>>

\* The drain: every message left is answered, then the loop ends.
Drain ==
    /\ loop = "drain"
    /\ \/ /\ queue # <<>>
          /\ Reply(Head(queue), "ShuttingDown")
          /\ queue' = Tail(queue) /\ UNCHANGED loop
       \/ /\ EndOfChannel
          /\ loop' = "stopped" /\ UNCHANGED <<answer, queue>>
    /\ UNCHANGED <<closed, cancelled, current, handles, accepted, ran, failed, queuedAtCancel>>
-----------------------------------------------------------------------------
LoopStep == PollCancel \/ PollRecv \/ Recheck \/ Process \/ Drain

MailboxNext ==
    \/ \E c \in Caller : Send(c) \/ SeeDropped(c) \/ GiveUp(c)
    \/ DropHandles
    \/ Shutdown
    \/ LoopStep
    \/ TaskFails

\* The runtime polls a ready task: the loop's steps are fair, and a caller whose
\* reply channel closes is woken. Sending, giving up, the shutdown, the drop of the
\* handles and the failure of the task owe nothing.
MailboxSpec ==
    /\ MailboxInit /\ [][MailboxNext]_mailboxVars
    /\ WF_mailboxVars(LoopStep) /\ \A c \in Caller : WF_mailboxVars(SeeDropped(c))
-----------------------------------------------------------------------------
(* Properties.                                                              *)

\* Type correctness of the mailbox and its loop.
MailboxTypeOK ==
    /\ queue \in Seq(Caller) /\ Len(queue) <= EffectiveCapacity
    /\ closed \in BOOLEAN /\ cancelled \in BOOLEAN /\ handles \in BOOLEAN /\ failed \in BOOLEAN
    /\ loop \in {"select", "recv", "received", "turn", "drain", "stopped"}
    /\ current \subseteq Caller
    /\ answer \in [Caller -> {"none", "waiting", "gone", "dropped", "Ok",
                              "JournalUnavailable", "RateLimited", "ShuttingDown"}]
    /\ accepted \subseteq Caller /\ ran \subseteq Caller /\ queuedAtCancel \subseteq Caller

\* A message that was queued when shutdown fired is never processed or journaled.
QueuedAtCancelNeverRuns == queuedAtCancel \cap ran = {}

\* "A ShuttingDown command was never journaled or matched", so that a caller told so
\* may send it again, as long as no turn is cut short by the failure of the loop's task.
DrainedMeansNotRun ==
    ~ failed => \A c \in Caller : answer[c] = "ShuttingDown" => c \notin ran

\* The drop of the last handle is graceful: without a shutdown or a failure, a
\* stopped actor has run every message it accepted, those of callers gone included.
DropRunsEverything ==
    loop = "stopped" /\ ~ cancelled /\ ~ failed => ran = accepted

\* Every caller that does not give up is answered, whichever way the loop ends.
EveryoneAnswered ==
    \A c \in Caller : (answer[c] = "waiting") ~> (answer[c] \notin {"waiting", "dropped"})

\* A shutdown completes: the loop ends with an empty mailbox.
ShutdownCompletes == cancelled ~> (loop = "stopped" /\ queue = <<>>)

\* What becomes of a message: with a sound mailbox, one that was queued at the cancel never
\* runs, one answered ShuttingDown has not run and may be sent again, and the drop of the
\* last handle runs everything that was accepted.
MessagesAccounted ==
    MailboxTypeOK /\ QueuedAtCancelNeverRuns /\ DrainedMeansNotRun /\ DropRunsEverything

\* The loop ends and leaves nobody behind: every caller that stays is answered whichever way
\* it ends, and a shutdown completes with an empty mailbox.
LoopEndsWell == EveryoneAnswered /\ ShutdownCompletes
=============================================================================
