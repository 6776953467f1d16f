--------------------------- MODULE IngressReorder ---------------------------
(***************************************************************************)
(* The deterministic ingress edge of one underlying: with latency injected *)
(* an order is held in a bounded buffer until the venue clock has passed   *)
(* its deadline, and is then forwarded to the actor by whichever task      *)
(* holds the release lock: the caller of another order that kicks the      *)
(* release on its way, or the clock-cadence driver.                        *)
(*                                                                         *)
(* One action per point at which the tasks can interleave: the clock read, *)
(* the arrival counter, the two mutexes, the await of the actor.           *)
(***************************************************************************)
EXTENDS Integers, FiniteSets, Sequences, SequencesExt, FiniteSetsExt

CONSTANTS
  Request,        \* the order-entry requests
  SessionOf,      \* the session of each request, a number: ids are ordered
  Draw,           \* the seeded draw, a pure function of the request's stamp
  MaxOffset,      \* MAX_INGRESS_OFFSET_US
  UsPerMs,        \* microseconds in a clock unit
  Capacity,       \* the depth of the buffer
  MaxPerSession,  \* the configured quota of a session
  MaxTime,        \* bound: the last instant of the venue clock
  NoTask, Driver  \* nobody, and the clock-cadence driver

ASSUME IngressAssumption ==
  /\ Capacity \in Nat \ {0} /\ MaxPerSession \in Nat /\ UsPerMs \in Nat \ {0}
  /\ MaxOffset \in Nat /\ MaxTime \in Nat /\ Draw \in [Request -> Nat]
  /\ SessionOf \in [Request -> Nat]
  /\ IsFiniteSet(Request)
  /\ NoTask \notin Request /\ Driver \notin Request /\ NoTask # Driver

VARIABLES
  now,         \* SimClock::current_ms
  arrivals,    \* AppState::arrival_counter
  at,          \* where the future of each request is
  key,         \* the release key of a request, once it has one
  reply,       \* what its oneshot has delivered
  pending,     \* IngressReorderBuffer::pending, a set of requests
  perSession,  \* IngressReorderBuffer::per_session
  driver,      \* where the cadence driver is
  lock,        \* the holder of release_lock
  due,         \* the drained batch of the holder
  sent,        \* TRUE while the first of the batch is with the actor
  late,        \* history: requests inserted after their deadline had passed
  ran,         \* the commands the actor has received
  highest,     \* history: the largest key the actor has received
  abandoned    \* history: the batch that went with the future of each request

vars == <<now, arrivals, at, key, reply, pending, perSession, driver, lock,
          due, sent, late, ran, highest, abandoned>>
held == <<lock, due, sent>>
history == <<late, ran, highest, abandoned>>

Sessions == {SessionOf[r] : r \in Request}
Task     == Request \cup {Driver}
Us(ms)   == ms * UsPerMs

(* with_ceilings: a session never gets more than half the buffer *)
Quota ==
  LET fair == Max({Capacity \div 2, 1})
  IN  Min({Max({MaxPerSession, 1}), fair})

NoKey == [deadline |-> -1, session |-> 0, arrival |-> 0]

Init ==
  /\ now = 0 /\ arrivals = 0
  /\ at = [r \in Request |-> "new"]
  /\ key = [r \in Request |-> NoKey]
  /\ reply = [r \in Request |-> "none"]
  /\ pending = {}
  /\ perSession = [s \in Sessions |-> 0]
  /\ driver = "asleep"
  /\ lock = NoTask /\ due = <<>> /\ sent = FALSE
  /\ late = {} /\ ran = {} /\ highest = NoKey
  /\ abandoned = [r \in Request |-> {}]

(***************************************************************************)
(* Keys                                                                    *)
(***************************************************************************)

(* the derived order of ReleaseKey: deadline, session, arrival *)
Below(a, b) ==
  \/ a.deadline < b.deadline
  \/ a.deadline = b.deadline /\ a.session < b.session
  \/ a.deadline = b.deadline /\ a.session = b.session /\ a.arrival < b.arrival

Before(q, r) == Below(key[q], key[r])

Unclamped(offset) == offset
Clamped(offset) == Min({offset, MaxOffset})

Deadline(r) == Us(now) + Clamped(Draw[r])

IsDueEarly(r) == key[r].deadline <= Us(now)

(* the strict comparison of drain_below *)
IsDue(r) == key[r].deadline < Us(now)

(***************************************************************************)
(* Admission: submit_with_ingress and submit_reordered                     *)
(***************************************************************************)

(* One read of the venue clock and the seeded draw give the deadline.       *)
(* Bound: admissions stop when a deadline could lie beyond MaxTime.         *)
ReadClock(r) ==
  /\ at[r] = "new"
  /\ Us(now) + MaxOffset < Us(MaxTime)
  /\ key' = [key EXCEPT ![r] = [deadline |-> Deadline(r), session |-> SessionOf[r], arrival |-> 0]]
  /\ at' = [at EXCEPT ![r] = "timed"]
  /\ UNCHANGED <<now, arrivals, reply, pending, perSession, driver, held, history>>

(* next_arrival_sequence completes the key, in whatever order the callers   *)
(* reach the counter.                                                       *)
Arrive(r) ==
  /\ at[r] = "timed"
  /\ key' = [key EXCEPT ![r].arrival = arrivals]
  /\ arrivals' = arrivals + 1
  /\ at' = [at EXCEPT ![r] = "keyed"]
  /\ UNCHANGED <<now, reply, pending, perSession, driver, held, history>>

BufferFull(r) ==
  \/ Cardinality(pending) >= Capacity
  \/ perSession[SessionOf[r]] >= Quota

Insert(r) ==
  /\ at[r] = "keyed"
  /\ IF BufferFull(r)
     THEN /\ at' = [at EXCEPT ![r] = "done"]
          /\ reply' = [reply EXCEPT ![r] = "refused"]
          /\ key' = [key EXCEPT ![r] = NoKey]
          /\ UNCHANGED <<pending, perSession, late>>
     ELSE /\ pending' = pending \cup {r}
          /\ perSession' = [perSession EXCEPT ![SessionOf[r]] = @ + 1]
          /\ at' = [at EXCEPT ![r] = "kick"]
          /\ late' = IF key[r].deadline < Us(now) THEN late \cup {r} ELSE late
          /\ UNCHANGED <<reply, key>>
  /\ UNCHANGED <<now, arrivals, driver, held, ran, highest, abandoned>>

(***************************************************************************)
(* Release: release_ingress, run by a caller or by the driver              *)
(***************************************************************************)

Wants(t) == IF t = Driver THEN driver = "release" ELSE at[t] = "kick"

Goes(t, driverAt, callerAt) ==
  IF t = Driver
  THEN driver' = driverAt /\ UNCHANGED at
  ELSE at' = [at EXCEPT ![t] = callerAt] /\ UNCHANGED driver

Freed(batch) ==
  [s \in Sessions |-> perSession[s] - Cardinality({r \in batch : SessionOf[r] = s})]
RemainderKept(batch) == pending \ {r \in batch : \E q \in batch : Before(q, r)}

(* what stays in the buffer *)
Remainder(batch) == pending \ batch

(* the drained entries, as the ordered map gives them *)
InKeyOrder(batch) ==
  CHOOSE q \in [1..Cardinality(batch) -> batch] :
    \A i, j \in DOMAIN q : i < j => Before(q[i], q[j])

(* The release lock, one read of the clock, and the drain below it. *)
DrainBelow(t) ==
  /\ Wants(t)
  /\ lock = NoTask
  /\ lock' = t
  /\ LET batch == {r \in pending : IsDue(r)}
     IN  /\ pending' = Remainder(batch)
         /\ perSession' = Freed(batch)
         /\ due' = InKeyOrder(batch)
  /\ Goes(t, "forward", "forward")
  /\ UNCHANGED <<now, arrivals, key, reply, sent, history>>

Forwarding(t) == IF t = Driver THEN driver = "forward" ELSE at[t] = "forward"

(* A reply resolves the buffered caller, whose key is of no more use. *)
Answer(r, what) ==
  /\ reply' = [reply EXCEPT ![r] = what]
  /\ key' = [key EXCEPT ![r] = NoKey]
  /\ late' = late \ {r}

(* The actor refuses the command, or takes it into its mailbox. *)
Refuse(t) ==
  /\ lock = t /\ Forwarding(t)
  /\ due # <<>> /\ ~sent
  /\ Answer(Head(due), "refused")
  /\ due' = Tail(due)
  /\ UNCHANGED <<now, arrivals, at, pending, perSession, driver, lock, sent, ran, highest, abandoned>>

Send(t) ==
  /\ lock = t /\ Forwarding(t)
  /\ due # <<>> /\ ~sent
  /\ sent' = TRUE
  /\ ran' = ran \cup {Head(due)}
  /\ highest' = IF Below(highest, key[Head(due)]) THEN key[Head(due)] ELSE highest
  /\ UNCHANGED <<now, arrivals, at, key, reply, pending, perSession, driver, lock, due, late,
                 abandoned>>

(* The receipt comes back and is handed to the buffered caller. *)
Deliver(t) ==
  /\ lock = t /\ Forwarding(t)
  /\ due # <<>> /\ sent
  /\ Answer(Head(due), "receipt")
  /\ due' = Tail(due)
  /\ sent' = FALSE
  /\ UNCHANGED <<now, arrivals, at, pending, perSession, driver, lock, ran, highest, abandoned>>

Release(t) ==
  /\ lock = t /\ Forwarding(t)
  /\ due = <<>>
  /\ lock' = NoTask
  /\ Goes(t, "asleep", "waiting")
  /\ UNCHANGED <<now, arrivals, key, reply, pending, perSession, due, sent, history>>

(***************************************************************************)
(* The client hangs up and the server drops the future of its request, at  *)
(* one of its awaits: the lock, the actor, the reply. What the future owns *)
(* goes with it: the lock, and the drained batch with the reply channels   *)
(* of the other callers.                                                   *)
(***************************************************************************)

DroppedWith(r) == IF lock = r THEN Range(due) ELSE {}

GoAway(r) ==
  /\ \/ at[r] = "kick"
     \/ at[r] = "forward" /\ sent
     \/ at[r] = "waiting" /\ reply[r] = "none"
  /\ at' = [at EXCEPT ![r] = "done"]
  /\ reply' = [q \in Request |-> IF q \in DroppedWith(r) THEN "dropped" ELSE reply[q]]
  /\ key' = [q \in Request |-> IF q \in DroppedWith(r) THEN NoKey ELSE key[q]]
  /\ late' = late \ DroppedWith(r)
  /\ IF lock = r
     THEN lock' = NoTask /\ due' = <<>> /\ sent' = FALSE
     ELSE UNCHANGED held
  /\ abandoned' = [abandoned EXCEPT ![r] = DroppedWith(r)]
  /\ UNCHANGED <<now, arrivals, pending, perSession, driver, ran, highest>>

(***************************************************************************)
(* The clock, and the driver that ticks it and then releases               *)
(***************************************************************************)

(* advance_to: a compare-and-swap that never moves back *)
Tick ==
  /\ now < MaxTime
  /\ now' = now + 1
  /\ UNCHANGED <<arrivals, at, key, reply, pending, perSession, driver, held, history>>

Wake ==
  /\ driver = "asleep"
  /\ driver' = "release"
  /\ UNCHANGED <<now, arrivals, at, key, reply, pending, perSession, held, history>>

Caller(r) ==
  ReadClock(r) \/ Arrive(r) \/ Insert(r)

Pump(t) == DrainBelow(t) \/ Refuse(t) \/ Send(t) \/ Deliver(t) \/ Release(t)

Next ==
  \/ \E r \in Request : Caller(r) \/ GoAway(r)
  \/ \E t \in Task : Pump(t)
  \/ Tick
  \/ Wake

(* Tokio polls the task that holds the lock and the actor answers it; the  *)
(* mutex is granted in turn, so the driver gets it in the end; the cadence *)
(* is a timer that always fires. Nothing is asked of the callers.          *)
Fairness ==
  /\ WF_vars(\E t \in Task : Refuse(t) \/ Send(t) \/ Deliver(t) \/ Release(t))
  /\ SF_vars(DrainBelow(Driver))
  /\ WF_vars(Tick) /\ WF_vars(Wake)

Spec == Init /\ [][Next]_vars /\ Fairness

-----------------------------------------------------------------------------
(***************************************************************************)
(* Properties                                                              *)
(***************************************************************************)

TypeOK ==
  /\ now \in 0..MaxTime /\ arrivals \in 0..Cardinality(Request)
  /\ at \in [Request -> {"new", "timed", "keyed", "kick", "forward", "waiting", "done"}]
  /\ reply \in [Request -> {"none", "refused", "receipt", "dropped"}]
  /\ pending \subseteq Request /\ late \subseteq Request
  /\ perSession \in [Sessions -> 0..Capacity]
  /\ driver \in {"asleep", "release", "forward"}
  /\ lock \in Task \cup {NoTask}
  /\ due \in Seq(Request) /\ Len(due) <= Capacity /\ sent \in BOOLEAN
  /\ ran \subseteq Request /\ abandoned \in [Request -> SUBSET Request]

(* The counts of the sessions follow the buffer through inserts, drains    *)
(* and callers that vanish, and no session can take the half that the      *)
(* others need: a count that drifted would throttle its session for ever.  *)
OccupancyIsExact ==
  /\ \A s \in Sessions : perSession[s] = Cardinality({r \in pending : SessionOf[r] = s})
  /\ Cardinality(pending) <= Capacity
  /\ Capacity >= 2 => \A s \in Sessions : 2 * perSession[s] <= Capacity

(* The actor receives the orders in the order of their keys over all the   *)
(* batches and all the tasks that pump, except for an order whose deadline *)
(* had already passed when it reached the buffer (the admission window the *)
(* module's documentation excludes).                                       *)
OnlyLateIsOvertaken ==
  [][\A r \in ran' \ ran : Below(highest, key[r]) \/ r \in late]_vars

(* The future of the request has not reached the buffer yet.                *)
OnTheWay(r) == at[r] \in {"new", "timed", "keyed"}

(* No order is lost and none is in two places: whoever pumps and whoever   *)
(* hangs up, an order that reached the edge is in the buffer, or in the    *)
(* batch in hand, once, until its caller's channel has been resolved.      *)
HeldOrAnswered ==
  /\ IsInjective(due) /\ Range(due) \cap pending = {}
  /\ \A r \in Request : ~OnTheWay(r) =>
       (reply[r] = "none" <=> r \in pending \cup Range(due))

(* An order reaches the actor at most once, and an answer is true: a       *)
(* receipt for what ran, a refusal for what did not. A channel dropped     *)
(* with the future of another caller says neither: exactly one order of    *)
(* such a batch, the one in hand, has run, and its caller is told          *)
(* JournalUnavailable like those whose orders never will.                  *)
ForwardedOnceAndTold ==
  /\ ran \cap pending = {}
  /\ \A i \in DOMAIN due : due[i] \in ran => i = 1 /\ sent
  /\ \A r \in Request :
       /\ reply[r] = "receipt" => r \in ran
       /\ reply[r] = "refused" => r \notin ran
       /\ reply[r] = "dropped" <=> \E p \in Request : r \in abandoned[p]
  /\ \A p \in Request : abandoned[p] # {} =>
       at[p] = "done" /\ \E q \in abandoned[p] : abandoned[p] \cap ran = {q}

(* Nothing is held for ever: however large the drawn latency was, and even *)
(* when a pump dies with the lock, the buffer and the batch in hand drain. *)
BufferDrains == []<>(pending = {} /\ due = <<>>)

(* "A dropped sender means the venue is shutting down" (submit_reordered): *)
(* a caller that still waits never sees its reply channel dropped while    *)
(* the venue runs.  The code does not keep this: see the README.           *)
DroppedMeansShutdown == \A r \in Request : reply[r] = "dropped" => at[r] = "done"

(* The buffer and its answers are accounted for: types, the per-session    *)
(* counts, no order lost or held twice, each forwarded at most once, and   *)
(* true answers, except for the channels that a vanished pump drops.       *)
BufferAccounted == TypeOK /\ OccupancyIsExact /\ HeldOrAnswered /\ ForwardedOnceAndTold
=============================================================================
