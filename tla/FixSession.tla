----------------------------- MODULE FixSession -----------------------------
(***************************************************************************)
(* One FIX session key of the venue: the durable counters and the resend    *)
(* log (FixSessionStore in src/gateway/fix/store.rs and pg_store.rs), the   *)
(* session state machine of each connection that logs on for the key        *)
(* (SessionFsm and VenueFixSession in src/gateway/fix/fsm.rs), the lease    *)
(* that admits one of them, and the acceptor's task around each             *)
(* (src/gateway/fix/acceptor.rs).                                           *)
(*                                                                          *)
(* A handler is a list of store operations, run one by one; each can fail,  *)
(* which seals the session, and the process can die before any of them.     *)
(* Frames are numbers: what a frame says is left out, who numbered it is    *)
(* not. The client is arbitrary: it sends any number at any time.           *)
(***************************************************************************)
EXTENDS Naturals, Sequences, SequencesExt

CONSTANTS Conn,      \* connection slots: the permits of FixAcceptor
          Order,     \* order-entry mutations, by ClOrdID
          MaxSeq,    \* the largest MsgSeqNum; the counters are checked, not wrapped
          LogLimit,  \* MAX_STORED_OUTBOUND_PER_KEY
          ByteLimit, \* MAX_STORED_OUTBOUND_BYTES_PER_KEY
          FrameBytes(_), \* the length of the frame that an entry of the log stands for
          MaxResets, \* bound: resets of the session by the client
          None

ASSUME FixSessionAssumption ==
    /\ MaxSeq \in Nat \ {0, 1} /\ LogLimit \in Nat \ {0} /\ ByteLimit \in Nat
    /\ MaxResets \in Nat
    /\ None \notin Conn \cup Order \cup Nat

Seq1 == 1..MaxSeq
Phases == {"Closed", "AwaitingLogon", "Verifying", "Binding", "Active", "AwaitingResend",
           "Closing"}
Probes == {"none", "sent", "late"}
Ops == [op : {"save", "consume", "close"}] \cup [op : {"emit"}, about : Order \cup {None}]
       \cup [op : {"reset"}, target : Seq1, trigger : {"LogonReset", "SequenceReset"}]

VARIABLES
    store,     \* durable: sender and target counters, the log (numbers with the
               \* era they were sent in), the era and how many resets are audited
    lease,     \* the connection that holds the key, or None
    conn,      \* per connection: the SessionFsm and what its handler has still to do
    mail,      \* submitted mutations: <<order, the connection that awaits it or None>>
    journaled, \* mutations whose outcome is durable
    refused,   \* mutations answered with a reject that is stored, nothing journaled
    claimed,   \* the mutation the client put under each number of this era
    revoked    \* the account's revocation epoch has been bumped

vars == <<store, lease, conn, mail, journaled, refused, claimed, revoked>>

\* SessionFsm::new, and a slot nobody uses.
NewFsm(phase) ==
    [phase |-> phase, sender |-> 1, target |-> 1, todo |-> <<>>, waits |-> None,
     epoch |-> FALSE, quietIn |-> FALSE, probe |-> "none", gone |-> FALSE]

Init ==
    /\ store = [sender |-> 1, target |-> 1, log |-> <<>>, era |-> 1, resets |-> 0]
    /\ lease = None
    /\ conn = [c \in Conn |-> NewFsm("Closed")]
    /\ mail = {} /\ journaled = {} /\ refused = {}
    /\ claimed = [n \in Seq1 |-> None]
    /\ revoked = FALSE
-----------------------------------------------------------------------------
(* The store.                                                               *)

EmitAbout(k) == [op |-> "emit", about |-> k]
Emit == EmitAbout(None)
Save == [op |-> "save"]
Consume == [op |-> "consume"]
Close == [op |-> "close"]
Reset(n, trigger) == [op |-> "reset", target |-> n, trigger |-> trigger]

\* push_outbound: append, then evict the oldest until both bounds hold or nothing is
\* left.
Bytes(log) == FoldLeft(LAMBDA sum, entry : sum + FrameBytes(entry), 0, log)

Push(log, entry) ==
    LET longer == Append(log, entry)
        without(d) == SubSeq(longer, d + 1, Len(longer))
        fits == {d \in 0..Len(longer) :
                    \/ d = Len(longer)
                    \/ Len(without(d)) <= LogLimit /\ Bytes(without(d)) <= ByteLimit}
    IN  without(CHOOSE d \in fits : \A x \in fits : d <= x)

\* Mutant: the frame is stored and its counter is left for a later save.
StoreOnly(seq) ==
    [store EXCEPT !.log = Push(store.log, [era |-> store.era, seq |-> seq])]

\* store_outbound_and_advance: the frame and the counter in one transaction.
StoreOutbound(seq) ==
    [store EXCEPT !.log = Push(store.log, [era |-> store.era, seq |-> seq]),
                  !.sender = seq + 1]

\* save_counters
SaveCounters(f) == [store EXCEPT !.sender = f.sender, !.target = f.target]

\* record_reset: the audit entry and the new counters. A logon reset starts a new
\* era of numbers; the log keeps the frames of the old one.
RecordReset(f, op) ==
    [store EXCEPT !.sender = f.sender, !.target = op.target, !.resets = @ + 1,
                  !.era = IF op.trigger = "LogonReset" THEN @ + 1 ELSE @]

\* The connection's task ends: its session and with it the lease are dropped, and
\* nobody hears the answer of what it submitted.
Drop(c) ==
    /\ conn' = [conn EXCEPT ![c] = NewFsm("Closed")]
    /\ lease' = IF lease = c THEN None ELSE lease
    /\ mail' = {IF m[2] = c THEN <<m[1], None>> ELSE m : m \in mail}

\* The connection's task runs a handler: it reads no message and no tick.
Busy(c) == conn[c].todo # <<>> \/ conn[c].waits # None

Admitted(c) == conn[c].phase \in {"Active", "AwaitingResend"}

\* consume_inbound leaves AwaitingResend.
Resumed(phase) == IF phase = "AwaitingResend" THEN "Active" ELSE phase

Rest(f) == [f EXCEPT !.todo = Tail(@)]

\* The counters are checked: an operation that would pass the last number fails
\* before it touches the store.
Exhausted(f) ==
    \/ Head(f.todo).op = "emit" /\ f.sender = MaxSeq
    \/ Head(f.todo).op = "consume" /\ f.target = MaxSeq

\* emit: store the frame, then advance in memory.
EmitStep(c) ==
    LET f == conn[c]
    IN  /\ Head(f.todo).op = "emit"
        /\ store' = StoreOutbound(f.sender)
        /\ conn' = [conn EXCEPT ![c] = [Rest(f) EXCEPT !.sender = @ + 1]]
        /\ refused' = refused \cup ({Head(f.todo).about} \ {None})
        /\ UNCHANGED claimed

\* persist_counters, persist_inbound
SaveStep(c) ==
    LET f == conn[c]
    IN  /\ Head(f.todo).op = "save"
        /\ store' = SaveCounters(f)
        /\ conn' = [conn EXCEPT ![c] = Rest(f)]
        /\ UNCHANGED <<refused, claimed>>

\* consume_inbound: advance, persist, leave AwaitingResend.
ConsumeStep(c) ==
    LET f == [conn[c] EXCEPT !.target = @ + 1, !.phase = Resumed(@)]
    IN  /\ Head(f.todo).op = "consume"
        /\ store' = SaveCounters(f)
        /\ conn' = [conn EXCEPT ![c] = Rest(f)]
        /\ UNCHANGED <<refused, claimed>>

\* record_reset. The client numbers its messages afresh: from one after a logon
\* reset, from NewSeqNo after a SequenceReset, and it skips the numbers before.
ResetStep(c) ==
    LET f == conn[c]
        op == Head(f.todo)
    IN  /\ op.op = "reset"
        /\ store' = RecordReset(f, op)
        /\ conn' = [conn EXCEPT ![c] = Rest(f)]
        /\ claimed' = [n \in Seq1 |-> None]
        /\ UNCHANGED refused

\* The next store operation of the handler succeeds.
StoreStep(c) ==
    /\ conn[c].todo # <<>> /\ ~ Exhausted(conn[c])
    /\ EmitStep(c) \/ SaveStep(c) \/ ConsumeStep(c) \/ ResetStep(c)
    /\ UNCHANGED <<lease, mail, journaled, revoked>>

\* SessionError: a store operation fails or a counter is exhausted, and the
\* session is sealed.
Seal(c) ==
    /\ conn[c].todo # <<>> /\ Head(conn[c].todo).op # "close"
    /\ Drop(c)
    /\ UNCHANGED <<store, journaled, refused, claimed, revoked>>

\* flush returns SessionControl::Close.
CloseStep(c) ==
    /\ conn[c].todo # <<>> /\ Head(conn[c].todo).op = "close"
    /\ Drop(c)
    /\ UNCHANGED <<store, journaled, refused, claimed, revoked>>
-----------------------------------------------------------------------------
(* Connections and logon.                                                   *)

\* spawn_session: a free permit.
Accept(c) ==
    /\ conn[c].phase = "Closed"
    /\ conn' = [conn EXCEPT ![c] = NewFsm("AwaitingLogon")]
    /\ UNCHANGED <<store, lease, mail, journaled, refused, claimed, revoked>>

\* A Logon arrives and its password goes to the blocking pool.
Logon(c) ==
    /\ conn[c].phase = "AwaitingLogon" /\ ~ conn[c].gone
    /\ conn' = [conn EXCEPT ![c].phase = "Verifying", ![c].quietIn = FALSE]
    /\ UNCHANGED <<store, lease, mail, journaled, refused, claimed, revoked>>

\* The password is right and the account row is read: a revoked account is refused.
Verified(c) ==
    /\ conn[c].phase = "Verifying"
    /\ \/ /\ revoked
          /\ Drop(c)
       \/ /\ ~ revoked
          /\ conn' = [conn EXCEPT ![c].phase = "Binding", ![c].epoch = revoked]
          /\ UNCHANGED <<lease, mail>>
    /\ UNCHANGED <<store, journaled, refused, claimed, revoked>>

\* SessionLeaseRegistry::try_claim
TryClaim == lease = None

\* The epoch the session lives under is the one of the row that was checked.
SessionEpoch(f) == f.epoch

\* A number below the stored expectation would replay consumed messages.
TooLow(n, reset) == ~ reset /\ n < store.target

\* What admit_logon makes of the counters, and what it then writes.
Bound(f, n, reset) ==
    LET base == [f EXCEPT !.epoch = SessionEpoch(f), !.phase = "Active"]
    IN  IF reset
        THEN [base EXCEPT !.sender = 1, !.target = 2,
                          !.todo = <<Reset(1, "LogonReset"), Save, Emit>>]
        ELSE IF n = store.target
        THEN [base EXCEPT !.sender = store.sender, !.target = n + 1,
                          !.todo = <<Save, Emit>>]
        ELSE [base EXCEPT !.sender = store.sender, !.target = store.target,
                          !.phase = "AwaitingResend", !.todo = <<Save, Emit, Emit>>]

\* handle_logon after the verify, and admit_logon up to its first write. A live
\* session, a number that is too low or the last one refuse the logon with a Logout
\* that is not stored, and close. n is the number of the Logon, one the client used
\* for no order; the client resets at most MaxResets times.
Admit(c, n, reset) ==
    LET f == Bound(conn[c], n, reset)
        refuses == ~ TryClaim \/ TooLow(n, reset) \/ f.target > MaxSeq
    IN  /\ conn[c].phase = "Binding"
        /\ IF reset THEN store.resets < MaxResets ELSE claimed[n] = None
        /\ \/ /\ refuses
              /\ Drop(c)
           \/ /\ ~ refuses
              /\ lease' = c
              /\ conn' = [conn EXCEPT ![c] = f]
              /\ UNCHANGED mail
        /\ UNCHANGED <<store, journaled, refused, claimed, revoked>>

\* The Logon in whatever way the client numbered it.
Admits(c) == \E n \in Seq1, reset \in BOOLEAN : Admit(c, n, reset)

\* The connection ends between handlers, or a refusal closes it: end of file, read
\* error, bad framing, idle timeout, a first message that is no Logon, a rate
\* limited or unauthenticated Logon, a full outbound mailbox, shutdown.
Disconnect(c) ==
    /\ conn[c].phase # "Closed" /\ ~ Busy(c)
    /\ Drop(c)
    /\ UNCHANGED <<store, journaled, refused, claimed, revoked>>

\* MAX_DISPATCH: the handler that awaits an answer is dropped with its session.
Timeout(c) ==
    /\ conn[c].waits # None /\ conn[c].todo = <<>>
    /\ Drop(c)
    /\ UNCHANGED <<store, journaled, refused, claimed, revoked>>

\* The peer goes silent without closing the connection.
Abandon(c) ==
    /\ conn[c].phase = "AwaitingLogon" \/ Admitted(c)
    /\ ~ conn[c].gone /\ conn' = [conn EXCEPT ![c].gone = TRUE]
    /\ UNCHANGED <<store, lease, mail, journaled, refused, claimed, revoked>>
-----------------------------------------------------------------------------
(* Messages of an admitted session.                                         *)

\* VenueFixSession::revoked: the epoch rose above the session's.
Revoked(c) == revoked /\ ~ conn[c].epoch

\* on_inbound: the peer is alive.
Heard(f) == [f EXCEPT !.quietIn = FALSE, !.probe = "none"]

Listening(c) == Admitted(c) /\ ~ Busy(c) /\ ~ conn[c].gone

\* The handler of a message runs: what it makes of the session in memory.
Handle(c, f) ==
    /\ Listening(c)
    /\ conn' = [conn EXCEPT ![c] = f]
    /\ UNCHANGED <<store, lease, journaled, refused, revoked>>

\* Any message of a revoked account: Logout and close.
DropRevoked(c) ==
    /\ Revoked(c)
    /\ Handle(c, [Heard(conn[c]) EXCEPT !.phase = "Closing", !.todo = <<Emit, Close>>])
    /\ UNCHANGED <<mail, claimed>>

\* Mutant: a gap fill may move the expectation back.
AnyFill(f, new) == TRUE

\* A gap fill only moves the expectation forward.
Forward(f, new) == new >= f.target

\* SequenceReset with GapFillFlag: the client skips the numbers before new.
GapFill(c, new) ==
    LET f == conn[c]
    IN  /\ ~ Revoked(c)
        /\ Handle(c, IF Forward(f, new)
                     THEN [Heard(f) EXCEPT !.target = new, !.todo = <<Save>>,
                                           !.phase = Resumed(@)]
                     ELSE Heard(f))
        /\ claimed' = [n \in Seq1 |-> IF n \in f.target..(new - 1) THEN None ELSE claimed[n]]
        /\ UNCHANGED mail

\* SequenceReset without it: the expectation is set, audited.
SequenceReset(c, new) ==
    LET f == conn[c]
    IN  /\ ~ Revoked(c) /\ store.resets < MaxResets
        /\ Handle(c, [Heard(f) EXCEPT !.target = new, !.phase = Resumed(@),
                                      !.todo = <<Reset(new, "SequenceReset")>>])
        /\ UNCHANGED <<mail, claimed>>

\* A number above the expectation: ask for a resend, consume nothing.
Gap(c) ==
    /\ ~ Revoked(c) /\ conn[c].target < MaxSeq
    /\ Handle(c, [Heard(conn[c]) EXCEPT !.phase = "AwaitingResend", !.todo = <<Emit>>])
    /\ UNCHANGED <<mail, claimed>>

\* A number below the expectation is ignored.
Duplicate(c) ==
    /\ ~ Revoked(c) /\ conn[c].target > 1
    /\ Handle(c, Heard(conn[c]))
    /\ UNCHANGED <<mail, claimed>>

\* A frame that does not decode: a reject, and the number is not consumed. It is not
\* even a sign of life.
Malformed(c) ==
    /\ Handle(c, [conn[c] EXCEPT !.todo = <<Emit>>])
    /\ UNCHANGED <<mail, claimed>>

\* The message with the expected number, when the client used it for no order.
InOrder(c) == ~ Revoked(c) /\ claimed[conn[c].target] = None

\* Heartbeat, Reject, or a ResendRequest: ServeResend's frames carry old numbers.
Quiet(c) ==
    /\ InOrder(c)
    /\ Handle(c, [Heard(conn[c]) EXCEPT !.todo = <<Consume>>])
    /\ UNCHANGED <<mail, claimed>>

\* A TestRequest, or a message refused with one reject: no permission, a foreign
\* Account, a second Logon, a message only the venue sends.
Answered(c) ==
    /\ InOrder(c)
    /\ Handle(c, [Heard(conn[c]) EXCEPT !.todo = <<Emit, Consume>>])
    /\ UNCHANGED <<mail, claimed>>

\* OrderStatusRequest, MarketDataRequest: consumed first, answered after.
Read(c) ==
    /\ InOrder(c)
    /\ Handle(c, [Heard(conn[c]) EXCEPT !.todo = <<Consume, Emit>>])
    /\ UNCHANGED <<mail, claimed>>

\* Logout
Logout(c) ==
    /\ InOrder(c)
    /\ Handle(c, [Heard(conn[c]) EXCEPT !.phase = "Closing", !.todo = <<Emit, Consume, Close>>])
    /\ UNCHANGED <<mail, claimed>>
-----------------------------------------------------------------------------
(* Order-entry mutations (D, F, G, q).                                      *)

\* Mutant: the inbound number is made durable before the effect is.
PersistFirst == <<Save>>

\* The durable inbound number waits for the effect.
Deferred == <<>>

\* The mutation has the expected number; the client resends it under the same one.
NextIn(c, k) ==
    /\ ~ Revoked(c) /\ conn[c].target < MaxSeq
    /\ claimed[conn[c].target] \in {None, k}
    /\ claimed' = [claimed EXCEPT ![conn[c].target] = k]

\* route_order, up to the submission.
RouteOrder(c, k) ==
    LET f == Heard(conn[c])
    IN  /\ NextIn(c, k)
        /\ Handle(c, [f EXCEPT !.target = @ + 1, !.phase = Resumed(@), !.waits = k,
                               !.todo = Deferred])
        /\ mail' = mail \cup {<<k, c>>}

\* Refused before the submission: rate limit, unknown order, a bad expiry.
RefuseOrder(c, k) ==
    LET f == Heard(conn[c])
    IN  /\ NextIn(c, k)
        /\ Handle(c, [f EXCEPT !.target = @ + 1, !.phase = Resumed(@),
                               !.todo = <<EmitAbout(k)>>])
        /\ UNCHANGED mail

\* The waiting handler goes on with what it has to write.
Answer(m, todo) ==
    conn' = IF m[2] = None THEN conn
            ELSE [conn EXCEPT ![m[2]].waits = None, ![m[2]].todo = @ \o todo]

\* The actor commits it, whoever still listens: the reports are stored and the
\* inbound number is persisted.
Commit(m) ==
    /\ m \in mail /\ (m[2] # None => conn[m[2]].todo = <<>>)
    /\ mail' = mail \ {m}
    /\ journaled' = journaled \cup {m[1]}
    /\ Answer(m, <<Emit, Save>>)
    /\ UNCHANGED <<store, lease, refused, claimed, revoked>>

\* The submission fails: a reject, and nothing is persisted.
SubmitFails(m) ==
    /\ m \in mail /\ (m[2] # None => conn[m[2]].todo = <<>>)
    /\ mail' = mail \ {m}
    /\ Answer(m, <<EmitAbout(m[1])>>)
    /\ UNCHANGED <<store, lease, journaled, refused, claimed, revoked>>
-----------------------------------------------------------------------------
(* Time, revocation, crash.                                                 *)

\* The venue clock passes a heartbeat interval.
TimePasses ==
    /\ conn' = [c \in Conn |-> IF conn[c].phase # "AwaitingLogon" /\ ~ Admitted(c) THEN conn[c]
                  ELSE [conn[c] EXCEPT !.quietIn = TRUE,
                                       !.probe = IF @ = "sent" THEN "late" ELSE @]]
    /\ UNCHANGED <<store, lease, mail, journaled, refused, claimed, revoked>>

\* Mutant: every tick restarts the wait for the answer to the TestRequest.
NeverLate(f) == FALSE

\* Another interval has passed since the TestRequest.
ProbeLate(f) == f.probe = "late"

\* What a tick writes on a live session; beat says that the venue itself was silent
\* for an interval.
TickTodo(f, beat) ==
    (IF beat THEN <<Emit>> ELSE <<>>)
      \o (IF ProbeLate(f) THEN <<Emit, Close>>
          ELSE IF f.probe = "none" /\ f.quietIn THEN <<Emit>> ELSE <<>>)

\* on_tick: logon timeout, revocation, heartbeat, TestRequest, heartbeat timeout.
Tick(c, beat) ==
    LET f == conn[c]
    IN  /\ ~ Busy(c)
        /\ \/ /\ f.phase = "AwaitingLogon" /\ f.quietIn
              /\ conn' = [conn EXCEPT ![c].phase = "Closing", ![c].todo = <<Close>>]
           \/ /\ Admitted(c) /\ Revoked(c)
              /\ conn' = [conn EXCEPT ![c].phase = "Closing", ![c].todo = <<Emit, Close>>]
           \/ /\ Admitted(c) /\ ~ Revoked(c) /\ TickTodo(f, beat) # <<>>
              /\ conn' = [conn EXCEPT
                    ![c].todo = TickTodo(f, beat),
                    ![c].phase = IF ProbeLate(f) THEN "Closing" ELSE @,
                    ![c].probe = IF @ = "none" /\ f.quietIn THEN "sent" ELSE @]
        /\ UNCHANGED <<store, lease, mail, journaled, refused, claimed, revoked>>

\* An administrator revokes the account.
Revoke ==
    /\ ~ revoked /\ revoked' = TRUE
    /\ UNCHANGED <<store, lease, conn, mail, journaled, refused, claimed>>

\* The process dies; the store is on disk.
Crash ==
    /\ \E c \in Conn : conn[c].phase # "Closed"
    /\ conn' = [c \in Conn |-> NewFsm("Closed")]
    /\ lease' = None /\ mail' = {}
    /\ UNCHANGED <<store, journaled, refused, claimed, revoked>>
-----------------------------------------------------------------------------
(* serve_resend, as a function of the log.                                  *)

\* outbound_range: where the stored frames of the range are in the log.
OutboundRange(begin, end) ==
    {i \in DOMAIN store.log : /\ store.log[i].seq >= begin
                              /\ end = 0 \/ store.log[i].seq <= end}

\* The sort is stable, by number. The cursor over its result is the set of the positions it
\* has not passed, and peek is the first of them.
SortsBefore(i, j) ==
    \/ store.log[i].seq < store.log[j].seq
    \/ store.log[i].seq = store.log[j].seq /\ i <= j

Peek(cursor) == CHOOSE i \in cursor : \A j \in cursor : SortsBefore(i, j)

PeekSeq(cursor) == store.log[Peek(cursor)].seq

\* No number the venue has not used is ever served.
Upper(end) ==
    LET last == store.sender - 1
    IN  IF end = 0 \/ end > last THEN last ELSE end

\* Mutant: one gap fill answers the rest of the range.
FillAll(cursor, upper) == upper + 1

\* A gap is filled up to the next stored frame.
GapEnd(cursor, upper) ==
    IF cursor # {} /\ PeekSeq(cursor) <= upper THEN PeekSeq(cursor) ELSE upper + 1

\* One turn of the loop over the range.
ServeTurn(s, upper) ==
    IF s.seq > upper THEN s
    ELSE IF s.cursor # {} /\ PeekSeq(s.cursor) = s.seq
    THEN [seq |-> s.seq + 1, cursor |-> s.cursor \ {Peek(s.cursor)},
          reply |-> Append(s.reply, [seq |-> s.seq, to |-> s.seq + 1,
                                     era |-> store.log[Peek(s.cursor)].era])]
    ELSE LET to == GapEnd(s.cursor, upper)
         IN  [s EXCEPT !.seq = to,
                       !.reply = Append(@, [seq |-> s.seq, to |-> to, era |-> None])]

ServeResend(begin, end) ==
    LET start == [seq |-> begin, cursor |-> OutboundRange(begin, end), reply |-> <<>>]
        after[i \in 0..(2 * LogLimit + 1)] ==
            IF i = 0 THEN start ELSE ServeTurn(after[i - 1], Upper(end))
    IN  after[2 * LogLimit + 1].reply
-----------------------------------------------------------------------------
Client(c) ==
    \/ Logon(c)
    \/ \E n \in Seq1 : GapFill(c, n) \/ SequenceReset(c, n)
    \/ Gap(c) \/ Duplicate(c) \/ Malformed(c) \/ DropRevoked(c)
    \/ Quiet(c) \/ Answered(c) \/ Read(c) \/ Logout(c)
    \/ \E k \in Order : RouteOrder(c, k) \/ RefuseOrder(c, k)
    \/ Abandon(c)

Session(c) ==
    \/ StoreStep(c) \/ Seal(c) \/ CloseStep(c)
    \/ Accept(c) \/ Verified(c) \/ Admits(c) \/ Disconnect(c) \/ Timeout(c)
    \/ \E beat \in BOOLEAN : Tick(c, beat)

Next ==
    \/ \E c \in Conn : Client(c) \/ Session(c)
    \/ \E m \in mail : Commit(m) \/ SubmitFails(m)
    \/ TimePasses \/ Revoke \/ Crash

\* What the connection's task does next in whatever it has begun: never two at once.
Progress(c) ==
    StoreStep(c) \/ Seal(c) \/ CloseStep(c) \/ Verified(c) \/ Admits(c) \/ Timeout(c)

\* Handlers run to their end, verifies and waits end, ticks come, the clock runs. The
\* heartbeats are not needed: only the deadlines of a tick are.
Fairness ==
    /\ \A c \in Conn : WF_vars(Progress(c)) /\ WF_vars(Tick(c, FALSE))
    /\ WF_vars(TimePasses)

Spec == Init /\ [][Next]_vars /\ Fairness
-----------------------------------------------------------------------------
TypeOK ==
    /\ store.sender \in Seq1 /\ store.target \in Seq1
    /\ store.log \in Seq([era : 1..(MaxResets + 1), seq : Seq1]) /\ Len(store.log) <= LogLimit
    /\ store.era \in 1..(MaxResets + 1) /\ store.resets \in 0..MaxResets
    /\ lease \in Conn \cup {None}
    /\ \A c \in Conn :
         /\ conn[c].phase \in Phases /\ conn[c].probe \in Probes
         /\ conn[c].sender \in Seq1 /\ conn[c].target \in Seq1
         /\ conn[c].todo \in Seq(Ops) /\ conn[c].waits \in Order \cup {None}
         /\ {conn[c].epoch, conn[c].quietIn, conn[c].gone}
              \subseteq BOOLEAN
    /\ mail \subseteq Order \X (Conn \cup {None})
    /\ journaled \subseteq Order /\ refused \subseteq Order
    /\ claimed \in [Seq1 -> Order \cup {None}] /\ revoked \in BOOLEAN

\* No outbound MsgSeqNum names two frames between two logon resets, whatever fails
\* or dies between a store operation and the next: the numbers of an era are stored
\* in order and the next session starts after the last of them.
NumbersNotReused ==
    /\ \A i, j \in DOMAIN store.log :
         i < j /\ store.log[i].era = store.log[j].era => store.log[i].seq < store.log[j].seq
    /\ \A i \in DOMAIN store.log :
         store.log[i].era = store.era => store.log[i].seq < store.sender

\* The session that holds the key numbers from the durable counter between two
\* handlers, and nobody else is admitted: the lease keeps two logons of one key from
\* numbering side by side.
LiveCountersInStep ==
    \A c \in Conn : Admitted(c) =>
        /\ lease = c
        /\ conn[c].todo = <<>> => /\ conn[c].sender = store.sender
                                 /\ conn[c].target >= store.target

\* An order whose number is durably consumed was not dropped: its outcome is journaled
\* or a reject for it is stored. A client that resends from the durable number
\* therefore loses no order, at whatever point the process died.
ConsumedIsAnswered ==
    \A n \in Seq1 : claimed[n] # None /\ n < store.target =>
                     claimed[n] \in journaled \cup refused

\* Whatever range the client asks for, as long as no logon has reset the numbers: the
\* reply walks it without a hole, replays every stored frame and fills only what was
\* evicted from the bounded log.
ResendIsComplete ==
    store.era = 1 =>
      \A begin \in Seq1, end \in 0..MaxSeq :
        LET reply == ServeResend(begin, end)
            upper == Upper(end)
            stored == {store.log[i].seq : i \in DOMAIN store.log}
        IN  IF begin > upper THEN reply = <<>>
            ELSE /\ reply # <<>> /\ reply[1].seq = begin /\ Last(reply).to = upper + 1
                 /\ \A i \in 1..(Len(reply) - 1) : reply[i + 1].seq = reply[i].to
                 /\ \A i \in DOMAIN reply :
                      reply[i].era = None => stored \cap (reply[i].seq..(reply[i].to - 1)) = {}

\* The durable inbound expectation moves back only with an entry in the audit trail
\* (ResetSeqNumFlag, SequenceReset): no reconnect, gap fill or late save replays
\* messages that were consumed.
TargetMovesBackAudited ==
    [][store'.target < store.target => store'.resets > store.resets]_vars

\* A connection whose peer fell silent is closed and its key is free again, from every
\* phase: the peer can always log on anew.
SilentPeerReleased ==
    \A c \in Conn : conn[c].gone ~> (conn[c].phase = "Closed" /\ lease # c)

\* A revocation ends every session for good, a logon that was half way through when it
\* happened included.
RevokedIsDropped == revoked ~> [](\A c \in Conn : ~ Admitted(c))

\* The two sequence counters: their types, no outbound number used for two messages, and the
\* counters of a live session equal to the stored ones.
SequenceNumbersSound == TypeOK /\ NumbersNotReused /\ LiveCountersInStep

\* A connection ends when it must: a silent peer's and a revoked account's are released.
SessionsEnd == SilentPeerReleased /\ RevokedIsDropped
=============================================================================
