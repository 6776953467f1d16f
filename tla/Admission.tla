----------------------------- MODULE Admission -----------------------------
(***************************************************************************)
(* The admission gate of the venue and the sockets it lets in: bearer      *)
(* tokens and their revocation, single-use WebSocket tickets, the sliding  *)
(* window rate limiter, the connection slots and the heartbeat that takes  *)
(* a long-lived session away.                                              *)
(*                                                                         *)
(* Each client has one request or socket at a time; requests run on        *)
(* several threads, so whatever is not under one lock is a step of its own.*)
(* One clock stands for the venue clock (the limiter) and the wall clock   *)
(* (the credentials); no property relates the two.                         *)
(***************************************************************************)
EXTENDS Integers, FiniteSets

CONSTANTS
  Client,     \* concurrent callers
  Account,    \* the provisioned accounts
  Admins,     \* the accounts that hold Admin; the others hold Read
  Ticket,     \* ticket values, drawn fresh (bound)
  Limits,     \* RateLimitBudgets: the budget of tier "Admin" and of tier "Read"
  Window,     \* RATE_LIMIT_WINDOW_MS
  MaxKeys, MaxTickets, MaxConnections,
  TokenTTL, TicketTTL, Leeway,
  MaxIdleTicks,
  MaxTime,    \* bound: the last instant of the clock
  None,       \* no claims, no ticket, no holder
  Peer        \* the key of a caller without an account

ASSUME AdmissionAssumption ==
  /\ Admins \subseteq Account
  /\ Limits \in [{"Admin", "Read"} -> Nat]
  /\ {Window, MaxKeys, MaxTickets, MaxConnections, TokenTTL, TicketTTL, MaxIdleTicks}
       \subseteq Nat \ {0}
  /\ Leeway \in Nat /\ MaxTime \in Nat
  /\ None \notin Client \cup Ticket \cup [account : Account, epoch : {0}, exp : Nat]

VARIABLES
  now,      \* the clock
  epoch,    \* AccountRegistry: the revocation epoch per account
  tokens,   \* the claims of the bearer tokens in the clients' hands
  tickets,  \* WsTicketStore: claims and expiry of the outstanding tickets
  drawn,    \* the ticket values already drawn
  windows,  \* RateLimiter: the stamps of each tracked key
  gate,     \* the holder of new_key_gate
  slots,    \* connection slots taken
  task,     \* per client: its request or its socket
  gone,     \* clients whose peer vanished without a close
  spent,    \* history: tickets that admitted a handshake
  admitted, \* history: per key, the instants of its admissions in the window
  blurred   \* history: a bucket was decided or swept with a stale clock read

limiter == <<windows, gate, admitted, blurred>>
creds   == <<epoch, tokens>>
store   == <<tickets, drawn, spent>>
vars    == <<now, creds, store, limiter, slots, task, gone>>

Keys == {Peer} \cup (Account \X {0})

Idle == [pc |-> "idle", goal |-> "none", claims |-> None, ticket |-> None,
         late |-> FALSE, old |-> FALSE, idle |-> 0]

Empty == [k \in {} |-> {}]

Init ==
  /\ now = 0
  /\ epoch = [a \in Account |-> 0]
  /\ tokens = {}
  /\ tickets = Empty /\ drawn = {} /\ spent = {}
  /\ windows = Empty /\ gate = None
  /\ slots = 0
  /\ task = [c \in Client |-> Idle]
  /\ gone = {}
  /\ admitted = [k \in Keys |-> {}] /\ blurred = FALSE

Becomes(c, t) == task' = [task EXCEPT ![c] = t]
Goto(c, pc)   == task' = [task EXCEPT ![c].pc = pc]

(***************************************************************************)
(* The rate limiter                                                        *)
(***************************************************************************)

(* a bucket per account and epoch, so that a revoked token drains its own *)
Key(c) == IF task[c].claims = None THEN Peer ELSE <<task[c].claims.account, task[c].claims.epoch>>

(* tier and budget of a key; a peer has the Read budget *)
LimitOf(k) == IF k # Peer /\ k[1] \in Admins THEN Limits["Admin"] ELSE Limits["Read"]

(* A bucket is a set of stamps: its order is never looked at. A stamp is   *)
(* an instant and a number that tells stamps of one instant apart.         *)
Stamped(stamps, at) ==
  stamps \cup {<<at, CHOOSE n \in 0..Cardinality(stamps) : <<at, n>> \notin stamps>>}

(* decide keeps a stamp of the future; sweep_expired does not *)
Live(stamps, at)  == {s \in stamps : at - s[1] < Window}
Fresh(stamps, at) == {s \in stamps : s[1] <= at /\ at - s[1] < Window}

Put(f, k, v) == [x \in DOMAIN f \cup {k} |-> IF x = k THEN v ELSE f[x]]

(* The end of a check: an allowed request goes on, unless it has no        *)
(* credential; a control frame returns to the loop of its socket.          *)
BackToLoop(c) == task' = [task EXCEPT ![c].pc = "open", ![c].goal = "ws"]
Refused(c) == IF task[c].goal = "control" THEN BackToLoop(c) ELSE Becomes(c, Idle)

(* history: was the clock read stale, and which keys were let through *)
Note(stale, let) ==
  /\ blurred' = (blurred \/ stale)
  /\ admitted' = [k \in Keys |->
       IF blurred' THEN {} ELSE IF k \in let THEN Stamped(admitted[k], now) ELSE admitted[k]]

(* Prune, then record and allow, or deny without a record. The instant was *)
(* read when the check began, before the lock.                             *)
Decide(c, stamps) ==
  \E at \in {now - 1, now} \cap Nat :
  LET k == Key(c)
      kept == Live(stamps, at)
      allowed == Cardinality(kept) < LimitOf(k)
  IN  /\ windows' = Put(windows, k, IF allowed THEN Stamped(kept, at) ELSE kept)
      /\ Note(at < now, IF allowed THEN {k} ELSE {})
      /\ IF allowed /\ task[c].goal \notin {"control", "bad"} THEN Goto(c, "allowed") ELSE Refused(c)

(* An existing key is decided under its shard lock, found at once or when  *)
(* the table is read again under the gate.                                 *)
FastPath(c) ==
  /\ task[c].pc = "check"
  /\ Key(c) \in DOMAIN windows
  /\ Decide(c, windows[Key(c)])
  /\ UNCHANGED <<now, creds, store, gate, slots, gone>>

Swept(at) ==
  LET kept == {k \in DOMAIN windows : Fresh(windows[k], at) # {}}
  IN  [k \in kept |-> Fresh(windows[k], at)]

NoGate == TRUE

GateFree == gate = None

(* A new key, under new_key_gate: a full table is swept, and the request   *)
(* denied if it stays full. The gate is kept until the insert.             *)
NewKey(c) ==
  /\ task[c].pc = "check" /\ GateFree
  /\ Key(c) \notin DOMAIN windows
  /\ LET room == IF Cardinality(DOMAIN windows) >= MaxKeys THEN Swept(now) ELSE windows
     IN  /\ windows' = room
         /\ IF Cardinality(DOMAIN room) >= MaxKeys
            THEN Refused(c) /\ UNCHANGED gate
            ELSE Goto(c, "insert") /\ gate' = c
  /\ UNCHANGED <<now, creds, store, admitted, blurred, slots, gone>>

Insert(c) ==
  /\ task[c].pc = "insert"
  /\ gate' = None
  /\ Decide(c, IF Key(c) \in DOMAIN windows THEN windows[Key(c)] ELSE {})
  /\ UNCHANGED <<now, creds, store, slots, gone>>

(* The reclaim task reads the clock once, then prunes every bucket; the    *)
(* clock may move on in between.                                           *)
SweepExpired ==
  /\ \E at \in {now - 1, now} \cap Nat :
       /\ windows' = Swept(at)
       /\ Note(at < now, {})
  /\ UNCHANGED <<now, creds, store, gate, slots, task, gone>>

(***************************************************************************)
(* Requests                                                                *)
(***************************************************************************)

(* A credential that does not resolve is charged to the peer and gets 401. *)
Begin(c, goal, claims, ticket) ==
  Becomes(c, IF claims = None
             THEN [Idle EXCEPT !.pc = "check", !.goal = goal]
             ELSE [Idle EXCEPT !.pc = "check", !.goal = goal, !.claims = claims, !.ticket = ticket,
                     !.late = ticket # None /\ claims.exp <= now,
                     !.old = claims.epoch < epoch[claims.account]])

Verifies(claims) == now <= claims.exp + Leeway

(* auth_middleware, a handshake with a bearer, and POST /auth/token, which *)
(* has no token to show.                                                   *)
Request(c) ==
  /\ task[c].pc = "idle"
  /\ \/ Begin(c, "token", None, None)
     \/ \E goal \in {"mint", "ws"}, t \in tokens :
          IF Verifies(t) THEN Begin(c, goal, t, None) ELSE Begin(c, "bad", None, None)
  /\ UNCHANGED <<now, creds, store, limiter, slots, gone>>

Reusable(t) == tickets

Removed(t) == [u \in DOMAIN tickets \ {t} |-> tickets[u]]

(* admit_ws_ticket redeems first: the ticket is gone even when it is late. *)
Redeem(c, t) ==
  /\ task[c].pc = "idle"
  /\ IF t \in DOMAIN tickets
     THEN /\ tickets' = Removed(t)
          /\ IF tickets[t].expires > now
             THEN Begin(c, "ws", tickets[t].claims, t) ELSE Begin(c, "bad", None, None)
     ELSE Begin(c, "bad", None, None) /\ UNCHANGED tickets
  /\ UNCHANGED <<now, creds, drawn, spent, limiter, slots, gone>>

(* The epoch is read now; the expiry is compared with the instant read at  *)
(* the start, and for a ticket only: a bearer's was checked with a leeway. *)
Current(c) ==
  /\ task[c].claims.epoch >= epoch[task[c].claims.account]
  /\ ~task[c].late

(* ws_handler: a slot before the upgrade, or a 503 *)
AcquireSlot(c) ==
  IF slots < MaxConnections
  THEN slots' = slots + 1 /\ Goto(c, "open")
  ELSE Becomes(c, Idle) /\ UNCHANGED slots

(* WsTicketStore::mint, under its gate: sweep, then the cap, then insert *)
MintTicket(c) ==
  /\ LET live == {t \in DOMAIN tickets : tickets[t].expires > now}
         kept == [t \in live |-> tickets[t]]
     IN  IF Cardinality(live) >= MaxTickets \/ Ticket \subseteq drawn
         THEN tickets' = kept /\ UNCHANGED drawn
         ELSE \E t \in Ticket \ drawn :
                /\ tickets' = Put(kept, t, [claims |-> task[c].claims, expires |-> now + TicketTTL])
                /\ drawn' = drawn \cup {t}
  /\ Becomes(c, Idle)

(* What follows an allowed request: 401, or on to the handler. *)
Authorize(c) ==
  /\ task[c].pc = "allowed" /\ task[c].goal # "token"
  /\ CASE ~Current(c) ->
            Becomes(c, Idle) /\ UNCHANGED <<slots, store>>
       [] Current(c) /\ task[c].goal = "mint" ->
            MintTicket(c) /\ UNCHANGED <<slots, spent>>
       [] Current(c) /\ task[c].goal = "ws" ->
            /\ AcquireSlot(c)
            /\ spent' = IF task[c].ticket # None THEN spent \cup {task[c].ticket} ELSE spent
            /\ UNCHANGED <<tickets, drawn>>
  /\ UNCHANGED <<now, creds, limiter, gone>>

(* mint_for_account: a wrong secret or a revoked account gets nothing. *)
IssueToken(c) ==
  /\ task[c].pc = "allowed" /\ task[c].goal = "token"
  /\ \/ UNCHANGED tokens
     \/ \E a \in Account :
          /\ epoch[a] = 0
          /\ \A t \in tokens : t.account # a   \* bound: one token an account
          /\ tokens' = tokens \cup {[account |-> a, epoch |-> epoch[a], exp |-> now + TokenTTL]}
  /\ Becomes(c, Idle)
  /\ UNCHANGED <<now, epoch, store, limiter, slots, gone>>

(***************************************************************************)
(* The handshake and the socket loop                                       *)
(***************************************************************************)

(* open: in select!, or in a send that its peer takes in time; stuck: in a *)
(* send to a peer that is there and reads no more, which is awaited        *)
(* without a limit of time                                                 *)
OnSocket(c) == task[c].pc \in {"open", "stuck"}

DropPermit == slots - 1

(* The task ends: the permit and the subscriptions are dropped with it. *)
EndSocket(c) ==
  /\ slots' = DropPermit
  /\ Becomes(c, Idle)
  /\ gone' = gone \ {c}

(* The upgrade or a send fails, or the peer closes. *)
Close(c) ==
  /\ OnSocket(c) /\ c \notin gone
  /\ EndSocket(c)
  /\ UNCHANGED <<now, creds, store, limiter>>

GetsStuck(c) == c \notin gone /\ Goto(c, "stuck") /\ UNCHANGED <<slots, gone>>

(* The welcome, an answer, a broadcast, a heartbeat or a ping is not read. *)
SendStalls(c) ==
  /\ task[c].pc = "open" /\ GetsStuck(c)
  /\ UNCHANGED <<now, creds, store, limiter>>

(* The transport gives up a send to a peer that is not there. *)
SendFails(c) ==
  /\ task[c].pc = "stuck" /\ c \in gone
  /\ EndSocket(c)
  /\ UNCHANGED <<now, creds, store, limiter>>

(* Any inbound frame, a pong included, is liveness. *)
Frame(c) ==
  /\ task[c].pc = "open" /\ c \notin gone /\ task[c].idle > 0
  /\ task' = [task EXCEPT ![c].idle = 0]
  /\ UNCHANGED <<now, creds, store, limiter, slots, gone>>

(* A control frame passes the limiter and needs Admin; the claims are the  *)
(* ones of the handshake.                                                  *)
ControlFrame(c) ==
  /\ task[c].pc = "open" /\ c \notin gone
  /\ task' = [task EXCEPT ![c].pc = "check", ![c].goal = "control", ![c].idle = 0]
  /\ UNCHANGED <<now, creds, store, limiter, slots, gone>>

(* revalidate_session: no leeway here *)
StillValid(c) ==
  /\ now < task[c].claims.exp
  /\ task[c].claims.epoch >= epoch[task[c].claims.account]

AdmittedOnce(c) == TRUE

Revalidates(c) == StillValid(c)

IdleTooLong(c) == task[c].idle + 1 >= MaxIdleTicks

(* A terminal error is sent before the loop ends; a silent peer is told    *)
(* nothing.                                                                *)
Heartbeat(c) ==
  /\ task[c].pc = "open"
  /\ \/ ~Revalidates(c) /\ (EndSocket(c) \/ GetsStuck(c))
     \/ Revalidates(c) /\ IdleTooLong(c) /\ EndSocket(c)
     \/ /\ Revalidates(c) /\ ~IdleTooLong(c)
        /\ task' = [task EXCEPT ![c].idle = @ + 1]
        /\ UNCHANGED <<slots, gone>>
  /\ UNCHANGED <<now, creds, store, limiter>>

(***************************************************************************)
(* The environment                                                         *)
(***************************************************************************)

Revoke(a) ==
  /\ epoch[a] = 0
  /\ epoch' = [epoch EXCEPT ![a] = @ + 1]
  /\ UNCHANGED <<now, tokens, store, limiter, slots, task, gone>>

(* The peer disappears; nothing more comes from it. *)
Vanish(c) ==
  /\ OnSocket(c) /\ c \notin gone
  /\ gone' = gone \cup {c}
  /\ UNCHANGED <<now, creds, store, limiter, slots, task>>

Tick ==
  /\ now < MaxTime
  /\ now' = now + 1
  /\ admitted' = [k \in Keys |-> Live(admitted[k], now + 1)]
  /\ UNCHANGED <<creds, store, windows, gate, blurred, slots, task, gone>>

CheckAndRecordStatus(c) == FastPath(c) \/ NewKey(c) \/ Insert(c)
Handle(c) == Authorize(c) \/ IssueToken(c)
Peers(c)  == Request(c) \/ (\E t \in Ticket : Redeem(c, t)) \/ Close(c) \/ Frame(c)
             \/ ControlFrame(c) \/ Vanish(c)
Loop(c)   == Heartbeat(c) \/ SendStalls(c) \/ SendFails(c)

Next ==
  \/ \E c \in Client : CheckAndRecordStatus(c) \/ Handle(c) \/ Peers(c) \/ Loop(c)
  \/ \E a \in Account : Revoke(a)
  \/ SweepExpired \/ Tick

(* The runtime polls every ready task and the mutex of the limiter is      *)
(* handed on; the interval of the heartbeat is one of the branches select! *)
(* picks at random: it cannot be passed over by a loop that comes back to  *)
(* select! again and again. A transport gives up on a peer that is gone;   *)
(* nothing makes one that is there read.                                   *)
Fairness ==
  \A c \in Client :
    /\ SF_vars(CheckAndRecordStatus(c) \/ Handle(c))
    /\ SF_vars(Heartbeat(c))
    /\ WF_vars(SendFails(c))

Spec == Init /\ [][Next]_vars /\ Fairness
-----------------------------------------------------------------------------
(***************************************************************************)
(* Properties                                                              *)
(***************************************************************************)

HoldsSlot(c) == OnSocket(c) \/ task[c].goal = "control"

TypeOK ==
  /\ now \in 0..MaxTime
  /\ tokens \subseteq [account : Account, epoch : {0}, exp : 0..MaxTime + TokenTTL]
  /\ DOMAIN tickets \subseteq drawn /\ drawn \subseteq Ticket
  /\ DOMAIN windows \subseteq Keys
  /\ gate \in Client \cup {None}
  /\ \A c \in Client : task[c].idle < MaxIdleTicks /\ Key(c) \in Keys
  /\ gone \subseteq {c \in Client : HoldsSlot(c)}

(* The tables stay within their ceilings although their length is read     *)
(* before the insert, by requests of new keys that run at the same time.   *)
KeySpaceBounded ==
  /\ Cardinality(DOMAIN windows) <= MaxKeys
  /\ Cardinality(DOMAIN tickets) <= MaxTickets

(* No window holds more admissions than the budget of its key, whatever    *)
(* the sweeper and a full table threw away in between; unless a thread     *)
(* decided or swept with a clock read that had gone stale.                 *)
BudgetHolds ==
  ~blurred => \A k \in Keys : Cardinality(admitted[k]) <= LimitOf(k)

(* The slots in use are the sockets: no path out of a handshake or of the  *)
(* loop keeps its permit, and none gives one back twice.                   *)
SlotsAreSockets ==
  /\ slots = Cardinality({c \in Client : HoldsSlot(c)})
  /\ slots <= MaxConnections

(* A ticket opens one handshake, however many present it.                  *)
TicketAdmitsOnce ==
  /\ \A c \in Client : task[c].ticket # None /\ OnSocket(c)
       => task[c].ticket \in spent
  /\ spent \cap DOMAIN tickets = {}
  /\ \A c, d \in Client : c # d /\ task[c].ticket = task[d].ticket /\ task[c].ticket # None
       => task[c].claims = None \/ task[d].claims = None

(* No request that began after a revocation gets past the gate, by a token *)
(* or by a ticket that are older than it, nor does a ticket outlive the    *)
(* token it was minted from. A bearer is let in up to the leeway after its *)
(* expiry; only the heartbeat of its socket then reads the expiry itself.  *)
RevokedIsRefused ==
  \A c \in Client :
    OnSocket(c) => ~task[c].old /\ ~task[c].late

(* A session does not outlive its revocation or its token, whatever it     *)
(* goes on sending, nor a peer that vanished without a close: its slot     *)
(* comes back, unless its peer stays and reads no more. The loop awaits    *)
(* its sends, the terminal error included, without a limit of time: such a *)
(* peer keeps its slot, revoked or not, until it closes or vanishes.       *)
DeadSessionEnds ==
  \A c \in Client :
    (HoldsSlot(c) /\ (c \in gone \/ ~StillValid(c)))
      ~> (~HoldsSlot(c) \/ (task[c].pc = "stuck" /\ c \notin gone))

(* Every bound of admission holds: the key space, the budget of each key   *)
(* and the slots, which are exactly the sockets.                           *)
BoundsHold == TypeOK /\ KeySpaceBounded /\ BudgetHolds /\ SlotsAreSockets

(* No credential is worth more than it says: a ticket opens one handshake, *)
(* and nothing revoked, expired or older than a revocation gets in.        *)
CredentialsHold == TicketAdmitsOnce /\ RevokedIsRefused
=============================================================================
