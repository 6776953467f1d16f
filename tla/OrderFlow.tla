------------------------------ MODULE OrderFlow ------------------------------
(***************************************************************************)
(* Order entry over REST and FIX, from the gateway's look-up of a client   *)
(* order id to the answer it renders, around three memories that must      *)
(* agree: the idempotency map of each underlying's executor, the venue     *)
(* index (account, ClOrdID) -> order shared by the underlyings, and the    *)
(* tracking map of each FIX session (gateway/rest/orders.rs,               *)
(* gateway/fix/fsm.rs, gateway/fix/order_flow.rs,                          *)
(* exchange/clordid_index.rs).                                             *)
(*                                                                         *)
(* A request is resolved, submitted, executed and journaled by the actor   *)
(* of its underlying, published to the index, and rendered; every pair of  *)
(* these may have other requests, a lost client or the end of the process  *)
(* between them. Whether an order rests, trades or is refused is the       *)
(* executor's decision (MatchingExecutor) and is left open here.           *)
(***************************************************************************)
EXTENDS Integers, Sequences, FiniteSets, SequencesExt

CONSTANTS
    Underlying,      \* the underlyings, in the order recovery walks them
    Rest, Fix,       \* concurrent REST callers, FIX connections
    AccountOf,       \* [Rest \cup Fix -> Account]
    Key,             \* client order ids
    Qty,
    Batches,         \* bulk requests: sequences of items [u, key, qty]
    MaxEntries,      \* the index's venue-wide ceiling
    MaxPerAccount,   \* its per-account quota
    MaxTracked,      \* the ceiling of a FIX session's tracking map
    MaxOrders, MaxRestarts,   \* bounds of the model: ids of one process, boots,
    MaxSubmitted,             \* ids of all processes
    None

Client == Rest \cup Fix
Account == {AccountOf[c] : c \in Client}
OrderId == 1..MaxOrders
Book == Range(Underlying)

\* DEFAULT_MAX_CLORDID_INDEX_ENTRIES and DEFAULT_MAX_CLORDID_PER_ACCOUNT: the quota is
\* clamped to the ceiling.
ASSUME Ceilings == MaxEntries \in Nat \ {0} /\ MaxPerAccount \in 1..MaxEntries

ASSUME Parties == Rest \cap Fix = {} /\ MaxTracked \in Nat /\ MaxOrders \in Nat

\* recover_into walks each underlying once.
ASSUME Listing == Underlying \in Seq(Book) /\ IsInjective(Underlying)

IndexRecord == [u : Book, id : OrderId, qty : Qty, seq : Nat \ {0}]
Idempotent == [id : OrderId, qty : Qty, kind : {"limit", "market"}, seq : Nat,
               terminal : {"entered", "rejected"}]
Item == [u : Book, key : Key \cup {None}, qty : Qty]
ItemPlaced == [u : Book, id : OrderId, seq : Nat]
BatchState == [left : Seq(Item \cup {None}), ids : Seq(ItemPlaced), atomic : BOOLEAN,
               aborted : BOOLEAN, undo : Nat, warned : BOOLEAN]

ASSUME NoneIsNoValue == None \notin Key \cup Nat \cup IndexRecord \cup Idempotent \cup BatchState
ASSUME BulkRequests == Batches \subseteq Seq(Item \cup {None})

VARIABLES
    journal,   \* [Book -> Seq of the committed turns that opened or replaced an order]
    resting,   \* [Book -> the orders on the book: the sequences of the turns that placed them]
    named,     \* [Book -> those of them that venue_to_engine finds by their order id]
    idem,      \* [Book -> [Account \X Key -> first placement under the key, or None]]
    index,     \* [Account \X Key -> record or None]
    count,     \* [Account -> entries of the account in the index]
    lost,      \* the index has refused a record since it was last built
    sealed,    \* underlyings that failed after the write-ahead and wait for a restart
    placed,    \* [Fix -> [Key -> tracked order or None]]
    req,       \* [Client -> the request in progress]
    minted,    \* order ids handed out by this process
    restarts,
    earlier,   \* order ids handed out by earlier processes
    told,      \* placements answered "accepted" over REST, with what the turn made of them
    undone     \* orders of atomic batches answered as rolled back without a warning

flowVars == <<journal, resting, named, idem, index, count, lost, sealed, placed, req, minted,
              restarts, earlier, told, undone>>
boots == <<restarts, earlier>>
venue == <<journal, resting, named, idem, sealed>>
records == <<index, count, lost>>

Idle == [pc |-> "idle"]
NoTracking == [k \in Key |-> None]

EmptyIndex == [map |-> [ak \in Account \X Key |-> None], count |-> [a \in Account |-> 0],
               lost |-> FALSE]

FlowInit ==
    /\ journal = [u \in Book |-> <<>>]
    /\ resting = [u \in Book |-> {}] /\ named = [u \in Book |-> {}]
    /\ idem = [u \in Book |-> [ak \in Account \X Key |-> None]]
    /\ index = EmptyIndex.map /\ count = EmptyIndex.count /\ lost = EmptyIndex.lost
    /\ sealed = {}
    /\ placed = [f \in Fix |-> NoTracking]
    /\ req = [c \in Client |-> Idle]
    /\ minted = 0
    /\ restarts = 0 /\ earlier = 0
    /\ told = {}
    /\ undone = {}
-----------------------------------------------------------------------------
(* The index *)

Entries(map) == {ak \in DOMAIN map : map[ak] # None}

\* A new key the ceilings refuse; a known key is always taken.
Refused(ix, ak) ==
    /\ ix.map[ak] = None
    /\ \/ Cardinality(Entries(ix.map)) >= MaxEntries
       \/ ix.count[ak[1]] >= MaxPerAccount

\* record: upsert, or insert and count; at a ceiling the order stands uncorrelated.
Record(ix, ak, rec) ==
    IF Refused(ix, ak) THEN [ix EXCEPT !.lost = TRUE]
    ELSE [ix EXCEPT !.map[ak] = rec,
                    !.count[ak[1]] = IF ix.map[ak] = None THEN @ + 1 ELSE @]

\* retire: remove, and count down only what was there.
Retire(ix, ak) ==
    [ix EXCEPT !.map[ak] = None,
               !.count[ak[1]] = IF ix.map[ak] = None THEN @ ELSE @ - 1]

\* A bug: the original key goes last.
MoveLate(ix, old, ak, rec) == Retire(Record(ix, ak, rec), old)

\* A replacement: the original key goes first, it may be the new key as well.
Move(ix, old, ak, rec) == Record(Retire(ix, old), ak, rec)

\* Added or Market: the order entered the book, to rest there or to trade at once.
Entered(out) == out.is = "entered"

\* apply_committed_correlation: the index after a committed turn, live and at boot.
ApplyCommitted(ix, turn) ==
    LET m == turn.cmd
        ak == <<turn.account, m.key>>
        rec(id) == [u |-> m.u, id |-> id, qty |-> m.qty, seq |-> turn.seq]
    IN  CASE m.op = "add" /\ m.key # None /\ Entered(turn.out) -> Record(ix, ak, rec(m.id))
          [] m.op = "replace" /\ turn.out.is = "replaced" ->
                Move(ix, <<turn.account, m.orig>>, ak, rec(m.new))
          [] m.op = "replace" /\ turn.out.is = "cancelled only" ->
                Retire(ix, <<turn.account, m.orig>>)
          [] OTHER -> ix
-----------------------------------------------------------------------------
(* The sequenced turn of an underlying *)

Running(u) == \E c \in Client : req[c].pc = "ran" /\ req[c].cmd.u = u

\* The actor of u takes its next message: it is not sealed and not between the journal
\* and the index.
Takes(u) == u \notin sealed /\ ~Running(u)

\* The order a committed turn would put on the book.
Places(turn) == IF turn.cmd.op = "replace" THEN turn.cmd.new
                ELSE IF turn.cmd.op = "add" THEN turn.cmd.id ELSE None

\* The id of the order that turn s of u placed. The gateway's counter starts again with
\* every process: two orders of u may have the same id.
IdOf(u, s) == Places(journal[u][s])

\* The resting orders of account a on u; only their owner takes them off.
Owned(u, a) == {s \in resting[u] : journal[u][s].account = a}

\* remove_resting takes the id of each order in gone out of venue_to_engine, whichever
\* order it stood for.
NamedWithout(u, gone) == {s \in named[u] : \A g \in gone : IdOf(u, g) # IdOf(u, s)}

Is(what) == [is |-> what]

\* An outcome, the orders it takes off the book, and whether the new order rests.
Effect(out, gone, rests) == [out |-> out, gone |-> gone, rests |-> rests]

\* What the executor may make of command m of account a.
Outcomes(m, a) ==
    LET first == idem[m.u][<<a, m.key>>]
        target == {s \in named[m.u] : IdOf(m.u, s) = m.id /\ journal[m.u][s].account = a}
        mine == Owned(m.u, a)
    IN  CASE m.op = "add" ->
                IF m.key = None \/ first = None
                THEN {Effect(Is("entered"), {}, FALSE), Effect(Is("rejected"), {}, FALSE)}
                       \cup {Effect(Is("entered"), {}, TRUE) : k \in {m.kind} \cap {"limit"}}
                ELSE IF first.qty = m.qty /\ first.kind = m.kind
                THEN {Effect([is |-> "duplicate", id |-> first.id, seq |-> first.seq,
                              terminal |-> first.terminal], {}, FALSE)}
                ELSE {Effect(Is("rejected"), {}, FALSE)}
          [] m.op \in {"cancel", "replace"} /\ target = {} ->
                {Effect(Is("rejected"), {}, FALSE)}
          [] m.op = "cancel" /\ target # {} -> {Effect(Is("cancelled"), target, FALSE)}
          [] m.op = "replace" /\ target # {} ->
                {Effect(Is("replaced"), target, TRUE), Effect(Is("replaced"), target, FALSE),
                 Effect(Is("cancelled only"), target, FALSE)}
          [] m.op = "sweep" ->
                {Effect([is |-> "swept", ids |-> {IdOf(m.u, s) : s \in mine}], mine, FALSE)}

\* add_with_idempotency keeps the outcome of the first placement under a key, a refusal
\* included.
Remember(m, a, out) ==
    IF m.op = "add" /\ m.key # None /\ idem[m.u][<<a, m.key>>] = None
    THEN [idem EXCEPT ![m.u][<<a, m.key>>] =
              [id |-> m.id, qty |-> m.qty, kind |-> m.kind, seq |-> Len(journal[m.u]) + 1,
               terminal |-> out.is]]
    ELSE idem

\* The outcomes that open or end a correlation. The other turns have a sequence of their
\* own as well; it is left out, no record refers to it.
Binding(out) == out.is \in {"entered", "replaced", "cancelled only"}

TurnOf(c, out) ==
    [cmd |-> req[c].cmd, account |-> AccountOf[c], seq |-> Len(journal[req[c].cmd.u]) + 1,
     out |-> out]

\* The turn of client c's command: executed and journaled, not yet published. An order
\* that rests is registered: its id stands for it from now on.
Execute(c, e) ==
    LET m == req[c].cmd
        t == TurnOf(c, e.out)
        left == NamedWithout(m.u, e.gone)
        taken == {s \in left : IdOf(m.u, s) = Places(t)}
    IN  /\ journal' = IF Binding(e.out) THEN [journal EXCEPT ![m.u] = Append(@, t)] ELSE journal
        /\ resting' = [resting EXCEPT ![m.u] = (@ \ e.gone) \cup {s \in {t.seq} : e.rests}]
        /\ named' = [named EXCEPT ![m.u] = IF e.rests THEN (left \ taken) \cup {t.seq} ELSE left]
        /\ idem' = Remember(m, AccountOf[c], e.out)

Turn(c) ==
    /\ req[c].pc = "sent" /\ Takes(req[c].cmd.u)
    /\ \E e \in Outcomes(req[c].cmd, AccountOf[c]) :
          /\ Execute(c, e)
          /\ req' = [req EXCEPT ![c].pc = "ran", ![c].turn = TurnOf(c, e.out)]
    /\ UNCHANGED <<records, sealed, placed, minted, boots, told, undone>>

\* A resting order trades with somebody else's order.
Trade(u, s) ==
    /\ u \notin sealed /\ ~Running(u) /\ s \in resting[u]
    /\ resting' = [resting EXCEPT ![u] = @ \ {s}]
    /\ named' = [named EXCEPT ![u] = NamedWithout(u, {s})]
    /\ UNCHANGED <<journal, idem, sealed, records, placed, req, minted, boots, told, undone>>
-----------------------------------------------------------------------------
(* Requests *)

Quiet(c) == req[c].pc = "idle"

NoTurn == [out |-> [is |-> "none"]]

\* submit_with_ingress: the command is on its way. A batch rides along with its items.
Submit(c, m, batch) ==
    req' = [req EXCEPT ![c] = [pc |-> "sent", cmd |-> m, turn |-> NoTurn, batch |-> batch]]

\* mint_order_id: the next id of this process for every submission.
Mint == /\ minted < MaxOrders /\ earlier + minted < MaxSubmitted
        /\ minted' = minted + 1
Fresh == minted + 1

AddOrder(u, key, qty, kind) ==
    [op |-> "add", u |-> u, key |-> key, qty |-> qty, kind |-> kind, id |-> Fresh,
     new |-> None, orig |-> None]
ReplaceOrder(u, id, orig, key, qty) ==
    [op |-> "replace", u |-> u, key |-> key, qty |-> qty, kind |-> "limit", id |-> id,
     new |-> Fresh, orig |-> orig]
CancelOrder(u, id, orig) ==
    [op |-> "cancel", u |-> u, key |-> None, id |-> id, new |-> None, orig |-> orig]
MassCancel(u) ==
    [op |-> "sweep", u |-> u, key |-> None, id |-> None, new |-> None, orig |-> None]

Accepted(c, m, id, seq, out) ==
    [account |-> AccountOf[c], key |-> m.key, u |-> m.u, id |-> id, seq |-> seq, out |-> out]

Heard(c, m, id, seq, out) ==
    IF m.key = None THEN told ELSE told \cup {Accepted(c, m, id, seq, out)}

\* The index answers a retry only when it names the same contract, side and quantity.
IsReplay(c, m) ==
    LET known == index[<<AccountOf[c], m.key>>] IN
    m.key # None /\ known # None /\ known.u = m.u /\ known.qty = m.qty

\* A placement over REST: a retry the index knows is answered at once.
PlaceRest(c, m) ==
    /\ Quiet(c)
    /\ IF IsReplay(c, m)
       THEN LET known == index[<<AccountOf[c], m.key>>] IN
            told' = Heard(c, m, known.id, known.seq, "entered") /\ UNCHANGED <<req, minted>>
       ELSE Mint /\ Submit(c, m, None) /\ UNCHANGED told
    /\ UNCHANGED <<venue, records, placed, boots, undone>>

PlaceLimitOrder(c, u, key, qty) == PlaceRest(c, AddOrder(u, key, qty, "limit"))

\* The non-resting primitive, with the same look-up.
PlaceMarketOrder(c, u, key, qty) == PlaceRest(c, AddOrder(u, key, qty, "market"))

\* cancel_order by venue id, and cancel_all_orders of one underlying. A cancel of an id that
\* no order of u has ever had is refused, changes nothing and is left out.
CancelRest(c, u) ==
    /\ Quiet(c)
    /\ \/ \E i \in 1..Len(journal[u]) : Submit(c, CancelOrder(u, IdOf(u, i), None), None)
       \/ Owned(u, AccountOf[c]) # {} /\ Submit(c, MassCancel(u), None)
    /\ UNCHANGED <<venue, records, placed, minted, boots, told, undone>>

\* A bug: the answer names the id that was minted for the retry.
OwnIdentity(m, turn) == [id |-> m.id, seq |-> turn.seq]

\* rendered_identity: a duplicate is answered as the placement it repeats.
RenderedIdentity(m, turn) ==
    IF turn.out.is = "duplicate" THEN [id |-> turn.out.id, seq |-> turn.out.seq]
    ELSE [id |-> m.id, seq |-> turn.seq]

Terminal(out) == IF out.is = "duplicate" THEN out.terminal ELSE out.is

\* The answer to a single request over REST.
RenderRest(c) ==
    LET m == req[c].cmd
        turn == req[c].turn
        as == RenderedIdentity(m, turn)
    IN  /\ told' = IF m.op = "add" /\ Terminal(turn.out) # "rejected"
                   THEN Heard(c, m, as.id, as.seq, "entered") ELSE told
        /\ req' = [req EXCEPT ![c] = Idle]
        /\ UNCHANGED placed
-----------------------------------------------------------------------------
(* FIX order entry *)

Tracked(f) == {k \in Key : placed[f][k] # None}

\* track_placed: the session's map is bounded; a known key is overwritten.
Track(f, map, key, order) ==
    IF map[key] = None /\ Cardinality(Tracked(f)) >= MaxTracked THEN map
    ELSE [map EXCEPT ![key] = order]

\* resolve_order: the session's own map first, then the account's entry in the index.
Resolve(f, key) ==
    IF placed[f][key] # None THEN placed[f][key] ELSE index[<<AccountOf[f], key>>]

\* The order of u that a cancel or a replace under key means. An order id carries its
\* underlying: a message that names another contract is refused and is left out.
Targets(f, u, key) == Resolve(f, key) # None /\ Resolve(f, key).u = u

\* route_new_order: a key the session tracks is answered without a submission, as the same
\* order or as a conflict; every other key is placed under a fresh id.
PlaceFix(f, u, key, qty, kind) ==
    /\ Quiet(f) /\ placed[f][key] = None
    /\ Mint /\ Submit(f, AddOrder(u, key, qty, kind), None)
    /\ UNCHANGED <<venue, records, placed, boots, told, undone>>

\* route_cancel and route_mass_cancel.
CancelFix(f, u) ==
    /\ Quiet(f)
    /\ \/ \E k \in Key : /\ Targets(f, u, k)
                          /\ Submit(f, CancelOrder(u, Resolve(f, k).id, k), None)
       \/ Owned(u, AccountOf[f]) # {} /\ Submit(f, MassCancel(u), None)
    /\ UNCHANGED <<venue, records, placed, minted, boots, told, undone>>

\* route_replace: the target is resolved before the submission, the replacement gets a
\* fresh id and the key of the message, which the idempotency map never sees.
ReplaceFix(f, u, orig, key, qty) ==
    /\ Quiet(f) /\ Targets(f, u, orig) /\ Mint
    /\ Submit(f, ReplaceOrder(u, Resolve(f, orig).id, orig, key, qty), None)
    /\ UNCHANGED <<venue, records, placed, boots, told, undone>>

\* The tracking map after the answer: what was refused is not tracked, what left the book
\* is forgotten. A duplicate counts as an acceptance of the id minted for it.
TrackedAfter(f, m, out) ==
    LET map == placed[f]
        order(id) == [u |-> m.u, id |-> id, qty |-> m.qty]
        without(k) == [map EXCEPT ![k] = None]
    IN  CASE m.op = "add" /\ out.is # "rejected" -> Track(f, map, m.key, order(m.id))
          [] m.op = "cancel" /\ out.is = "cancelled" -> without(m.orig)
          [] m.op = "replace" /\ out.is = "replaced" ->
                Track(f, without(m.orig), m.key, order(m.new))
          [] m.op = "replace" /\ out.is = "cancelled only" -> without(m.orig)
          [] m.op = "sweep" ->
                [k \in Key |-> IF map[k] # None /\ map[k].u = m.u /\ map[k].id \in out.ids
                               THEN None ELSE map[k]]
          [] OTHER -> map

RenderFix(f) ==
    /\ placed' = [placed EXCEPT ![f] = TrackedAfter(f, req[f].cmd, req[f].turn.out)]
    /\ req' = [req EXCEPT ![f] = Idle]
    /\ UNCHANGED told
-----------------------------------------------------------------------------
(* Bulk placement *)

\* A batch in progress: the items left, the ids placed and still to be cancelled, whether
\* an item failed, whether a cancel failed.
Batch(items, atomic) ==
    [left |-> items, ids |-> <<>>, atomic |-> atomic, aborted |-> FALSE, undo |-> 0,
     warned |-> FALSE]

BulkStart(c, items, atomic) ==
    /\ Quiet(c)
    /\ req' = [req EXCEPT ![c] = [pc |-> "batch", batch |-> Batch(items, atomic)]]
    /\ UNCHANGED <<venue, records, placed, minted, boots, told, undone>>

\* The loop of bulk_place_orders: the next item is submitted; an invalid one is refused,
\* which ends an atomic batch.
BulkNext(c) ==
    LET b == req[c].batch
        item == Head(b.left)
        rest == [b EXCEPT !.left = Tail(@)]
    IN  /\ req[c].pc = "batch" /\ ~b.aborted /\ b.left # <<>>
        /\ IF item = None
           THEN /\ req' = [req EXCEPT ![c].batch = [rest EXCEPT !.aborted = b.atomic]]
                /\ UNCHANGED minted
           ELSE Mint /\ Submit(c, AddOrder(item.u, item.key, item.qty, "limit"), rest)
        /\ UNCHANGED <<venue, records, placed, boots, told, undone>>

Back(c, batch) == req' = [req EXCEPT ![c] = [pc |-> "batch", batch |-> batch]]

\* A receipt counts as a placed order whatever its outcome is, and is answered as accepted
\* under the id minted for the item, a duplicate and a refusal too.
BulkReceipt(c) ==
    LET b == req[c].batch
        m == req[c].cmd
        turn == req[c].turn
        item == [u |-> m.u, id |-> m.id, seq |-> IF Entered(turn.out) THEN turn.seq ELSE 0]
    IN  /\ IF m.op = "add"
           THEN /\ Back(c, [b EXCEPT !.ids = Append(@, item)])
                /\ told' = Heard(c, m, m.id, turn.seq, turn.out.is)
           ELSE Back(c, b) /\ UNCHANGED told
        /\ UNCHANGED placed

\* The session's connection is gone, and its tracking map with it.
Disconnected(c) == IF c \in Fix THEN [placed EXCEPT ![c] = NoTracking] ELSE placed

\* The index follows the journal, before the reply; the handler that waits for the reply
\* renders it. Nobody else sees what the rendering changes, so the two are one step. A
\* client may have gone since it sent the command: nobody is told, a batch stops there.
Publish(c, heard) ==
    LET ix == ApplyCommitted([map |-> index, count |-> count, lost |-> lost], req[c].turn) IN
    /\ req[c].pc = "ran"
    /\ index' = ix.map /\ count' = ix.count /\ lost' = ix.lost
    /\ IF ~heard
       THEN req' = [req EXCEPT ![c] = Idle] /\ placed' = Disconnected(c) /\ UNCHANGED told
       ELSE IF c \in Fix THEN RenderFix(c)
       ELSE IF req[c].batch # None THEN BulkReceipt(c)
       ELSE RenderRest(c)
    /\ UNCHANGED <<venue, minted, boots, undone>>

\* The roll-back cancels every order placed so far, one after the other.
RollBackAt(b) == b.undo + 1

BulkRollBack(c) ==
    LET b == req[c].batch
        at == RollBackAt(b)
    IN  /\ req[c].pc = "batch" /\ b.aborted /\ at <= Len(b.ids)
        /\ Submit(c, CancelOrder(b.ids[at].u, b.ids[at].id, None), [b EXCEPT !.undo = at])
        /\ UNCHANGED <<venue, records, placed, minted, boots, told, undone>>

BulkAnswer(c) ==
    LET b == req[c].batch IN
    /\ req[c].pc = "batch"
    /\ IF b.aborted THEN RollBackAt(b) > Len(b.ids) ELSE b.left = <<>>
    /\ undone' = IF b.aborted /\ ~b.warned
                 THEN undone \cup {<<b.ids[i].u, b.ids[i].seq>> : i \in 1..Len(b.ids)} ELSE undone
    /\ req' = [req EXCEPT ![c] = Idle]
    /\ UNCHANGED <<venue, records, placed, minted, boots, told>>
-----------------------------------------------------------------------------
(* Failures *)

\* What an error makes of the request: a failed item of an atomic batch aborts it, a failed
\* roll-back cancel is a warning, a single request is over.
Failed(c) ==
    LET b == req[c].batch IN
    IF b = None THEN req' = [req EXCEPT ![c] = Idle]
    ELSE Back(c, IF req[c].cmd.op = "add" THEN [b EXCEPT !.aborted = b.atomic]
                 ELSE [b EXCEPT !.warned = TRUE])

\* The mailbox refuses the command: nothing ran.
SubmitRefused(c) ==
    /\ req[c].pc = "sent"
    /\ Failed(c)
    /\ UNCHANGED <<venue, records, placed, minted, boots, told, undone>>

\* The turn fails after its write-ahead: the caller hears an error, the actor is sealed,
\* and the command runs again at the next boot.
SealedTurn(c) ==
    LET u == req[c].cmd.u IN
    /\ req[c].pc = "sent" /\ Takes(u)
    /\ \E e \in Outcomes(req[c].cmd, AccountOf[c]) : Execute(c, e)
    /\ sealed' = sealed \cup {u}
    /\ Failed(c)
    /\ UNCHANGED <<records, placed, minted, boots, told, undone>>

\* The client goes away between two commands: a batch stops where it is, the session's
\* tracking map ends.
HangUp(c) ==
    /\ req[c].pc = "batch" \/ (req[c].pc = "idle" /\ c \in Fix /\ Tracked(c) # {})
    /\ req' = [req EXCEPT ![c] = Idle]
    /\ placed' = Disconnected(c)
    /\ UNCHANGED <<venue, records, minted, boots, told, undone>>

\* The committed turns of one underlying, one after the other.
Replay(ix, turns) ==
    LET after[n \in 0..Len(turns)] ==
            IF n = 0 THEN ix ELSE ApplyCommitted(after[n - 1], turns[n])
    IN  after[Len(turns)]

\* A bug: a replacement whose add was refused is read back as if nothing had happened.
RebuiltFromAccepts ==
    LET accepts(u) == SelectSeq(journal[u], LAMBDA t : t.out.is # "cancelled only")
        after[n \in 0..Len(Underlying)] ==
            IF n = 0 THEN EmptyIndex ELSE Replay(after[n - 1], accepts(Underlying[n]))
    IN  after[Len(Underlying)]

\* recover_into, one underlying after the other: the index is rebuilt from the journals.
Rebuilt ==
    LET after[n \in 0..Len(Underlying)] ==
            IF n = 0 THEN EmptyIndex ELSE Replay(after[n - 1], journal[Underlying[n]])
    IN  after[Len(Underlying)]

\* The process ends and boots: books and idempotency maps are re-executed from the
\* journals (UnderlyingActor shows that), requests and sessions are gone, and the order ids
\* of this venue are handed out again from the first.
Restart ==
    /\ restarts < MaxRestarts
    /\ restarts' = restarts + 1 /\ earlier' = earlier + minted
    /\ index' = Rebuilt.map /\ count' = Rebuilt.count /\ lost' = Rebuilt.lost
    /\ sealed' = {}
    /\ placed' = [f \in Fix |-> NoTracking]
    /\ req' = [c \in Client |-> Idle]
    /\ minted' = 0
    /\ UNCHANGED <<journal, resting, named, idem, told, undone>>
-----------------------------------------------------------------------------
RestRequest(c) ==
    \/ \E u \in Book :
          \/ \E key \in Key, q \in Qty : \/ PlaceLimitOrder(c, u, key, q)
                                          \/ PlaceMarketOrder(c, u, key, q)
          \/ CancelRest(c, u)
    \/ \E items \in Batches, atomic \in BOOLEAN : BulkStart(c, items, atomic)
    \/ BulkNext(c)
    \/ BulkRollBack(c)
    \/ BulkAnswer(c)

FixRequest(f) ==
    \/ \E u \in Book :
          \/ \E key \in Key, q \in Qty, kind \in {"limit", "market"} :
                PlaceFix(f, u, key, q, kind)
          \/ CancelFix(f, u)
          \/ \E orig, key \in Key, q \in Qty : ReplaceFix(f, u, orig, key, q)

Actor(c) ==
    \/ Turn(c)
    \/ \E heard \in BOOLEAN : Publish(c, heard)
    \/ SubmitRefused(c)
    \/ SealedTurn(c)
    \/ HangUp(c)

FlowNext ==
    \/ \E c \in Rest : RestRequest(c)
    \/ \E f \in Fix : FixRequest(f)
    \/ \E c \in Client : Actor(c)
    \/ \E u \in Book : \E s \in resting[u] : Trade(u, s)
    \/ Restart

FlowSpec == FlowInit /\ [][FlowNext]_flowVars
-----------------------------------------------------------------------------
(* Properties *)

\* The types of the three memories; a session tracks no more than its ceiling.
FlowTypeOK ==
    /\ \A u \in Book : named[u] \subseteq resting[u] /\ resting[u] \subseteq 1..Len(journal[u])
    /\ index \in [Account \X Key -> IndexRecord \cup {None}]
    /\ count \in [Account -> Nat] /\ lost \in BOOLEAN
    /\ sealed \subseteq Book /\ minted \in 0..MaxOrders
    /\ \A f \in Fix : Cardinality(Tracked(f)) <= MaxTracked
    /\ \A c \in Client : req[c].pc \in {"idle", "sent", "ran", "batch"}
    /\ undone \subseteq Book \X Nat

\* The per-account counters are the number of the account's entries through records,
\* upserts, retirements, refusals and rebuilds, and both ceilings hold. A drift would lock
\* an account out of the index or let it starve the others.
CountsAreExact ==
    /\ \A a \in Account : /\ count[a] = Cardinality({ak \in Entries(index) : ak[1] = a})
                          /\ count[a] <= MaxPerAccount
    /\ Cardinality(Entries(index)) <= MaxEntries

\* A turn that put an order on the book, or through it, under the key of ak.
OpensUnder(turn, ak) ==
    /\ turn.account = ak[1] /\ turn.cmd.key = ak[2]
    /\ Entered(turn.out) \/ turn.out.is = "replaced"

\* An entry of the index, live or rebuilt, names an order that entered the book: committed
\* by that account under that key, with the sequence of its placement. The id minted for a
\* retry or for a refused order never gets there.
IndexNamesRealOrders ==
    \A ak \in Entries(index) :
        LET r == index[ak] IN
        /\ r.seq <= Len(journal[r.u])
        /\ OpensUnder(journal[r.u][r.seq], ak) /\ Places(journal[r.u][r.seq]) = r.id

Turns(u) == {journal[u][i] : i \in 1..Len(journal[u])}

\* However a placement is answered - from the index, as a duplicate, as an item of a batch,
\* by another caller at the same time, after a restart, with the index full - the orders
\* accepted over REST under one account, key and contract are one order, and it entered the
\* book at the sequence answered. Two answers are excepted: a key that was also given to a
\* replacement, which the idempotency map does not know, and the item of a batch whose
\* receipt was a duplicate or a refusal, answered as accepted under an id that stands for
\* no order.
RetriesNameOneOrder ==
    LET entered == {x \in told : x.out = "entered"} IN
    \A x \in entered :
        LET first == journal[x.u][x.seq]
            reused(a, k) == \E t \in Turns(x.u) : /\ t.account = a /\ t.cmd.op = "replace"
                                                  /\ t.cmd.key = k /\ t.out.is = "replaced"
        IN  /\ x.seq <= Len(journal[x.u])
            /\ OpensUnder(first, <<x.account, x.key>>) /\ Places(first) = x.id
            /\ \/ reused(x.account, x.key)
               \/ \A y \in entered : (y.account = x.account /\ y.key = x.key /\ y.u = x.u)
                                         => (y.id = x.id /\ y.seq = x.seq)

\* A turn that changes what the key of ak stands for.
Rebinds(turn, ak) ==
    \/ OpensUnder(turn, ak)
    \/ /\ turn.account = ak[1] /\ turn.cmd.orig = ak[2]
       /\ turn.out.is \in {"replaced", "cancelled only"}

\* The last turn of u, when its publication may still be to come, or come with the next boot.
Unpublished(u) == IF u \in sealed \/ Running(u) THEN {Len(journal[u])} ELSE {}

\* No other turn of u was given the id of the order that turn s placed.
OnlyOfItsId(u, s) == \A j \in 1..Len(journal[u]) : j # s => IdOf(u, j) # IdOf(u, s)

\* A resting order can be found by the key it was placed or replaced under, by every
\* session of its account, unless a ceiling refused a record or the key was used again: also
\* after a replacement that keeps its key, and after a restart that hands out its id once
\* more. The entry names the placement itself, and its id reaches the order on the book
\* unless another order of the underlying was given the same id.
RestingIsReachable ==
    \A u \in Book :
        /\ \A s \in resting[u] : OnlyOfItsId(u, s) => s \in named[u]
        /\ ~lost => \A i \in resting[u] \ Unpublished(u) :
              LET t == journal[u][i]
                  ak == <<t.account, t.cmd.key>>
              IN  (/\ t.cmd.key # None
                   /\ \A j \in (i + 1)..Len(journal[u]) : ~Rebinds(journal[u][j], ak)
                   /\ \A v \in Book \ {u} : \A s \in Turns(v) : ~Rebinds(s, ak))
                  => (index[ak] # None /\ index[ak].u = u /\ index[ak].seq = i
                      /\ index[ak].id = IdOf(u, i))

\* An atomic batch answered as rolled back without a warning has left none of the orders it
\* had a receipt for on a book, whatever runs between its cancels, and for ever. An order
\* whose id an older order of the underlying had before the last restart is excepted: when
\* the older one leaves the book the id is forgotten, and the cancel finds nothing. So is
\* the item that failed after its write-ahead, which has no receipt and rests after the boot.
RolledBackIsOff ==
    \A u \in Book : \A s \in resting[u] :
        <<u, s>> \in undone => \E j \in 1..(s - 1) : IdOf(u, j) = IdOf(u, s)

\* A key bound by one underlying only means the same before and after a restart, as long
\* as nothing was refused: recovery walks the underlyings one after the other, the live
\* venue published them as they came.
RestartKeepsCorrelation ==
    [][restarts' # restarts /\ ~lost /\ ~lost' =>
          \A ak \in Account \X Key :
              LET binders == {u \in Book : \E t \in Turns(u) : Rebinds(t, ak)} IN
              (Cardinality(binders) <= 1 /\ \A u \in binders : Unpublished(u) = {})
                  => index'[ak] = index[ak]]_flowVars

\* What a FIX session tracks under a key entered the book: "a rejected order is NOT tracked
\* as placed, so no phantom F/G correlation is created". The code does not keep this for a
\* duplicate: see the README.
TrackedIsReal ==
    \A f \in Fix : \A k \in Tracked(f) :
        \E t \in Turns(placed[f][k].u) :
            OpensUnder(t, <<AccountOf[f], k>>) /\ Places(t) = placed[f][k].id

\* The index is sound: exact counters under both ceilings, entries that name orders which
\* really entered the book, and no resting order that its key cannot find.
IndexIsSound == FlowTypeOK /\ CountsAreExact /\ IndexNamesRealOrders /\ RestingIsReachable

\* What clients were told holds: retries under a key were answered with one order, and the
\* receipts of a batch reported as rolled back have nothing on a book.
AnswersHold == RetriesNameOneOrder /\ RolledBackIsOff
==============================================================================
