----------------------------- MODULE MarketData -----------------------------
(***************************************************************************)
(* The market-data feed of one underlying: the per-instrument aggregate and *)
(* its instrument_sequence (OrderbookSubscriptionManager in                 *)
(* src/subscription.rs), the bounded broadcast every consumer reads, the    *)
(* WebSocket consumers (src/gateway/ws/mod.rs) and the FIX consumers (the   *)
(* market-data half of src/gateway/fix/fsm.rs).                             *)
(*                                                                          *)
(* The book itself is not here: a turn of the actor is an event that says   *)
(* which resting orders it consumed, removed or added.                      *)
(***************************************************************************)
EXTENDS Naturals, Sequences, FiniteSets, Functions

CONSTANTS Instrument,  \* symbols of the underlying
          Level,       \* (side, price) pairs
          OrderId,     \* venue order ids, each used once
          MakerId,     \* the ids the market maker mints
          MaxQty,      \* bound: contracts of an order
          Consumer,    \* connection slots, of either kind
          Capacity,    \* WS_BROADCAST_CAPACITY
          DrainLimit,  \* MAX_MD_FRAMES_PER_CYCLE
          MaxSymbols,  \* MAX_MD_SYMBOLS_PER_SESSION, MAX_SUBSCRIPTIONS_PER_CONNECTION
          MaxSent,     \* bound: messages on the broadcast
          MaxBoots,    \* bound: restarts
          None

ASSUME MarketDataAssumption ==
    /\ MaxQty \in Nat \ {0} /\ Capacity \in Nat \ {0} /\ DrainLimit \in Nat \ {0}
    /\ MaxSymbols \in Nat \ {0} /\ MaxSent \in Nat /\ MaxBoots \in Nat
    /\ MakerId \subseteq OrderId /\ IsFiniteSet(OrderId)
    /\ None \notin Nat \cup OrderId \cup {"ws", "fix"}

Qty == 1..MaxQty
Depth == [Level -> 0..(MaxQty * Cardinality(OrderId))]
Resting == [inst : Instrument, level : Level, qty : Qty]

\* The contracts that the orders S of f have at a level of an instrument, one by one.
Contracts(f, S, i, l) ==
    {x \in S \X Qty : f[x[1]].inst = i /\ f[x[1]].level = l /\ x[2] <= f[x[1]].qty}

VARIABLES
    book,      \* what rests: a function from ids to Resting
    used,      \* ids that were submitted
    orders,    \* the aggregate's orders, per InstrumentState, by id
    levels,    \* the aggregate's depth per instrument
    sequence,  \* instrument_sequence
    toSend,    \* messages of the running turn, folded and not yet sent
    sent,      \* how many messages went over the broadcast
    ring,      \* the last Capacity of them
    cons,      \* the consumers
    hidden,    \* history: ids taken off the book by a command without a symbol
    quiet,     \* history: no maker command changed the instrument's depth
    boots

vars == <<book, used, orders, levels, sequence, toSend, sent, ring, cons, hidden, quiet, boots>>
feed == <<orders, levels, sequence, toSend, sent, ring>>
past == <<book, used, hidden, quiet, boots>>

\* A connection without a subscription. at is the receiver: the number of messages
\* taken, or None. A subscribed instrument has a baseline; view is what its client
\* makes of the frames. A FIX session drains into pending.
Idle == [kind |-> None, at |-> None, base |-> [i \in Instrument |-> None],
         view |-> [i \in Instrument |-> [l \in Level |-> 0]],
         want |-> {}, pending |-> <<>>, projects |-> FALSE]

Init ==
    /\ book = <<>> /\ used = {} /\ orders = <<>>
    /\ levels = [i \in Instrument |-> [l \in Level |-> 0]]
    /\ sequence = [i \in Instrument |-> 0]
    /\ toSend = <<>> /\ sent = 0 /\ ring = <<>>
    /\ cons = [c \in Consumer |-> Idle]
    /\ hidden = {} /\ quiet = [i \in Instrument |-> TRUE] /\ boots = 0
-----------------------------------------------------------------------------
(* The aggregate. State s is [orders, levels]; each helper is one method of *)
(* InstrumentState.                                                         *)

Less(a, b) == IF a < b THEN 0 ELSE a - b

\* reduce_level: clamped at zero.
ReduceLevel(s, i, l, amount) == [s.levels EXCEPT ![i][l] = Less(@, amount)]

\* remove_order, for each of ids: one the aggregate does not know is ignored. Reductions
\* of a level that stop at zero add up.
RemoveOrders(s, ids) ==
    LET gone == ids \cap DOMAIN s.orders
    IN  [orders  |-> Restrict(s.orders, DOMAIN s.orders \ gone),
         levels  |-> [i \in Instrument |-> [l \in Level |->
                        Less(s.levels[i][l], Cardinality(Contracts(s.orders, gone, i, l)))]],
         touched |-> s.touched \cup {s.orders[id].level : id \in gone}]

\* reduce_order: a maker leg of a fill.
ReduceOrder(s, id, qty) ==
    IF id \notin DOMAIN s.orders THEN s
    ELSE IF qty >= s.orders[id].qty THEN RemoveOrders(s, {id})
    ELSE LET o == s.orders[id]
         IN  [orders  |-> [s.orders EXCEPT ![id] = [o EXCEPT !.qty = @ - qty]],
              levels  |-> ReduceLevel(s, o.inst, o.level, qty),
              touched |-> s.touched \cup {o.level}]

\* rest_order
RestOrder(s, id, o) ==
    [orders  |-> [x \in DOMAIN s.orders \cup {id} |-> IF x = id THEN o ELSE s.orders[x]],
     levels  |-> [s.levels EXCEPT ![o.inst][o.level] = @ + o.qty],
     touched |-> s.touched \cup {o.level}]

\* InstrumentState::apply: the fills' maker legs, the removals, the remainder. An
\* event consumes one maker here.
Apply(e) ==
    LET s0 == [orders |-> orders, levels |-> levels, touched |-> {}]
        s1 == IF e.filled = None THEN s0 ELSE ReduceOrder(s0, e.filled, e.amount)
        s2 == RemoveOrders(s1, e.removed)
    IN  IF e.rests = None THEN s2 ELSE RestOrder(s2, e.rests, e.order)

\* Mutant: a delta carries the quantity the level had.
ChangesBefore(s, i) == [l \in s.touched |-> levels[i][l]]

\* The resulting quantity of every touched level.
Changes(s, i) == [l \in s.touched |-> s.levels[i][l]]

Delta(i, n, changes) == [kind |-> "delta", inst |-> i, seq |-> n, changes |-> changes]

\* is_market_maker_command
ByMaker(e) == e.maker

\* on_committed_event for a command with a symbol: fold, number the delta unless the
\* maker caused it, then the prints of the fill.
Publish(e) ==
    LET i == e.inst
        s == Apply(e)
        silent == s.touched = {} \/ ByMaker(e)
        n == sequence[i] + 1
    IN  /\ orders' = s.orders /\ levels' = s.levels
        /\ sequence' = IF silent THEN sequence ELSE [sequence EXCEPT ![i] = n]
        /\ toSend' = (IF silent THEN <<>> ELSE <<Delta(i, n, Changes(s, i))>>)
                       \o (IF e.filled = None THEN <<>> ELSE <<[kind |-> "print"]>>)
        /\ quiet' = [quiet EXCEPT ![i] = @ /\ ~ (s.touched # {} /\ ByMaker(e))]

\* The book after the event, external to the feed.
BookAfter(e) ==
    LET left == [id \in DOMAIN book |->
                   IF id = e.filled THEN [book[id] EXCEPT !.qty = Less(@, e.amount)]
                   ELSE book[id]]
        stay == {id \in DOMAIN book : left[id].qty > 0 /\ id \notin e.removed}
    IN  [id \in stay \cup ({e.rests} \ {None}) |->
           IF id = e.rests THEN e.order ELSE left[id]]

\* A turn commits e and fans it out; the next turn waits for its messages.
Turn(e) ==
    /\ toSend = <<>> /\ sent < MaxSent
    /\ book' = BookAfter(e)
    /\ Publish(e)
    /\ UNCHANGED <<sent, ring, cons, hidden, boots>>

Here(i) == {id \in DOMAIN book : book[id].inst = i}

Event(i, maker) ==
    [inst |-> i, maker |-> maker, filled |-> None, amount |-> 0, removed |-> {},
     rests |-> None, order |-> None]

\* mint_order_id, for a client or for the maker.
Fresh(maker) == IF maker THEN MakerId \ used ELSE (OrderId \ MakerId) \ used
Mint(maker) == CHOOSE id \in Fresh(maker) : TRUE

Least(a, b) == IF a < b THEN a ELSE b

\* The order o of id comes in after the orders of gone are off the book: self-trade prevention
\* may remove resting orders of the other levels, one of the others may be consumed, and what
\* is left of o rests, or not (a market order, an aggressor that self-trade prevention cancels).
Placed(i, maker, gone, id, o) ==
    LET across == {m \in Here(i) \ gone : book[m].level # o.level}
    IN  \E stp \in SUBSET across : \E m \in (across \ stp) \cup {None}, keep \in BOOLEAN :
          LET met == IF m = None THEN 0 ELSE Least(o.qty, book[m].qty)
          IN  /\ keep => met < o.qty
              /\ Turn([Event(i, maker) EXCEPT
                         !.filled = m, !.amount = met, !.removed = gone \cup stp,
                         !.rests = IF keep THEN id ELSE None,
                         !.order = IF keep THEN [o EXCEPT !.qty = @ - met] ELSE None])

\* AddOrder with an outcome Added or Market.
AddOrder(maker, i, l, q) ==
    /\ Fresh(maker) # {} /\ used' = used \cup {Mint(maker)}
    /\ Placed(i, maker, {}, Mint(maker), [inst |-> i, level |-> l, qty |-> q])

\* CancelOrder; the maker cancels its own quotes.
CancelOrder(id) ==
    /\ id \in DOMAIN book
    /\ Turn([Event(book[id].inst, id \in MakerId) EXCEPT !.removed = {id}])
    /\ UNCHANGED used

\* Replace: the old order is removed, and the new one is matched and rests like any other, or
\* is refused.
Replace(id, l, q) ==
    LET i == book[id].inst
        new == Mint(FALSE)
    IN  /\ id \in DOMAIN book \ MakerId /\ Fresh(FALSE) # {}
        /\ used' = used \cup {new}
        /\ Placed(i, FALSE, {id}, new, [inst |-> i, level |-> l, qty |-> q])

\* A mass cancel of one book.
MassCancelBook(i, swept) ==
    /\ swept # {} /\ Turn([Event(i, FALSE) EXCEPT !.removed = swept])
    /\ UNCHANGED used

\* command_symbol is None: the kill of the market maker, the eviction of expired
\* orders and a mass cancel of a wider scope take orders off the book, and
\* on_committed_event returns before the aggregate is reached.
SweepUnnamed(swept) ==
    /\ toSend = <<>> /\ swept # {}
    /\ book' = Restrict(book, DOMAIN book \ swept)
    /\ hidden' = hidden \cup swept
    /\ UNCHANGED <<used, feed, cons, quiet, boots>>

\* emit_price: the price of a committed SimStep.
SimStep ==
    /\ toSend = <<>> /\ sent < MaxSent
    /\ toSend' = <<[kind |-> "print"]>>
    /\ UNCHANGED <<orders, levels, sequence, sent, ring, cons, past>>

\* global_tx.send, after the guard of the instrument is released.
Send ==
    /\ toSend # <<>>
    /\ sent' = sent + 1 /\ toSend' = Tail(toSend)
    /\ ring' = IF Len(ring) < Capacity THEN Append(ring, Head(toSend))
               ELSE Append(Tail(ring), Head(toSend))
    /\ UNCHANGED <<orders, levels, sequence, cons, past>>
-----------------------------------------------------------------------------
(* Consumers.                                                               *)

\* The position of the oldest message that is left, and the message after position p.
Oldest == sent - Len(ring)
After(p) == ring[p - Oldest + 1]

Subscribed(c) == {i \in Instrument : cons[c].base[i] # None}

\* orderbook_snapshot of each instrument in S, and the baseline it sets.
Snapshot(f, S) ==
    [f EXCEPT !.base = [i \in Instrument |-> IF i \in S THEN sequence[i] ELSE @[i]],
              !.view = [i \in Instrument |-> IF i \in S THEN levels[i] ELSE @[i]]]

\* Mutant: a delta right after the baseline is taken for a duplicate.
ReflectedLate(n, base) == n <= base + 1

\* A delta at or below the baseline is in the snapshot already.
Reflected(n, base) == n <= base

\* Connection::filter, and phase 3 of drain_market_data: what one message makes of a
\* consumer.
Filter(f, m) ==
    IF m.kind = "print" \/ f.base[m.inst] = None \/ Reflected(m.seq, f.base[m.inst]) THEN f
    ELSE [f EXCEPT !.base[m.inst] = m.seq,
                   !.view[m.inst] = [l \in Level |->
                        IF l \in DOMAIN m.changes THEN m.changes[l] ELSE @[l]]]

\* Mutant: a laggard goes on from the oldest message that is left.
LagIgnored(c) == [cons[c] EXCEPT !.at = Oldest, !.pending = <<>>]

\* The receiver lagged: it goes on from the oldest message that is left, after a fresh
\* snapshot of every subscription (resnapshot, resnapshot_subscriptions).
Resnapshot(c) ==
    [Snapshot(cons[c], Subscribed(c)) EXCEPT !.at = Oldest, !.pending = <<>>]

Become(c, f) ==
    /\ cons' = [cons EXCEPT ![c] = f]
    /\ UNCHANGED <<feed, past>>

\* handle_socket: the receiver exists before any subscription.
OpenWs(c) ==
    /\ cons[c].kind = None
    /\ Become(c, [Idle EXCEPT !.kind = "ws", !.at = sent])

\* A FIX session is admitted; it has no receiver before its first subscription.
OpenFix(c) ==
    /\ cons[c].kind = None
    /\ Become(c, [Idle EXCEPT !.kind = "fix"])

\* Connection::subscribe on the orderbook channel; subscribing again is allowed.
SubscribeWs(c, i) ==
    /\ cons[c].kind = "ws"
    /\ Cardinality(Subscribed(c) \cup {i}) <= MaxSymbols
    /\ Become(c, Snapshot(cons[c], {i}))

\* broadcast_rx.recv in the socket's loop.
RecvWs(c) ==
    LET f == cons[c]
    IN  /\ f.kind = "ws" /\ f.at < sent
        /\ Become(c, IF f.at < Oldest THEN Resnapshot(c)
                     ELSE Filter([f EXCEPT !.at = @ + 1], After(f.at)))

\* Between two steps of the FIX session's task.
Settled(c) == cons[c].pending = <<>> /\ cons[c].want = {}

\* subscribe_market_data for the symbols S: none of them is subscribed and the session
\* stays below its ceiling. The receiver is created before the first snapshot.
SubscribeFix(c, S) ==
    LET f == cons[c]
    IN  /\ f.kind = "fix" /\ S # {} /\ Settled(c) /\ S \cap Subscribed(c) = {}
        /\ Cardinality(S \cup Subscribed(c)) <= MaxSymbols
        /\ Become(c, [f EXCEPT !.want = S, !.at = IF @ = None THEN sent ELSE @])

\* The W baseline of the next symbol of the request.
BaselineFix(c, i) ==
    /\ i \in cons[c].want
    /\ Become(c, [Snapshot(cons[c], {i}) EXCEPT !.want = @ \ {i}])

\* The bound of a drain cycle.
Drained(f) == Len(f.pending) >= DrainLimit

\* try_recv in drain_market_data, on every message and every tick.
PullFix(c) ==
    LET f == cons[c]
    IN  /\ f.kind = "fix" /\ f.at # None /\ f.want = {} /\ ~ f.projects
        /\ f.at < sent /\ ~ Drained(f)
        /\ Become(c, IF f.at < Oldest THEN Resnapshot(c)
                     ELSE [f EXCEPT !.at = @ + 1, !.pending = Append(@, After(f.at))])

\* The drain met an empty channel or its limit: it projects what it pulled, in order.
ProjectFix(c) ==
    LET f == cons[c]
        rest == Tail(f.pending)
    IN  /\ f.pending # <<>>
        /\ f.projects \/ f.at = sent \/ Drained(f)
        /\ Become(c, [Filter(f, Head(f.pending)) EXCEPT !.pending = rest,
                                                        !.projects = rest # <<>>])

\* unsubscribe, unsubscribe_market_data: the last one tears down the FIX receiver.
Unsubscribe(c, i) ==
    LET f == [cons[c] EXCEPT !.base[i] = None, !.view[i] = [l \in Level |-> 0]]
    IN  /\ i \in Subscribed(c) /\ Settled(c)
        /\ Become(c, IF f.kind = "fix" /\ Subscribed(c) = {i}
                     THEN [Idle EXCEPT !.kind = "fix"] ELSE f)

\* The connection ends.
CloseConsumer(c) ==
    /\ cons[c].kind # None
    /\ Become(c, Idle)

\* Boot: the book is recovered from the journal without the market-data tee, the
\* aggregates and their sequences start empty.
Restart ==
    /\ boots < MaxBoots /\ boots' = boots + 1
    /\ orders' = <<>> /\ levels' = [i \in Instrument |-> [l \in Level |-> 0]]
    /\ sequence' = [i \in Instrument |-> 0]
    /\ toSend' = <<>> /\ ring' = <<>>
    /\ cons' = [c \in Consumer |-> Idle]
    /\ quiet' = [i \in Instrument |-> TRUE]
    /\ hidden' = hidden \cup DOMAIN book
    /\ UNCHANGED <<book, used, sent>>
-----------------------------------------------------------------------------
Venue ==
    \/ \E maker \in BOOLEAN, i \in Instrument, l \in Level, q \in Qty : AddOrder(maker, i, l, q)
    \/ \E id \in OrderId : CancelOrder(id)
    \/ \E id \in OrderId, l \in Level, q \in Qty : Replace(id, l, q)
    \/ \E i \in Instrument : \E swept \in SUBSET Here(i) : MassCancelBook(i, swept)
    \/ \E swept \in SUBSET DOMAIN book : SweepUnnamed(swept)
    \/ SimStep \/ Restart

Client(c) ==
    \/ OpenWs(c) \/ OpenFix(c) \/ CloseConsumer(c)
    \/ \E i \in Instrument : SubscribeWs(c, i) \/ Unsubscribe(c, i)
    \/ \E S \in SUBSET Instrument : SubscribeFix(c, S)

Deliver(c) ==
    \/ RecvWs(c) \/ PullFix(c) \/ ProjectFix(c)
    \/ \E i \in Instrument : BaselineFix(c, i)

Next == Venue \/ Send \/ \E c \in Consumer : Client(c) \/ Deliver(c)

\* The turn finishes its fan-out; a socket loop keeps receiving as long as its peer reads what
\* it sends; a FIX session is ticked.
Spec == Init /\ [][Next]_vars /\ WF_vars(Send) /\ \A c \in Consumer : WF_vars(Deliver(c))
-----------------------------------------------------------------------------
TypeOK ==
    /\ \A f \in {book, orders} : DOMAIN f \subseteq OrderId /\ Range(f) \subseteq Resting
    /\ used \subseteq OrderId /\ hidden \subseteq OrderId
    /\ levels \in [Instrument -> Depth] /\ sequence \in [Instrument -> 0..MaxSent]
    /\ Len(toSend) <= 2 /\ boots \in 0..MaxBoots /\ quiet \in [Instrument -> BOOLEAN]
    /\ \A c \in Consumer :
         /\ cons[c].at \in 0..sent \cup {None}
         /\ cons[c].base \in [Instrument -> 0..MaxSent \cup {None}]
         /\ cons[c].view \in [Instrument -> Depth]
         /\ cons[c].want \subseteq Instrument /\ Len(cons[c].pending) <= DrainLimit

\* The aggregate's orders are the resting orders whose every change named their
\* symbol: fills, self-trade removals, replaces and sweeps of one book all reach it,
\* and each level is the sum of its orders. What a command without a symbol took off
\* the book, or what was there at boot, is the only difference.
AggregateFollowsBook ==
    /\ Restrict(orders, DOMAIN orders \ hidden) = Restrict(book, DOMAIN book \ hidden)
    /\ \A i \in Instrument, l \in Level :
         levels[i][l] = Cardinality(Contracts(orders, DOMAIN orders, i, l))

\* A consumer that has taken every message and has none in its drain holds the
\* aggregate's depth of each instrument it subscribed, as long as the maker has not
\* changed it: no delta is lost or applied twice between the receiver, the baseline
\* snapshot and the drain, however the turn's send falls between them.
CaughtUpSeesDepth ==
    \A c \in Consumer, i \in Instrument :
        /\ cons[c].base[i] # None /\ quiet[i] /\ toSend = <<>>
        /\ cons[c].at = sent /\ cons[c].pending = <<>>
        => cons[c].base[i] = sequence[i] /\ cons[c].view[i] = levels[i]

\* The instrument sequence a consumer is at moves by one, or to a fresh snapshot: a
\* lag of the bounded broadcast is never passed over.
NoSilentGap ==
    [][\A c \in Consumer, i \in Instrument :
         LET from == cons[c].base[i]
             to == cons'[c].base[i]
         IN  from # None /\ to # None /\ from # to /\ to # from + 1
               => to = sequence[i] /\ cons'[c].view[i] = levels[i]]_vars

\* Every numbered delta reaches every consumer that subscribed its instrument, as a
\* delta or in a snapshot, at the drain's limit and past the broadcast's.
EveryDeltaArrives ==
    \A c \in Consumer, i \in Instrument : \A n \in 1..MaxSent :
        (cons[c].base[i] # None /\ sequence[i] >= n)
            ~> (cons[c].base[i] = None \/ cons[c].base[i] >= n)

\* What the comment in InstrumentState::apply says of a kill: the swept quotes leave
\* the aggregate. The depth shows no order that is off the book. The code does not keep
\* this: see the README.
NoPhantomDepth == DOMAIN orders \subseteq DOMAIN book

\* What subscribers are shown is the book: the level aggregate follows it turn by turn, and a
\* consumer that has caught up sees exactly its depth, of an instrument whose depth the market
\* maker has not changed (its requotes are folded without a delta) and except for orders taken
\* off by a command without a symbol or recovered at boot.
DepthIsTrue == TypeOK /\ AggregateFollowsBook /\ CaughtUpSeesDepth
=============================================================================
