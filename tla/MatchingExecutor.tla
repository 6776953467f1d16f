-------------------------- MODULE MatchingExecutor --------------------------
(***************************************************************************)
(* The matching executor of one underlying (src/exchange/executor.rs): what *)
(* one committed command does to the leaf books, to the venue's registry of *)
(* resting orders, to the idempotency map and to the instrument statuses.   *)
(* One command is one step, as the actor's turn is synchronous; its place   *)
(* in the total order is the engine id of the order it adds.                *)
(*                                                                         *)
(* The leaf book itself is the upstream library; Match models it from what  *)
(* the executor relies on. UnderlyingActor shows that recovery re-executes  *)
(* the same commands, so a restart changes only what is outside the         *)
(* executor: the gateway's counter of order ids.                            *)
(***************************************************************************)
EXTENDS Integers, Sequences, FiniteSets

CONSTANTS Symbol, Account,
          OwnerOf(_),       \* the STP owner of an account; accounts may share one
          MarketMaker,      \* the market maker's account
          Price, Quantity,
          TimeInForce,      \* a subset of {"Gtc", "Gtd", "Ioc"}
          ClientOrderId,
          Status,           \* the instrument statuses the venue sets
          StpMode,          \* the configured [microstructure.stp] mode
          Snapshots,        \* TRUE: the administrator captures and restores
          MaxSeq,           \* bound: the last sequence number
          MaxRestarts,      \* bound: restarts of the process
          None

ASSUME ExecutorBounds ==
    /\ MaxSeq \in Nat /\ MaxRestarts \in Nat
    /\ Price \subseteq Nat /\ Quantity \subseteq Nat \ {0}
    /\ TimeInForce \subseteq {"Gtc", "Gtd", "Ioc"}
    /\ Status \subseteq {"Active", "Halted", "Settling", "Expired"}
    /\ StpMode \in {"None", "CancelTaker", "CancelMaker", "CancelBoth"}
    /\ Snapshots \in BOOLEAN

Side == {"buy", "sell"}
Ids  == 0 .. MaxSeq

\* A venue order id: minted from the gateways' counter or from the market maker's.
VenueOrderId == [by : {"gateway", "maker"}, n : Ids]

\* The fingerprint of a placement; a market order has no price.
Terms == [symbol : Symbol, side : Side, price : Price \cup {None}, qty : Quantity,
          tif : TimeInForce]

Owner == {OwnerOf(a) : a \in Account}

\* An order on a leaf, the identity the registry keeps of it, an idempotency entry, and
\* what the history keeps of an order.
LeafOrder == [id : Ids, side : Side, price : Price, qty : Nat \ {0}, owner : Owner,
              tif : TimeInForce]
Identity  == [symbol : Symbol, order : VenueOrderId, account : Account, owner : Owner,
              side : Side]
Entry     == [terms : Terms, seq : Ids]
Placed    == [account : Account, key : ClientOrderId \cup {None}, qty : Quantity, filled : Nat,
              active : BOOLEAN, misattributed : BOOLEAN, selfTrade : BOOLEAN]

ASSUME NoneAssumption ==
    /\ None \notin Ids /\ None \notin Identity /\ None \notin Entry /\ None \notin Placed

VARIABLES
    leaves,       \* [Symbol -> set of orders on the upstream leaf book]
    stp,          \* the STP mode of the leaves
    resting,      \* the registry: [Ids -> identity of a resting order or None]
    idToEngine,   \* venue_to_engine: [VenueOrderId -> engine id or None]
    idempotency,  \* [Account \X ClientOrderId -> entry or None]
    status,       \* the sequenced instrument-status registry
    seq,          \* the sequence number of the next command
    minted,       \* the two order id counters
    restarts,     \* restarts so far
    saved,        \* the captured ExecutorState with its history, or None
    orders,       \* history: every order that entered a book, by engine id
    last          \* history: the command executed last

vars == <<leaves, stp, resting, idToEngine, idempotency, status, seq, minted, restarts,
          saved, orders, last>>
outside == <<stp, restarts, saved>>

Init ==
    /\ leaves = [s \in Symbol |-> {}]
    /\ stp = StpMode
    /\ resting = [i \in Ids |-> None]
    /\ idToEngine = [o \in VenueOrderId |-> None]
    /\ idempotency = [k \in Account \X ClientOrderId |-> None]
    /\ status = [s \in Symbol |-> "Active"]
    /\ seq = 0
    /\ minted = [by \in {"gateway", "maker"} |-> 0]
    /\ restarts = 0
    /\ saved = None
    /\ orders = [i \in Ids |-> None]
    /\ last = [kind |-> "start", account |-> None, owner |-> None]
-----------------------------------------------------------------------------
(* The upstream leaf book.                                                  *)

Crosses(o, m) ==
    /\ m.side # o.side
    /\ \/ o.price = None
       \/ o.side = "buy" /\ m.price <= o.price
       \/ o.side = "sell" /\ m.price >= o.price

\* Price-time priority among the makers of one side.
Better(a, b) ==
    \/ a.price # b.price /\ (a.price < b.price <=> a.side = "sell")
    \/ a.price = b.price /\ a.id < b.id

\* One maker meets what is left of the taker.
Meet(o, walk, m) ==
    LET q == IF m.qty < walk.left THEN m.qty ELSE walk.left IN
    IF walk.left = 0 \/ walk.stopped THEN walk
    ELSE IF stp # "None" /\ m.owner = o.owner
         THEN [walk EXCEPT !.stopped = stp \in {"CancelTaker", "CancelBoth"},
                           !.removed = IF stp = "CancelTaker" THEN @ ELSE @ \cup {m}]
         ELSE [walk EXCEPT !.left = @ - q,
                           !.trades = @ \cup {[maker |-> m, qty |-> q]}]

\* The makers of a set, best first.
Priority(makers) ==
    CHOOSE q \in [1 .. Cardinality(makers) -> makers] :
        \A i, j \in DOMAIN q : i < j => Better(q[i], q[j])

\* The walk of taker o through a book: its trades, the makers STP removed, whether
\* STP stopped the taker and what is left of it.
Match(book, o) ==
    LET queue == Priority({m \in book : Crosses(o, m)})
        walk[i \in 0 .. Len(queue)] ==
            IF i = 0 THEN [left |-> o.qty, trades |-> {}, removed |-> {}, stopped |-> FALSE]
            ELSE Meet(o, walk[i - 1], queue[i])
    IN  walk[Len(queue)]

\* tif_rests and a resting quantity above zero: a remainder rests unless the order is
\* immediate or was stopped.
Rests(o, w) == w.left > 0 /\ ~ w.stopped /\ o.price # None /\ o.tif # "Ioc"

BookAfter(book, o, w) ==
    (book \ (w.removed \cup {t.maker : t \in w.trades}))
        \cup {[t.maker EXCEPT !.qty = @ - t.qty] : t \in {u \in w.trades : u.qty < u.maker.qty}}
        \cup (IF Rests(o, w)
              THEN {[id |-> seq, side |-> o.side, price |-> o.price, qty |-> w.left,
                     owner |-> o.owner, tif |-> o.tif]}
              ELSE {})
-----------------------------------------------------------------------------
(* The registry and the add path.                                           *)

\* remove_resting for the engine ids in gone: venue_to_engine after it.
Forget(gone) ==
    [o \in VenueOrderId |->
        IF \E i \in gone : resting[i] # None /\ resting[i].order = o THEN None
        ELSE idToEngine[o]]

\* Mutant: the makers self-trade prevention removed stay registered.
PruneFilled(w) == {t.maker.id : t \in {u \in w.trades : u.qty = u.maker.qty}}

\* The makers that left the book: filled_maker_ids, and those stp_cancelled_diff finds.
Prune(w) ==
    {t.maker.id : t \in {u \in w.trades : u.qty = u.maker.qty}} \cup {m.id : m \in w.removed}

\* add_has_mutation.
HasMutation(o, w) == w.trades # {} \/ w.removed # {} \/ Rests(o, w)

\* build_fills: a maker's leg goes to the account the registry names.
FillAccount(i) == IF resting[i] = None THEN None ELSE resting[i].account

\* History: the order's entry, and the legs of the makers it met.
Record(o, w) ==
    [i \in Ids |->
        IF i = seq /\ HasMutation(o, w)
        THEN [account |-> o.account, key |-> o.key, qty |-> o.qty, filled |-> o.qty - w.left,
              active |-> status[o.symbol] = "Active", misattributed |-> FALSE,
              selfTrade |-> \E t \in w.trades : t.maker.owner = o.owner]
        ELSE IF \E t \in w.trades : t.maker.id = i
        THEN LET leg == CHOOSE t \in w.trades : t.maker.id = i IN
             [orders[i] EXCEPT !.filled = @ + leg.qty,
                               !.misattributed = @ \/ FillAccount(i) # orders[i].account]
        ELSE orders[i]]

\* run_add and execute_market: the taker walks the book that is left once the orders
\* in gone are cancelled, the registry follows, a remainder is registered.
RunAdd(o, gone) ==
    LET book  == {m \in leaves[o.symbol] : m.id \notin gone}
        w     == Match(book, o)
        left  == gone \cup Prune(w)
        rests == Rests(o, w)
    IN
    /\ leaves' = [leaves EXCEPT ![o.symbol] = BookAfter(book, o, w)]
    /\ resting' = [i \in Ids |->
                     IF i = seq /\ rests
                     THEN [symbol |-> o.symbol, order |-> o.order, account |-> o.account,
                           owner |-> o.owner, side |-> o.side]
                     ELSE IF i \in left THEN None ELSE resting[i]]
    /\ idToEngine' = IF rests THEN [Forget(left) EXCEPT ![o.order] = seq] ELSE Forget(left)
    /\ orders' = Record(o, w)
-----------------------------------------------------------------------------
(* Commands.  Each one takes a sequence number, rejected or not.            *)

Minter(a) == IF a = MarketMaker THEN "maker" ELSE "gateway"

Mint(a) == minted' = [minted EXCEPT ![Minter(a)] = @ + 1]

\* mint_order_id: the next id of the gateways' process-wide counter, or of the maker's.
NextOrderId(a) == [by |-> Minter(a), n |-> minted[Minter(a)]]

Turn(kind, a, owner) ==
    /\ seq <= MaxSeq
    /\ seq' = seq + 1
    /\ last' = [kind |-> kind, account |-> a, owner |-> owner]

BookUntouched == UNCHANGED <<leaves, resting, idToEngine, orders>>

Rejected == Turn("rejected", None, None) /\ BookUntouched /\ UNCHANGED <<idempotency, status>>

\* is_accepting_orders.
Accepting(s) == status[s] = "Active"

\* The placement an account asks for.
Placement(a, t, key, order) ==
    [symbol |-> t.symbol, side |-> t.side, price |-> t.price, qty |-> t.qty, tif |-> t.tif,
     account |-> a, owner |-> OwnerOf(a), key |-> key, order |-> order]

\* Mutant: a retry is not recognised.
NeverKnown(k) == FALSE

\* The idempotency map holds an entry for the key.
Known(k) == idempotency[k] # None

\* execute_add_order, the outcome stored under the key when there is one.
Place(a, t, key) ==
    /\ IF Accepting(t.symbol)
       THEN /\ Turn("add", a, OwnerOf(a))
            /\ RunAdd(Placement(a, t, key, NextOrderId(a)), {})
       ELSE Turn("rejected", None, None) /\ BookUntouched
    /\ idempotency' = IF key = None THEN idempotency
                      ELSE [idempotency EXCEPT ![<<a, key>>] = [terms |-> t, seq |-> seq]]
    /\ UNCHANGED status

\* add_with_idempotency: a known key is a duplicate or a conflict, and nothing runs.
AddOrder(a, t, key) ==
    /\ Mint(a)
    /\ IF key # None /\ Known(<<a, key>>) THEN Rejected ELSE Place(a, t, key)
    /\ UNCHANGED outside

OnLeaf(i, s) == \E m \in leaves[s] : m.id = i

\* account_owns.
AccountOwns(a, i) == resting[i] # None /\ resting[i].account = a

\* The gates of cancel and replace: known, owned, resting on the named leaf.
Cancellable(a, s, o) ==
    /\ idToEngine[o] # None
    /\ AccountOwns(a, idToEngine[o])
    /\ OnLeaf(idToEngine[o], s)

\* The orders in gone are cancelled on their leaves and dropped from the registry.
TakeOff(gone) ==
    /\ leaves' = [s \in Symbol |-> {m \in leaves[s] : m.id \notin gone}]
    /\ resting' = [i \in Ids |-> IF i \in gone THEN None ELSE resting[i]]
    /\ idToEngine' = Forget(gone)
    /\ UNCHANGED orders

CancelOrder(a, s, o) ==
    /\ IF Cancellable(a, s, o)
       THEN /\ Turn("cancel", a, OwnerOf(a))
            /\ TakeOff({idToEngine[o]}) /\ UNCHANGED <<idempotency, status>>
       ELSE Rejected
    /\ UNCHANGED minted /\ UNCHANGED outside

\* execute_replace: the cancel leg, then an add leg that is not rolled back and does
\* not pass the status gate; without a price there is no add leg.
Replace(a, o, t) ==
    /\ a # MarketMaker
    /\ Mint(a)
    /\ IF Cancellable(a, t.symbol, o)
       THEN /\ Turn("replace", a, OwnerOf(a))
            /\ IF t.price = None THEN TakeOff({idToEngine[o]})
               ELSE RunAdd([Placement(a, t, None, NextOrderId(a)) EXCEPT
                               !.owner = resting[idToEngine[o]].owner], {idToEngine[o]})
            /\ UNCHANGED <<idempotency, status>>
       ELSE Rejected
    /\ UNCHANGED outside

\* The upstream lifecycle: Halted resumes, Expired is final.
CanTransition(from, to) ==
    \/ from = to
    \/ <<from, to>> \in {<<"Active", "Halted">>, <<"Halted", "Active">>,
                         <<"Active", "Settling">>, <<"Halted", "Settling">>,
                         <<"Active", "Expired">>, <<"Halted", "Expired">>,
                         <<"Settling", "Expired">>}

SetInstrumentStatus(s, to) ==
    /\ IF CanTransition(status[s], to)
       THEN /\ Turn("status", None, None)
            /\ status' = [status EXCEPT ![s] = to]
            /\ BookUntouched /\ UNCHANGED idempotency
       ELSE Rejected
    /\ UNCHANGED minted /\ UNCHANGED outside

Registered == {i \in Ids : resting[i] # None}

\* sweep_matching over registered orders; one that is not on its leaf stays.
Sweep(targets) == TakeOff({i \in targets : OnLeaf(i, resting[i].symbol)})

\* Mutant: a sweep by owner or side is not pinned to the account.
AnyAccount(r, a) == TRUE

SameAccount(r, a) == r.account = a

\* A client's sweep, by owner or by side, in a scope of symbols.
MassCancel(a, scope, sides, owners) ==
    /\ Turn("massCancel", a, None)
    /\ Sweep({i \in Registered : LET r == resting[i] IN
                 r.symbol \in scope /\ r.side \in sides /\ r.owner \in owners
                     /\ SameAccount(r, a)})
    /\ UNCHANGED <<idempotency, status, minted>> /\ UNCHANGED outside

\* The venue's own sweep of every account.
MassCancelAll(scope) ==
    /\ Turn("venue", None, None)
    /\ Sweep({i \in Registered : resting[i].symbol \in scope})
    /\ UNCHANGED <<idempotency, status, minted>> /\ UNCHANGED outside

\* MarketMakerControl with enabled = false: the maker's quotes go with it.
Kill ==
    /\ Turn("venue", None, None)
    /\ Sweep({i \in Registered : resting[i].owner = OwnerOf(MarketMaker)})
    /\ UNCHANGED <<idempotency, status, minted>> /\ UNCHANGED outside

\* EvictExpiredOrders: the leaves drop what is past its deadline (all of Gtd here), and
\* the registry follows.
EvictExpired ==
    /\ Turn("venue", None, None)
    /\ TakeOff(UNION {{m.id : m \in {x \in leaves[s] : x.tif = "Gtd"}} : s \in Symbol})
    /\ UNCHANGED <<idempotency, status, minted>> /\ UNCHANGED outside
-----------------------------------------------------------------------------
(* Snapshot, restore and restart.                                           *)

\* The leaves' own status: nothing on the live path sets it.
LeafStatus == [s \in Symbol |-> "Active"]

\* Mutant: the quantity an order was placed for is captured.
RegisteredQuantity(m) == orders[m.id].qty

\* The quantity capture_state reads back from the leaf.
CapturedQuantity(m) == m.qty

\* rebuild_from: the captured orders on a fresh book.
Rebuilt(s) == saved.leaves[s]

\* capture_state: the registered orders with their current quantities, the idempotency
\* map and the leaves' statuses. The rest is history.
Capture ==
    /\ Snapshots
    /\ saved' = [leaves |-> [s \in Symbol |->
                               {[m EXCEPT !.qty = CapturedQuantity(m)] :
                                   m \in {x \in leaves[s] : resting[x.id] # None
                                                            /\ resting[x.id].symbol = s}}],
                 resting |-> [i \in Ids |->
                                IF resting[i] # None /\ OnLeaf(i, resting[i].symbol)
                                THEN resting[i] ELSE None],
                 idempotency |-> idempotency, statuses |-> LeafStatus,
                 orders |-> orders, served |-> status]
    /\ UNCHANGED <<leaves, stp, resting, idToEngine, idempotency, status, seq, minted,
                   restarts, orders, last>>

\* prepare_restore and commit_restore: a bare executor is built from the cut and takes
\* the place of the live one. The epoch marker takes the sequence number.
Restore ==
    /\ saved # None
    /\ Turn("restore", None, None)
    /\ leaves' = [s \in Symbol |-> Rebuilt(s)] /\ resting' = saved.resting
    /\ idToEngine' = [o \in VenueOrderId |->
                        LET held == {i \in Ids : saved.resting[i] # None
                                                 /\ saved.resting[i].order = o}
                        IN  IF held = {} THEN None ELSE CHOOSE i \in held : \A j \in held : j <= i]
    /\ idempotency' = saved.idempotency
    /\ status' = [s \in Symbol |-> "Active"]
    /\ stp' = "None"
    /\ orders' = saved.orders
    /\ UNCHANGED <<minted, restarts, saved>>

\* The process restarts: recovery rebuilds the executor and the maker's counter, the
\* gateways' counter begins again. (A restart after a restore is SnapshotRestore's.)
Restart ==
    /\ restarts < MaxRestarts /\ saved = None
    /\ restarts' = restarts + 1
    /\ minted' = [minted EXCEPT !["gateway"] = 0]
    /\ UNCHANGED <<leaves, stp, resting, idToEngine, idempotency, status, seq, saved,
                   orders, last>>
-----------------------------------------------------------------------------
\* The ids a client may name: those the venue holds and one that it does not.
Named == LET unknown == {o \in VenueOrderId : idToEngine[o] = None} IN
         (VenueOrderId \ unknown) \cup {CHOOSE o \in unknown : TRUE}

Client ==
    \E a \in Account :
        \/ \E t \in Terms, key \in (IF a = MarketMaker THEN {} ELSE ClientOrderId) \cup {None} :
              AddOrder(a, t, key)
        \/ \E s \in Symbol, o \in Named : CancelOrder(a, s, o)
        \/ \E o \in Named, t \in Terms : Replace(a, o, t)
        \/ \E scope \in SUBSET Symbol \ {{}} :
              \/ \E side \in Side : MassCancel(a, scope, {side}, Owner)
              \/ \E b \in Account : MassCancel(a, scope, Side, {OwnerOf(b)})

Venue ==
    \/ \E s \in Symbol, to \in Status : SetInstrumentStatus(s, to)
    \/ \E scope \in SUBSET Symbol \ {{}} : MassCancelAll(scope)
    \/ Kill
    \/ EvictExpired

Next == Client \/ Venue \/ Capture \/ Restore \/ Restart

Spec == Init /\ [][Next]_vars
-----------------------------------------------------------------------------
(* Properties.                                                              *)

\* Type correctness.
TypeOK ==
    /\ \A s \in Symbol : \A m \in leaves[s] : m \in LeafOrder
    /\ resting \in [Ids -> Identity \cup {None}]
    /\ idToEngine \in [VenueOrderId -> Ids \cup {None}]
    /\ idempotency \in [Account \X ClientOrderId -> Entry \cup {None}]
    /\ status \in [Symbol -> Status \cup {"Active"}]
    /\ seq \in 0 .. MaxSeq + 1
    /\ stp \in {"None", StpMode}

\* Every order on a leaf is registered with its own identity and every registered
\* order is on its leaf: no fill, sweep, eviction or restore lets the two drift.
RegistryMatchesBook ==
    \A i \in Ids, s \in Symbol :
        OnLeaf(i, s) <=> resting[i] # None /\ resting[i].symbol = s

\* "Both maps in lockstep": each resting order can be reached by its venue order id,
\* and an id reaches nothing else. The code does not keep this over a restart: see the
\* README.
MapsInLockstep ==
    /\ \A i \in Ids : resting[i] # None => idToEngine[resting[i].order] = i
    /\ \A o \in VenueOrderId : idToEngine[o] # None =>
          resting[idToEngine[o]] # None /\ resting[idToEngine[o]].order = o

\* A resting order's quantity is what it was placed for less its reported fills, over
\* partial fills, restores and restarts, and nobody is filled beyond that.
QuantityConserved ==
    /\ \A s \in Symbol : \A m \in leaves[s] :
          orders[m.id] # None /\ m.qty = orders[m.id].qty - orders[m.id].filled
    /\ \A i \in Ids : orders[i] # None => orders[i].filled <= orders[i].qty

\* The maker's leg of every fill goes to the account that placed the maker.
MakersAttributed == \A i \in Ids : orders[i] # None => ~ orders[i].misattributed

\* One (account, client order id) opens at most one order, however often it is sent.
OneOrderPerKey ==
    \A i, j \in Ids :
        /\ orders[i] # None /\ orders[j] # None /\ orders[i].key # None
        /\ orders[i].key = orders[j].key /\ orders[i].account = orders[j].account
        => i = j

\* No book is left crossed.
NeverCrossed ==
    \A s \in Symbol : \A b, a \in leaves[s] :
        b.side = "buy" /\ a.side = "sell" => b.price < a.price

\* An order leaves its book filled, or by its own account, or by self-trade prevention
\* of its owner, or by the venue; never by another account's command.
RemovedForAReason ==
    [][\A s \in Symbol : \A m \in leaves[s] :
          (\A x \in leaves'[s] : x.id # m.id) =>
              \/ orders'[m.id] # None /\ orders'[m.id].filled = orders'[m.id].qty
              \/ last'.kind \in {"cancel", "replace", "massCancel"}
                     /\ last'.account = orders[m.id].account
              \/ last'.kind \in {"add", "replace"} /\ last'.owner = m.owner /\ stp # "None"
              \/ last'.kind \in {"venue", "restore"}]_vars

\* "A halted/settling/expired book refuses new orders": every order that entered a book
\* did so while the instrument was accepting orders. The code does not keep this (a
\* replace): see the README.
OnlyActiveBooksTakeOrders == \A i \in Ids : orders[i] # None => orders[i].active

\* "A restore keeps a Halted / Settling / Expired instrument non-accepting instead of
\* silently reactivating it": the restored statuses are the captured ones. The code does
\* not keep this: see the README.
RestoreKeepsStatus == last.kind = "restore" => status = saved.served

\* "Every leaf inherits the identical fee schedule, STP mode, and contract specs": with
\* self-trade prevention on, no order trades with its own owner. The code does not keep
\* this after a restore: see the README.
NoSelfTrade == StpMode # "None" => \A i \in Ids : orders[i] # None => ~ orders[i].selfTrade

\* The registry stands for the books: types, every resting order registered on its leaf and
\* nothing else, and each maker's leg reported to the account that placed it.
RegistryIsSound == TypeOK /\ RegistryMatchesBook /\ MakersAttributed

\* The books themselves: quantities are conserved and no book is left crossed.
BooksAreSound == QuantityConserved /\ NeverCrossed
=============================================================================
