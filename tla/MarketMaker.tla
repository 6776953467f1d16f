----------------------------- MODULE MarketMaker -----------------------------
(***************************************************************************)
(* Generated liquidity: the price simulator, the step sink that sequences  *)
(* a price before it drives the market maker, the maker's cancel-and-add   *)
(* requotes through a bounded sink, the sequenced kill switch, and the     *)
(* reconciliation of all of it with the journals at boot                   *)
(* (simulation/simulator.rs, simulation/sink.rs, market_maker/engine.rs,   *)
(* market_maker/sink.rs, market_maker/control_hub.rs, seed.rs, state.rs).  *)
(*                                                                         *)
(* Four tasks take turns: the simulator and the operators, the step        *)
(* forwarder (which runs the maker), the command forwarder, and the actors *)
(* of the underlyings, which execute what the forwarders submit. A price   *)
(* is the ordinal of its step; what a quote costs is not modelled.         *)
(***************************************************************************)
EXTENDS Integers, Sequences, FiniteSets, SequencesExt

CONSTANTS
    Underlying,      \* the underlyings, in the order of their tickers
    Contracts,       \* [Book -> Seq of the contracts registered for quoting]
    SinkCapacity,    \* commands the maker's sink holds
    StepCapacity,    \* steps the simulator's sink holds
    Operator,        \* the requests that may carry a control at the same time
    MaxSteps, MaxIds, MaxControls, MaxRestarts,   \* bounds of the model
    None

Book == Range(Underlying)
Contract == UNION {Range(Contracts[u]) : u \in Book}
Side == {"bid", "ask"}

\* A venue-wide control is refused where no underlying is hosted, a ticker is hosted once, and
\* the symbol of a contract names its underlying.
ASSUME MakerAssumption ==
    /\ {SinkCapacity, StepCapacity} \subseteq Nat \ {0}
    /\ {MaxSteps, MaxIds, MaxControls, MaxRestarts} \subseteq Nat
    /\ Underlying \in Seq(Book) /\ Underlying # <<>> /\ IsInjective(Underlying)
    /\ Contracts \in [Book -> Seq(Contract)]
    /\ \A u, v \in Book : u # v => Range(Contracts[u]) \cap Range(Contracts[v]) = {}
    /\ None \notin Nat /\ None \notin BOOLEAN
    /\ \A on \in BOOLEAN, left \in Suffixes(Underlying) : None # [on |-> on, left |-> left]

VARIABLES
    sequenced, \* [Book -> steps the underlying has journaled]
    adds,      \* [Book -> Seq of the maker's adds it has journaled]
    switch,    \* [Book -> the last control it has journaled, or None]
    book,      \* [Book -> maker orders resting]
    steps,     \* the step sink's channel
    drive,     \* the step forwarder: idle, or requoting after a sequenced step
    legs,      \* [Contract -> [Side -> the order the maker believes to be resting]]
    nextId,    \* the maker's id counter
    todo,      \* commands of the requote in progress, not yet handed to the sink
    queue,     \* the command sink's channel
    enabled,   \* the maker's master switch
    control,   \* [Operator -> the control it carries to the underlyings, or None]
    made,      \* prices made so far
    issued,    \* controls issued so far
    restarts,
    orphans,   \* orders whose cancel was dropped or refused
    stale,     \* history: the last underlying refused a control after the last one it committed
    swept      \* history: [Book -> the kill it committed last, with what it had journaled then;
               \*           none once the maker is on again]

vars == <<sequenced, adds, switch, book, steps, drive, legs, nextId, todo, queue, enabled, control,
          made, issued, restarts, orphans, stale, swept>>
journal == <<sequenced, adds, switch>>
maker == <<drive, legs, nextId, todo>>
operator == <<enabled, control, issued, stale, swept>>

NoLegs == [s \in Side |-> None]
Parked == [pc |-> "idle"]

Init ==
    /\ sequenced = [u \in Book |-> {}]
    /\ adds = [u \in Book |-> <<>>]
    /\ switch = [u \in Book |-> None]
    /\ book = [u \in Book |-> {}]
    /\ steps = <<>> /\ queue = <<>> /\ todo = <<>>
    /\ drive = Parked
    /\ legs = [c \in Contract |-> NoLegs]
    /\ nextId = 0
    /\ enabled = TRUE
    /\ control = [o \in Operator |-> None]
    /\ made = 0 /\ issued = 0 /\ restarts = 0
    /\ orphans = {}
    /\ stale = FALSE
    /\ swept = [u \in Book |-> {}]
-----------------------------------------------------------------------------
(* The simulator *)

StepRecord(u, n) == [u |-> u, n |-> n]

\* emit and apply_step: a price inside the band goes to the bounded channel; a full channel
\* or a price outside the band drops the step, and nothing changes.
Emit(u) ==
    /\ Len(steps) < StepCapacity /\ made < MaxSteps
    /\ made' = made + 1
    /\ steps' = Append(steps, StepRecord(u, made + 1))

\* step_once serves the next price of an asset's walk, set_price one that was chosen by hand
\* or as the opening price of a seeded underlying. Where the walk stands is not modelled: any
\* asset may have a next price or none (a dormant one, a walk that fails to regenerate).
Price(u) ==
    /\ Emit(u)
    /\ UNCHANGED <<journal, book, maker, queue, operator, restarts, orphans>>
-----------------------------------------------------------------------------
(* The step forwarder and the requote *)

\* A bug: a step the actor refused drives the maker like any other.
DriveAnyway(s, ok) == [pc |-> "drive", step |-> s]

\* Only a sequenced step drives the maker.
DriveAfter(s, ok) == IF ok THEN [pc |-> "drive", step |-> s] ELSE Parked

\* One step is submitted; the actor journals it, or the submission is refused.
ForwardStep(ok) ==
    /\ drive = Parked /\ steps # <<>>
    /\ LET s == Head(steps) IN
       /\ drive' = DriveAfter(s, ok)
       /\ sequenced' = IF ok THEN [sequenced EXCEPT ![s.u] = @ \cup {s.n}] ELSE sequenced
    /\ steps' = Tail(steps)
    /\ UNCHANGED <<adds, switch, book, legs, nextId, todo, queue, operator, made, restarts, orphans>>

\* update_price: an enabled maker requotes the underlying's contracts at the new price.
UpdatePrice ==
    /\ drive.pc = "drive"
    /\ drive' = IF enabled THEN [pc |-> "quote", step |-> drive.step,
                                 left |-> Contracts[drive.step.u]]
                ELSE Parked
    /\ UNCHANGED <<journal, book, steps, legs, nextId, todo, queue, operator, made,
                   restarts, orphans>>

CancelOf(u, id) == [op |-> "cancel", u |-> u, id |-> id]
AddOf(u, c, side, id, n) ==
    [op |-> "add", u |-> u, contract |-> c, side |-> side, id |-> id, for |-> n]

\* A bug: the legs being replaced are not cancelled.
NoCancels(u, old) == <<>>

\* The prior legs, bid before ask.
CancelsOf(u, old) ==
    LET Of(id) == IF id = None THEN <<>> ELSE <<CancelOf(u, id)>>
    IN  Of(old["bid"]) \o Of(old["ask"])

\* update_quote: the prior legs are forgotten and the new ones registered before any
\* command is handed over.
UpdateQuote ==
    LET u == drive.step.u
        c == Head(drive.left)
        bid == nextId + 1
        ask == nextId + 2
    IN  /\ drive.pc = "quote" /\ drive.left # <<>> /\ todo = <<>>
        /\ ask <= MaxIds
        /\ nextId' = ask
        /\ legs' = [legs EXCEPT ![c] = [s \in Side |-> IF s = "bid" THEN bid ELSE ask]]
        /\ todo' = CancelsOf(u, legs[c]) \o <<AddOf(u, c, "bid", bid, drive.step.n),
                                              AddOf(u, c, "ask", ask, drive.step.n)>>
        /\ drive' = [drive EXCEPT !.left = Tail(@)]
        /\ UNCHANGED <<journal, book, steps, queue, operator, made, restarts,
                       orphans>>

\* An expired contract, or no finite theoretical value: the contract keeps its quote.
SkipQuote ==
    /\ drive.pc = "quote" /\ drive.left # <<>> /\ todo = <<>>
    /\ drive' = [drive EXCEPT !.left = Tail(@)]
    /\ UNCHANGED <<journal, book, steps, legs, nextId, todo, queue, operator, made,
                   restarts, orphans>>

RequoteDone ==
    /\ drive.pc = "quote" /\ drive.left = <<>> /\ todo = <<>>
    /\ drive' = Parked
    /\ UNCHANGED <<journal, book, steps, legs, nextId, todo, queue, operator, made,
                   restarts, orphans>>

Orphaned(m) == IF m.op = "cancel" THEN orphans \cup {m.id} ELSE orphans

\* enqueue: a try_send; a full channel drops the command.
Enqueue ==
    /\ todo # <<>>
    /\ todo' = Tail(todo)
    /\ IF Len(queue) < SinkCapacity
       THEN queue' = Append(queue, Head(todo)) /\ UNCHANGED orphans
       ELSE orphans' = Orphaned(Head(todo)) /\ UNCHANGED queue
    /\ UNCHANGED <<journal, book, steps, drive, legs, nextId, operator, made,
                   restarts>>
-----------------------------------------------------------------------------
(* The command forwarder and the actors *)

\* A command is executed: an add is journaled and rests (one that trades at once or is
\* refused is gone with the next step, as by Trade); a cancel takes the order off.
Execute ==
    LET m == Head(queue) IN
    /\ queue # <<>>
    /\ queue' = Tail(queue)
    /\ IF m.op = "add"
       THEN /\ adds' = [adds EXCEPT ![m.u] = Append(@, m)]
            /\ book' = [book EXCEPT ![m.u] = @ \cup {m.id}]
       ELSE book' = [book EXCEPT ![m.u] = @ \ {m.id}] /\ UNCHANGED adds
    /\ UNCHANGED <<sequenced, switch, steps, maker, operator, made, restarts, orphans>>

\* An add outside the price band, or a submission the mailbox refuses: never journaled.
DropCommand ==
    /\ queue # <<>>
    /\ queue' = Tail(queue)
    /\ orphans' = Orphaned(Head(queue))
    /\ UNCHANGED <<journal, book, steps, maker, operator, made, restarts>>

\* A client trades with a resting quote. The maker is not told.
Trade(u, id) ==
    /\ id \in book[u]
    /\ book' = [book EXCEPT ![u] = @ \ {id}]
    /\ UNCHANGED <<journal, steps, maker, queue, operator, made, restarts, orphans>>

\* kill_switch, set_enabled: a sequenced control, for every underlying in turn. No lock is
\* held: the controls of two operators interleave.
IssueControl(o, on) ==
    /\ control[o] = None /\ issued < MaxControls
    /\ issued' = issued + 1
    /\ control' = [control EXCEPT ![o] = [on |-> on, left |-> Underlying]]
    /\ UNCHANGED <<journal, book, steps, maker, queue, enabled, made, restarts, orphans, stale,
                   swept>>

\* A bug: the kill only writes the switch, as the maker's own apply_sequenced_control does.
KeepQuotes(on, resting) == resting

\* The MarketMakerControl arm of the executor: a kill cancels the maker's orders on the book of
\* the underlying in its own turn; an enable cancels nothing.
ApplyControl(on, resting) == IF on THEN resting ELSE {}

LastUnderlying == Underlying[Len(Underlying)]

\* The next underlying commits the control, or the submission is refused there and the loop
\* goes on.
ControlTurn(o, committed) ==
    LET on == control[o].on
        u == Head(control[o].left)
        rest == Tail(control[o].left)
    IN  /\ control[o] # None
        /\ control' = [control EXCEPT ![o] = IF rest = <<>> THEN None
                                             ELSE [on |-> on, left |-> rest]]
        /\ stale' = IF u = LastUnderlying THEN ~committed ELSE stale
        /\ IF committed
           THEN /\ switch' = [switch EXCEPT ![u] = on]
                /\ enabled' = on
                /\ book' = [book EXCEPT ![u] = ApplyControl(on, @)]
                /\ swept' = IF on THEN [v \in Book |-> {}]
                            ELSE [swept EXCEPT ![u] = {[adds |-> Len(adds[u]),
                                                        steps |-> sequenced[u]]}]
           ELSE UNCHANGED <<switch, enabled, book, swept>>
        /\ UNCHANGED <<sequenced, adds, steps, maker, queue, issued, made, restarts, orphans>>
-----------------------------------------------------------------------------
(* The process ends and boots *)

\* The last add per contract and side, whatever became of it.
RecoveredLeg(u, c, s) ==
    LET own == {i \in 1..Len(adds[u]) : adds[u][i].contract = c /\ adds[u][i].side = s}
    IN  IF own = {} THEN None ELSE adds[u][Max(own)].id

RecoveredLegs ==
    [c \in Contract |->
        LET u == CHOOSE v \in Book : c \in Range(Contracts[v])
        IN  [s \in Side |-> RecoveredLeg(u, c, s)]]

JournaledIds == UNION {{r.id : r \in Range(adds[u])} : u \in Book}

\* restore_recovered_producer, once per underlying: fetch_max.
RecoveredFloor == Max({0} \cup JournaledIds)

\* A bug: the switch is back at its default.
SwitchedOn == TRUE

\* The control histories of the underlyings, one after the other; the last one counts.
RecoveredSwitch ==
    LET told == {i \in 1..Len(Underlying) : switch[Underlying[i]] # None}
    IN  IF told = {} THEN TRUE ELSE switch[Underlying[Max(told)]]

\* The books come back by re-execution; every channel and every task is gone.
Restart ==
    /\ restarts < MaxRestarts
    /\ restarts' = restarts + 1
    /\ steps' = <<>> /\ queue' = <<>> /\ todo' = <<>> /\ drive' = Parked
    /\ legs' = RecoveredLegs
    /\ nextId' = RecoveredFloor
    /\ enabled' = RecoveredSwitch
    /\ control' = [o \in Operator |-> None]
    /\ stale' = FALSE
    /\ swept' = IF RecoveredSwitch THEN [u \in Book |-> {}] ELSE swept
    /\ UNCHANGED <<journal, book, made, issued, orphans>>
-----------------------------------------------------------------------------
Simulator == \E u \in Book : Price(u)

StepForwarder ==
    \/ \E ok \in BOOLEAN : ForwardStep(ok)
    \/ UpdatePrice
    \/ UpdateQuote
    \/ SkipQuote
    \/ RequoteDone
    \/ Enqueue

Actors ==
    \/ Execute
    \/ DropCommand
    \/ \E u \in Book : \E id \in book[u] : Trade(u, id)
    \/ \E o \in Operator, on \in BOOLEAN : IssueControl(o, on)
    \/ \E o \in Operator, committed \in BOOLEAN : ControlTurn(o, committed)

Next == Simulator \/ StepForwarder \/ Actors \/ Restart

Spec == Init /\ [][Next]_vars
-----------------------------------------------------------------------------
(* Properties *)

\* The types of the maker and the simulator.
TypeOK ==
    /\ \A u \in Book : book[u] \subseteq 1..MaxIds
    /\ Len(steps) <= StepCapacity /\ Len(queue) <= SinkCapacity
    /\ legs \in [Contract -> [Side -> 1..MaxIds \cup {None}]]
    /\ nextId \in 0..MaxIds /\ enabled \in BOOLEAN /\ stale \in BOOLEAN

\* Every generated quote is journaled behind the step that caused it, in the stream of its
\* own underlying, and never behind the quotes of a later step: what replay reads is a cause
\* before its effect. A step the sequencer refused has no quotes.
QuotesFollowSteps ==
    [][\A u \in Book : adds'[u] # adds[u] =>
          LET new == Last(adds'[u]).for IN
          new \in sequenced[u] /\ \A r \in Range(adds[u]) : r.for <= new]_vars

Pending == {m.id : m \in {x \in Range(queue) \cup Range(todo) : x.op = "cancel"}}
Tracked == {legs[c][s] : c \in Contract, s \in Side}

\* Replace, never accumulate: a quote that rests is one the maker tracks, or its cancel is
\* on the way, unless that cancel was dropped or refused. It holds over requotes that overlap
\* in the sink, dropped adds, trades the maker never hears of, and a crash at any point of
\* them, although the channels are lost and the legs are rebuilt from the adds alone.
NoUntrackedQuote ==
    TypeOK /\ UNION {book[u] : u \in Book} \subseteq Tracked \cup Pending \cup orphans

\* An order id of the maker enters the journals at most once, over all underlyings and over
\* restarts: a repeated one would overwrite the registry's entry of an order that rests.
IdsNeverReused ==
    \A u, v \in Book : \A i \in 1..Len(adds[u]), j \in 1..Len(adds[v]) :
        adds[u][i].id = adds[v][j].id => (u = v /\ i = j)

\* The switch survives the process: once no control is on its way, the maker is on or off as a
\* boot would find it from the control histories alone. Two operators may have interleaved a kill
\* with an enable, and any underlying but the last may have refused one of them. Only a control
\* that the last underlying refused, after an earlier one committed, is lost with the process.
SwitchSurvives ==
    ((\A o \in Operator : control[o] = None) /\ ~stale) => enabled = RecoveredSwitch

\* A kill empties the maker's book and stops it: while the maker stays off, over crashes too, an
\* order of the maker that rests on an underlying that committed the kill was journaled behind
\* the kill, for a price that had been sequenced before it. So it belongs to a requote that was
\* under way, and no later price is ever quoted.
KillSweeps ==
    \A u \in Book : \A kill \in swept[u] :
        /\ ~enabled
        /\ \A i \in 1..Len(adds[u]) : adds[u][i].id \in book[u] =>
              i > kill.adds /\ adds[u][i].for \in kill.steps

\* The maker's liquidity is accounted for: no quote rests untracked and no id is used twice.
QuotesAccounted == NoUntrackedQuote /\ IdsNeverReused
==============================================================================
