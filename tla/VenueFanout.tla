---------------------------- MODULE VenueFanout ----------------------------
(***************************************************************************)
(* The commands callers drive across several actors without a lock: the    *)
(* venue-global fan-out (wide mass cancels, evictions, markers) and the    *)
(* scheduled expiry roll, which strings such a mass cancel and one status  *)
(* change per contract together and records the phase it has reached. Any  *)
(* number of callers and the roll are under way at once.                   *)
(*                                                                         *)
(* An actor's answer is a commit or a refusal that changes nothing; what   *)
(* happens inside a turn is the matter of UnderlyingActor, and what a      *)
(* control does to the market maker that of MarketMaker.                   *)
(***************************************************************************)
EXTENDS Integers, Sequences, FiniteSets, SequencesExt

CONSTANTS
  Caller,       \* the tasks that drive a venue-global command
  Tickers,      \* the hosted underlyings, in sorted order
  Symbol,       \* contracts of one expiration day
  UnderlyingOf, \* the underlying of each contract
  ExpiryTime, SettlementTime,  \* the operational instants of that day
  MaxTime       \* bound: the last instant of the venue clock

TheRoll == "expiry roll"

ASSUME FanoutAssumption ==
  /\ TheRoll \notin Caller
  /\ Tickers \in Seq(STRING) /\ Tickers # <<>> /\ IsInjective(Tickers)
  /\ IsFiniteSet(Symbol)
  /\ UnderlyingOf \in [Symbol -> Range(Tickers)]
  /\ ExpiryTime \in Nat /\ SettlementTime \in Nat /\ ExpiryTime <= SettlementTime
  /\ MaxTime \in Nat

VARIABLES
  now,      \* the venue clock
  listed,   \* SymbolIndex: the vivified contracts
  status,   \* the status registry of the executors
  live,     \* the contracts on which an order of the client rests
  phase,    \* AppState::expiry_phases, per underlying
  roll,     \* the expiry roll in progress
  fan,      \* per task, the venue-global command in progress, or its last one
  covered,  \* history: the contracts of the roll that recorded the phase
  exposed   \* history: orders a roll has had no chance to sweep

vars == <<now, listed, status, live, phase, roll, fan, covered, exposed>>
book == <<listed, status, live, exposed>>

Underlying == Range(Tickers)
Task       == Caller \cup {TheRoll}
Statuses   == {"Active", "Halted", "Settling", "Expired"}
Of(u)      == {s \in Symbol : UnderlyingOf[s] = u}

PreExpiry == 0
Settling  == 1
Expired   == 2

NoRoll == [todo |-> <<>>, target |-> PreExpiry, symbols |-> {}, groups |-> <<>>, on |-> FALSE]
\* old: the orders that rested when a mass cancel began and have not left since
NoFan  == [kind |-> "none", todo |-> <<>>, ok |-> {}, bad |-> {}, old |-> {}]

Init ==
  /\ now = 0
  /\ listed = {}
  /\ status = [s \in Symbol |-> "Active"]
  /\ live = {}
  /\ phase = [u \in Underlying |-> PreExpiry]
  /\ roll = NoRoll
  /\ fan = [c \in Task |-> NoFan]
  /\ covered = [u \in Underlying |-> {}]
  /\ exposed = {}

(***************************************************************************)
(* What an actor does with a command it commits                            *)
(***************************************************************************)

CanTransition(from, to) ==
  \/ from = to
  \/ from \in {"Active", "Halted"}
  \/ from = "Settling" /\ to = "Expired"

(* try_transition: an illegal change is journaled as Rejected, and is Ok *)
Commit(cmd) ==
  IF cmd.kind = "status"
  THEN /\ status' = IF CanTransition(status[cmd.symbol], cmd.to)
                    THEN [status EXCEPT ![cmd.symbol] = cmd.to]
                    ELSE status
       /\ listed' = listed \cup {cmd.symbol}
       /\ UNCHANGED <<live, exposed>>
  ELSE UNCHANGED book

(***************************************************************************)
(* Traders and the operator, on the direct path to one actor               *)
(***************************************************************************)

(* the roll's sweep has been on u, and its phase is not recorded yet *)
Swept(u) ==
  /\ roll.todo # <<>> /\ Head(roll.groups) = u
  /\ Head(roll.todo).kind # "sweep" \/ u \in fan[TheRoll].ok

(* an order that has left a book is not one a mass cancel still has to take *)
WithoutOld(gone) == [c \in Task |-> [fan[c] EXCEPT !.old = @ \ gone]]

AddOrder(s) ==
  /\ s \notin live
  /\ status[s] = "Active"
  /\ live' = live \cup {s}
  /\ listed' = listed \cup {s}
  /\ exposed' = IF Swept(UnderlyingOf[s]) \/ phase[UnderlyingOf[s]] >= Settling
                THEN exposed \cup {s} ELSE exposed
  /\ UNCHANGED <<now, status, phase, roll, fan, covered>>

CancelOrder(s) ==
  /\ s \in live
  /\ live' = live \ {s}
  /\ exposed' = exposed \ {s}
  /\ fan' = WithoutOld({s})
  /\ UNCHANGED <<now, listed, status, phase, roll, covered>>

SubmitSetInstrumentStatus(s) ==
  /\ \E to \in {"Halted", "Active"} :
       /\ to # status[s]
       /\ Commit([kind |-> "status", symbol |-> s, to |-> to])
  /\ UNCHANGED <<now, phase, roll, fan, covered>>

(***************************************************************************)
(* submit_venue_global and submit_mass_cancel: one await per underlying,   *)
(* in order, going on after a refusal. Nothing is held across the awaits.  *)
(***************************************************************************)

Fresh(kind) == [kind |-> kind, todo |-> Tickers, ok |-> {}, bad |-> {},
                old |-> IF kind = "sweep" THEN live ELSE {}]

FanStart(c, kind) ==
  /\ fan[c].todo = <<>>
  /\ fan' = [fan EXCEPT ![c] = Fresh(kind)]
  /\ UNCHANGED <<now, phase, roll, covered, book>>

LegsOfActive(u) == {s \in live \cap Of(u) : status[s] = "Active"}

(* the legs of a committed sweep *)
LegsOf(u) == live \cap Of(u)

(* An eviction takes the orders whose time in force has lapsed, a marker   *)
(* or a control none of them.                                              *)
FanCommits(c) ==
  /\ fan[c].todo # <<>>
  /\ \E legs \in (IF fan[c].kind = "sweep" THEN {LegsOf(Head(fan[c].todo))}
                   ELSE SUBSET (live \cap Of(Head(fan[c].todo)))) :
       /\ fan' = [WithoutOld(legs) EXCEPT ![c].todo = Tail(@),
                                          ![c].ok = @ \cup {Head(fan[c].todo)}]
       /\ live' = live \ legs
       /\ exposed' = exposed \ legs
  /\ UNCHANGED <<now, listed, status, phase, roll, covered>>

GoOn(todo) == Tail(todo)

FanRefused(c) ==
  /\ fan[c].todo # <<>>
  /\ fan' = [fan EXCEPT ![c].todo = GoOn(@), ![c].bad = @ \cup {Head(fan[c].todo)}]
  /\ UNCHANGED <<now, phase, roll, covered, book>>

(* the answer is ready: ok_count of total, or the first error if none is ok *)
FanDone(c) == fan[c].kind # "none" /\ fan[c].todo = <<>>

(***************************************************************************)
(* run_expiry_roll                                                         *)
(***************************************************************************)

PhaseAt(t) ==
  IF t >= SettlementTime THEN Expired ELSE IF t >= ExpiryTime THEN Settling ELSE PreExpiry

Legs(symbols, to) ==
  LET order == SetToSeq(symbols)
  IN  [i \in DOMAIN order |-> [kind |-> "status", symbol |-> order[i], to |-> to]]

NoSweep(symbols, from, to) ==
  (IF from < Settling THEN Legs(symbols, "Settling") ELSE <<>>)
    \o (IF to >= Expired THEN Legs(symbols, "Expired") ELSE <<>>)

TransitionCommands(symbols, from, to) ==
  (IF from < Settling
   THEN <<[kind |-> "sweep"]>> \o Legs(symbols, "Settling") ELSE <<>>)
    \o (IF to >= Expired THEN Legs(symbols, "Expired") ELSE <<>>)

(* The contracts are read once; the groups follow in sorted order. *)
RollStart ==
  /\ ~roll.on
  /\ PhaseAt(now) > PreExpiry
  /\ roll' = [NoRoll EXCEPT !.on = TRUE, !.symbols = listed, !.target = PhaseAt(now),
                !.groups = SelectSeq(Tickers, LAMBDA u : Of(u) \cap listed # {})]
  /\ UNCHANGED <<now, phase, fan, covered, book>>

Group == Head(roll.groups)
Mine  == roll.symbols \cap Of(Group)

(* the group's commands, unless its phase has been reached already *)
RollGroup ==
  /\ roll.on /\ roll.groups # <<>> /\ roll.todo = <<>>
  /\ IF roll.target <= phase[Group]
     THEN roll' = [roll EXCEPT !.groups = Tail(@)]
     ELSE roll' = [roll EXCEPT !.todo = TransitionCommands(Mine, phase[Group], roll.target)]
  /\ UNCHANGED <<now, phase, fan, covered, book>>

(* The last command of the group has committed: record the phase. *)
Recorded(rest, u) ==
  IF rest = <<>>
  THEN /\ roll' = [roll EXCEPT !.todo = <<>>, !.groups = Tail(@)]
       /\ phase' = [phase EXCEPT ![u] = roll.target]
       /\ covered' = [covered EXCEPT ![u] = Mine]
  ELSE /\ roll' = [roll EXCEPT !.todo = rest]
       /\ UNCHANGED <<phase, covered>>

RollStatus ==
  /\ roll.todo # <<>>
  /\ Head(roll.todo).kind = "status"
  /\ Commit(Head(roll.todo))
  /\ Recorded(Tail(roll.todo), Group)
  /\ UNCHANGED <<now, fan>>

(* The sweep is a venue-global command like any other. *)
RollSweep ==
  /\ roll.todo # <<>>
  /\ Head(roll.todo).kind = "sweep"
  /\ fan[TheRoll].kind = "none"
  /\ fan' = [fan EXCEPT ![TheRoll] = Fresh("sweep")]
  /\ UNCHANGED <<now, phase, roll, covered, book>>

SkipCommand == Recorded(Tail(roll.todo), Group)

(* the first refused command ends the group, whose phase stays *)
LeaveGroup ==
  /\ roll' = [roll EXCEPT !.todo = <<>>, !.groups = Tail(@)]
  /\ UNCHANGED <<phase, covered>>

(* It is Ok when any underlying has committed it, the group's own or not. *)
RollSwept ==
  /\ FanDone(TheRoll)
  /\ IF fan[TheRoll].ok # {}
     THEN /\ Recorded(Tail(roll.todo), Group)
          /\ exposed' = IF Group \in fan[TheRoll].bad
                        THEN exposed \cup (live \cap Of(Group)) ELSE exposed
     ELSE LeaveGroup /\ UNCHANGED exposed
  /\ fan' = [fan EXCEPT ![TheRoll] = NoFan]
  /\ UNCHANGED <<now, listed, status, live>>

RollRefused ==
  /\ roll.todo # <<>>
  /\ Head(roll.todo).kind = "status"
  /\ LeaveGroup
  /\ UNCHANGED <<now, fan, book>>

RollEnd ==
  /\ roll.on /\ roll.groups = <<>>
  /\ roll' = NoRoll
  /\ UNCHANGED <<now, phase, fan, covered, book>>

(***************************************************************************)
(* The clock, and a restart                                                *)
(***************************************************************************)

Tick ==
  /\ now < MaxTime
  /\ now' = now + 1
  /\ UNCHANGED <<phase, roll, fan, covered, book>>

(* The executors are replayed; the phases and the callers are not. *)
Restart ==
  /\ phase' = [u \in Underlying |-> PreExpiry]
  /\ covered' = [u \in Underlying |-> {}]
  /\ roll' = NoRoll
  /\ fan' = [c \in Task |-> NoFan]
  /\ UNCHANGED <<now, book>>

Client == \E s \in Symbol : AddOrder(s) \/ CancelOrder(s) \/ SubmitSetInstrumentStatus(s)
Fan    == \/ \E c \in Caller, kind \in {"sweep", "other"} : FanStart(c, kind)
          \/ \E c \in Task : FanCommits(c) \/ FanRefused(c)
Roll   == RollStart \/ RollGroup \/ RollStatus \/ RollSweep \/ RollSwept \/ RollRefused \/ RollEnd

Next == Client \/ Fan \/ Roll \/ Tick \/ Restart

Spec == Init /\ [][Next]_vars

-----------------------------------------------------------------------------
(***************************************************************************)
(* Properties                                                              *)
(***************************************************************************)

(* The types of the state.                                                 *)
TypeOK ==
  /\ now \in 0..MaxTime
  /\ listed \subseteq Symbol /\ live \subseteq listed /\ exposed \subseteq live
  /\ status \in [Symbol -> Statuses]
  /\ phase \in [Underlying -> PreExpiry..Expired]
  /\ covered \in [Underlying -> SUBSET listed]
  /\ roll.target \in PreExpiry..Expired /\ roll.symbols \subseteq listed

(* A fan-out neither forgets an underlying nor asks one twice, refusals or *)
(* not: what it has to ask and what has answered are all of them.          *)
AsksEachOnce ==
  \A c \in Task : fan[c].kind # "none" =>
    /\ Len(fan[c].todo) + Cardinality(fan[c].ok) + Cardinality(fan[c].bad) = Len(Tickers)
    /\ fan[c].ok \cup fan[c].bad \cup Range(fan[c].todo) = Underlying

(* The summary a mass cancel answers with is true of the books, whatever   *)
(* the other mass cancels, the roll and the traders did between its        *)
(* awaits: an order that rested when it began and has rested ever since is *)
(* on an underlying that refused it, so an unqualified success leaves none.*)
SummaryIsTrue ==
  \A c \in Task : FanDone(c) /\ fan[c].kind = "sweep" =>
    /\ \A s \in fan[c].old : UnderlyingOf[s] \in fan[c].bad
    /\ fan[c].ok = Underlying => fan[c].old = {}

(* A recorded phase stands for closed books: every contract the roll saw   *)
(* is in the status of the phase, through refused commands, retries from   *)
(* the old phase, an operator's resume and a second roll after a restart.  *)
RolledIsClosed ==
  \A u \in Underlying : \A s \in covered[u] :
    /\ phase[u] = Settling => status[s] \in {"Settling", "Expired"}
    /\ phase[u] = Expired => status[s] = "Expired"

(* What rests on a rolled contract is only what the roll could not take: an *)
(* order that came after its sweep had been on the underlying, or one whose *)
(* underlying refused the sweep while another one committed it. A contract  *)
(* listed after the roll had read the index is none of its contracts and    *)
(* trades on: an order that comes on it once the phase is recorded counts   *)
(* as exposed too, since no later roll of the day sweeps again.             *)
RolledRestsOnlyExposed ==
  \A u \in Underlying :
    phase[u] >= Settling => covered[u] \cap live \subseteq exposed

(* "an instrument is never recorded Settling / Expired while a MassCancel  *)
(* or status transition did not commit and resting orders may remain live" *)
(* The code does not keep this: see the README.                            *)
NeverRecordedWhileLive ==
  \A u \in Underlying : phase[u] >= Settling => live \cap Of(u) = {}

(* Every fan-out under way asks each underlying once, and what a mass      *)
(* cancel among them answers is true, however many there are.              *)
FanoutIsTrue == TypeOK /\ AsksEachOnce /\ SummaryIsTrue
=============================================================================
