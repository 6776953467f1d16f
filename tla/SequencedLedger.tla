--------------------------- MODULE SequencedLedger ---------------------------
(***************************************************************************)
(* What one underlying of the venue promises, with no journal protocol, no *)
(* crash and no recovery in it: commands are put into one total order,     *)
(* each is executed exactly once, in that order, by a deterministic        *)
(* executor, and the only outcome anybody is ever told for a sequence      *)
(* number is the outcome that order gives.                                 *)
(*                                                                         *)
(* The write-ahead turn protocol of UnderlyingActor implements it.         *)
(***************************************************************************)
EXTENDS Naturals

CONSTANTS Command,          \* the commands a gateway can submit
          InitBook,         \* the state of a fresh executor
          NextBook(_, _),   \* NextBook(b, c): the state after executing c in b
          Outcome(_, _),    \* Outcome(b, c): the outcome captured by that execution
          MaxSeq,           \* the last sequence number (u64::MAX in the code)
          None              \* "no entry"

VARIABLES ledger,     \* ledger[n]: the command sequenced at n and its outcome, or None
          state,      \* the executor state after the whole ledger
          told        \* the set of [seq, outcome] pairs callers have been told

lvars == <<ledger, state, told>>

LedgerSeqs == 0 .. MaxSeq

LedgerInit ==
    /\ ledger = [n \in LedgerSeqs |-> None]
    /\ state = InitBook
    /\ told = {}

\* Command c takes the first free sequence number n and executes.
Sequence(n, c) ==
    /\ \A m \in LedgerSeqs : ledger[m] # None <=> m < n
    /\ ledger' = [ledger EXCEPT ![n] = [cmd |-> c, outcome |-> Outcome(state, c)]]
    /\ state' = NextBook(state, c)
    /\ UNCHANGED told

\* Somebody is told the outcome at a taken sequence number.
Tell(n) ==
    /\ ledger[n] # None
    /\ told' = told \cup {[seq |-> n, outcome |-> ledger[n].outcome]}
    /\ UNCHANGED <<ledger, state>>

LedgerNext ==
    \E n \in LedgerSeqs : Tell(n) \/ \E c \in Command : Sequence(n, c)

LedgerSpec == LedgerInit /\ [][LedgerNext]_lvars
=============================================================================
