------------------------- MODULE MCMatchingExecutor -------------------------
(* Two clients that share an STP owner, and the market maker.                *)
EXTENDS MatchingExecutor

MCOwnerOf(a) == IF a \in {"alice", "alice2"} THEN "alice" ELSE a
=============================================================================
