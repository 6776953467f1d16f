-------------------------- MODULE MCUnderlyingActor --------------------------
(* The turn protocol over the smallest executor in which commands interact:   *)
(* one price level that rests at most one order, which an opposite order      *)
(* fills, and a command that leaves the book alone (a clock step).            *)
EXTENDS UnderlyingActor

MCOrders   == {"buy", "sell"}
MCCommands == MCOrders \cup {"clock"}
MCBook     == {"empty", "bid", "ask"}
MCInit     == "empty"
MCResult   == {"rested", "filled", "rejected", "applied"}
MCFilling  == {"filled"}

Resting(c)  == IF c = "buy" THEN "bid" ELSE "ask"
Opposite(c) == IF c = "buy" THEN "ask" ELSE "bid"

MCOutcome(b, c) ==
    CASE c = "clock"                       -> "applied"
      [] c # "clock" /\ b = "empty"        -> "rested"
      [] c # "clock" /\ b = Opposite(c)    -> "filled"
      [] c # "clock" /\ b = Resting(c)     -> "rejected"

MCNextBook(b, c) ==
    CASE MCOutcome(b, c) = "rested" -> Resting(c)
      [] MCOutcome(b, c) = "filled" -> "empty"
      [] OTHER                      -> b
=============================================================================
