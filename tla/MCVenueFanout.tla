--------------------------- MODULE MCVenueFanout ---------------------------
EXTENDS VenueFanout, MicrostructureChecks, TLC

CONSTANTS b1, b2, k1, k2

Callers == Permutations(Caller)

(* the second underlying has no contract of this day: it only takes part *)
(* in the fan-outs                                                       *)
MCTickers == <<"BTC", "ETH">>
MCUnderlyingOf == b1 :> "BTC" @@ b2 :> "BTC"
=============================================================================
