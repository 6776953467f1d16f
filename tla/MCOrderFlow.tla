---------------------------- MODULE MCOrderFlow ----------------------------
EXTENDS OrderFlow, OrderReportsChecks

CONSTANTS btc, eth, r1, f1, alice, k1, k2

MCUnderlying == <<btc, eth>>
MCRest == {r1}
MCFix == {f1}
MCAccountOf == (r1 :> alice) @@ (f1 :> alice)
MCKey == {k1, k2}
MCBatches == {<<[u |-> btc, key |-> k, qty |-> 1], None>> : k \in MCKey}
Symmetric == Permutations(MCKey)
=============================================================================
