--------------------------- MODULE MCMarketMaker ---------------------------
EXTENDS MarketMaker, SeedManifestChecks

CONSTANTS btc, eth, btcCall, ethCall, o1, o2

TwoUnderlyings == <<btc, eth>>
OneContractEach == [u \in {btc, eth} |-> IF u = btc THEN <<btcCall>> ELSE <<ethCall>>]
OperatorSymmetry == Permutations(Operator)
=============================================================================
