--------------------------- MODULE MCActorMailbox ---------------------------
EXTENDS ActorMailbox, VenueConfigChecks, TLC

CONSTANTS c1, c2, c3, c4
MCCallers == {c1, c2, c3, c4}
=============================================================================
