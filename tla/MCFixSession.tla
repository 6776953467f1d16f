---------------------------- MODULE MCFixSession ----------------------------
EXTENDS FixSession, FixWireChecks

CONSTANTS c1, c2, k1
MCConn == {c1, c2}
MCOrder == {k1}
MCFrameBytes(entry) == IF entry = [era |-> 1, seq |-> 1] THEN 2 ELSE 1
=============================================================================
