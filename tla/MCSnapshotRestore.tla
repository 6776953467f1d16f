-------------------------- MODULE MCSnapshotRestore --------------------------
(* Snapshot and restore over the small executor of MCUnderlyingActor, and the *)
(* checks of the stores and of the journal that a snapshot is taken of.       *)
EXTENDS SnapshotRestore, MCUnderlyingActor, ReplayChecks
=============================================================================
