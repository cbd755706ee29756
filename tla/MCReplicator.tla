---------------------------- MODULE MCReplicator ----------------------------
(* The waits on a replicator, on a small instance *)
EXTENDS Replicator, TLC

=============================================================================
