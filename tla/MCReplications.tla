---------------------------- MODULE MCReplications ----------------------------
(* One replication of sg-replicate 2, or the four tasks of one pair of databases.  *)
EXTENDS Replications
===============================================================================
