-------------------------------- MODULE MCUsers --------------------------------
(* A user with two documents and one with a single document.                       *)
EXTENDS Users

CONSTANTS u1, u2, d1, d2, d3

MCDocsOf == [u \in {u1, u2} |-> IF u = u1 THEN <<d1, d2>> ELSE <<d3>>]
===============================================================================
