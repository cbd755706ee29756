----------------------------- MODULE MCServerNodes -----------------------------
(* A primary and two other nodes.                                                  *)
EXTENDS ServerNodes

CONSTANTS n1, n2, n3
===============================================================================
