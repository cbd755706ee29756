-------------------------- MODULE MCChangesTracker --------------------------
(* Small instances of the changes tracker: two documents and a principal.     *)
EXTENDS ChangesTracker

CONSTANTS d1, d2, p1, t1, t2, w1, w2

\* One test waits for exact revisions, the other compares generations.
MCPrefix == [w \in Waiters |-> w = w2]
=============================================================================
