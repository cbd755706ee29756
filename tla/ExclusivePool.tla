---------------------------- MODULE ExclusivePool ----------------------------
(* What the pool of test machines promises to jobs, without processes, documents, *)
(* queries and retries: a node changes hands only through the pool, and a job     *)
(* works with the number of nodes it asked for, all of them its own.              *)
EXTENDS FiniteSets

CONSTANTS
    Nodes,
    Jobs,
    Num(_),    \* the number of nodes a job asks for
    Suits(_, _),  \* a node is of the kind a job asks for
    Nobody

VARIABLES
    owner,  \* for each node, the job it is booked by, or Nobody
    hands   \* for each job, the nodes it works with

poolVars == <<owner, hands>>

Init ==
    /\ owner = [n \in Nodes |-> Nobody]
    /\ hands = [j \in Jobs |-> {}]

\* A node that nobody has is booked for a job: one that suits it.
Book(j, n) ==
    /\ owner[n] = Nobody /\ Suits(n, j)
    /\ owner' = [owner EXCEPT ![n] = j]
    /\ UNCHANGED hands

\* The job gets its nodes, in full.  Nodes that were booked and did not answer stay behind.
Hand(j, S) ==
    /\ hands[j] = {} /\ \A n \in S : owner[n] = j
    /\ Cardinality(S) = Num(j)
    /\ hands' = [hands EXCEPT ![j] = S]
    /\ UNCHANGED owner

\* The job gives its nodes back, or is aborted.
GiveBack(j) ==
    /\ hands[j] # {}
    /\ hands' = [hands EXCEPT ![j] = {}]
    /\ UNCHANGED owner

\* A node becomes free again: never one that a job works with.
Free(n) ==
    /\ owner[n] # Nobody /\ n \notin hands[owner[n]]
    /\ owner' = [owner EXCEPT ![n] = Nobody]
    /\ UNCHANGED hands

Next ==
    \/ \E j \in Jobs, n \in Nodes : Book(j, n)
    \/ \E j \in Jobs, S \in SUBSET Nodes : Hand(j, S)
    \/ \E j \in Jobs : GiveBack(j)
    \/ \E n \in Nodes : Free(n)

Spec == Init /\ [][Next]_poolVars
=============================================================================
