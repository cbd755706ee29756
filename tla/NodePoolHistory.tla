--------------------------- MODULE NodePoolHistory ---------------------------
(* The node pool with a history variable that marks the nodes on which the        *)
(* invocations of the script can get in each other's way.  It says what exclusion *)
(* is worth when jobs and cleanups overlap, which nothing in the script prevents. *)
EXTENDS NodePool

VARIABLE
    taken  \* nodes written over while a job held them, as long as one holds them

\* The nodes a job holds, with the one that it has just booked and not yet listed.
Holds(j) == Held(j) \cup IF pc[j] = "alive" /\ got[j] THEN {cur[j]} ELSE {}

\* The two blind writes: a reservation that read the document as booked and replaces it
\* all the same, and a cleanup, which never asks whether the job still runs.
BooksBooked(j) ==
    /\ pc[j] = "replace" /\ pc'[j] # "replace" /\ fresh[j] /\ ~fresh'[j]
    /\ seen[j].state = "booked"

Unblocks(c) == pc[c] = "unblock" /\ pc'[c] = "sweep"

WrittenOver ==
    {cur[j] : j \in {i \in Jobs : BooksBooked(i)}}
      \cup {cur[c] : c \in {d \in Cleaners : Unblocks(d)}}

Marks == taken' = {n \in taken \cup WrittenOver : \E j \in Jobs : n \in Holds(j)'}

historyVars == <<vars, taken>>

HistoryInit == Init /\ taken = {}

HistoryNext == Next /\ Marks

HistorySpec == HistoryInit /\ [][HistoryNext]_historyVars

HistoryFairSpec == HistorySpec /\ \A j \in Jobs : WF_vars(Running(j))

-----------------------------------------------------------------------------
\* What the CAS and the check of the user's name are worth when invocations overlap: a
\* node that a job holds, be it reserved, used or about to be released, is booked by it in
\* the bucket and held by no other job, unless one of the two blind writes hit the node
\* while it was held.  Once nobody holds the node, that is over: the next job has it alone.
HeldAlone ==
    \A j \in Jobs : \A n \in Holds(j) \ taken :
        /\ doc[n] = BookedBy(JobName[j])
        /\ \A k \in Jobs \ {j} : n \notin Holds(k)

=============================================================================
