------------------------------ MODULE NodePool ------------------------------
(***************************************************************************)
(* The shared pool of test machines, utilities/mobile_server_pool.py.      *)
(*                                                                         *)
(* Every machine is one document of the bucket QE-mobile-pool.  Jenkins    *)
(* jobs run the script as separate processes that only meet in that        *)
(* bucket: a job reserves a number of nodes, uses them, and releases them; *)
(* a cleanup process releases the nodes that ended jobs left booked.       *)
(* Each remote call (a query, a get, a replace) is one step, so that the   *)
(* processes interleave between a read and the write that depends on it.   *)
(*                                                                         *)
(* The CAS value of a document is abstracted to a bit per process: `fresh' *)
(* is TRUE while no one has written the document since the process read    *)
(* it, which is exactly when a replace with the CAS of that read succeeds. *)
(***************************************************************************)
EXTENDS Naturals, FiniteSets

CONSTANTS
    Nodes,         \* document ids: the machines and devices of the pool
    NodeInfo,      \* [Nodes -> [os, version, slave]], what the query filters on
    Jobs,          \* job processes, each one reservation and one release
    JobName,       \* [Jobs -> Names \cup {None}], the --job-name option
    Request,       \* [Jobs -> [os, version, slave, num]], the other options
    Cleaners,      \* processes that run --cleanup-nodes
    MobileOS,      \* MOBILE_OS, the operating systems of devices
    MobileVersion, \* the version every device is registered with ("7")
    BuildNames,    \* the job names of the form name:build
    Empty,         \* the empty string, the user of a node nobody booked
    None,          \* Python's None
    MaxRetry,      \* the retries of reserve_node after a failed replace (5)
    Errors,        \* may a replace raise although its CAS is current?
    Overlap        \* may two invocations of the script run at the same time?

Procs == Jobs \cup Cleaners

Users == {JobName[j] : j \in Jobs} \cup {Empty, None}

Docs == [state : {"available", "booked"}, username : Users]

ASSUME PoolAssumption ==
    /\ Jobs \cap Cleaners = {}
    /\ IsFiniteSet(Nodes)
    /\ MaxRetry \in Nat
    /\ Overlap \in BOOLEAN /\ Errors \in BOOLEAN
    /\ \A j \in Jobs : Request[j].num \in Nat \ {0}

VARIABLES
    doc,    \* [Nodes -> Docs], the bucket
    pc,     \* where each process is
    mode,   \* the option the process was invoked with
    todo,   \* rows or list items its loop has still to visit
    cur,    \* the node its loop is at (None outside a loop)
    seen,   \* the document as it last read it (its local variable doc)
    fresh,  \* nobody wrote that document since: its CAS is still the current one
    tries,  \* reserve_node's argument counter
    got,    \* is_node_reserved
    pool    \* pool_list: nodes reserved so far, then handed to the job

vars == <<doc, pc, mode, todo, cur, seen, fresh, tries, got, pool>>

Free == [state |-> "available", username |-> Empty]

BookedBy(u) == [state |-> "booked", username |-> u]

\* str(username or ""): None and the empty string compare equal.
Norm(u) == IF u = None THEN Empty ELSE u

\* The WHERE clause of the reservation query.  Devices are matched on the slave
\* they hang off, and always on the one version they are registered with.
Matches(n, r) ==
    /\ NodeInfo[n].os = r.os
    /\ NodeInfo[n].version = (IF r.os \in MobileOS THEN MobileVersion ELSE r.version)
    /\ r.os \in MobileOS => NodeInfo[n].slave = r.slave

Ended == {"released", "failed", "crashed", "cleaned"}

Resting == {"idle", "using"} \cup Ended

\* A process may be started now: always when invocations may overlap, otherwise
\* only while no other invocation is under way.
MayStart == Overlap \/ \A q \in Procs : pc[q] \in Resting

\* Process p writes document n: whoever read it before now holds an old CAS.
Write(p, n, d) ==
    /\ doc' = [doc EXCEPT ![n] = d]
    /\ fresh' = [q \in Procs |-> fresh[q] /\ cur[q] # n]

Goto(p, l) == pc' = [pc EXCEPT ![p] = l]

\* Process p reads the document of node n.
Read(p, n) ==
    /\ seen' = [seen EXCEPT ![p] = doc[n]]
    /\ fresh' = [fresh EXCEPT ![p] = TRUE]

Init ==
    /\ doc = [n \in Nodes |-> Free]
    /\ pc = [p \in Procs |-> "idle"]
    /\ mode = [p \in Procs |-> "none"]
    /\ todo = [p \in Procs |-> {}]
    /\ cur = [p \in Procs |-> None]
    /\ seen = [p \in Procs |-> Free]
    /\ fresh = [p \in Procs |-> FALSE]
    /\ tries = [p \in Procs |-> 0]
    /\ got = [p \in Procs |-> FALSE]
    /\ pool = [p \in Procs |-> {}]

-----------------------------------------------------------------------------
(* --reserve-nodes: get_nodes_from_pool_server and reserve_node            *)

\* A device is asked for without naming the slave it hangs off: raise.
GetNodesRefused(j) ==
    /\ pc[j] = "idle" /\ MayStart
    /\ Request[j].os \in MobileOS /\ Request[j].slave = None
    /\ Goto(j, "failed")
    /\ UNCHANGED <<doc, mode, todo, cur, seen, fresh, tries, got, pool>>

\* Mutant: the query forgets state='available'.
GetNodesQueryAnyState(j) ==
    /\ pc[j] = "idle" /\ MayStart
    /\ mode' = [mode EXCEPT ![j] = "reserve"]
    /\ todo' = [todo EXCEPT ![j] = {n \in Nodes : Matches(n, Request[j])}]
    /\ Goto(j, "row")
    /\ UNCHANGED <<doc, cur, seen, fresh, tries, got, pool>>

\* The query: the ids of the matching nodes that are available right now.
GetNodesQuery(j) ==
    /\ pc[j] = "idle" /\ MayStart
    /\ ~(Request[j].os \in MobileOS /\ Request[j].slave = None)
    /\ mode' = [mode EXCEPT ![j] = "reserve"]
    /\ todo' = [todo EXCEPT ![j] =
                 {n \in Nodes : doc[n].state = "available" /\ Matches(n, Request[j])}]
    /\ Goto(j, "row")
    /\ UNCHANGED <<doc, cur, seen, fresh, tries, got, pool>>

\* The loop takes the next row, in whatever order the query returned them.
NextRow(j) ==
    /\ pc[j] = "row"
    /\ \E n \in todo[j] :
        /\ cur' = [cur EXCEPT ![j] = n]
        /\ todo' = [todo EXCEPT ![j] = @ \ {n}]
        /\ fresh' = [fresh EXCEPT ![j] = FALSE]
    /\ tries' = [tries EXCEPT ![j] = 0]
    /\ Goto(j, "get")
    /\ UNCHANGED <<doc, mode, seen, got, pool>>

\* reserve_node reads the document and its CAS; its state is not looked at.
ReserveGet(j) ==
    /\ pc[j] = "get"
    /\ Read(j, cur[j])
    /\ Goto(j, "replace")
    /\ UNCHANGED <<doc, mode, todo, cur, tries, got, pool>>

\* Mutant: the replace is sent without the CAS.
ReserveReplaceNoCas(j) ==
    /\ pc[j] = "replace"
    /\ Write(j, cur[j], BookedBy(JobName[j]))
    /\ got' = [got EXCEPT ![j] = TRUE]
    /\ Goto(j, "alive")
    /\ UNCHANGED <<mode, todo, cur, seen, tries, pool>>

\* replace(doc_id, doc, cas): it succeeds while the CAS is current.
ReserveReplace(j) ==
    /\ pc[j] = "replace" /\ fresh[j]
    /\ Write(j, cur[j], BookedBy(JobName[j]))
    /\ got' = [got EXCEPT ![j] = TRUE]
    /\ Goto(j, "alive")
    /\ UNCHANGED <<mode, todo, cur, seen, tries, pool>>

\* replace raises a CouchbaseException because the CAS is old.
ReserveCasMismatch(j) ==
    /\ pc[j] = "replace" /\ ~fresh[j]
    /\ Goto(j, "reget")
    /\ UNCHANGED <<doc, mode, todo, cur, seen, fresh, tries, got, pool>>

\* replace raises for another reason: a timeout, whose write may have reached the
\* server, read again afterwards ("reget"), or an exception that is not a
\* CouchbaseException, after which reserve_node returns False ("alive").
ReserveError(j) ==
    /\ pc[j] = "replace" /\ Errors
    /\ \/ fresh[j] /\ Write(j, cur[j], BookedBy(JobName[j]))
       \/ UNCHANGED <<doc, fresh>>
    /\ got' = [got EXCEPT ![j] = FALSE]
    /\ \E l \in {"reget", "alive"} : Goto(j, l)
    /\ UNCHANGED <<mode, todo, cur, seen, tries, pool>>

\* Mutant: the retry is not counted.
ReserveRegetUncounted(j) ==
    /\ pc[j] = "reget"
    /\ Read(j, cur[j])
    /\ IF doc[cur[j]].state # "booked"
       THEN Goto(j, "get") /\ UNCHANGED got
       ELSE Goto(j, "alive") /\ got' = [got EXCEPT ![j] = FALSE]
    /\ UNCHANGED <<doc, mode, todo, cur, tries, pool>>

\* Mutant: one retry too many.
ReserveRegetOffByOne(j) ==
    /\ pc[j] = "reget"
    /\ Read(j, cur[j])
    /\ IF doc[cur[j]].state # "booked" /\ tries[j] <= MaxRetry
       THEN Goto(j, "get") /\ tries' = [tries EXCEPT ![j] = @ + 1] /\ UNCHANGED got
       ELSE Goto(j, "alive") /\ got' = [got EXCEPT ![j] = FALSE] /\ UNCHANGED tries
    /\ UNCHANGED <<doc, mode, todo, cur, pool>>

\* After a CouchbaseException: try again while the node is not booked and
\* retries are left, otherwise return False.
ReserveReget(j) ==
    /\ pc[j] = "reget"
    /\ Read(j, cur[j])
    /\ IF doc[cur[j]].state # "booked" /\ tries[j] < MaxRetry
       THEN /\ tries' = [tries EXCEPT ![j] = @ + 1]
            /\ Goto(j, "get")
            /\ UNCHANGED got
       ELSE /\ got' = [got EXCEPT ![j] = FALSE]
            /\ Goto(j, "alive")
            /\ UNCHANGED tries
    /\ UNCHANGED <<doc, mode, todo, cur, pool>>

\* Mutant: the node at hand is counted whether or not it was added to the list.
CheckAliveCountsRow(j) ==
    /\ pc[j] = "alive"
    /\ \E alive \in BOOLEAN :
        pool' = [pool EXCEPT ![j] = IF got[j] /\ alive THEN @ \cup {cur[j]} ELSE @]
    /\ Goto(j, IF Cardinality(pool[j]) + 1 = Request[j].num THEN "using" ELSE "row")
    /\ UNCHANGED <<doc, mode, todo, cur, seen, fresh, tries, got>>

\* check_vm_alive or check_device_alive, with either answer.  For a node that does
\* not answer an UPDATE guarded by state='available' is built; it addresses a bucket
\* named after the node and its result is never consumed, so no document changes.
\* The list is returned to the job as soon as it has the requested length.
CheckAlive(j) ==
    /\ pc[j] = "alive"
    /\ \E alive \in BOOLEAN :
        pool' = [pool EXCEPT ![j] = IF got[j] /\ alive THEN @ \cup {cur[j]} ELSE @]
    /\ IF Cardinality(pool'[j]) = Request[j].num
       THEN /\ Goto(j, "using")
            /\ cur' = [cur EXCEPT ![j] = None]
            /\ todo' = [todo EXCEPT ![j] = {}]
       ELSE /\ Goto(j, "row")
            /\ UNCHANGED <<cur, todo>>
    /\ UNCHANGED <<doc, mode, seen, fresh, tries, got>>

\* The rows are exhausted: release what was reserved, then raise.
NotEnoughNodes(j) ==
    /\ pc[j] = "row" /\ todo[j] = {}
    /\ todo' = [todo EXCEPT ![j] = pool[j]]
    /\ Goto(j, "release")
    /\ UNCHANGED <<doc, mode, cur, seen, fresh, tries, got, pool>>

-----------------------------------------------------------------------------
(* --release-nodes: release_node                                           *)

\* The job ends and gives its nodes back.
ReleaseNodes(j) ==
    /\ pc[j] = "using" /\ MayStart
    /\ mode' = [mode EXCEPT ![j] = "release"]
    /\ todo' = [todo EXCEPT ![j] = pool[j]]
    /\ Goto(j, "release")
    /\ UNCHANGED <<doc, cur, seen, fresh, tries, got, pool>>

\* Read the next node of the list.  One that another job booked ends the whole
\* invocation with an exception, whatever is left of the list.
ReleaseGet(j) ==
    /\ pc[j] = "release"
    /\ \E n \in todo[j] :
        /\ Read(j, n)
        /\ cur' = [cur EXCEPT ![j] = n]
        /\ todo' = [todo EXCEPT ![j] = @ \ {n}]
        /\ Goto(j, IF Norm(doc[n].username) = Norm(JobName[j]) THEN "free" ELSE "failed")
    /\ UNCHANGED <<doc, mode, tries, got, pool>>

\* Mutant: the user is not cleared.
ReleaseReplaceKeepsUser(j) ==
    /\ pc[j] = "free"
    /\ Write(j, cur[j], [seen[j] EXCEPT !.state = "available"])
    /\ Goto(j, "release")
    /\ UNCHANGED <<mode, todo, cur, seen, tries, got, pool>>

\* replace(node, doc) without a CAS.
ReleaseReplace(j) ==
    /\ pc[j] = "free"
    /\ Write(j, cur[j], Free)
    /\ Goto(j, "release")
    /\ UNCHANGED <<mode, todo, cur, seen, tries, got, pool>>

\* The list is done.  A reservation that rolled back now raises.
ReleaseDone(j) ==
    /\ pc[j] = "release" /\ todo[j] = {}
    /\ Goto(j, IF mode[j] = "reserve" THEN "failed" ELSE "released")
    /\ UNCHANGED <<doc, mode, todo, cur, seen, fresh, tries, got, pool>>

-----------------------------------------------------------------------------
(* --cleanup-nodes: cleanup_for_blocked_nodes                              *)

\* The query: every booked node, or those booked by one named job.
CleanupQuery(c) ==
    /\ pc[c] = "idle" /\ MayStart
    /\ mode' = [mode EXCEPT ![c] = "cleanup"]
    /\ \E filter \in {None} \cup BuildNames :
        todo' = [todo EXCEPT ![c] =
                   {n \in Nodes : /\ doc[n].state = "booked"
                                  /\ filter # None => doc[n].username = filter}]
    /\ Goto(c, "sweep")
    /\ UNCHANGED <<doc, cur, seen, fresh, tries, got, pool>>

\* Read the next row.  A node that became available is skipped; a user that is not
\* name:build raises.  Splitting the user assigns job_name, which is therefore never
\* None when it is tested: is_jenkins_job_running is not consulted.
CleanupGet(c) ==
    /\ pc[c] = "sweep"
    /\ \E n \in todo[c] :
        /\ Read(c, n)
        /\ cur' = [cur EXCEPT ![c] = n]
        /\ todo' = [todo EXCEPT ![c] = @ \ {n}]
        /\ Goto(c, IF doc[n].state = "available" THEN "sweep"
                   ELSE IF doc[n].username \in BuildNames \cup {Empty} THEN "unblock"
                   ELSE "failed")
    /\ UNCHANGED <<doc, mode, tries, got, pool>>

\* replace(doc_id, doc) without a CAS.
CleanupReplace(c) ==
    /\ pc[c] = "unblock"
    /\ Write(c, cur[c], Free)
    /\ Goto(c, "sweep")
    /\ UNCHANGED <<mode, todo, cur, seen, tries, got, pool>>

CleanupDone(c) ==
    /\ pc[c] = "sweep" /\ todo[c] = {}
    /\ Goto(c, "cleaned")
    /\ UNCHANGED <<doc, mode, todo, cur, seen, fresh, tries, got, pool>>

-----------------------------------------------------------------------------
\* The process is killed, or a remote call outside reserve_node's try raises: the
\* documents stay as they are.  Jenkins may also abort a job that uses its nodes.
Crash(p) ==
    /\ pc[p] \notin Ended \cup {"idle"}
    /\ Goto(p, "crashed")
    /\ UNCHANGED <<doc, mode, todo, cur, seen, fresh, tries, got, pool>>

JobStep(j) ==
    \/ GetNodesRefused(j) \/ GetNodesQuery(j) \/ NextRow(j)
    \/ ReserveGet(j) \/ ReserveReplace(j) \/ ReserveCasMismatch(j)
    \/ ReserveError(j) \/ ReserveReget(j) \/ CheckAlive(j) \/ NotEnoughNodes(j)
    \/ ReleaseNodes(j) \/ ReleaseGet(j) \/ ReleaseReplace(j) \/ ReleaseDone(j)

CleanStep(c) ==
    CleanupQuery(c) \/ CleanupGet(c) \/ CleanupReplace(c) \/ CleanupDone(c)

Next ==
    \/ \E j \in Jobs : JobStep(j)
    \/ \E c \in Cleaners : CleanStep(c)
    \/ \E p \in Procs : Crash(p)

Spec == Init /\ [][Next]_vars

\* A process that was started is scheduled by its operating system until it ends;
\* nothing says that a job ever releases, or that anybody is ever started.
Running(j) ==
    \/ NextRow(j) \/ ReserveGet(j) \/ ReserveReplace(j) \/ ReserveCasMismatch(j)
    \/ ReserveError(j) \/ ReserveReget(j) \/ CheckAlive(j) \/ NotEnoughNodes(j)
    \/ ReleaseGet(j) \/ ReleaseReplace(j) \/ ReleaseDone(j)

FairSpec == Spec /\ \A j \in Jobs : WF_vars(Running(j))
-----------------------------------------------------------------------------
(* Properties                                                              *)

TypeOK ==
    /\ doc \in [Nodes -> Docs]
    /\ pc \in [Procs -> Resting \cup {"row", "get", "replace", "reget", "alive",
                                      "release", "free", "sweep", "unblock"}]
    /\ mode \in [Procs -> {"none", "reserve", "release", "cleanup"}]
    /\ todo \in [Procs -> SUBSET Nodes]
    /\ cur \in [Procs -> Nodes \cup {None}]
    /\ seen \in [Procs -> Docs]
    /\ fresh \in [Procs -> BOOLEAN]
    /\ tries \in [Procs -> 0..MaxRetry]
    /\ got \in [Procs -> BOOLEAN]
    /\ pool \in [Procs -> SUBSET Nodes]

\* Whoever is about to read or write a document has a node at hand.
AtNode == {"get", "replace", "reget", "alive", "free", "unblock"}

CurOK == \A p \in Procs : pc[p] \in AtNode => cur[p] \in Nodes

\* The nodes a job is working with.
InUse(j) == IF pc[j] = "using" THEN pool[j] ELSE {}

\* What a job holds on to: what it has reserved so far, uses, or has yet to release.
Held(j) ==
    CASE pc[j] \in {"row", "get", "replace", "reget", "alive", "using"} -> pool[j]
      [] pc[j] = "release" -> todo[j]
      [] pc[j] = "free" -> todo[j] \cup {cur[j]}
      [] OTHER -> {}

\* Why invocations that do not overlap never double-book, as an inductive invariant:
\* one of them is under way at a time, what jobs hold is booked for them in the bucket
\* and disjoint, and the rows still to be visited are as available as the query found
\* them, so that the node at hand is held by nobody else.
OneActive ==
    \A p, q \in Procs : p # q => pc[p] \in Resting \/ pc[q] \in Resting

HeldBooked == \A j \in Jobs : \A n \in Held(j) : doc[n] = BookedBy(JobName[j])

HeldDisjoint == \A j, k \in Jobs : j # k => Held(j) \cap Held(k) = {}

RowsFree ==
    \A j \in Jobs : pc[j] \in {"row", "get", "replace", "reget", "alive"} =>
        \A n \in todo[j] : doc[n].state = "available"

RowTaken ==
    \A j \in Jobs :
        /\ pc[j] \in {"get", "replace", "reget", "alive", "free"} => cur[j] \notin todo[j]
        /\ pc[j] \in {"get", "replace", "reget", "alive"} =>
              \A k \in Jobs : k # j => cur[j] \notin Held(k)
        /\ pc[j] = "alive" /\ got[j] => doc[cur[j]] = BookedBy(JobName[j])
        /\ pc[j] = "idle" => pool[j] = {}

SerialInv == OneActive /\ HeldBooked /\ HeldDisjoint /\ RowsFree /\ RowTaken

\* What the CAS of reserve_node buys, under every interleaving: a job that read a
\* node as available and books it takes it from nobody.
SawFreeTookFree ==
    [][\A j \in Jobs : (pc[j] = "replace" /\ got'[j] /\ pc'[j] = "alive"
                          /\ seen[j].state = "available")
            => doc[cur[j]].state = "available"]_vars

\* A job that was handed its nodes got the number it asked for, all of the kind it
\* asked for, although rows were taken, retried, dead or timed out on the way.
HandedInFull ==
    \A j \in Jobs : pc[j] = "using" =>
        /\ Cardinality(pool[j]) = Request[j].num
        /\ \A n \in pool[j] : Matches(n, Request[j])

\* A job whose release went through is the recorded user of none of its nodes any
\* more, whoever else wrote these documents in between.
ReleaseClears ==
    \A j \in Jobs : (pc[j] = "released" /\ JobName[j] \notin {Empty, None}
                       /\ \A k \in Jobs : JobName[k] = JobName[j] => k = j)
        => \A n \in pool[j] : doc[n].username # JobName[j]

\* A reservation, and a release, comes to an end: retries are bounded and every
\* loop runs over a list that was fixed when it started.
InvocationEnds ==
    \A j \in Jobs : (pc[j] \notin Resting) ~> (pc[j] \in Resting)

-----------------------------------------------------------------------------
(* The promise of the pool                                                 *)

\* A booked node belongs to the job whose name its document carries; job names differ.
OwnerOf(d) == IF d.state = "available" THEN None
              ELSE CHOOSE j \in Jobs : JobName[j] = d.username

NumOf(j) == Request[j].num
SuitsJob(n, j) == Matches(n, Request[j])

Promise == INSTANCE ExclusivePool WITH
    Nobody <- None, Num <- NumOf, Suits <- SuitsJob,
    owner <- [n \in Nodes |-> OwnerOf(doc[n])],
    hands <- [j \in Jobs |-> InUse(j)]

\* Invocations that do not overlap implement the promise: a replace, also one that timed
\* out, books only a node that nobody has, a job is handed what it asked for and only
\* nodes that are its own, and a release frees no node that is in use.
KeepsPromise == Promise!Spec

\* What a job is handed and what its release leaves are right together, under every
\* interleaving with other jobs and cleanups: in full, of its kind, and cleared.
HandsRight == HandedInFull /\ ReleaseClears

=============================================================================
