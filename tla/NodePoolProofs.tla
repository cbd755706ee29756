---------------------------- MODULE NodePoolProofs ----------------------------
(***************************************************************************)
(* Theorems about the node pool, for every set of nodes, jobs and cleanup  *)
(* processes, every request and every bound on the retries.                *)
(***************************************************************************)
EXTENDS NodePoolHistory, FiniteSetTheorems, TLAPS

-----------------------------------------------------------------------------
(* Type correctness                                                        *)

\* The values that are written to the bucket are documents.
LEMMA WrittenDocs ==
    Free \in Docs /\ \A j \in Jobs : BookedBy(JobName[j]) \in Docs
BY DEF Free, BookedBy, Docs, Users

\* Every step of a job keeps the variables in their types.
LEMMA TypeJobStep ==
    ASSUME TypeOK, CurOK, NEW j \in Jobs, JobStep(j)
    PROVE  TypeOK' /\ CurOK'
<1> j \in Procs
  BY DEF Procs
<1> USE PoolAssumption, WrittenDocs DEF TypeOK, CurOK, AtNode, Goto, Resting, Ended
<1>1. CASE GetNodesRefused(j)
  BY <1>1 DEF GetNodesRefused
<1>2. CASE GetNodesQuery(j)
  BY <1>2 DEF GetNodesQuery
<1>3. CASE NextRow(j)
  BY <1>3 DEF NextRow
<1>4. CASE ReserveGet(j)
  BY <1>4 DEF ReserveGet, Read
<1>5. CASE ReserveReplace(j)
  BY <1>5 DEF ReserveReplace, Write
<1>6. CASE ReserveCasMismatch(j)
  BY <1>6 DEF ReserveCasMismatch
<1>7. CASE ReserveError(j)
  <2>1. cur[j] \in Nodes
    BY <1>7 DEF ReserveError
  <2>2. doc' \in [Nodes -> Docs] /\ fresh' \in [Procs -> BOOLEAN]
    <3>1. CASE UNCHANGED <<doc, fresh>>
      BY <3>1
    <3>2. CASE Write(j, cur[j], BookedBy(JobName[j]))
      BY <2>1, <3>2 DEF Write
    <3> QED
      BY <1>7, <3>1, <3>2 DEF ReserveError
  <2>3. got' \in [Procs -> BOOLEAN]
    BY <1>7 DEF ReserveError
  <2>4. \E l \in {"reget", "alive"} : pc' = [pc EXCEPT ![j] = l]
    BY <1>7 DEF ReserveError
  <2>5. UNCHANGED <<mode, todo, cur, seen, tries, pool>>
    BY <1>7 DEF ReserveError
  <2> QED
    BY <2>1, <2>2, <2>3, <2>4, <2>5
<1>8. CASE ReserveReget(j)
  <2>1. cur[j] \in Nodes
    BY <1>8 DEF ReserveReget
  <2>2. seen' \in [Procs -> Docs] /\ fresh' \in [Procs -> BOOLEAN]
    BY <1>8, <2>1 DEF ReserveReget, Read
  <2>3. got' \in [Procs -> BOOLEAN]
    BY <1>8 DEF ReserveReget
  <2>4. tries' \in [Procs -> 0..MaxRetry]
    <3>1. CASE tries' = tries
      BY <3>1
    <3>2. CASE tries[j] < MaxRetry /\ tries' = [tries EXCEPT ![j] = @ + 1]
      <4>1. tries[j] + 1 \in 0..MaxRetry
        BY <3>2
      <4> QED
        BY <3>2, <4>1
    <3> QED
      BY <1>8, <3>1, <3>2 DEF ReserveReget
  <2>5. \E l \in {"get", "alive"} : pc' = [pc EXCEPT ![j] = l]
    BY <1>8 DEF ReserveReget
  <2>6. UNCHANGED <<doc, mode, todo, cur, pool>>
    BY <1>8 DEF ReserveReget
  <2> QED
    BY <2>1, <2>2, <2>3, <2>4, <2>5, <2>6
<1>9. CASE CheckAlive(j)
  BY <1>9 DEF CheckAlive
<1>10. CASE NotEnoughNodes(j)
  BY <1>10 DEF NotEnoughNodes
<1>11. CASE ReleaseNodes(j)
  BY <1>11 DEF ReleaseNodes
<1>12. CASE ReleaseGet(j)
  BY <1>12 DEF ReleaseGet, Read
<1>13. CASE ReleaseReplace(j)
  BY <1>13 DEF ReleaseReplace, Write
<1>14. CASE ReleaseDone(j)
  BY <1>14 DEF ReleaseDone
<1> QED
  BY <1>1, <1>2, <1>3, <1>4, <1>5, <1>6, <1>7, <1>8, <1>9, <1>10, <1>11, <1>12,
     <1>13, <1>14 DEF JobStep

\* Every step of a cleanup keeps the variables in their types.
LEMMA TypeCleanStep ==
    ASSUME TypeOK, CurOK, NEW c \in Cleaners, CleanStep(c)
    PROVE  TypeOK' /\ CurOK'
<1> c \in Procs
  BY DEF Procs
<1> USE WrittenDocs DEF TypeOK, CurOK, AtNode, Goto, Resting, Ended
<1>1. CASE CleanupQuery(c)
  BY <1>1 DEF CleanupQuery
<1>2. CASE CleanupGet(c)
  BY <1>2 DEF CleanupGet, Read
<1>3. CASE CleanupReplace(c)
  BY <1>3 DEF CleanupReplace, Write
<1>4. CASE CleanupDone(c)
  BY <1>4 DEF CleanupDone
<1> QED
  BY <1>1, <1>2, <1>3, <1>4 DEF CleanStep

\* The variables keep their types, and whoever is at a node has one at hand.
LEMMA TypeStep ==
    TypeOK /\ CurOK /\ [Next]_vars => TypeOK' /\ CurOK'
<1> SUFFICES ASSUME TypeOK, CurOK, [Next]_vars PROVE TypeOK' /\ CurOK'
  OBVIOUS
<1>1. CASE \E p \in Procs : Crash(p)
  BY <1>1 DEF Crash, TypeOK, CurOK, AtNode, Goto, Resting, Ended
<1>2. CASE UNCHANGED vars
  BY <1>2 DEF vars, TypeOK, CurOK, AtNode
<1> QED
  BY <1>1, <1>2, TypeJobStep, TypeCleanStep DEF Next

\* A pool of any nodes and jobs that have not begun are well typed.
LEMMA TypeInit == Init => TypeOK /\ CurOK
BY PoolAssumption, WrittenDocs DEF Init, TypeOK, CurOK, AtNode, Resting, Ended

\* The variables of the pool always have their types; in particular reserve_node's
\* counter never passes its bound.
THEOREM PoolTypeCorrect == Spec => []TypeOK
BY TypeInit, TypeStep, PTL DEF Spec

-----------------------------------------------------------------------------
(* Invocations that do not overlap: no node is handed out twice            *)

\* What a job holds depends only on where it is and on its own variables.
LEMMA HeldSame ==
    ASSUME NEW k \in Jobs, pc'[k] = pc[k], todo'[k] = todo[k], cur'[k] = cur[k],
           pool'[k] = pool[k]
    PROVE  Held(k)' = Held(k)
BY DEF Held

\* The nodes a job holds are nodes of the pool.
LEMMA HeldNodes ==
    ASSUME TypeOK, CurOK, NEW k \in Jobs
    PROVE  Held(k) \subseteq Nodes
<1> k \in Procs
  BY DEF Procs
<1> QED
  BY DEF Held, TypeOK, CurOK, AtNode

\* What a step of job j has to establish, in a state where every other process rests:
\* the other processes are left alone, ...
OthersKept(j) ==
    \A q \in Procs \ {j} : /\ pc'[q] = pc[q] /\ todo'[q] = todo[q] /\ cur'[q] = cur[q]
                          /\ pool'[q] = pool[q] /\ got'[q] = got[q]

\* ... no document of a node that another job holds is changed, ...
DocsKept(j) == \A k \in Jobs \ {j} : \A n \in Held(k) : doc'[n] = doc[n]

\* ... what j holds then is booked for j and held by nobody else, ...
OwnHeld(j) ==
    /\ \A n \in Held(j)' : doc'[n] = BookedBy(JobName[j])
    /\ \A k \in Jobs \ {j} : \A n \in Held(j)' : n \notin Held(k)

\* ... and the rows of j are as the invariant says.
OwnRows(j) ==
    /\ pc'[j] \in {"row", "get", "replace", "reget", "alive"} =>
          \A n \in todo'[j] : doc'[n].state = "available"
    /\ pc'[j] \in {"get", "replace", "reget", "alive", "free"} => cur'[j] \notin todo'[j]
    /\ pc'[j] \in {"get", "replace", "reget", "alive"} =>
          \A k \in Jobs \ {j} : cur'[j] \notin Held(k)
    /\ pc'[j] = "alive" /\ got'[j] => doc'[cur'[j]] = BookedBy(JobName[j])
    /\ pc'[j] = "idle" => pool'[j] = {}

\* The step of the one active job keeps the invariant when it keeps what others hold, their
\* bookings, and the agreement of its own holdings and rows with the bucket.
LEMMA SerialFrame ==
    ASSUME TypeOK, CurOK, SerialInv, Cleaners = {}, NEW j \in Jobs,
           \A q \in Procs \ {j} : pc[q] \in Resting,
           OthersKept(j), DocsKept(j), OwnHeld(j), OwnRows(j)
    PROVE  SerialInv'
<1>1. Procs = Jobs
  BY DEF Procs
<1>2. \A k \in Jobs \ {j} : Held(k)' = Held(k)
  BY <1>1, HeldSame DEF OthersKept
<1>3. OneActive'
  BY <1>1 DEF OneActive, OthersKept, Resting, Ended
<1>4. HeldBooked'
  <2> SUFFICES ASSUME NEW k \in Jobs, NEW n \in Held(k)' PROVE doc'[n] = BookedBy(JobName[k])
    BY DEF HeldBooked, BookedBy
  <2>1. CASE k = j
    BY <2>1 DEF OwnHeld
  <2>2. CASE k # j
    BY <1>2, <2>2 DEF SerialInv, HeldBooked, DocsKept
  <2> QED
    BY <2>1, <2>2
<1>5. HeldDisjoint'
  BY <1>2 DEF SerialInv, HeldDisjoint, OwnHeld
<1>6. RowsFree'
  BY <1>1 DEF SerialInv, RowsFree, OthersKept, OwnRows, Resting, Ended
<1>7. RowTaken'
  <2> SUFFICES ASSUME NEW k \in Jobs
               PROVE  /\ pc'[k] \in {"get", "replace", "reget", "alive", "free"}
                            => cur'[k] \notin todo'[k]
                      /\ pc'[k] \in {"get", "replace", "reget", "alive"} =>
                            \A i \in Jobs : i # k => cur'[k] \notin Held(i)'
                      /\ pc'[k] = "alive" /\ got'[k] => doc'[cur'[k]] = BookedBy(JobName[k])
                      /\ pc'[k] = "idle" => pool'[k] = {}
    BY DEF RowTaken, BookedBy
  <2>1. CASE k = j
    BY <1>2, <2>1 DEF OwnRows
  <2>2. CASE k # j
    BY <1>1, <2>2 DEF SerialInv, RowTaken, OthersKept, Resting, Ended
  <2> QED
    BY <2>1, <2>2
<1> QED
  BY <1>3, <1>4, <1>5, <1>6, <1>7 DEF SerialInv

\* A job takes a step only while every other process rests.
LEMMA OthersRest ==
    ASSUME TypeOK, SerialInv, ~Overlap, NEW j \in Jobs, JobStep(j)
    PROVE  \A q \in Procs \ {j} : pc[q] \in Resting
<1>1. j \in Procs
  BY DEF Procs
<1>2. CASE pc[j] \notin Resting
  BY <1>1, <1>2 DEF SerialInv, OneActive
<1>3. CASE MayStart
  BY <1>3 DEF MayStart
<1>4. MayStart \/ pc[j] \notin Resting
  BY DEF JobStep, GetNodesRefused, GetNodesQuery, NextRow, ReserveGet, ReserveReplace,
         ReserveCasMismatch, ReserveError, ReserveReget, CheckAlive, NotEnoughNodes,
         ReleaseNodes, ReleaseGet, ReleaseReplace, ReleaseDone, Resting, Ended
<1> QED
  BY <1>2, <1>3, <1>4

\* Each step of a job keeps the serial invariant.
LEMMA SerialJobStep ==
    ASSUME TypeOK, CurOK, SerialInv, ~Overlap, Cleaners = {}, NEW j \in Jobs, JobStep(j)
    PROVE  SerialInv'
<1>a. \A q \in Procs \ {j} : pc[q] \in Resting
  BY OthersRest
<1>b. j \in Procs
  BY DEF Procs
<1>c. \A k \in Jobs : Held(k) \subseteq Nodes
  BY HeldNodes
<1>1. CASE GetNodesRefused(j)
  <2>1. OthersKept(j)
    BY <1>1, <1>b DEF GetNodesRefused, OthersKept, TypeOK, Goto
  <2>2. DocsKept(j)
    BY <1>1 DEF GetNodesRefused, DocsKept
  <2>3. OwnHeld(j)
    BY <1>1 DEF GetNodesRefused, OwnHeld, Held, Goto
  <2>4. OwnRows(j)
    BY <1>1 DEF GetNodesRefused, OwnRows, Goto, SerialInv, RowTaken
  <2> QED
    BY <1>a, <2>1, <2>2, <2>3, <2>4, SerialFrame
<1>2. CASE GetNodesQuery(j)
  <2>1. OthersKept(j)
    BY <1>2, <1>b DEF GetNodesQuery, OthersKept, TypeOK, Goto
  <2>2. DocsKept(j)
    BY <1>2 DEF GetNodesQuery, DocsKept
  <2>3. OwnHeld(j)
    BY <1>2 DEF GetNodesQuery, OwnHeld, Held, Goto, SerialInv, RowTaken
  <2>4. OwnRows(j)
    BY <1>2, <1>b DEF GetNodesQuery, OwnRows, Goto, TypeOK
  <2> QED
    BY <1>a, <2>1, <2>2, <2>3, <2>4, SerialFrame
<1>3. CASE NextRow(j)
  <2>1. OthersKept(j)
    BY <1>3, <1>b DEF NextRow, OthersKept, TypeOK, Goto
  <2>2. DocsKept(j)
    BY <1>3 DEF NextRow, DocsKept
  <2>3. OwnHeld(j)
    BY <1>3 DEF NextRow, OwnHeld, Held, Goto, SerialInv, HeldBooked, HeldDisjoint
  <2>4. OwnRows(j)
    <3>1. PICK n \in todo[j] : /\ cur' = [cur EXCEPT ![j] = n]
                               /\ todo' = [todo EXCEPT ![j] = @ \ {n}]
      BY <1>3 DEF NextRow
    <3>2. cur'[j] = n /\ todo'[j] = todo[j] \ {n} /\ pc'[j] = "get" /\ doc' = doc
      BY <1>3, <1>b, <3>1 DEF NextRow, Goto, TypeOK
    <3>3. \A i \in todo[j] : doc[i].state = "available"
      BY <1>3 DEF NextRow, SerialInv, RowsFree
    <3>4. \A k \in Jobs : n \notin Held(k)
      <4> SUFFICES ASSUME NEW k \in Jobs, n \in Held(k) PROVE FALSE
        OBVIOUS
      <4>1. doc[n] = BookedBy(JobName[k])
        BY DEF SerialInv, HeldBooked
      <4>2. doc[n].state = "available"
        BY <3>1, <3>3
      <4> QED
        BY <4>1, <4>2 DEF BookedBy
    <3> QED
      BY <3>2, <3>3, <3>4 DEF OwnRows
  <2> QED
    BY <1>a, <2>1, <2>2, <2>3, <2>4, SerialFrame
<1>4. CASE ReserveGet(j)
  <2>1. OthersKept(j)
    BY <1>4, <1>b DEF ReserveGet, OthersKept, TypeOK, Goto
  <2>2. DocsKept(j)
    BY <1>4 DEF ReserveGet, DocsKept
  <2>3. OwnHeld(j)
    BY <1>4 DEF ReserveGet, OwnHeld, Held, Goto, SerialInv, HeldBooked, HeldDisjoint
  <2>4. OwnRows(j)
    BY <1>4 DEF ReserveGet, OwnRows, Goto, SerialInv, RowsFree, RowTaken
  <2> QED
    BY <1>a, <2>1, <2>2, <2>3, <2>4, SerialFrame
<1>5. CASE ReserveReplace(j)
  <2>1. OthersKept(j)
    BY <1>5, <1>b DEF ReserveReplace, OthersKept, TypeOK, Goto
  <2>2. DocsKept(j)
    <3>1. \A k \in Jobs \ {j} : cur[j] \notin Held(k)
      BY <1>5 DEF ReserveReplace, SerialInv, RowTaken
    <3> QED
      BY <1>5, <1>c, <3>1 DEF ReserveReplace, DocsKept, Write, TypeOK
  <2>3. OwnHeld(j)
    BY <1>5 DEF ReserveReplace, OwnHeld, Held, Goto, Write, SerialInv, HeldBooked, HeldDisjoint
  <2>4. OwnRows(j)
    BY <1>5 DEF ReserveReplace, OwnRows, Goto, Write, TypeOK, CurOK, AtNode, SerialInv, RowsFree, RowTaken
  <2> QED
    BY <1>a, <2>1, <2>2, <2>3, <2>4, SerialFrame
<1>6. CASE ReserveCasMismatch(j)
  <2>1. OthersKept(j)
    BY <1>6, <1>b DEF ReserveCasMismatch, OthersKept, TypeOK, Goto
  <2>2. DocsKept(j)
    BY <1>6 DEF ReserveCasMismatch, DocsKept
  <2>3. OwnHeld(j)
    BY <1>6 DEF ReserveCasMismatch, OwnHeld, Held, Goto, SerialInv, HeldBooked, HeldDisjoint
  <2>4. OwnRows(j)
    BY <1>6 DEF ReserveCasMismatch, OwnRows, Goto, SerialInv, RowsFree, RowTaken
  <2> QED
    BY <1>a, <2>1, <2>2, <2>3, <2>4, SerialFrame
<1>7. CASE ReserveError(j)
  <2>1. OthersKept(j)
    BY <1>7, <1>b DEF ReserveError, OthersKept, TypeOK, Goto
  <2>2. DocsKept(j)
    <3>1. \A k \in Jobs \ {j} : cur[j] \notin Held(k)
      BY <1>7 DEF ReserveError, SerialInv, RowTaken
    <3> QED
      BY <1>7, <1>c, <3>1 DEF ReserveError, DocsKept, Write, TypeOK
  <2>3. OwnHeld(j)
    BY <1>7, <1>c DEF ReserveError, OwnHeld, Held, Goto, Write, TypeOK, SerialInv, HeldBooked, HeldDisjoint
  <2>4. OwnRows(j)
    BY <1>7, <1>b, <1>c DEF ReserveError, OwnRows, Goto, Write, TypeOK, CurOK, AtNode, SerialInv, HeldBooked, RowsFree, RowTaken, BookedBy, Resting, Ended
  <2> QED
    BY <1>a, <2>1, <2>2, <2>3, <2>4, SerialFrame
<1>8. CASE ReserveReget(j)
  <2>1. OthersKept(j)
    BY <1>8, <1>b DEF ReserveReget, OthersKept, TypeOK, Goto
  <2>2. DocsKept(j)
    BY <1>8 DEF ReserveReget, DocsKept
  <2>3. OwnHeld(j)
    BY <1>8 DEF ReserveReget, OwnHeld, Held, Goto, TypeOK, SerialInv, HeldBooked, HeldDisjoint
  <2>4. OwnRows(j)
    BY <1>8 DEF ReserveReget, OwnRows, Goto, TypeOK, SerialInv, RowsFree, RowTaken
  <2> QED
    BY <1>a, <2>1, <2>2, <2>3, <2>4, SerialFrame
<1>9. CASE CheckAlive(j)
  <2>1. OthersKept(j)
    BY <1>9, <1>b DEF CheckAlive, OthersKept, TypeOK, Goto
  <2>2. DocsKept(j)
    BY <1>9 DEF CheckAlive, DocsKept
  <2>3. OwnHeld(j)
    <3>1. pool'[j] = pool[j] \/ (got[j] /\ pool'[j] = pool[j] \cup {cur[j]})
      BY <1>9, <1>b DEF CheckAlive, TypeOK
    <3>2. Held(j) = pool[j] /\ Held(j)' = pool'[j]
      BY <1>9, <1>b DEF CheckAlive, Held, Goto, TypeOK
    <3>3. \A n \in pool[j] : /\ doc[n] = BookedBy(JobName[j])
                             /\ \A k \in Jobs \ {j} : n \notin Held(k)
      BY <3>2 DEF SerialInv, HeldBooked, HeldDisjoint
    <3>4. /\ got[j] => doc[cur[j]] = BookedBy(JobName[j])
          /\ \A k \in Jobs \ {j} : cur[j] \notin Held(k)
      BY <1>9 DEF CheckAlive, SerialInv, RowTaken
    <3>5. doc' = doc
      BY <1>9 DEF CheckAlive
    <3> QED
      BY <3>1, <3>2, <3>3, <3>4, <3>5 DEF OwnHeld
  <2>4. OwnRows(j)
    BY <1>9, <1>b DEF CheckAlive, OwnRows, Goto, TypeOK, SerialInv, RowsFree
  <2> QED
    BY <1>a, <2>1, <2>2, <2>3, <2>4, SerialFrame
<1>10. CASE NotEnoughNodes(j)
  <2>1. OthersKept(j)
    BY <1>10, <1>b DEF NotEnoughNodes, OthersKept, TypeOK, Goto
  <2>2. DocsKept(j)
    BY <1>10 DEF NotEnoughNodes, DocsKept
  <2>3. OwnHeld(j)
    BY <1>10 DEF NotEnoughNodes, OwnHeld, Held, Goto, SerialInv, HeldBooked, HeldDisjoint
  <2>4. OwnRows(j)
    BY <1>10 DEF NotEnoughNodes, OwnRows, Goto, TypeOK
  <2> QED
    BY <1>a, <2>1, <2>2, <2>3, <2>4, SerialFrame
<1>11. CASE ReleaseNodes(j)
  <2>1. OthersKept(j)
    BY <1>11, <1>b DEF ReleaseNodes, OthersKept, TypeOK, Goto
  <2>2. DocsKept(j)
    BY <1>11 DEF ReleaseNodes, DocsKept
  <2>3. OwnHeld(j)
    BY <1>11 DEF ReleaseNodes, OwnHeld, Held, Goto, TypeOK, SerialInv, HeldBooked, HeldDisjoint
  <2>4. OwnRows(j)
    BY <1>11 DEF ReleaseNodes, OwnRows, Goto
  <2> QED
    BY <1>a, <2>1, <2>2, <2>3, <2>4, SerialFrame
<1>12. CASE ReleaseGet(j)
  <2>1. OthersKept(j)
    BY <1>12, <1>b DEF ReleaseGet, OthersKept, TypeOK, Goto
  <2>2. DocsKept(j)
    BY <1>12 DEF ReleaseGet, DocsKept
  <2>3. OwnHeld(j)
    BY <1>12 DEF ReleaseGet, OwnHeld, Held, Goto, TypeOK, SerialInv, HeldBooked, HeldDisjoint
  <2>4. OwnRows(j)
    BY <1>12 DEF ReleaseGet, OwnRows, Goto, TypeOK
  <2> QED
    BY <1>a, <2>1, <2>2, <2>3, <2>4, SerialFrame
<1>13. CASE ReleaseReplace(j)
  <2>1. OthersKept(j)
    BY <1>13, <1>b DEF ReleaseReplace, OthersKept, TypeOK, Goto
  <2>2. DocsKept(j)
    BY <1>13 DEF ReleaseReplace, DocsKept, Write, SerialInv, HeldDisjoint, Held
  <2>3. OwnHeld(j)
    BY <1>13, <1>b DEF ReleaseReplace, OwnHeld, Held, Goto, Write, TypeOK, SerialInv, HeldBooked, HeldDisjoint, RowTaken
  <2>4. OwnRows(j)
    BY <1>13 DEF ReleaseReplace, OwnRows, Goto, SerialInv, RowTaken
  <2> QED
    BY <1>a, <2>1, <2>2, <2>3, <2>4, SerialFrame
<1>14. CASE ReleaseDone(j)
  <2>1. OthersKept(j)
    BY <1>14, <1>b DEF ReleaseDone, OthersKept, TypeOK, Goto
  <2>2. DocsKept(j)
    BY <1>14 DEF ReleaseDone, DocsKept
  <2>3. OwnHeld(j)
    BY <1>14 DEF ReleaseDone, OwnHeld, Held, Goto
  <2>4. OwnRows(j)
    BY <1>14 DEF ReleaseDone, OwnRows, Goto
  <2> QED
    BY <1>a, <2>1, <2>2, <2>3, <2>4, SerialFrame
<1> QED
  BY <1>1, <1>2, <1>3, <1>4, <1>5, <1>6, <1>7, <1>8, <1>9, <1>10, <1>11, <1>12, <1>13, <1>14 DEF JobStep

\* Nobody holds a node at the beginning.
LEMMA SerialInit == Init => SerialInv
BY DEF Init, SerialInv, OneActive, HeldBooked, HeldDisjoint, RowsFree, RowTaken, Held,
       Procs, Resting

\* A step of invocations that do not overlap keeps a booking with its user.
LEMMA SerialStep ==
    ASSUME ~Overlap, Cleaners = {}
    PROVE  TypeOK /\ CurOK /\ SerialInv /\ [Next]_vars => SerialInv'
<1> SUFFICES ASSUME TypeOK, CurOK, SerialInv, [Next]_vars PROVE SerialInv'
  OBVIOUS
<1>1. CASE \E j \in Jobs : JobStep(j)
  BY <1>1, SerialJobStep
<1>2. ASSUME NEW p \in Procs, Crash(p) PROVE SerialInv'
  <2>1. \A k \in Jobs : Held(k)' = (IF k = p THEN {} ELSE Held(k))
    BY <1>2 DEF Crash, Goto, Held, TypeOK, Procs
  <2>2. OneActive'
    BY <1>2 DEF Crash, Goto, SerialInv, OneActive, TypeOK, Resting, Ended
  <2>3. HeldBooked' /\ HeldDisjoint'
    BY <1>2, <2>1 DEF Crash, SerialInv, HeldBooked, HeldDisjoint, BookedBy
  <2>4. RowsFree'
    BY <1>2 DEF Crash, Goto, SerialInv, RowsFree, TypeOK, Procs
  <2>5. RowTaken'
    <3>1. UNCHANGED <<doc, todo, cur, got, pool>>
      BY <1>2 DEF Crash
    <3>2. \A k \in Jobs : pc'[k] = pc[k] \/ pc'[k] = "crashed"
      BY <1>2 DEF Crash, Goto, TypeOK, Procs
    <3>3. \A i \in Jobs : Held(i)' \subseteq Held(i)
      BY <2>1
    <3> QED
      BY <3>1, <3>2, <3>3 DEF SerialInv, RowTaken, BookedBy
  <2> QED
    BY <2>2, <2>3, <2>4, <2>5 DEF SerialInv
<1>3. CASE UNCHANGED vars
  BY <1>3 DEF vars, SerialInv, OneActive, HeldBooked, HeldDisjoint, RowsFree, RowTaken,
              Held, BookedBy
<1> QED
  BY <1>1, <1>2, <1>3 DEF Next

-----------------------------------------------------------------------------
(* Every interleaving: what the CAS guarantees                             *)

\* While the CAS that a job holds is current, it has read what the bucket holds.
FreshSeen ==
    \A j \in Jobs : pc[j] = "replace" /\ fresh[j] => seen[j] = doc[cur[j]]

\* A document is written only in a way that makes the CAS of every reader old.
LEMMA FreshWritten ==
    ASSUME TypeOK, CurOK, FreshSeen, NEW p \in Procs, NEW d, Write(p, cur[p], d),
           UNCHANGED <<cur, seen>>, \A q \in Procs : pc'[q] = "replace" => pc[q] = "replace"
    PROVE  FreshSeen'
<1> SUFFICES ASSUME NEW j \in Jobs, pc'[j] = "replace", fresh'[j]
             PROVE  seen'[j] = doc'[cur'[j]]
  BY DEF FreshSeen
<1> j \in Procs
  BY DEF Procs
<1>1. pc[j] = "replace" /\ fresh[j] /\ cur[j] # cur[p]
  BY DEF Write
<1>2. cur[j] \in Nodes /\ seen[j] = doc[cur[j]]
  BY <1>1 DEF FreshSeen, CurOK, AtNode
<1> QED
  BY <1>1, <1>2 DEF Write, TypeOK

\* Every other step either leaves a reader alone or lets it read.
LEMMA FreshStep ==
    TypeOK /\ CurOK /\ FreshSeen /\ [Next]_vars => FreshSeen'
<1> SUFFICES ASSUME TypeOK, CurOK, FreshSeen, [Next]_vars PROVE FreshSeen'
  OBVIOUS
<1> USE DEF Goto
<1>1. ASSUME NEW j \in Jobs, JobStep(j) PROVE FreshSeen'
  <2> j \in Procs
    BY DEF Procs
  <2>1. CASE ReserveReplace(j)
    BY <2>1, FreshWritten DEF ReserveReplace, TypeOK
  <2>2. CASE ReserveError(j)
    <3>1. \A q \in Procs : pc'[q] = "replace" => pc[q] = "replace"
      BY <2>2 DEF ReserveError, TypeOK
    <3>2. CASE UNCHANGED <<doc, fresh>>
      BY <2>2, <3>1, <3>2 DEF ReserveError, FreshSeen, Procs
    <3>3. CASE Write(j, cur[j], BookedBy(JobName[j]))
      BY <2>2, <3>1, <3>3, FreshWritten DEF ReserveError
    <3> QED
      BY <2>2, <3>2, <3>3 DEF ReserveError
  <2>3. CASE ReleaseReplace(j)
    BY <2>3, FreshWritten DEF ReleaseReplace, TypeOK
  <2>4. CASE ReserveGet(j)
    BY <2>4 DEF ReserveGet, Read, FreshSeen, TypeOK, Procs
  <2>5. CASE NextRow(j)
    BY <2>5 DEF NextRow, FreshSeen, TypeOK, Procs
  <2>6. CASE ReserveReget(j)
    <3>1. pc'[j] # "replace"
      BY <2>6 DEF ReserveReget, TypeOK
    <3>2. \A k \in Jobs \ {j} : pc'[k] = pc[k] /\ seen'[k] = seen[k] /\ fresh'[k] = fresh[k]
      BY <2>6 DEF ReserveReget, Read, TypeOK, Procs
    <3> QED
      BY <2>6, <3>1, <3>2 DEF ReserveReget, FreshSeen
  <2>7. CASE ReleaseGet(j)
    BY <2>7 DEF ReleaseGet, Read, FreshSeen, TypeOK, Procs
  <2>8. CASE CheckAlive(j)
    BY <2>8 DEF CheckAlive, FreshSeen, TypeOK, Procs
  <2>9. CASE GetNodesRefused(j) \/ GetNodesQuery(j) \/ ReserveCasMismatch(j)
             \/ NotEnoughNodes(j) \/ ReleaseNodes(j) \/ ReleaseDone(j)
    BY <2>9 DEF GetNodesRefused, GetNodesQuery, ReserveCasMismatch, NotEnoughNodes,
                ReleaseNodes, ReleaseDone, FreshSeen, TypeOK, Procs
  <2> QED
    BY <1>1, <2>1, <2>2, <2>3, <2>4, <2>5, <2>6, <2>7, <2>8, <2>9 DEF JobStep
<1>2. ASSUME NEW c \in Cleaners, CleanStep(c) PROVE FreshSeen'
  <2> c \in Procs /\ c \notin Jobs
    BY PoolAssumption DEF Procs
  <2>1. CASE CleanupReplace(c)
    BY <2>1, FreshWritten DEF CleanupReplace, TypeOK
  <2>2. CASE CleanupQuery(c) \/ CleanupGet(c) \/ CleanupDone(c)
    BY <2>2 DEF CleanupQuery, CleanupGet, CleanupDone, Read, FreshSeen, TypeOK, Procs
  <2> QED
    BY <1>2, <2>1, <2>2 DEF CleanStep
<1>3. CASE \E p \in Procs : Crash(p)
  BY <1>3 DEF Crash, FreshSeen, TypeOK, Procs
<1>4. CASE UNCHANGED vars
  BY <1>4 DEF vars, FreshSeen
<1> QED
  BY <1>1, <1>2, <1>3, <1>4 DEF Next

\* However the processes interleave, a job that read a node as available and whose
\* replace then went through took it from nobody: the CAS of line 141 closes the gap
\* between the read and the write (what it does not close is the gap after the query).
THEOREM ReserveIsCompareAndSwap == Spec => SawFreeTookFree
<1> DEFINE A == \A j \in Jobs : (pc[j] = "replace" /\ got'[j] /\ pc'[j] = "alive"
                                   /\ seen[j].state = "available")
                    => doc[cur[j]].state = "available"
<1>1. Init => FreshSeen
  BY DEF Init, FreshSeen, Procs
<1>2. TypeOK /\ CurOK /\ FreshSeen /\ [Next]_vars => [A]_vars
  <2> SUFFICES ASSUME TypeOK, CurOK, FreshSeen, Next, NEW j \in Jobs,
                      pc[j] = "replace", got'[j], pc'[j] = "alive",
                      seen[j].state = "available"
               PROVE  doc[cur[j]].state = "available"
    BY DEF A
  <2> j \in Procs
    BY DEF Procs
  <2>1. CASE fresh[j]
    BY <2>1 DEF FreshSeen
  <2>2. CASE ~fresh[j]
    <3>1. ~ReserveReplace(j) /\ ~ReserveCasMismatch(j) /\ ~ReserveError(j)
      BY <2>2 DEF ReserveReplace, ReserveCasMismatch, ReserveError, Goto, TypeOK
    <3>2. ~JobStep(j)
      BY <3>1 DEF JobStep, GetNodesRefused, GetNodesQuery, NextRow, ReserveGet, ReserveReget,
                  CheckAlive, NotEnoughNodes, ReleaseNodes, ReleaseGet, ReleaseReplace,
                  ReleaseDone
    <3>3. \A k \in Jobs \ {j} : ~JobStep(k)
      BY DEF JobStep, GetNodesRefused, GetNodesQuery, NextRow, ReserveGet, ReserveReplace,
             ReserveCasMismatch, ReserveError, ReserveReget, CheckAlive, NotEnoughNodes,
             ReleaseNodes, ReleaseGet, ReleaseReplace, ReleaseDone, Goto, TypeOK
    <3>4. \A c \in Cleaners : ~CleanStep(c)
      BY PoolAssumption DEF CleanStep, CleanupQuery, CleanupGet, CleanupReplace, CleanupDone,
                            Goto, TypeOK
    <3>5. \A p \in Procs : ~Crash(p)
      BY DEF Crash, Goto, TypeOK
    <3> QED
      BY <3>2, <3>3, <3>4, <3>5 DEF Next
  <2> QED
    BY <2>1, <2>2
<1> QED
  BY <1>1, <1>2, FreshStep, TypeInit, TypeStep, PTL DEF Spec, SawFreeTookFree

-----------------------------------------------------------------------------
(* Every interleaving: when a job has its nodes alone                      *)

\* A job that has not begun has reserved nothing, and the node being released is no
\* longer in the list.
ListsOK ==
    \A j \in Jobs : /\ pc[j] = "idle" => pool[j] = {}
                    /\ pc[j] = "free" => cur[j] \notin todo[j]

\* Every step keeps that.
LEMMA ListsStep ==
    ASSUME TypeOK, ListsOK, [Next]_vars PROVE ListsOK'
<1> USE DEF ListsOK, TypeOK, Goto, Procs
<1>1. ASSUME NEW j \in Jobs, JobStep(j) PROVE ListsOK'
  <2>1. CASE GetNodesRefused(j) \/ GetNodesQuery(j) \/ NextRow(j) \/ ReserveGet(j)
             \/ ReserveReplace(j) \/ ReserveCasMismatch(j)
    BY <2>1 DEF GetNodesRefused, GetNodesQuery, NextRow, ReserveGet, ReserveReplace,
                ReserveCasMismatch
  <2>2. CASE ReserveError(j)
    BY <2>2 DEF ReserveError
  <2>3. CASE ReserveReget(j)
    <3>1. pc'[j] \in {"get", "alive"} /\ \A k \in Jobs \ {j} : pc'[k] = pc[k]
      BY <2>3 DEF ReserveReget
    <3> QED
      BY <2>3, <3>1 DEF ReserveReget
  <2>4. CASE CheckAlive(j)
    <3>1. /\ pc'[j] \in {"using", "row"}
          /\ \A k \in Jobs \ {j} : /\ pc'[k] = pc[k] /\ todo'[k] = todo[k]
                                   /\ cur'[k] = cur[k] /\ pool'[k] = pool[k]
      BY <2>4 DEF CheckAlive
    <3> QED
      BY <3>1
  <2>5. CASE NotEnoughNodes(j) \/ ReleaseNodes(j) \/ ReleaseGet(j) \/ ReleaseReplace(j)
             \/ ReleaseDone(j)
    BY <2>5 DEF NotEnoughNodes, ReleaseNodes, ReleaseGet, ReleaseReplace, ReleaseDone
  <2> QED
    BY <1>1, <2>1, <2>2, <2>3, <2>4, <2>5 DEF JobStep
<1>2. ASSUME NEW c \in Cleaners, CleanStep(c) PROVE ListsOK'
  <2>1. c \notin Jobs
    BY PoolAssumption
  <2> QED
    BY <1>2, <2>1 DEF CleanStep, CleanupQuery, CleanupGet, CleanupReplace, CleanupDone
<1>3. CASE \E p \in Procs : Crash(p)
  BY <1>3 DEF Crash
<1>4. CASE UNCHANGED vars
  BY <1>4 DEF vars
<1> QED
  BY <1>1, <1>2, <1>3, <1>4 DEF Next

\* What a job holds depends only on its own variables.
LEMMA HoldsSame ==
    ASSUME NEW k \in Jobs, pc'[k] = pc[k], todo'[k] = todo[k], cur'[k] = cur[k],
           pool'[k] = pool[k], got'[k] = got[k]
    PROVE  Holds(k)' = Holds(k)
BY DEF Holds, Held

\* A mark stays as long as somebody holds the node.
LEMMA MarksStay ==
    ASSUME Marks, NEW k \in Jobs, NEW n \in Holds(k)', n \in taken \cup WrittenOver
    PROVE  n \in taken'
BY DEF Marks

\* A step that writes no document, and after which nobody holds more than before.
LEMMA HeldFrame ==
    ASSUME HeldAlone, Marks, doc' = doc, \A j \in Jobs : Holds(j)' \subseteq Holds(j)
    PROVE  HeldAlone'
<1> SUFFICES ASSUME NEW j \in Jobs, NEW n \in Holds(j)', n \notin taken'
             PROVE  /\ doc'[n] = BookedBy(JobName[j])
                    /\ \A k \in Jobs \ {j} : n \notin Holds(k)'
  BY DEF HeldAlone, BookedBy
<1>1. n \in Holds(j) /\ n \notin taken
  BY MarksStay
<1> QED
  BY <1>1 DEF HeldAlone

\* A step that writes the document of node m.
LEMMA HeldWritten ==
    ASSUME TypeOK, HeldAlone, Marks, NEW m \in Nodes, NEW d, doc' = [doc EXCEPT ![m] = d],
           \A j \in Jobs : Holds(j)' \subseteq Holds(j) \cup {m},
           \A j \in Jobs : Holds(j) \subseteq Nodes,
           m \notin taken' => \A j \in Jobs : m \in Holds(j)' =>
                                /\ d = BookedBy(JobName[j])
                                /\ \A k \in Jobs \ {j} : m \notin Holds(k)'
    PROVE  HeldAlone'
<1> SUFFICES ASSUME NEW j \in Jobs, NEW n \in Holds(j)', n \notin taken'
             PROVE  /\ doc'[n] = BookedBy(JobName[j])
                    /\ \A k \in Jobs \ {j} : n \notin Holds(k)'
  BY DEF HeldAlone, BookedBy
<1>1. CASE n = m
  BY <1>1 DEF TypeOK
<1>2. CASE n # m
  <2>1. n \in Holds(j) /\ n \notin taken /\ n \in Nodes
    BY <1>2, MarksStay
  <2>2. doc'[n] = doc[n]
    BY <1>2, <2>1 DEF TypeOK
  <2> QED
    BY <1>2, <2>1, <2>2 DEF HeldAlone
<1> QED
  BY <1>1, <1>2

\* The nodes a job holds are nodes of the pool.
LEMMA HoldsNodes ==
    ASSUME TypeOK, CurOK, NEW k \in Jobs PROVE Holds(k) \subseteq Nodes
<1> k \in Procs
  BY DEF Procs
<1>1. pc[k] = "alive" => cur[k] \in Nodes
  BY DEF CurOK, AtNode
<1> QED
  BY <1>1, HeldNodes DEF Holds

\* A node that the bucket has as available is held by nobody, unless it is marked.
LEMMA AvailableUnheld ==
    ASSUME HeldAlone, NEW n, n \notin taken, doc[n].state = "available"
    PROVE  \A k \in Jobs : n \notin Holds(k)
<1> SUFFICES ASSUME NEW k \in Jobs, n \in Holds(k) PROVE FALSE
  OBVIOUS
<1>1. doc[n] = BookedBy(JobName[k])
  BY DEF HeldAlone
<1>2. doc[n].state = "booked"
  BY <1>1 DEF BookedBy
<1> QED
  BY <1>2

\* Each step of a job keeps its nodes with whoever holds them.
LEMMA AloneJobStep ==
    ASSUME TypeOK, CurOK, FreshSeen, ListsOK, HeldAlone, Marks, NEW j \in Jobs, JobStep(j)
    PROVE  HeldAlone'
<1>a. j \in Procs /\ \A k \in Jobs : k \in Procs
  BY DEF Procs
<1>b. \A k \in Jobs : Holds(k) \subseteq Nodes
  BY HoldsNodes
<1>1. CASE \/ GetNodesRefused(j) \/ GetNodesQuery(j) \/ NextRow(j) \/ ReserveGet(j)
           \/ ReserveCasMismatch(j) \/ NotEnoughNodes(j) \/ ReleaseNodes(j) \/ ReleaseDone(j)
  <2>1. doc' = doc
    BY <1>1 DEF GetNodesRefused, GetNodesQuery, NextRow, ReserveGet, ReserveCasMismatch,
                NotEnoughNodes, ReleaseNodes, ReleaseDone
  <2>2. \A k \in Jobs \ {j} : /\ pc'[k] = pc[k] /\ todo'[k] = todo[k] /\ cur'[k] = cur[k]
                             /\ pool'[k] = pool[k] /\ got'[k] = got[k]
    BY <1>1, <1>a DEF GetNodesRefused, GetNodesQuery, NextRow, ReserveGet, ReserveCasMismatch,
                      NotEnoughNodes, ReleaseNodes, ReleaseDone, Goto, TypeOK
  <2>3. Holds(j)' \subseteq Holds(j)
    BY <1>1, <1>a DEF GetNodesRefused, GetNodesQuery, NextRow, ReserveGet, ReserveCasMismatch,
                      NotEnoughNodes, ReleaseNodes, ReleaseDone, Goto, TypeOK, Holds, Held,
                      ListsOK
  <2> QED
    BY <2>1, <2>2, <2>3, HoldsSame, HeldFrame
<1>2. CASE ReserveReget(j)
  <2>1. doc' = doc
    BY <1>2 DEF ReserveReget
  <2>2. \A k \in Jobs \ {j} : /\ pc'[k] = pc[k] /\ todo'[k] = todo[k] /\ cur'[k] = cur[k]
                             /\ pool'[k] = pool[k] /\ got'[k] = got[k]
    BY <1>2, <1>a DEF ReserveReget, Goto, TypeOK
  <2>3. Holds(j)' \subseteq Holds(j)
    BY <1>2, <1>a DEF ReserveReget, Goto, TypeOK, Holds, Held
  <2> QED
    BY <2>1, <2>2, <2>3, HoldsSame, HeldFrame
<1>3. CASE CheckAlive(j)
  <2>1. doc' = doc
    BY <1>3 DEF CheckAlive
  <2>2. \A k \in Jobs \ {j} : /\ pc'[k] = pc[k] /\ todo'[k] = todo[k] /\ cur'[k] = cur[k]
                             /\ pool'[k] = pool[k] /\ got'[k] = got[k]
    BY <1>3, <1>a DEF CheckAlive, Goto, TypeOK
  <2>3. pool'[j] = pool[j] \/ (got[j] /\ pool'[j] = pool[j] \cup {cur[j]})
    BY <1>3, <1>a DEF CheckAlive, TypeOK
  <2>4. Holds(j)' = pool'[j]
    BY <1>3, <1>a DEF CheckAlive, Holds, Held, Goto, TypeOK
  <2>5. Holds(j) = pool[j] \cup IF got[j] THEN {cur[j]} ELSE {}
    BY <1>3 DEF CheckAlive, Holds, Held
  <2> QED
    BY <2>1, <2>2, <2>3, <2>4, <2>5, HoldsSame, HeldFrame
<1>4. CASE ReleaseGet(j)
  <2>1. doc' = doc
    BY <1>4 DEF ReleaseGet
  <2>2. \A k \in Jobs \ {j} : /\ pc'[k] = pc[k] /\ todo'[k] = todo[k] /\ cur'[k] = cur[k]
                             /\ pool'[k] = pool[k] /\ got'[k] = got[k]
    BY <1>4, <1>a DEF ReleaseGet, Goto, TypeOK
  <2>3. Holds(j)' \subseteq Holds(j)
    BY <1>4, <1>a DEF ReleaseGet, Goto, TypeOK, Holds, Held
  <2> QED
    BY <2>1, <2>2, <2>3, HoldsSame, HeldFrame
<1>5. CASE ReserveReplace(j) \/ (ReserveError(j) /\ doc' # doc)
  <2> DEFINE m == cur[j]
  <2>1. /\ pc[j] = "replace" /\ fresh[j] /\ Write(j, m, BookedBy(JobName[j]))
        /\ pc'[j] # "replace" /\ m \in Nodes
        /\ got'[j] \in BOOLEAN /\ UNCHANGED <<todo, cur, pool>>
    BY <1>5, <1>a DEF ReserveReplace, ReserveError, Goto, TypeOK, CurOK, AtNode
  <2>2. \A k \in Jobs \ {j} : /\ pc'[k] = pc[k] /\ todo'[k] = todo[k] /\ cur'[k] = cur[k]
                             /\ pool'[k] = pool[k] /\ got'[k] = got[k]
    BY <1>5, <1>a DEF ReserveReplace, ReserveError, Goto, TypeOK
  <2>3. Holds(j)' \subseteq Holds(j) \cup {m}
    BY <1>5, <1>a, <2>1 DEF ReserveReplace, ReserveError, Goto, TypeOK, Holds, Held
  <2>4. \A k \in Jobs \ {j} : Holds(k)' = Holds(k)
    BY <2>2, HoldsSame
  <2>5. ~fresh'[j]
    BY <1>a, <2>1 DEF Write
  <2>6. ASSUME m \notin taken', NEW k \in Jobs, m \in Holds(k)'
        PROVE  /\ BookedBy(JobName[j]) = BookedBy(JobName[k])
               /\ \A i \in Jobs \ {k} : m \notin Holds(i)'
    <3>1. m \notin taken /\ m \notin WrittenOver
      BY <2>6, MarksStay
    <3>2. ~BooksBooked(j)
      BY <3>1 DEF WrittenOver
    <3>3. seen[j].state # "booked" /\ seen[j] = doc[m]
      BY <3>2, <2>1, <2>5 DEF BooksBooked, FreshSeen
    <3>4. doc[m].state = "available"
      BY <3>3, <2>1 DEF TypeOK, Docs
    <3>5. \A i \in Jobs : m \notin Holds(i)
      BY <3>1, <3>4, AvailableUnheld
    <3>6. k = j
      BY <2>4, <2>6, <3>5
    <3> QED
      BY <2>4, <3>5, <3>6
  <2>7. doc' = [doc EXCEPT ![m] = BookedBy(JobName[j])]
    BY <2>1 DEF Write
  <2> HIDE DEF m
  <2>8. m \in Nodes /\ \A k \in Jobs : Holds(k)' \subseteq Holds(k) \cup {m}
    BY <2>1, <2>3, <2>4
  <2>9. m \notin taken' => \A k \in Jobs : m \in Holds(k)' =>
                             /\ BookedBy(JobName[j]) = BookedBy(JobName[k])
                             /\ \A i \in Jobs \ {k} : m \notin Holds(i)'
    BY <2>6
  <2> QED
    BY <1>b, <2>7, <2>8, <2>9, HeldWritten
<1>6. CASE ReserveError(j) /\ doc' = doc
  <2>2. \A k \in Jobs \ {j} : /\ pc'[k] = pc[k] /\ todo'[k] = todo[k] /\ cur'[k] = cur[k]
                             /\ pool'[k] = pool[k] /\ got'[k] = got[k]
    BY <1>6, <1>a DEF ReserveError, Goto, TypeOK
  <2>3. /\ pc[j] = "replace" /\ pc'[j] \in {"reget", "alive"} /\ ~got'[j]
        /\ pool'[j] = pool[j]
    BY <1>6, <1>a DEF ReserveError, Goto, TypeOK
  <2>4. Holds(j)' \subseteq Holds(j)
    BY <2>3 DEF Holds, Held
  <2> QED
    BY <1>6, <2>2, <2>4, HoldsSame, HeldFrame
<1>7. CASE ReleaseReplace(j)
  <2> DEFINE m == cur[j]
  <2>1. /\ pc[j] = "free" /\ Write(j, m, Free) /\ pc'[j] = "release" /\ m \in Nodes
        /\ UNCHANGED <<todo, cur, pool, got>>
    BY <1>7, <1>a DEF ReleaseReplace, Goto, TypeOK, CurOK, AtNode
  <2>2. \A k \in Jobs \ {j} : Holds(k)' = Holds(k)
    <3>1. \A k \in Jobs \ {j} : pc'[k] = pc[k]
      BY <1>7, <1>a DEF ReleaseReplace, Goto, TypeOK
    <3> QED
      BY <2>1, <3>1, HoldsSame
  <2>3. Holds(j) = todo[j] \cup {m} /\ Holds(j)' = todo[j] /\ m \notin todo[j]
    BY <2>1 DEF Holds, Held, ListsOK
  <2>4. m \notin taken' => \A k \in Jobs : m \notin Holds(k)'
    <3> SUFFICES ASSUME m \notin taken', NEW k \in Jobs, m \in Holds(k)' PROVE FALSE
      OBVIOUS
    <3>1. m \notin taken /\ k # j
      BY <2>3, MarksStay
    <3> QED
      BY <3>1, <2>2, <2>3 DEF HeldAlone
  <2>5. doc' = [doc EXCEPT ![m] = Free] /\ m \in Nodes
    BY <2>1 DEF Write
  <2> HIDE DEF m
  <2>6. \A k \in Jobs : Holds(k)' \subseteq Holds(k) \cup {m}
    BY <2>2, <2>3
  <2> QED
    BY <1>b, <2>4, <2>5, <2>6, HeldWritten
<1> QED
  BY <1>1, <1>2, <1>3, <1>4, <1>5, <1>6, <1>7 DEF JobStep

\* A cleanup marks what it takes from a job.
LEMMA AloneCleanStep ==
    ASSUME TypeOK, CurOK, HeldAlone, Marks, NEW c \in Cleaners, CleanStep(c)
    PROVE  HeldAlone'
<1>1. c \notin Jobs /\ c \in Procs
  BY PoolAssumption DEF Procs
<1>2. \A k \in Jobs : /\ pc'[k] = pc[k] /\ todo'[k] = todo[k] /\ cur'[k] = cur[k]
                      /\ pool'[k] = pool[k] /\ got'[k] = got[k]
  BY <1>1 DEF CleanStep, CleanupQuery, CleanupGet, CleanupReplace, CleanupDone, Goto, TypeOK,
              Procs
<1>3. \A k \in Jobs : Holds(k)' = Holds(k) /\ Holds(k) \subseteq Nodes
  BY <1>2, HoldsSame, HoldsNodes
<1>4. CASE CleanupReplace(c)
  <2> DEFINE m == cur[c]
  <2>1. m \in Nodes /\ Unblocks(c) /\ doc' = [doc EXCEPT ![m] = Free]
    BY <1>1, <1>4 DEF CleanupReplace, Unblocks, Write, Goto, TypeOK, CurOK, AtNode
  <2>2. m \in WrittenOver
    BY <2>1 DEF WrittenOver
  <2> HIDE DEF m
  <2>3. m \notin taken' => \A k \in Jobs : m \notin Holds(k)'
    BY <2>2, MarksStay
  <2>4. \A k \in Jobs : Holds(k)' \subseteq Holds(k) \cup {m}
    BY <1>3
  <2> QED
    BY <1>3, <2>1, <2>3, <2>4, HeldWritten
<1>5. CASE CleanupQuery(c) \/ CleanupGet(c) \/ CleanupDone(c)
  <2>1. doc' = doc
    BY <1>5 DEF CleanupQuery, CleanupGet, CleanupDone
  <2> QED
    BY <1>3, <2>1, HeldFrame
<1> QED
  BY <1>4, <1>5 DEF CleanStep

\* Every step, with its marks.
LEMMA AloneStep ==
    ASSUME TypeOK, CurOK, FreshSeen, ListsOK, HeldAlone, [HistoryNext]_historyVars
    PROVE  HeldAlone'
<1>1. CASE HistoryNext
  <2>1. Next /\ Marks
    BY <1>1 DEF HistoryNext
  <2>2. ASSUME NEW p \in Procs, Crash(p) PROVE HeldAlone'
    <3>1. doc' = doc
      BY <2>2 DEF Crash
    <3>2. \A k \in Jobs : Holds(k)' \subseteq Holds(k)
      BY <2>2 DEF Crash, Goto, TypeOK, Holds, Held, Procs
    <3> QED
      BY <2>1, <3>1, <3>2, HeldFrame
  <2> QED
    BY <2>1, <2>2, AloneJobStep, AloneCleanStep DEF Next
<1>2. CASE UNCHANGED historyVars
  BY <1>2 DEF historyVars, vars, HeldAlone, Holds, Held, BookedBy
<1> QED
  BY <1>1, <1>2

\* However jobs, cleanups and crashes interleave, a job has the nodes that it has reserved,
\* works with or is releasing for itself, and the bucket says so, as long as no
\* reservation that read a node as booked and no cleanup wrote over it meanwhile: the CAS
\* of line 141 and the check of the user in release_node leave no third way.
THEOREM OverlapExclusive == HistorySpec => []HeldAlone
<1>1. HistoryInit => TypeOK /\ CurOK /\ FreshSeen /\ ListsOK /\ HeldAlone
  <2> SUFFICES ASSUME HistoryInit PROVE TypeOK /\ CurOK /\ FreshSeen /\ ListsOK /\ HeldAlone
    OBVIOUS
  <2>1. TypeOK /\ CurOK
    BY TypeInit DEF HistoryInit
  <2> QED
    BY <2>1 DEF HistoryInit, Init, FreshSeen, ListsOK, HeldAlone, Holds, Held, Procs
<1>2. [HistoryNext]_historyVars => [Next]_vars
  BY DEF HistoryNext, historyVars
<1>3. TypeOK /\ ListsOK /\ [Next]_vars => ListsOK'
  BY ListsStep
<1>4. /\ TypeOK /\ CurOK /\ FreshSeen /\ ListsOK /\ HeldAlone
      /\ [HistoryNext]_historyVars
      => HeldAlone'
  BY AloneStep
<1> QED
  BY <1>1, <1>2, <1>3, <1>4, TypeStep, FreshStep, PTL DEF HistorySpec
-----------------------------------------------------------------------------
(* Every interleaving: what a job is handed, and what its release leaves   *)

\* Everything a reservation goes over, and has collected, is of the kind asked for.
RowsSuit ==
    \A j \in Jobs :
        /\ pc[j] \in {"row", "get", "replace", "reget", "alive"} =>
              \A n \in todo[j] \cup pool[j] : Matches(n, Request[j])
        /\ pc[j] \in {"get", "replace", "reget", "alive"} => Matches(cur[j], Request[j])
        /\ pc[j] = "idle" => pool[j] = {}

\* A job is known by its name: it has one, and no other job has the same.
Named(j) ==
    /\ JobName[j] \notin {Empty, None}
    /\ \A k \in Jobs : JobName[k] = JobName[j] => k = j

\* What a release has been through is not booked under the job's name any more.
Cleared ==
    \A j \in Jobs : pc[j] \in {"release", "free", "released"} /\ Named(j) =>
        \A n \in pool[j] \ Held(j) : doc[n].username # JobName[j]

HandsInv == RowsSuit /\ HandedInFull /\ Cleared

\* Writing a document for another job, or freeing it, leaves a named job cleared.
LEMMA ClearedWritten ==
    ASSUME TypeOK, CurOK, Cleared, NEW p \in Procs, pc[p] \in AtNode,
           NEW d, Write(p, cur[p], d),
           d = Free \/ (\E k \in Jobs : k = p /\ d = BookedBy(JobName[k])),
           UNCHANGED <<todo, cur, pool>>,
           \A j \in Jobs \ {p} : pc'[j] = pc[j],
           p \in Jobs => pc'[p] \notin {"release", "free", "released"}
    PROVE  Cleared'
<1> SUFFICES ASSUME NEW j \in Jobs, pc'[j] \in {"release", "free", "released"}, Named(j),
                    NEW n \in pool'[j] \ Held(j)'
             PROVE  doc'[n].username # JobName[j]
  BY DEF Cleared, Named
<1>1. j # p
  OBVIOUS
<1>2. pc'[j] = pc[j]
  BY <1>1
<1>3. Held(j)' = Held(j)
  BY <1>2, HeldSame
<1>4. n \in Nodes /\ doc[n].username # JobName[j]
  BY <1>2, <1>3 DEF Cleared, TypeOK, Procs
<1>5. d.username # JobName[j]
  BY <1>1 DEF Named, Free, BookedBy
<1>6. cur[p] \in Nodes
  BY DEF CurOK
<1> QED
  BY <1>4, <1>5, <1>6 DEF Write, TypeOK

\* A step that leaves the bucket, and a releasing job's place in its list, alone.
LEMMA ClearedKept ==
    ASSUME TypeOK, CurOK, Cleared, UNCHANGED doc,
           \A j \in Jobs : pc'[j] \in {"release", "free", "released"} =>
               \/ UNCHANGED <<pc[j], todo[j], cur[j], pool[j]>>
               \/ pool'[j] \subseteq Held(j)'
               \/ /\ pc[j] \in {"release", "free"} /\ pool'[j] = pool[j]
                  /\ Held(j)' = Held(j)
    PROVE  Cleared'
<1> SUFFICES ASSUME NEW j \in Jobs, pc'[j] \in {"release", "free", "released"}, Named(j),
                    NEW n \in pool'[j] \ Held(j)'
             PROVE  doc[n].username # JobName[j]
  BY DEF Cleared, Named
<1>1. CASE UNCHANGED <<pc[j], todo[j], cur[j], pool[j]>>
  BY <1>1, HeldSame DEF Cleared
<1>2. CASE pc[j] \in {"release", "free"} /\ pool'[j] = pool[j] /\ Held(j)' = Held(j)
  BY <1>2 DEF Cleared
<1> QED
  BY <1>1, <1>2

\* Every step of a job keeps what it goes over suitable, and hands it out in full.
LEMMA SuitStep ==
    ASSUME TypeOK, CurOK, RowsSuit, HandedInFull, NEW j \in Jobs, JobStep(j)
    PROVE  RowsSuit' /\ HandedInFull'
<1> j \in Procs
  BY DEF Procs
<1> USE DEF Goto
<1>0. ASSUME \A k \in Jobs \ {j} : UNCHANGED <<pc[k], todo[k], cur[k], pool[k]>>,
             pc'[j] \in {"row", "get", "replace", "reget", "alive"} =>
                 \A n \in todo'[j] \cup pool'[j] : Matches(n, Request[j]),
             pc'[j] \in {"get", "replace", "reget", "alive"} => Matches(cur'[j], Request[j]),
             pc'[j] = "using" => /\ Cardinality(pool'[j]) = Request[j].num
                                 /\ \A n \in pool'[j] : Matches(n, Request[j]),
             pc'[j] # "idle"
      PROVE  RowsSuit' /\ HandedInFull'
  <2>1. RowsSuit'
    BY <1>0 DEF RowsSuit, Matches
  <2>2. HandedInFull'
    BY <1>0 DEF HandedInFull, Matches
  <2> QED
    BY <2>1, <2>2
<1> DEFINE others == \A k \in Jobs \ {j} : UNCHANGED <<pc[k], todo[k], cur[k], pool[k]>>
<1>1. CASE GetNodesRefused(j)
  BY <1>0, <1>1 DEF GetNodesRefused, TypeOK, Procs
<1>2. CASE GetNodesQuery(j)
  BY <1>0, <1>2 DEF GetNodesQuery, TypeOK, Procs, RowsSuit
<1>3. CASE NextRow(j)
  BY <1>0, <1>3 DEF NextRow, TypeOK, Procs, RowsSuit
<1>4. CASE ReserveGet(j) \/ ReserveCasMismatch(j)
  BY <1>0, <1>4 DEF ReserveGet, ReserveCasMismatch, TypeOK, Procs, RowsSuit
<1>5. CASE ReserveReplace(j)
  BY <1>0, <1>5 DEF ReserveReplace, TypeOK, Procs, RowsSuit
<1>6. CASE ReserveError(j)
  BY <1>0, <1>6 DEF ReserveError, TypeOK, Procs, RowsSuit
<1>7. CASE ReserveReget(j)
  BY <1>0, <1>7 DEF ReserveReget, TypeOK, Procs, RowsSuit
<1>8. CASE CheckAlive(j)
  <2>1. others
    BY <1>8 DEF CheckAlive, TypeOK, Procs
  <2>2. \A n \in todo[j] \cup pool[j] \cup {cur[j]} : Matches(n, Request[j])
    BY <1>8 DEF CheckAlive, RowsSuit
  <2>3. pool'[j] \subseteq pool[j] \cup {cur[j]} /\ todo'[j] \subseteq todo[j]
    BY <1>8 DEF CheckAlive, TypeOK
  <2>4. \A n \in todo'[j] \cup pool'[j] : Matches(n, Request[j])
    BY <2>2, <2>3
  <2>5. pc'[j] \in {"using", "row"}
    BY <1>8 DEF CheckAlive, TypeOK
  <2>6. pc'[j] = "using" => Cardinality(pool'[j]) = Request[j].num
    BY <1>8 DEF CheckAlive, TypeOK
  <2> QED
    BY <1>0, <2>1, <2>4, <2>5, <2>6
<1>9. CASE NotEnoughNodes(j) \/ ReleaseNodes(j) \/ ReleaseGet(j) \/ ReleaseReplace(j)
           \/ ReleaseDone(j)
  BY <1>0, <1>9 DEF NotEnoughNodes, ReleaseNodes, ReleaseGet, ReleaseReplace, ReleaseDone,
                    TypeOK, Procs
<1> QED
  BY <1>1, <1>2, <1>3, <1>4, <1>5, <1>6, <1>7, <1>8, <1>9 DEF JobStep

\* Every step of a job keeps what a release went through cleared.
LEMMA ClearedJobStep ==
    ASSUME TypeOK, CurOK, Cleared, NEW j \in Jobs, JobStep(j)
    PROVE  Cleared'
<1> j \in Procs
  BY DEF Procs
<1> USE DEF Goto
<1>1. CASE ReserveReplace(j)
  BY <1>1, ClearedWritten DEF ReserveReplace, TypeOK, AtNode, Procs
<1>2. CASE ReserveError(j)
  <2>1. /\ \A k \in Jobs \ {j} : pc'[k] = pc[k]
        /\ pc'[j] \notin {"release", "free", "released"}
        /\ UNCHANGED <<todo, cur, pool>> /\ pc[j] \in AtNode
    BY <1>2 DEF ReserveError, TypeOK, AtNode, Procs
  <2>2. CASE UNCHANGED <<doc, fresh>>
    BY <2>1, <2>2, ClearedKept
  <2>3. CASE Write(j, cur[j], BookedBy(JobName[j]))
    BY <2>1, <2>3, ClearedWritten
  <2> QED
    BY <1>2, <2>2, <2>3 DEF ReserveError
<1>3. CASE ReleaseReplace(j)
  <2> SUFFICES ASSUME NEW k \in Jobs, pc'[k] \in {"release", "free", "released"}, Named(k),
                      NEW n \in pool'[k] \ Held(k)'
               PROVE  doc'[n].username # JobName[k]
    BY DEF Cleared, Named
  <2>1. Free.username # JobName[k]
    BY DEF Named, Free
  <2>2. cur[j] \in Nodes /\ doc' = [doc EXCEPT ![cur[j]] = Free]
    BY <1>3 DEF ReleaseReplace, Write, CurOK, AtNode
  <2>3. CASE n = cur[j]
    BY <2>1, <2>2, <2>3 DEF TypeOK
  <2>4. CASE n # cur[j]
    <3>1. n \in pool[k] \ Held(k) /\ n \in Nodes
      BY <1>3, <2>4 DEF ReleaseReplace, Held, TypeOK, Procs
    <3>2. pc[k] \in {"release", "free", "released"}
      BY <1>3 DEF ReleaseReplace, TypeOK, Procs
    <3> QED
      BY <2>2, <2>4, <3>1, <3>2 DEF Cleared, TypeOK
  <2> QED
    BY <2>3, <2>4
<1>4. CASE GetNodesRefused(j) \/ GetNodesQuery(j) \/ ReserveGet(j) \/ ReserveCasMismatch(j)
  BY <1>4, ClearedKept DEF GetNodesRefused, GetNodesQuery, ReserveGet, ReserveCasMismatch,
                           TypeOK, Procs
<1>5. CASE NextRow(j)
  BY <1>5, ClearedKept DEF NextRow, TypeOK, Procs
<1>6. CASE ReserveReget(j)
  <2>1. /\ \A k \in Jobs \ {j} : pc'[k] = pc[k]
        /\ pc'[j] \notin {"release", "free", "released"}
        /\ UNCHANGED <<doc, todo, cur, pool>>
    BY <1>6 DEF ReserveReget, TypeOK, Procs
  <2> QED
    BY <2>1, ClearedKept
<1>7. CASE CheckAlive(j)
  <2>1. /\ \A k \in Jobs \ {j} : UNCHANGED <<pc[k], todo[k], cur[k], pool[k]>>
        /\ pc'[j] \notin {"release", "free", "released"}
        /\ UNCHANGED doc
    BY <1>7 DEF CheckAlive, TypeOK, Procs
  <2> QED
    BY <2>1, ClearedKept
<1>8. CASE NotEnoughNodes(j) \/ ReleaseNodes(j)
  <2>1. /\ \A k \in Jobs \ {j} : UNCHANGED <<pc[k], todo[k], cur[k], pool[k]>>
        /\ pc'[j] = "release" /\ todo'[j] = pool'[j]
        /\ UNCHANGED doc
    BY <1>8 DEF NotEnoughNodes, ReleaseNodes, TypeOK, Procs
  <2>2. pool'[j] \subseteq Held(j)'
    BY <2>1 DEF Held
  <2> QED
    BY <2>1, <2>2, ClearedKept
<1>9. CASE ReleaseGet(j)
  <2>1. /\ \A k \in Jobs \ {j} : UNCHANGED <<pc[k], todo[k], cur[k], pool[k]>>
        /\ pc[j] = "release" /\ pool'[j] = pool[j] /\ UNCHANGED doc
    BY <1>9 DEF ReleaseGet, TypeOK, Procs
  <2>2. pc'[j] \in {"free", "failed"}
    BY <1>9 DEF ReleaseGet, TypeOK
  <2>3. pc'[j] = "free" => Held(j)' = Held(j)
    BY <1>9, <2>1 DEF ReleaseGet, Held, TypeOK
  <2> QED
    BY <2>1, <2>2, <2>3, ClearedKept
<1>10. CASE ReleaseDone(j)
  <2>1. /\ \A k \in Jobs \ {j} : UNCHANGED <<pc[k], todo[k], cur[k], pool[k]>>
        /\ pc[j] = "release" /\ pool'[j] = pool[j] /\ UNCHANGED doc
    BY <1>10 DEF ReleaseDone, TypeOK, Procs
  <2>2. Held(j)' = Held(j)
    BY <1>10, <2>1 DEF ReleaseDone, Held, TypeOK
  <2> QED
    BY <2>1, <2>2, ClearedKept
<1> QED
  BY <1>1, <1>2, <1>3, <1>4, <1>5, <1>6, <1>7, <1>8, <1>9, <1>10 DEF JobStep

\* Every step, of overlapping invocations too, keeps what jobs were handed right.
LEMMA HandsStep ==
    TypeOK /\ CurOK /\ HandsInv /\ [Next]_vars => HandsInv'
<1> SUFFICES ASSUME TypeOK, CurOK, HandsInv, [Next]_vars PROVE HandsInv'
  OBVIOUS
<1> USE DEF Goto
<1>1. CASE \E j \in Jobs : JobStep(j)
  BY <1>1, SuitStep, ClearedJobStep DEF HandsInv
<1>2. ASSUME NEW c \in Cleaners, CleanStep(c) PROVE HandsInv'
  <2>0. c \in Procs /\ c \notin Jobs
    BY PoolAssumption DEF Procs
  <2>1. \A k \in Jobs : UNCHANGED <<pc[k], todo[k], cur[k], pool[k]>>
    BY <1>2, <2>0 DEF CleanStep, CleanupQuery, CleanupGet, CleanupReplace, CleanupDone,
                      TypeOK, Procs
  <2>2. RowsSuit' /\ HandedInFull'
    BY <2>1 DEF HandsInv, RowsSuit, HandedInFull, Matches
  <2>3. Cleared'
    <3>1. CASE CleanupReplace(c)
      BY <2>0, <2>1, <3>1, ClearedWritten DEF CleanupReplace, HandsInv, AtNode
    <3>2. CASE UNCHANGED doc
      BY <2>1, <3>2, ClearedKept DEF HandsInv
    <3> QED
      BY <1>2, <3>1, <3>2 DEF CleanStep, CleanupQuery, CleanupGet, CleanupDone
  <2> QED
    BY <2>2, <2>3 DEF HandsInv
<1>3. ASSUME NEW p \in Procs, Crash(p) PROVE HandsInv'
  <2>1. /\ \A k \in Jobs : pc'[k] = pc[k] \/ pc'[k] = "crashed"
        /\ UNCHANGED <<doc, todo, cur, pool>>
    BY <1>3 DEF Crash, TypeOK, Procs
  <2>2. RowsSuit' /\ HandedInFull'
    BY <2>1 DEF HandsInv, RowsSuit, HandedInFull, Matches
  <2>3. Cleared'
    BY <2>1, ClearedKept DEF HandsInv
  <2> QED
    BY <2>2, <2>3 DEF HandsInv
<1>4. CASE UNCHANGED vars
  <2>1. RowsSuit' /\ HandedInFull'
    BY <1>4 DEF vars, HandsInv, RowsSuit, HandedInFull, Matches
  <2>2. Cleared'
    BY <1>4, ClearedKept DEF HandsInv, vars
  <2> QED
    BY <2>1, <2>2 DEF HandsInv
<1> QED
  BY <1>1, <1>2, <1>3, <1>4 DEF Next

\* Nothing has been handed out at the beginning.
LEMMA HandsInit == Init => HandsInv
BY DEF Init, HandsInv, RowsSuit, HandedInFull, Cleared, Procs

\* However jobs, cleanups and crashes interleave: a job is handed the number of nodes it
\* asked for, all of the kind it asked for, and once its release has gone through its
\* name is on none of them.
THEOREM HandsAreRight == Spec => []HandsRight
<1>1. HandsInv => HandsRight
  BY DEF HandsInv, HandsRight, ReleaseClears, Cleared, Named, Held
<1> QED
  BY <1>1, HandsInit, HandsStep, TypeInit, TypeStep, PTL DEF Spec
-----------------------------------------------------------------------------
(* Invocations that do not overlap implement the promise                   *)

\* Jenkins names a job after its build, so that names differ (one may be missing); a
\* process is not Python's None.
NamesDiffer ==
    /\ \A j, k \in Jobs : JobName[j] = JobName[k] => j = k
    /\ None \notin Jobs

\* The node at hand is still free: reserve_node comes back to its replace only after it
\* has seen that the node is not booked, and meanwhile nobody else writes.
RowFree ==
    \A j \in Jobs : pc[j] \in {"get", "replace"} => doc[cur[j]].state = "available"

\* A row that an invocation has read stays true while no other one runs.
LEMMA RowFreeStep ==
    ASSUME TypeOK, CurOK, SerialInv, RowFree, ~Overlap, Cleaners = {}, Next
    PROVE  RowFree'
<1> USE DEF Goto
<1>1. ASSUME NEW j \in Jobs, JobStep(j) PROVE RowFree'
  <2>a. j \in Procs
    BY DEF Procs
  <2>b. \A k \in Jobs \ {j} : pc'[k] \notin {"get", "replace"}
    <3>1. \A k \in Jobs \ {j} : pc[k] \in Resting
      BY <1>1, OthersRest DEF Procs
    <3>2. \A k \in Jobs \ {j} : pc'[k] = pc[k]
      BY <1>1, <2>a DEF JobStep, GetNodesRefused, GetNodesQuery, NextRow, ReserveGet,
             ReserveReplace, ReserveCasMismatch, ReserveError, ReserveReget, CheckAlive,
             NotEnoughNodes, ReleaseNodes, ReleaseGet, ReleaseReplace, ReleaseDone, TypeOK,
             Procs
    <3> QED
      BY <3>1, <3>2 DEF Resting, Ended
  <2> SUFFICES ASSUME pc'[j] \in {"get", "replace"} PROVE doc'[cur'[j]].state = "available"
    BY <2>b DEF RowFree
  <2>1. CASE NextRow(j)
    BY <2>1, <2>a DEF NextRow, TypeOK, SerialInv, RowsFree
  <2>2. CASE ReserveGet(j)
    BY <2>2 DEF ReserveGet, RowFree
  <2>3. CASE ReserveReget(j)
    <3>1. doc' = doc /\ cur' = cur /\ pc'[j] # "alive"
      BY <2>3 DEF ReserveReget
    <3>2. doc[cur[j]].state # "booked"
      BY <2>3, <2>a, <3>1 DEF ReserveReget, TypeOK
    <3>3. doc[cur[j]] \in Docs
      BY <2>3, <2>a DEF ReserveReget, TypeOK, CurOK, AtNode
    <3> QED
      BY <3>1, <3>2, <3>3 DEF Docs
  <2>4. CASE CheckAlive(j)
    BY <2>4, <2>a DEF CheckAlive, TypeOK
  <2>5. CASE ReserveError(j)
    BY <2>5, <2>a DEF ReserveError, TypeOK
  <2>6. CASE \/ GetNodesRefused(j) \/ GetNodesQuery(j) \/ ReserveReplace(j)
             \/ ReserveCasMismatch(j) \/ NotEnoughNodes(j) \/ ReleaseNodes(j)
             \/ ReleaseGet(j) \/ ReleaseReplace(j) \/ ReleaseDone(j)
    BY <2>6, <2>a DEF GetNodesRefused, GetNodesQuery, ReserveReplace, ReserveCasMismatch,
             NotEnoughNodes, ReleaseNodes, ReleaseGet, ReleaseReplace, ReleaseDone, TypeOK
  <2> QED
    BY <1>1, <2>1, <2>2, <2>3, <2>4, <2>5, <2>6 DEF JobStep
<1>2. CASE \E p \in Procs : Crash(p)
  BY <1>2 DEF Crash, RowFree, TypeOK, Procs
<1> QED
  BY <1>1, <1>2 DEF Next

\* The owner of a booked node is the one job of that name.
LEMMA OwnerKnown ==
    ASSUME NamesDiffer
    PROVE  /\ OwnerOf(Free) = None
           /\ \A j \in Jobs : OwnerOf(BookedBy(JobName[j])) = j
<1>1. OwnerOf(Free) = None
  BY DEF OwnerOf, Free
<1>2. ASSUME NEW j \in Jobs PROVE OwnerOf(BookedBy(JobName[j])) = j
  <2>1. \A k \in Jobs : JobName[k] = JobName[j] <=> k = j
    BY DEF NamesDiffer
  <2> QED
    BY <2>1 DEF OwnerOf, BookedBy
<1> QED
  BY <1>1, <1>2

OwnerNow == [n \in Nodes |-> OwnerOf(doc[n])]
HandsNow == [j \in Jobs |-> InUse(j)]

\* One node is booked and nothing changes hands: a step of the promise.
LEMMA BooksOne ==
    ASSUME NamesDiffer, TypeOK, CurOK, RowsSuit, RowFree, NEW j \in Jobs,
           pc[j] = "replace", Write(j, cur[j], BookedBy(JobName[j])), HandsNow' = HandsNow
    PROVE  Promise!Next
<1>1. cur[j] \in Nodes
  BY DEF CurOK, AtNode, Procs
<1>2. OwnerNow[cur[j]] = None
  BY <1>1 DEF RowFree, OwnerNow, OwnerOf
<1>3. OwnerNow' = [OwnerNow EXCEPT ![cur[j]] = j]
  BY <1>1, OwnerKnown DEF Write, OwnerNow, TypeOK
<1>4. SuitsJob(cur[j], j)
  BY DEF RowsSuit, SuitsJob
<1>5. Promise!Book(j, cur[j])
  BY <1>2, <1>3, <1>4 DEF Promise!Book, OwnerNow, HandsNow
<1> QED
  BY <1>1, <1>5 DEF Promise!Next

\* Every step of a job is a step of the promise, or invisible to it.
LEMMA PromiseJobStep ==
    ASSUME NamesDiffer, TypeOK, CurOK, SerialInv, SerialInv', HandsInv, HandsInv', RowFree,
           NEW j \in Jobs, JobStep(j)
    PROVE  [Promise!Next]_(Promise!poolVars)
<1>a. j \in Procs
  BY DEF Procs
<1> USE DEF Goto
<1>b. ASSUME doc' = doc, \A k \in Jobs : InUse(k)' = InUse(k)
      PROVE  UNCHANGED Promise!poolVars
  BY <1>b DEF Promise!poolVars
<1>c. ASSUME \A k \in Jobs \ {j} : UNCHANGED <<pc[k], pool[k]>>,
             pc[j] # "using", pc'[j] # "using"
      PROVE  (\A k \in Jobs : InUse(k)' = InUse(k)) /\ HandsNow' = HandsNow
  BY <1>c DEF InUse, HandsNow
<1>1. CASE \/ GetNodesRefused(j) \/ GetNodesQuery(j) \/ ReserveGet(j) \/ ReserveCasMismatch(j)
           \/ NotEnoughNodes(j) \/ ReleaseDone(j)
  BY <1>1, <1>a, <1>b, <1>c DEF GetNodesRefused, GetNodesQuery, ReserveGet,
       ReserveCasMismatch, NotEnoughNodes, ReleaseDone, TypeOK, Procs
<1>2. CASE NextRow(j)
  BY <1>2, <1>a, <1>b, <1>c DEF NextRow, TypeOK, Procs
<1>3. CASE ReserveReget(j)
  <2>1. /\ \A k \in Jobs \ {j} : UNCHANGED <<pc[k], pool[k]>>
        /\ pc[j] # "using" /\ pc'[j] # "using" /\ doc' = doc
    BY <1>3, <1>a DEF ReserveReget, TypeOK, Procs
  <2> QED
    BY <1>b, <1>c, <2>1
<1>4. CASE ReleaseGet(j)
  <2>1. /\ \A k \in Jobs \ {j} : UNCHANGED <<pc[k], pool[k]>>
        /\ pc[j] # "using" /\ pc'[j] # "using" /\ doc' = doc
    BY <1>4, <1>a DEF ReleaseGet, TypeOK, Procs
  <2> QED
    BY <1>b, <1>c, <2>1
<1>5. CASE ReserveReplace(j)
  <2>1. HandsNow' = HandsNow
    BY <1>5, <1>a, <1>c DEF ReserveReplace, TypeOK, Procs
  <2> QED
    BY <1>5, <2>1, BooksOne DEF ReserveReplace, HandsInv
<1>6. CASE ReserveError(j)
  <2>1. /\ \A k \in Jobs \ {j} : UNCHANGED <<pc[k], pool[k]>>
        /\ pc[j] = "replace" /\ pc'[j] # "using"
    BY <1>6, <1>a DEF ReserveError, TypeOK, Procs
  <2>2. CASE UNCHANGED <<doc, fresh>>
    BY <1>b, <1>c, <2>1, <2>2
  <2>3. CASE Write(j, cur[j], BookedBy(JobName[j]))
    BY <1>c, <2>1, <2>3, BooksOne DEF HandsInv
  <2> QED
    BY <1>6, <2>2, <2>3 DEF ReserveError
<1>7. CASE CheckAlive(j)
  <2>1. /\ \A k \in Jobs \ {j} : UNCHANGED <<pc[k], pool[k]>>
        /\ pc[j] = "alive" /\ doc' = doc /\ pc'[j] \in {"using", "row"}
    BY <1>7, <1>a DEF CheckAlive, TypeOK, Procs
  <2>2. CASE pc'[j] = "row"
    BY <1>b, <1>c, <2>1, <2>2
  <2>3. CASE pc'[j] = "using"
    <3>1. HandsNow' = [HandsNow EXCEPT ![j] = pool'[j]]
      BY <2>1, <2>3 DEF HandsNow, InUse
    <3>2. Cardinality(pool'[j]) = NumOf(j)
      BY <2>3 DEF HandsInv, HandedInFull, NumOf
    <3>3. pool'[j] \subseteq Nodes
      BY <1>7, <1>a DEF CheckAlive, TypeOK, CurOK, AtNode
    <3>4. \A n \in pool'[j] : OwnerNow[n] = j
      <4> SUFFICES ASSUME NEW n \in pool'[j] PROVE OwnerOf(doc[n]) = j
        BY <3>3 DEF OwnerNow
      <4>1. n \in Held(j)'
        BY <2>3 DEF Held
      <4>2. doc[n] = BookedBy(JobName[j])
        BY <2>1, <4>1 DEF SerialInv, HeldBooked, BookedBy
      <4> QED
        BY <4>2, OwnerKnown
    <3>5. HandsNow[j] = {} /\ OwnerNow' = OwnerNow
      BY <2>1 DEF HandsNow, OwnerNow, InUse
    <3>6. Promise!Cardinality(pool'[j]) = NumOf(j)
      BY <3>2, Zenon DEF Promise!Cardinality, Cardinality
    <3>7. Promise!Hand(j, pool'[j])
      BY <3>1, <3>4, <3>5, <3>6 DEF Promise!Hand, OwnerNow, HandsNow
    <3> QED
      BY <3>3, <3>7 DEF Promise!Next
  <2> QED
    BY <2>1, <2>2, <2>3
<1>8. CASE ReleaseNodes(j)
  <2>1. HandsNow' = [HandsNow EXCEPT ![j] = {}]
    BY <1>8, <1>a DEF ReleaseNodes, HandsNow, InUse, TypeOK, Procs
  <2>2. HandsNow[j] = pool[j] /\ Cardinality(pool[j]) \in Nat \ {0}
    BY <1>8, PoolAssumption DEF ReleaseNodes, HandsNow, InUse, HandsInv, HandedInFull
  <2>3. HandsNow[j] # {}
    BY <2>2, FS_EmptySet
  <2>4. OwnerNow' = OwnerNow
    BY <1>8 DEF ReleaseNodes, OwnerNow
  <2>5. Promise!GiveBack(j)
    BY <2>1, <2>3, <2>4 DEF Promise!GiveBack, OwnerNow, HandsNow
  <2> QED
    BY <2>5 DEF Promise!Next
<1>9. CASE ReleaseReplace(j)
  <2>1. HandsNow' = HandsNow /\ HandsNow[j] = {}
    BY <1>9, <1>a, <1>c DEF ReleaseReplace, TypeOK, Procs, HandsNow, InUse
  <2>2. cur[j] \in Nodes /\ doc[cur[j]] = BookedBy(JobName[j])
    BY <1>9, <1>a DEF ReleaseReplace, CurOK, AtNode, SerialInv, HeldBooked, Held
  <2>3. OwnerNow[cur[j]] = j /\ j # None
    BY <2>2, OwnerKnown DEF OwnerNow, NamesDiffer
  <2>4. OwnerNow' = [OwnerNow EXCEPT ![cur[j]] = None]
    BY <1>9, <2>2, OwnerKnown DEF ReleaseReplace, Write, OwnerNow, TypeOK
  <2>5. Promise!Free(cur[j])
    BY <2>1, <2>3, <2>4 DEF Promise!Free, OwnerNow, HandsNow
  <2> QED
    BY <2>2, <2>5 DEF Promise!Next
<1> QED
  BY <1>1, <1>2, <1>3, <1>4, <1>5, <1>6, <1>7, <1>8, <1>9 DEF JobStep

\* A job that is killed, or aborted while it uses its nodes, gives them out of hand.
LEMMA PromiseCrash ==
    ASSUME TypeOK, HandsInv, Cleaners = {}, NEW p \in Procs, Crash(p)
    PROVE  [Promise!Next]_(Promise!poolVars)
<1>1. p \in Jobs /\ doc' = doc /\ pool' = pool /\ pc'[p] = "crashed"
      /\ \A k \in Jobs \ {p} : pc'[k] = pc[k]
  BY DEF Crash, Goto, TypeOK, Procs
<1>2. CASE pc[p] # "using"
  BY <1>1, <1>2 DEF Promise!poolVars, InUse
<1>3. CASE pc[p] = "using"
  <2>1. HandsNow' = [HandsNow EXCEPT ![p] = {}] /\ OwnerNow' = OwnerNow
    BY <1>1, <1>3 DEF HandsNow, OwnerNow, InUse
  <2>2. HandsNow[p] = pool[p] /\ Cardinality(pool[p]) \in Nat \ {0}
    BY <1>1, <1>3, PoolAssumption DEF HandsNow, InUse, HandsInv, HandedInFull
  <2>3. HandsNow[p] # {}
    BY <2>2, FS_EmptySet
  <2>4. Promise!GiveBack(p)
    BY <1>1, <2>1, <2>3 DEF Promise!GiveBack, OwnerNow, HandsNow
  <2> QED
    BY <1>1, <2>4 DEF Promise!Next
<1> QED
  BY <1>2, <1>3
\* Without cleanups, and while invocations do not overlap, the script implements the
\* promise of the pool: a replace, also one that timed out, books only a node that
\* nobody has, a job is handed what it asked for and only nodes that are its own, and a
\* release frees no node that is in use.
THEOREM SerialKeepsPromise ==
    ASSUME ~Overlap, Cleaners = {}, NamesDiffer
    PROVE  Spec => KeepsPromise
<1> DEFINE IInv == TypeOK /\ CurOK /\ SerialInv /\ HandsInv /\ RowFree
<1>1. Init => RowFree
  BY DEF Init, RowFree, Procs
<1>2. TypeOK /\ CurOK /\ SerialInv /\ RowFree /\ [Next]_vars => RowFree'
  BY RowFreeStep DEF vars, RowFree
<1>3. Init => Promise!Init
  BY OwnerKnown DEF Init, Promise!Init, InUse, Procs
<1>4. IInv /\ IInv' /\ [Next]_vars => [Promise!Next]_(Promise!poolVars)
  <2> SUFFICES ASSUME IInv, IInv', [Next]_vars PROVE [Promise!Next]_(Promise!poolVars)
    OBVIOUS
  <2>1. CASE \E j \in Jobs : JobStep(j)
    BY <2>1, PromiseJobStep
  <2>2. CASE \E p \in Procs : Crash(p)
    BY <2>2, PromiseCrash
  <2>3. CASE UNCHANGED vars
    BY <2>3 DEF vars, Promise!poolVars, InUse
  <2> QED
    BY <2>1, <2>2, <2>3 DEF Next
<1> QED
  BY <1>1, <1>2, <1>3, <1>4, SerialInit, SerialStep, HandsInit, HandsStep, TypeInit, TypeStep,
     PTL DEF Spec, KeepsPromise, Promise!Spec
=============================================================================
