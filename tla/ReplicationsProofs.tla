-------------------------- MODULE ReplicationsProofs --------------------------
(* What the clients of the framework may rely on when a wait for a replication, a   *)
(* stop or a reset between two Sync Gateways returns, for any number of             *)
(* replications, documents, calls and faults, and any limits of the loops.          *)
EXTENDS Replications, TLAPS

Phases == {"returned", "raised", "poll", "post", "cancel", "put", "delete",
           "start", "stop", "reset"}
Kinds == {"none", "start", "stop", "reset", "remove", "empty", "listed", "idle", "doc",
          "wait", "status", "active", "local"}
TaskStatuses == {"none", "new", "busy", "idle", "going"}
Statuses == {"none", "starting", "running", "stopped", "error"}
Args == Ids \cup Tasks \cup Nat \cup {"none"}
Counters == [Streams -> Nat]

TaskRecs == [status : TaskStatuses, goal : Nat, there : Nat]
ReplRecs == [status : Statuses, cont : BOOLEAN, look : Counters, sent : Counters,
             goal : Counters, cut : BOOLEAN]
Mains == [kind : Kinds, phase : Phases, arg : Args, count : Nat, flags : SUBSET Streams,
          prev : Counters, retry : Counters, given : SUBSET Streams, saw : Statuses,
          fresh : SUBSET Streams, quiet : Counters, long : SUBSET Streams, fit : BOOLEAN]

-----------------------------------------------------------------------------
(* The inductive invariant, part by part                                   *)

TypesOK ==
    /\ secured \in BOOLEAN /\ auth \in BOOLEAN
    /\ written \in Counters /\ task \in [Tasks -> TaskRecs] /\ repl \in [Ids -> ReplRecs]
    /\ main \in Mains /\ faults \in Nat

\* An idle task has moved what was there when it was started.
TasksOK(T, W) ==
    \A k \in Tasks : /\ T[k].goal <= W[k[1]] /\ T[k].there <= W[k[1]]
                     /\ T[k].status = "idle" => T[k].there >= T[k].goal

\* A replication that stopped of itself has looked at what was there when it was started.
ReplsOK(R, W) ==
    \A i \in Ids, s \in Streams :
        /\ R[i].goal[s] <= W[s] /\ R[i].look[s] <= W[s]
        /\ R[i].status = "stopped" /\ ~R[i].cut => R[i].look[s] >= R[i].goal[s]

\* Which argument, and which kind of call, a phase belongs to.
ArgOK(m) ==
    /\ m.phase \in {"post", "cancel"} => m.arg \in Tasks
    /\ m.kind = "idle" => m.arg \in Tasks
    /\ m.phase \in {"put", "delete", "start", "stop", "reset"} => m.arg \in Ids
    /\ m.kind \in {"wait", "status", "reset"} => m.arg \in Ids
    /\ m.phase = "cancel" => m.kind = "stop"
    /\ m.phase \in {"post", "put"} => m.kind = "start"
    /\ m.phase = "delete" => m.kind = "remove"
    /\ m.phase \in {"start", "stop"} => m.kind \in {m.phase, "reset"}
    /\ m.phase = "reset" => m.kind = "reset"
    /\ m.phase = "poll" => m.kind \in {"empty", "listed", "idle", "doc", "wait", "status",
                                       "active", "local"} /\ ~m.fit

\* Where the loops are in their limits.
CountOK(m) ==
    /\ m.phase = "poll" => m.count < IF m.kind = "wait" THEN MaxTimes ELSE MaxTries
    /\ m.count <= MaxTimes + MaxTries + 1
    /\ m.phase \notin {"returned", "raised", "poll"} => m.count = 0

\* The bookkeeping of wait_until_sgw_replication_done: a direction is given up only when
\* its counter has stood still long enough, and what moved since the last poll is still to
\* be seen as progress.
WaitOK(m, R) ==
    /\ m.kind # "wait" => m.retry = Zero /\ m.flags = {}
    /\ m.kind = "wait" =>
         /\ \A s \in Streams :
              /\ m.prev[s] <= R[m.arg].sent[s]
              /\ s \in m.fresh => m.prev[s] < R[m.arg].sent[s]
              /\ m.quiet[s] <= RetryMax /\ m.retry[s] <= RetryMax
              /\ m.retry[s] <= m.quiet[s] \/ s \in m.long
         /\ m.given \subseteq m.long
         /\ R[m.arg].status = "starting" => m.given = {} /\ m.retry = Zero /\ m.fresh = {}

\* What a call that returned, and a reset between two of its requests, has seen to.
DoneOK(m, T, R) ==
    /\ m.kind \in {"wait", "status"} /\ m.phase = "returned" /\ m.saw = "stopped" =>
         R[m.arg].status = "stopped"
    /\ m.kind = "wait" /\ m.phase = "returned" /\ m.saw = "starting" =>
         m.flags = {} \/ m.count > MaxTimes
    /\ m.kind = "wait" /\ m.phase = "returned" /\ m.saw \in {"starting", "running"} =>
         m.flags \subseteq m.long \/ m.count > MaxTimes
    /\ m.kind = "status" /\ m.phase = "returned" => m.saw = "stopped" \/ m.count = MaxTries
    /\ m.kind = "idle" /\ m.phase = "returned" => T[m.arg].there >= T[m.arg].goal
    /\ m.kind = "empty" /\ m.phase = "returned" =>
         \A k \in Tasks : k[2] => T[k].status # "going"
    /\ m.kind = "reset" /\ m.phase \in {"reset", "start"} => R[m.arg].status = "stopped"
    /\ m.kind = "reset" /\ m.phase = "start" => R[m.arg].look = Zero
    /\ m.kind = "reset" /\ m.phase = "returned" =>
         ~R[m.arg].cut /\ R[m.arg].look = R[m.arg].sent

\* Without a fault a call that was fit still is when its request is sent.
CalmOK(m, f, allowed, T, R) ==
    f = 0 /\ m.fit =>
        /\ m.phase # "raised"
        /\ m.phase \in {"put", "delete", "start", "stop", "reset"} => allowed
        /\ m.phase \in {"delete", "start", "stop", "reset"} => R[m.arg].status # "none"
        /\ m.phase = "cancel" => m.arg[2] /\ T[m.arg].status \in {"new", "busy", "idle"}

\* Only replications that are there are assigned.
LocalOK(L, R) == L \subseteq {i \in Ids : R[i].status # "none"}

ReplInv ==
    /\ TypesOK /\ TasksOK(task, written) /\ ReplsOK(repl, written)
    /\ ArgOK(main) /\ CountOK(main) /\ WaitOK(main, repl) /\ DoneOK(main, task, repl)
    /\ CalmOK(main, faults, Allowed, task, repl) /\ LocalOK(local, repl)

-----------------------------------------------------------------------------
(* The initial states, and steps of the gateways                           *)

\* The initial states are in the invariant.
LEMMA ReplInitOK == ReplInit => ReplInv
<1> SUFFICES ASSUME ReplInit PROVE ReplInv
  OBVIOUS
<1> USE DEF ReplInit
<1>1. Zero \in Counters
  BY DEF Zero, Counters
<1>2. NoTask \in TaskRecs
  BY DEF NoTask, TaskRecs, TaskStatuses
<1>3. NoRepl \in ReplRecs
  BY <1>1 DEF NoRepl, ReplRecs, Statuses
<1>4. NoWait \in Mains
  BY <1>1 DEF NoWait, Mains, Kinds, Phases, Args, Statuses
<1>5. secured \in BOOLEAN
  <2>1. CASE era = 2
    BY <2>1
  <2>2. CASE era # 2
    BY <2>2
  <2> QED
    BY <2>1, <2>2
<1>6. TypesOK
  <2>1. auth \in BOOLEAN
    OBVIOUS
  <2> QED
    BY <2>1, <1>1, <1>2, <1>3, <1>4, <1>5 DEF TypesOK
<1>7. TasksOK(task, written)
  BY DEF TasksOK, Zero, NoTask, Tasks
<1>8. ReplsOK(repl, written)
  BY DEF ReplsOK, Zero, NoRepl
<1>9. ArgOK(main) /\ WaitOK(main, repl) /\ DoneOK(main, task, repl)
  BY DEF ArgOK, WaitOK, DoneOK, NoWait
<1>10. CountOK(main)
  BY ReplAssumption DEF CountOK, NoWait
<1>11. CalmOK(main, faults, Allowed, task, repl) /\ LocalOK(local, repl)
  BY DEF CalmOK, LocalOK, NoWait
<1> QED
  BY <1>6, <1>7, <1>8, <1>9, <1>10, <1>11 DEF ReplInv

\* A document is written on either side.
LEMMA DocAddedKeeps == ASSUME ReplInv, NEW s \in Streams, DocAdded(s) PROVE ReplInv'
<1> USE DEF DocAdded
<1>1. written' \in Counters /\ \A p \in Streams : written[p] <= written'[p]
  BY DEF ReplInv, TypesOK, Counters
<1>2. TypesOK'
  BY <1>1 DEF ReplInv, TypesOK
<1>3. TasksOK(task', written')
  <2> SUFFICES ASSUME NEW k \in Tasks
               PROVE  /\ task[k].goal <= written'[k[1]] /\ task[k].there <= written'[k[1]]
                      /\ task[k].status = "idle" => task[k].there >= task[k].goal
    BY DEF TasksOK
  <2>1. k[1] \in Streams
    BY DEF Tasks
  <2>2. task[k].goal \in Nat /\ task[k].there \in Nat
    BY DEF ReplInv, TypesOK, TaskRecs
  <2>3. written[k[1]] \in Nat /\ written'[k[1]] \in Nat
    BY <1>1, <2>1 DEF ReplInv, TypesOK, Counters
  <2> QED
    BY <2>1, <2>2, <2>3, <1>1 DEF ReplInv, TasksOK
<1>4. ReplsOK(repl', written')
  <2> SUFFICES ASSUME NEW i \in Ids, NEW p \in Streams
               PROVE  /\ repl[i].goal[p] <= written'[p] /\ repl[i].look[p] <= written'[p]
                      /\ repl[i].status = "stopped" /\ ~repl[i].cut =>
                           repl[i].look[p] >= repl[i].goal[p]
    BY DEF ReplsOK
  <2>1. repl[i].goal[p] \in Nat /\ repl[i].look[p] \in Nat
    BY DEF ReplInv, TypesOK, ReplRecs, Counters
  <2>2. written[p] \in Nat /\ written'[p] \in Nat
    BY <1>1 DEF ReplInv, TypesOK, Counters
  <2> QED
    BY <2>1, <2>2, <1>1 DEF ReplInv, ReplsOK
<1> QED
  BY <1>2, <1>3, <1>4 DEF ReplInv, Allowed

\* What a step of a gateway may do to its tasks: documents are moved up to those there,
\* and a continuous task goes only when it was cancelled.
TasksMove(T, U, W) ==
    /\ U \in [Tasks -> TaskRecs]
    /\ \A k \in Tasks :
         /\ U[k].goal = T[k].goal /\ U[k].there >= T[k].there /\ U[k].there <= W[k[1]]
         /\ U[k].status = "idle" => U[k].there >= U[k].goal
         /\ k[2] /\ U[k].status = "going" => T[k].status = "going"
         /\ k[2] /\ T[k].status \in {"new", "busy", "idle"} =>
              U[k].status \in {"new", "busy", "idle"}

\* Every step of a task is such a move.
LEMMA TaskMovesEffect ==
    ASSUME ReplInv, NEW k \in Tasks, TaskMoves(k) PROVE TasksMove(task, task', written)
<1>0. k[1] \in Streams /\ k[2] \in BOOLEAN
  BY DEF Tasks
<1>1. /\ task \in [Tasks -> TaskRecs] /\ task[k] \in TaskRecs
      /\ task[k].status \in TaskStatuses
      /\ task[k].goal \in Nat /\ task[k].there \in Nat
  BY DEF ReplInv, TypesOK, TaskRecs
<1>2. written[k[1]] \in Nat
  BY <1>0 DEF ReplInv, TypesOK, Counters
<1>3. /\ task[k].goal <= written[k[1]] /\ task[k].there <= written[k[1]]
      /\ task[k].status = "idle" => task[k].there >= task[k].goal
  BY DEF ReplInv, TasksOK
<1>4. \A j \in Tasks : /\ task[j].goal \in Nat /\ task[j].there \in Nat
                       /\ task[j].there <= written[j[1]]
                       /\ task[j].status = "idle" => task[j].there >= task[j].goal
  BY DEF ReplInv, TypesOK, TaskRecs, TasksOK
<1> DEFINE Fine(t) == /\ t \in TaskRecs /\ t.goal = task[k].goal
                      /\ t.there >= task[k].there /\ t.there <= written[k[1]]
                      /\ t.status = "idle" => t.there >= t.goal
                      /\ k[2] /\ t.status = "going" => task[k].status = "going"
                      /\ k[2] /\ task[k].status \in {"new", "busy", "idle"} =>
                           t.status \in {"new", "busy", "idle"}
<1>5. \E t : Fine(t) /\ task' = [task EXCEPT ![k] = t]
  <2>1. CASE task[k].status = "new" /\ task' = [task EXCEPT ![k].status = "busy"]
    <3> DEFINE t == [task[k] EXCEPT !.status = "busy"]
    <3>1. Fine(t)
      BY <1>1, <1>3, <2>1 DEF TaskRecs, TaskStatuses
    <3> QED
      BY <3>1, <2>1
  <2>2. CASE /\ task[k].status \in {"busy", "going"} /\ task[k].there # written[k[1]]
             /\ task' = [task EXCEPT ![k].there = @ + 1]
    <3> DEFINE n == task[k].there + 1
               t == [task[k] EXCEPT !.there = n]
    <3>1. n \in Nat /\ n <= written[k[1]] /\ n >= task[k].there
      BY <1>1, <1>2, <1>3, <2>2
    <3>2. task' = [task EXCEPT ![k] = t]
      BY <2>2
    <3> HIDE DEF n
    <3>3. Fine(t)
      BY <1>1, <3>1, <2>2 DEF TaskRecs, TaskStatuses
    <3> QED
      BY <3>3, <3>2
  <2>3. CASE /\ task[k].status = "busy" /\ task[k].there = written[k[1]]
             /\ task' = [task EXCEPT ![k].status = IF k[2] THEN "idle" ELSE "going"]
    <3> DEFINE t == [task[k] EXCEPT !.status = IF k[2] THEN "idle" ELSE "going"]
    <3>1. Fine(t)
      <4>1. CASE k[2]
        BY <1>1, <1>2, <1>3, <2>3, <4>1 DEF TaskRecs, TaskStatuses
      <4>2. CASE ~k[2]
        BY <1>1, <1>2, <1>3, <2>3, <4>2 DEF TaskRecs, TaskStatuses
      <4> QED
        BY <4>1, <4>2
    <3> QED
      BY <3>1, <2>3
  <2>4. CASE /\ task[k].status = "idle" /\ task' = [task EXCEPT ![k].status = "busy"]
    <3> DEFINE t == [task[k] EXCEPT !.status = "busy"]
    <3>1. Fine(t)
      BY <1>1, <1>3, <2>4 DEF TaskRecs, TaskStatuses
    <3> QED
      BY <3>1, <2>4
  <2>5. CASE task[k].status = "going" /\ task' = [task EXCEPT ![k].status = "none"]
    <3> DEFINE t == [task[k] EXCEPT !.status = "none"]
    <3>1. Fine(t)
      BY <1>1, <1>3, <2>5 DEF TaskRecs, TaskStatuses
    <3> QED
      BY <3>1, <2>5
  <2> QED
    BY <2>1, <2>2, <2>3, <2>4, <2>5 DEF TaskMoves
<1>6. PICK t : Fine(t) /\ task' = [task EXCEPT ![k] = t]
  BY <1>5
<1>7. task' \in [Tasks -> TaskRecs] /\ task'[k] = t
      /\ \A j \in Tasks : j # k => task'[j] = task[j]
  BY <1>1, <1>6
<1>8. ASSUME NEW j \in Tasks
      PROVE  /\ task'[j].goal = task[j].goal /\ task'[j].there >= task[j].there
             /\ task'[j].there <= written[j[1]]
             /\ task'[j].status = "idle" => task'[j].there >= task'[j].goal
             /\ j[2] /\ task'[j].status = "going" => task[j].status = "going"
             /\ j[2] /\ task[j].status \in {"new", "busy", "idle"} =>
                  task'[j].status \in {"new", "busy", "idle"}
  <2>1. CASE j = k
    BY <2>1, <1>6, <1>7
  <2>2. CASE j # k
    <3>1. task'[j] = task[j]
      BY <2>2, <1>7
    <3> QED
      BY <3>1, <1>4
  <2> QED
    BY <2>1, <2>2
<1> QED
  BY <1>7, <1>8 DEF TasksMove

\* A task is listed, moves documents, becomes idle or disappears.
LEMMA TaskMovesKeeps == ASSUME ReplInv, NEW k \in Tasks, TaskMoves(k) PROVE ReplInv'
<1>1. TasksMove(task, task', written)
  BY TaskMovesEffect
<1>2. UNCHANGED <<era, secured, auth, written, repl, local, main, calls, faults>>
  BY DEF TaskMoves
<1>3. TypesOK'
  BY <1>1, <1>2 DEF ReplInv, TypesOK, TasksMove
<1>4. \A j \in Tasks : task[j].goal \in Nat /\ task[j].there \in Nat /\ task'[j].there \in Nat
  BY <1>1 DEF ReplInv, TypesOK, TasksMove, TaskRecs
<1>5. TasksOK(task', written')
  BY <1>1, <1>2 DEF ReplInv, TasksOK, TasksMove
<1>6. DoneOK(main', task', repl')
  <2>1. main.kind = "idle" /\ main.phase = "returned" =>
          task'[main.arg].there >= task'[main.arg].goal
    <3> SUFFICES ASSUME main.kind = "idle", main.phase = "returned"
                 PROVE  task'[main.arg].there >= task'[main.arg].goal
      OBVIOUS
    <3>1. main.arg \in Tasks /\ task[main.arg].there >= task[main.arg].goal
      BY DEF ReplInv, ArgOK, DoneOK
    <3>2. /\ task'[main.arg].goal = task[main.arg].goal
          /\ task'[main.arg].there >= task[main.arg].there
      BY <3>1, <1>1 DEF TasksMove
    <3> QED
      BY <3>1, <3>2, <1>4
  <2>2. main.kind = "empty" /\ main.phase = "returned" =>
          \A j \in Tasks : j[2] => task'[j].status # "going"
    BY <1>1 DEF ReplInv, DoneOK, TasksMove
  <2> QED
    BY <2>1, <2>2, <1>2 DEF ReplInv, DoneOK
<1>7. CalmOK(main', faults', Allowed', task', repl')
  BY <1>1, <1>2 DEF ReplInv, CalmOK, ArgOK, Allowed, TasksMove
<1> QED
  BY <1>2, <1>3, <1>5, <1>6, <1>7 DEF ReplInv

\* What a step of a gateway may do to its replications: documents are looked at, up to
\* those there; none starts, appears or disappears, and one that stops has looked at all.
ReplsMove(R, Q, W) ==
    /\ Q \in [Ids -> ReplRecs]
    /\ \A i \in Ids :
         /\ Q[i].goal = R[i].goal /\ Q[i].cut = R[i].cut
         /\ Q[i].status = "none" <=> R[i].status = "none"
         /\ R[i].status = "stopped" => Q[i] = R[i]
         /\ R[i].look = R[i].sent => Q[i].look = Q[i].sent
         /\ Q[i].status = "starting" => R[i].status = "starting"
         /\ \A s \in Streams :
              /\ Q[i].look[s] <= W[s] /\ Q[i].look[s] >= R[i].look[s]
              /\ Q[i].sent[s] >= R[i].sent[s]
              /\ Q[i].status = "stopped" /\ R[i].status # "stopped" => Q[i].look[s] = W[s]

\* The wait for a replication is told of a document that was looked at for it.
Told(m, n, i, R, Q) ==
    \/ n = m
    \/ /\ m.kind = "wait" /\ m.arg = i /\ Q[i].status = "running"
       /\ \E s \in Streams : /\ n = [m EXCEPT !.fresh = @ \cup {s}]
                             /\ Q[i].sent[s] > R[i].sent[s]

\* Every step of a replication is such a move.
LEMMA ReplMovesEffect ==
    ASSUME ReplInv, NEW i \in Ids, ReplMoves(i)
    PROVE  /\ ReplsMove(repl, repl', written) /\ Told(main, main', i, repl, repl')
           /\ faults' \in Nat /\ (faults' = 0 => faults = 0)
<1>1. /\ repl \in [Ids -> ReplRecs] /\ repl[i] \in ReplRecs
      /\ repl[i].status \in Statuses
      /\ repl[i].look \in Counters /\ repl[i].sent \in Counters
  BY DEF ReplInv, TypesOK, ReplRecs
<1>2. written \in Counters /\ faults \in Nat
  BY DEF ReplInv, TypesOK
<1>3. \A j \in Ids, s \in Streams :
         /\ repl[j].look[s] \in Nat /\ repl[j].sent[s] \in Nat
         /\ repl[j].look[s] <= written[s]
  BY DEF ReplInv, TypesOK, ReplRecs, Counters, ReplsOK
<1>4. \A s \in Streams : written[s] \in Nat
  BY <1>2 DEF Counters
<1> DEFINE Fine(r) ==
      /\ r \in ReplRecs /\ r.goal = repl[i].goal /\ r.cut = repl[i].cut
      /\ r.status = "none" <=> repl[i].status = "none"
      /\ repl[i].status = "stopped" => r = repl[i]
      /\ repl[i].look = repl[i].sent => r.look = r.sent
      /\ r.status = "starting" => repl[i].status = "starting"
      /\ \A s \in Streams :
           /\ r.look[s] <= written[s] /\ r.look[s] >= repl[i].look[s]
           /\ r.sent[s] >= repl[i].sent[s]
           /\ r.status = "stopped" /\ repl[i].status # "stopped" => r.look[s] = written[s]
<1>5. ASSUME NEW r, Fine(r), repl' = [repl EXCEPT ![i] = r]
      PROVE  ReplsMove(repl, repl', written) /\ repl'[i] = r
  <2>1. repl' \in [Ids -> ReplRecs] /\ repl'[i] = r
        /\ \A j \in Ids : j # i => repl'[j] = repl[j]
    BY <1>1, <1>5
  <2> DEFINE Q == repl'
  <2>2. ASSUME NEW j \in Ids
        PROVE  /\ Q[j].goal = repl[j].goal /\ Q[j].cut = repl[j].cut
               /\ Q[j].status = "none" <=> repl[j].status = "none"
               /\ repl[j].status = "stopped" => Q[j] = repl[j]
               /\ repl[j].look = repl[j].sent => Q[j].look = Q[j].sent
               /\ Q[j].status = "starting" => repl[j].status = "starting"
               /\ \A s \in Streams :
                    /\ Q[j].look[s] <= written[s] /\ Q[j].look[s] >= repl[j].look[s]
                    /\ Q[j].sent[s] >= repl[j].sent[s]
                    /\ Q[j].status = "stopped" /\ repl[j].status # "stopped" =>
                         Q[j].look[s] = written[s]
    <3>1. CASE j = i
      BY <3>1, <2>1, <1>5
    <3>2. CASE j # i
      <4>1. Q[j] = repl[j]
        BY <3>2, <2>1
      <4> QED
        BY <4>1, <1>3
    <3> QED
      BY <3>1, <3>2
  <2> QED
    BY <2>1, <2>2 DEF ReplsMove
<1>6. CASE /\ repl[i].status = "starting" /\ repl' = [repl EXCEPT ![i].status = "running"]
           /\ UNCHANGED <<main, faults>>
  <2> DEFINE r == [repl[i] EXCEPT !.status = "running"]
  <2>1. Fine(r)
    BY <1>1, <1>3, <1>6 DEF ReplRecs, Statuses
  <2>2. repl' = [repl EXCEPT ![i] = r]
    BY <1>6
  <2> HIDE DEF r
  <2> QED
    BY <2>1, <2>2, <1>5, <1>6, <1>2 DEF Told
<1>7. ASSUME NEW s \in Streams, repl[i].status = "running", repl[i].look[s] < written[s],
             repl' = [repl EXCEPT ![i].look[s] = @ + 1, ![i].sent[s] = @ + 1],
             main' = IF main.kind = "wait" /\ main.arg = i
                     THEN [main EXCEPT !.fresh = @ \cup {s}] ELSE main,
             UNCHANGED faults
      PROVE  /\ ReplsMove(repl, repl', written) /\ Told(main, main', i, repl, repl')
             /\ faults' \in Nat /\ (faults' = 0 => faults = 0)
  <2> DEFINE l == [repl[i].look EXCEPT ![s] = @ + 1]
             n == [repl[i].sent EXCEPT ![s] = @ + 1]
             r == [repl[i] EXCEPT !.look = l, !.sent = n]
  <2>1. /\ l \in Counters /\ n \in Counters /\ n[s] > repl[i].sent[s]
        /\ \A p \in Streams : /\ l[p] <= written[p] /\ l[p] >= repl[i].look[p]
                              /\ n[p] >= repl[i].sent[p]
        /\ repl[i].look = repl[i].sent => l = n
    BY <1>1, <1>3, <1>4, <1>7 DEF Counters
  <2>2. repl' = [repl EXCEPT ![i] = r]
    BY <1>7, <1>1
  <2> HIDE DEF l, n
  <2>3. /\ r \in ReplRecs /\ r.look = l /\ r.sent = n /\ r.status = "running"
        /\ r.goal = repl[i].goal /\ r.cut = repl[i].cut
    BY <2>1, <1>1, <1>7 DEF ReplRecs
  <2> HIDE DEF r
  <2>4. Fine(r)
    BY <2>1, <2>3, <1>7
  <2>5. ReplsMove(repl, repl', written) /\ repl'[i] = r
    BY <2>2, <2>4, <1>5
  <2>6. Told(main, main', i, repl, repl')
    <3>1. CASE main.kind = "wait" /\ main.arg = i
      <4>1. main' = [main EXCEPT !.fresh = @ \cup {s}]
        BY <3>1, <1>7
      <4>2. repl'[i].status = "running" /\ repl'[i].sent[s] > repl[i].sent[s]
        BY <2>1, <2>3, <2>5
      <4> QED
        BY <3>1, <4>1, <4>2 DEF Told
    <3>2. CASE ~(main.kind = "wait" /\ main.arg = i)
      BY <3>2, <1>7 DEF Told
    <3> QED
      BY <3>1, <3>2
  <2> QED
    BY <2>5, <2>6, <1>7, <1>2
<1>8. CASE /\ repl[i].status = "running" /\ ~repl[i].cont /\ repl[i].look = written
           /\ repl' = [repl EXCEPT ![i].status = "stopped"] /\ UNCHANGED <<main, faults>>
  <2> DEFINE r == [repl[i] EXCEPT !.status = "stopped"]
  <2>1. Fine(r)
    BY <1>1, <1>3, <1>8 DEF ReplRecs, Statuses
  <2>2. repl' = [repl EXCEPT ![i] = r]
    BY <1>8
  <2> HIDE DEF r
  <2> QED
    BY <2>1, <2>2, <1>5, <1>8, <1>2 DEF Told
<1>9. CASE /\ repl[i].status \in {"starting", "running"} /\ Fault
           /\ repl' = [repl EXCEPT ![i].status = "error"] /\ UNCHANGED main
  <2> DEFINE r == [repl[i] EXCEPT !.status = "error"]
  <2>1. Fine(r)
    BY <1>1, <1>3, <1>9 DEF ReplRecs, Statuses
  <2>2. repl' = [repl EXCEPT ![i] = r]
    BY <1>9
  <2>3. faults' \in Nat /\ faults' # 0
    BY <1>9, <1>2 DEF Fault
  <2> HIDE DEF r
  <2> QED
    BY <2>1, <2>2, <2>3, <1>5, <1>9 DEF Told
<1> QED
  BY <1>6, <1>7, <1>8, <1>9 DEF ReplMoves

\* Being told changes nothing else of the call.
LEMMA ToldSame ==
    ASSUME NEW m \in Mains, NEW n, NEW i, NEW R, NEW Q, Told(m, n, i, R, Q)
    PROVE  /\ n \in Mains
           /\ n.kind = m.kind /\ n.phase = m.phase /\ n.arg = m.arg /\ n.count = m.count
           /\ n.flags = m.flags /\ n.prev = m.prev /\ n.retry = m.retry /\ n.given = m.given
           /\ n.saw = m.saw /\ n.quiet = m.quiet /\ n.long = m.long /\ n.fit = m.fit
           /\ \/ n.fresh = m.fresh
              \/ /\ m.kind = "wait" /\ m.arg = i /\ Q[i].status = "running"
                 /\ \E s \in Streams : n.fresh = m.fresh \cup {s} /\ Q[i].sent[s] > R[i].sent[s]
<1>1. CASE n = m
  BY <1>1
<1>2. ASSUME NEW s \in Streams, n = [m EXCEPT !.fresh = @ \cup {s}], m.kind = "wait",
             m.arg = i, Q[i].status = "running", Q[i].sent[s] > R[i].sent[s]
      PROVE  /\ n \in Mains
             /\ n.kind = m.kind /\ n.phase = m.phase /\ n.arg = m.arg /\ n.count = m.count
             /\ n.flags = m.flags /\ n.prev = m.prev /\ n.retry = m.retry
             /\ n.given = m.given /\ n.saw = m.saw /\ n.quiet = m.quiet /\ n.long = m.long
             /\ n.fit = m.fit /\ n.fresh = m.fresh \cup {s}
  <2> DEFINE f == m.fresh \cup {s}
  <2>1. f \in SUBSET Streams
    BY DEF Mains
  <2>2. n = [m EXCEPT !.fresh = f]
    BY <1>2
  <2> HIDE DEF f
  <2>3. n \in Mains
    BY <2>1, <2>2 DEF Mains
  <2>4. /\ n.kind = m.kind /\ n.phase = m.phase /\ n.arg = m.arg /\ n.count = m.count
        /\ n.flags = m.flags /\ n.prev = m.prev /\ n.retry = m.retry
        /\ n.given = m.given /\ n.saw = m.saw /\ n.quiet = m.quiet /\ n.long = m.long
        /\ n.fit = m.fit /\ n.fresh = f
    BY <2>2 DEF Mains
  <2> QED
    BY <2>3, <2>4 DEF f
<1> QED
  BY <1>1, <1>2 DEF Told

\* A replication starts to run, looks at a document, stops when it is done, or fails.
LEMMA ReplMovesKeeps == ASSUME ReplInv, NEW i \in Ids, ReplMoves(i) PROVE ReplInv'
<1>1. /\ ReplsMove(repl, repl', written) /\ Told(main, main', i, repl, repl')
      /\ faults' \in Nat /\ (faults' = 0 => faults = 0)
  BY ReplMovesEffect
<1>2. UNCHANGED <<era, secured, auth, written, task, local, calls>>
  BY DEF ReplMoves
<1>3. main \in Mains
  BY DEF ReplInv, TypesOK
<1> DEFINE n == main'
<1>4. /\ n \in Mains
      /\ n.kind = main.kind /\ n.phase = main.phase /\ n.arg = main.arg
      /\ n.count = main.count /\ n.flags = main.flags /\ n.prev = main.prev
      /\ n.retry = main.retry /\ n.given = main.given /\ n.saw = main.saw
      /\ n.quiet = main.quiet /\ n.long = main.long /\ n.fit = main.fit
      /\ \/ n.fresh = main.fresh
         \/ /\ main.kind = "wait" /\ main.arg = i /\ repl'[i].status = "running"
            /\ \E s \in Streams : /\ n.fresh = main.fresh \cup {s}
                                  /\ repl'[i].sent[s] > repl[i].sent[s]
  BY <1>1, <1>3, ToldSame
<1>5. /\ repl' \in [Ids -> ReplRecs]
      /\ \A j \in Ids, s \in Streams :
           /\ repl[j].look[s] \in Nat /\ repl'[j].look[s] \in Nat
           /\ repl[j].sent[s] \in Nat /\ repl'[j].sent[s] \in Nat
           /\ repl[j].goal[s] \in Nat /\ written[s] \in Nat /\ main.prev[s] \in Nat
  BY <1>1 DEF ReplInv, TypesOK, ReplsMove, ReplRecs, Counters, Mains
<1>6. TypesOK'
  BY <1>1, <1>2, <1>4, <1>5 DEF ReplInv, TypesOK
<1>7. TasksOK(task', written')
  BY <1>2 DEF ReplInv
<1>8. ReplsOK(repl', written')
  <2> SUFFICES ASSUME NEW j \in Ids, NEW s \in Streams
               PROVE  /\ repl'[j].goal[s] <= written[s] /\ repl'[j].look[s] <= written[s]
                      /\ repl'[j].status = "stopped" /\ ~repl'[j].cut =>
                           repl'[j].look[s] >= repl'[j].goal[s]
    BY <1>2 DEF ReplsOK
  <2>1. /\ repl[j].goal[s] <= written[s] /\ repl[j].look[s] <= written[s]
        /\ repl[j].status = "stopped" /\ ~repl[j].cut => repl[j].look[s] >= repl[j].goal[s]
    BY DEF ReplInv, ReplsOK
  <2>2. /\ repl'[j].goal = repl[j].goal /\ repl'[j].cut = repl[j].cut
        /\ repl[j].status = "stopped" => repl'[j].status = "stopped"
        /\ repl'[j].look[s] <= written[s] /\ repl'[j].look[s] >= repl[j].look[s]
        /\ repl'[j].status = "stopped" /\ repl[j].status # "stopped" =>
             repl'[j].look[s] = written[s]
    BY <1>1 DEF ReplsMove
  <2> QED
    BY <2>1, <2>2, <1>5
<1>9. ArgOK(n) /\ CountOK(n)
  BY <1>4 DEF ReplInv, ArgOK, CountOK
<1>10. WaitOK(n, repl')
  <2>1. n.kind # "wait" => n.retry = Zero /\ n.flags = {}
    BY <1>4 DEF ReplInv, WaitOK
  <2>2. ASSUME main.kind = "wait"
        PROVE  /\ \A s \in Streams :
                    /\ n.prev[s] <= repl'[n.arg].sent[s]
                    /\ s \in n.fresh => n.prev[s] < repl'[n.arg].sent[s]
                    /\ n.quiet[s] <= RetryMax /\ n.retry[s] <= RetryMax
                    /\ n.retry[s] <= n.quiet[s] \/ s \in n.long
               /\ n.given \subseteq n.long
               /\ repl'[n.arg].status = "starting" =>
                    n.given = {} /\ n.retry = Zero /\ n.fresh = {}
    <3> DEFINE a == main.arg
    <3>1. a \in Ids
      BY <2>2 DEF ReplInv, ArgOK
    <3>2. /\ \A s \in Streams :
               /\ main.prev[s] <= repl[a].sent[s]
               /\ s \in main.fresh => main.prev[s] < repl[a].sent[s]
               /\ main.quiet[s] <= RetryMax /\ main.retry[s] <= RetryMax
               /\ main.retry[s] <= main.quiet[s] \/ s \in main.long
          /\ main.given \subseteq main.long
          /\ repl[a].status = "starting" =>
               main.given = {} /\ main.retry = Zero /\ main.fresh = {}
      BY <2>2 DEF ReplInv, WaitOK
    <3>3. /\ repl'[a].status = "starting" => repl[a].status = "starting"
          /\ \A s \in Streams : repl'[a].sent[s] >= repl[a].sent[s]
      BY <3>1, <1>1 DEF ReplsMove
    <3> HIDE DEF n, a
    <3>4. n.arg = a
      BY <1>4 DEF a
    <3>5. CASE n.fresh = main.fresh
      BY <3>1, <3>2, <3>3, <3>4, <3>5, <1>4, <1>5
    <3>6. ASSUME NEW p \in Streams, n.fresh = main.fresh \cup {p}, a = i,
                 repl'[i].status = "running", repl'[i].sent[p] > repl[i].sent[p]
          PROVE  /\ \A s \in Streams :
                      /\ n.prev[s] <= repl'[n.arg].sent[s]
                      /\ s \in n.fresh => n.prev[s] < repl'[n.arg].sent[s]
                 /\ repl'[n.arg].status # "starting"
      BY <3>1, <3>2, <3>3, <3>4, <3>6, <1>4, <1>5
    <3> QED
      BY <3>2, <3>5, <3>6, <1>4 DEF a
  <2> QED
    BY <2>1, <2>2, <1>4 DEF WaitOK
<1>11. DoneOK(n, task', repl')
  <2>1. n.kind \in {"wait", "status"} /\ n.phase = "returned" /\ n.saw = "stopped" =>
          repl'[n.arg].status = "stopped"
    BY <1>1, <1>4 DEF ReplInv, DoneOK, ArgOK, ReplsMove
  <2>2. /\ n.kind = "reset" /\ n.phase \in {"reset", "start"} =>
             repl'[n.arg].status = "stopped"
        /\ n.kind = "reset" /\ n.phase = "start" => repl'[n.arg].look = Zero
    BY <1>1, <1>4 DEF ReplInv, DoneOK, ArgOK, ReplsMove
  <2>3. n.kind = "reset" /\ n.phase = "returned" =>
          ~repl'[n.arg].cut /\ repl'[n.arg].look = repl'[n.arg].sent
    BY <1>1, <1>4 DEF ReplInv, DoneOK, ArgOK, ReplsMove
  <2> QED
    BY <2>1, <2>2, <2>3, <1>2, <1>4 DEF ReplInv, DoneOK
<1>12. CalmOK(n, faults', Allowed', task', repl')
  <2>1. ArgOK(main) /\ CalmOK(main, faults, Allowed, task, repl)
    BY DEF ReplInv
  <2>2. Allowed' <=> Allowed
    BY <1>2 DEF Allowed
  <2>3. \A j \in Ids : repl'[j].status = "none" <=> repl[j].status = "none"
    BY <1>1 DEF ReplsMove
  <2> QED
    BY <2>1, <2>2, <2>3, <1>1, <1>2, <1>4 DEF CalmOK, ArgOK
<1>13. LocalOK(local', repl')
  <2>1. \A j \in Ids : repl'[j].status = "none" <=> repl[j].status = "none"
    BY <1>1 DEF ReplsMove
  <2> QED
    BY <2>1, <1>2 DEF ReplInv, LocalOK
<1> QED
  BY <1>6, <1>7, <1>8, <1>9, <1>10, <1>11, <1>12, <1>13 DEF ReplInv

\* Replications are assigned anew.
LEMMA AssignKeeps == ASSUME ReplInv, NEW is \in SUBSET Ids, Assign(is) PROVE ReplInv'
<1>1. UNCHANGED <<era, secured, auth, written, task, repl, main, calls>>
  BY DEF Assign
<1>2. faults' \in Nat /\ faults' # 0
  BY DEF Assign, Fault, ReplInv, TypesOK
<1>3. TypesOK'
  BY <1>1, <1>2 DEF ReplInv, TypesOK
<1>4. CalmOK(main', faults', Allowed', task', repl')
  BY <1>2 DEF CalmOK
<1>5. LocalOK(local', repl')
  BY <1>1 DEF Assign, LocalOK
<1> QED
  BY <1>1, <1>3, <1>4, <1>5 DEF ReplInv

-----------------------------------------------------------------------------
(* Calls                                                                   *)

\* What a call starts with.
LEMMA CallIs ==
    ASSUME NEW kind \in Kinds, NEW phase \in Phases, NEW arg \in Args, NEW fit \in BOOLEAN,
           Call(kind, phase, arg, fit)
    PROVE  /\ main' \in Mains
           /\ main'.kind = kind /\ main'.phase = phase /\ main'.arg = arg
           /\ main'.count = 0 /\ main'.flags = {} /\ main'.retry = Zero
           /\ main'.saw = "none" /\ (main'.fit <=> fit)
<1>1. Zero \in Counters
  BY DEF Zero, Counters
<1>2. NoWait \in Mains
  BY <1>1 DEF NoWait, Mains, Kinds, Phases, Args, Statuses
<1>3. main' = [NoWait EXCEPT !.kind = kind, !.phase = phase, !.arg = arg, !.fit = fit]
  BY DEF Call
<1>4. main' \in Mains
  BY <1>2, <1>3 DEF Mains
<1>5. /\ main'.kind = kind /\ main'.phase = phase /\ main'.arg = arg
      /\ main'.count = 0 /\ main'.flags = {} /\ main'.retry = Zero /\ main'.saw = "none"
  BY <1>3 DEF NoWait
<1>6. main'.fit = fit
  BY <1>3 DEF NoWait
<1> QED
  BY <1>4, <1>5, <1>6

\* A new call has nothing to keep of the one before.
LEMMA OpensKeeps ==
    ASSUME ReplInv, UNCHANGED <<written, secured>>, faults' \in Nat, auth' \in BOOLEAN,
           task' \in [Tasks -> TaskRecs], TasksOK(task', written),
           repl' \in [Ids -> ReplRecs], ReplsOK(repl', written), LocalOK(local', repl'),
           main' \in Mains, main'.count = 0, main'.retry = Zero, main'.flags = {},
           main'.kind # "wait", ArgOK(main'), DoneOK(main', task', repl'),
           CalmOK(main', faults', Allowed', task', repl')
    PROVE  ReplInv'
<1>1. TypesOK'
  BY DEF ReplInv, TypesOK
<1>2. CountOK(main')
  BY ReplAssumption DEF CountOK
<1>3. WaitOK(main', repl')
  BY DEF WaitOK
<1> QED
  BY <1>1, <1>2, <1>3 DEF ReplInv

\* A task that is accepted.
LEMMA TaskedEffect ==
    ASSUME ReplInv, NEW k \in Tasks, Tasked(k)
    PROVE  task' \in [Tasks -> TaskRecs] /\ TasksOK(task', written)
<1>0. k[1] \in Streams
  BY DEF Tasks
<1>1. written[k[1]] \in Nat
  BY <1>0 DEF ReplInv, TypesOK, Counters
<1>2. task \in [Tasks -> TaskRecs] /\ task[k] \in TaskRecs
  BY DEF ReplInv, TypesOK
<1> DEFINE w == written[k[1]]
           t == [task[k] EXCEPT !.status = "new", !.goal = w]
<1>3. task' = [task EXCEPT ![k] = t]
  BY DEF Tasked
<1>4. w \in Nat /\ w <= w
  BY <1>1
<1> HIDE DEF w
<1>5. t \in TaskRecs /\ t.status = "new" /\ t.goal = w /\ t.there = task[k].there
  BY <1>2, <1>4 DEF TaskRecs, TaskStatuses
<1> HIDE DEF t
<1>6. task' \in [Tasks -> TaskRecs] /\ task'[k] = t /\ \A j \in Tasks : j # k => task'[j] = task[j]
  BY <1>2, <1>3, <1>5
<1>7. ASSUME NEW j \in Tasks
      PROVE  /\ task'[j].goal <= written[j[1]] /\ task'[j].there <= written[j[1]]
             /\ task'[j].status = "idle" => task'[j].there >= task'[j].goal
  <2>1. CASE j = k
    <3>1. task[k].there <= written[k[1]]
      BY DEF ReplInv, TasksOK
    <3> QED
      BY <2>1, <3>1, <1>4, <1>5, <1>6 DEF w
  <2>2. CASE j # k
    BY <2>2, <1>6 DEF ReplInv, TasksOK
  <2> QED
    BY <2>1, <2>2
<1> QED
  BY <1>6, <1>7 DEF TasksOK

\* A call that starts a task and returns, waits for the answer, or raises at once.
LEMMA StartTaskKeeps ==
    ASSUME ReplInv, NEW k \in Tasks, NEW phase \in {"returned", "post", "raised"},
           NEW fit \in BOOLEAN, faults' \in Nat, phase = "raised" => ~fit \/ faults' # 0,
           Call("start", phase, k, fit), Tasked(k) \/ UNCHANGED task,
           UNCHANGED <<era, secured, auth, written, repl, local>>
    PROVE  ReplInv'
<1>1. "start" \in Kinds /\ phase \in Phases /\ k \in Args
  BY DEF Kinds, Phases, Args
<1>2. /\ main' \in Mains
      /\ main'.kind = "start" /\ main'.phase = phase /\ main'.arg = k
      /\ main'.count = 0 /\ main'.flags = {} /\ main'.retry = Zero
      /\ main'.saw = "none" /\ (main'.fit <=> fit)
  BY <1>1, CallIs
<1>3. task' \in [Tasks -> TaskRecs] /\ TasksOK(task', written)
  BY TaskedEffect DEF ReplInv, TypesOK
<1>4. ArgOK(main') /\ DoneOK(main', task', repl')
  BY <1>2 DEF ArgOK, DoneOK
<1>5. CalmOK(main', faults', Allowed', task', repl')
  BY <1>2 DEF CalmOK
<1>6. /\ repl' \in [Ids -> ReplRecs] /\ ReplsOK(repl', written) /\ LocalOK(local', repl')
      /\ auth' \in BOOLEAN
  BY DEF ReplInv, TypesOK
<1>7. main'.kind # "wait"
  BY <1>2
<1> QED
  BY <1>2, <1>3, <1>4, <1>5, <1>6, <1>7, OpensKeeps

\* The POST of a start, whatever becomes of it.
LEMMA PostStartKeeps ==
    ASSUME ReplInv, NEW k \in Tasks, NEW named \in BOOLEAN, NEW atOnce \in BOOLEAN,
           StartTask(k, named, atOnce)
    PROVE  ReplInv'
<1>0. UNCHANGED <<era, secured, auth, written, repl, local>> /\ faults \in Nat
  BY DEF StartTask, ReplInv, TypesOK
<1>1. CASE /\ Tasked(k) /\ UNCHANGED faults
           /\ Call("start", IF atOnce THEN "returned" ELSE "post", k, TRUE)
  <2> DEFINE phase == IF atOnce THEN "returned" ELSE "post"
  <2>1. phase \in {"returned", "post", "raised"} /\ phase # "raised" /\ faults' \in Nat
    BY <1>0, <1>1
  <2>2. Call("start", phase, k, TRUE)
    BY <1>1
  <2> HIDE DEF phase
  <2> QED
    BY <1>0, <1>1, <2>1, <2>2, StartTaskKeeps
<1>2. CASE /\ Fault /\ (Tasked(k) \/ UNCHANGED task)
           /\ Call("start", "raised", k, TRUE)
  <2>1. faults' \in Nat /\ faults' # 0
    BY <1>0, <1>2 DEF Fault
  <2> QED
    BY <1>0, <1>2, <2>1, StartTaskKeeps
<1>3. CASE Call("start", "raised", k, FALSE) /\ UNCHANGED <<task, faults>>
  <2>1. faults' \in Nat
    BY <1>0, <1>3
  <2> QED
    BY <1>0, <1>3, <2>1, StartTaskKeeps
<1> QED
  BY <1>1, <1>2, <1>3 DEF StartTask

\* The four methods that start a task.
LEMMA StartsKeep ==
    ASSUME ReplInv, NEW k \in Tasks, NEW cont \in BOOLEAN, NEW other \in BOOLEAN,
           \/ StartPush(cont, other)
           \/ StartPull(cont, other)
           \/ StartReplication(k, other)
           \/ StartSession(k)
    PROVE  ReplInv'
<1>1. <<"push", cont>> \in Tasks /\ <<"pull", cont>> \in Tasks /\ k[2] \in BOOLEAN
  BY DEF Tasks, Streams
<1>2. (cont \/ other) \in BOOLEAN
  OBVIOUS
<1>3. CASE StartPush(cont, other)
  BY <1>1, <1>2, <1>3, PostStartKeeps DEF StartPush
<1>4. CASE StartPull(cont, other)
  BY <1>1, <1>4, PostStartKeeps DEF StartPull
<1>5. CASE StartReplication(k, other)
  BY <1>1, <1>5, PostStartKeeps DEF StartReplication
<1>6. CASE StartSession(k)
  BY <1>6, PostStartKeeps DEF StartSession
<1> QED
  BY <1>3, <1>4, <1>5, <1>6

\* A call to cancel a task.
LEMMA CancelKeeps == ASSUME ReplInv, NEW k \in Tasks, Cancel(k) PROVE ReplInv'
<1> DEFINE fit == k[2] /\ task[k].status \in {"new", "busy", "idle"}
<1>1. fit \in BOOLEAN /\ "stop" \in Kinds /\ "cancel" \in Phases /\ k \in Args
  BY DEF Kinds, Phases, Args
<1>2. Call("stop", "cancel", k, fit) /\ UNCHANGED <<era, secured, auth, gatewayVars, faults>>
  BY DEF Cancel
<1> HIDE DEF fit
<1>3. /\ main' \in Mains
      /\ main'.kind = "stop" /\ main'.phase = "cancel" /\ main'.arg = k
      /\ main'.count = 0 /\ main'.flags = {} /\ main'.retry = Zero
      /\ main'.saw = "none" /\ (main'.fit <=> fit)
  BY <1>1, <1>2, CallIs
<1>4. ArgOK(main') /\ DoneOK(main', task', repl') /\ main'.kind # "wait"
  BY <1>3 DEF ArgOK, DoneOK
<1>5. CalmOK(main', faults', Allowed', task', repl')
  BY <1>2, <1>3 DEF CalmOK, fit, gatewayVars
<1>6. /\ repl' \in [Ids -> ReplRecs] /\ ReplsOK(repl', written) /\ LocalOK(local', repl')
      /\ task' \in [Tasks -> TaskRecs] /\ TasksOK(task', written) /\ auth' \in BOOLEAN
      /\ UNCHANGED <<written, secured, faults>> /\ faults' \in Nat
  BY <1>2 DEF ReplInv, TypesOK, gatewayVars
<1> QED
  BY <1>3, <1>4, <1>5, <1>6, OpensKeeps

\* A call that polls from its first step on, other than the wait for a replication.
LEMMA PollCallKeeps ==
    ASSUME ReplInv, NEW kind \in {"empty", "listed", "idle", "doc", "status", "active", "local"},
           NEW arg \in Args, kind = "idle" => arg \in Tasks, kind = "status" => arg \in Ids,
           Call(kind, "poll", arg, FALSE), auth' \in BOOLEAN,
           UNCHANGED <<era, secured, gatewayVars, faults>>
    PROVE  ReplInv'
<1>1. kind \in Kinds /\ "poll" \in Phases
  BY DEF Kinds, Phases
<1>2. /\ main' \in Mains
      /\ main'.kind = kind /\ main'.phase = "poll" /\ main'.arg = arg
      /\ main'.count = 0 /\ main'.flags = {} /\ main'.retry = Zero
      /\ main'.saw = "none" /\ ~main'.fit
  BY <1>1, CallIs
<1>3. ArgOK(main') /\ DoneOK(main', task', repl') /\ main'.kind # "wait"
  BY <1>2 DEF ArgOK, DoneOK
<1>4. CalmOK(main', faults', Allowed', task', repl')
  BY <1>2 DEF CalmOK
<1>5. /\ repl' \in [Ids -> ReplRecs] /\ ReplsOK(repl', written) /\ LocalOK(local', repl')
      /\ task' \in [Tasks -> TaskRecs] /\ TasksOK(task', written)
      /\ UNCHANGED <<written, secured, faults>> /\ faults' \in Nat
  BY DEF ReplInv, TypesOK, gatewayVars
<1> QED
  BY <1>2, <1>3, <1>4, <1>5, OpensKeeps

\* Methods of Admin leave Admin.auth a Boolean, and never take the credentials back.
LEMMA SetAuthIs ==
    ASSUME ReplInv, SetAuth PROVE auth' \in BOOLEAN /\ (auth => auth')
BY DEF ReplInv, TypesOK, SetAuth

\* The waits for tasks, a poll of a status and the counts.
LEMMA PollCallsKeep ==
    ASSUME ReplInv,
           \/ \E kind \in {"empty", "listed", "idle", "doc"}, k \in Tasks : WaitFor(kind, k)
           \/ \E i \in Ids : StatusPoll(i)
           \/ \E kind \in {"active", "local"}, n \in 0..Cardinality(Ids) : Count(kind, n)
    PROVE  ReplInv'
<1>1. ASSUME NEW kind \in {"empty", "listed", "idle", "doc"}, NEW k \in Tasks, WaitFor(kind, k)
      PROVE  ReplInv'
  <2>1. Call(kind, "poll", k, FALSE) /\ UNCHANGED <<era, secured, auth, gatewayVars, faults>>
    BY <1>1 DEF WaitFor
  <2>2. auth' \in BOOLEAN /\ k \in Args
    BY <2>1 DEF ReplInv, TypesOK, Args
  <2>3. kind \in {"empty", "listed", "idle", "doc", "status", "active", "local"}
        /\ kind # "status"
    OBVIOUS
  <2> QED
    BY <2>1, <2>2, <2>3, PollCallKeeps
<1>2. ASSUME NEW i \in Ids, StatusPoll(i) PROVE ReplInv'
  <2>1. Call("status", "poll", i, FALSE) /\ SetAuth
        /\ UNCHANGED <<era, secured, gatewayVars, faults>>
    BY <1>2 DEF StatusPoll
  <2>2. auth' \in BOOLEAN /\ i \in Args
    BY <2>1, SetAuthIs DEF Args
  <2> QED
    BY <2>1, <2>2, PollCallKeeps
<1>3. ASSUME NEW kind \in {"active", "local"}, NEW n \in 0..Cardinality(Ids), Count(kind, n)
      PROVE  ReplInv'
  <2>1. Call(kind, "poll", n, FALSE) /\ SetAuth
        /\ UNCHANGED <<era, secured, gatewayVars, faults>>
    BY <1>3 DEF Count
  <2>2. auth' \in BOOLEAN
    BY <2>1, SetAuthIs
  <2>3. n \in Args
    <3>1. n \in Nat
      OBVIOUS
    <3> QED
      BY <3>1 DEF Args
  <2>4. kind \in {"empty", "listed", "idle", "doc", "status", "active", "local"}
        /\ kind # "status" /\ kind # "idle"
    OBVIOUS
  <2> QED
    BY <2>1, <2>2, <2>3, <2>4, PollCallKeeps
<1> QED
  BY <1>1, <1>2, <1>3

\* A call about a replication: start it with an id of its own, remove it, or an action on it.
LEMMA ReplCallsKeep ==
    ASSUME ReplInv, NEW i \in Ids,
           \/ \E cont, complete \in BOOLEAN : StartReplication2(i, cont, complete)
           \/ StopReplication2ById(i)
           \/ \E action \in {"start", "stop", "reset"} : ModifyReplication2(i, action)
    PROVE  ReplInv'
<1>0. i \in Args /\ secured \in BOOLEAN /\ auth \in BOOLEAN
  BY DEF Args, ReplInv, TypesOK
<1>1. ASSUME NEW cont \in BOOLEAN, StartReplication2(i, cont, TRUE) PROVE ReplInv'
  <2> DEFINE fit == Allowed
  <2>1. fit \in BOOLEAN /\ "start" \in Kinds /\ "put" \in Phases
    BY <1>0 DEF Kinds, Phases, Allowed
  <2>2. /\ Call("start", "put", i, fit) /\ repl[i].status = "none"
        /\ repl' = [repl EXCEPT ![i].cont = cont]
        /\ UNCHANGED <<era, secured, auth, written, task, local, faults>>
    BY <1>1 DEF StartReplication2, There
  <2> HIDE DEF fit
  <2>3. /\ main' \in Mains
        /\ main'.kind = "start" /\ main'.phase = "put" /\ main'.arg = i
        /\ main'.count = 0 /\ main'.flags = {} /\ main'.retry = Zero
        /\ main'.saw = "none" /\ (main'.fit <=> fit)
    BY <2>1, <2>2, <1>0, CallIs
  <2>4. ArgOK(main') /\ DoneOK(main', task', repl') /\ main'.kind # "wait"
    BY <2>3 DEF ArgOK, DoneOK
  <2>5. CalmOK(main', faults', Allowed', task', repl')
    BY <2>2, <2>3 DEF CalmOK, fit, Allowed
  <2>6. /\ repl' \in [Ids -> ReplRecs]
        /\ \A j \in Ids : /\ repl'[j].status = repl[j].status /\ repl'[j].goal = repl[j].goal
                          /\ repl'[j].look = repl[j].look /\ repl'[j].cut = repl[j].cut
    BY <2>2 DEF ReplInv, TypesOK, ReplRecs
  <2>7. ReplsOK(repl', written) /\ LocalOK(local', repl')
    BY <2>2, <2>6 DEF ReplInv, ReplsOK, LocalOK
  <2>8. /\ task' \in [Tasks -> TaskRecs] /\ TasksOK(task', written) /\ auth' \in BOOLEAN
        /\ UNCHANGED <<written, secured, faults>> /\ faults' \in Nat
    BY <2>2 DEF ReplInv, TypesOK
  <2> QED
    BY <2>3, <2>4, <2>5, <2>6, <2>7, <2>8, OpensKeeps
<1>5. ASSUME NEW cont \in BOOLEAN, StartReplication2(i, cont, FALSE) PROVE ReplInv'
  <2>1. "start" \in Kinds /\ "raised" \in Phases
    BY DEF Kinds, Phases
  <2>2. /\ Call("start", "raised", i, FALSE)
        /\ UNCHANGED <<era, secured, auth, written, task, repl, local, faults>>
    BY <1>5 DEF StartReplication2
  <2>3. /\ main' \in Mains
        /\ main'.kind = "start" /\ main'.phase = "raised" /\ main'.arg = i
        /\ main'.count = 0 /\ main'.flags = {} /\ main'.retry = Zero
        /\ main'.saw = "none" /\ ~main'.fit
    BY <2>1, <2>2, <1>0, CallIs
  <2>4. /\ ArgOK(main') /\ DoneOK(main', task', repl') /\ main'.kind # "wait"
        /\ CalmOK(main', faults', Allowed', task', repl')
    BY <2>3 DEF ArgOK, DoneOK, CalmOK
  <2>5. /\ repl' \in [Ids -> ReplRecs] /\ ReplsOK(repl', written) /\ LocalOK(local', repl')
        /\ task' \in [Tasks -> TaskRecs] /\ TasksOK(task', written) /\ auth' \in BOOLEAN
        /\ UNCHANGED <<written, secured, faults>> /\ faults' \in Nat
    BY <2>2 DEF ReplInv, TypesOK
  <2> QED
    BY <2>3, <2>4, <2>5, OpensKeeps
<1>2. ASSUME NEW kind \in {"remove", "start", "stop", "reset"},
             NEW phase \in {"delete", "start", "stop"},
             kind = "remove" <=> phase = "delete",
             phase \in {"start", "stop"} => kind \in {phase, "reset"},
             kind = "reset" => phase = "stop",
             Call(kind, phase, i, Allowed /\ There(i)),
             UNCHANGED <<era, secured, auth, gatewayVars, faults>>
      PROVE  ReplInv'
  <2> DEFINE fit == Allowed /\ There(i)
  <2>1. fit \in BOOLEAN /\ kind \in Kinds /\ phase \in Phases
    BY <1>0 DEF Kinds, Phases, Allowed, There
  <2>2. Call(kind, phase, i, fit)
    BY <1>2
  <2> HIDE DEF fit
  <2>3. /\ main' \in Mains
        /\ main'.kind = kind /\ main'.phase = phase /\ main'.arg = i
        /\ main'.count = 0 /\ main'.flags = {} /\ main'.retry = Zero
        /\ main'.saw = "none" /\ (main'.fit <=> fit)
    BY <2>1, <2>2, <1>0, CallIs
  <2>4. ArgOK(main') /\ DoneOK(main', task', repl') /\ main'.kind # "wait"
    BY <2>3, <1>2 DEF ArgOK, DoneOK
  <2>5. CalmOK(main', faults', Allowed', task', repl')
    BY <1>2, <2>3 DEF CalmOK, fit, Allowed, There, gatewayVars
  <2>6. /\ repl' \in [Ids -> ReplRecs] /\ ReplsOK(repl', written) /\ LocalOK(local', repl')
        /\ task' \in [Tasks -> TaskRecs] /\ TasksOK(task', written) /\ auth' \in BOOLEAN
        /\ UNCHANGED <<written, secured, faults>> /\ faults' \in Nat
    BY <1>2 DEF ReplInv, TypesOK, gatewayVars
  <2> QED
    BY <2>3, <2>4, <2>5, <2>6, OpensKeeps
<1>3. CASE StopReplication2ById(i)
  <2>1. /\ Call("remove", "delete", i, Allowed /\ There(i))
        /\ UNCHANGED <<era, secured, auth, gatewayVars, faults>>
    BY <1>3 DEF StopReplication2ById
  <2> QED
    BY <2>1, <1>2
<1>4. ASSUME NEW action \in {"start", "stop", "reset"}, ModifyReplication2(i, action)
      PROVE  ReplInv'
  <2> DEFINE phase == IF action = "reset" THEN "stop" ELSE action
  <2>1. /\ phase \in {"delete", "start", "stop"} /\ phase # "delete"
        /\ action \in {phase, "reset"} /\ (action = "reset" => phase = "stop")
        /\ action \in {"remove", "start", "stop", "reset"} /\ action # "remove"
    OBVIOUS
  <2>2. /\ Call(action, phase, i, Allowed /\ There(i))
        /\ UNCHANGED <<era, secured, auth, gatewayVars, faults>>
    BY <1>4 DEF ModifyReplication2
  <2> HIDE DEF phase
  <2> QED
    BY <2>1, <2>2, <1>2
<1>6. ASSUME NEW cont \in BOOLEAN, NEW complete \in BOOLEAN,
             StartReplication2(i, cont, complete)
      PROVE  ReplInv'
  <2>1. CASE complete = TRUE
    BY <1>1, <1>6, <2>1
  <2>2. CASE complete = FALSE
    BY <1>5, <1>6, <2>2
  <2> QED
    BY <2>1, <2>2
<1> QED
  BY <1>3, <1>4, <1>6

\* wait_until_sgw_replication_done is called.
LEMMA WaitKeeps ==
    ASSUME ReplInv, NEW i \in Ids, NEW flags \in SUBSET Streams, Wait(i, flags) PROVE ReplInv'
<1>1. Zero \in Counters /\ \A s \in Streams : Zero[s] = 0
  BY DEF Zero, Counters
<1>2. NoWait \in Mains
  BY <1>1 DEF NoWait, Mains, Kinds, Phases, Args, Statuses
<1>3. /\ main' = [NoWait EXCEPT !.kind = "wait", !.phase = "poll", !.arg = i, !.flags = flags]
      /\ SetAuth /\ UNCHANGED <<era, secured, gatewayVars, faults>>
  BY DEF Wait
<1>4. main' \in Mains
  BY <1>2, <1>3 DEF Mains, Kinds, Phases, Args
<1>5. /\ main'.kind = "wait" /\ main'.phase = "poll" /\ main'.arg = i
      /\ main'.count = 0 /\ main'.flags = flags /\ main'.retry = Zero /\ main'.prev = Zero
      /\ main'.quiet = Zero /\ main'.given = {} /\ main'.fresh = {} /\ main'.long = {}
  BY <1>3 DEF NoWait
<1>6. main'.fit = FALSE
  BY <1>3 DEF NoWait
<1>7. ~main'.fit
  BY <1>6
<1>8. UNCHANGED <<written, task, repl, local, secured, faults>> /\ auth' \in BOOLEAN
  BY <1>3, SetAuthIs DEF gatewayVars
<1>9. TypesOK'
  BY <1>4, <1>8 DEF ReplInv, TypesOK
<1>10. ArgOK(main') /\ DoneOK(main', task', repl') /\ CalmOK(main', faults', Allowed', task', repl')
  BY <1>5, <1>7 DEF ArgOK, DoneOK, CalmOK
<1>11. CountOK(main')
  BY <1>5, ReplAssumption DEF CountOK
<1>12. WaitOK(main', repl')
  <2>1. \A s \in Streams : repl[i].sent[s] \in Nat
    BY DEF ReplInv, TypesOK, ReplRecs, Counters
  <2> QED
    BY <2>1, <1>1, <1>5, <1>8, ReplAssumption DEF WaitOK
<1> QED
  BY <1>8, <1>9, <1>10, <1>11, <1>12 DEF ReplInv

\* Every call that a test can begin.
LEMMA NewCallKeeps == ASSUME ReplInv, NewCall PROVE ReplInv'
<1>0. \E k \in Tasks : TRUE
  <2>1. <<"push", TRUE>> \in Tasks
    BY DEF Tasks, Streams
  <2> QED
    BY <2>1
<1>1. ASSUME NEW cont \in BOOLEAN, NEW other \in BOOLEAN,
             StartPush(cont, other) \/ StartPull(cont, other)
      PROVE  ReplInv'
  BY <1>0, <1>1, StartsKeep
<1>2. ASSUME NEW k \in Tasks,
             \/ \E named \in BOOLEAN : StartReplication(k, named)
             \/ StartSession(k)
             \/ StopById(k)
             \/ StopSession(k)
             \/ \E kind \in {"empty", "listed", "idle", "doc"} : WaitFor(kind, k)
      PROVE  ReplInv'
  <2>1. CASE \E named \in BOOLEAN : StartReplication(k, named)
    BY <2>1, StartsKeep
  <2>2. CASE StartSession(k)
    BY <2>2, StartsKeep
  <2>3. CASE StopById(k)
    BY <2>3, CancelKeeps DEF StopById
  <2>4. CASE StopSession(k)
    BY <2>4, CancelKeeps DEF StopSession
  <2>5. CASE \E kind \in {"empty", "listed", "idle", "doc"} : WaitFor(kind, k)
    BY <2>5, PollCallsKeep
  <2> QED
    BY <1>2, <2>1, <2>2, <2>3, <2>4, <2>5
<1>3. ASSUME NEW cont \in BOOLEAN, StopPush(cont) \/ StopPull(cont) PROVE ReplInv'
  <2>1. <<"push", cont>> \in Tasks /\ <<"pull", cont>> \in Tasks
    BY DEF Tasks, Streams
  <2> QED
    BY <1>3, <2>1, CancelKeeps DEF StopPush, StopPull
<1>4. ASSUME NEW i \in Ids,
             \/ \E cont, complete \in BOOLEAN : StartReplication2(i, cont, complete)
             \/ StopReplication2ById(i)
             \/ StatusPoll(i)
             \/ \E action \in {"start", "stop", "reset"} : ModifyReplication2(i, action)
             \/ \E flags \in SUBSET Streams : Wait(i, flags)
      PROVE  ReplInv'
  <2>1. CASE StatusPoll(i)
    BY <2>1, PollCallsKeep
  <2>2. CASE \E flags \in SUBSET Streams : Wait(i, flags)
    BY <2>2, WaitKeeps
  <2> QED
    BY <1>4, <2>1, <2>2, ReplCallsKeep
<1>5. ASSUME \E kind \in {"active", "local"}, n \in 0..Cardinality(Ids) : Count(kind, n)
      PROVE  ReplInv'
  BY <1>5, PollCallsKeep
<1> QED
  BY <1>1, <1>2, <1>3, <1>4, <1>5 DEF NewCall

-----------------------------------------------------------------------------
(* Requests                                                                *)

\* A call goes on to another phase.
LEMMA GoesIs ==
    ASSUME ReplInv, NEW p \in Phases, Goes(p)
    PROVE  /\ main' \in Mains /\ main'.phase = p
           /\ main'.kind = main.kind /\ main'.arg = main.arg /\ main'.count = main.count
           /\ main'.flags = main.flags /\ main'.prev = main.prev /\ main'.retry = main.retry
           /\ main'.given = main.given /\ main'.saw = main.saw /\ main'.fresh = main.fresh
           /\ main'.quiet = main.quiet /\ main'.long = main.long /\ main'.fit = main.fit
<1>1. main \in Mains
  BY DEF ReplInv, TypesOK
<1>2. main' = [main EXCEPT !.phase = p]
  BY DEF Goes
<1>3. main' \in Mains
  BY <1>1, <1>2 DEF Mains
<1> QED
  BY <1>1, <1>2, <1>3 DEF Mains

\* An answer to a request: the call returns, raises or sends the next request.
LEMMA AnswerKeeps ==
    ASSUME ReplInv, main.phase \in {"post", "cancel", "put", "delete", "start", "stop", "reset"},
           NEW p \in {"returned", "raised", "reset", "start"}, Goes(p),
           p = "reset" => main.kind = "reset" /\ main.arg \in Ids,
           p = "start" => main.kind = "reset" /\ main.arg \in Ids,
           UNCHANGED <<secured, auth, written>>, faults' \in Nat,
           task' \in [Tasks -> TaskRecs], TasksOK(task', written),
           repl' \in [Ids -> ReplRecs], ReplsOK(repl', written), LocalOK(local', repl'),
           main.kind = "reset" /\ p \in {"reset", "start"} => repl'[main.arg].status = "stopped",
           main.kind = "reset" /\ p = "start" => repl'[main.arg].look = Zero,
           main.kind = "reset" /\ p = "returned" =>
               ~repl'[main.arg].cut /\ repl'[main.arg].look = repl'[main.arg].sent,
           faults' = 0 /\ main.fit =>
               /\ p # "raised"
               /\ p \in {"reset", "start"} => Allowed /\ repl'[main.arg].status # "none"
    PROVE  ReplInv'
<1>1. p \in Phases
  BY DEF Phases
<1>2. /\ main' \in Mains /\ main'.phase = p
      /\ main'.kind = main.kind /\ main'.arg = main.arg /\ main'.count = main.count
      /\ main'.flags = main.flags /\ main'.retry = main.retry /\ main'.fit = main.fit
  BY <1>1, GoesIs
<1>3. /\ ArgOK(main) /\ CountOK(main) /\ WaitOK(main, repl)
      /\ secured \in BOOLEAN /\ auth \in BOOLEAN /\ written \in Counters
  BY DEF ReplInv, TypesOK
<1>4. main.kind \in {"start", "stop", "reset", "remove"}
  BY <1>3 DEF ArgOK
<1>5. TypesOK'
  BY <1>2, <1>3 DEF TypesOK
<1>6. ArgOK(main')
  BY <1>2, <1>3, <1>4 DEF ArgOK
<1>7. CountOK(main')
  <2>1. main.count = 0
    BY <1>3 DEF CountOK
  <2> QED
    BY <2>1, <1>2, ReplAssumption DEF CountOK
<1>8. WaitOK(main', repl')
  BY <1>2, <1>3, <1>4 DEF WaitOK
<1>9. DoneOK(main', task', repl')
  BY <1>2, <1>4 DEF DoneOK
<1>10. CalmOK(main', faults', Allowed', task', repl')
  <2>1. Allowed' <=> Allowed
    BY DEF Allowed
  <2> QED
    BY <2>1, <1>2 DEF CalmOK
<1> QED
  BY <1>5, <1>6, <1>7, <1>8, <1>9, <1>10 DEF ReplInv

\* What a lost answer leaves of faults.
LEMMA FaultCounts == ASSUME ReplInv, Fault PROVE faults' \in Nat /\ faults' # 0
BY DEF ReplInv, TypesOK, Fault

\* The answer to a one-shot start.
LEMMA PostAnsweredKeeps == ASSUME ReplInv, PostAnswered PROVE ReplInv'
<1>1. /\ main.phase = "post" /\ Goes("returned")
      /\ UNCHANGED <<era, secured, auth, gatewayVars, calls, faults>>
  BY DEF PostAnswered
<1>2. main.kind = "start"
  BY <1>1 DEF ReplInv, ArgOK
<1>3. /\ task' \in [Tasks -> TaskRecs] /\ TasksOK(task', written) /\ faults' \in Nat
      /\ repl' \in [Ids -> ReplRecs] /\ ReplsOK(repl', written) /\ LocalOK(local', repl')
      /\ UNCHANGED <<secured, auth, written>>
  BY <1>1 DEF ReplInv, TypesOK, gatewayVars
<1> QED
  BY <1>1, <1>2, <1>3, AnswerKeeps

\* A cancelled task goes.
LEMMA StopTaskKeeps == ASSUME ReplInv, StopTask PROVE ReplInv'
<1> DEFINE k == main.arg
           ok == task[k].status \in {"new", "busy", "idle"}
           Effect == task' = [task EXCEPT ![k].status = "going"]
<1>1. /\ main.kind = "stop" /\ main.phase = "cancel"
      /\ UNCHANGED <<era, secured, auth, written, repl, local, calls>>
      /\ \/ ok /\ Effect /\ Goes("returned") /\ UNCHANGED faults
         \/ ~ok /\ UNCHANGED task /\ Goes("raised") /\ UNCHANGED faults
         \/ Fault /\ Goes("raised") /\ (UNCHANGED task \/ Effect)
  BY DEF StopTask, Request
<1>2. k \in Tasks
  BY <1>1 DEF ReplInv, ArgOK
<1>3. /\ repl' \in [Ids -> ReplRecs] /\ ReplsOK(repl', written) /\ LocalOK(local', repl')
      /\ faults \in Nat /\ task \in [Tasks -> TaskRecs] /\ TasksOK(task, written)
      /\ UNCHANGED <<secured, auth, written>>
  BY <1>1 DEF ReplInv, TypesOK
<1>4. ASSUME Effect PROVE task' \in [Tasks -> TaskRecs] /\ TasksOK(task', written)
  <2>1. task' \in [Tasks -> TaskRecs]
    BY <1>2, <1>3, <1>4 DEF TaskRecs, TaskStatuses
  <2>2. /\ task'[k].status = "going" /\ task'[k].goal = task[k].goal
        /\ task'[k].there = task[k].there
        /\ \A j \in Tasks : j # k => task'[j] = task[j]
    BY <1>2, <1>3, <1>4 DEF TaskRecs
  <2> HIDE DEF k
  <2> QED
    BY <2>1, <2>2, <1>3 DEF TasksOK
<1>5. faults = 0 /\ main.fit => ok
  BY <1>1 DEF ReplInv, CalmOK
<1>6. CASE ok /\ Effect /\ Goes("returned") /\ UNCHANGED faults
  <2>1. task' \in [Tasks -> TaskRecs] /\ TasksOK(task', written) /\ faults' \in Nat
    BY <1>3, <1>4, <1>6
  <2> HIDE DEF k, ok, Effect
  <2> QED
    BY <2>1, <1>1, <1>3, <1>6, AnswerKeeps
<1>7. CASE ~ok /\ UNCHANGED task /\ Goes("raised") /\ UNCHANGED faults
  <2>1. task' \in [Tasks -> TaskRecs] /\ TasksOK(task', written) /\ faults' \in Nat
    BY <1>3, <1>7
  <2> HIDE DEF k, ok, Effect
  <2> QED
    BY <2>1, <1>1, <1>3, <1>5, <1>7, AnswerKeeps
<1>8. CASE Fault /\ Goes("raised") /\ (UNCHANGED task \/ Effect)
  <2>1. task' \in [Tasks -> TaskRecs] /\ TasksOK(task', written)
    BY <1>3, <1>4, <1>8
  <2>2. faults' \in Nat /\ faults' # 0
    BY <1>8, FaultCounts
  <2> HIDE DEF k, ok, Effect
  <2> QED
    BY <2>1, <2>2, <1>1, <1>3, <1>8, AnswerKeeps
<1> QED
  BY <1>1, <1>6, <1>7, <1>8

\* What one replication may become without harm to the others.
LEMMA ReplSet ==
    ASSUME ReplInv, NEW i \in Ids, NEW r \in ReplRecs, repl' = [repl EXCEPT ![i] = r],
           \A s \in Streams : /\ r.goal[s] <= written[s] /\ r.look[s] <= written[s]
                              /\ r.status = "stopped" /\ ~r.cut => r.look[s] >= r.goal[s]
    PROVE  /\ repl' \in [Ids -> ReplRecs] /\ ReplsOK(repl', written) /\ repl'[i] = r
           /\ \A j \in Ids : j # i => repl'[j] = repl[j]
<1>1. repl \in [Ids -> ReplRecs] /\ ReplsOK(repl, written)
  BY DEF ReplInv, TypesOK
<1>2. /\ repl' \in [Ids -> ReplRecs] /\ repl'[i] = r
      /\ \A j \in Ids : j # i => repl'[j] = repl[j]
  BY <1>1
<1>3. ReplsOK(repl', written)
  BY <1>1, <1>2 DEF ReplsOK
<1> QED
  BY <1>2, <1>3

\* A replication that begins a run.
LEMMA BeginsIs ==
    ASSUME ReplInv, NEW i \in Ids, NEW r, r = Begins(repl[i])
    PROVE  /\ r \in ReplRecs /\ r.status = "starting" /\ ~r.cut
           /\ r.look = repl[i].look /\ r.sent = Zero
           /\ \A s \in Streams : r.goal[s] <= written[s] /\ r.look[s] <= written[s]
<1>1. repl[i] \in ReplRecs /\ written \in Counters
  BY DEF ReplInv, TypesOK
<1>2. Zero \in Counters
  BY DEF Zero, Counters
<1>3. r \in ReplRecs
  BY <1>1, <1>2 DEF Begins, ReplRecs, Statuses
<1>4. r.status = "starting" /\ r.goal = written /\ r.look = repl[i].look /\ r.sent = Zero
  BY <1>1 DEF Begins, ReplRecs
<1>5. r.cut = FALSE
  BY <1>1 DEF Begins, ReplRecs
<1>6. \A s \in Streams : repl[i].look[s] <= written[s] /\ written[s] \in Nat
  BY <1>1 DEF ReplInv, ReplsOK, Counters
<1> QED
  BY <1>3, <1>4, <1>5, <1>6

\* PUT /_replication.
LEMMA PutReplicationKeeps == ASSUME ReplInv, PutReplication PROVE ReplInv'
<1> DEFINE i == main.arg
           r == Begins(repl[i])
           Effect == repl' = [repl EXCEPT ![i] = r] /\ local' = local \cup {i}
<1>1. /\ main.kind = "start" /\ main.phase = "put"
      /\ UNCHANGED <<era, secured, auth, written, task, calls>>
      /\ \/ Allowed /\ Effect /\ Goes("returned") /\ UNCHANGED faults
         \/ ~Allowed /\ UNCHANGED <<repl, local>> /\ Goes("raised") /\ UNCHANGED faults
         \/ Fault /\ Goes("raised") /\ (UNCHANGED <<repl, local>> \/ Effect)
  BY DEF PutReplication, Request
<1>2. i \in Ids
  BY <1>1 DEF ReplInv, ArgOK
<1>3. /\ task' \in [Tasks -> TaskRecs] /\ TasksOK(task', written) /\ faults \in Nat
      /\ repl \in [Ids -> ReplRecs] /\ ReplsOK(repl, written) /\ LocalOK(local, repl)
      /\ UNCHANGED <<secured, auth, written>>
  BY <1>1 DEF ReplInv, TypesOK
<1>4. ASSUME Effect
      PROVE  repl' \in [Ids -> ReplRecs] /\ ReplsOK(repl', written) /\ LocalOK(local', repl')
  <2>1. /\ r \in ReplRecs /\ r.status = "starting"
        /\ \A s \in Streams : r.goal[s] <= written[s] /\ r.look[s] <= written[s]
    BY <1>2, BeginsIs
  <2>2. repl' = [repl EXCEPT ![i] = r] /\ local' = local \cup {i}
    BY <1>4
  <2> HIDE DEF r, i
  <2>3. /\ repl' \in [Ids -> ReplRecs] /\ ReplsOK(repl', written) /\ repl'[i] = r
        /\ \A j \in Ids : j # i => repl'[j] = repl[j]
    BY <1>2, <2>1, <2>2, ReplSet
  <2>4. LocalOK(local', repl')
    BY <1>2, <1>3, <2>1, <2>2, <2>3 DEF LocalOK
  <2> QED
    BY <2>3, <2>4
<1>5. faults = 0 /\ main.fit => Allowed
  BY <1>1 DEF ReplInv, CalmOK
<1> HIDE DEF i, r, Effect
<1>6. CASE Allowed /\ Effect /\ Goes("returned") /\ UNCHANGED faults
  <2>1. faults' \in Nat
    BY <1>3, <1>6
  <2>2. repl' \in [Ids -> ReplRecs] /\ ReplsOK(repl', written) /\ LocalOK(local', repl')
    BY <1>4, <1>6
  <2> QED
    BY <2>1, <2>2, <1>1, <1>3, <1>6, AnswerKeeps
<1>7. CASE ~Allowed /\ UNCHANGED <<repl, local>> /\ Goes("raised") /\ UNCHANGED faults
  <2>1. /\ repl' \in [Ids -> ReplRecs] /\ ReplsOK(repl', written) /\ LocalOK(local', repl')
        /\ faults' \in Nat /\ ~(faults' = 0 /\ main.fit)
    BY <1>3, <1>5, <1>7
  <2> QED
    BY <2>1, <1>1, <1>3, <1>7, AnswerKeeps
<1>8. CASE Fault /\ Goes("raised") /\ (UNCHANGED <<repl, local>> \/ Effect)
  <2>1. repl' \in [Ids -> ReplRecs] /\ ReplsOK(repl', written) /\ LocalOK(local', repl')
    BY <1>3, <1>4, <1>8
  <2>2. faults' \in Nat /\ faults' # 0
    BY <1>8, FaultCounts
  <2> QED
    BY <2>1, <2>2, <1>1, <1>3, <1>8, AnswerKeeps
<1> QED
  BY <1>1, <1>6, <1>7, <1>8

\* DELETE /_replication.
LEMMA DeleteReplicationKeeps == ASSUME ReplInv, DeleteReplication PROVE ReplInv'
<1> DEFINE i == main.arg
           Effect == repl' = [repl EXCEPT ![i] = NoRepl] /\ local' = local \ {i}
           ok == Allowed /\ There(i)
<1>1. /\ main.phase = "delete"
      /\ UNCHANGED <<era, secured, auth, written, task, calls>>
      /\ \/ ok /\ Effect /\ Goes("returned") /\ UNCHANGED faults
         \/ ~ok /\ UNCHANGED <<repl, local>> /\ Goes("raised") /\ UNCHANGED faults
         \/ Fault /\ Goes("raised") /\ (UNCHANGED <<repl, local>> \/ Effect)
  BY DEF DeleteReplication, Request
<1>2. i \in Ids /\ main.kind = "remove"
  BY <1>1 DEF ReplInv, ArgOK
<1>3. /\ task' \in [Tasks -> TaskRecs] /\ TasksOK(task', written) /\ faults \in Nat
      /\ repl \in [Ids -> ReplRecs] /\ ReplsOK(repl, written) /\ LocalOK(local, repl)
      /\ UNCHANGED <<secured, auth, written>>
  BY <1>1 DEF ReplInv, TypesOK
<1>4. ASSUME Effect
      PROVE  repl' \in [Ids -> ReplRecs] /\ ReplsOK(repl', written) /\ LocalOK(local', repl')
  <2>1. /\ NoRepl \in ReplRecs /\ NoRepl.status = "none"
        /\ \A s \in Streams : NoRepl.goal[s] <= written[s] /\ NoRepl.look[s] <= written[s]
    <3>1. Zero \in Counters /\ \A s \in Streams : Zero[s] = 0
      BY DEF Zero, Counters
    <3>2. NoRepl \in ReplRecs /\ NoRepl.status = "none"
          /\ NoRepl.goal = Zero /\ NoRepl.look = Zero
      BY <3>1 DEF NoRepl, ReplRecs, Statuses
    <3>3. \A s \in Streams : written[s] \in Nat
      BY DEF ReplInv, TypesOK, Counters
    <3> QED
      BY <3>1, <3>2, <3>3
  <2>2. repl' = [repl EXCEPT ![i] = NoRepl] /\ local' = local \ {i}
    BY <1>4
  <2> HIDE DEF i
  <2>3. /\ repl' \in [Ids -> ReplRecs] /\ ReplsOK(repl', written)
        /\ \A j \in Ids : j # i => repl'[j] = repl[j]
    BY <1>2, <2>1, <2>2, ReplSet
  <2>4. LocalOK(local', repl')
    BY <1>2, <1>3, <2>1, <2>2, <2>3 DEF LocalOK
  <2> QED
    BY <2>3, <2>4
<1>5. faults = 0 /\ main.fit => ok
  BY <1>1 DEF ReplInv, CalmOK, There
<1> HIDE DEF i, ok, Effect
<1>6. CASE ok /\ Effect /\ Goes("returned") /\ UNCHANGED faults
  <2>1. faults' \in Nat
    BY <1>3, <1>6
  <2>2. repl' \in [Ids -> ReplRecs] /\ ReplsOK(repl', written) /\ LocalOK(local', repl')
    BY <1>4, <1>6
  <2> QED
    BY <2>1, <2>2, <1>1, <1>2, <1>3, <1>6, AnswerKeeps
<1>7. CASE ~ok /\ UNCHANGED <<repl, local>> /\ Goes("raised") /\ UNCHANGED faults
  <2>1. /\ repl' \in [Ids -> ReplRecs] /\ ReplsOK(repl', written) /\ LocalOK(local', repl')
        /\ faults' \in Nat /\ ~(faults' = 0 /\ main.fit)
    BY <1>3, <1>5, <1>7
  <2> QED
    BY <2>1, <1>1, <1>2, <1>3, <1>7, AnswerKeeps
<1>8. CASE Fault /\ Goes("raised") /\ (UNCHANGED <<repl, local>> \/ Effect)
  <2>1. repl' \in [Ids -> ReplRecs] /\ ReplsOK(repl', written) /\ LocalOK(local', repl')
    BY <1>3, <1>4, <1>8
  <2>2. faults' \in Nat /\ faults' # 0
    BY <1>8, FaultCounts
  <2> QED
    BY <2>1, <2>2, <1>1, <1>2, <1>3, <1>8, AnswerKeeps
<1> QED
  BY <1>1, <1>6, <1>7, <1>8

\* What an action makes of a replication.
LEMMA ObeyedIs ==
    ASSUME ReplInv, NEW i \in Ids, NEW action \in {"start", "stop", "reset"},
           repl[i].status # "none", NEW r, r = Obeyed(i, action)
    PROVE  /\ r \in ReplRecs /\ r.status # "none"
           /\ \A s \in Streams : /\ r.goal[s] <= written[s] /\ r.look[s] <= written[s]
                                 /\ r.status = "stopped" /\ ~r.cut => r.look[s] >= r.goal[s]
           /\ action = "stop" => r.status = "stopped"
           /\ action = "reset" => r.status = repl[i].status /\ r.look = Zero
           /\ action = "start" /\ repl[i].status = "stopped" =>
                ~r.cut /\ r.look = repl[i].look /\ r.sent = Zero
<1>1. /\ repl[i] \in ReplRecs /\ repl[i].cut \in BOOLEAN /\ repl[i].status \in Statuses
      /\ repl[i].goal \in Counters /\ repl[i].look \in Counters /\ written \in Counters
  BY DEF ReplInv, TypesOK, ReplRecs
<1>2. \A s \in Streams :
        /\ repl[i].goal[s] <= written[s] /\ repl[i].look[s] <= written[s]
        /\ repl[i].status = "stopped" /\ ~repl[i].cut => repl[i].look[s] >= repl[i].goal[s]
  BY DEF ReplInv, ReplsOK
<1>3. CASE action = "start"
  <2>1. CASE repl[i].status \in {"starting", "running"}
    <3>1. r = repl[i]
      BY <1>3, <2>1 DEF Obeyed
    <3> QED
      BY <3>1, <2>1, <1>1, <1>2, <1>3
  <2>2. CASE repl[i].status \notin {"starting", "running"}
    <3>1. r = Begins(repl[i])
      BY <1>3, <2>2 DEF Obeyed
    <3>2. /\ r \in ReplRecs /\ r.status = "starting" /\ ~r.cut
          /\ r.look = repl[i].look /\ r.sent = Zero
          /\ \A s \in Streams : r.goal[s] <= written[s] /\ r.look[s] <= written[s]
      BY <3>1, BeginsIs
    <3> QED
      BY <3>2, <1>3
  <2> QED
    BY <2>1, <2>2
<1>4. CASE action = "stop"
  <2> DEFINE b == repl[i].cut \/ repl[i].status # "stopped"
  <2>1. b \in BOOLEAN /\ (~b => ~repl[i].cut /\ repl[i].status = "stopped")
    BY <1>1
  <2>2. r = [repl[i] EXCEPT !.status = "stopped", !.cut = b]
    BY <1>4 DEF Obeyed
  <2> HIDE DEF b
  <2>3. r \in ReplRecs
    BY <2>1, <2>2, <1>1 DEF ReplRecs, Statuses
  <2>4. r.status = "stopped" /\ r.goal = repl[i].goal /\ r.look = repl[i].look
    BY <2>2, <1>1 DEF ReplRecs
  <2>5. r.cut = b
    BY <2>2, <1>1 DEF ReplRecs
  <2> QED
    BY <2>1, <2>3, <2>4, <2>5, <1>2, <1>4
<1>5. CASE action = "reset"
  <2>1. r = [repl[i] EXCEPT !.look = Zero, !.cut = TRUE]
    BY <1>5 DEF Obeyed
  <2>2. Zero \in Counters /\ \A s \in Streams : Zero[s] = 0
    BY DEF Zero, Counters
  <2>3. r \in ReplRecs
    BY <2>1, <2>2, <1>1 DEF ReplRecs
  <2>4. r.status = repl[i].status /\ r.goal = repl[i].goal /\ r.look = Zero
    BY <2>1, <1>1 DEF ReplRecs
  <2>5. r.cut = TRUE
    BY <2>1, <1>1 DEF ReplRecs
  <2>6. \A s \in Streams : written[s] \in Nat
    BY <1>1 DEF Counters
  <2> QED
    BY <2>2, <2>3, <2>4, <2>5, <2>6, <1>2, <1>5
<1> QED
  BY <1>3, <1>4, <1>5

\* PUT /_replicationStatus: one request of a start, a stop or a reset.
LEMMA PutStatusKeeps == ASSUME ReplInv, PutStatus PROVE ReplInv'
<1> DEFINE i == main.arg
           r == Obeyed(i, main.phase)
           Effect == repl' = [repl EXCEPT ![i] = r]
           ok == Allowed /\ CanTake(i, main.phase)
           next == AfterAction
<1>1. /\ main.kind \in {"start", "stop", "reset"} /\ main.phase \in {"start", "stop", "reset"}
      /\ UNCHANGED <<era, secured, auth, written, task, local, calls>>
      /\ \/ ok /\ Effect /\ Goes(next) /\ UNCHANGED faults
         \/ ~ok /\ UNCHANGED repl /\ Goes("raised") /\ UNCHANGED faults
         \/ Fault /\ Goes("raised") /\ (UNCHANGED repl \/ (ok /\ Effect))
  BY DEF PutStatus, Request
<1>2. i \in Ids /\ main.kind \in {main.phase, "reset"}
  BY <1>1 DEF ReplInv, ArgOK
<1>3. /\ task' \in [Tasks -> TaskRecs] /\ TasksOK(task', written) /\ faults \in Nat
      /\ repl \in [Ids -> ReplRecs] /\ ReplsOK(repl, written) /\ LocalOK(local, repl)
      /\ UNCHANGED <<secured, auth, written, local>>
  BY <1>1 DEF ReplInv, TypesOK
<1>4. ASSUME ok, Effect
      PROVE  /\ repl' \in [Ids -> ReplRecs] /\ ReplsOK(repl', written)
             /\ LocalOK(local', repl') /\ repl'[i].status # "none"
             /\ main.phase = "stop" => repl'[i].status = "stopped"
             /\ main.phase = "reset" => repl'[i].status = repl[i].status /\ repl'[i].look = Zero
             /\ main.phase = "start" /\ repl[i].status = "stopped" =>
                  ~repl'[i].cut /\ repl'[i].look = repl[i].look /\ repl'[i].sent = Zero
  <2>1. repl[i].status # "none"
    BY <1>4 DEF CanTake
  <2>2. /\ r \in ReplRecs /\ r.status # "none"
        /\ \A s \in Streams : /\ r.goal[s] <= written[s] /\ r.look[s] <= written[s]
                              /\ r.status = "stopped" /\ ~r.cut => r.look[s] >= r.goal[s]
        /\ main.phase = "stop" => r.status = "stopped"
        /\ main.phase = "reset" => r.status = repl[i].status /\ r.look = Zero
        /\ main.phase = "start" /\ repl[i].status = "stopped" =>
             ~r.cut /\ r.look = repl[i].look /\ r.sent = Zero
    BY <1>1, <1>2, <2>1, ObeyedIs
  <2>3. repl' = [repl EXCEPT ![i] = r]
    BY <1>4
  <2> HIDE DEF r, i
  <2>4. /\ repl' \in [Ids -> ReplRecs] /\ ReplsOK(repl', written) /\ repl'[i] = r
        /\ \A j \in Ids : j # i => repl'[j] = repl[j]
    BY <1>2, <2>2, <2>3, ReplSet
  <2>5. LocalOK(local', repl')
    BY <1>2, <1>3, <2>2, <2>4 DEF LocalOK
  <2> QED
    BY <2>2, <2>4, <2>5
<1>5. /\ main.kind = "reset" /\ main.phase \in {"reset", "start"} =>
           repl[i].status = "stopped"
      /\ main.kind = "reset" /\ main.phase = "start" => repl[i].look = Zero
  BY DEF ReplInv, DoneOK
<1>6. faults = 0 /\ main.fit => ok
  BY <1>1, <1>5, <1>2 DEF ReplInv, CalmOK, CanTake, ArgOK
<1>7. /\ next \in {"returned", "reset", "start"}
      /\ main.kind # "reset" => next = "returned"
      /\ main.kind = "reset" => /\ next = "reset" => main.phase = "stop"
                                /\ next = "start" => main.phase = "reset"
                                /\ next = "returned" => main.phase = "start"
  <2>1. CASE main.kind # "reset"
    BY <2>1 DEF AfterAction
  <2>2. CASE main.kind = "reset" /\ main.phase = "stop"
    BY <2>2 DEF AfterAction
  <2>3. CASE main.kind = "reset" /\ main.phase = "reset"
    BY <2>3 DEF AfterAction
  <2>4. CASE main.kind = "reset" /\ main.phase = "start"
    BY <2>4 DEF AfterAction
  <2> QED
    BY <1>1, <2>1, <2>2, <2>3, <2>4
<1>8. CASE ok /\ Effect /\ Goes(next) /\ UNCHANGED faults
  <2>1. faults' \in Nat /\ Allowed
    BY <1>3, <1>8
  <2>2. /\ repl' \in [Ids -> ReplRecs] /\ ReplsOK(repl', written)
        /\ LocalOK(local', repl') /\ repl'[i].status # "none"
        /\ main.phase = "stop" => repl'[i].status = "stopped"
        /\ main.phase = "reset" => repl'[i].status = repl[i].status /\ repl'[i].look = Zero
        /\ main.phase = "start" /\ repl[i].status = "stopped" =>
             ~repl'[i].cut /\ repl'[i].look = repl[i].look /\ repl'[i].sent = Zero
    BY <1>4, <1>8
  <2>3. /\ next \in {"returned", "raised", "reset", "start"} /\ next # "raised"
        /\ next = "reset" => main.kind = "reset"
        /\ next = "start" => main.kind = "reset"
        /\ main.kind = "reset" /\ next \in {"reset", "start"} => repl'[i].status = "stopped"
        /\ main.kind = "reset" /\ next = "start" => repl'[i].look = Zero
        /\ main.kind = "reset" /\ next = "returned" =>
             ~repl'[i].cut /\ repl'[i].look = repl'[i].sent
    BY <2>2, <1>5, <1>7
  <2>4. main.phase \in {"post", "cancel", "put", "delete", "start", "stop", "reset"}
    BY <1>1
  <2>5. Goes(next)
    BY <1>8
  <2> HIDE DEF ok, Effect, next, r
  <2> QED
    BY <2>1, <2>2, <2>3, <2>4, <2>5, <1>2, <1>3, AnswerKeeps
<1>9. CASE ~ok /\ UNCHANGED repl /\ Goes("raised") /\ UNCHANGED faults
  <2>1. /\ repl' \in [Ids -> ReplRecs] /\ ReplsOK(repl', written) /\ LocalOK(local', repl')
        /\ faults' \in Nat /\ ~(faults' = 0 /\ main.fit)
    BY <1>3, <1>6, <1>9
  <2>2. main.phase \in {"post", "cancel", "put", "delete", "start", "stop", "reset"}
    BY <1>1
  <2>3. Goes("raised")
    BY <1>9
  <2> HIDE DEF ok, Effect, next, r, i
  <2> QED
    BY <2>1, <2>2, <2>3, <1>3, AnswerKeeps
<1>10. CASE Fault /\ Goes("raised") /\ (UNCHANGED repl \/ (ok /\ Effect))
  <2>1. repl' \in [Ids -> ReplRecs] /\ ReplsOK(repl', written) /\ LocalOK(local', repl')
    <3>1. CASE UNCHANGED repl
      BY <3>1, <1>3
    <3>2. CASE ok /\ Effect
      BY <3>2, <1>4
    <3> QED
      BY <3>1, <3>2, <1>10
  <2>2. faults' \in Nat /\ faults' # 0
    BY <1>10, FaultCounts
  <2>3. main.phase \in {"post", "cancel", "put", "delete", "start", "stop", "reset"}
    BY <1>1
  <2>4. Goes("raised")
    BY <1>10
  <2> HIDE DEF ok, Effect, next, r, i
  <2> QED
    BY <2>1, <2>2, <2>3, <2>4, <1>3, AnswerKeeps
<1> HIDE DEF ok, Effect, next, r, i
<1> QED
  BY <1>1, <1>8, <1>9, <1>10

-----------------------------------------------------------------------------
(* Polls                                                                   *)

\* One more try of a loop with MaxTries of them.
LEMMA PolledKeeps ==
    ASSUME ReplInv, main.phase = "poll", main.kind # "wait", main' \in Mains,
           main'.kind = main.kind, main'.arg = main.arg, main'.flags = main.flags,
           main'.retry = main.retry, main'.fit = main.fit, main'.count = main.count + 1,
           main'.phase \in {"poll", "returned", "raised"},
           main'.phase = "poll" => main.count + 1 # MaxTries,
           DoneOK(main', task, repl),
           UNCHANGED <<secured, auth, gatewayVars, faults>>
    PROVE  ReplInv'
<1>1. UNCHANGED <<written, task, repl, local>>
  BY DEF gatewayVars
<1>2. /\ ArgOK(main) /\ CountOK(main) /\ WaitOK(main, repl) /\ main.count \in Nat
  BY DEF ReplInv, TypesOK, Mains
<1>3. TypesOK'
  BY <1>1 DEF ReplInv, TypesOK
<1>4. ArgOK(main') /\ CalmOK(main', faults', Allowed', task', repl')
  BY <1>2 DEF ArgOK, CalmOK
<1>5. CountOK(main')
  <2>1. main.count < MaxTries
    BY <1>2 DEF CountOK
  <2> QED
    BY <2>1, <1>2, ReplAssumption DEF CountOK
<1>6. WaitOK(main', repl')
  BY <1>2 DEF WaitOK
<1> QED
  BY <1>1, <1>3, <1>4, <1>5, <1>6 DEF ReplInv

\* A poll of a wait for tasks.
LEMMA TaskPollKeeps == ASSUME ReplInv, TaskPoll PROVE ReplInv'
<1> DEFINE c == main.count + 1
           p == IF Found(main.kind, main.arg) THEN "returned"
                ELSE IF main.count + 1 >= MaxTries THEN "raised" ELSE "poll"
<1>1. /\ main.kind \in {"empty", "listed", "idle", "doc"} /\ main.phase = "poll"
      /\ main' = [main EXCEPT !.count = c, !.phase = p]
      /\ UNCHANGED <<era, secured, auth, gatewayVars, calls, faults>>
  BY DEF TaskPoll
<1>2. main \in Mains /\ main.count \in Nat
  BY DEF ReplInv, TypesOK, Mains
<1>3. /\ c \in Nat /\ p \in {"poll", "returned", "raised"} /\ p \in Phases
      /\ p = "poll" => c # MaxTries
      /\ p = "returned" => Found(main.kind, main.arg)
  BY <1>2, ReplAssumption DEF Phases
<1> HIDE DEF p
<1>4. main' \in Mains
  BY <1>1, <1>2, <1>3 DEF Mains
<1>5. /\ main'.kind = main.kind /\ main'.arg = main.arg /\ main'.flags = main.flags
      /\ main'.retry = main.retry /\ main'.fit = main.fit /\ main'.count = main.count + 1
      /\ main'.phase = p
  BY <1>1, <1>2 DEF Mains
<1>6. DoneOK(main', task, repl)
  <2>1. ASSUME main.kind = "idle", p = "returned"
        PROVE  task[main.arg].there >= task[main.arg].goal
    <3>1. main.arg \in Tasks
      BY <2>1 DEF ReplInv, ArgOK
    <3>2. task[main.arg].status = "idle"
      BY <2>1, <1>3 DEF Found, TaskIdle
    <3> QED
      BY <3>1, <3>2 DEF ReplInv, TasksOK
  <2>2. ASSUME main.kind = "empty", p = "returned"
        PROVE  \A k \in Tasks : k[2] => task[k].status # "going"
    <3>1. TasksEmpty
      BY <2>2, <1>3 DEF Found
    <3> QED
      BY <3>1 DEF TasksEmpty, Listed
  <2> QED
    BY <2>1, <2>2, <1>1, <1>5 DEF DoneOK
<1>7. main.kind # "wait"
  BY <1>1
<1> QED
  BY <1>1, <1>3, <1>4, <1>5, <1>6, <1>7, PolledKeeps

\* A poll of replication_status_poll.
LEMMA PollStatusKeeps == ASSUME ReplInv, PollStatus PROVE ReplInv'
<1> DEFINE status == repl[main.arg].status
           c == main.count + 1
           p == IF status = "error" THEN "raised"
                ELSE IF status = "stopped" \/ main.count + 1 = MaxTries
                     THEN "returned" ELSE "poll"
<1>1. /\ main.kind = "status" /\ main.phase = "poll"
      /\ main' = [main EXCEPT !.count = c, !.saw = status, !.phase = p]
      /\ UNCHANGED <<era, secured, auth, gatewayVars, calls, faults>>
  BY DEF PollStatus
<1>2. main \in Mains /\ main.count \in Nat
  BY DEF ReplInv, TypesOK, Mains
<1>3. main.arg \in Ids
  BY <1>1 DEF ReplInv, ArgOK
<1>4. status \in Statuses
  BY <1>3 DEF ReplInv, TypesOK, ReplRecs
<1>5. /\ c \in Nat /\ p \in {"poll", "returned", "raised"} /\ p \in Phases
      /\ p = "poll" => c # MaxTries
      /\ p = "returned" => status = "stopped" \/ c = MaxTries
  BY <1>2 DEF Phases
<1> HIDE DEF p, status
<1>6. main' \in Mains
  BY <1>1, <1>2, <1>4, <1>5 DEF Mains
<1>7. /\ main'.kind = main.kind /\ main'.arg = main.arg /\ main'.flags = main.flags
      /\ main'.retry = main.retry /\ main'.fit = main.fit /\ main'.count = main.count + 1
      /\ main'.phase = p /\ main'.saw = status
  BY <1>1, <1>2 DEF Mains
<1>8. DoneOK(main', task, repl)
  BY <1>1, <1>3, <1>5, <1>7 DEF DoneOK, status
<1>9. main.kind # "wait"
  BY <1>1
<1> QED
  BY <1>1, <1>5, <1>6, <1>7, <1>8, <1>9, PolledKeeps

\* A poll of a count.
LEMMA PollCountKeeps == ASSUME ReplInv, PollCount PROVE ReplInv'
<1> DEFINE n == Cardinality(IF main.kind = "active" THEN Active ELSE local)
           c == main.count + 1
           p == IF n = main.arg \/ main.count + 1 = MaxTries THEN "returned" ELSE "poll"
<1>1. /\ main.kind \in {"active", "local"} /\ main.phase = "poll"
      /\ main' = [main EXCEPT !.count = c, !.phase = p]
      /\ UNCHANGED <<era, secured, auth, gatewayVars, calls, faults>>
  BY DEF PollCount
<1>2. main \in Mains /\ main.count \in Nat
  BY DEF ReplInv, TypesOK, Mains
<1>3. /\ c \in Nat /\ p \in {"poll", "returned", "raised"} /\ p \in Phases
      /\ p = "poll" => c # MaxTries
  BY <1>2 DEF Phases
<1> HIDE DEF p, n
<1>4. main' \in Mains
  BY <1>1, <1>2, <1>3 DEF Mains
<1>5. /\ main'.kind = main.kind /\ main'.arg = main.arg /\ main'.flags = main.flags
      /\ main'.retry = main.retry /\ main'.fit = main.fit /\ main'.count = main.count + 1
      /\ main'.phase = p
  BY <1>1, <1>2 DEF Mains
<1>6. DoneOK(main', task, repl)
  BY <1>1, <1>5 DEF DoneOK
<1>7. main.kind # "wait"
  BY <1>1
<1> QED
  BY <1>1, <1>3, <1>4, <1>5, <1>6, <1>7, PolledKeeps

\* An answer to a poll is lost.
LEMMA PollLostKeeps == ASSUME ReplInv, PollLost PROVE ReplInv'
<1>1. /\ main.phase \in {"poll", "post"} /\ Fault /\ Goes("raised")
      /\ UNCHANGED <<secured, auth, written, task, repl, local>>
  BY DEF PollLost, gatewayVars
<1>2. faults' \in Nat /\ faults' # 0
  BY <1>1, FaultCounts
<1>3. "raised" \in Phases
  BY DEF Phases
<1>4. /\ main' \in Mains /\ main'.phase = "raised"
      /\ main'.kind = main.kind /\ main'.arg = main.arg /\ main'.count = main.count
      /\ main'.flags = main.flags /\ main'.prev = main.prev /\ main'.retry = main.retry
      /\ main'.given = main.given /\ main'.saw = main.saw /\ main'.fresh = main.fresh
      /\ main'.quiet = main.quiet /\ main'.long = main.long /\ main'.fit = main.fit
  BY <1>1, <1>3, GoesIs
<1>5. TypesOK'
  BY <1>1, <1>2, <1>4 DEF ReplInv, TypesOK
<1>6. ArgOK(main') /\ CountOK(main')
  BY <1>1, <1>4 DEF ReplInv, ArgOK, CountOK
<1>7. WaitOK(main', repl')
  <2>1. WaitOK(main, repl)
    BY DEF ReplInv
  <2> QED
    BY <2>1, <1>1, <1>4 DEF WaitOK
<1>8. DoneOK(main', task', repl')
  BY <1>1, <1>4 DEF ReplInv, DoneOK
<1>9. CalmOK(main', faults', Allowed', task', repl')
  BY <1>2 DEF CalmOK
<1> QED
  BY <1>1, <1>5, <1>6, <1>7, <1>8, <1>9 DEF ReplInv

\* When the loop of the wait ends, and how.
LEMMA LoopEndsIs ==
    ASSUME NEW c \in Nat, NEW g, NEW p, p = LoopEnds(c, g)
    PROVE  /\ p \in {"poll", "raised", "returned"}
           /\ p = "poll" => c < MaxTimes
           /\ p = "returned" => main.flags \subseteq g \/ c > MaxTimes
<1>1. CASE main.flags \ g # {} /\ c < MaxTimes
  BY <1>1, ReplAssumption DEF LoopEnds
<1>2. CASE ~(main.flags \ g # {} /\ c < MaxTimes) /\ c = MaxTimes
  BY <1>2, ReplAssumption DEF LoopEnds
<1>3. CASE ~(main.flags \ g # {} /\ c < MaxTimes) /\ c # MaxTimes
  <2>1. p = "returned"
    BY <1>3, ReplAssumption DEF LoopEnds
  <2>2. main.flags \subseteq g \/ c > MaxTimes
    BY <1>3, ReplAssumption
  <2> QED
    BY <2>1, <2>2
<1> QED
  BY <1>1, <1>2, <1>3

\* The counters of a wait, poll by poll.
LEMMA QuietIs ==
    ASSUME ReplInv, main.kind = "wait", NEW s \in Streams
    PROVE  /\ Quiet(s) \in Nat /\ Quiet(s) <= RetryMax
           /\ s \notin main.fresh /\ main.quiet[s] # RetryMax => Quiet(s) = main.quiet[s] + 1
           /\ s \notin main.fresh /\ main.quiet[s] = RetryMax => Quiet(s) = RetryMax
<1>1. main.quiet[s] \in Nat
  BY DEF ReplInv, TypesOK, Mains, Counters
<1>2. main.quiet[s] <= RetryMax
  BY DEF ReplInv, WaitOK
<1> QED
  BY <1>1, <1>2, ReplAssumption DEF Quiet

\* What a poll of the wait has to see to.
LEMMA WaitedKeeps ==
    ASSUME ReplInv, main.kind = "wait", main.phase = "poll", main' \in Mains,
           main'.kind = "wait", main'.arg = main.arg, main'.flags = main.flags,
           main'.fit = main.fit, main'.phase \in {"poll", "returned", "raised"},
           main'.count <= MaxTimes + 1,
           main'.phase = "poll" => main'.count < MaxTimes,
           WaitOK(main', repl), DoneOK(main', task, repl),
           UNCHANGED <<secured, auth, gatewayVars, faults>>
    PROVE  ReplInv'
<1>1. UNCHANGED <<written, task, repl, local>>
  BY DEF gatewayVars
<1>2. ArgOK(main) /\ main'.count \in Nat
  BY DEF ReplInv, Mains
<1>3. TypesOK'
  BY <1>1 DEF ReplInv, TypesOK
<1>4. ArgOK(main') /\ CalmOK(main', faults', Allowed', task', repl')
  BY <1>2 DEF ArgOK, CalmOK
<1>5. CountOK(main')
  BY <1>2, ReplAssumption DEF CountOK
<1> QED
  BY <1>1, <1>3, <1>4, <1>5 DEF ReplInv

\* A poll that finds the replication starting.
LEMMA WaitStartingKeeps ==
    ASSUME ReplInv, WaitPoll, repl[main.arg].status = "starting" PROVE ReplInv'
<1> DEFINE c == main.count + 2
           q == [s \in Streams |-> Quiet(s)]
           p == LoopEnds(c, main.given)
<1>1. /\ main.kind = "wait" /\ main.phase = "poll"
      /\ main' = [main EXCEPT !.count = c, !.saw = "starting", !.fresh = {}, !.quiet = q,
                              !.phase = p]
      /\ UNCHANGED <<era, secured, auth, gatewayVars, calls, faults>>
  BY DEF WaitPoll
<1>2. main \in Mains /\ main.count \in Nat /\ main.count < MaxTimes
  BY <1>1 DEF ReplInv, TypesOK, Mains, CountOK
<1>3. q \in Counters /\ \A s \in Streams : q[s] = Quiet(s) /\ q[s] <= RetryMax
  BY <1>1, QuietIs DEF Counters
<1>4. c \in Nat /\ c <= MaxTimes + 1
  BY <1>2, ReplAssumption
<1> HIDE DEF c, q
<1>5. /\ p \in {"poll", "raised", "returned"} /\ p \in Phases
      /\ p = "poll" => c < MaxTimes
      /\ p = "returned" => main.flags \subseteq main.given \/ c > MaxTimes
  BY <1>4, LoopEndsIs DEF Phases
<1> HIDE DEF p
<1>6. main' \in Mains
  BY <1>1, <1>2, <1>3, <1>4, <1>5 DEF Mains, Statuses
<1>7. /\ main'.kind = "wait" /\ main'.arg = main.arg /\ main'.flags = main.flags
      /\ main'.prev = main.prev /\ main'.retry = main.retry /\ main'.given = main.given
      /\ main'.long = main.long /\ main'.fit = main.fit
      /\ main'.count = c /\ main'.saw = "starting" /\ main'.fresh = {} /\ main'.quiet = q
      /\ main'.phase = p
  BY <1>1, <1>2 DEF Mains
<1>8. /\ main.given = {} /\ main.retry = Zero
      /\ \A s \in Streams : main.prev[s] <= repl[main.arg].sent[s]
  BY <1>1 DEF ReplInv, WaitOK
<1>9. WaitOK(main', repl)
  <2>1. \A s \in Streams : Zero[s] = 0 /\ q[s] \in Nat
    BY <1>3 DEF Zero, Counters
  <2> QED
    BY <2>1, <1>3, <1>7, <1>8, ReplAssumption DEF WaitOK
<1>10. DoneOK(main', task, repl)
  BY <1>5, <1>7, <1>8 DEF DoneOK
<1> QED
  BY <1>1, <1>4, <1>5, <1>6, <1>7, <1>9, <1>10, WaitedKeeps

\* A poll that finds it running.
LEMMA WaitRunningKeeps ==
    ASSUME ReplInv, WaitPoll, repl[main.arg].status = "running" PROVE ReplInv'
<1> DEFINE sent == repl[main.arg].sent
           t == [s \in Streams |-> IF s \in main.flags THEN Retries(s) ELSE 0]
           v == [s \in Streams |-> IF s \in main.flags /\ main.retry[s] < RetryMax /\ Progress(s)
                                   THEN sent[s] ELSE main.prev[s]]
           g == {s \in main.flags : s \in main.given \/ main.retry[s] = RetryMax}
           c == main.count + 1
           q == [s \in Streams |-> Quiet(s)]
           l == main.long \cup {s \in Streams : main.quiet[s] = RetryMax}
           p == LoopEnds(c, g)
<1>1. /\ main.kind = "wait" /\ main.phase = "poll" /\ main' = WaitRunning
      /\ UNCHANGED <<era, secured, auth, gatewayVars, calls, faults>>
  BY DEF WaitPoll
<1>2. main' = [main EXCEPT !.retry = t, !.prev = v, !.given = g, !.count = c,
                           !.saw = "running", !.fresh = {}, !.quiet = q, !.long = l,
                           !.phase = p]
  BY <1>1 DEF WaitRunning
<1>3. /\ main \in Mains /\ main.count \in Nat /\ main.count < MaxTimes
      /\ main.flags \in SUBSET Streams /\ main.long \in SUBSET Streams
      /\ main.arg \in Ids
  BY <1>1 DEF ReplInv, TypesOK, Mains, CountOK, ArgOK
<1>4. \A s \in Streams : /\ sent[s] \in Nat /\ main.prev[s] \in Nat /\ main.retry[s] \in Nat
                         /\ main.quiet[s] \in Nat
  BY <1>3 DEF ReplInv, TypesOK, Mains, ReplRecs, Counters
<1>5. /\ main.given \subseteq main.long
      /\ \A s \in Streams :
           /\ main.prev[s] <= sent[s] /\ (s \in main.fresh => main.prev[s] < sent[s])
           /\ main.quiet[s] <= RetryMax /\ main.retry[s] <= RetryMax
           /\ main.retry[s] <= main.quiet[s] \/ s \in main.long
  BY <1>1 DEF ReplInv, WaitOK
<1>6. q \in Counters /\ \A s \in Streams : q[s] = Quiet(s) /\ q[s] <= RetryMax
  BY <1>1, QuietIs DEF Counters
<1>7. c \in Nat /\ c <= MaxTimes + 1
  BY <1>3, ReplAssumption
<1>8. \A s \in Streams : Progress(s) <=> sent[s] > main.prev[s]
  BY DEF Progress
<1>9. /\ t \in Counters
      /\ \A s \in Streams : /\ t[s] <= RetryMax
                            /\ t[s] <= q[s] \/ s \in l
  <2>1. ASSUME NEW s \in Streams
        PROVE  t[s] \in Nat /\ t[s] <= RetryMax /\ (t[s] <= q[s] \/ s \in l)
    <3>1. q[s] \in Nat
      BY <1>6 DEF Counters
    <3>2. CASE s \notin main.flags
      <4>1. t[s] = 0
        BY <3>2
      <4> QED
        BY <4>1, <3>1, ReplAssumption
    <3>3. CASE s \in main.flags /\ main.retry[s] = RetryMax
      <4>1. t[s] = RetryMax
        BY <3>3 DEF Retries
      <4>2. main.quiet[s] = RetryMax \/ s \in main.long
        BY <3>3, <1>4, <1>5, ReplAssumption
      <4> QED
        BY <4>1, <4>2, ReplAssumption
    <3>4. CASE s \in main.flags /\ main.retry[s] # RetryMax /\ Progress(s)
      <4>1. t[s] = 0
        BY <3>4 DEF Retries
      <4> QED
        BY <4>1, <3>1, ReplAssumption
    <3>5. CASE s \in main.flags /\ main.retry[s] # RetryMax /\ ~Progress(s)
      <4>1. t[s] = main.retry[s] + 1
        BY <3>5 DEF Retries
      <4>2. s \notin main.fresh
        BY <3>5, <1>4, <1>5, <1>8
      <4>3. CASE main.quiet[s] = RetryMax
        <5>1. s \in l
          BY <4>3
        <5> QED
          BY <5>1, <4>1, <3>5, <1>4, <1>5, ReplAssumption
      <4>4. CASE main.quiet[s] # RetryMax
        <5>1. q[s] = main.quiet[s] + 1
          BY <4>2, <4>4, <1>1, <1>6, QuietIs
        <5> QED
          BY <5>1, <4>1, <3>5, <1>4, <1>5, ReplAssumption
      <4> QED
        BY <4>3, <4>4
    <3> QED
      BY <3>2, <3>3, <3>4, <3>5
  <2> HIDE DEF l, q
  <2>2. t \in Counters
    <3>1. t = [s \in Streams |-> t[s]]
      OBVIOUS
    <3> HIDE DEF t
    <3> QED
      BY <3>1, <2>1 DEF Counters
  <2> QED
    BY <2>1, <2>2
<1>10. v \in Counters /\ \A s \in Streams : v[s] <= sent[s]
  BY <1>4, <1>5 DEF Counters
<1>11. /\ g \in SUBSET Streams /\ l \in SUBSET Streams /\ g \subseteq l
  <2>1. ASSUME NEW s \in g PROVE s \in l
    <3>1. s \in Streams /\ (s \in main.given \/ main.retry[s] = RetryMax)
      BY <1>3
    <3>2. CASE s \in main.given
      BY <3>2, <1>5
    <3>3. CASE main.retry[s] = RetryMax
      <4>1. main.quiet[s] = RetryMax \/ s \in main.long
        BY <3>1, <3>3, <1>4, <1>5, ReplAssumption
      <4> QED
        BY <4>1, <3>1
    <3> QED
      BY <3>1, <3>2, <3>3
  <2> QED
    BY <2>1, <1>3
<1> HIDE DEF sent, t, v, g, c, q, l
<1>12. /\ p \in {"poll", "raised", "returned"} /\ p \in Phases
       /\ p = "poll" => c < MaxTimes
       /\ p = "returned" => main.flags \subseteq g \/ c > MaxTimes
  BY <1>7, LoopEndsIs DEF Phases
<1> HIDE DEF p
<1>13. main' \in Mains
  BY <1>2, <1>3, <1>6, <1>7, <1>9, <1>10, <1>11, <1>12 DEF Mains, Statuses
<1>14. /\ main'.kind = main.kind /\ main'.arg = main.arg /\ main'.flags = main.flags
       /\ main'.prev = v /\ main'.retry = t /\ main'.given = g
       /\ main'.long = l /\ main'.fit = main.fit
       /\ main'.count = c /\ main'.saw = "running" /\ main'.fresh = {} /\ main'.quiet = q
       /\ main'.phase = p
  BY <1>2, <1>3 DEF Mains
<1>15. WaitOK(main', repl)
  BY <1>1, <1>6, <1>9, <1>10, <1>11, <1>14 DEF WaitOK, sent
<1>16. DoneOK(main', task, repl)
  <2>1. p = "returned" => main.flags \subseteq l \/ c > MaxTimes
    BY <1>11, <1>12
  <2> QED
    BY <2>1, <1>1, <1>14 DEF DoneOK
<1> QED
  BY <1>1, <1>7, <1>12, <1>13, <1>14, <1>15, <1>16, WaitedKeeps

\* A poll that finds it neither starting nor running ends the wait.
LEMMA WaitOverKeeps ==
    ASSUME ReplInv, WaitPoll, repl[main.arg].status \notin {"starting", "running"} PROVE ReplInv'
<1> DEFINE status == repl[main.arg].status
<1>1. /\ main.kind = "wait" /\ main.phase = "poll"
      /\ main' = [main EXCEPT !.saw = status, !.phase = "returned"]
      /\ UNCHANGED <<era, secured, auth, gatewayVars, calls, faults>>
  BY DEF WaitPoll
<1>2. /\ main \in Mains /\ main.count \in Nat /\ main.count < MaxTimes /\ main.arg \in Ids
  BY <1>1 DEF ReplInv, TypesOK, Mains, CountOK, ArgOK
<1>3. status \in Statuses /\ status \notin {"starting", "running"}
  BY <1>2 DEF ReplInv, TypesOK, ReplRecs
<1>4. main' \in Mains
  BY <1>1, <1>2, <1>3 DEF Mains, Phases
<1>5. /\ main'.kind = "wait" /\ main'.arg = main.arg /\ main'.flags = main.flags
      /\ main'.prev = main.prev /\ main'.retry = main.retry /\ main'.given = main.given
      /\ main'.long = main.long /\ main'.fit = main.fit /\ main'.quiet = main.quiet
      /\ main'.count = main.count /\ main'.saw = status /\ main'.fresh = main.fresh
      /\ main'.phase = "returned"
  BY <1>1, <1>2 DEF Mains
<1>6. WaitOK(main', repl)
  <2>1. WaitOK(main, repl)
    BY DEF ReplInv
  <2> QED
    BY <2>1, <1>1, <1>5 DEF WaitOK
<1>7. DoneOK(main', task, repl)
  BY <1>3, <1>5 DEF DoneOK
<1>8. main'.count <= MaxTimes + 1
  BY <1>2, <1>5, ReplAssumption
<1> QED
  BY <1>1, <1>4, <1>5, <1>6, <1>7, <1>8, WaitedKeeps

-----------------------------------------------------------------------------
(* The theorems                                                            *)

\* Every step keeps the invariant.
LEMMA ReplNextKeeps == ASSUME ReplInv, [ReplNext]_replVars PROVE ReplInv'
<1>1. CASE CallStep
  <2>1. CASE WaitPoll
    BY <2>1, WaitStartingKeeps, WaitRunningKeeps, WaitOverKeeps
  <2>2. CASE PostAnswered
    BY <2>2, PostAnsweredKeeps
  <2>3. CASE StopTask
    BY <2>3, StopTaskKeeps
  <2>4. CASE TaskPoll
    BY <2>4, TaskPollKeeps
  <2>5. CASE PutReplication
    BY <2>5, PutReplicationKeeps
  <2>6. CASE DeleteReplication
    BY <2>6, DeleteReplicationKeeps
  <2>7. CASE PutStatus
    BY <2>7, PutStatusKeeps
  <2>8. CASE PollStatus
    BY <2>8, PollStatusKeeps
  <2>9. CASE PollCount
    BY <2>9, PollCountKeeps
  <2>10. CASE PollLost
    BY <2>10, PollLostKeeps
  <2> QED
    BY <1>1, <2>1, <2>2, <2>3, <2>4, <2>5, <2>6, <2>7, <2>8, <2>9, <2>10 DEF CallStep
<1>2. CASE NewCall
  BY <1>2, NewCallKeeps
<1>3. CASE Moves
  BY <1>3, TaskMovesKeeps, ReplMovesKeeps DEF Moves
<1>4. CASE \E s \in Streams : DocAdded(s)
  BY <1>4, DocAddedKeeps
<1>5. CASE \E is \in SUBSET Ids : Assign(is)
  BY <1>5, AssignKeeps
<1>6. CASE UNCHANGED replVars
  <2>1. UNCHANGED <<secured, auth, written, task, repl, local, main, faults>>
    BY <1>6 DEF replVars, gatewayVars
  <2> QED
    BY <2>1 DEF ReplInv, TypesOK, Allowed
<1> QED
  BY <1>1, <1>2, <1>3, <1>4, <1>5, <1>6 DEF ReplNext

\* The invariant holds in every reachable state.
THEOREM ReplInvariant == ReplSpec => []ReplInv
<1>1. ReplInit => ReplInv
  BY ReplInitOK
<1>2. ReplInv /\ [ReplNext]_replVars => ReplInv'
  BY ReplNextKeeps
<1> QED
  BY <1>1, <1>2, PTL DEF ReplSpec

\* wait_until_sgw_replication_done gives a running replication up only when the counters
\* of every expected direction stood still for retry_max_count polls in a row, or past its
\* limit.
THEOREM WaitGivesUpLate == ReplSpec => []GivesUpLate
<1>1. ReplInv => GivesUpLate
  BY DEF ReplInv, DoneOK, GivesUpLate
<1> QED
  BY <1>1, ReplInvariant, PTL

\* The invariant gives what a test goes on from.
LEMMA DoneFollows == ReplInv => ReturnMeansDone
<1> SUFFICES ASSUME ReplInv PROVE ReturnMeansDone
  OBVIOUS
<1>1. main \in Mains /\ main.phase \in Phases /\ main.kind \in Kinds /\ main.count \in Nat
  BY DEF ReplInv, TypesOK, Mains
<1>2. ReplTypeOK
  <2>1. \A s \in Streams : main.retry[s] \in 0..RetryMax
    <3> SUFFICES ASSUME NEW s \in Streams PROVE main.retry[s] \in 0..RetryMax
      OBVIOUS
    <3>1. main.retry[s] \in Nat
      BY DEF ReplInv, TypesOK, Mains, Counters
    <3>2. CASE main.kind = "wait"
      BY <3>1, <3>2, ReplAssumption DEF ReplInv, WaitOK
    <3>3. CASE main.kind # "wait"
      <4>1. main.retry[s] = 0
        BY <3>3 DEF ReplInv, WaitOK, Zero
      <4> QED
        BY <4>1, ReplAssumption
    <3> QED
      BY <3>2, <3>3
  <2>2. \A s \in Streams, i \in Ids :
           /\ repl[i].look[s] <= written[s]
           /\ main.kind = "wait" /\ main.arg = i => main.prev[s] <= repl[i].sent[s]
    BY DEF ReplInv, ReplsOK, WaitOK
  <2>3. \A k \in Tasks : task[k].there <= written[k[1]]
    BY DEF ReplInv, TasksOK
  <2>4. main.count <= MaxTimes + MaxTries + 1 /\ local \subseteq {i \in Ids : There(i)}
    BY DEF ReplInv, CountOK, LocalOK, There
  <2> QED
    BY <1>1, <2>1, <2>2, <2>3, <2>4 DEF ReplTypeOK, Phases
<1>3. DoneMeansMoved
  <2>1. ASSUME main.kind \in {"wait", "status"}, main.phase = "returned", main.saw = "stopped"
        PROVE  MovedAll(main.arg)
    <3>1. main.arg \in Ids /\ repl[main.arg].status = "stopped"
      BY <2>1 DEF ReplInv, ArgOK, DoneOK
    <3> QED
      BY <3>1 DEF ReplInv, ReplsOK, MovedAll
  <2>2. main.kind = "wait" /\ main.phase = "returned" /\ main.saw = "starting" =>
          main.flags = {} \/ main.count > MaxTimes
    BY DEF ReplInv, DoneOK
  <2>3. main.kind = "status" /\ main.phase = "returned" =>
          main.saw = "stopped" \/ main.count = MaxTries
    BY DEF ReplInv, DoneOK
  <2>4. main.kind = "idle" /\ main.phase = "returned" =>
          task[main.arg].there >= task[main.arg].goal
    BY DEF ReplInv, DoneOK
  <2> QED
    BY <2>1, <2>2, <2>3, <2>4 DEF DoneMeansMoved
<1>4. EmptyMeansOver
  BY DEF ReplInv, DoneOK, EmptyMeansOver
<1>5. ResetLooksAgain
  <2> SUFFICES ASSUME main.kind = "reset", main.phase = "returned",
                      repl[main.arg].status = "stopped", NEW s \in Streams
               PROVE  repl[main.arg].look[s] >= repl[main.arg].goal[s]
    BY DEF ResetLooksAgain, ReplInv, DoneOK
  <2>1. main.arg \in Ids /\ ~repl[main.arg].cut
    BY DEF ReplInv, ArgOK, DoneOK
  <2> QED
    BY <2>1 DEF ReplInv, ReplsOK
<1> QED
  BY <1>2, <1>3, <1>4, <1>5 DEF ReturnMeansDone

\* A wait, a stop or a reset that returned has brought about what a test goes on from:
\* documents moved, nothing moving, or a run from the first document on, which has looked
\* at everything when it has stopped.
THEOREM ReturnedIsDone == ReplSpec => []ReturnMeansDone
BY DoneFollows, ReplInvariant, PTL

\* Without faults a call on a replication that is there, with the credentials it needs,
\* does not raise: the three requests of a reset find what the one before them left.
THEOREM CalmCallsSucceed == ReplSpec => []CalmSucceeds
<1>1. ReplInv => CalmSucceeds
  BY DEF ReplInv, CalmOK, CalmSucceeds
<1> QED
  BY <1>1, ReplInvariant, PTL

=============================================================================
