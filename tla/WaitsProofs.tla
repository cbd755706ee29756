------------------------------ MODULE WaitsProofs ------------------------------
(***************************************************************************)
(* Theorems about the calls that wait for a server by polling it: first    *)
(* the waits on a replicator, for every set of documents, every limit on   *)
(* the polls, and every way of the replicator to go back and forth between *)
(* its activity levels while it is being polled; then the calls that move  *)
(* the nodes of a server cluster, for every number of nodes, calls,        *)
(* repeated requests and faults.                                           *)
(***************************************************************************)
EXTENDS Replicator, ServerNodes, FiniteSetTheorems, TLAPS

-----------------------------------------------------------------------------
(* What the progress of a replicator says                                  *)

\* The total is what is moving or done, completed is what is done, and they agree
\* exactly when nothing is moving.
LEMMA Progress ==
    ASSUME TypeOK
    PROVE  /\ Total \in 0..Cardinality(Docs) /\ Completed \in 0..Cardinality(Docs)
           /\ Total \in Nat /\ Completed \in Nat /\ Completed <= Total
           /\ Completed >= Total <=> In("moving") = {}
<1> DEFINE M == In("moving")
           D == In("done")
<1>1. M \subseteq Docs /\ D \subseteq Docs /\ M \cap D = {} /\ M \cup D \subseteq Docs
  BY DEF In
<1>2. IsFiniteSet(M) /\ IsFiniteSet(D) /\ IsFiniteSet(M \cup D)
  BY <1>1, ReplicatorAssumption, FS_Subset
<1>3. /\ Cardinality(M) \in Nat /\ Cardinality(D) \in Nat /\ Cardinality(Docs) \in Nat
      /\ Cardinality(M \cup D) <= Cardinality(Docs)
  BY <1>1, <1>2, ReplicatorAssumption, FS_Subset, FS_CardinalityType
<1>4. Cardinality(M \cup D) = Cardinality(M) + Cardinality(D)
  <2>1. Cardinality(M \cup D) = Cardinality(M) + Cardinality(D) - Cardinality(M \cap D)
    BY <1>2, FS_Union
  <2>2. Cardinality(M \cap D) = 0
    BY <1>1, FS_EmptySet
  <2> QED
    BY <2>1, <2>2, <1>3
<1>5. Cardinality(M) = 0 <=> M = {}
  BY <1>2, FS_EmptySet
<1> HIDE DEF M, D
<1>6. Total = Cardinality(M) + Cardinality(D) /\ Completed = Cardinality(D)
  BY DEF Total, Completed, M, D
<1>7. /\ Total \in 0..Cardinality(Docs) /\ Completed \in 0..Cardinality(Docs)
      /\ Total \in Nat /\ Completed \in Nat /\ Completed <= Total
      /\ Completed >= Total <=> M = {}
  BY <1>3, <1>4, <1>5, <1>6
<1> QED
  BY <1>7 DEF M

\* Documents that are done only add to completed.
LEMMA CompletedGrows ==
    ASSUME TypeOK, doc' \in [Docs -> {"none", "left", "moving", "done"}],
           \A d \in Docs : doc[d] = "done" => doc'[d] = "done"
    PROVE  Completed <= Completed' /\ Completed' \in Nat
<1>1. In("done") \subseteq (In("done"))' /\ (In("done"))' \subseteq Docs
  BY DEF In
<1>2. IsFiniteSet((In("done"))')
  BY <1>1, ReplicatorAssumption, FS_Subset
<1>3. Cardinality(In("done")) <= Cardinality((In("done"))')
  BY <1>1, <1>2, FS_Subset
<1>4. Cardinality((In("done"))') \in Nat
  BY <1>2, FS_CardinalityType
<1> QED
  BY <1>3, <1>4 DEF Completed

-----------------------------------------------------------------------------
(* Type correctness                                                        *)

\* The places within wait_until_replicator_idle, from its loop on.
Waiting == {"loop", "counting", "comparing", "error", "level", "total", "completed"}

\* The one variable count serves three loops, each with a limit of its own.
Counts ==
    /\ pc \in {"off", "ready", "read", "yield"} => count = 0
    /\ pc = "yielding" => count <= YieldTimes
    /\ pc \in {"counting", "comparing"} => count < MaxTimes
    /\ pc \in Waiting => count <= MaxTimes
    /\ pc \in {"stop", "stopped"} => count <= StopTimes

\* The documents only go forward.
LEMMA DocsGoForward ==
    ASSUME TypeOK, [Next]_vars
    PROVE  /\ doc' \in [Docs -> {"none", "left", "moving", "done"}]
           /\ \A d \in Docs : \/ doc'[d] = doc[d]
                              \/ doc[d] = "none" /\ doc'[d] = "left"
                              \/ doc[d] = "left" /\ doc'[d] = "moving" /\ level # "stopped"
                              \/ doc[d] = "moving" /\ doc'[d] = "done" /\ level # "stopped"
<1>1. CASE Write
  BY <1>1 DEF Write, TypeOK, In
<1>2. CASE PickUp
  BY <1>2 DEF PickUp, TypeOK, In
<1>3. CASE Transfer
  BY <1>3 DEF Transfer, TypeOK, In
<1>4. CASE doc' = doc
  BY <1>4 DEF TypeOK
<1>5. Write \/ PickUp \/ Transfer \/ doc' = doc
  <2>1. CASE Device
    BY <2>1 DEF Device, Connect, LoseConnection, Reconnect, GoIdle, Wake, Finish, Fail, ObeyStop
  <2>2. CASE Waiter
    BY <2>2 DEF Waiter, YieldRead, Yield, WaitRead, GiveUp, SawWork, CountWork, SawStopped,
           SawIdle, IdleCompleted, IdleTotal, CompareIdle, CheckError, ReadLevel, ReadTotal,
           ReadCompleted, Judge, StopPoll, StopVerify, ReadActivity, Sleep, remote
  <2> QED
    BY <2>1, <2>2 DEF Next, TimePasses, Start, WaitAgain, Stop, remote, vars
<1> QED
  BY <1>1, <1>2, <1>3, <1>4, <1>5


\* The replicator's part and the test's part of the types.
RemoteOK ==
    /\ continuous \in BOOLEAN /\ level \in Levels
    /\ err \in {"none", "retry", "fatal"}
    /\ stopping \in BOOLEAN /\ quiet \in 0..Quiet /\ seen \in BOOLEAN /\ failed \in BOOLEAN

TestOK ==
    /\ pc \in Places /\ errCheck \in BOOLEAN /\ act \in Levels
    /\ count \in 0..(MaxTimes + StopTimes + YieldTimes)
    /\ idle \in 0..MaxIdle
    /\ {total, completed} \subseteq 0..Cardinality(Docs)
    /\ late \in BOOLEAN /\ due \subseteq Docs /\ how \in Outcomes

\* The types are those of the documents and of the two parts.
LEMMA TypeParts ==
    TypeOK <=> /\ doc \in [Docs -> {"none", "left", "moving", "done"}]
               /\ RemoteOK /\ TestOK
BY DEF TypeOK, RemoteOK, TestOK

\* A sleep of the test advances the patience of an idle replicator, and notes a failure.
LEMMA SleepEffect ==
    ASSUME TypeOK, Sleep
    PROVE  /\ RemoteOK'
           /\ UNCHANGED <<continuous, level, doc, err, stopping, seen>>
           /\ failed' => err = "fatal"
           /\ quiet <= quiet'
           /\ level = "idle" /\ In("left") # {} => quiet' = quiet + 1
<1>1. failed' \in BOOLEAN /\ (failed' => err = "fatal")
  <2>1. CASE err = "fatal"
    BY <2>1 DEF Sleep
  <2>2. CASE err # "fatal"
    BY <2>2 DEF Sleep
  <2> QED
    BY <2>1, <2>2
<1>2. quiet' \in 0..Quiet /\ quiet <= quiet' /\ (level = "idle" /\ In("left") # {} => quiet' = quiet + 1)
  BY ReplicatorAssumption DEF Sleep, TypeOK
<1> QED
  BY <1>1, <1>2 DEF Sleep, TypeOK, RemoteOK

\* Reading the activity level changes nothing of the replicator but that it has been seen.
LEMMA ReadEffect ==
    ASSUME TypeOK, ReadActivity
    PROVE  /\ RemoteOK' /\ act' = level /\ act' \in Levels
           /\ UNCHANGED <<continuous, level, doc, err, stopping, failed, quiet>>
           /\ seen' <=> seen \/ level \in AtWork
<1>1. seen' \in BOOLEAN /\ (seen' <=> seen \/ level \in AtWork)
  <2>1. CASE seen \/ level \in AtWork
    BY <2>1 DEF ReadActivity
  <2>2. CASE ~(seen \/ level \in AtWork)
    BY <2>2 DEF ReadActivity
  <2> QED
    BY <2>1, <2>2
<1> QED
  BY <1>1 DEF ReadActivity, TypeOK, RemoteOK

\* What an operation leaves behind, and what it goes on with.
LEMMA ReturnTypes ==
    ASSUME TypeOK, NEW outcome \in Outcomes, Return(outcome), UNCHANGED <<errCheck, due>>
    PROVE  TestOK' /\ Counts' /\ pc' \in {"off", "ready"} /\ count' = 0 /\ how' = outcome
<1>1. Cardinality(Docs) \in Nat
  BY ReplicatorAssumption, FS_CardinalityType
<1>2. late' \in BOOLEAN
  BY DEF Return
<1>3. pc' \in {"off", "ready"} /\ how' = outcome /\ count' = 0 /\ idle' = 0
      /\ total' = 0 /\ completed' = 0 /\ act' = "stopped"
  BY DEF Return
<1> QED
  BY <1>1, <1>2, <1>3, ReplicatorAssumption
     DEF TypeOK, TestOK, Counts, Places, Levels, Waiting

\* The counts an operation goes on with stay within their bounds.
LEMMA GoOnTypes ==
    ASSUME TypeOK, NEW place \in Places, NEW c \in Nat, NEW i \in 0..MaxIdle, GoOn(place, c, i),
           c <= MaxTimes + StopTimes + YieldTimes, UNCHANGED <<errCheck, due>>
    PROVE  TestOK' /\ pc' = place /\ count' = c
<1>1. Cardinality(Docs) \in Nat
  BY ReplicatorAssumption, FS_CardinalityType
<1> QED
  BY <1>1, ReplicatorAssumption DEF GoOn, TypeOK, TestOK

\* A replicator that goes to another level has not been seen there.
LEMMA BecomesEffect ==
    ASSUME NEW l \in Levels, Becomes(l)
    PROVE  level' = l /\ level' \in Levels /\ quiet' = 0 /\ quiet' \in 0..Quiet
           /\ ~seen' /\ seen' \in BOOLEAN
<1>1. seen' \in BOOLEAN /\ ~seen'
  BY DEF Becomes
<1>2. level' = l /\ quiet' = 0
  BY DEF Becomes
<1> QED
  BY <1>1, <1>2, ReplicatorAssumption

\* The device keeps its part of the types.
LEMMA DeviceTypes ==
    ASSUME TypeOK, Counts, Device
    PROVE  RemoteOK' /\ TestOK' /\ Counts'
<1>1. TestOK' /\ Counts'
  BY DEF Device, TypeOK, TestOK, Counts, reads
<1>2. RemoteOK'
  <2> USE DEF TypeOK, RemoteOK, Levels
  <2>1. CASE Write \/ PickUp \/ Transfer
    BY <2>1 DEF Write, PickUp, Transfer
  <2>2. CASE \E l \in Levels : Becomes(l)
    <3>1. level' \in Levels /\ quiet' \in 0..Quiet /\ seen' \in BOOLEAN
      BY <2>2, BecomesEffect
    <3>2. /\ err' \in {"none", "retry", "fatal"}
          /\ UNCHANGED <<continuous, stopping, failed>>
      BY DEF Device, Write, Connect, LoseConnection, Reconnect, PickUp, Transfer, GoIdle, Wake,
             Finish, Fail, ObeyStop
    <3> QED
      BY <3>1, <3>2
  <2>3. Write \/ PickUp \/ Transfer \/ \E l \in Levels : Becomes(l)
    BY DEF Device, Connect, LoseConnection, Reconnect, GoIdle, Wake, Finish, Fail, ObeyStop
  <2> QED
    BY <2>1, <2>2, <2>3
<1> QED
  BY <1>1, <1>2

\* A step of the test keeps the types.
LEMMA TestTypes ==
    ASSUME TypeOK, Counts, TimePasses \/ Start \/ WaitAgain \/ Stop \/ Waiter
    PROVE  RemoteOK' /\ TestOK' /\ Counts'
<1>0. /\ count \in Nat /\ MaxTimes \in Nat /\ StopTimes \in Nat /\ YieldTimes \in Nat
      /\ MaxIdle \in Nat /\ idle \in 0..MaxIdle /\ RemoteOK /\ TestOK
  BY ReplicatorAssumption, TypeParts DEF TypeOK
<1>1. CASE TimePasses
  <2>1. late' \in BOOLEAN
    BY <1>1 DEF TimePasses
  <2> QED
    BY <1>0, <1>1, <2>1 DEF TimePasses, remote, reads, RemoteOK, TestOK, Counts
<1>2. CASE Start
  <2>1. level' \in Levels /\ quiet' \in 0..Quiet /\ seen' \in BOOLEAN
    BY <1>2, BecomesEffect DEF Start, Levels
  <2>2. stopping' \in BOOLEAN /\ failed' \in BOOLEAN
    BY <1>2 DEF Start
  <2>3. RemoteOK'
    BY <1>0, <1>2, <2>1, <2>2 DEF Start, RemoteOK
  <2>4. TestOK' /\ Counts'
    BY <1>0, <1>2 DEF Start, TestOK, Counts, Places, Levels, Waiting, Outcomes
  <2> QED
    BY <2>3, <2>4
<1>3. CASE WaitAgain
  BY <1>0, <1>3 DEF WaitAgain, remote, reads, RemoteOK, TestOK, Counts, Places, Outcomes, Waiting
<1>4. CASE Stop
  <2>1. stopping' \in BOOLEAN
    BY <1>4 DEF Stop
  <2>2. /\ pc' = "stop" /\ count' = 0 /\ how' = "none"
        /\ UNCHANGED <<errCheck, act, total, completed, idle, late, due>>
        /\ UNCHANGED <<continuous, level, err, failed, quiet, seen>>
    BY <1>4 DEF Stop, reads
  <2>3. RemoteOK'
    BY <1>0, <2>1, <2>2 DEF RemoteOK
  <2>4. TestOK'
    <3>1. count' \in 0..(MaxTimes + StopTimes + YieldTimes) /\ idle' \in 0..MaxIdle
          /\ {total', completed'} \subseteq 0..Cardinality(Docs)
      BY <1>0, <2>2 DEF TestOK
    <3>2. errCheck' \in BOOLEAN /\ late' \in BOOLEAN
      BY <1>0, <2>2 DEF TestOK
    <3> QED
      BY <1>0, <2>2, <3>1, <3>2 DEF TestOK, Places, Outcomes
  <2>5. Counts'
    BY <1>0, <2>2 DEF Counts, Waiting
  <2> QED
    BY <2>3, <2>4, <2>5
<1>5. CASE YieldRead
  BY <1>0, <1>5, ReadEffect DEF YieldRead, TestOK, Counts, Places, Waiting
<1>6. CASE Yield
  <2>1. RemoteOK'
    BY <1>6, SleepEffect DEF Yield
  <2>2. CASE act = "connecting" /\ count + 1 < YieldTimes
    <3>1. GoOn("yielding", count + 1, idle) /\ UNCHANGED <<errCheck, due>>
      BY <1>6, <2>2 DEF Yield
    <3>2. TestOK' /\ pc' = "yielding" /\ count' = count + 1
      BY <1>0, <2>2, <3>1, GoOnTypes DEF Places
    <3> QED
      BY <1>0, <2>1, <2>2, <3>2 DEF Counts, Waiting
  <2>3. CASE ~(act = "connecting" /\ count + 1 < YieldTimes)
    BY <1>6, <2>1, <2>3, ReturnTypes DEF Yield, Outcomes
  <2> QED
    BY <2>2, <2>3
<1>7. CASE WaitRead
  <2>1. RemoteOK' /\ act' \in Levels
    BY <1>7, ReadEffect DEF WaitRead
  <2>2. due' \subseteq Docs
    BY <1>7 DEF WaitRead, In
  <2>3. late' \in BOOLEAN
    BY <1>7 DEF WaitRead
  <2>4. /\ pc' = "loop" /\ count' = 0 /\ idle' = 0
        /\ UNCHANGED <<errCheck, total, completed, how>>
    BY <1>7 DEF WaitRead
  <2> QED
    BY <1>0, <2>1, <2>2, <2>3, <2>4 DEF TestOK, Counts, Places, Waiting
<1>8. CASE GiveUp
  BY <1>0, <1>8, ReturnTypes DEF GiveUp, Outcomes, remote, RemoteOK
<1>9. CASE SawWork \/ SawStopped \/ SawIdle
  <2>1. RemoteOK' /\ UNCHANGED <<errCheck, due>> /\ pc = "loop" /\ count < MaxTimes
    BY <1>9, SleepEffect DEF SawWork, CountWork, SawStopped, SawIdle
  <2>2. PICK place \in {"error", "counting"}, c \in {count, count + 1}, i \in {0, idle} :
           GoOn(place, c, i) /\ (place = "counting" => c = count)
    BY <1>9 DEF SawWork, CountWork, SawStopped, SawIdle
  <2>3. TestOK' /\ pc' = place /\ count' = c
    BY <1>0, <2>1, <2>2, GoOnTypes DEF Places
  <2> QED
    BY <1>0, <2>1, <2>2, <2>3 DEF Counts, Waiting
<1>10. CASE IdleCompleted
  <2>1. completed' \in 0..Cardinality(Docs)
    BY <1>10, Progress DEF IdleCompleted
  <2> QED
    BY <1>0, <1>10, <2>1 DEF IdleCompleted, remote, RemoteOK, TestOK, Counts, Places, Waiting
<1>11. CASE IdleTotal
  <2>1. pc = "comparing" /\ count < MaxTimes
    BY <1>11 DEF IdleTotal, CompareIdle, Counts
  <2>2. RemoteOK' /\ UNCHANGED <<errCheck, due>>
    BY <1>0, <1>11 DEF IdleTotal, CompareIdle, remote, RemoteOK
  <2>3. CASE Return("idle")
    BY <2>2, <2>3, ReturnTypes DEF Outcomes
  <2>4. CASE ~Return("idle")
    <3>1. PICK c \in {count, count + 1}, i \in {idle, idle + 1} :
             i <= MaxIdle /\ GoOn("error", c, i)
      BY <1>0, <1>11, <2>4 DEF IdleTotal, CompareIdle
    <3>2. TestOK' /\ pc' = "error" /\ count' = c
      BY <1>0, <2>1, <2>2, <3>1, GoOnTypes DEF Places
    <3> QED
      BY <1>0, <2>1, <2>2, <3>1, <3>2 DEF Counts, Waiting
  <2> QED
    BY <2>3, <2>4
<1>12. CASE CheckError
  <2>1. pc = "error" /\ RemoteOK' /\ UNCHANGED <<errCheck, due>>
    BY <1>0, <1>12 DEF CheckError, remote, RemoteOK
  <2>2. Return("error") \/ GoOn("level", count, idle)
    BY <1>12 DEF CheckError
  <2>3. CASE Return("error")
    BY <2>1, <2>3, ReturnTypes DEF Outcomes
  <2>4. CASE GoOn("level", count, idle)
    <3>1. TestOK' /\ pc' = "level" /\ count' = count
      BY <1>0, <2>1, <2>4, GoOnTypes DEF Places, TestOK
    <3> QED
      BY <2>1, <3>1 DEF Counts, Waiting
  <2> QED
    BY <2>2, <2>3, <2>4
<1>13. CASE ReadLevel
  BY <1>0, <1>13, ReadEffect DEF ReadLevel, TestOK, Counts, Places, Waiting
<1>14. CASE ReadTotal
  <2>1. total' \in 0..Cardinality(Docs)
    BY <1>14, Progress DEF ReadTotal
  <2> QED
    BY <1>0, <1>14, <2>1 DEF ReadTotal, remote, RemoteOK, TestOK, Counts, Places, Waiting
<1>15. CASE ReadCompleted
  <2>1. pc = "completed" /\ RemoteOK' /\ UNCHANGED <<errCheck, due>>
    BY <1>0, <1>15 DEF ReadCompleted, Judge, remote, RemoteOK
  <2>2. \/ \E o \in {"incomplete", "stopped", "impossible"} : Return(o)
        \/ GoOn("loop", count, idle)
    BY <1>15 DEF ReadCompleted, Judge
  <2>3. ASSUME NEW o \in {"incomplete", "stopped", "impossible"}, Return(o)
        PROVE  TestOK' /\ Counts'
    BY <2>1, <2>3, ReturnTypes DEF Outcomes
  <2>4. CASE GoOn("loop", count, idle)
    <3>1. TestOK' /\ pc' = "loop" /\ count' = count
      BY <1>0, <2>1, <2>4, GoOnTypes DEF Places, TestOK
    <3> QED
      BY <2>1, <3>1 DEF Counts, Waiting
  <2> QED
    BY <2>1, <2>2, <2>3, <2>4
<1>16. CASE StopPoll
  BY <1>0, <1>16, ReadEffect DEF StopPoll, TestOK, Counts, Places, Waiting
<1>17. CASE StopVerify
  <2>1. RemoteOK' /\ UNCHANGED <<errCheck, due>>
    BY <1>0, <1>17 DEF StopVerify, remote, RemoteOK
  <2>2. \E o \in {"stopped", "running"} : Return(o)
    BY <1>17 DEF StopVerify
  <2> QED
    BY <2>1, <2>2, ReturnTypes DEF Outcomes
<1> QED
  BY <1>1, <1>2, <1>3, <1>4, <1>5, <1>6, <1>7, <1>8, <1>9, <1>10, <1>11, <1>12, <1>13, <1>14,
     <1>15, <1>16, <1>17 DEF Waiter

\* Every step keeps the types and the limits on the count.
LEMMA TypeStep ==
    ASSUME TypeOK, Counts, [Next]_vars
    PROVE  TypeOK' /\ Counts'
<1>1. doc' \in [Docs -> {"none", "left", "moving", "done"}]
  BY DocsGoForward
<1>2. RemoteOK' /\ TestOK' /\ Counts'
  <2>1. CASE UNCHANGED vars
    BY <2>1, TypeParts DEF vars, remote, reads, RemoteOK, TestOK, Counts
  <2> QED
    BY <2>1, DeviceTypes, TestTypes DEF Next
<1>3. TypeOK'
  BY <1>1, <1>2 DEF TypeOK, RemoteOK, TestOK
<1> QED
  BY <1>2, <1>3

-----------------------------------------------------------------------------
(* A wait ends true to the replicator                                      *)

\* Only start takes a replicator out of "stopped", and start is called when no wait is
\* under way: a wait that has read "stopped" reads a total and a completed that no
\* longer move.  A failure that the test slept over is there when it looks.
StoppedStays ==
    /\ err = "fatal" => level = "stopped"
    /\ failed => err = "fatal"
    /\ pc \in {"total", "completed"} /\ act = "stopped" => level = "stopped"
    /\ pc = "completed" /\ act = "stopped" => total = Total
    /\ how = "incomplete" /\ pc = "ready" => level = "stopped"

\* A wait that checks for errors does not get past "error" once it has slept over a
\* failure; a wait that begins after one has not counted yet.
Watched ==
    /\ errCheck /\ failed => pc \notin {"level", "total", "completed"}
    /\ errCheck /\ failed /\ pc = "loop" => count = 0

EndsInv == TypeOK /\ Counts /\ StoppedStays /\ Watched /\ NoFalseIncomplete /\ FailureReported

\* The progress of a stopped replicator stands still.
LEMMA StoppedProgress ==
    ASSUME TypeOK, [Next]_vars, level = "stopped"
    PROVE  Total' = Total /\ Completed' = Completed /\ (In("moving"))' = In("moving")
<1>1. (In("moving"))' = In("moving") /\ (In("done"))' = In("done")
  BY DocsGoForward DEF In
<1> QED
  BY <1>1 DEF Total, Completed

\* What the device does about levels and errors.
LEMMA DeviceLevels ==
    ASSUME TypeOK, Device, err = "fatal" => level = "stopped"
    PROVE  /\ err' = "fatal" => level' = "stopped"
           /\ level = "stopped" => UNCHANGED <<level, err>>
           /\ err = "fatal" => err' = "fatal"
           /\ UNCHANGED failed
BY DEF Device, Write, Connect, LoseConnection, Reconnect, PickUp, Transfer, GoIdle, Wake,
       Finish, Fail, ObeyStop, Becomes, AtWork

\* What the replicator does cannot make an outcome false.
LEMMA DeviceEnds ==
    ASSUME EndsInv, Device
    PROVE  StoppedStays' /\ Watched' /\ NoFalseIncomplete' /\ FailureReported'
<1>1. UNCHANGED <<pc, errCheck, reads, count, how>>
  BY DEF Device
<1>2. /\ err' = "fatal" => level' = "stopped"
      /\ level = "stopped" => UNCHANGED <<level, err>>
      /\ UNCHANGED failed /\ (failed => err' = "fatal")
  BY DeviceLevels DEF EndsInv, StoppedStays
<1>3. level = "stopped" => Total' = Total /\ (In("moving"))' = In("moving")
  BY StoppedProgress DEF EndsInv, Next
<1>4. StoppedStays'
  BY <1>1, <1>2, <1>3 DEF EndsInv, StoppedStays, reads
<1>5. NoFalseIncomplete'
  BY <1>1, <1>3 DEF EndsInv, StoppedStays, NoFalseIncomplete
<1> QED
  BY <1>1, <1>2, <1>4, <1>5 DEF EndsInv, Watched, FailureReported

\* A step of the test.  It waits on a stopped replicator only to read, and it has looked
\* at the error since its last sleep when it reads.
LEMMA TestEnds ==
    ASSUME EndsInv, TimePasses \/ Start \/ WaitAgain \/ Stop \/ Waiter
    PROVE  StoppedStays' /\ Watched' /\ NoFalseIncomplete' /\ FailureReported'
<1>0. /\ TypeOK /\ StoppedStays /\ Watched /\ NoFalseIncomplete /\ FailureReported
      /\ MaxTimes \in Nat /\ MaxTimes # 0 /\ count \in Nat
  BY ReplicatorAssumption DEF EndsInv, TypeOK
<1>1. UNCHANGED doc /\ Total' = Total /\ Completed' = Completed /\ (In("moving"))' = In("moving")
  <2>1. UNCHANGED doc
    BY DEF TimePasses, Start, WaitAgain, Stop, Waiter, YieldRead, Yield, WaitRead, GiveUp,
           SawWork, CountWork, SawStopped, SawIdle, IdleCompleted, IdleTotal, CompareIdle,
           CheckError, ReadLevel, ReadTotal, ReadCompleted, Judge, StopPoll, StopVerify,
           ReadActivity, Sleep, remote
  <2> QED
    BY <2>1 DEF Total, Completed, In
<1> USE DEF StoppedStays, Watched, NoFalseIncomplete, FailureReported
<1>2. CASE TimePasses
  BY <1>0, <1>1, <1>2 DEF TimePasses, remote, reads
<1>3. CASE Start
  <2>1. ~failed' /\ err' = "none" /\ pc' \in {"read", "yield"}
    BY <1>3 DEF Start
  <2> QED
    BY <2>1
<1>4. CASE WaitAgain
  BY <1>0, <1>1, <1>4 DEF WaitAgain, remote, reads
<1>5. CASE Stop
  BY <1>0, <1>1, <1>5 DEF Stop, reads
<1>6. CASE YieldRead
  BY <1>0, <1>1, <1>6, ReadEffect DEF YieldRead
<1>7. CASE Yield
  <2>1. UNCHANGED <<level, err>> /\ (failed' => err = "fatal")
    BY <1>0, <1>7, SleepEffect DEF Yield
  <2>2. pc' = "yielding" \/ (pc' = "ready" /\ how' = "none")
    BY <1>7 DEF Yield, GoOn, Return
  <2> QED
    BY <1>0, <2>1, <2>2
<1>8. CASE WaitRead
  BY <1>0, <1>1, <1>8, ReadEffect DEF WaitRead
<1>9. CASE GiveUp
  <2>1. ~(errCheck /\ failed) /\ pc' = "ready" /\ how' = "gave up"
    <3>1. pc = "loop" /\ count # 0 /\ pc' = "ready" /\ how' = "gave up"
      <4>1. pc = "loop" /\ count >= MaxTimes
        BY <1>9 DEF GiveUp
      <4>2. pc' = "ready" /\ how' = "gave up"
        BY <1>9, <4>1 DEF GiveUp, Return
      <4>3. count \in Nat /\ MaxTimes \in Nat /\ MaxTimes # 0
        BY <1>0
      <4>4. count # 0
        BY <4>1, <4>3
      <4> QED
        BY <4>1, <4>2, <4>4
    <3> QED
      BY <1>0, <3>1
  <2>2. UNCHANGED <<level, err, failed, errCheck>>
    BY <1>9 DEF GiveUp, remote
  <2> QED
    BY <1>0, <2>1, <2>2
<1>10. CASE SawWork \/ SawStopped \/ SawIdle
  <2>1. UNCHANGED <<level, err>> /\ (failed' => err = "fatal")
    BY <1>0, <1>10, SleepEffect DEF SawWork, CountWork, SawStopped, SawIdle
  <2>2. pc' \in {"error", "counting"}
    BY <1>10 DEF SawWork, CountWork, SawStopped, SawIdle, GoOn
  <2> QED
    BY <1>0, <2>1, <2>2
<1>11. CASE IdleCompleted
  BY <1>0, <1>1, <1>11 DEF IdleCompleted, remote
<1>12. CASE IdleTotal
  <2>1. UNCHANGED <<level, err, failed, errCheck>>
    BY <1>12 DEF IdleTotal, CompareIdle, remote
  <2>2. pc' = "error" \/ (pc' = "ready" /\ how' = "idle")
    BY <1>12 DEF IdleTotal, CompareIdle, GoOn, Return
  <2> QED
    BY <1>0, <2>1, <2>2
<1>13. CASE CheckError
  <2>1. UNCHANGED <<level, err, failed, errCheck>> /\ pc = "error"
    BY <1>13 DEF CheckError, remote
  <2>2. CASE errCheck /\ failed
    <3>1. pc' = "ready" /\ how' = "error"
      BY <1>0, <1>13, <2>1, <2>2 DEF CheckError, Return
    <3> QED
      BY <1>0, <2>1, <3>1
  <2>3. CASE ~(errCheck /\ failed)
    <3>1. pc' = "level" \/ (pc' = "ready" /\ how' = "error")
      BY <1>13, <2>1 DEF CheckError, Return, GoOn
    <3> QED
      BY <1>0, <2>1, <2>3, <3>1
  <2> QED
    BY <2>2, <2>3
<1>14. CASE ReadLevel
  BY <1>0, <1>1, <1>14, ReadEffect DEF ReadLevel
<1>15. CASE ReadTotal
  BY <1>0, <1>1, <1>15 DEF ReadTotal, remote
<1>16. CASE ReadCompleted
  <2>1. /\ UNCHANGED <<level, err, failed, errCheck>> /\ pc = "completed"
        /\ ~(errCheck /\ failed)
    BY <1>0, <1>16 DEF ReadCompleted, Judge, remote
  <2>2. CASE act = "stopped" /\ Completed < total
    <3>1. level = "stopped" /\ total = Total
      BY <1>0, <2>1, <2>2
    <3>2. In("moving") # {}
      <4>1. Completed < Total /\ Total \in Nat /\ Completed \in Nat
        BY <1>0, <2>2, <3>1, Progress
      <4>2. Completed >= Total <=> In("moving") = {}
        BY <1>0, Progress
      <4> QED
        BY <4>1, <4>2
    <3>3. pc' = "ready" /\ how' = "incomplete"
      BY <1>16, <2>1, <2>2 DEF ReadCompleted, Judge, Return
    <3> QED
      BY <1>0, <1>1, <2>1, <3>1, <3>2, <3>3
  <2>3. CASE ~(act = "stopped" /\ Completed < total)
    <3>1. pc' = "loop" \/ (pc' = "ready" /\ how' \in {"stopped", "impossible"})
      BY <1>16, <2>1, <2>3 DEF ReadCompleted, Judge, Return, GoOn
    <3> QED
      BY <1>0, <2>1, <3>1
  <2> QED
    BY <2>2, <2>3
<1>17. CASE StopPoll
  <2>1. UNCHANGED <<level, err, failed, errCheck, how>> /\ pc' \in {"stop", "stopped"}
    BY <1>0, <1>17, ReadEffect DEF StopPoll
  <2> QED
    BY <1>0, <2>1
<1>18. CASE StopVerify
  <2>1. UNCHANGED <<level, err, failed, errCheck>>
    BY <1>18 DEF StopVerify, remote
  <2>2. pc' = "off" \/ (pc' = "ready" /\ how' = "running")
    BY <1>18 DEF StopVerify, Return
  <2> QED
    BY <1>0, <2>1, <2>2
<1> QED
  BY <1>2, <1>3, <1>4, <1>5, <1>6, <1>7, <1>8, <1>9, <1>10, <1>11, <1>12, <1>13, <1>14, <1>15,
     <1>16, <1>17, <1>18 DEF Waiter

\* A replicator that was never started satisfies all of it.
LEMMA EndsInit == Init => EndsInv
<1> SUFFICES ASSUME Init PROVE EndsInv
  OBVIOUS
<1>1. Cardinality(Docs) \in Nat
  BY ReplicatorAssumption, FS_CardinalityType
<1>2. ~failed /\ failed \in BOOLEAN /\ stopping \in BOOLEAN /\ seen \in BOOLEAN
      /\ late \in BOOLEAN
  BY DEF Init
<1>3. /\ continuous \in BOOLEAN /\ level = "stopped" /\ err = "none" /\ quiet = 0
      /\ doc \in [Docs -> {"none", "left"}]
      /\ pc = "off" /\ errCheck \in BOOLEAN
      /\ act = "stopped" /\ count = 0 /\ idle = 0 /\ total = 0 /\ completed = 0
      /\ due = {} /\ how = "none"
  BY DEF Init
<1>4. TypeOK
  <2>1. doc \in [Docs -> {"none", "left", "moving", "done"}]
    BY <1>3
  <2> QED
    BY <1>1, <1>2, <1>3, <2>1, ReplicatorAssumption DEF TypeOK, Levels, Places, Outcomes
<1>5. Counts
  BY <1>3, ReplicatorAssumption DEF Counts, Waiting
<1>6. StoppedStays /\ Watched /\ NoFalseIncomplete /\ FailureReported
  BY <1>2, <1>3 DEF StoppedStays, Watched, NoFalseIncomplete, FailureReported
<1> QED
  BY <1>4, <1>5, <1>6 DEF EndsInv

\* A wait complains of missing progress only when a document really got stuck in transfer,
\* and a wait that checks for errors does not return normally over a failure that was
\* there before its last round (wait_until_replicator_idle, stop).
THEOREM WaitEndsTrue == Spec => []EndsTrue
<1>1. Init => EndsInv
  BY EndsInit
<1>2. EndsInv /\ [Next]_vars => EndsInv'
  <2> SUFFICES ASSUME EndsInv, [Next]_vars PROVE EndsInv'
    OBVIOUS
  <2>1. TypeOK' /\ Counts'
    BY TypeStep DEF EndsInv
  <2>2. StoppedStays' /\ Watched' /\ NoFalseIncomplete' /\ FailureReported'
    <3>1. CASE UNCHANGED vars
      BY <3>1 DEF vars, remote, reads, EndsInv, StoppedStays, Watched, NoFalseIncomplete,
             FailureReported, Total, Completed, In
    <3> QED
      BY <3>1, DeviceEnds, TestEnds DEF Next
  <2> QED
    BY <2>1, <2>2 DEF EndsInv
<1>3. EndsInv => EndsTrue
  BY DEF EndsInv, EndsTrue
<1> QED
  BY <1>1, <1>2, <1>3, PTL DEF Spec

-----------------------------------------------------------------------------
(* A wait that takes the replicator for idle is right                      *)

\* A document that was to be replicated when the wait began has not been picked up.
Owed == \E d \in due : doc[d] = "left"

\* The level last read decides the round: idle_count will be restarted, or the wait ends.
Decided ==
    \/ act \in AtWork /\ pc \in {"total", "completed", "loop"}
    \/ act = "stopped" /\ pc \in {"total", "completed"}

\* The polls since work was last seen, with the one that is under way.
Polls == IF pc \in {"counting", "comparing"} THEN idle + 1 ELSE idle

Slack == IF pc \in {"counting", "comparing", "error", "level"} THEN 1 ELSE 0

\* How far idle_count can have come.  While the replicator is idle every poll uses up
\* some of its quiet time.  When it has left that state, at most one more poll believes
\* it idle; and it does not come back to it before a poll has seen it at work.
Patient ==
    \/ Decided
    \/ level = "idle" /\ Polls <= quiet
    \/ level \in AtWork /\ seen /\ pc \in {"error", "level"} /\ Polls = 0
    \/ level # "idle" /\ ~(level \in AtWork /\ seen) /\ Polls <= Quiet + Slack

Patience == pc \in Waiting /\ Owed => Patient

\* What is due has begun its way; completed, read first, is not ahead of what is done.
DueKnown ==
    /\ \A d \in due : doc[d] # "none"
    /\ pc = "comparing" => completed <= Completed
    /\ how = "idle" => pc = "ready"

IdleInv == TypeOK /\ Counts /\ Patience /\ DueKnown /\ IdleMeansDone

\* What is owed after a step was owed before it, unless the wait is only beginning.
LEMMA OwedBefore ==
    ASSUME IdleInv, [Next]_vars, due' = due, Owed'
    PROVE  Owed /\ In("left") # {}
<1>1. PICK d \in due' : doc'[d] = "left"
  BY DEF Owed
<1>2. d \in due /\ d \in Docs /\ doc[d] # "none"
  BY <1>1 DEF IdleInv, DueKnown, TypeOK
<1>3. doc[d] = "left"
  BY <1>1, <1>2, DocsGoForward DEF IdleInv
<1> QED
  BY <1>2, <1>3 DEF Owed, In

\* What the replicator does leaves idle_count within what it may be.
LEMMA DevicePatience ==
    ASSUME IdleInv, Device
    PROVE  Patience'
<1> SUFFICES ASSUME pc' \in Waiting, Owed' PROVE Patient'
  BY DEF Patience
<1>1. UNCHANGED <<pc, act, idle, due>>
  BY DEF Device, reads
<1>2. Patient
  BY <1>1, OwedBefore DEF IdleInv, Patience, Next
<1>3. Decided' = Decided /\ Polls' = Polls /\ Slack' = Slack
  BY <1>1 DEF Decided, Polls, Slack
<1>4. /\ Polls \in Nat /\ Slack \in Nat /\ quiet \in 0..Quiet /\ Quiet \in Nat
  BY ReplicatorAssumption DEF IdleInv, TypeOK, Polls, Slack
<1>5. CASE Write \/ PickUp \/ Transfer
  <2>1. UNCHANGED <<level, quiet, seen>>
    BY <1>5 DEF Write, PickUp, Transfer
  <2> QED
    BY <1>1, <1>2, <1>3, <2>1 DEF Patient
<1>6. CASE GoIdle
  <2>1. level = "busy" /\ seen
    BY <1>6 DEF GoIdle
  <2>2. level' = "idle" /\ quiet' = 0
    BY <1>6, BecomesEffect DEF GoIdle, Levels
  <2>3. Decided \/ Polls = 0
    BY <1>2, <2>1 DEF Patient, AtWork
  <2> QED
    BY <1>3, <2>2, <2>3 DEF Patient
<1>7. CASE \E l \in Levels \ {"idle"} : Becomes(l)
  <2>1. level' # "idle" /\ ~seen'
    BY <1>7, BecomesEffect
  <2>2. Decided \/ Polls <= Quiet + Slack
    BY <1>2, <1>4 DEF Patient
  <2> QED
    BY <1>3, <2>1, <2>2 DEF Patient
<1> QED
  BY <1>5, <1>6, <1>7
     DEF Device, Connect, LoseConnection, Reconnect, Wake, Finish, Fail, ObeyStop, Levels

\* A step of the test that is not the beginning of a wait, in terms of what it does to the
\* variables Patient is about.
LEMMA TestPatience ==
    ASSUME IdleInv, TimePasses \/ Start \/ WaitAgain \/ Stop \/ Waiter
    PROVE  Patience'
<1> SUFFICES ASSUME pc' \in Waiting, Owed' PROVE Patient'
  BY DEF Patience
<1>0. /\ TypeOK /\ idle \in Nat /\ quiet \in 0..Quiet /\ Quiet \in Nat
      /\ seen \in BOOLEAN /\ act \in Levels
  BY ReplicatorAssumption DEF IdleInv, TypeOK
<1>1. CASE WaitRead
  <2>1. pc' = "loop" /\ idle' = 0 /\ act' = level' /\ level' = level /\ quiet' = quiet
    BY <1>0, <1>1, ReadEffect DEF WaitRead
  <2>2. Polls' = 0 /\ Slack' = 0
    BY <2>1 DEF Polls, Slack
  <2>3. CASE level \in AtWork
    BY <2>1, <2>3 DEF Patient, Decided
  <2>4. CASE level \notin AtWork
    BY <1>0, <2>1, <2>2, <2>4 DEF Patient
  <2> QED
    BY <2>3, <2>4
<1>2. CASE ~WaitRead
  <2>1. due' = due
    BY <1>2 DEF TimePasses, Start, WaitAgain, Stop, Waiter, YieldRead, Yield, GiveUp, SawWork,
           CountWork, SawStopped, SawIdle, IdleCompleted, IdleTotal, CompareIdle, CheckError,
           ReadLevel, ReadTotal, ReadCompleted, Judge, StopPoll, StopVerify
  <2>2. Owed /\ In("left") # {}
    BY <2>1, OwedBefore DEF Next
  <2>3. pc \in Waiting => Patient
    BY <2>2 DEF IdleInv, Patience
  <2>4. CASE TimePasses
    <3>1. UNCHANGED <<pc, act, idle, level, quiet, seen>>
      BY <2>4 DEF TimePasses, remote, reads
    <3> QED
      BY <2>3, <3>1 DEF Patient, Decided, Polls, Slack
  <2>5. CASE SawWork \/ SawStopped \/ SawIdle
    <3>1. pc = "loop" /\ UNCHANGED <<level, seen, act>> /\ quiet <= quiet' /\ quiet' \in 0..Quiet
          /\ (level = "idle" => quiet' = quiet + 1)
      BY <1>0, <2>2, <2>5, SleepEffect
         DEF SawWork, CountWork, SawStopped, SawIdle, GoOn, RemoteOK
    <3>2. Patient /\ Polls = idle /\ Slack = 0
      BY <2>3, <3>1 DEF Waiting, Polls, Slack
    <3>3. CASE SawWork
      <4>1. pc' = "error" /\ idle' = 0
        BY <3>3 DEF SawWork, CountWork, GoOn
      <4>2. Polls' = 0 /\ Slack' = 1
        BY <4>1 DEF Polls, Slack
      <4> QED
        BY <1>0, <3>1, <4>1, <4>2 DEF Patient
    <3>4. CASE SawStopped
      <4>1. pc' = "error" /\ idle' = idle /\ act = "stopped"
        BY <3>4 DEF SawStopped, GoOn
      <4>2. Polls' = idle /\ Slack' = 1
        BY <4>1 DEF Polls, Slack
      <4>3. ~Decided
        BY <3>1, <4>1 DEF Decided, AtWork
      <4> QED
        BY <1>0, <3>1, <3>2, <4>1, <4>2, <4>3 DEF Patient
    <3>5. CASE SawIdle
      <4>1. pc' = "counting" /\ idle' = idle /\ act = "idle"
        BY <3>5 DEF SawIdle, GoOn
      <4>2. Polls' = idle + 1 /\ Slack' = 1
        BY <4>1 DEF Polls, Slack
      <4>3. ~Decided
        BY <3>1, <4>1 DEF Decided, AtWork
      <4> QED
        BY <1>0, <3>1, <3>2, <4>1, <4>2, <4>3 DEF Patient
    <3> QED
      BY <2>5, <3>3, <3>4, <3>5
  <2>6. CASE IdleCompleted
    <3>1. /\ pc = "counting" /\ pc' = "comparing"
          /\ UNCHANGED <<act, idle, level, quiet, seen>>
      BY <2>6 DEF IdleCompleted, remote
    <3> QED
      BY <2>3, <3>1 DEF Patient, Decided, Polls, Slack, Waiting
  <2>7. CASE IdleTotal
    <3>1. pc = "comparing" /\ pc' = "error" /\ UNCHANGED <<level, quiet, seen>>
      BY <2>7 DEF IdleTotal, CompareIdle, remote, GoOn, Return, Waiting
    <3>2. idle' = idle \/ idle' = idle + 1
      BY <2>7, <3>1 DEF IdleTotal, CompareIdle, GoOn, Return
    <3>3. /\ Patient /\ ~Decided /\ Polls = idle + 1 /\ Slack = 1
          /\ Polls' = idle' /\ Slack' = 1
      BY <2>3, <3>1 DEF Waiting, Decided, Polls, Slack
    <3> QED
      BY <1>0, <3>1, <3>2, <3>3 DEF Patient
  <2>8. CASE CheckError
    <3>1. pc = "error" /\ pc' = "level" /\ UNCHANGED <<act, idle, level, quiet, seen>>
      BY <2>8 DEF CheckError, remote, GoOn, Return, Waiting
    <3> QED
      BY <2>3, <3>1 DEF Patient, Decided, Polls, Slack, Waiting
  <2>9. CASE ReadLevel
    <3>1. /\ pc = "level" /\ pc' = "total" /\ act' = level /\ level' = level
          /\ UNCHANGED <<idle, quiet>>
      BY <1>0, <2>9, ReadEffect DEF ReadLevel
    <3>2. CASE level = "idle"
      BY <2>3, <3>1, <3>2 DEF Patient, Decided, Polls, Waiting, AtWork
    <3>3. CASE level # "idle"
      BY <1>0, <3>1, <3>3 DEF Patient, Decided, Levels, AtWork, TypeOK
    <3> QED
      BY <3>2, <3>3
  <2>10. CASE ReadTotal
    <3>1. pc = "total" /\ pc' = "completed" /\ UNCHANGED <<act, idle, level, quiet, seen>>
      BY <2>10 DEF ReadTotal, remote
    <3> QED
      BY <2>3, <3>1 DEF Patient, Decided, Polls, Slack, Waiting
  <2>11. CASE ReadCompleted
    <3>1. /\ pc = "completed" /\ pc' = "loop" /\ act # "stopped"
          /\ UNCHANGED <<act, idle, level, quiet, seen>>
      BY <2>11 DEF ReadCompleted, Judge, remote, GoOn, Return, Waiting
    <3> QED
      BY <2>3, <3>1 DEF Patient, Decided, Polls, Slack, Waiting
  <2>12. ~(Start \/ WaitAgain \/ Stop \/ YieldRead \/ Yield \/ GiveUp \/ StopPoll \/ StopVerify)
    BY DEF Start, WaitAgain, Stop, YieldRead, Yield, GiveUp, StopPoll, StopVerify, Return, GoOn,
           Waiting
  <2> QED
    BY <1>2, <2>4, <2>5, <2>6, <2>7, <2>8, <2>9, <2>10, <2>11, <2>12 DEF Waiter
<1> QED
  BY <1>1, <1>2

\* Completed at its comparison, and the due documents, in every step.
LEMMA DueStep ==
    ASSUME IdleInv, [Next]_vars
    PROVE  DueKnown' /\ IdleMeansDone'
<1>0. /\ TypeOK /\ Completed \in Nat /\ Completed' \in Nat /\ Completed <= Completed'
      /\ completed \in Nat /\ Total \in Nat /\ idle \in Nat
      /\ \A d \in Docs : doc[d] # "none" => doc'[d] # "none"
      /\ \A d \in Docs : doc[d] = "done" => doc'[d] = "done"
  <2>1. TypeOK /\ TypeOK'
    BY TypeStep DEF IdleInv
  <2>2. Completed \in Nat /\ Total \in Nat
    BY <2>1, Progress
  <2>3. Completed <= Completed' /\ Completed' \in Nat
    BY <2>1, DocsGoForward, CompletedGrows
  <2>4. completed \in Nat /\ idle \in Nat
    BY <2>1 DEF TypeOK
  <2> QED
    BY <2>1, <2>2, <2>3, <2>4, DocsGoForward
<1>1. CASE WaitRead
  <2>1. /\ due' = In("left") \union In("moving") /\ UNCHANGED doc /\ how' = how /\ pc = "read"
        /\ pc' = "loop"
    BY <1>0, <1>1, ReadEffect DEF WaitRead
  <2> QED
    BY <2>1 DEF DueKnown, IdleMeansDone, IdleInv, In
<1>2. CASE IdleTotal
  <2>1. pc = "comparing" /\ UNCHANGED <<due, doc>>
    BY <1>2 DEF IdleTotal, CompareIdle, remote
  <2>2. CASE completed >= Total /\ idle + 1 > MaxIdle
    <3>1. completed <= Completed
      BY <2>1 DEF IdleInv, DueKnown
    <3>2. In("moving") = {}
      <4>1. Completed >= Total
        BY <1>0, <2>2, <3>1
      <4> QED
        BY <1>0, <4>1, Progress
    <3>3. ~Owed
      <4>1. SUFFICES ASSUME Owed PROVE FALSE
        OBVIOUS
      <4>2. Patient /\ ~Decided /\ Polls = idle + 1 /\ Slack = 1
        BY <2>1, <4>1 DEF IdleInv, Patience, Waiting, Decided, Polls, Slack
      <4>3. idle + 1 <= Quiet + 1
        BY <1>0, <2>1, <4>2, ReplicatorAssumption DEF Patient, TypeOK
      <4> QED
        BY <1>0, <2>2, <4>3, ReplicatorAssumption
    <3>4. \A d \in due : doc[d] = "done"
      <4>1. SUFFICES ASSUME NEW d \in due PROVE doc[d] = "done"
        OBVIOUS
      <4>2. d \in Docs /\ doc[d] # "none" /\ doc[d] # "left" /\ doc[d] # "moving"
        BY <3>2, <3>3, <4>1 DEF IdleInv, DueKnown, TypeOK, Owed, In
      <4> QED
        BY <1>0, <4>2 DEF TypeOK
    <3>5. pc' = "ready"
      BY <1>0, <1>2, <2>1, <2>2, ReplicatorAssumption
         DEF IdleTotal, CompareIdle, Return
    <3> QED
      BY <2>1, <3>4, <3>5 DEF DueKnown, IdleMeansDone
  <2>3. CASE ~(completed >= Total /\ idle + 1 > MaxIdle)
    <3>1. pc' = "error" /\ how' = how
      BY <1>2, <2>3 DEF IdleTotal, CompareIdle, GoOn
    <3> QED
      BY <2>1, <3>1 DEF DueKnown, IdleMeansDone, IdleInv
  <2> QED
    BY <2>2, <2>3
<1>3. CASE ~WaitRead /\ ~IdleTotal
  <2>1. due' = due
    BY <1>3 DEF Next, Device, vars, TimePasses, Start, WaitAgain, Stop, Waiter, YieldRead, Yield,
           GiveUp, SawWork, CountWork, SawStopped, SawIdle, IdleCompleted, CheckError,
           ReadLevel, ReadTotal, ReadCompleted, Judge, StopPoll, StopVerify
  <2>2. how' = "idle" => how = "idle" /\ pc' = "ready"
    <3>1. how = "idle" => pc = "ready"
      BY DEF IdleInv, DueKnown
    <3> QED
      BY <1>3, <3>1 DEF Next, Device, vars, TimePasses, Start, WaitAgain, Stop, Waiter, YieldRead,
           Yield, GiveUp, SawWork, CountWork, SawStopped, SawIdle, IdleCompleted, CheckError,
           ReadLevel, ReadTotal, ReadCompleted, Judge, StopPoll, StopVerify, Return, GoOn
  <2>3. pc' = "comparing" => completed' = Completed \/ (pc = "comparing" /\ completed' = completed)
    BY <1>3 DEF Next, Device, vars, reads, TimePasses, Start, WaitAgain, Stop, Waiter, YieldRead,
         Yield, GiveUp, SawWork, CountWork, SawStopped, SawIdle, IdleCompleted, CheckError,
         ReadLevel, ReadTotal, ReadCompleted, Judge, StopPoll, StopVerify, Return, GoOn
  <2>4. due \subseteq Docs
    BY <1>0 DEF TypeOK
  <2>5. pc' = "comparing" => completed' <= Completed'
    BY <1>0, <2>3 DEF IdleInv, DueKnown
  <2> QED
    BY <1>0, <2>1, <2>2, <2>4, <2>5 DEF DueKnown, IdleMeansDone, IdleInv
<1> QED
  BY <1>1, <1>2, <1>3

\* wait_until_replicator_idle returns because the replicator is idle only when every
\* document that was to be replicated at the time of the call has been: the polls read
\* level, completed and total at different times, and the replicator may rest meanwhile.
THEOREM IdleWaitMeansDone == Spec => []IdleMeansDone
<1>1. Init => IdleInv
  <2>1. Init => EndsInv
    BY EndsInit
  <2>2. Init => Patience /\ DueKnown /\ IdleMeansDone
    BY DEF Init, Patience, DueKnown, IdleMeansDone, Waiting
  <2> QED
    BY <2>1, <2>2 DEF EndsInv, IdleInv
<1>2. IdleInv /\ [Next]_vars => IdleInv'
  <2> SUFFICES ASSUME IdleInv, [Next]_vars PROVE IdleInv'
    OBVIOUS
  <2>1. TypeOK' /\ Counts'
    BY TypeStep DEF IdleInv
  <2>2. Patience'
    <3>1. CASE UNCHANGED vars
      BY <3>1 DEF vars, remote, reads, IdleInv, Patience, Patient, Decided, Polls, Slack, Owed
    <3> QED
      BY <3>1, DevicePatience, TestPatience DEF Next
  <2> QED
    BY <2>1, <2>2, DueStep DEF IdleInv
<1>3. IdleInv => IdleMeansDone
  BY DEF IdleInv
<1> QED
  BY <1>1, <1>2, <1>3, PTL DEF Spec

-----------------------------------------------------------------------------
(* Type correctness                                                        *)

Phases == {"post", "find", "wait", "poll", "ok", "raised"}

Calls == [kind : Kinds \cup {"none"}, node : Nodes, phase : Phases, tries : 0..MaxTries,
          fit : BOOLEAN, calm : BOOLEAN, sure : BOOLEAN, broken : BOOLEAN]

\* A call that has not ended its requests has a request left.
OpOK ==
    /\ op \in Calls
    /\ op.phase = "post" => op.tries < MaxTries

NodesOK ==
    /\ memb \in [Nodes -> Member] /\ up \in [Nodes -> Process]
    /\ task \in {"none", "idle", "running"} /\ leave \subseteq Nodes
    /\ ops \in 0..MaxOps /\ faults \in 0..MaxFaults

\* A request for a rebalance starts one or leaves the cluster as it is.
LEMMA PostEffect ==
    ASSUME NodesOK, NEW eject \in SUBSET Nodes, NEW reply, PostRebalance(eject, reply)
    PROVE  /\ faults' \in 0..MaxFaults
           /\ \/ CanRebalance /\ task' = "running" /\ leave' = eject \cup Failed
              \/ UNCHANGED <<task, leave>>
           /\ reply = "200" => CanRebalance /\ task' = "running" /\ leave' = eject \cup Failed
           /\ CanRebalance /\ faults' = faults => reply = "200"
BY ServerAssumption DEF PostRebalance, Fault, NodesOK, Failed

\* What is left of a call when its phase changes, its requests are counted, and a fault
\* has disturbed it or not.
Kept(c) ==
    /\ OpOK'
    /\ op'.kind = op.kind /\ op'.node = op.node /\ op'.broken = op.broken
    /\ op'.fit = op.fit /\ op'.calm = c

\* A step that only changes the phase.
LEMMA PhaseMove ==
    ASSUME OpOK, NEW p \in Phases \ {"post"}, Goto(p)
    PROVE  Kept(op.calm) /\ op'.phase = p /\ op'.sure = op.sure
BY DEF OpOK, Calls, Phases, Goto, Kept

\* A step that a fault or the time limit disturbs.
LEMMA FaultMove ==
    ASSUME OpOK, NEW p \in Phases \ {"post"}, op' = [op EXCEPT !.phase = p, !.calm = FALSE]
    PROVE  Kept(FALSE) /\ op'.phase = p /\ op'.sure = op.sure
BY DEF OpOK, Calls, Phases, Goto, Kept

\* A request is counted and the phase changes.
LEMMA TryMove ==
    ASSUME OpOK, NEW p \in Phases, NEW t \in 0..MaxTries, NEW c \in BOOLEAN,
           op' = [op EXCEPT !.phase = p, !.tries = t, !.calm = c],
           p = "post" => t < MaxTries
    PROVE  Kept(c) /\ op'.phase = p /\ op'.sure = op.sure
BY DEF OpOK, Calls, Phases, Goto, Kept

\* A request of rebalance_in, which also notes whether it was accepted.
LEMMA SureMove ==
    ASSUME OpOK, NEW p \in Phases, NEW t \in 0..MaxTries, NEW c \in BOOLEAN, NEW s \in BOOLEAN,
           op' = [op EXCEPT !.phase = p, !.tries = t, !.calm = c, !.sure = s],
           p = "post" => t < MaxTries
    PROVE  Kept(c) /\ op'.phase = p /\ op'.sure = s
BY DEF OpOK, Calls, Phases, Goto, Kept

-----------------------------------------------------------------------------
(* The inductive invariant                                                 *)

\* The node of the call is a member, with a process that nobody is stopping; or the
\* rebalance that makes it one is running.
Joined ==
    memb[op.node] = "active" /\ up[op.node] = "up" /\ op.node \notin leave

Joining ==
    /\ task = "running" /\ op.node \notin leave
    /\ memb[op.node] \in {"added", "recover", "active"}

\* A rebalance_in whose request was accepted is followed by its rebalance, to the end.
InKept ==
    op.kind = "in" /\ op.sure =>
      /\ op.phase \in {"post", "find", "wait"} => op.broken \/ Joined \/ Joining
      /\ op.phase = "ok" => task # "running" /\ (op.broken \/ Joined)

\* The node of the call has been ejected; or the rebalance that ejects it is running.
Gone == memb[op.node] \in {"leaving", "out"}

Leaving == task = "running" /\ op.node \in leave

OutKept ==
    op.kind = "out" =>
      /\ op.phase \in {"find", "wait"} => op.broken \/ Gone \/ Leaving
      /\ op.phase = "ok" => op.broken \/ Gone

\* The next request for a rebalance will be accepted, and nothing stands in its way.
Ready == CanRebalance /\ AllUp

Whole == leave = {} /\ \A n \in Nodes : up[n] = "up"

\* What is true of the cluster during a call that was made as the tests make it and has
\* not been disturbed.
FitIn ==
    /\ op.phase = "post" => Ready /\ memb[op.node] \in {"added", "recover"}
    /\ op.phase \in {"find", "wait"} => Joined \/ Joining
    /\ op.phase = "ok" => Joined

FitOut ==
    /\ op.phase = "post" => Ready
    /\ op.phase \in {"find", "wait"} => Gone \/ Leaving
    /\ op.phase = "ok" => Gone

FitServer ==
    /\ op.phase = "post" => Ready /\ Failed = {}
    /\ op.phase \in {"find", "wait"} =>
         /\ Whole
         /\ \/ \A n \in Nodes : memb[n] = "active"
            \/ task = "running" /\ \A n \in Nodes : memb[n] \in {"active", "added", "recover"}
    /\ op.phase = "ok" => Whole /\ \A n \in Nodes : memb[n] = "active"

FitNode ==
    /\ op.kind = "add" => task # "running" /\ (op.phase = "ok" => memb[op.node] = "added")
    /\ op.kind = "recover" =>
         /\ task # "running"
         /\ op.phase = "post" => memb[op.node] = "failed" /\ Answers
         /\ op.phase = "ok" => memb[op.node] = "recover"
    /\ op.kind = "start" /\ op.phase = "ok" => up[op.node] = "up"
    /\ op.kind = "startCustom" /\ op.phase = "ok" => up[op.node] \in {"booting", "up"}
    /\ op.kind = "stop" /\ op.phase = "ok" => up[op.node] = "down"
    /\ op.kind \in {"upgrade", "upgradeAll", "none"} =>
         task # "running" /\ (op.phase = "ok" => AllUp)

FitKept ==
    op.fit /\ op.calm =>
      /\ op.phase # "raised"
      /\ op.kind = "in" => FitIn
      /\ op.kind = "out" => FitOut
      /\ op.kind = "server" => FitServer
      /\ FitNode

\* Only a rebalance is waited for among the tasks, and only a process is polled for.
PhaseFits ==
    /\ op.phase \in {"find", "wait"} => op.kind \in {"in", "out", "server"}
    /\ op.phase = "poll" => op.kind \in {"start", "stop", "upgrade", "upgradeAll"}

ServerInv == NodesOK /\ OpOK /\ PhaseFits /\ InKept /\ OutKept /\ FitKept

\* The POSTs of rebalance_in, repeated or not.
LEMMA InStep ==
    ASSUME ServerInv, RebalanceIn
    PROVE  ServerInv'
<1>0. NodesOK /\ OpOK /\ InKept /\ FitKept /\ op.kind = "in" /\ op.phase = "post"
      /\ UNCHANGED <<memb, up, ops>>
  BY DEF ServerInv, RebalanceIn
<1>1. op.node \in Nodes /\ op.tries \in 0..MaxTries /\ op.tries < MaxTries /\ MaxTries \in Nat
  BY <1>0, ServerAssumption DEF OpOK, Calls
<1>2. PICK reply \in {"200", "refused", "lost"} :
         /\ PostRebalance({}, reply)
         /\ op' = [op EXCEPT
              !.phase = IF reply = "200" \/ op.tries + 1 = MaxTries THEN "find" ELSE "post",
              !.tries = @ + 1,
              !.calm = @ /\ faults' = faults,
              !.sure = Sure]
  BY DEF RebalanceIn
<1>3. /\ faults' \in 0..MaxFaults
      /\ \/ CanRebalance /\ task' = "running" /\ leave' = Failed
         \/ UNCHANGED <<task, leave>>
      /\ reply = "200" => CanRebalance /\ task' = "running" /\ leave' = Failed
      /\ CanRebalance /\ faults' = faults => reply = "200"
  BY <1>0, <1>2, PostEffect
<1> DEFINE p == IF reply = "200" \/ op.tries + 1 = MaxTries THEN "find" ELSE "post"
           c == op.calm /\ faults' = faults
           s == Sure
<1>4. c \in BOOLEAN /\ s \in BOOLEAN /\ p \in {"find", "post"}
  BY DEF Sure
<1>5. op' = [op EXCEPT !.phase = p, !.tries = op.tries + 1, !.calm = c, !.sure = s]
  BY <1>2
<1>6. p = "post" => op.tries + 1 < MaxTries
  BY <1>1
<1>7. op.tries + 1 \in 0..MaxTries
  BY <1>1
<1>8. (c => op.calm /\ faults' = faults) /\ (reply = "200" => p = "find")
  OBVIOUS
<1>9. s <=> op.sure \/ (task # "running" /\ task' = "running"
                      /\ memb[op.node] \in {"added", "recover", "active"})
  BY DEF Sure
<1> HIDE DEF p, c, s
<1>10. Kept(c) /\ op'.phase = p /\ op'.sure = s
  BY <1>0, <1>4, <1>5, <1>6, <1>7, SureMove DEF Phases
<1>11. /\ OpOK' /\ op'.kind = "in" /\ op'.node = op.node /\ op'.broken = op.broken
       /\ (op'.fit <=> op.fit) /\ (op'.calm <=> c)
  BY <1>0, <1>10 DEF Kept
<1>12. NodesOK'
  BY <1>0, <1>3 DEF NodesOK, Failed
<1>13. memb[op.node] \in {"added", "recover", "active"} => op.node \notin Failed
  BY DEF Failed
<1>14. InKept'
  <2> SUFFICES ASSUME op'.sure PROVE op.broken \/ Joined' \/ Joining'
    BY <1>4, <1>10, <1>11 DEF InKept
  <2>1. CASE op.sure
    <3>1. op.broken \/ Joined \/ Joining
      BY <1>0, <2>1 DEF InKept
    <3> QED
      BY <1>0, <1>3, <1>11, <1>13, <3>1 DEF Joined, Joining, CanRebalance
  <2>2. CASE ~op.sure
    <3>1. task # "running" /\ task' = "running" /\ memb[op.node] \in {"added", "recover", "active"}
      BY <1>9, <1>10, <2>2
    <3> QED
      BY <1>0, <1>3, <1>11, <1>13, <3>1 DEF Joining
  <2> QED
    BY <2>1, <2>2
<1>15. FitKept'
  <2> SUFFICES ASSUME op'.fit, op'.calm PROVE op'.phase = "find" /\ Joining'
    BY <1>11 DEF FitKept, FitIn, FitNode
  <2>1. CanRebalance /\ memb[op.node] \in {"added", "recover"} /\ faults' = faults
    BY <1>0, <1>8, <1>11 DEF FitKept, FitIn, Ready
  <2> QED
    BY <1>0, <1>3, <1>8, <1>10, <1>11, <1>13, <2>1 DEF Joining
<1> QED
  BY <1>4, <1>10, <1>11, <1>12, <1>14, <1>15 DEF ServerInv, OutKept, PhaseFits

\* The POSTs of rebalance_out.
LEMMA OutStep ==
    ASSUME ServerInv, RebalanceOut
    PROVE  ServerInv'
<1>0. NodesOK /\ OpOK /\ FitKept /\ op.kind = "out" /\ op.phase = "post"
      /\ UNCHANGED <<memb, up, ops>>
  BY DEF ServerInv, RebalanceOut
<1>1. op.node \in Nodes /\ op.tries \in 0..MaxTries /\ op.tries < MaxTries /\ MaxTries \in Nat
  BY <1>0, ServerAssumption DEF OpOK, Calls
<1>2. PICK reply \in {"200", "refused", "lost"} :
         /\ PostRebalance({op.node}, reply)
         /\ op' = [op EXCEPT
              !.phase = IF reply = "200" THEN "find"
                        ELSE IF reply = "lost" \/ op.tries + 1 = MaxTries THEN "raised"
                        ELSE "post",
              !.tries = @ + 1,
              !.calm = @ /\ faults' = faults]
  BY DEF RebalanceOut
<1>3. /\ faults' \in 0..MaxFaults
      /\ \/ CanRebalance /\ task' = "running" /\ leave' = {op.node} \cup Failed
         \/ UNCHANGED <<task, leave>>
      /\ reply = "200" => CanRebalance /\ task' = "running" /\ leave' = {op.node} \cup Failed
      /\ CanRebalance /\ faults' = faults => reply = "200"
  BY <1>0, <1>1, <1>2, PostEffect
<1> DEFINE p == IF reply = "200" THEN "find"
                ELSE IF reply = "lost" \/ op.tries + 1 = MaxTries THEN "raised"
                ELSE "post"
           c == op.calm /\ faults' = faults
<1>4. /\ c \in BOOLEAN /\ p \in {"find", "raised", "post"}
      /\ reply = "200" <=> p = "find"
      /\ p = "post" => op.tries + 1 < MaxTries
  <2>1. c \in BOOLEAN
    OBVIOUS
  <2>2. reply = "200" => p = "find"
    OBVIOUS
  <2>3. reply # "200" /\ (reply = "lost" \/ op.tries + 1 = MaxTries) => p = "raised"
    OBVIOUS
  <2>4. reply # "200" /\ ~(reply = "lost" \/ op.tries + 1 = MaxTries) => p = "post"
    OBVIOUS
  <2> HIDE DEF p, c
  <2> QED
    BY <1>1, <2>1, <2>2, <2>3, <2>4
<1>5. op' = [op EXCEPT !.phase = p, !.tries = op.tries + 1, !.calm = c]
  BY <1>2
<1>7. op.tries + 1 \in 0..MaxTries
  BY <1>1
<1>8. c => op.calm /\ faults' = faults
  OBVIOUS
<1> HIDE DEF p, c
<1>10. Kept(c) /\ op'.phase = p
  BY <1>0, <1>4, <1>5, <1>7, TryMove DEF Phases
<1>11. /\ OpOK' /\ op'.kind = "out" /\ op'.node = op.node
       /\ (op'.fit <=> op.fit) /\ (op'.calm <=> c)
  BY <1>0, <1>10 DEF Kept
<1>12. NodesOK'
  BY <1>0, <1>1, <1>3 DEF NodesOK, Failed
<1>13. op'.phase = "find" => Leaving'
  BY <1>3, <1>4, <1>10, <1>11 DEF Leaving
<1>14. OutKept'
  BY <1>4, <1>10, <1>11, <1>13 DEF OutKept
<1>15. FitKept'
  <2> SUFFICES ASSUME op'.fit, op'.calm PROVE op'.phase = "find"
    BY <1>11, <1>13 DEF FitKept, FitOut, FitNode
  <2>1. CanRebalance /\ faults' = faults
    BY <1>0, <1>8, <1>11 DEF FitKept, FitOut, Ready
  <2> QED
    BY <1>3, <1>4, <1>10, <2>1
<1> QED
  BY <1>4, <1>10, <1>11, <1>12, <1>14, <1>15 DEF ServerInv, InKept, PhaseFits

\* rebalance_server: one POST.
LEMMA ServerStep ==
    ASSUME ServerInv, RebalanceServer
    PROVE  ServerInv'
<1>0. NodesOK /\ OpOK /\ FitKept /\ op.kind = "server" /\ op.phase = "post"
      /\ UNCHANGED <<memb, up, ops>>
  BY DEF ServerInv, RebalanceServer
<1>1. op.node \in Nodes /\ op.tries \in 0..MaxTries /\ op.calm \in BOOLEAN
  BY <1>0, ServerAssumption DEF OpOK, Calls
<1>2. PICK reply \in {"200", "refused", "lost"} :
         /\ PostRebalance({}, reply)
         /\ op' = [op EXCEPT !.phase = IF reply = "200" THEN "find" ELSE "raised",
                             !.calm = @ /\ faults' = faults]
  BY DEF RebalanceServer
<1>3. /\ faults' \in 0..MaxFaults
      /\ \/ CanRebalance /\ task' = "running" /\ leave' = Failed
         \/ UNCHANGED <<task, leave>>
      /\ reply = "200" => CanRebalance /\ task' = "running" /\ leave' = Failed
      /\ CanRebalance /\ faults' = faults => reply = "200"
  BY <1>0, <1>2, PostEffect
<1> DEFINE p == IF reply = "200" THEN "find" ELSE "raised"
           c == op.calm /\ faults' = faults
<1>4. c \in BOOLEAN /\ p \in {"find", "raised"} /\ (reply = "200" <=> p = "find")
  OBVIOUS
<1>5. op' = [op EXCEPT !.phase = p, !.calm = c]
  BY <1>2
<1>8. c => op.calm /\ faults' = faults
  OBVIOUS
<1> HIDE DEF p, c
<1>10. Kept(c) /\ op'.phase = p
  BY <1>0, <1>4, <1>5 DEF OpOK, Calls, Kept, Phases
<1>11. /\ OpOK' /\ op'.kind = "server" /\ op'.node = op.node
       /\ (op'.fit <=> op.fit) /\ (op'.calm <=> c)
  BY <1>0, <1>10 DEF Kept
<1>12. NodesOK'
  BY <1>0, <1>3 DEF NodesOK, Failed
<1>15. FitKept'
  <2> SUFFICES ASSUME op'.fit, op'.calm
               PROVE  /\ op'.phase = "find" /\ Whole' /\ task' = "running"
                      /\ \A n \in Nodes : memb'[n] \in {"active", "added", "recover"}
    BY <1>11 DEF FitKept, FitServer, FitNode
  <2>1. Ready /\ Failed = {} /\ faults' = faults
    BY <1>0, <1>8, <1>11 DEF FitKept, FitServer
  <2>2. /\ op'.phase = "find" /\ task' = "running" /\ leave' = {}
    BY <1>3, <1>4, <1>10, <2>1 DEF Ready
  <2>3. \A n \in Nodes : up[n] = "up" /\ memb[n] \in {"active", "added", "recover"}
    BY <1>0, <2>1 DEF Ready, CanRebalance, AllUp, Listed, Failed, NodesOK, Member
  <2> QED
    BY <1>0, <2>2, <2>3 DEF Whole
<1> QED
  BY <1>4, <1>10, <1>11, <1>12, <1>15 DEF ServerInv, InKept, OutKept, PhaseFits

\* A call that is disturbed and ends with an exception claims nothing.
LEMMA Raised ==
    ASSUME ServerInv, NodesOK', op' = [op EXCEPT !.phase = "raised", !.calm = FALSE]
    PROVE  ServerInv'
<1>1. Kept(FALSE) /\ op'.phase = "raised"
  BY FaultMove DEF ServerInv, Phases
<1>2. OpOK' /\ ~op'.calm
  BY <1>1 DEF Kept
<1> QED
  BY <1>1, <1>2 DEF ServerInv, InKept, OutKept, FitKept, PhaseFits

\* A fault is counted.
LEMMA FaultCounted ==
    ASSUME NodesOK, Fault
    PROVE  faults' \in 0..MaxFaults
BY ServerAssumption DEF NodesOK, Fault

\* _wait_for_rebalance_complete
LEMMA WaitStep ==
    ASSUME ServerInv, WaitForRebalance
    PROVE  ServerInv'
<1>0. NodesOK /\ OpOK /\ InKept /\ OutKept /\ FitKept /\ UNCHANGED <<memb, up, task, leave, ops>>
  BY DEF ServerInv, WaitForRebalance, GetTasks
<1>1. CASE op' = [op EXCEPT !.phase = "raised", !.calm = FALSE]
  <2>1. NodesOK'
    BY <1>0, FaultCounted DEF NodesOK, WaitForRebalance, GetTasks
  <2> QED
    BY <1>1, <2>1, Raised
<1>2. CASE ~(op' = [op EXCEPT !.phase = "raised", !.calm = FALSE])
  <2>1. PICK p \in {"wait", "ok"} :
           /\ Goto(p) /\ UNCHANGED faults
           /\ op.phase \in {"find", "wait"}
           /\ p = "ok" => task # "running"
    BY <1>2 DEF WaitForRebalance, GetTasks
  <2>2. /\ OpOK' /\ op'.kind = op.kind /\ op'.node = op.node /\ op'.phase = p
        /\ (op'.fit <=> op.fit) /\ (op'.calm <=> op.calm)
        /\ (op'.sure <=> op.sure) /\ (op'.broken <=> op.broken)
    BY <1>0, <2>1, PhaseMove DEF Kept, Phases
  <2>3. NodesOK'
    BY <1>0, <2>1 DEF NodesOK
  <2>4. /\ Joined' <=> Joined
        /\ Joining' <=> Joining
        /\ Gone' <=> Gone
        /\ Leaving' <=> Leaving
    BY <1>0, <2>2 DEF Joined, Joining, Gone, Leaving
  <2>5. Whole' <=> Whole
    BY <1>0 DEF Whole
  <2>9. op.kind \in {"in", "out", "server"}
    BY <2>1 DEF ServerInv, PhaseFits
  <2>6. InKept'
    BY <1>0, <2>1, <2>2, <2>4 DEF InKept, Joining
  <2>7. OutKept'
    BY <1>0, <2>1, <2>2, <2>4 DEF OutKept, Leaving
  <2>8. FitKept'
    <3> SUFFICES ASSUME op'.fit, op'.calm
                 PROVE  /\ op'.kind = "in" => FitIn'
                        /\ op'.kind = "out" => FitOut'
                        /\ op'.kind = "server" => FitServer'
                        /\ FitNode'
      BY <2>1, <2>2 DEF FitKept
    <3>1. /\ op.kind = "in" => FitIn
          /\ op.kind = "out" => FitOut
          /\ op.kind = "server" => FitServer
          /\ FitNode
      BY <1>0, <2>2 DEF FitKept
    <3>2. op'.kind = "in" => FitIn'
      BY <2>1, <2>2, <2>4, <3>1 DEF FitIn, Joining
    <3>3. op'.kind = "out" => FitOut'
      BY <2>1, <2>2, <2>4, <3>1 DEF FitOut, Leaving
    <3>4. op'.kind = "server" => FitServer'
      BY <1>0, <2>1, <2>2, <2>5, <3>1 DEF FitServer
    <3>5. FitNode'
      BY <2>1, <2>2, <2>9 DEF FitNode
    <3> QED
      BY <3>2, <3>3, <3>4, <3>5
  <2> QED
    BY <2>1, <2>2, <2>3, <2>6, <2>7, <2>8, <2>9 DEF ServerInv, PhaseFits
<1> QED
  BY <1>1, <1>2

\* add_node
LEMMA AddStep ==
    ASSUME ServerInv, AddNode
    PROVE  ServerInv'
<1>0. /\ NodesOK /\ OpOK /\ FitKept /\ op.kind = "add" /\ op.phase = "post"
      /\ UNCHANGED <<up, task, leave, ops>> /\ op.node \in Nodes
  BY DEF ServerInv, AddNode, OpOK, Calls
<1>1. memb' \in [Nodes -> Member]
  BY <1>0 DEF AddNode, NodesOK, Member
<1>2. CASE op' = [op EXCEPT !.phase = "raised", !.calm = FALSE]
  <2>1. NodesOK'
    BY <1>0, <1>1, FaultCounted DEF NodesOK, AddNode
  <2> QED
    BY <1>2, <2>1, Raised
<1>3. CASE ~(op' = [op EXCEPT !.phase = "raised", !.calm = FALSE])
  <2>1. /\ memb' = [memb EXCEPT ![op.node] = "added"]
        /\ Goto("ok") /\ UNCHANGED faults
    BY <1>3 DEF AddNode
  <2>2. /\ OpOK' /\ op'.kind = "add" /\ op'.node = op.node /\ op'.phase = "ok"
        /\ (op'.fit <=> op.fit) /\ (op'.calm <=> op.calm)
    BY <1>0, <2>1, PhaseMove DEF Kept, Phases
  <2>3. memb'[op.node] = "added"
    BY <1>0, <2>1 DEF NodesOK
  <2>4. FitKept'
    BY <1>0, <2>2, <2>3 DEF FitKept, FitNode
  <2>5. NodesOK'
    BY <1>0, <1>1, <2>1 DEF NodesOK
  <2> QED
    BY <2>2, <2>4, <2>5 DEF ServerInv, InKept, OutKept, PhaseFits
<1> QED
  BY <1>2, <1>3

\* recover, repeated or not.
LEMMA RecoverStep ==
    ASSUME ServerInv, Recover
    PROVE  ServerInv'
<1>0. /\ NodesOK /\ OpOK /\ FitKept /\ op.kind = "recover" /\ op.phase = "post"
      /\ UNCHANGED <<up, task, leave, ops>> /\ op.node \in Nodes
      /\ op.tries \in 0..MaxTries /\ op.tries < MaxTries /\ MaxTries \in Nat
  BY ServerAssumption DEF ServerInv, Recover, OpOK, Calls
<1>1. memb' \in [Nodes -> Member]
  BY <1>0 DEF Recover, NodesOK, Member
<1>2. CASE op' = [op EXCEPT !.phase = "raised", !.calm = FALSE]
  <2>1. NodesOK'
    BY <1>0, <1>1, FaultCounted DEF NodesOK, Recover
  <2> QED
    BY <1>2, <2>1, Raised
<1>3. CASE memb' = [memb EXCEPT ![op.node] = "recover"] /\ Goto("ok") /\ UNCHANGED faults
  <2>2. /\ OpOK' /\ op'.kind = "recover" /\ op'.node = op.node /\ op'.phase = "ok"
        /\ (op'.fit <=> op.fit) /\ (op'.calm <=> op.calm)
    BY <1>0, <1>3, PhaseMove DEF Kept, Phases
  <2>3. memb'[op.node] = "recover"
    BY <1>0, <1>3 DEF NodesOK
  <2>4. FitKept'
    BY <1>0, <2>2, <2>3 DEF FitKept, FitNode
  <2>5. NodesOK'
    BY <1>0, <1>1, <1>3 DEF NodesOK
  <2> QED
    BY <2>2, <2>4, <2>5 DEF ServerInv, InKept, OutKept, PhaseFits
<1>4. CASE /\ (memb[op.node] \notin {"failed", "recover"} /\ UNCHANGED faults) \/ Fault
           /\ op' = [op EXCEPT !.tries = @ + 1, !.calm = @ /\ faults' = faults,
                     !.phase = IF op.tries + 1 = MaxTries THEN "raised" ELSE "post"]
           /\ UNCHANGED memb
  <2> DEFINE p == IF op.tries + 1 = MaxTries THEN "raised" ELSE "post"
             c == op.calm /\ faults' = faults
  <2>1. /\ c \in BOOLEAN /\ p \in {"post", "raised"} /\ (c => op.calm /\ faults' = faults)
        /\ p = "post" => op.tries + 1 < MaxTries
    BY <1>0
  <2>2. op' = [op EXCEPT !.tries = op.tries + 1, !.calm = c, !.phase = p]
    BY <1>4
  <2>3. op.tries + 1 \in 0..MaxTries
    BY <1>0
  <2>4. faults' \in 0..MaxFaults
    BY <1>0, <1>4, FaultCounted DEF NodesOK
  <2>5. op.fit /\ op.calm => faults' # faults
    <3>1. SUFFICES ASSUME op.fit, op.calm PROVE Fault
      BY <1>0 DEF Fault, NodesOK
    <3>2. memb[op.node] = "failed"
      BY <1>0, <3>1 DEF FitKept, FitNode
    <3> QED
      BY <1>4, <3>2
  <2> HIDE DEF p, c
  <2>6. /\ OpOK' /\ op'.kind = "recover" /\ op'.phase = p
        /\ (op'.fit <=> op.fit) /\ (op'.calm <=> c)
    BY <1>0, <2>1, <2>2, <2>3 DEF OpOK, Calls, Phases
  <2>7. ~(op'.fit /\ op'.calm)
    BY <2>1, <2>5, <2>6
  <2>8. NodesOK'
    BY <1>0, <1>4, <2>4 DEF NodesOK
  <2> QED
    BY <2>1, <2>6, <2>7, <2>8 DEF ServerInv, InKept, OutKept, FitKept, PhaseFits
<1> QED
  BY <1>2, <1>3, <1>4 DEF Recover

\* The commands of start, stop and upgrade_server, and the polls that follow them.
LEMMA CommandStep ==
    ASSUME ServerInv, Command \/ WaitForReadyState \/ VerifyStopped
    PROVE  ServerInv'
<1>0. /\ NodesOK /\ OpOK /\ FitKept
      /\ op.kind \in {"start", "startCustom", "stop", "upgrade", "upgradeAll"}
      /\ UNCHANGED <<memb, task, leave, ops>> /\ op.node \in Nodes
  BY DEF ServerInv, Command, WaitForReadyState, VerifyStopped, OpOK, Calls
<1>1. up' \in [Nodes -> Process]
  <2>1. CASE up' = up
    BY <1>0, <2>1 DEF NodesOK
  <2>2. CASE Command
    <3>1. \A n \in Nodes : up[n] \in Process /\ Commanded(n) \in Process
      BY <1>0 DEF NodesOK, Commanded, Process
    <3>2. CASE up' = [n \in Nodes |-> IF n \in Target THEN Commanded(n) ELSE up[n]]
      BY <3>1, <3>2
    <3>3. CASE \E down, booting \in SUBSET Target :
                 up' = [n \in Nodes |-> IF n \in down THEN "down"
                                        ELSE IF n \in booting THEN "booting" ELSE up[n]]
      BY <3>1, <3>3 DEF Process
    <3> QED
      BY <2>2, <3>2, <3>3 DEF Command
  <2> QED
    BY <2>1, <2>2 DEF WaitForReadyState, VerifyStopped
<1>2. CASE Fault /\ op' = [op EXCEPT !.phase = "raised", !.calm = FALSE]
  <2>1. NodesOK'
    BY <1>0, <1>1, <1>2, FaultCounted DEF NodesOK
  <2> QED
    BY <1>2, <2>1, Raised
<1>3. CASE Fault /\ op' = [op EXCEPT !.phase = "ok", !.calm = FALSE]
  <2>1. NodesOK'
    BY <1>0, <1>1, <1>3, FaultCounted DEF NodesOK
  <2>2. OpOK' /\ op'.kind = op.kind /\ ~op'.calm /\ op'.phase = "ok"
    BY <1>0, <1>3, FaultMove DEF Kept, Phases
  <2> QED
    BY <1>0, <2>1, <2>2 DEF ServerInv, InKept, OutKept, FitKept, PhaseFits
<1>7. op.fit /\ op.calm /\ op.kind \in {"upgrade", "upgradeAll"} => task # "running"
  BY <1>0 DEF FitKept, FitNode
<1>4. CASE Goto("poll") /\ UNCHANGED faults /\ op.kind # "startCustom"
  <2>1. NodesOK'
    BY <1>0, <1>1, <1>4 DEF NodesOK
  <2>2. /\ OpOK' /\ op'.kind = op.kind /\ op'.phase = "poll"
        /\ (op'.fit <=> op.fit) /\ (op'.calm <=> op.calm)
    BY <1>0, <1>4, PhaseMove DEF Kept, Phases
  <2>3. FitKept'
    BY <1>0, <1>7, <2>2 DEF FitKept, FitNode
  <2> QED
    BY <1>0, <1>4, <2>1, <2>2, <2>3 DEF ServerInv, InKept, OutKept, PhaseFits
<1>5. CASE /\ Goto("ok") /\ UNCHANGED faults
           /\ op.kind = "start" => up'[op.node] = "up"
           /\ op.kind = "startCustom" => up'[op.node] \in {"booting", "up"}
           /\ op.kind = "stop" => up'[op.node] = "down"
           /\ op.kind \in {"upgrade", "upgradeAll"} => AllUp'
  <2>1. NodesOK'
    BY <1>0, <1>1, <1>5 DEF NodesOK
  <2>2. /\ OpOK' /\ op'.kind = op.kind /\ op'.phase = "ok" /\ op'.node = op.node
        /\ (op'.fit <=> op.fit) /\ (op'.calm <=> op.calm)
    BY <1>0, <1>5, PhaseMove DEF Kept, Phases
  <2>3. FitKept'
    BY <1>0, <1>5, <1>7, <2>2 DEF FitKept, FitNode
  <2> QED
    BY <1>0, <2>1, <2>2, <2>3 DEF ServerInv, InKept, OutKept, PhaseFits
<1>6. CASE WaitForReadyState
  <2>1. op.kind = "start" => up[op.node] = "up"
    BY <1>0, <1>6 DEF WaitForReadyState, Healthy, AllUp
  <2>2. op.kind \in {"upgrade", "upgradeAll"} => AllUp
    BY <1>6 DEF WaitForReadyState, Healthy
  <2>3. Goto("ok") /\ UNCHANGED <<memb, up, faults>> /\ op.kind \in {"start", "upgrade", "upgradeAll"}
    BY <1>6 DEF WaitForReadyState
  <2>4. AllUp => AllUp'
    BY <2>3 DEF AllUp, Listed
  <2> QED
    BY <1>5, <2>1, <2>2, <2>3, <2>4
<1>8. CASE Command /\ op.kind = "startCustom" /\ Goto("ok") /\ UNCHANGED faults
           /\ up' = [n \in Nodes |-> IF n \in Target THEN Commanded(n) ELSE up[n]]
  <2>1. up'[op.node] = Commanded(op.node) /\ up[op.node] \in Process
    BY <1>0, <1>8 DEF Target, NodesOK
  <2>2. Commanded(op.node) \in {"booting", "up"}
    BY <1>8, <2>1 DEF Commanded, Process
  <2> QED
    BY <1>5, <1>8, <2>1, <2>2
<1>9. CASE VerifyStopped
  BY <1>0, <1>2, <1>3, <1>5, <1>9 DEF VerifyStopped
<1>10. CASE Command
  BY <1>2, <1>4, <1>8, <1>10 DEF Command
<1> QED
  BY <1>6, <1>9, <1>10

\* The time limit.
LEMMA TimeoutStep ==
    ASSUME ServerInv, Timeout
    PROVE  ServerInv'
<1>1. NodesOK'
  BY DEF ServerInv, NodesOK, Timeout
<1> QED
  BY <1>1, Raised DEF Timeout

\* A call begins: what it finds, when it is made as the tests make it.
LEMMA BeginStep ==
    ASSUME ServerInv, NEW kind \in Kinds, NEW n \in Nodes, Begin(kind, n)
    PROVE  ServerInv'
<1>0. NodesOK /\ UNCHANGED <<memb, up, task, leave, faults>> /\ ops < MaxOps /\ ops' = ops + 1
  BY DEF ServerInv, Begin
<1>1. NodesOK'
  BY <1>0, ServerAssumption DEF NodesOK
<1> DEFINE f == Fit(kind, n)
<1>2. f \in BOOLEAN
  BY DEF Fit
<1>3. op' = [NoOp EXCEPT !.kind = kind, !.node = n, !.phase = "post", !.fit = f]
  BY DEF Begin
<1> HIDE DEF f
<1>8. NoOp \in Calls /\ NoOp.tries = 0
  BY ServerAssumption DEF NoOp, Calls, Phases
<1>4. /\ op' \in Calls /\ op'.kind = kind /\ op'.node = n /\ op'.phase = "post"
      /\ op'.tries = 0 /\ (op'.fit <=> f)
  BY <1>2, <1>3, <1>8 DEF Calls, Phases
<1>5. ~op'.sure
  BY <1>3 DEF NoOp
<1>6. OpOK' /\ InKept' /\ OutKept' /\ PhaseFits'
  BY <1>4, <1>5, ServerAssumption DEF OpOK, InKept, OutKept, PhaseFits
<1>7. FitKept'
  <2> SUFFICES ASSUME f
               PROVE  /\ kind = "in" => Ready' /\ memb'[n] \in {"added", "recover"}
                      /\ kind = "out" => Ready'
                      /\ kind = "server" => Ready' /\ Failed' = {}
                      /\ task' # "running"
                      /\ kind = "recover" => memb'[n] = "failed" /\ Answers'
    BY <1>4 DEF FitKept, FitIn, FitOut, FitServer, FitNode
  <2>1. task # "running"
    BY DEF f, Fit
  <2>2. /\ Ready' <=> Ready
        /\ Failed' = Failed /\ (Answers' <=> Answers)
    BY <1>0 DEF Ready, CanRebalance, AllUp, Listed, Failed, Answers
  <2>3. kind = "in" => memb[n] \in {"added", "recover"} /\ Listed = Nodes /\ AllUp
    BY DEF f, Fit
  <2>4. kind \in {"out", "server"} => Listed = Nodes /\ Failed = {} /\ AllUp
    BY DEF f, Fit
  <2>5. kind = "recover" => memb[n] = "failed" /\ Answers
    BY DEF f, Fit
  <2>6. Listed = Nodes /\ AllUp => Answers
    BY ServerAssumption DEF AllUp, Answers
  <2> QED
    BY <1>0, <2>1, <2>2, <2>3, <2>4, <2>5, <2>6 DEF Ready, CanRebalance
<1> QED
  BY <1>1, <1>6, <1>7 DEF ServerInv

\* A rebalance ends well: what was to join has joined, what was to leave has left.
LEMMA EndsStep ==
    ASSUME ServerInv, RebalanceEnds
    PROVE  ServerInv'
<1>0. /\ NodesOK /\ OpOK /\ PhaseFits /\ InKept /\ OutKept /\ FitKept /\ op.node \in Nodes
      /\ task = "running" /\ task' = "idle" /\ leave' = {} /\ UNCHANGED <<up, op, ops, faults>>
      /\ \A n \in Listed \ leave : up[n] = "up"
  BY DEF ServerInv, RebalanceEnds, OpOK, Calls
<1>1. /\ memb' \in [Nodes -> Member]
      /\ \A n \in Nodes : memb'[n] = IF n \in leave THEN "leaving"
                                    ELSE IF memb[n] \in {"added", "recover"} THEN "active"
                                    ELSE memb[n]
  BY <1>0 DEF RebalanceEnds, NodesOK, Member
<1>2. NodesOK' /\ OpOK' /\ PhaseFits'
  BY <1>0, <1>1 DEF NodesOK, OpOK, PhaseFits
<1>3. Joined \/ Joining => Joined'
  <2>1. memb[op.node] \in {"added", "recover", "active"} /\ op.node \notin leave
          => op.node \in Listed \ leave
    BY <1>0 DEF Listed
  <2> QED
    BY <1>0, <1>1, <2>1 DEF Joined, Joining
<1>4. Gone \/ Leaving => Gone'
  BY <1>0, <1>1 DEF Gone, Leaving
<1>5. InKept' /\ OutKept'
  BY <1>0, <1>3, <1>4 DEF InKept, OutKept
<1>6. FitKept'
  <2> SUFFICES ASSUME op.fit, op.calm
               PROVE  /\ op.kind = "in" => FitIn'
                      /\ op.kind = "out" => FitOut'
                      /\ op.kind = "server" => FitServer'
                      /\ FitNode'
    BY <1>0 DEF FitKept
  <2>1. /\ op.kind = "in" => FitIn
        /\ op.kind = "out" => FitOut
        /\ op.kind = "server" => FitServer
        /\ FitNode
    BY <1>0 DEF FitKept
  <2>2. ~Ready
    BY <1>0 DEF Ready, CanRebalance
  <2>3. op.kind = "in" => FitIn'
    BY <1>0, <1>3, <2>1, <2>2 DEF FitIn
  <2>4. op.kind = "out" => FitOut'
    BY <1>0, <1>4, <2>1, <2>2 DEF FitOut
  <2>5. op.kind = "server" => FitServer'
    <3>1. Whole => Whole'
      BY <1>0 DEF Whole
    <3>2. Whole /\ (\A n \in Nodes : memb[n] \in {"active", "added", "recover"})
            => \A n \in Nodes : memb'[n] = "active"
      BY <1>1 DEF Whole
    <3>3. (\A n \in Nodes : memb[n] = "active")
            => \A n \in Nodes : memb[n] \in {"active", "added", "recover"}
      OBVIOUS
    <3> QED
      BY <1>0, <2>1, <2>2, <3>1, <3>2, <3>3 DEF FitServer
  <2>6. FitNode'
    BY <1>0, <2>1 DEF FitNode
  <2> QED
    BY <2>3, <2>4, <2>5, <2>6
<1> QED
  BY <1>2, <1>5, <1>6 DEF ServerInv

\* A rebalance fails: a call under way cannot tell, and is no longer calm.
LEMMA FailsStep ==
    ASSUME ServerInv, RebalanceFails
    PROVE  ServerInv'
<1>0. /\ NodesOK /\ OpOK /\ PhaseFits /\ InKept /\ OutKept /\ FitKept /\ op.node \in Nodes
      /\ task = "running" /\ task' = "idle" /\ leave' = {} /\ UNCHANGED <<memb, up, ops>>
  BY DEF ServerInv, RebalanceFails, OpOK, Calls
<1>1. faults' \in 0..MaxFaults
  BY <1>0, FaultCounted DEF RebalanceFails, NodesOK
<1>2. NodesOK'
  BY <1>0, <1>1 DEF NodesOK
<1>3. CASE ~Ended
  <2>1. op' = [op EXCEPT !.broken = TRUE, !.calm = FALSE]
    BY <1>3 DEF RebalanceFails
  <2>2. /\ OpOK' /\ op'.broken /\ ~op'.calm /\ op'.kind = op.kind /\ op'.phase = op.phase
    BY <1>0, <2>1 DEF OpOK, Calls
  <2> QED
    BY <1>0, <1>2, <1>3, <2>2 DEF ServerInv, PhaseFits, InKept, OutKept, FitKept, Ended
<1>4. CASE Ended
  <2>1. op' = op
    BY <1>4 DEF RebalanceFails
  <2>2. Joined => Joined'
    BY <1>0, <2>1 DEF Joined
  <2>3. Gone' <=> Gone
    BY <1>0, <2>1 DEF Gone
  <2>4. Whole => Whole'
    BY <1>0, <2>1 DEF Whole
  <2>5. InKept' /\ OutKept' /\ PhaseFits' /\ OpOK'
    BY <1>0, <1>4, <2>1, <2>2, <2>3 DEF InKept, OutKept, PhaseFits, OpOK, Ended
  <2>6. FitKept'
    <3>1. op.phase \in {"ok", "raised"}
      BY <1>4 DEF Ended
    <3> QED
      BY <1>0, <2>1, <2>2, <2>3, <2>4, <3>1
         DEF FitKept, FitIn, FitOut, FitServer, FitNode
  <2> QED
    BY <1>2, <2>5, <2>6 DEF ServerInv
<1> QED
  BY <1>3, <1>4

\* What goes on at a node by itself.
LEMMA NodeStep ==
    ASSUME ServerInv, NEW n \in Nodes, Settle(n) \/ AutoFailover(n) \/ ProcessMoves(n)
    PROVE  ServerInv'
<1>0. /\ NodesOK /\ OpOK /\ PhaseFits /\ InKept /\ OutKept /\ FitKept /\ op.node \in Nodes
      /\ UNCHANGED <<task, leave, op, ops, faults>>
  BY DEF ServerInv, Settle, AutoFailover, ProcessMoves, OpOK, Calls
<1>1. /\ memb' \in [Nodes -> Member] /\ up' \in [Nodes -> Process]
      /\ \A m \in Nodes : \/ memb'[m] = memb[m]
                          \/ memb[m] = "leaving" /\ memb'[m] = "out"
                          \/ memb[m] = "active" /\ up[m] = "down" /\ memb'[m] = "failed"
                             /\ task # "running"
      /\ \A m \in Nodes : /\ up[m] \in {"up", "down"} => up'[m] = up[m]
                          /\ up[m] = "booting" => up'[m] \in {"booting", "up"}
  <2>1. CASE Settle(n)
    BY <1>0, <2>1 DEF Settle, NodesOK, Member
  <2>2. CASE AutoFailover(n)
    BY <1>0, <2>2 DEF AutoFailover, NodesOK, Member
  <2>3. CASE ProcessMoves(n)
    BY <1>0, <2>3 DEF ProcessMoves, NodesOK, Process
  <2> QED
    BY <2>1, <2>2, <2>3
<1>2. NodesOK' /\ OpOK' /\ PhaseFits'
  BY <1>0, <1>1 DEF NodesOK, OpOK, PhaseFits
<1>3. /\ Joined => Joined'
      /\ Joining => Joining'
      /\ Gone => Gone'
      /\ Leaving => Leaving'
  BY <1>0, <1>1 DEF Joined, Joining, Gone, Leaving
<1>4. InKept' /\ OutKept'
  BY <1>0, <1>3 DEF InKept, OutKept
<1>5. Ready => /\ Ready'
               /\ \A m \in Nodes : memb'[m] = memb[m]
  <2> SUFFICES ASSUME Ready PROVE /\ Ready'
                                  /\ \A m \in Nodes : memb'[m] = memb[m]
    OBVIOUS
  <2>1. \A m \in Nodes : up[m] = "up" /\ memb[m] \notin {"leaving", "out"}
    BY DEF Ready, CanRebalance, AllUp, Listed
  <2>2. \A m \in Nodes : up'[m] = "up" /\ memb'[m] = memb[m]
    BY <1>1, <2>1
  <2> QED
    BY <1>0, <2>1, <2>2, ServerAssumption DEF Ready, CanRebalance, AllUp, Listed, Answers
<1>6. Whole => /\ Whole'
               /\ \A m \in Nodes : memb[m] \in {"active", "added", "recover"} => memb'[m] = memb[m]
  BY <1>0, <1>1 DEF Whole
<1>7. FitKept'
  <2> SUFFICES ASSUME op.fit, op.calm
               PROVE  /\ op.kind = "in" => FitIn'
                      /\ op.kind = "out" => FitOut'
                      /\ op.kind = "server" => FitServer'
                      /\ FitNode'
    BY <1>0 DEF FitKept
  <2>1. /\ op.kind = "in" => FitIn
        /\ op.kind = "out" => FitOut
        /\ op.kind = "server" => FitServer
        /\ FitNode
    BY <1>0 DEF FitKept
  <2>2. op.kind = "in" => FitIn'
    BY <1>0, <1>3, <1>5, <2>1 DEF FitIn
  <2>3. op.kind = "out" => FitOut'
    BY <1>0, <1>3, <1>5, <2>1 DEF FitOut
  <2>4. op.kind = "server" => FitServer'
    <3>1. Ready /\ Failed = {} => Failed' = {}
      BY <1>5 DEF Failed
    <3>2. Whole /\ (\A m \in Nodes : memb[m] = "active") => \A m \in Nodes : memb'[m] = "active"
      BY <1>6
    <3>3. Whole /\ (\A m \in Nodes : memb[m] \in {"active", "added", "recover"})
            => \A m \in Nodes : memb'[m] \in {"active", "added", "recover"}
      BY <1>6
    <3> QED
      BY <1>0, <1>5, <1>6, <2>1, <3>1, <3>2, <3>3 DEF FitServer
  <2>5. FitNode'
    <3>1. Answers => Answers'
      BY <1>1, ServerAssumption DEF Answers
    <3>2. AllUp => AllUp'
      BY <1>1 DEF AllUp, Listed
    <3>3. op.kind = "recover" => FitNode'
      BY <1>0, <1>1, <2>1, <3>1 DEF FitNode, NodesOK
    <3>4. op.kind # "recover" => FitNode'
      BY <1>0, <1>1, <2>1, <3>2 DEF FitNode
    <3> QED
      BY <3>3, <3>4
  <2> QED
    BY <2>2, <2>3, <2>4, <2>5
<1> QED
  BY <1>2, <1>4, <1>7 DEF ServerInv

\* All nodes are members and no call has been made.
LEMMA ServerInvInit == ServerInit => ServerInv
<1> SUFFICES ASSUME ServerInit PROVE ServerInv
  OBVIOUS
<1>1. NodesOK
  BY ServerAssumption DEF ServerInit, NodesOK, Member, Process
<1>2. op = NoOp
  BY DEF ServerInit
<1>3. op \in Calls /\ op.kind = "none" /\ op.phase = "ok" /\ ~op.fit
  BY <1>2, ServerAssumption DEF NoOp, Calls, Phases
<1> QED
  BY <1>1, <1>3 DEF ServerInv, OpOK, PhaseFits, InKept, OutKept, FitKept

\* Every step of a call, of the cluster and of its nodes keeps the invariant.
LEMMA ServerInvStep == ServerInv /\ [ServerNext]_serverVars => ServerInv'
<1> SUFFICES ASSUME ServerInv, [ServerNext]_serverVars PROVE ServerInv'
  OBVIOUS
<1>1. CASE UNCHANGED serverVars
  BY <1>1 DEF serverVars, ServerInv, NodesOK, OpOK, PhaseFits, InKept, OutKept, FitKept, FitIn,
         FitOut, FitServer, FitNode, Joined, Joining, Gone, Leaving, Ready, Whole, CanRebalance,
         AllUp, Listed, Failed, Answers
<1>2. CASE CallStep
  BY <1>2, InStep, OutStep, ServerStep, WaitStep, AddStep, RecoverStep, CommandStep DEF CallStep
<1> QED
  BY <1>1, <1>2, TimeoutStep, BeginStep, EndsStep, FailsStep, NodeStep DEF ServerNext

\* True from rebalance_in or rebalance_out means that the rebalance the call asked for is
\* over, also when the answer to the POST was lost and the POST repeated, and that the node
\* is where it should be unless that rebalance failed.
THEOREM RebalanceIsTrue == ServerSpec => []RebalanceTrue
<1>1. ServerInv => RebalanceTrue
  BY DEF ServerInv, RebalanceTrue, ServerTypeOK, NodesOK, OpOK, Calls, Phases, InKept, OutKept,
         InWaited, OutEjected, Joined, Gone
<1> QED
  BY <1>1, ServerInvInit, ServerInvStep, PTL DEF ServerSpec

\* A call of the class CouchbaseServer that is made as the tests make it, and that meets no
\* fault and no time limit, succeeds and has had its effect when it returns.  A start with a
\* custom port, which skips the wait, has only started the process by then.
THEOREM FitCallsSucceed == ServerSpec => []FitSucceeds
<1>1. ServerInv => FitSucceeds
  <2> SUFFICES ASSUME ServerInv, op.fit, op.calm PROVE FitSucceeds
    BY DEF FitSucceeds
  <2>1. /\ op.phase # "raised"
        /\ op.kind = "in" => FitIn
        /\ op.kind = "out" => FitOut
        /\ op.kind = "server" => FitServer
        /\ FitNode
    BY DEF ServerInv, FitKept
  <2>2. op.phase = "ok" =>
           /\ op.kind = "in" => memb[op.node] = "active"
           /\ op.kind = "out" => memb[op.node] \in {"leaving", "out"}
           /\ op.kind = "server" => \A n \in Nodes : memb[n] = "active"
    BY <2>1 DEF FitIn, FitOut, FitServer, Joined, Gone
  <2>3. op.kind \in Kinds \cup {"none"}
    BY DEF ServerInv, OpOK, Calls
  <2> QED
    BY <2>1, <2>2, <2>3 DEF FitSucceeds, FitNode, Kinds
<1> QED
  BY <1>1, ServerInvInit, ServerInvStep, PTL DEF ServerSpec
=============================================================================
