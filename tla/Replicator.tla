----------------------------- MODULE Replicator -----------------------------
(***************************************************************************)
(* How a test waits for a replicator of Couchbase Lite, as written in      *)
(* CBLClient/Replication.py.  The replicator runs in an app on a device;   *)
(* the test sees it through one RPC per attribute (activity level, total,  *)
(* completed, error), so that every attribute is read at a time of its     *)
(* own.  wait_until_replicator_idle takes a replicator for done that has   *)
(* been idle for more than max_idle_count polls since it was last seen at  *)
(* work.                                                                   *)
(***************************************************************************)
EXTENDS Naturals, FiniteSets

CONSTANTS
    Docs,       \* documents that may have to be replicated
    MaxTimes,   \* max_times of wait_until_replicator_idle (150)
    MaxIdle,    \* max_idle_count (20)
    StopTimes,  \* max_times of stop (15)
    YieldTimes, \* max_times of yield_for_replicator_connected (5)
    Quiet       \* longest time, in polls, that a replicator stays idle
                \* with documents to replicate

ASSUME ReplicatorAssumption ==
    /\ IsFiniteSet(Docs)
    /\ {MaxTimes, MaxIdle, StopTimes, YieldTimes, Quiet} \subseteq Nat
    /\ MaxTimes # 0 /\ Quiet < MaxIdle

VARIABLES
    \* the replicator, on the device
    continuous, \* its configuration
    level,      \* its activity level
    doc,        \* for every document: none, left, moving or done
    err,        \* its error: none, retry (connection refused) or fatal
    stopping,   \* it was told to stop
    quiet,      \* polls since it went idle, with documents left
    seen,       \* a poll has found it at work since it went to work
    failed,     \* it had failed when the test slept last
    \* the test
    pc,         \* where it is
    errCheck,   \* err_check
    act,        \* activity_level as last read
    count, idle, \* count and idle_count
    total, completed, \* as last read
    late,       \* max_timeout has passed
    due,        \* documents to replicate when the wait began
    how         \* how the last operation ended

remote == <<continuous, level, doc, err, stopping, quiet, seen, failed>>
reads  == <<act, total, completed>>
vars   == <<remote, pc, errCheck, reads, count, idle, late, due, how>>

Levels == {"stopped", "offline", "connecting", "busy", "idle"}
AtWork == {"offline", "connecting", "busy"}

In(status) == {d \in Docs : doc[d] = status}

\* getTotal and getCompleted
Total     == Cardinality(In("moving")) + Cardinality(In("done"))
Completed == Cardinality(In("done"))

Places == {"off", "ready", "yield", "yielding", "read", "loop", "counting",
           "comparing", "error", "level", "total", "completed", "stop", "stopped"}

Outcomes == {"none", "idle", "stopped", "gave up", "error", "incomplete",
             "impossible", "running"}

TypeOK ==
    /\ continuous \in BOOLEAN /\ level \in Levels
    /\ doc \in [Docs -> {"none", "left", "moving", "done"}]
    /\ err \in {"none", "retry", "fatal"}
    /\ stopping \in BOOLEAN /\ quiet \in 0..Quiet /\ seen \in BOOLEAN /\ failed \in BOOLEAN
    /\ pc \in Places /\ errCheck \in BOOLEAN /\ act \in Levels
    /\ count \in 0..(MaxTimes + StopTimes + YieldTimes)
    /\ idle \in 0..MaxIdle
    /\ {total, completed} \subseteq 0..Cardinality(Docs)
    /\ late \in BOOLEAN /\ due \subseteq Docs /\ how \in Outcomes

Init ==
    /\ continuous \in BOOLEAN
    /\ level = "stopped" /\ err = "none" /\ quiet = 0
    /\ stopping = FALSE /\ seen = FALSE /\ failed = FALSE
    /\ doc \in [Docs -> {"none", "left"}]
    /\ pc = "off" /\ errCheck \in BOOLEAN
    /\ act = "stopped" /\ count = 0 /\ idle = 0 /\ total = 0 /\ completed = 0
    /\ late = FALSE /\ due = {} /\ how = "none"

-----------------------------------------------------------------------------
(* The replicator and the writers of documents: not part of the code.      *)

\* The replicator goes from one activity level to another.
Becomes(l) ==
    /\ level' = l
    /\ quiet' = 0 /\ seen' = FALSE

\* Someone writes a document on either side.
Write ==
    /\ \E d \in In("none") : doc' = [doc EXCEPT ![d] = "left"]
    /\ UNCHANGED <<continuous, level, err, stopping, failed, quiet, seen>>

Connect ==
    /\ level = "connecting"
    /\ Becomes("busy") /\ err' = "none"
    /\ UNCHANGED <<continuous, doc, stopping, failed>>

LoseConnection ==
    /\ level \in {"connecting", "busy", "idle"} /\ continuous
    /\ Becomes("offline") /\ err' = "retry"
    /\ UNCHANGED <<continuous, doc, stopping, failed>>

Reconnect ==
    /\ level = "offline"
    /\ Becomes("connecting")
    /\ UNCHANGED <<continuous, doc, err, stopping, failed>>

\* A document enters the progress of the replicator, busy or still idle.
PickUp ==
    /\ level \in {"busy", "idle"}
    /\ \E d \in In("left") : doc' = [doc EXCEPT ![d] = "moving"]
    /\ UNCHANGED <<continuous, level, err, stopping, failed, quiet, seen>>

Transfer ==
    /\ level \in {"busy", "idle"}
    /\ \E d \in In("moving") : doc' = [doc EXCEPT ![d] = "done"]
    /\ UNCHANGED <<continuous, level, err, stopping, failed, quiet, seen>>

\* Work lasts until a poll has seen it: what is over between two polls is
\* invisible to every poller.
GoIdle ==
    /\ level = "busy" /\ continuous /\ seen
    /\ Becomes("idle")
    /\ UNCHANGED <<continuous, doc, err, stopping, failed>>

Wake ==
    /\ level = "idle" /\ In("left") # {}
    /\ Becomes("busy")
    /\ UNCHANGED <<continuous, doc, err, stopping, failed>>

\* A one-shot replicator is through.
Finish ==
    /\ level = "busy" /\ ~continuous
    /\ In("left") \union In("moving") = {}
    /\ Becomes("stopped")
    /\ UNCHANGED <<continuous, doc, err, stopping, failed>>

Fail ==
    /\ level # "stopped"
    /\ Becomes("stopped") /\ err' = "fatal"
    /\ UNCHANGED <<continuous, doc, stopping, failed>>

ObeyStop ==
    /\ stopping /\ level # "stopped"
    /\ Becomes("stopped")
    /\ UNCHANGED <<continuous, doc, err, stopping, failed>>

Device ==
    /\ \/ Write \/ Connect \/ LoseConnection \/ Reconnect \/ PickUp
       \/ Transfer \/ GoIdle \/ Wake \/ Finish \/ Fail \/ ObeyStop
    /\ UNCHANGED <<pc, errCheck, reads, count, idle, late, due, how>>

\* max_timeout runs out while the test waits.
TimePasses ==
    /\ pc \in {"loop", "error"} /\ ~late
    /\ late' = TRUE
    /\ UNCHANGED <<remote, pc, errCheck, reads, count, idle, due, how>>

\* A sleep of the test, during which a replicator that is idle with documents
\* left comes closer to its waking.
Sleep ==
    /\ level = "idle" /\ In("left") # {} => quiet < Quiet
    /\ quiet' = IF level = "idle" /\ In("left") # {} THEN quiet + 1 ELSE quiet
    /\ failed' = (err = "fatal")
    /\ UNCHANGED <<continuous, level, doc, err, stopping, seen>>

-----------------------------------------------------------------------------
(* The operations of the test                                              *)

\* getActivitylevel
ReadActivity ==
    /\ act' = level
    /\ seen' = (seen \/ level \in AtWork)
    /\ UNCHANGED <<continuous, level, doc, err, stopping, failed, quiet>>

\* An operation ends, and its local variables with it.
Return(outcome) ==
    /\ pc' = IF outcome = "stopped" /\ pc = "stopped" THEN "off" ELSE "ready"
    /\ how' = outcome
    /\ act' = "stopped" /\ total' = 0 /\ completed' = 0
    /\ count' = 0 /\ idle' = 0 /\ late' = FALSE

\* The operation goes on at another place with the counts it has now; what it
\* has read of the progress is not used again.
GoOn(place, newCount, newIdle) ==
    /\ pc' = place /\ count' = newCount /\ idle' = newIdle
    /\ total' = 0 /\ completed' = 0
    /\ UNCHANGED <<act, late, how>>

\* start, from configure_and_replicate: the replicator is started, and the
\* test waits until it is idle or yields until it is connected.
Start ==
    /\ pc = "off"
    /\ Becomes("connecting") /\ err' = "none" /\ stopping' = FALSE /\ failed' = FALSE
    /\ pc' \in {"read", "yield"} /\ count' = 0 /\ how' = "none"
    /\ act' = "connecting"
    /\ UNCHANGED <<continuous, doc, errCheck, total, completed, idle, late, due>>

\* yield_for_replicator_connected: the level is read once, before the loop.
YieldRead ==
    /\ pc = "yield"
    /\ ReadActivity
    /\ pc' = "yielding" /\ count' = 0
    /\ UNCHANGED <<errCheck, total, completed, idle, late, due, how>>

Yield ==
    /\ pc = "yielding"
    /\ Sleep
    /\ IF act = "connecting" /\ count + 1 < YieldTimes
       THEN GoOn("yielding", count + 1, idle)
       ELSE Return("none")
    /\ UNCHANGED <<errCheck, due>>

\* The test calls wait_until_replicator_idle again.
WaitAgain ==
    /\ pc = "ready"
    /\ pc' = "read" /\ how' = "none"
    /\ UNCHANGED <<remote, errCheck, reads, count, idle, late, due>>

\* wait_until_replicator_idle, up to its loop
WaitRead ==
    /\ pc = "read"
    /\ ReadActivity
    /\ count' = 0 /\ idle' = 0 /\ late' = FALSE
    /\ due' = In("left") \union In("moving")
    /\ pc' = "loop"
    /\ UNCHANGED <<errCheck, total, completed, how>>

\* The loop's condition fails: the wait returns, whatever the replicator does.
GiveUp ==
    /\ pc = "loop" /\ count >= MaxTimes
    /\ Return("gave up")
    /\ UNCHANGED <<remote, errCheck, due>>

\* A level at work counts against max_times and restarts idle_count.
CountWork(restart) ==
    /\ pc = "loop" /\ count < MaxTimes /\ act \in AtWork
    /\ Sleep
    /\ GoOn("error", count + 1, restart)
    /\ UNCHANGED <<errCheck, due>>

\* Mutant: idle_count is not restarted when work is seen.
SawWorkKeepsIdle == CountWork(idle)

SawWork == CountWork(0)

\* A level that is neither at work nor idle is not counted.
SawStopped ==
    /\ pc = "loop" /\ count < MaxTimes /\ act = "stopped"
    /\ Sleep
    /\ GoOn("error", count, idle)
    /\ UNCHANGED <<errCheck, due>>

\* An idle level is compared with the progress: getCompleted, then getTotal.
SawIdle ==
    /\ pc = "loop" /\ count < MaxTimes /\ act = "idle"
    /\ Sleep
    /\ GoOn("counting", count, idle)
    /\ UNCHANGED <<errCheck, due>>

IdleCompleted ==
    /\ pc = "counting"
    /\ completed' = Completed
    /\ pc' = "comparing"
    /\ UNCHANGED <<remote, errCheck, act, total, count, idle, late, due, how>>

\* An idle poll with all the progress made is counted; the wait returns once
\* idle_count exceeds the limit.
CompareIdle(limit, counted) ==
    /\ pc = "comparing"
    /\ \/ completed < Total /\ GoOn("error", count + counted, idle)
       \/ completed >= Total /\ idle + 1 <= limit /\ GoOn("error", count, idle + 1)
       \/ completed >= Total /\ idle + 1 > limit /\ Return("idle")
    /\ UNCHANGED <<remote, errCheck, due>>

\* Mutant: an idle poll with incomplete progress is not counted.
IdleTotalUncounted == CompareIdle(MaxIdle, 0)

IdleTotal == CompareIdle(MaxIdle, 1)

\* Mutant: every error of a continuous replicator is retried.
CheckErrorRetries ==
    /\ pc = "error"
    /\ IF errCheck /\ err # "none" /\ ~(continuous /\ ~late)
       THEN Return("error")
       ELSE GoOn("level", count, idle)
    /\ UNCHANGED <<remote, errCheck, due>>

\* getError: an error ends the wait, unless it is one of a connection that a
\* continuous replicator is still trying to make.
CheckError ==
    /\ pc = "error"
    /\ IF errCheck /\ err # "none" /\ ~(continuous /\ err = "retry" /\ ~late)
       THEN Return("error")
       ELSE GoOn("level", count, idle)
    /\ UNCHANGED <<remote, errCheck, due>>

\* Activity level, total and completed are read again, in this order.
ReadLevel ==
    /\ pc = "level"
    /\ ReadActivity
    /\ pc' = "total"
    /\ UNCHANGED <<errCheck, total, completed, count, idle, late, due, how>>

ReadTotal ==
    /\ pc = "total"
    /\ total' = Total
    /\ pc' = "completed"
    /\ UNCHANGED <<remote, errCheck, act, completed, count, idle, late, due, how>>

\* The end of an iteration: a stopped replicator ends the wait, with an error
\* if it is short of its total.
Judge(short) ==
    /\ pc = "completed"
    /\ \/ /\ act = "stopped"
          /\ Return(IF short THEN "incomplete" ELSE "stopped")
       \/ /\ act # "stopped" /\ total < Completed /\ total = 0
          /\ Return("impossible")
       \/ /\ act # "stopped" /\ ~(total < Completed /\ total = 0)
          /\ GoOn("loop", count, idle)
    /\ UNCHANGED <<remote, errCheck, due>>

ReadCompleted == Judge(Completed < total)

\* stop: the replicator is told to stop, and polled.
Stop ==
    /\ pc = "ready"
    /\ stopping' = TRUE
    /\ pc' = "stop" /\ count' = 0 /\ how' = "none"
    /\ UNCHANGED <<continuous, level, doc, err, failed, quiet, seen, errCheck, reads, idle,
                   late, due>>

StopPoll ==
    /\ pc = "stop"
    /\ ReadActivity
    /\ IF act' # "stopped" /\ count < StopTimes
       THEN count' = count + 1 /\ UNCHANGED pc
       ELSE pc' = "stopped" /\ UNCHANGED count
    /\ UNCHANGED <<errCheck, total, completed, idle, late, due, how>>

StopVerify ==
    /\ pc = "stopped"
    /\ Return(IF level = "stopped" THEN "stopped" ELSE "running")
    /\ UNCHANGED <<remote, errCheck, due>>

Waiter ==
    \/ YieldRead \/ Yield \/ WaitRead \/ GiveUp \/ SawWork \/ SawStopped \/ SawIdle
    \/ IdleCompleted \/ IdleTotal \/ CheckError \/ ReadLevel \/ ReadTotal
    \/ ReadCompleted \/ StopPoll \/ StopVerify

Next == Device \/ TimePasses \/ Start \/ WaitAgain \/ Stop \/ Waiter

\* A call that has begun goes on, and a replicator with documents left wakes.
Spec == Init /\ [][Next]_vars /\ WF_vars(Waiter) /\ WF_vars(Device /\ Wake)

-----------------------------------------------------------------------------
(* Properties                                                              *)

\* A wait that takes the replicator for idle is right about it: all that had
\* to be replicated when it was called has been, although the replicator may
\* have gone idle in between, with work left, for up to Quiet polls at a time.
\* The count of idle polls starts anew whenever work is seen.
IdleMeansDone ==
    how = "idle" => \A d \in due : doc[d] = "done"

\* A wait complains of a stopped replicator's progress only when there is a
\* document that the replicator began to transfer and did not finish: the
\* three values it compares are read one after another, the level first.
NoFalseIncomplete ==
    how = "incomplete" /\ pc = "ready" => In("moving") # {}

\* Every wait, yield and stop comes to its end, however the replicator goes
\* back and forth between its levels.
CallsEnd == []<>(pc \in {"off", "ready"})

\* A wait that checks for errors does not return normally, with a replicator
\* stopped or at the end of its patience, when the replicator had failed
\* before the last round began: only a failure within the round goes unseen.
FailureReported ==
    errCheck /\ failed /\ pc = "ready" => how \notin {"stopped", "gave up"}

\* The outcome of a wait is true of the replicator: neither a complaint without reason,
\* nor silence about a failure.
EndsTrue == TypeOK /\ NoFalseIncomplete /\ FailureReported

=============================================================================
