----------------------------- MODULE Replications -----------------------------
(* Replications between Sync Gateways, as the clients of the framework start, wait  *)
(* for, reset and stop them: the tasks of sg-replicate 1 and of a Listener          *)
(* (/_replicate and /_active_tasks: libraries/testkit/syncgateway.py and            *)
(* keywords/MobileRestClient.py) and the replications of sg-replicate 2             *)
(* (/_replication and /_replicationStatus: syncgateway.py and admin.py).  One       *)
(* database on each side; documents are counted for each direction.                 *)
EXTENDS Naturals, FiniteSets

CONSTANTS
    Ids,       \* replications of sg-replicate 2
    MaxTimes,  \* max_times of wait_until_sgw_replication_done
    RetryMax,  \* its retry_max_count
    MaxTries,  \* polls of the other waits
    MaxDocs,   \* documents for each direction
    MaxCalls,  \* calls of the test
    MaxFaults  \* answers lost and replications failed

ASSUME ReplAssumption ==
    MaxTimes \in Nat \ {0} /\ RetryMax \in Nat /\ MaxTries \in Nat \ {0}

Streams == {"push", "pull"}
Tasks == Streams \X BOOLEAN     \* what /_replicate knows a task by: is it continuous?

VARIABLES
    era,      \* the test uses sg-replicate 1 or 2
    secured,  \* the admin port asks for credentials
    auth,     \* Admin.auth is set: only methods of Admin set it
    written,  \* documents at the source of each direction
    task,     \* sg-replicate 1
    repl,     \* sg-replicate 2
    local,    \* replications assigned to the gateway that is asked
    main,     \* the call of the test
    calls, faults

gatewayVars == <<written, task, repl, local>>
replVars == <<era, secured, auth, gatewayVars, main, calls, faults>>

Zero == [s \in Streams |-> 0]
NoTask == [status |-> "none", goal |-> 0, there |-> 0]
NoRepl == [status |-> "none", cont |-> FALSE, look |-> Zero, sent |-> Zero, goal |-> Zero,
           cut |-> FALSE]
NoWait == [kind |-> "none", phase |-> "returned", arg |-> "none", count |-> 0,
           flags |-> {}, prev |-> Zero, retry |-> Zero, given |-> {}, saw |-> "none",
           fresh |-> {}, quiet |-> Zero, long |-> {}, fit |-> FALSE]

ReplInit ==
    /\ era \in {1, 2} /\ secured \in IF era = 2 THEN BOOLEAN ELSE {FALSE}
    /\ auth = FALSE /\ written = Zero
    /\ task = [k \in Tasks |-> NoTask] /\ repl = [i \in Ids |-> NoRepl] /\ local = {}
    /\ main = NoWait /\ calls = 0 /\ faults = 0

Fault == faults < MaxFaults /\ faults' = faults + 1

-----------------------------------------------------------------------------
(* The gateway                                                             *)

DocAdded(s) ==
    /\ written[s] < MaxDocs /\ written' = [written EXCEPT ![s] = @ + 1]
    /\ UNCHANGED <<era, secured, auth, task, repl, local, main, calls, faults>>

Listed(k) == task[k].status \in {"busy", "idle", "going"}

\* A task is listed some time after it was accepted, moves documents, is idle when it
\* has moved all, and disappears some time after it was cancelled or, one-shot, done.
TaskMoves(k) ==
    /\ LET t == task[k]
           all == t.there = written[k[1]]
       IN \/ t.status = "new" /\ task' = [task EXCEPT ![k].status = "busy"]
          \/ t.status \in {"busy", "going"} /\ ~all /\ task' = [task EXCEPT ![k].there = @ + 1]
          \/ /\ t.status = "busy" /\ all
             /\ task' = [task EXCEPT ![k].status = IF k[2] THEN "idle" ELSE "going"]
          \/ t.status = "idle" /\ ~all /\ task' = [task EXCEPT ![k].status = "busy"]
          \/ t.status = "going" /\ task' = [task EXCEPT ![k].status = "none"]
    /\ UNCHANGED <<era, secured, auth, written, repl, local, main, calls, faults>>

\* A replication looks at the documents beyond its checkpoint; sent counts those of a run.
ReplMoves(i) ==
    /\ LET r == repl[i] IN
         \/ /\ r.status = "starting" /\ repl' = [repl EXCEPT ![i].status = "running"]
            /\ UNCHANGED <<main, faults>>
         \/ \E s \in Streams :
              /\ r.status = "running" /\ r.look[s] < written[s]
              /\ repl' = [repl EXCEPT ![i].look[s] = @ + 1, ![i].sent[s] = @ + 1]
              /\ main' = IF main.kind = "wait" /\ main.arg = i
                         THEN [main EXCEPT !.fresh = @ \cup {s}] ELSE main
              /\ UNCHANGED faults
         \/ /\ r.status = "running" /\ ~r.cont /\ r.look = written
            /\ repl' = [repl EXCEPT ![i].status = "stopped"] /\ UNCHANGED <<main, faults>>
         \/ /\ r.status \in {"starting", "running"} /\ Fault
            /\ repl' = [repl EXCEPT ![i].status = "error"] /\ UNCHANGED main
    /\ UNCHANGED <<era, secured, auth, written, task, local, calls>>

\* Replications are assigned anew when a gateway comes or goes.
Assign(is) ==
    /\ era = 2 /\ is # local /\ is \subseteq {i \in Ids : repl[i].status # "none"}
    /\ Fault /\ local' = is
    /\ UNCHANGED <<era, secured, auth, written, task, repl, main, calls>>

Begins(r) == [r EXCEPT !.status = "starting", !.sent = Zero, !.goal = written, !.cut = FALSE]

\* What the gateway makes of an action on a replication that is there: it is reset only
\* when it is stopped.
CanTake(i, action) ==
    /\ repl[i].status # "none"
    /\ action = "reset" => repl[i].status \in {"stopped", "error"}

Obeyed(i, action) ==
    LET r == repl[i]
        active == r.status \in {"starting", "running"}
    IN CASE action = "start" -> IF active THEN r ELSE Begins(r)
         [] action = "stop" -> [r EXCEPT !.status = "stopped", !.cut = @ \/ r.status # "stopped"]
         [] action = "reset" -> [r EXCEPT !.look = Zero, !.cut = TRUE]

-----------------------------------------------------------------------------
(* Calls: what they have in common                                         *)

Ended == main.phase \in {"returned", "raised"}

Call(kind, phase, arg, fit) ==
    /\ Ended /\ calls < MaxCalls /\ calls' = calls + 1
    /\ main' = [NoWait EXCEPT !.kind = kind, !.phase = phase, !.arg = arg, !.fit = fit]

Goes(phase) == main' = [main EXCEPT !.phase = phase]

\* Methods of Admin set the credentials before they use them.
SetAuth == auth' = (auth \/ secured)

\* Requests of SyncGateway use those of Admin.
Allowed == ~secured \/ auth

\* A request with an answer: refused, obeyed, or obeyed or not with its answer lost.
Request(ok, Effect, none, next) ==
    \/ ok /\ Effect /\ Goes(next) /\ UNCHANGED faults
    \/ ~ok /\ none /\ Goes("raised") /\ UNCHANGED faults
    \/ Fault /\ Goes("raised") /\ (none \/ (ok /\ Effect))

-----------------------------------------------------------------------------
(* sg-replicate 1                                                          *)

Tasked(k) == task' = [task EXCEPT ![k] = [@ EXCEPT !.status = "new", !.goal = written[k[1]]]]

\* The POST of a start: accepted, and answered at once or when the task is done; refused,
\* or its answer lost; or not sent, for want of a name and a password for the public port
\* of the other side.
StartTask(k, named, atOnce) ==
    /\ era = 1 /\ task[k].status = "none"
    /\ \/ /\ named /\ Tasked(k) /\ UNCHANGED faults
          /\ Call("start", IF atOnce THEN "returned" ELSE "post", k, TRUE)
       \/ /\ named /\ Fault /\ (Tasked(k) \/ UNCHANGED task)
          /\ Call("start", "raised", k, TRUE)
       \/ ~named /\ Call("start", "raised", k, FALSE) /\ UNCHANGED <<task, faults>>
    /\ UNCHANGED <<era, secured, auth, written, repl, local>>

\* start_push_replication: a one-shot task answers when it is done, unless it is async.
StartPush(cont, async) == StartTask(<<"push", cont>>, TRUE, cont \/ async)

\* start_pull_replication, and start_replication in either direction.
StartPull(cont, named) == StartTask(<<"pull", cont>>, named, cont)

StartReplication(k, named) == StartTask(k, named, k[2])

\* MobileRestClient.start_replication: the answer has the session.
StartSession(k) == StartTask(k, TRUE, TRUE)

\* The answer to a one-shot start.
PostAnswered ==
    /\ main.phase = "post" /\ task[main.arg].status = "none" /\ Goes("returned")
    /\ UNCHANGED <<era, secured, auth, gatewayVars, calls, faults>>

\* /_replicate with cancel: a task is known by its source, target and continuous, or by
\* the id that its start returned.
Cancel(k) ==
    /\ era = 1 /\ Call("stop", "cancel", k, k[2] /\ task[k].status \in {"new", "busy", "idle"})
    /\ UNCHANGED <<era, secured, auth, gatewayVars, faults>>

StopPush(cont) == Cancel(<<"push", cont>>)
StopPull(cont) == Cancel(<<"pull", cont>>)
StopById(k) == task[k] # NoTask /\ Cancel(k)
StopSession(k) == Cancel(k)

\* Mutant: cancels the one-shot task.
StopTaskOneShot ==
    /\ main.kind = "stop" /\ main.phase = "cancel"
    /\ LET k == <<main.arg[1], FALSE>> IN
         Request(task[k].status \in {"new", "busy", "idle"},
                 task' = [task EXCEPT ![k].status = "going"], UNCHANGED task, "returned")
    /\ UNCHANGED <<era, secured, auth, written, repl, local, calls>>

StopTask ==
    /\ main.kind = "stop" /\ main.phase = "cancel"
    /\ LET k == main.arg IN
         Request(task[k].status \in {"new", "busy", "idle"},
                 task' = [task EXCEPT ![k].status = "going"], UNCHANGED task, "returned")
    /\ UNCHANGED <<era, secured, auth, written, repl, local, calls>>

-----------------------------------------------------------------------------
(* Waits for tasks                                                         *)

WaitFor(kind, k) ==
    /\ era = 1 /\ Call(kind, "poll", k, FALSE)
    /\ CASE kind = "idle" -> task[k] # NoTask
         [] kind = "doc" -> task[k].goal > 0
         [] OTHER -> k = <<"push", TRUE>>
    /\ UNCHANGED <<era, secured, auth, gatewayVars, faults>>

\* What ends each wait: wait_until_active_tasks_empty and wait_for_no_replications,
\* wait_until_active_tasks_non_empty, wait_for_replication_status_idle and
\* wait_until_doc_sync.
TasksEmpty == ~\E k \in Tasks : Listed(k)
TasksNonEmpty == \E k \in Tasks : Listed(k)
TaskIdle(k) == Listed(k) /\ task[k].status = "idle"
DocSynced(k) == task[k].there > 0

Found(kind, k) ==
    CASE kind = "empty" -> TasksEmpty
      [] kind = "listed" -> TasksNonEmpty
      [] kind = "idle" -> TaskIdle(k)
      [] kind = "doc" -> DocSynced(k)

\* Mutant: a poll that finds no task is not counted.
TaskPollListedOnly ==
    /\ main.kind \in {"empty", "listed", "idle", "doc"} /\ main.phase = "poll"
    /\ main' = [main EXCEPT !.count = IF TasksNonEmpty THEN @ + 1 ELSE @,
                 !.phase = IF Found(main.kind, main.arg) THEN "returned"
                           ELSE IF TasksNonEmpty /\ main.count + 1 >= MaxTries THEN "raised"
                           ELSE "poll"]
    /\ UNCHANGED <<era, secured, auth, gatewayVars, calls, faults>>

\* A poll; the tries, or the time, come to an end with an exception.
TaskPoll ==
    /\ main.kind \in {"empty", "listed", "idle", "doc"} /\ main.phase = "poll"
    /\ main' = [main EXCEPT !.count = @ + 1,
                 !.phase = IF Found(main.kind, main.arg) THEN "returned"
                           ELSE IF main.count + 1 >= MaxTries THEN "raised"
                           ELSE "poll"]
    /\ UNCHANGED <<era, secured, auth, gatewayVars, calls, faults>>

-----------------------------------------------------------------------------
(* sg-replicate 2                                                          *)

There(i) == repl[i].status # "none"

\* start_replication2, with an id of its own.  It raises before its request without
\* credentials for the public port of the other side, with collections that do not match,
\* and without the resolver of custom conflict resolution.
StartReplication2(i, cont, complete) ==
    /\ era = 2 /\ ~There(i)
    /\ \/ /\ complete /\ Call("start", "put", i, Allowed)
          /\ repl' = [repl EXCEPT ![i].cont = cont]
       \/ ~complete /\ Call("start", "raised", i, FALSE) /\ UNCHANGED repl
    /\ UNCHANGED <<era, secured, auth, written, task, local, faults>>

PutReplication ==
    /\ main.kind = "start" /\ main.phase = "put"
    /\ LET i == main.arg IN
         Request(Allowed, repl' = [repl EXCEPT ![i] = Begins(@)] /\ local' = local \cup {i},
                 UNCHANGED <<repl, local>>, "returned")
    /\ UNCHANGED <<era, secured, auth, written, task, calls>>

\* stop_replication2_by_id removes the replication.
StopReplication2ById(i) ==
    /\ era = 2 /\ Call("remove", "delete", i, Allowed /\ There(i))
    /\ UNCHANGED <<era, secured, auth, gatewayVars, faults>>

DeleteReplication ==
    /\ main.phase = "delete"
    /\ LET i == main.arg IN
         Request(Allowed /\ There(i), repl' = [repl EXCEPT ![i] = NoRepl] /\ local' = local \ {i},
                 UNCHANGED <<repl, local>>, "returned")
    /\ UNCHANGED <<era, secured, auth, written, task, calls>>

\* modify_replication2_status: reset_replication2_checkpoint is a stop, a reset, a start.
ModifyReplication2(i, action) ==
    /\ era = 2 /\ Call(action, IF action = "reset" THEN "stop" ELSE action, i,
                       Allowed /\ There(i))
    /\ UNCHANGED <<era, secured, auth, gatewayVars, faults>>

\* Mutant: the request that resets the checkpoint is left out.
AfterActionNoReset ==
    IF main.kind # "reset" THEN "returned"
    ELSE CASE main.phase = "stop" -> "start"
           [] main.phase = "start" -> "returned"

AfterAction ==
    IF main.kind # "reset" THEN "returned"
    ELSE CASE main.phase = "stop" -> "reset"
           [] main.phase = "reset" -> "start"
           [] main.phase = "start" -> "returned"

PutStatus ==
    /\ main.kind \in {"start", "stop", "reset"} /\ main.phase \in {"start", "stop", "reset"}
    /\ LET i == main.arg IN
         Request(Allowed /\ CanTake(i, main.phase),
                 repl' = [repl EXCEPT ![i] = Obeyed(i, main.phase)], UNCHANGED repl, AfterAction)
    /\ UNCHANGED <<era, secured, auth, written, task, local, calls>>

-----------------------------------------------------------------------------
(* Waits for replications                                                  *)

\* wait_until_sgw_replication_done, with an expectation of documents for the directions
\* in flags.
Wait(i, flags) ==
    /\ era = 2 /\ There(i)
    /\ Ended /\ calls < MaxCalls /\ calls' = calls + 1
    /\ main' = [NoWait EXCEPT !.kind = "wait", !.phase = "poll", !.arg = i, !.flags = flags]
    /\ SetAuth /\ UNCHANGED <<era, secured, gatewayVars, faults>>

\* Status starting counts twice.  The loop ends with all expected directions given up, or
\* at the limit, which raises only when it is met exactly.
LoopEnds(count, given) ==
    CASE main.flags \ given # {} /\ count < MaxTimes -> "poll"
      [] count = MaxTimes -> "raised"
      [] OTHER -> "returned"

\* The bookkeeping of one direction that is expected.
Progress(s) == repl[main.arg].sent[s] > main.prev[s]

\* Mutant: progress does not restart the count.
RetriesKept(s) == IF main.retry[s] = RetryMax THEN RetryMax
                  ELSE IF Progress(s) THEN main.retry[s] ELSE main.retry[s] + 1

Retries(s) == IF main.retry[s] = RetryMax THEN RetryMax
              ELSE IF Progress(s) THEN 0 ELSE main.retry[s] + 1

\* How long the counter of a direction has really stood still, in polls.
Quiet(s) == IF s \in main.fresh THEN 0
            ELSE IF main.quiet[s] = RetryMax THEN RetryMax ELSE main.quiet[s] + 1

WaitRunning ==
    LET expected == [s \in Streams |-> s \in main.flags]
        given == {s \in main.flags : s \in main.given \/ main.retry[s] = RetryMax}
    IN [main EXCEPT
          !.retry = [s \in Streams |-> IF expected[s] THEN Retries(s) ELSE 0],
          !.prev = [s \in Streams |-> IF expected[s] /\ main.retry[s] < RetryMax /\ Progress(s)
                                      THEN repl[main.arg].sent[s] ELSE @[s]],
          !.given = given, !.count = @ + 1, !.saw = "running",
          !.fresh = {}, !.quiet = [s \in Streams |-> Quiet(s)],
          !.long = @ \cup {s \in Streams : main.quiet[s] = RetryMax},
          !.phase = LoopEnds(main.count + 1, given)]

\* Mutant: only status running keeps the loop.
WaitPollRunningOnly ==
    /\ main.kind = "wait" /\ main.phase = "poll"
    /\ LET status == repl[main.arg].status IN
         main' = IF status = "running" THEN WaitRunning
                 ELSE [main EXCEPT !.saw = status, !.phase = "returned"]
    /\ UNCHANGED <<era, secured, auth, gatewayVars, calls, faults>>

WaitPoll ==
    /\ main.kind = "wait" /\ main.phase = "poll"
    /\ LET status == repl[main.arg].status IN
         main' = CASE status = "starting" ->
                        [main EXCEPT !.count = @ + 2, !.saw = status,
                                     !.fresh = {}, !.quiet = [s \in Streams |-> Quiet(s)],
                                     !.phase = LoopEnds(main.count + 2, main.given)]
                   [] status = "running" -> WaitRunning
                   [] OTHER -> [main EXCEPT !.saw = status, !.phase = "returned"]
    /\ UNCHANGED <<era, secured, auth, gatewayVars, calls, faults>>

\* replication_status_poll: an error raises, the time limit is only logged.
StatusPoll(i) ==
    /\ era = 2 /\ There(i) /\ Call("status", "poll", i, FALSE)
    /\ SetAuth /\ UNCHANGED <<era, secured, gatewayVars, faults>>

PollStatus ==
    /\ main.kind = "status" /\ main.phase = "poll"
    /\ LET status == repl[main.arg].status IN
         main' = [main EXCEPT !.count = @ + 1, !.saw = status,
                    !.phase = IF status = "error" THEN "raised"
                              ELSE IF status = "stopped" \/ main.count + 1 = MaxTries
                              THEN "returned" ELSE "poll"]
    /\ UNCHANGED <<era, secured, auth, gatewayVars, calls, faults>>

\* get_sgreplicate2_active_tasks and get_replications_count: the number that is expected,
\* or the one after the last try.
Count(kind, expected) ==
    /\ era = 2 /\ Call(kind, "poll", expected, FALSE)
    /\ SetAuth /\ UNCHANGED <<era, secured, gatewayVars, faults>>

Active == {i \in Ids : repl[i].status \in {"starting", "running"}}

PollCount ==
    /\ main.kind \in {"active", "local"} /\ main.phase = "poll"
    /\ LET n == Cardinality(IF main.kind = "active" THEN Active ELSE local) IN
         main' = [main EXCEPT !.count = @ + 1,
                    !.phase = IF n = main.arg \/ main.count + 1 = MaxTries THEN "returned"
                              ELSE "poll"]
    /\ UNCHANGED <<era, secured, auth, gatewayVars, calls, faults>>

\* An answer to any poll is lost, or not 200; so is the late answer to a one-shot start.
PollLost ==
    /\ main.phase \in {"poll", "post"} /\ Fault /\ Goes("raised")
    /\ UNCHANGED <<era, secured, auth, gatewayVars, calls>>

-----------------------------------------------------------------------------
CallStep ==
    \/ PostAnswered \/ StopTask \/ TaskPoll
    \/ PutReplication \/ DeleteReplication \/ PutStatus
    \/ WaitPoll \/ PollStatus \/ PollCount \/ PollLost

NewCall ==
    \/ \E cont, other \in BOOLEAN : StartPush(cont, other) \/ StartPull(cont, other)
    \/ \E k \in Tasks : \/ \E named \in BOOLEAN : StartReplication(k, named)
                        \/ StartSession(k) \/ StopById(k) \/ StopSession(k)
                        \/ \E kind \in {"empty", "listed", "idle", "doc"} : WaitFor(kind, k)
    \/ \E cont \in BOOLEAN : StopPush(cont) \/ StopPull(cont)
    \/ \E i \in Ids : \/ \E cont, complete \in BOOLEAN : StartReplication2(i, cont, complete)
                      \/ StopReplication2ById(i) \/ StatusPoll(i)
                      \/ \E action \in {"start", "stop", "reset"} : ModifyReplication2(i, action)
                      \/ \E flags \in SUBSET Streams : Wait(i, flags)
    \/ \E kind \in {"active", "local"}, n \in 0..Cardinality(Ids) : Count(kind, n)

Moves == (\E k \in Tasks : TaskMoves(k)) \/ (\E i \in Ids : ReplMoves(i))

ReplNext ==
    \/ CallStep \/ NewCall \/ Moves
    \/ \E s \in Streams : DocAdded(s)
    \/ \E is \in SUBSET Ids : Assign(is)

\* Every loop sleeps and polls again; the gateway works on.
ReplSpec == ReplInit /\ [][ReplNext]_replVars /\ WF_replVars(CallStep) /\ WF_replVars(Moves)

-----------------------------------------------------------------------------
(* Properties                                                              *)

ReplTypeOK ==
    /\ main.phase \in {"returned", "raised", "poll", "post", "cancel", "put", "delete",
                       "start", "stop", "reset"}
    /\ main.count <= MaxTimes + MaxTries + 1
    /\ \A s \in Streams : /\ main.retry[s] \in 0..RetryMax
                          /\ \A i \in Ids : /\ repl[i].look[s] <= written[s]
                                            /\ main.kind = "wait" /\ main.arg = i =>
                                                 main.prev[s] <= repl[i].sent[s]
    /\ \A k \in Tasks : task[k].there <= written[k[1]]
    /\ local \subseteq {i \in Ids : There(i)}

\* wait_until_sgw_replication_done leaves a replication that runs only when the counters
\* of all expected directions have stood still for retry_max_count polls in a row before, or
\* when the double count of status starting took it past its limit.
GivesUpLate ==
    main.kind = "wait" /\ main.phase = "returned" /\ main.saw \in {"starting", "running"} =>
        main.flags \subseteq main.long \/ main.count > MaxTimes

\* The run of a one-shot replication that nobody cut short has moved all documents that
\* were there when it was started.
MovedAll(i) ==
    repl[i].cont \/ repl[i].cut \/ \A s \in Streams : repl[i].look[s] >= repl[i].goal[s]

\* A wait for a one-shot replication that returns, and not by its limit, returns with all
\* moved: wait_until_sgw_replication_done when it saw the replication stopped, or did not
\* see it run although documents were expected; replication_status_poll when it saw it
\* stopped, or returned before its last poll.  An idle task has moved all as well.
DoneMeansMoved ==
    /\ main.kind = "wait" /\ main.phase = "returned" =>
         \/ /\ main.saw # "stopped"
            /\ (main.saw # "starting" \/ main.flags = {} \/ main.count > MaxTimes)
         \/ MovedAll(main.arg)
    /\ main.kind = "status" /\ main.phase = "returned" =>
         (main.saw # "stopped" /\ main.count = MaxTries) \/ MovedAll(main.arg)
    /\ main.kind = "idle" /\ main.phase = "returned" =>
         task[main.arg].there >= task[main.arg].goal

\* After a stop and a wait for no active tasks, no cancelled continuous task is left that
\* could still move a document.
EmptyMeansOver ==
    main.kind = "empty" /\ main.phase = "returned" =>
        \A k \in Tasks : k[2] => task[k].status # "going"

\* A reset that returns has the replication look at all documents again: what it has
\* looked at, it has looked at in the run that the reset began, and when it has stopped it
\* has looked at all.
ResetLooksAgain ==
    main.kind = "reset" /\ main.phase = "returned" =>
        LET r == repl[main.arg] IN
          /\ r.look = r.sent
          /\ r.status = "stopped" => \A s \in Streams : r.look[s] >= r.goal[s]

\* Without faults a call fails only without the replication it is about, without the
\* credentials that only methods of Admin set, or at a time limit.
CalmSucceeds == faults = 0 /\ main.fit => main.phase # "raised"

\* Every call returns or raises.
CallsEnd == ~Ended ~> Ended

\* A wait, a stop or a reset of a replication that returned has brought about what a test
\* goes on from: documents moved, nothing moving, or all looked at again.
ReturnMeansDone == ReplTypeOK /\ DoneMeansMoved /\ EmptyMeansOver /\ ResetLooksAgain

=============================================================================
