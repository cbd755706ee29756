------------------------------ MODULE ServerNodes ------------------------------
(* Nodes of a Couchbase Server cluster as the class CouchbaseServer moves them:    *)
(* rebalance_in, rebalance_out, rebalance_server, add_node, recover, start, stop   *)
(* and upgrade_server (keywords/couchbaseserver.py).  A test makes one call at a   *)
(* time, by way of a primary node; the cluster, the processes of its nodes and the *)
(* rebalance go on meanwhile.  Every request is a step, and its answer may get     *)
(* lost after it was obeyed.                                                       *)
EXTENDS Naturals, FiniteSets

CONSTANTS
    Nodes,       \* cluster_servers: the nodes of the topology
    Primary,     \* the node that is asked
    MaxTries,    \* POSTs of a rebalance or a recovery (5, 10 or 30 in the code)
    MaxOps,      \* calls a test makes
    MaxFaults    \* requests lost or refused, rebalances failed, commands failed

ASSUME ServerAssumption ==
    /\ Primary \in Nodes
    /\ MaxTries \in Nat \ {0} /\ MaxOps \in Nat /\ MaxFaults \in Nat

VARIABLES
    memb,     \* what the cluster knows of a node
    up,       \* the state of its process
    task,     \* the rebalance in /pools/default/tasks
    leave,    \* the nodes the running rebalance ejects
    op,       \* the call under way
    ops, faults

serverVars == <<memb, up, task, leave, op, ops, faults>>

\* startCustom is start(custom_port=True); upgradeAll is upgrade_server without a target.
Kinds == {"in", "out", "server", "add", "recover", "start", "startCustom", "stop",
          "upgrade", "upgradeAll"}
Member == {"active", "added", "failed", "recover", "leaving", "out"}
Process == {"up", "stopping", "down", "booting"}

Listed == {n \in Nodes : memb[n] \notin {"leaving", "out"}}
Failed == {n \in Nodes : memb[n] = "failed"}
AllUp == \A n \in Listed : up[n] = "up"

\* The node that is asked is down after an upgrade of all nodes that failed, and is
\* booting in one that is waited for.
Answers == up[Primary] = "up"

NoOp == [kind |-> "none", node |-> Primary, phase |-> "ok", tries |-> 0,
         fit |-> FALSE, calm |-> TRUE, sure |-> FALSE, broken |-> FALSE]

ServerInit ==
    /\ memb = [n \in Nodes |-> "active"]
    /\ up = [n \in Nodes |-> "up"]
    /\ task \in {"none", "idle"}
    /\ leave = {}
    /\ op = NoOp /\ ops = 0 /\ faults = 0

Ended == op.phase \in {"ok", "raised"}

Goto(phase) == op' = [op EXCEPT !.phase = phase]

Fault == faults < MaxFaults /\ faults' = faults + 1

-----------------------------------------------------------------------------
(* The cluster                                                             *)

\* POST /controller/rebalance: refused while one runs, and unless knownNodes are all
\* the nodes the cluster knows.  Failed over nodes that are not marked for recovery
\* are ejected with the others.
CanRebalance == Answers /\ task # "running" /\ Listed = Nodes

PostRebalance(eject, reply) ==
    \/ /\ CanRebalance
       /\ task' = "running" /\ leave' = eject \cup Failed
       /\ \/ reply = "200" /\ UNCHANGED faults
          \/ reply = "lost" /\ Fault
    \/ /\ UNCHANGED <<task, leave>>
       /\ \/ reply = (IF Answers THEN "refused" ELSE "lost") /\ ~CanRebalance
             /\ UNCHANGED faults
          \/ reply \in {"refused", "lost"} /\ Fault

\* A rebalance that ends well makes added and recovered nodes active; an ejected node
\* cannot be added again at once.
RebalanceEnds ==
    /\ task = "running" /\ \A n \in Listed \ leave : up[n] = "up"
    /\ task' = "idle" /\ leave' = {}
    /\ memb' = [n \in Nodes |-> IF n \in leave THEN "leaving"
                                ELSE IF memb[n] \in {"added", "recover"} THEN "active"
                                ELSE memb[n]]
    /\ UNCHANGED <<up, op, ops, faults>>

RebalanceFails ==
    /\ task = "running"
    /\ IF \A n \in Listed \ leave : up[n] = "up" THEN Fault ELSE UNCHANGED faults
    /\ task' = "idle" /\ leave' = {}
    /\ op' = IF Ended THEN op ELSE [op EXCEPT !.broken = TRUE, !.calm = FALSE]
    /\ UNCHANGED <<memb, up, ops>>

\* What goes on at a node: an ejected one comes to rest, one that is down is failed
\* over, processes start and stop.
Settle(n) ==
    /\ memb[n] = "leaving" /\ memb' = [memb EXCEPT ![n] = "out"]
    /\ UNCHANGED <<up, task, leave, op, ops, faults>>

AutoFailover(n) ==
    /\ up[n] = "down" /\ memb[n] = "active" /\ task # "running"
    /\ memb' = [memb EXCEPT ![n] = "failed"]
    /\ UNCHANGED <<up, task, leave, op, ops, faults>>

ProcessMoves(n) ==
    /\ up[n] \in {"stopping", "booting"}
    /\ up' = [up EXCEPT ![n] = IF @ = "stopping" THEN "down" ELSE "up"]
    /\ UNCHANGED <<memb, task, leave, op, ops, faults>>

-----------------------------------------------------------------------------
(* The calls                                                               *)

\* A call is made the way the tests make it.
Fit(kind, n) ==
    /\ task # "running"
    /\ CASE kind = "in" -> memb[n] \in {"added", "recover"} /\ Listed = Nodes /\ AllUp
         [] kind \in {"out", "server"} -> Listed = Nodes /\ Failed = {} /\ AllUp
         [] kind = "add" -> /\ memb[n] \in {"leaving", "out"} /\ up[n] \in {"up", "booting"}
                            /\ Answers
         [] kind = "recover" -> memb[n] = "failed" /\ Answers
         [] kind \in {"start", "startCustom"} -> /\ up[n] = "down"
                                                /\ \A m \in Listed \ {n} : up[m] = "up"
         [] kind = "stop" -> up[n] = "up"
         [] OTHER -> AllUp

Begin(kind, n) ==
    /\ Ended /\ ops < MaxOps /\ n # Primary /\ ops' = ops + 1
    /\ op' = [NoOp EXCEPT !.kind = kind, !.node = n, !.phase = "post",
                          !.fit = Fit(kind, n)]
    /\ UNCHANGED <<memb, up, task, leave, faults>>

\* The rebalance that rebalance_in asked for was accepted, heard of or not, while the
\* node was to become a member or to stay one.
Sure == op.sure \/ (task # "running" /\ task' = "running"
                      /\ memb[op.node] \in {"added", "recover", "active"})

\* The five POSTs of rebalance_in: refusals and lost answers alike are logged.
RebalanceIn ==
    /\ op.kind = "in" /\ op.phase = "post"
    /\ \E reply \in {"200", "refused", "lost"} :
         /\ PostRebalance({}, reply)
         /\ op' = [op EXCEPT
              !.phase = IF reply = "200" \/ op.tries + 1 = MaxTries THEN "find" ELSE "post",
              !.tries = @ + 1,
              !.calm = @ /\ faults' = faults,
              !.sure = Sure]
    /\ UNCHANGED <<memb, up, ops>>

\* rebalance_out repeats a refused POST and then raises; a lost answer raises at once.
RebalanceOut ==
    /\ op.kind = "out" /\ op.phase = "post"
    /\ \E reply \in {"200", "refused", "lost"} :
         /\ PostRebalance({op.node}, reply)
         /\ op' = [op EXCEPT
              !.phase = IF reply = "200" THEN "find"
                        ELSE IF reply = "lost" \/ op.tries + 1 = MaxTries THEN "raised"
                        ELSE "post",
              !.tries = @ + 1,
              !.calm = @ /\ faults' = faults]
    /\ UNCHANGED <<memb, up, ops>>

RebalanceServer ==
    /\ op.kind = "server" /\ op.phase = "post"
    /\ \E reply \in {"200", "refused", "lost"} :
         /\ PostRebalance({}, reply)
         /\ op' = [op EXCEPT !.phase = IF reply = "200" THEN "find" ELSE "raised",
                             !.calm = @ /\ faults' = faults]
    /\ UNCHANGED <<memb, up, ops>>

\* _get_tasks raises on any error.
GetTasks(phase) ==
    /\ \/ Answers /\ Goto(phase) /\ UNCHANGED faults
       \/ /\ IF Answers THEN Fault ELSE UNCHANGED faults
          /\ op' = [op EXCEPT !.phase = "raised", !.calm = FALSE]
    /\ UNCHANGED <<memb, up, task, leave, ops>>

\* Mutant: does not wait for the running rebalance to end.
WaitForRebalanceOnce ==
    \/ op.phase = "find" /\ task # "none" /\ GetTasks("wait")
    \/ op.phase = "wait" /\ GetTasks("ok")

\* _wait_for_rebalance_complete: first until there is a rebalance among the tasks,
\* whichever it is, then until none is running.
WaitForRebalance ==
    \/ op.phase = "find" /\ task # "none" /\ GetTasks("wait")
    \/ op.phase = "wait" /\ task # "running" /\ GetTasks("ok")

\* add_node repeats its POST until it is accepted; a lost answer raises.
CanAdd(n) == Answers /\ memb[n] = "out" /\ up[n] = "up"

\* Mutant: the POST is not repeated.
AddNodeOnce ==
    /\ op.kind = "add" /\ op.phase = "post"
    /\ memb' = IF CanAdd(op.node) THEN [memb EXCEPT ![op.node] = "added"] ELSE memb
    /\ Goto(IF CanAdd(op.node) THEN "ok" ELSE "raised")
    /\ UNCHANGED <<up, task, leave, ops, faults>>

AddNode ==
    /\ op.kind = "add" /\ op.phase = "post"
    /\ \/ /\ CanAdd(op.node)
          /\ memb' = [memb EXCEPT ![op.node] = "added"]
          /\ \/ Goto("ok") /\ UNCHANGED faults
             \/ Fault /\ op' = [op EXCEPT !.phase = "raised", !.calm = FALSE]
       \/ /\ IF Answers THEN Fault ELSE UNCHANGED faults
          /\ op' = [op EXCEPT !.phase = "raised", !.calm = FALSE]
          /\ UNCHANGED memb
    /\ UNCHANGED <<up, task, leave, ops>>

\* recover: the node is marked for delta recovery, which it can be once it has been
\* failed over.  A refusal is repeated, up to MaxTries; an error of the connection is
\* no HTTPError and raises, before the request was obeyed or after it.
Recover ==
    /\ op.kind = "recover" /\ op.phase = "post"
    /\ LET obeyed == Answers /\ memb[op.node] \in {"failed", "recover"} IN
       \/ /\ obeyed /\ Goto("ok") /\ UNCHANGED faults
          /\ memb' = [memb EXCEPT ![op.node] = "recover"]
       \/ /\ IF Answers THEN Fault ELSE UNCHANGED faults
          /\ op' = [op EXCEPT !.phase = "raised", !.calm = FALSE]
          /\ \/ UNCHANGED memb
             \/ obeyed /\ memb' = [memb EXCEPT ![op.node] = "recover"]
       \/ /\ Answers /\ (IF obeyed THEN Fault ELSE UNCHANGED faults)
          /\ op' = [op EXCEPT !.tries = @ + 1, !.calm = @ /\ faults' = faults,
                     !.phase = IF op.tries + 1 = MaxTries THEN "raised" ELSE "post"]
          /\ UNCHANGED memb
    /\ UNCHANGED <<up, task, leave, ops>>

\* The commands of start and stop, and the playbook of upgrade_server, which stops the
\* process, replaces its package and starts it, on the target or on every node.  One
\* that fails leaves some of them down, or started and not waited for.
Target == IF op.kind = "upgradeAll" THEN Nodes ELSE {op.node}

Commanded(n) ==
    CASE op.kind \in {"upgrade", "upgradeAll"} -> "booting"
      [] op.kind \in {"start", "startCustom"} /\ up[n] \in {"down", "stopping"} -> "booting"
      [] op.kind = "stop" /\ up[n] \in {"up", "booting"} -> "stopping"
      [] OTHER -> up[n]

Command ==
    /\ op.kind \in {"start", "startCustom", "stop", "upgrade", "upgradeAll"}
    /\ op.phase = "post"
    /\ \/ /\ up' = [n \in Nodes |-> IF n \in Target THEN Commanded(n) ELSE up[n]]
          /\ Goto(IF op.kind = "startCustom" THEN "ok" ELSE "poll") /\ UNCHANGED faults
       \/ /\ Fault /\ op' = [op EXCEPT !.phase = "raised", !.calm = FALSE]
          /\ \E down, booting \in SUBSET Target :
               /\ op.kind \in {"upgrade", "upgradeAll"} \/ down \cup booting = {}
               /\ up' = [n \in Nodes |-> IF n \in down THEN "down"
                                         ELSE IF n \in booting THEN "booting" ELSE up[n]]
    /\ UNCHANGED <<memb, task, leave, ops>>

\* wait_for_ready_state asks the node itself in start and the primary in
\* upgrade_server, which knows nothing of a node that is not in its cluster.  With a
\* custom port start does not wait, as Command has it.
Healthy ==
    IF op.kind = "start" /\ op.node \notin Listed THEN up[op.node] = "up" ELSE AllUp

WaitForReadyState ==
    /\ op.kind \in {"start", "upgrade", "upgradeAll"} /\ op.phase = "poll" /\ Healthy
    /\ Goto("ok")
    /\ UNCHANGED <<memb, up, task, leave, ops, faults>>

\* _verify_stopped takes an error of the connection, whatever its cause, for a node
\* that is down, and asks again when it gets an answer.
VerifyStopped ==
    /\ op.kind = "stop" /\ op.phase = "poll"
    /\ \/ up[op.node] = "down" /\ Goto("ok") /\ UNCHANGED faults
       \/ up[op.node] # "down" /\ Fault /\ op' = [op EXCEPT !.phase = "ok", !.calm = FALSE]
    /\ UNCHANGED <<memb, up, task, leave, ops>>

\* Mutant: the polls of a stop have no time limit.
TimeoutPolls ==
    /\ op.phase \in {"find", "wait", "poll"} \/ (op.phase = "post" /\ op.kind = "add")
    /\ op.kind # "stop"
    /\ op' = [op EXCEPT !.phase = "raised", !.calm = FALSE]
    /\ UNCHANGED <<memb, up, task, leave, ops, faults>>

\* The time limit of the loops.
Timeout ==
    /\ op.phase \in {"find", "wait", "poll"} \/ (op.phase = "post" /\ op.kind = "add")
    /\ op' = [op EXCEPT !.phase = "raised", !.calm = FALSE]
    /\ UNCHANGED <<memb, up, task, leave, ops, faults>>

-----------------------------------------------------------------------------
CallStep ==
    \/ RebalanceIn \/ RebalanceOut \/ RebalanceServer \/ WaitForRebalance
    \/ AddNode \/ Recover \/ Command \/ WaitForReadyState \/ VerifyStopped

ServerNext ==
    \/ \E kind \in Kinds, n \in Nodes : Begin(kind, n)
    \/ CallStep \/ Timeout
    \/ RebalanceEnds \/ RebalanceFails
    \/ \E n \in Nodes : Settle(n) \/ AutoFailover(n) \/ ProcessMoves(n)

\* The thread of the test goes on, and its loops look at the clock.  Nothing is assumed
\* of the server.
ServerSpec ==
    ServerInit /\ [][ServerNext]_serverVars /\ WF_serverVars(CallStep \/ Timeout)

-----------------------------------------------------------------------------
(* Properties                                                              *)

ServerTypeOK ==
    /\ memb \in [Nodes -> Member] /\ up \in [Nodes -> Process]
    /\ task \in {"none", "idle", "running"} /\ leave \subseteq Nodes
    /\ op.kind \in Kinds \cup {"none"} /\ op.node \in Nodes
    /\ op.phase \in {"post", "find", "wait", "poll", "ok", "raised"}
    /\ op.tries \in 0..MaxTries
    /\ ops \in 0..MaxOps /\ faults \in 0..MaxFaults

\* A call that was made as the tests make it, and that met no fault and no time limit,
\* succeeds and has had its effect when it returns: also an add_node right after the
\* node was ejected, or after an upgrade that waited for the wrong node.  A start with a
\* custom port does not wait: it has started the process, which need not be up.
FitSucceeds ==
    op.fit /\ op.calm =>
        /\ op.phase # "raised"
        /\ op.phase = "ok" =>
             CASE op.kind = "in" -> memb[op.node] = "active"
               [] op.kind = "out" -> memb[op.node] \in {"leaving", "out"}
               [] op.kind = "server" -> \A n \in Nodes : memb[n] = "active"
               [] op.kind = "add" -> memb[op.node] = "added"
               [] op.kind = "recover" -> memb[op.node] = "recover"
               [] op.kind = "stop" -> up[op.node] = "down"
               [] op.kind = "start" -> up[op.node] = "up"
               [] op.kind = "startCustom" -> up[op.node] \in {"booting", "up"}
               [] OTHER -> AllUp

\* rebalance_in that returns True has waited for the rebalance the server accepted,
\* also when the answer was lost and the POST repeated: the node is a member, unless
\* that rebalance failed, which the wait cannot tell.  It says nothing when all the
\* POSTs were refused.
InWaited ==
    op.kind = "in" /\ op.phase = "ok" /\ op.sure =>
        task # "running" /\ (op.broken \/ memb[op.node] = "active")

\* rebalance_out that returns True has ejected the node, unless the rebalance failed:
\* it does not wait for the rebalance of somebody else, as rebalance_in may.
OutEjected ==
    op.kind = "out" /\ op.phase = "ok" =>
        op.broken \/ memb[op.node] \in {"leaving", "out"}

\* Every call comes to its end, whatever the server does.
CallEnds == ~Ended ~> Ended

\* True from rebalance_in or rebalance_out means that the rebalance this call asked for is
\* over, and that the node is where it should be unless that rebalance failed.
RebalanceTrue == ServerTypeOK /\ InWaited /\ OutEjected

=============================================================================
