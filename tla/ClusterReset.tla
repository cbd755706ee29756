----------------------------- MODULE ClusterReset -----------------------------
(***************************************************************************)
(* Cluster.reset of libraries/testkit/cluster.py, the procedure that every *)
(* functional test starts from: stop and wipe the Sync Gateways and the    *)
(* accelerators, empty the server, create the buckets of the configuration *)
(* and start again.  It calls delete_buckets and create_buckets, whose     *)
(* steps are those of BucketAdmin.                                         *)
(*                                                                         *)
(* A playbook runs on all hosts of its group; its status is 0 when it      *)
(* succeeded on all of them, and otherwise it did its work on some.        *)
(***************************************************************************)
EXTENDS BucketAdmin

CONSTANTS
    Gateways,       \* hosts that run sync_gateway
    Accels,         \* hosts that run sg_accel
    Configs,        \* arguments of reset: [mode, buckets] of the file, and sgdb_creation
    Cpcs,           \* sync_gateway >= 3.0.0 with persistent configuration: which cases
    FailingSteps,   \* playbooks and REST calls of reset itself that may fail
    MaxResets       \* bound on the resets of a test session

ASSUME ResetAssumption ==
    /\ IsFiniteSet(Gateways) /\ IsFiniteSet(Accels)
    /\ Configs \subseteq [mode : {"cc", "di"}, buckets : SUBSET Buckets \ {{}}, sgdb_creation : BOOLEAN]
    /\ Cpcs \subseteq BOOLEAN
    /\ MaxResets \in Nat

VARIABLES
    rpc,      \* where reset is
    config,   \* the arguments it was called with
    cpc,      \* does the cluster use persistent configuration?
    sg,       \* [Gateways -> does the process run?]
    sgConf,   \* [Gateways -> the configuration and logs on its disk]
    ac,       \* [Accels -> does the process run?]
    acConf,   \* [Accels -> the configuration and logs on its disk]
    admin,    \* the user bucket-admin exists
    pushed,   \* gateways that were sent their database configurations
    calm,     \* this reset began after the last fault
    resets    \* resets so far

hosts == <<sg, sgConf, ac, acConf>>
reset == <<rpc, config, cpc, hosts, admin, pushed, calm, resets>>
allVars == <<vars, reset>>

ResetInit ==
    /\ AdminInit
    /\ rpc = "testing" /\ config \in Configs /\ cpc \in Cpcs
    /\ sg \in [Gateways -> BOOLEAN] /\ ac \in [Accels -> BOOLEAN]
    /\ sgConf = [g \in Gateways |-> "old"] /\ acConf = [a \in Accels |-> "old"]
    /\ admin = FALSE /\ pushed = {}
    /\ calm = FALSE /\ resets = 0

Ended == {"done", "raised", "testing"}

\* The step of that name may fail now.
Fails(step) == faulty /\ step \in FailingSteps

\* f after the playbook ran on the hosts H.
On(f, H, v) == [h \in DOMAIN f |-> IF h \in H THEN v ELSE f[h]]

\* The playbook runs on all hosts and reset goes on at `next', or it fails on some of
\* them and the assertion on its status raises.  H is where it did its work.
Playbook(step, group, next, H) ==
    \/ H = group /\ rpc' = next
    \/ Fails(step) /\ H \subseteq group /\ rpc' = "raised"

\* A test calls reset with its configuration, and may ask it not to create databases.
Reset ==
    /\ rpc \in Ended /\ resets < MaxResets
    /\ resets' = resets + 1
    /\ calm' = ~faulty
    /\ config' \in Configs
    /\ rpc' = "stopsg"
    /\ UNCHANGED <<vars, cpc, hosts, admin, pushed>>

\* Mutant: the status of stop-sync-gateway.yml is not asserted.
StopSyncGatewayUnchecked ==
    /\ rpc = "stopsg"
    /\ \E H \in SUBSET Gateways :
        /\ H = Gateways \/ Fails("stopsg")
        /\ rpc' = "stopac"
        /\ sg' = On(sg, H, FALSE)
    /\ UNCHANGED <<vars, config, cpc, sgConf, ac, acConf, admin, pushed, calm, resets>>

StopSyncGateway ==
    /\ rpc = "stopsg"
    /\ \E H \in SUBSET Gateways :
        /\ Playbook("stopsg", Gateways, "stopac", H)
        /\ sg' = On(sg, H, FALSE)
    /\ UNCHANGED <<vars, config, cpc, sgConf, ac, acConf, admin, pushed, calm, resets>>

StopSgAccel ==
    /\ rpc = "stopac"
    /\ \E H \in SUBSET Accels :
        /\ Playbook("stopac", Accels, "wipesg", H)
        /\ ac' = On(ac, H, FALSE)
    /\ UNCHANGED <<vars, config, cpc, sg, sgConf, acConf, admin, pushed, calm, resets>>

DeleteSyncGatewayArtifacts ==
    /\ rpc = "wipesg"
    /\ \E H \in SUBSET Gateways :
        /\ Playbook("wipesg", Gateways, "wipeac", H)
        /\ sgConf' = On(sgConf, H, "none")
    /\ UNCHANGED <<vars, config, cpc, sg, ac, acConf, admin, pushed, calm, resets>>

DeleteSgAccelArtifacts ==
    /\ rpc = "wipeac"
    /\ \E H \in SUBSET Accels :
        /\ Playbook("wipeac", Accels, "delete", H)
        /\ acConf' = On(acConf, H, "none")
    /\ UNCHANGED <<vars, config, cpc, sg, sgConf, ac, admin, pushed, calm, resets>>

\* servers[0].delete_buckets() is called and, later, returns or raises.
CallDeleteBuckets ==
    /\ rpc = "delete"
    /\ DeleteBuckets
    /\ rpc' = "deleting"
    /\ UNCHANGED <<config, cpc, hosts, admin, pushed, calm, resets>>

\* Mutant: an exception of delete_buckets is ignored.
BucketsDeletedAnyway ==
    /\ rpc = "deleting" /\ Returned
    /\ rpc' = (IF cpc THEN "create" ELSE "validate")
    /\ Forget
    /\ UNCHANGED <<server, op, pc, config, cpc, hosts, admin, pushed, calm, resets>>

BucketsDeleted ==
    /\ rpc = "deleting" /\ Returned
    /\ rpc' = (IF pc = "raised" THEN "raised" ELSE IF cpc THEN "create" ELSE "validate")
    /\ Forget
    /\ UNCHANGED <<server, op, pc, config, cpc, hosts, admin, pushed, calm, resets>>

\* validate_cluster, without persistent configuration only.
ValidateCluster ==
    /\ rpc = "validate"
    /\ rpc' = (IF Gateways = {} \/ (config.mode = "di" /\ Accels = {}) THEN "raised" ELSE "create")
    /\ UNCHANGED <<vars, config, cpc, hosts, admin, pushed, calm, resets>>

CallCreateBuckets ==
    /\ rpc = "create"
    /\ CreateBuckets(config.buckets)
    /\ rpc' = "creating"
    /\ UNCHANGED <<config, cpc, hosts, admin, pushed, calm, resets>>

BucketsCreated ==
    /\ rpc = "creating" /\ Returned
    /\ rpc' = (IF pc = "raised" THEN "raised" ELSE "ready")
    /\ Forget
    /\ UNCHANGED <<server, op, pc, config, cpc, hosts, admin, pushed, calm, resets>>

\* wait_for_ready_state once more, then the user of all buckets (persistent
\* configuration only).
ServerReady ==
    /\ rpc = "ready"
    /\ \/ rpc' = "block" /\ admin' = (admin \/ cpc)
       \/ Fails("ready") /\ rpc' = "raised" /\ admin' \in {admin, admin \/ cpc}
    /\ UNCHANGED <<vars, config, cpc, hosts, pushed, calm, resets>>

\* block-http-ports.yml, which runs when the server is encrypted and must succeed.
BlockHttpPorts ==
    /\ rpc = "block"
    /\ rpc' = "startsg" \/ (Fails("block") /\ rpc' = "raised")
    /\ UNCHANGED <<vars, config, cpc, hosts, admin, pushed, calm, resets>>

\* Mutant: the status of start-sync-gateway.yml is not asserted.
StartSyncGatewayUnchecked ==
    /\ rpc = "startsg"
    /\ \E H \in SUBSET Gateways :
        /\ H = Gateways \/ Fails("startsg")
        /\ rpc' = (IF config.mode = "di" THEN "startac" ELSE "push")
        /\ sg' = On(sg, H, TRUE)
        /\ sgConf' = On(sgConf, H, "new")
    /\ pushed' = {}
    /\ UNCHANGED <<vars, config, cpc, ac, acConf, admin, calm, resets>>

\* The playbook deploys the configuration and starts the service.
StartSyncGateway ==
    /\ rpc = "startsg"
    /\ \E H \in SUBSET Gateways :
        /\ Playbook("startsg", Gateways, IF config.mode = "di" THEN "startac" ELSE "push", H)
        /\ sg' = On(sg, H, TRUE)
        /\ sgConf' = On(sgConf, H, "new")
    /\ pushed' = {}
    /\ UNCHANGED <<vars, config, cpc, ac, acConf, admin, calm, resets>>

StartSgAccel ==
    /\ rpc = "startac"
    /\ \E H \in SUBSET Accels :
        /\ Playbook("startac", Accels, "pindex", H)
        /\ ac' = On(ac, H, TRUE)
        /\ acConf' = On(acConf, H, "new")
    /\ UNCHANGED <<vars, config, cpc, sg, sgConf, admin, pushed, calm, resets>>

\* validate_cbgt_pindex_distribution_retry: an exception without accelerators, or
\* when the index is not spread over all of them in ten checks.
ValidatePindexes ==
    /\ rpc = "pindex"
    /\ \/ rpc' = (IF Accels = {} THEN "raised" ELSE "push")
       \/ Fails("pindex") /\ rpc' = "raised"
    /\ UNCHANGED <<vars, config, cpc, hosts, admin, pushed, calm, resets>>

\* With persistent configuration, and unless the caller creates the databases itself:
\* send_dbconfig_as_restCall for one gateway after the other.
Pushes == cpc /\ config.sgdb_creation

PushDbConfig ==
    /\ rpc = "push" /\ Pushes
    /\ \E g \in Gateways \ pushed :
        \/ pushed' = pushed \cup {g} /\ UNCHANGED rpc
        \/ Fails("push") /\ rpc' = "raised" /\ UNCHANGED pushed
    /\ UNCHANGED <<vars, config, cpc, hosts, admin, calm, resets>>

ResetDone ==
    /\ rpc = "push" /\ (Pushes => pushed = Gateways)
    /\ rpc' = "done"
    /\ UNCHANGED <<vars, config, cpc, hosts, admin, pushed, calm, resets>>

\* The test session is interrupted in the middle of a reset.
Interrupt ==
    /\ faulty /\ rpc \notin Ended
    /\ rpc' = "raised" /\ pc' = "raised"
    /\ Forget
    /\ UNCHANGED <<server, op, config, cpc, hosts, admin, pushed, calm, resets>>

\* A test stops and starts gateways and accelerators as it likes.
Test ==
    /\ rpc \in Ended
    /\ rpc' = "testing"
    /\ sg' \in [Gateways -> BOOLEAN] /\ ac' \in [Accels -> BOOLEAN]
    /\ UNCHANGED <<vars, config, cpc, sgConf, acConf, admin, pushed, calm, resets>>

\* A test creates a bucket of its own, with its user, as some of them do.
TestBucket(b) ==
    /\ rpc = "testing" /\ b \notin exists /\ Allocated < Ram
    /\ exists' = exists \cup {b} /\ users' = users \cup {b}
    /\ quota' = [quota EXCEPT ![b] = 1]
    /\ UNCHANGED <<dying, indexed, prepared, faulty, client, reset>>

\* The server meanwhile: indexes are built by gateways that run.
Meanwhile ==
    /\ \/ Calm
       \/ \E b \in Buckets : DropIndex(b) \/ FinishDelete(b)
       \/ \E b \in Buckets, g \in Gateways : sg[g] /\ Index(b)
    /\ UNCHANGED reset

ResetStep ==
    \/ StopSyncGateway \/ StopSgAccel
    \/ DeleteSyncGatewayArtifacts \/ DeleteSgAccelArtifacts
    \/ CallDeleteBuckets \/ BucketsDeleted \/ ValidateCluster
    \/ CallCreateBuckets \/ BucketsCreated \/ ServerReady \/ BlockHttpPorts
    \/ StartSyncGateway \/ StartSgAccel \/ ValidatePindexes
    \/ PushDbConfig \/ ResetDone
    \/ rpc \in {"deleting", "creating"} /\ OpStep /\ UNCHANGED reset

ResetNext ==
    \/ Reset \/ ResetStep \/ Interrupt \/ Meanwhile
    \/ Test \/ \E b \in Buckets : TestBucket(b)

ResetSpec == ResetInit /\ [][ResetNext]_allVars

ResetFairSpec ==
    /\ ResetSpec
    /\ WF_allVars(ResetStep /\ pc \notin {"prepareds", "indexes"})
    /\ ~QueryErrors => WF_allVars(ResetStep /\ pc \in {"prepareds", "indexes"})

-----------------------------------------------------------------------------
(* Properties                                                              *)

\* What a test may rely on when reset returns: all gateways run the configuration of
\* this reset, the server has its buckets and no others, each with its user, and
\* accelerators run in distributed index mode only.  With persistent configuration the
\* gateways' user exists, and every gateway was sent its databases, or none was, as the
\* caller asked by sgdb_creation: databases of an earlier reset do not count.
ResetPost ==
    rpc = "done" =>
        /\ \A g \in Gateways : sg[g] /\ sgConf[g] = "new"
        /\ \A a \in Accels : ac[a] <=> config.mode = "di"
        /\ exists = config.buckets /\ config.buckets \subseteq users
        /\ cpc => admin
        /\ pushed = (IF cpc /\ config.sgdb_creation THEN Gateways ELSE {})

\* delete_buckets that returns has left no bucket, whatever its requests met and
\* however late the server carried them out.
DeletedAll ==
    (rpc \in {"deleting", "validate", "create"} /\ pc = "ok") => exists = {}

\* Buckets are not deleted under a gateway or an accelerator that runs.
QuietDelete ==
    rpc = "deleting" => /\ \A g \in Gateways : ~sg[g]
                        /\ \A a \in Accels : ~ac[a]

\* A gateway is started with the new configuration only when its buckets are there.
StartsOnBuckets ==
    (rpc \in {"block", "startsg", "startac", "pindex", "push"})
        => config.buckets \subseteq exists \cap users /\ dying = {}

\* Whatever state failed and interrupted resets left behind, a reset that meets no
\* fault succeeds.
CalmResetSucceeds == calm => rpc # "raised"

\* A reset comes to an end.
ResetEnds == rpc \notin Ended ~> rpc \in Ended

\* A reset that returned has brought about what its configuration asks for, and so has
\* delete_buckets in the middle of it.
ResetRight == TypeOK /\ ResetPost /\ DeletedAll

\* The steps of a reset keep their order under failing playbooks: no bucket is deleted
\* under a running gateway, and no gateway is started before its buckets.
SafeOrder == QuietDelete /\ StartsOnBuckets

===============================================================================
