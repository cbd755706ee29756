------------------------------ MODULE Gateways ------------------------------
(***************************************************************************)
(* Starting, stopping, restarting, upgrading and redeploying the Sync      *)
(* Gateways of a cluster, by the testkit objects and by the keywords,      *)
(* pushing the databases' configuration to them over the admin port, and   *)
(* provisioning the whole cluster.                                         *)
(*                                                                         *)
(* One operation runs at a time.  An operation renders a file (module      *)
(* GatewayVars), runs a playbook on its targets, and may push database     *)
(* configurations or verify versions.  A playbook may fail on any host at  *)
(* any of its phases; a gateway may die; a REST call may be refused.       *)
(***************************************************************************)
EXTENDS GatewayVars, Sequences, Functions

CONSTANTS GatewayList,     \* the gateways, in the order of the cluster file
          Accels,          \* the accelerators
          Versions,        \* versions that can be installed
          FlagSets,        \* flag sets the cluster configuration may hold
          CbsVersions,     \* versions of Couchbase Server
          DbList,          \* databases, in the order of a configuration
          PushConfigs,     \* configurations: database -> the parts it has
          MaxOps, MaxFaults

Gws == Range(GatewayList)
Hosts == Gws \cup Accels

\* The parts of a database's configuration that are pushed on their own.
Parts == {"users", "roles", "oidc"}

\* A cluster has a gateway, and its hosts have one role each; the databases of a
\* configuration are the keys of a dictionary.
ASSUME GatewayAssumption ==
  /\ GatewayList \in Seq(Gws) /\ GatewayList # <<>>
  /\ IsFiniteSet(Accels) /\ Gws \cap Accels = {}
  /\ DbList \in Seq(Range(DbList)) /\ IsInjective(DbList) /\ "" \notin Range(DbList)
  /\ Versions \subseteq Nat \ {0} /\ CbsVersions \subseteq Nat \ {0}
  /\ \A c \in PushConfigs :
       c \in [DOMAIN c -> SUBSET Parts] /\ DOMAIN c \subseteq Range(DbList)
  /\ MaxOps \in Nat /\ MaxFaults \in Nat

VARIABLES
  flags, cfgVersion, cbs,  \* what the cluster configuration says
  server,                  \* the version of Couchbase Server that runs (0: none)
  kw,                      \* server_scheme of the keywords' object
  made,                    \* the flags when the Cluster and its testkit objects were made
  host,                    \* host -> [up, version, file, running]
  op,                      \* the operation under way or the last one
  push,                    \* progress of send_dbconfig_as_restCall
  store,                   \* databases of the group, shared by all gateways
  mixed,                   \* a configuration with unlike databases was pushed
  loaded,                  \* the last configuration handed to a test
  nops, faults

gwvars == <<flags, cfgVersion, cbs, server, kw, made, host, op, push, store, mixed, loaded, nops, faults>>
world == <<flags, cfgVersion, cbs, server>>

\* A file: the flags and the versions of the gateway and of the server it was
\* rendered for, and its settings.
NoFile == [f |-> {}, v |-> 0]
File(f, v, vars) == [f |-> f, v |-> v, cbs |-> cbs, vars |-> vars, persistent |-> FALSE]
Bootstrap(f, v, vars) == [File(f, v, vars) EXCEPT !.persistent = TRUE]

\* push.gws and push.dbs: what is still to be served, in the order of the lists;
\* push.cfg: the dictionary, which loses its entries; push.given: as it was handed over.
NoPush == [cfg |-> <<>>, given |-> <<>>, gws |-> {}, dbs |-> {}, exist |-> {}, roles |-> "", users |-> "",
           orig |-> "", skipped |-> {}]
Absent == [exists |-> FALSE, of |-> "", oidc |-> FALSE, users |-> {}, roles |-> {}]

Persistent(v, f) == v >= 300 /\ "persistentOff" \notin f

Init ==
  /\ flags \in FlagSets /\ cfgVersion \in Versions /\ cbs \in CbsVersions
  /\ server = cbs
  /\ kw = "couchbase"
  /\ made = flags
  /\ LET file == IF Persistent(cfgVersion, flags)
                 THEN Bootstrap(flags, cfgVersion, SetupServerVars(flags, cfgVersion))
                 ELSE File(flags, cfgVersion, InstallVars(flags, cfgVersion)) IN
     host = [h \in Hosts |-> [up |-> TRUE, version |-> cfgVersion,
                              file |-> IF h \in Gws THEN file ELSE NoFile,
                              running |-> IF h \in Gws THEN file ELSE NoFile]]
  /\ op = [name |-> "none", targets |-> {}, version |-> 0, import |-> FALSE, old |-> 0,
           file |-> NoFile, todo |-> <<>>, phase |-> "idle", kind |-> "none"]
  /\ push = NoPush
  /\ store = [d \in Range(DbList) |-> Absent]
  /\ mixed = FALSE /\ loaded = NoFile
  /\ nops = 0 /\ faults = 0

Over == op.phase \in {"idle", "ok", "status", "raised"}

(***************************************************************************)
(* Playbooks                                                               *)
(***************************************************************************)

\* [mutant] an upgrade that deploys the file before it stops the gateway.
GatewayPhasesUpgrade ==
  [stop       |-> <<"stop">>,
   start      |-> <<"deploy", "start">>,
   restart    |-> <<"stop", "start">>,
   reset      |-> <<"stop", "deploy", "start">>,
   clusterReset |-> <<"stop", "deploy", "start">>,
   deploy     |-> <<"stop", "deploy", "start">>,
   deployOnly |-> <<"deploy">>,
   upgrade    |-> <<"deploy", "stop", "package", "start">>,
   upgradeOnly |-> <<"package">>,
   install    |-> <<"stop", "package", "deploy", "start">>,
   installAccel |-> <<"stop", "package", "deploy", "start">>]

\* [mutant] a restart that does not stop the gateway first.
GatewayPhasesRunning == [GatewayPhasesUpgrade EXCEPT
  !.restart = <<"start">>, !.upgrade = <<"stop", "deploy", "package", "start">>]

\* The phases of each playbook on a gateway.  An upgrade_only installs the
\* package and no more: its playbook has two task lists, and the second, without
\* the stop, takes the place of the first.
GatewayPhases ==
  [stop       |-> <<"stop">>,
   start      |-> <<"deploy", "start">>,
   restart    |-> <<"stop", "start">>,
   reset      |-> <<"stop", "deploy", "start">>,
   clusterReset |-> <<"stop", "deploy", "start">>,
   deploy     |-> <<"stop", "deploy", "start">>,
   deployOnly |-> <<"deploy">>,
   upgrade    |-> <<"stop", "deploy", "package", "start">>,
   upgradeOnly |-> <<"package">>,
   install    |-> <<"stop", "package", "deploy", "start">>,
   installAccel |-> <<"stop", "package", "deploy", "start">>]

\* The longest playbook.
MaxPhases == 4

\* On an accelerator an upgrade leaves the configuration alone, and a reset of
\* the cluster does not start it again.
Phases(kind, h) ==
  IF h \in Accels /\ kind = "upgrade" THEN <<"stop", "package", "start">>
  ELSE IF h \in Accels /\ kind = "clusterReset" THEN <<"stop">>
  ELSE GatewayPhases[kind]

\* A failure of these phases ends the playbook for every host.
Fatal(kind, phase) ==
  \/ kind \in {"deploy", "upgrade", "upgradeOnly"}
  \/ kind = "install" /\ phase # "stop"
  \/ kind = "installAccel" /\ phase \in {"package", "start"}
  \/ kind \in {"reset", "clusterReset"} /\ phase = "stop"
  \/ kind = "restart" /\ phase = "start"

\* systemctl start leaves a running service, and so what it runs with, alone;
\* it starts nothing where no package is installed.
Perform(h, phase) ==
  CASE phase = "stop" -> [h EXCEPT !.up = FALSE, !.running = NoFile]
    [] phase = "deploy" -> [h EXCEPT !.file = op.file]
    [] phase = "package" -> [h EXCEPT !.version = op.version]
    [] phase = "start" ->
         IF h.up \/ h.version = 0 \/ (h.file # NoFile /\ ~Readable(h.file.vars)) THEN h
         ELSE [h EXCEPT !.up = TRUE, !.running = h.file]

\* A host that fails at the phase failAt says does those before it.  A fatal failure
\* also keeps the others of its role from the phases after it; the gateways' plays
\* come first, so that it is the end of all plays for the accelerators if it is a
\* gateway's, and nothing to the gateways if it is an accelerator's; but a reset of the
\* cluster stops the accelerators before it goes on with the gateways.
Does(kind, T, failAt, h, n) ==
  /\ n <= Len(Phases(kind, h)) /\ n < failAt[h]
  /\ ~ \E x \in T : /\ failAt[x] <= Len(Phases(kind, x))
                    /\ Fatal(kind, Phases(kind, x)[failAt[x]])
                    /\ \/ x \in Gws /\ h \in Accels
                       \/ kind = "clusterReset" /\ failAt[x] < n
                       \/ (x \in Accels <=> h \in Accels) /\ failAt[x] < n

Step(x, kind, T, failAt, h, n) ==
  IF Does(kind, T, failAt, h, n) THEN Perform(x, Phases(kind, h)[n]) ELSE x

\* The playbook's effect for one choice of failures, and whether its status is 0.
AfterPlaybook(kind, T, failAt) ==
  [h \in Hosts |->
     IF h \notin T THEN host[h]
     ELSE LET one == Step(host[h], kind, T, failAt, h, 1)
              two == Step(one, kind, T, failAt, h, 2)
              three == Step(two, kind, T, failAt, h, 3) IN
          Step(three, kind, T, failAt, h, MaxPhases)]

Listening(kind, h) == kind = "upgradeOnly" \/ Phases(kind, h)[Len(Phases(kind, h))] = "start"

StatusZero(kind, T, failAt, after) ==
  \A h \in T : /\ Does(kind, T, failAt, h, Len(Phases(kind, h)))
               /\ Listening(kind, h) => after[h].up

(***************************************************************************)
(* The operations                                                          *)
(***************************************************************************)

\* Which operations take the branch for persistent configurations.
UsesPersistent(name, version) ==
  CASE name = "upgrade" -> cfgVersion >= 300 /\ Persistent(version, flags)
    [] name \in {"redeploy", "install"} -> Persistent(version, flags)
    [] name \in {"tk_start", "tk_restart", "start", "cluster_reset"} ->
         Persistent(cfgVersion, flags)
    [] OTHER -> FALSE

\* The keywords' object remembers an encrypted server and never forgets it.
KeywordScheme(name, version) ==
  IF name \in {"start", "upgrade"} /\ ~UsesPersistent(name, version)
       /\ SchemeFor(flags) = "couchbases"
  THEN "couchbases" ELSE kw

\* The flags the settings come from: a Cluster object remembers some of them.
FlagsOf(name) == IF name = "cluster_reset" THEN Kept(flags, made) ELSE flags

Rendered(name, T, version, import) ==
  LET s == KeywordScheme(name, version)
      f == FlagsOf(name) IN
  IF UsesPersistent(name, version) THEN
  CASE name \in {"tk_start", "tk_restart"} ->
         Bootstrap(flags, cfgVersion, SetupVars(flags, cfgVersion))
    [] name = "redeploy" -> Bootstrap(flags, version, SetupServerVars(flags, version))
    [] OTHER -> Bootstrap(f, cfgVersion, SetupServerVars(f, cfgVersion))
  ELSE
  CASE name = "tk_start" ->
         File(flags, cfgVersion, StartVars(flags, cfgVersion, SchemeFor(made)))
    [] name = "tk_restart" ->
         File(flags, cfgVersion, RestartVars(flags, cfgVersion, SchemeFor(made)))
    [] name = "start" -> File(flags, cfgVersion, StartKeywordVars(flags, cfgVersion, s))
    [] name = "upgrade" -> File(flags, version, UpgradeVars(flags, version, s, cbs))
    [] name = "redeploy" -> File(flags, version, RedeployVars(flags, version, import))
    [] name = "install" -> File(flags, version, InstallVars(flags, version))
    [] name = "cluster_reset" -> File(f, cfgVersion, ResetVars(f, cfgVersion, made))
    [] name = "accel_start" -> File(flags, cfgVersion, AccelVars(flags, cfgVersion))
    [] OTHER -> NoFile

\* The copies that block the unencrypted ports of the server first.
Blocks(name, version) ==
  /\ "cbsSsl" \in FlagsOf(name)
  /\ \/ UsesPersistent(name, version)
     \/ name \in {"tk_start", "tk_restart", "start", "install", "cluster_reset", "accel_start"}

\* Operations that send the databases' configuration after the playbook; for a
\* reset of the cluster op.import is sgdb_creation.
Pushes == /\ op.name \in {"tk_start", "tk_restart", "redeploy", "cluster_reset"}
          /\ op.kind # "deployOnly" /\ (op.name = "cluster_reset" => op.import)
          /\ UsesPersistent(op.name, op.version)

FirstPhase(name, version) == IF Blocks(name, version) THEN "block" ELSE "playbook"

Begin(name, kind, T, version, import, todo) ==
  /\ Over /\ nops < MaxOps
  /\ nops' = nops + 1
  /\ kw' = KeywordScheme(name, version)
  /\ op' = [name |-> name, targets |-> T, version |-> version, import |-> import,
            old |-> cfgVersion, file |-> Rendered(name, T, version, import), todo |-> todo,
            kind |-> kind,
            phase |-> IF todo # <<>> THEN "turn" ELSE FirstPhase(name, version)]
  /\ push' = NoPush
  /\ UNCHANGED <<world, made, host, store, mixed, loaded, faults>>

\* A url names one host; without one the playbook runs on all it has plays for.
Targets == {{g} : g \in Gws} \cup {Gws}
TargetsWithAccels == {{g} : g \in Gws} \cup {Hosts}

TkStop == \E g \in Gws : Begin("tk_stop", "stop", {g}, 0, FALSE, <<>>)
TkStart == \E g \in Gws : Begin("tk_start", "start", {g}, 0, FALSE, <<>>)
TkRestart == \E g \in Gws : Begin("tk_restart", "reset", {g}, 0, FALSE, <<>>)
AccelStop == \E a \in Accels : Begin("accel_stop", "stop", {a}, 0, FALSE, <<>>)
AccelStart == \E a \in Accels : Begin("accel_start", "start", {a}, 0, FALSE, <<>>)
StartSyncGateways == \E T \in Targets : Begin("start", "start", T, 0, FALSE, <<>>)
StopSyncGateways == \E T \in Targets : Begin("stop", "stop", T, 0, FALSE, <<>>)
RestartSyncGateways ==
  \E T \in TargetsWithAccels : Begin("restart", "restart", T, 0, FALSE, <<>>)

UpgradeSyncGateways ==
  \E T \in TargetsWithAccels, v \in Versions, k \in {"upgrade", "upgradeOnly"} :
     v > cfgVersion /\ Begin("upgrade", k, IF k = "upgradeOnly" THEN T \cap Gws ELSE T, v, FALSE, <<>>)

RedeploySyncGatewayConfig ==
  \E T \in TargetsWithAccels, import \in BOOLEAN, k \in {"deploy", "deployOnly"} :
     Begin("redeploy", k, IF k = "deployOnly" THEN T \cap Gws ELSE T, cfgVersion, import, <<>>)

\* Cluster.reset as far as the gateways and accelerators go; the artifacts, the
\* buckets and the accelerators of a distributed index are in ClusterReset.
ResetCluster ==
  \E sgdb_creation \in BOOLEAN :
     Begin("cluster_reset", "clusterReset", Hosts, 0, sgdb_creation, <<>>)

InstallSyncGateway ==
  \E T \in Targets, v \in Versions : Begin("install", "install", T, v, FALSE, <<>>)

\* upgrade_sync_gateway: one gateway of the list after the other; op.import is
\* its verify_version.
UpgradeSyncGateway ==
  \E v \in Versions, verify_version \in BOOLEAN :
    /\ v > cfgVersion
    /\ Begin("upgrade", "upgrade", {GatewayList[1]}, v, verify_version, GatewayList)

\* The first step of every turn of its loop: what runs must be a gateway, and
\* of the old version if that is asked for.
UpgradeTurn ==
  /\ op.phase = "turn"
  /\ LET g == host[Head(op.todo)] IN
     op' = [op EXCEPT !.phase = IF g.up /\ (op.import => g.version = op.old)
                                THEN FirstPhase(op.name, op.version) ELSE "raised"]
  /\ UNCHANGED <<world, kw, made, host, push, store, mixed, loaded, nops, faults>>

\* block-http-ports.yml; a failure raises before the gateways are touched, except
\* in a reset of the cluster, which has stopped them all.
BlockPorts ==
  /\ op.phase = "block"
  /\ \/ op' = [op EXCEPT !.phase = "playbook"] /\ UNCHANGED <<host, faults>>
     \/ /\ faults < MaxFaults /\ faults' = faults + 1
        /\ op' = [op EXCEPT !.phase = "raised"]
        /\ host' = IF op.name # "cluster_reset" THEN host
                   ELSE [h \in Hosts |-> [host[h] EXCEPT !.up = FALSE, !.running = NoFile]]
  /\ UNCHANGED <<world, kw, made, push, store, mixed, loaded, nops>>

\* What a failed playbook means to the caller: the testkit returns a status, the
\* keywords raise, and an upgrade_only goes on as if nothing had happened.
Failed ==
  IF op.name \in {"tk_stop", "tk_start", "tk_restart", "accel_stop", "accel_start"}
  THEN "status" ELSE IF op.kind = "upgradeOnly" THEN "ok" ELSE "raised"

\* After the playbook: an installation goes on to the accelerators and then to
\* the forwarder of the logs.
Succeeded ==
  CASE op.kind = "install" -> [op EXCEPT !.kind = "installAccel"]
    [] op.kind = "installAccel" -> [op EXCEPT !.phase = "forwarder"]
    [] OTHER -> [op EXCEPT !.phase = IF op.todo # <<>> THEN "verify" ELSE "ok"]

PlayTargets == IF op.kind = "installAccel" THEN Accels ELSE op.targets

\* A host fails at one of its phases, or at none: the number after the last.
Failing(failAt) == Cardinality({h \in PlayTargets : failAt[h] <= Len(Phases(op.kind, h))})
FailAts ==
  {failAt \in [PlayTargets -> 1..(MaxPhases + 1)] :
     /\ \A h \in PlayTargets : failAt[h] <= Len(Phases(op.kind, h)) + 1
     /\ faults + Failing(failAt) <= MaxFaults}

Before(list, x, y) == \E i, j \in 1..Len(list) : i < j /\ list[i] = x /\ list[j] = y

\* Those of a set that come first in the list: one, unless there is none.
Foremost(list, S) == {x \in S : \A y \in S \ {x} : Before(list, x, y)}

RunPlaybook ==
  /\ op.phase = "playbook"
  /\ \E failAt \in FailAts :
          /\ faults' = faults + Failing(failAt)
          /\ host' = AfterPlaybook(op.kind, PlayTargets, failAt)
          /\ IF ~StatusZero(op.kind, PlayTargets, failAt, host')
             THEN op' = [op EXCEPT !.phase = Failed] /\ UNCHANGED <<push, mixed>>
             ELSE IF Pushes
             THEN \E c \in PushConfigs :
                    /\ op' = [op EXCEPT !.phase = "pushGateway"]
                    /\ push' = [NoPush EXCEPT
                                  !.cfg = c, !.given = c,
                                  !.gws = op.targets \cap Gws]
                    /\ mixed' = (mixed \/ \E d, e \in DOMAIN c :
                                   Before(DbList, d, e) /\ ~(c[d] \subseteq c[e]))
             ELSE op' = Succeeded /\ UNCHANGED <<push, mixed>>
  /\ UNCHANGED <<world, kw, made, store, loaded, nops>>

\* configure-sync-gateway-awslogs-forwarder.yml
Forwarder ==
  /\ op.phase = "forwarder"
  /\ \/ /\ op' = [op EXCEPT !.phase = IF op.name = "provision" THEN "nginx" ELSE "verify"]
        /\ UNCHANGED faults
     \/ faults < MaxFaults /\ faults' = faults + 1 /\ op' = [op EXCEPT !.phase = "raised"]
  /\ UNCHANGED <<world, kw, made, host, push, store, mixed, loaded, nops>>

(***************************************************************************)
(* Provisioning a cluster: the cluster configuration is rewritten first,   *)
(* then what is installed is removed, and the server, the gateways, the    *)
(* accelerators and the load balancer are installed.  op.import is         *)
(* skip_couchbase_provision.                                               *)
(***************************************************************************)

\* A server that only talks TLS overrides two flags of the user.
Overridden(f) == IF "cbsSsl" \in f THEN (f \cup {"skipVerify"}) \ {"tlsOff"} ELSE f

\* Both versions and the flags are written before anything is installed.
WriteConfig(v, sv) == flags' = Overridden(flags) /\ cfgVersion' = v /\ cbs' = sv

\* There is a gateway, as validate_cluster asks (and an accelerator for a
\* distributed index).
ProvisionCluster ==
  \E v \in Versions, sv \in CbsVersions, skip \in BOOLEAN :
    /\ Over /\ nops < MaxOps
    /\ nops' = nops + 1
    /\ WriteConfig(v, sv)
    /\ op' = [name |-> "provision", targets |-> Gws, version |-> v, import |-> skip,
              old |-> cfgVersion, file |-> NoFile, todo |-> <<>>, kind |-> "install",
              phase |-> "clean"]
    /\ push' = NoPush
    /\ UNCHANGED <<server, kw, made, host, store, mixed, loaded, faults>>

\* clean_cluster: the gateways are stopped and removed, the accelerators are
\* not; the play fails for a gateway that goes on listening, and the plays
\* that reset the hosts may fail after it.
CleanCluster ==
  /\ op.phase = "clean"
  /\ \E cleaned \in SUBSET Gws :
       /\ host' = [h \in Hosts |->
                     IF h \in cleaned
                     THEN [up |-> FALSE, version |-> 0, file |-> NoFile, running |-> NoFile]
                     ELSE host[h]]
       /\ \/ cleaned = Gws /\ op' = [op EXCEPT !.phase = "server"] /\ UNCHANGED faults
          \/ /\ faults < MaxFaults /\ faults' = faults + 1
             /\ op' = [op EXCEPT !.phase = "raised"]
  /\ UNCHANGED <<world, kw, made, push, store, mixed, loaded, nops>>

\* install_couchbase_server removes the old package first; the new one may
\* also be installed and not get ready.  Then the gateways' file is rendered.
InstallServer ==
  /\ op.phase = "server"
  /\ \/ /\ server' = IF op.import THEN server ELSE cbs
        /\ op' = [op EXCEPT !.phase = FirstPhase("install", op.version),
                            !.file = Rendered("install", Gws, op.version, FALSE)]
        /\ UNCHANGED faults
     \/ /\ ~op.import /\ faults < MaxFaults /\ faults' = faults + 1
        /\ server' \in {server, 0, cbs}
        /\ op' = [op EXCEPT !.phase = "raised"]
  /\ UNCHANGED <<flags, cfgVersion, cbs, kw, made, host, push, store, mixed, loaded, nops>>

\* The load balancer is told of all gateways; a failed play fails an assertion.
InstallNginx ==
  /\ op.phase = "nginx"
  /\ \/ op' = [op EXCEPT !.phase = "verify"] /\ UNCHANGED faults
     \/ faults < MaxFaults /\ faults' = faults + 1 /\ op' = [op EXCEPT !.phase = "raised"]
  /\ UNCHANGED <<world, kw, made, host, push, store, mixed, loaded, nops>>

\* GET / answers with the product's name, and with its version.
ProductInfo(g) == host[g].up
RunningVersion(h) == host[h].version
AccelVersion(a) == IF host[a].up THEN host[a].version ELSE 0

\* [mutant] the server is taken for what was asked.
ServerRightUnasked == TRUE

ServerRight == server = cbs
TargetsRight == \A g \in op.targets : ProductInfo(g) /\ RunningVersion(g) = op.version
AccelsRight == \A a \in Accels : AccelVersion(a) = op.version

\* What must hold after a provisioning: verify_cluster_versions.
ClusterRight == ServerRight /\ TargetsRight /\ AccelsRight

\* What must hold after that, for the targets of an installation, and for the
\* gateway of a turn of upgrade_sync_gateway.
VersionsRight ==
  CASE op.name = "provision" -> ClusterRight
    [] op.name = "install" -> TargetsRight /\ AccelsRight
    [] OTHER -> TargetsRight

\* [mutant] the loop returns after the first gateway.
VerifyFirst ==
  /\ op.phase = "verify"
  /\ op' = [op EXCEPT !.phase = IF VersionsRight THEN "ok" ELSE "raised"]
  /\ UNCHANGED <<world, kw, made, host, push, store, mixed, loaded, nops, faults>>

\* verify_sync_gateway_product_info and verify_sync_gateway_version, after an
\* installation for its targets and in the loop of upgrade_sync_gateway.
Verify ==
  /\ op.phase = "verify"
  /\ op' = IF ~VersionsRight THEN [op EXCEPT !.phase = "raised"]
           ELSE IF Len(op.todo) <= 1 THEN [op EXCEPT !.phase = "ok"]
           ELSE [op EXCEPT !.phase = "turn", !.todo = Tail(@),
                           !.targets = {Head(Tail(op.todo))}]
  /\ UNCHANGED <<world, kw, made, host, push, store, mixed, loaded, nops, faults>>

(***************************************************************************)
(* send_dbconfig_as_restCall.  The dictionary push.cfg loses its roles,     *)
(* users and oidc entries while the first gateway is served.                *)
(***************************************************************************)
PushUnchanged == UNCHANGED <<world, kw, made, host, mixed, loaded, nops>>

\* restart of the testkit turns an exception of the push into a status.
PushFails == op' = [op EXCEPT !.phase = IF op.name = "tk_restart" THEN "status" ELSE "raised"]

Refused == faults < MaxFaults /\ faults' = faults + 1 /\ PushFails /\ UNCHANGED <<push, store>>

Unreachable(g) == ~host[g].up /\ PushFails /\ UNCHANGED <<push, store, faults>>

\* The gateway and the database whose turn it is.
Gateway == Foremost(GatewayList, push.gws)
Database == Foremost(DbList, push.dbs)

\* The next gateway: fresh flags, and the databases the configuration lacks go.
PushGateway ==
  /\ op.phase = "pushGateway"
  /\ \/ /\ push.gws = {}
        /\ op' = [op EXCEPT !.phase = "ok"]
        /\ UNCHANGED <<push, store, faults>>
     \/ \E g \in Gateway :
        \/ /\ host[g].up
           /\ store' = [d \in DOMAIN store |-> IF d \in DOMAIN push.cfg THEN store[d] ELSE Absent]
           /\ push' = [push EXCEPT !.exist = {}, !.dbs = DOMAIN push.cfg]
           /\ op' = [op EXCEPT !.phase = "pushDb"]
           /\ UNCHANGED faults
        \/ Refused
        \/ Unreachable(g)
  /\ PushUnchanged

\* One database: its special entries are taken out of the dictionary and
\* remembered, it is created or, if it exists, given a new configuration, and
\* once an oidc entry was seen it is given the configuration remembered with it.
PushDb ==
  /\ op.phase = "pushDb"
  /\ \E g \in Gateway :
     \/ /\ push.dbs = {}
        /\ push' = [push EXCEPT !.gws = @ \ {g}]
        /\ op' = [op EXCEPT !.phase = "pushGateway"]
        /\ UNCHANGED <<store, faults>>
     \/ \E d \in Database :
        \/ /\ host[g].up
           /\ LET parts == push.cfg[d]
                  exist == push.exist \cup parts
                  orig == IF "oidc" \in parts THEN d ELSE push.orig
                  kept == IF store[d].exists THEN store[d] ELSE [Absent EXCEPT !.exists = TRUE] IN
              /\ store' = [store EXCEPT ![d] = IF "oidc" \in exist
                                               THEN [kept EXCEPT !.of = orig, !.oidc = TRUE]
                                               ELSE [kept EXCEPT !.of = d, !.oidc = FALSE]]
              /\ push' = [push EXCEPT !.cfg[d] = {}, !.exist = exist, !.orig = orig,
                            !.roles = IF "roles" \in parts THEN d ELSE @,
                            !.users = IF "users" \in parts THEN d ELSE @]
           /\ op' = [op EXCEPT !.phase = "pushUsers"]
           /\ UNCHANGED faults
        \/ Refused
        \/ Unreachable(g)
  /\ PushUnchanged

\* [mutant] the roles are lost.
PushUsersNoRoles ==
  /\ op.phase = "pushUsers"
  /\ \E g \in Gateway, d \in Database :
     \/ /\ host[g].up
        /\ store' = [store EXCEPT ![d].users = IF "users" \in push.exist
                                               THEN @ \cup {push.users} ELSE @]
        /\ push' = [push EXCEPT !.dbs = @ \ {d}]
        /\ op' = [op EXCEPT !.phase = "pushDb"]
        /\ UNCHANGED faults
     \/ Refused
     \/ Unreachable(g)
  /\ PushUnchanged

\* Roles, then users, if the database is online when it is asked.
PushUsers ==
  /\ op.phase = "pushUsers"
  /\ \E g \in Gateway, d \in Database :
     \/ /\ host[g].up
        /\ store' = [store EXCEPT
              ![d].roles = IF "roles" \in push.exist THEN @ \cup {push.roles} ELSE @,
              ![d].users = IF "users" \in push.exist THEN @ \cup {push.users} ELSE @]
        /\ push' = [push EXCEPT !.dbs = @ \ {d}]
        /\ op' = [op EXCEPT !.phase = "pushDb"]
        /\ UNCHANGED faults
     \/ /\ faults < MaxFaults /\ faults' = faults + 1
        /\ push' = [push EXCEPT !.dbs = @ \ {d}, !.skipped = @ \cup {d}]
        /\ op' = [op EXCEPT !.phase = "pushDb"]
        /\ UNCHANGED store
     \/ Refused
     \/ Unreachable(g)
  /\ PushUnchanged

(***************************************************************************)
(* Around the operations                                                   *)
(***************************************************************************)

\* load_sync_gateway_config, and construct_dbconfig_json for the tests of
\* persistent configurations; the former raises below 2.1.
LoadConfig ==
  /\ Over /\ nops < MaxOps /\ nops' = nops + 1
  /\ \/ cfgVersion >= 210 /\ loaded' = File(flags, cfgVersion, LoadVars(flags, cfgVersion))
     \/ cfgVersion >= 300 /\ loaded' = File(flags, cfgVersion, DbConfigVars(flags, cfgVersion))
  /\ UNCHANGED <<world, kw, made, host, op, push, store, mixed, faults>>

\* A test rewrites the cluster configuration between two operations.
PersistFlags ==
  /\ Over /\ nops < MaxOps
  /\ flags' \in FlagSets \ {flags}
  /\ nops' = nops + 1
  /\ UNCHANGED <<cfgVersion, cbs, server, kw, made, host, op, push, store, mixed, loaded, faults>>

\* A new Cluster object and with it new testkit objects.
NewCluster ==
  /\ Over /\ nops < MaxOps
  /\ made # flags /\ made' = flags
  /\ UNCHANGED <<world, kw, host, op, push, store, mixed, loaded, nops, faults>>

\* A gateway goes down while an operation is under way.
Dies ==
  /\ ~Over /\ faults < MaxFaults /\ faults' = faults + 1
  /\ \E h \in Gws : host[h].up /\ host' = [host EXCEPT ![h].up = FALSE, ![h].running = NoFile]
  /\ UNCHANGED <<world, kw, made, op, push, store, mixed, loaded, nops>>

Next ==
  \/ TkStop \/ TkStart \/ TkRestart \/ AccelStop \/ AccelStart
  \/ StartSyncGateways \/ StopSyncGateways \/ RestartSyncGateways
  \/ UpgradeSyncGateways \/ UpgradeSyncGateway \/ RedeploySyncGatewayConfig
  \/ InstallSyncGateway \/ ResetCluster \/ LoadConfig
  \/ ProvisionCluster \/ CleanCluster \/ InstallServer \/ InstallNginx
  \/ UpgradeTurn \/ BlockPorts \/ RunPlaybook \/ Forwarder \/ Verify
  \/ PushGateway \/ PushDb \/ PushUsers
  \/ PersistFlags \/ NewCluster \/ Dies

GatewaySpec == Init /\ [][Next]_gwvars

(***************************************************************************)
(* Properties                                                              *)
(***************************************************************************)
\* The gateways' files, but for those an installation of 3.0 rendered from a
\* cluster configuration that still names an older version.
Files == {x \in {host[g].file : g \in Gws} \ {NoFile} : x.persistent => x.v >= 300}

ConfigFlags == FlagSets \cup {Overridden(f) : f \in FlagSets}
FileFlags == ConfigFlags \cup {Kept(f, m) : f, m \in ConfigFlags}

GatewayTypeOK ==
  /\ flags \in ConfigFlags /\ cfgVersion \in Versions /\ cbs \in CbsVersions
  /\ server \in CbsVersions \cup {0}
  /\ kw \in {"couchbase", "couchbases"}
  /\ made \in ConfigFlags
  /\ \A h \in Hosts : /\ host[h].up \in BOOLEAN /\ host[h].version \in Versions \cup {0}
                      /\ host[h].running # NoFile => host[h].up
                      /\ host[h].file # NoFile => host[h].file.f \in FileFlags
  /\ op.phase \in {"idle", "clean", "server", "turn", "block", "playbook", "forwarder",
                   "nginx", "verify", "pushGateway", "pushDb", "pushUsers", "ok", "status", "raised"}
  /\ \A d \in DOMAIN store : store[d].users \cup store[d].roles \subseteq DOMAIN store
  /\ nops \in 0..MaxOps /\ faults \in 0..MaxFaults

\* Whatever operations configured two gateways, the same flags and the same
\* version gave them the same settings in all that the copies of the code are
\* meant to share (a server too old for xattrs set aside): the copies in
\* syncgateway.py, SyncGateway.py, install_sync_gateway.py and cluster.py agree.
CopiesAgree ==
  \A x, y \in Files :
    x.f = y.f /\ x.v = y.v /\ x.cbs >= 500 /\ y.cbs >= 500 => Core(x.vars) = Core(y.vars)

\* A configuration handed to a test shows the databases the way the gateways
\* have them.
LoadedAgrees ==
  loaded # NoFile =>
    \A x \in Files : x.f = loaded.f /\ x.v = loaded.v /\ x.cbs >= 500 =>
       /\ x.vars.allow = loaded.vars.allow /\ x.vars.revs = loaded.vars.revs
       /\ x.vars.delta = loaded.vars.delta
       /\ (x.vars.xattrs = "true") = (loaded.vars.xattrs = "true")

\* With an encrypted server connection no gateway is configured to talk to the
\* server in the clear, whichever operation wrote its file and whatever scheme
\* the object that wrote it remembered; for a reset of the cluster the connection
\* counts that its Cluster object was made for.
EncryptedServer ==
  \A x \in Files : "cbsSsl" \in x.f => x.vars.scheme = "couchbases"

\* A reset, a redeployment, an upgrade, a restart or an installation that
\* succeeded leaves its gateways running with the file that is on their disk,
\* never with the one they had before; a start does not promise that, since it
\* leaves a running gateway alone.
RunsItsFile ==
  op.phase = "ok" /\ op.kind \in {"reset", "clusterReset", "deploy", "upgrade", "restart",
                                  "installAccel"} =>
     \A g \in op.targets \cap Gws : host[g].up => host[g].running = host[g].file

\* The loop of upgrade_sync_gateway stops at the first gateway that is not what
\* it should be: those before it have the new version, and if
\* it returns all of them have it.
UpgradeInOrder ==
  op.todo # <<>> =>
    /\ \A i \in 1..(Len(GatewayList) - Len(op.todo)) :
         host[GatewayList[i]].version = op.version
    /\ op.phase = "ok" => \A g \in Gws : host[g].version = op.version

\* Once a push has succeeded every database it was given exists, with its own roles
\* and its own users if it was given some, unless it was not online when they were
\* to be written; and as long as no configuration was pushed in which a database
\* lacks a part that an earlier one has, it has its own configuration, and nothing of
\* another database leaked into it.
PushExact ==
  op.phase = "ok" /\ push.cfg # <<>> =>
    \A d \in DOMAIN push.cfg :
      /\ store[d].exists
      /\ d \notin push.skipped =>
           /\ "users" \in push.given[d] => d \in store[d].users
           /\ "roles" \in push.given[d] => d \in store[d].roles
      /\ ~mixed => store[d].of = d /\ store[d].users \cup store[d].roles \subseteq {d}

\* A push to one gateway keeps the OpenID Connect part of its last database; with more
\* gateways the next one gets the dictionary without it.
OidcKept ==
  op.phase = "ok" /\ push.cfg # <<>> /\ op.targets \in {{g} : g \in Gws}
     /\ push.orig # "" => store[push.orig].oidc

\* A provisioning writes both versions to the cluster configuration before it
\* installs anything, and may be told to leave the server alone.  If it returns,
\* the configuration tells the truth: the server, the gateways and the
\* accelerators are of the versions it names, and every gateway that is up runs
\* with the file this provisioning rendered.
Provisioned ==
  op.name = "provision" /\ op.phase = "ok" =>
    /\ server = cbs
    /\ \A h \in Hosts : host[h].version = cfgVersion
    /\ \A g \in Gws : host[g].file = op.file /\ (host[g].up => host[g].running = op.file)

\* Only a start, and a deployment that is asked for nothing else, put a new file
\* under a gateway that goes on running with the one before: whatever host and
\* phase a reset, a redeployment, an upgrade or an installation fails at, a gateway
\* whose file it replaced is down or runs with the new file.
NewFileRuns ==
  [][\A g \in Gws :
       host'[g].file # host[g].file /\ host'[g].up /\ op.kind \notin {"start", "deployOnly"}
         => host'[g].running = host'[g].file]_gwvars

\* The ten copies of the rules for a gateway's settings are one in what they share, also
\* with the configuration tests load, and never lose the server's encryption.
FilesRight == GatewayTypeOK /\ CopiesAgree /\ LoadedAgrees /\ EncryptedServer

\* A push of database configurations that succeeded leaves every database its own, in all
\* parts, although gateways and databases share one dictionary.
PushRight == PushExact /\ OidcKept

=============================================================================
