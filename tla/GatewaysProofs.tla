---------------------------- MODULE GatewaysProofs ----------------------------
(* What the files and the processes of the Sync Gateways, an upgrade, a push of     *)
(* databases and a provisioning may be relied upon for, with any number of          *)
(* gateways, accelerators, databases, operations and faults.                        *)
EXTENDS Gateways, SequenceTheorems, FiniteSetTheorems, TLAPS

Dbs == Range(DbList)
Phs == {"idle", "clean", "server", "turn", "block", "playbook", "forwarder", "nginx",
        "verify", "pushGateway", "pushDb", "pushUsers", "ok", "status", "raised"}
Pushing == {"pushGateway", "pushDb", "pushUsers"}
Senders == {"tk_start", "tk_restart", "redeploy", "cluster_reset"}
Kinds == {"none", "stop", "start", "restart", "reset", "clusterReset", "deploy", "deployOnly", "upgrade",
          "upgradeOnly", "install", "installAccel"}
Databases == [exists : BOOLEAN, of : Dbs \cup {""}, oidc : BOOLEAN,
              users : SUBSET Dbs, roles : SUBSET Dbs]

-----------------------------------------------------------------------------
(* The inductive invariant, part by part                                   *)

\* A file for a gateway has the settings its flags and its versions ask for.
GoodFile(x) ==
  /\ x.f \in FileFlags
  /\ (x.persistent => x.v >= 300) /\ x.cbs >= 500 =>
       Core(x.vars) = Core(CommonVars(x.f, x.v, "couchbase"))
  /\ "cbsSsl" \in x.f => x.vars.scheme = "couchbases"

\* A configuration handed to a test shows the databases of such a file.
GoodLoaded(x) ==
  LET c == CommonVars(x.f, x.v, "couchbase") IN
  x # NoFile => /\ x.vars.allow = c.allow /\ x.vars.revs = c.revs /\ x.vars.delta = c.delta
                /\ (x.vars.xattrs = "true") = (c.xattrs = "true")

WorldOK ==
  /\ flags \in ConfigFlags /\ cfgVersion \in Versions /\ cbs \in CbsVersions
  /\ server \in CbsVersions \cup {0}
  /\ kw \in {"couchbase", "couchbases"} /\ made \in ConfigFlags
  /\ mixed \in BOOLEAN /\ GoodLoaded(loaded)
  /\ nops \in 0..MaxOps /\ faults \in 0..MaxFaults

IsHost(x) == x = [up |-> x.up, version |-> x.version, file |-> x.file, running |-> x.running]

HostOK(x) ==
  /\ IsHost(x) /\ x.up \in BOOLEAN /\ x.version \in Versions \cup {0}
  /\ x.running # NoFile => x.up
  /\ x.file # NoFile => x.file.f \in FileFlags

HostsOK(H) ==
  /\ DOMAIN H = Hosts /\ \A h \in Hosts : HostOK(H[h])
  /\ \A g \in Gws : H[g].file # NoFile => GoodFile(H[g].file)

IsOp(o) == o = [name |-> o.name, targets |-> o.targets, version |-> o.version,
                import |-> o.import, old |-> o.old, file |-> o.file, todo |-> o.todo,
                phase |-> o.phase, kind |-> o.kind]

\* Which operation a kind of playbook and a phase belong to.
OpOK(o) ==
  /\ IsOp(o) /\ o.targets \subseteq Hosts /\ o.version \in Versions \cup {0}
  /\ o.phase \in Phs /\ o.kind \in Kinds /\ o.todo \in Seq(Gws)
  /\ o.phase \in {"block", "playbook"} => o.kind # "none"
  /\ o.file # NoFile =>
       o.file.f \in FileFlags /\ (o.targets \cap Gws # {} => GoodFile(o.file))
  /\ o.name = "provision" => o.kind \in {"install", "installAccel"} /\ o.targets = Gws
  /\ o.kind \in {"install", "installAccel"} => o.name \in {"install", "provision"} /\ o.todo = <<>>
  /\ o.phase \in {"clean", "server"} => o.name = "provision" /\ o.kind = "install"
  /\ o.phase \in {"forwarder", "nginx"} => o.kind = "installAccel"
  /\ o.phase = "nginx" => o.name = "provision"
  /\ o.phase = "verify" => o.kind = "installAccel" \/ o.todo # <<>>
  /\ o.phase = "turn" => o.todo # <<>>
  /\ o.phase \in Pushing => o.name \in Senders
  /\ o.name \in Senders => o.targets \cap Gws # {}

\* The loop of upgrade_sync_gateway: what it has still to do, and what it has done.
UpgradeOK(o, H) ==
  o.todo # <<>> =>
    /\ o.name = "upgrade" /\ o.kind = "upgrade" /\ o.targets = {Head(o.todo)}
    /\ o.phase \in {"turn", "block", "playbook", "verify", "ok", "raised"}
    /\ Len(o.todo) <= Len(GatewayList)
    /\ \A i \in 1..Len(o.todo) : o.todo[i] = GatewayList[Len(GatewayList) - Len(o.todo) + i]
    /\ \A i \in 1..(Len(GatewayList) - Len(o.todo)) : H[GatewayList[i]].version = o.version
    /\ o.phase = "ok" => \A g \in Gws : H[g].version = o.version

RunsFiles(o, H) == \A g \in o.targets \cap Gws : H[g].up => H[g].running = H[g].file

\* After a playbook that stops its hosts first, they run with their files.
RunsOK(o, H) ==
  /\ o.kind \in {"reset", "clusterReset", "deploy", "upgrade", "restart"}
       /\ o.phase \in {"verify", "ok"} \cup Pushing => RunsFiles(o, H)
  /\ o.kind = "installAccel" => RunsFiles(o, H)

\* What a provisioning has seen to.
ProvisionOK(o, H, sv, v, c) ==
  o.name = "provision" =>
    /\ o.version = v
    /\ o.kind = "installAccel" => \A g \in Gws : H[g].file = o.file
    /\ o.phase = "ok" => /\ o.kind = "installAccel" /\ sv = c
                         /\ \A h \in Hosts : H[h].version = v

\* The databases; nothing of one is found at another.
StoreOK(S, m) ==
  /\ S \in [Dbs -> Databases]
  /\ ~m => \A d \in Dbs : S[d].users \cup S[d].roles \subseteq {d}
  /\ \A d \in Dbs : S[d].users \cup S[d].roles # {} => S[d].exists

IsPush(p) == p = [cfg |-> p.cfg, given |-> p.given, gws |-> p.gws, dbs |-> p.dbs, exist |-> p.exist,
                  roles |-> p.roles, users |-> p.users, orig |-> p.orig,
                  skipped |-> p.skipped]

Current(o, p) == IF o.phase = "pushUsers" THEN Foremost(DbList, p.dbs) ELSE {}

\* The databases the gateway that is served has not been told of.
Rest(o, p) == IF o.phase = "pushGateway" THEN DOMAIN p.cfg ELSE p.dbs \ Current(o, p)

PushTypeOK(o, p) ==
  /\ IsPush(p)
  /\ p.cfg \in [DOMAIN p.cfg -> SUBSET Parts] /\ DOMAIN p.cfg \subseteq Dbs
  /\ p.gws \subseteq o.targets \cap Gws /\ p.dbs \subseteq DOMAIN p.cfg
  /\ p.exist \subseteq Parts
  /\ {p.users, p.roles, p.orig} \subseteq DOMAIN p.cfg \cup {""}
  /\ "users" \in p.exist => p.users # ""
  /\ "roles" \in p.exist => p.roles # ""

\* What was taken out of the dictionary, and what the flags stand for.
PartsOK(o, p) ==
  /\ \A d, e \in Rest(o, p) : Before(DbList, d, e) => p.cfg[d] \subseteq p.cfg[e]
  /\ o.phase # "pushGateway" =>
       /\ \A e \in Rest(o, p) : p.exist \subseteq p.cfg[e]
       /\ \A d \in DOMAIN p.cfg \ Rest(o, p) : p.cfg[d] = {}
  /\ \A d \in Current(o, p) : /\ "users" \in p.exist => p.users = d
                              /\ "roles" \in p.exist => p.roles = d

\* What the gateways were told.
ToldOK(o, p, S) ==
  /\ o.phase # "pushGateway" => \A d \in DOMAIN p.cfg \ Rest(o, p) : S[d].exists /\ S[d].of = d
  /\ p.gws # o.targets \cap Gws => \A d \in DOMAIN p.cfg : S[d].exists /\ S[d].of = d

\* Every part that was handed over is still in the dictionary, was given to its
\* database, or is about to be.
UsersOK(o, p, S) ==
  \A d \in DOMAIN p.cfg :
    /\ "users" \in p.given[d] =>
         \/ "users" \in p.cfg[d] \/ d \in p.skipped \/ d \in S[d].users
         \/ d \in Current(o, p) /\ "users" \in p.exist /\ p.users = d
    /\ "roles" \in p.given[d] =>
         \/ "roles" \in p.cfg[d] \/ d \in p.skipped \/ d \in S[d].roles
         \/ d \in Current(o, p) /\ "roles" \in p.exist /\ p.roles = d

\* The dictionary has nothing left for the databases a gateway was told of.
TakenOK(o, p, S) ==
  /\ o.phase # "pushGateway" =>
       \A d \in DOMAIN p.cfg \ Rest(o, p) : p.cfg[d] = {} /\ S[d].exists
  /\ p.gws # o.targets \cap Gws => \A d \in DOMAIN p.cfg : p.cfg[d] = {} /\ S[d].exists

OidcOK(o, p, S) ==
  o.targets \in {{g} : g \in Gws} /\ p.orig # "" =>
    /\ S[p.orig].oidc
    /\ IF o.phase = "pushGateway" THEN p.gws = {} ELSE p.orig \notin Rest(o, p)

PushOK(o, p, S, m) ==
  /\ o.phase \in Pushing =>
       /\ PushTypeOK(o, p) /\ UsersOK(o, p, S) /\ TakenOK(o, p, S) /\ OidcOK(o, p, S)
       /\ ~m => PartsOK(o, p) /\ ToldOK(o, p, S)
  /\ o.phase \in {"turn", "clean", "server", "block", "playbook", "forwarder", "nginx",
                  "verify"} => p = NoPush
  /\ o.phase = "ok" =>
       \/ p = NoPush
       \/ /\ DOMAIN p.cfg \subseteq Dbs
          /\ ~m => \A d \in DOMAIN p.cfg : S[d].of = d
          /\ \A d \in DOMAIN p.cfg : S[d].exists
          /\ \A d \in DOMAIN p.cfg \ p.skipped :
               /\ "users" \in p.given[d] => d \in S[d].users
               /\ "roles" \in p.given[d] => d \in S[d].roles
          /\ o.targets \in {{g} : g \in Gws} /\ p.orig # "" => S[p.orig].oidc

GwInv ==
  /\ WorldOK /\ HostsOK(host) /\ OpOK(op) /\ UpgradeOK(op, host) /\ RunsOK(op, host)
  /\ ProvisionOK(op, host, server, cfgVersion, cbs)
  /\ StoreOK(store, mixed) /\ PushOK(op, push, store, mixed)

-----------------------------------------------------------------------------
(* The constants                                                           *)

LEMMA VersionsNat ==
  \A v : v \in Versions \cup {0} \cup CbsVersions => v \in Nat
<1>1. Versions \subseteq Nat /\ CbsVersions \subseteq Nat
  BY GatewayAssumption, Zenon
<1> QED
  BY <1>1

LEMMA BoundsNat == MaxOps \in Nat /\ MaxFaults \in Nat
BY GatewayAssumption, Zenon

LEMMA ListFacts ==
  /\ GatewayList \in Seq(Gws) /\ GatewayList # <<>> /\ Len(GatewayList) \in Nat
  /\ DOMAIN GatewayList = 1..Len(GatewayList)
<1>1. GatewayList \in Seq(Gws) /\ GatewayList # <<>>
  BY GatewayAssumption, Zenon
<1> QED
  BY <1>1

LEMMA OneLeft ==
  ASSUME NEW S, NEW s \in Seq(S), s # <<>>, Len(s) <= 1
  PROVE  Len(s) = 1
<1> DEFINE n == Len(s)
<1>1. n \in Nat \ {0} /\ n <= 1
  BY EmptySeq
<1> HIDE DEF n
<1>2. n = 1
  BY <1>1
<1> QED
  BY <1>2 DEF n

\* What is left of a list with more than one element.
LEMMA TailFacts ==
  ASSUME NEW S, NEW s \in Seq(S), ~(Len(s) <= 1)
  PROVE  /\ s # <<>> /\ Head(s) = s[1] /\ Head(s) \in S /\ Len(s) \in Nat
         /\ Tail(s) \in Seq(S) /\ Len(Tail(s)) = Len(s) - 1 /\ Len(Tail(s)) \in Nat
         /\ Len(Tail(s)) >= 1 /\ Tail(s) # <<>> /\ Head(Tail(s)) \in S
         /\ \A i \in 1..Len(Tail(s)) : Tail(s)[i] = s[i + 1]
<1>1. s # <<>> /\ Len(s) \in Nat /\ Len(s) >= 2
  OBVIOUS
<1>2. Head(s) = s[1] /\ Head(s) \in S
  BY <1>1
<1>3. Tail(s) \in Seq(S) /\ Len(Tail(s)) = Len(s) - 1
  BY <1>1
<1>4. \A i \in 1..Len(Tail(s)) : Tail(s)[i] = s[i + 1]
  BY <1>1
<1>5. Len(Tail(s)) \in Nat /\ Len(Tail(s)) >= 1
  BY <1>1, <1>3
<1> DEFINE t == Tail(s)
<1> HIDE DEF t
<1>6. t \in Seq(S) /\ Len(t) >= 1
  BY <1>3, <1>5 DEF t
<1>7. t # <<>> /\ Head(t) \in S
  BY <1>6
<1> QED
  BY <1>1, <1>2, <1>3, <1>4, <1>5, <1>7 DEF t

-----------------------------------------------------------------------------
(* The copies of the rules for a gateway's settings                        *)

\* What two copies agree on when these settings are alike.
LEMMA SameCore ==
  ASSUME NEW a, NEW b,
         a.allow = b.allow, a.revs = b.revs, a.delta = b.delta, a.hide = b.hide,
         a.skipVerify = b.skipVerify, a.tlsOff = b.tlsOff, a.adminOff = b.adminOff,
         (a.xattrs = "true") <=> (b.xattrs = "true"),
         (a.ssl # "none") <=> (b.ssl # "none")
  PROVE  Core(a) = Core(b)
<1>1. (a.xattrs = "true") = (b.xattrs = "true") /\ (a.ssl # "none") = (b.ssl # "none")
  OBVIOUS
<1> QED
  BY <1>1, Zenon DEF Core

\* The settings that Core looks at do not depend on the scheme.
LEMMA CommonCore ==
  ASSUME NEW f, NEW v, NEW s
  PROVE  /\ Core(CommonVars(f, v, s)) = Core(CommonVars(f, v, "couchbase"))
         /\ "cbsSsl" \in f => CommonVars(f, v, s).scheme = "couchbases"
<1>1. Core(CommonVars(f, v, s)) = Core(CommonVars(f, v, "couchbase"))
  BY DEF Core, CommonVars
<1>2. "cbsSsl" \in f => CommonVars(f, v, s).scheme = "couchbases"
  BY DEF CommonVars
<1> QED
  BY <1>1, <1>2

\* The copies for files that hold the whole configuration.
LEMMA KeywordCore ==
  ASSUME NEW f, NEW v, NEW s
  PROVE  /\ Core(StartKeywordVars(f, v, s)) = Core(CommonVars(f, v, "couchbase"))
         /\ "cbsSsl" \in f => StartKeywordVars(f, v, s).scheme = "couchbases"
<1> DEFINE c == CommonVars(f, v, "couchbase")
           x == StartKeywordVars(f, v, s)
<1>1. /\ x.allow = c.allow /\ x.revs = c.revs /\ x.delta = c.delta /\ x.hide = c.hide
      /\ x.skipVerify = c.skipVerify /\ x.tlsOff = c.tlsOff /\ x.adminOff = c.adminOff
      /\ x.xattrs = c.xattrs
  BY DEF StartKeywordVars, CommonVars
<1>2. (x.ssl # "none") <=> (c.ssl # "none")
  BY DEF StartKeywordVars, CommonVars, Https
<1>3. "cbsSsl" \in f => x.scheme = "couchbases"
  BY DEF StartKeywordVars, CommonVars
<1> HIDE DEF c, x
<1>4. Core(x) = Core(c)
  BY <1>1, <1>2, SameCore
<1> QED
  BY <1>3, <1>4 DEF c, x

LEMMA UpgradeCore ==
  ASSUME NEW f, NEW v, NEW s, NEW server_version \in Nat, server_version >= 500
  PROVE  Core(UpgradeVars(f, v, s, server_version)) = Core(CommonVars(f, v, "couchbase"))
<1> DEFINE c == CommonVars(f, v, "couchbase")
           x == UpgradeVars(f, v, s, server_version)
<1>1. /\ x.allow = c.allow /\ x.revs = c.revs /\ x.delta = c.delta /\ x.hide = c.hide
      /\ x.skipVerify = c.skipVerify /\ x.tlsOff = c.tlsOff /\ x.adminOff = c.adminOff
  BY DEF UpgradeVars, CommonVars
<1>2. x.xattrs = c.xattrs
  <2>1. ~(server_version < 500)
    OBVIOUS
  <2> QED
    BY <2>1 DEF UpgradeVars, CommonVars
<1>3. (x.ssl # "none") <=> (c.ssl # "none")
  BY DEF UpgradeVars, CommonVars, Https
<1> HIDE DEF c, x
<1>4. Core(x) = Core(c)
  BY <1>1, <1>2, <1>3, SameCore
<1> QED
  BY <1>4 DEF c, x

LEMMA RedeployCore ==
  ASSUME NEW f, NEW v, NEW enable_import
  PROVE  /\ Core(RedeployVars(f, v, enable_import)) = Core(CommonVars(f, v, "couchbase"))
         /\ "cbsSsl" \in f => RedeployVars(f, v, enable_import).scheme = "couchbases"
<1> DEFINE c == CommonVars(f, v, "couchbase")
           x == RedeployVars(f, v, enable_import)
<1>1. /\ x.allow = c.allow /\ x.revs = c.revs /\ x.delta = c.delta /\ x.hide = c.hide
      /\ x.skipVerify = c.skipVerify /\ x.tlsOff = c.tlsOff /\ x.adminOff = c.adminOff
      /\ x.xattrs = c.xattrs
  BY DEF RedeployVars, CommonVars
<1>2. (x.ssl # "none") <=> (c.ssl # "none")
  BY DEF RedeployVars, CommonVars, Https
<1>3. "cbsSsl" \in f => x.scheme = "couchbases"
  BY DEF RedeployVars, CommonVars
<1> HIDE DEF c, x
<1>4. Core(x) = Core(c)
  BY <1>1, <1>2, SameCore
<1> QED
  BY <1>3, <1>4 DEF c, x

LEMMA InstallCore ==
  ASSUME NEW f, NEW v
  PROVE  /\ Core(InstallVars(f, v)) = Core(CommonVars(f, v, "couchbase"))
         /\ "cbsSsl" \in f => InstallVars(f, v).scheme = "couchbases"
<1> DEFINE c == CommonVars(f, v, "couchbase")
           x == InstallVars(f, v)
<1>1. /\ x.allow = c.allow /\ x.revs = c.revs /\ x.delta = c.delta /\ x.hide = c.hide
      /\ x.skipVerify = c.skipVerify /\ x.tlsOff = c.tlsOff /\ x.adminOff = c.adminOff
      /\ x.xattrs = c.xattrs
  BY DEF InstallVars, CommonVars
<1>2. (x.ssl # "none") <=> (c.ssl # "none")
  BY DEF InstallVars, CommonVars, Https
<1>3. "cbsSsl" \in f => x.scheme = "couchbases"
  BY DEF InstallVars, CommonVars
<1> HIDE DEF c, x
<1>4. Core(x) = Core(c)
  BY <1>1, <1>2, SameCore
<1> QED
  BY <1>3, <1>4 DEF c, x

LEMMA ResetCore ==
  ASSUME NEW f, NEW v, NEW m
  PROVE  /\ Core(ResetVars(f, v, m)) = Core(CommonVars(f, v, "couchbase"))
         /\ "cbsSsl" \in f => ResetVars(f, v, m).scheme = "couchbases"
<1> DEFINE c == CommonVars(f, v, "couchbase")
           x == ResetVars(f, v, m)
<1>1. /\ x.allow = c.allow /\ x.revs = c.revs /\ x.delta = c.delta /\ x.hide = c.hide
      /\ x.skipVerify = c.skipVerify /\ x.tlsOff = c.tlsOff /\ x.adminOff = c.adminOff
      /\ x.xattrs = c.xattrs
  BY DEF ResetVars, CommonVars
<1>2. (x.ssl # "none") <=> (c.ssl # "none")
  <2>1. Https({"ssl"} \cup m) # "none"
    BY DEF Https
  <2>2. x.ssl = IF "ssl" \in f THEN Https({"ssl"} \cup m) ELSE "none"
    BY DEF ResetVars, CommonVars
  <2>3. c.ssl = IF "ssl" \in f THEN "SSLCert" ELSE "none"
    BY DEF CommonVars
  <2> HIDE DEF x, c
  <2> QED
    BY <2>1, <2>2, <2>3
<1>3. "cbsSsl" \in f => x.scheme = "couchbases"
  BY DEF ResetVars, CommonVars
<1> HIDE DEF c, x
<1>4. Core(x) = Core(c)
  BY <1>1, <1>2, SameCore
<1> QED
  BY <1>3, <1>4 DEF c, x

\* The copies for persistent configurations; they do not ask for the version.
LEMMA PersistentCore ==
  ASSUME NEW f, NEW v \in Nat
  PROVE  /\ v >= 300 => /\ Core(PersistentVars(f, v)) = Core(CommonVars(f, v, "couchbase"))
                        /\ Core(SetupServerVars(f, v)) = Core(CommonVars(f, v, "couchbase"))
         /\ "cbsSsl" \in f => /\ PersistentVars(f, v).scheme = "couchbases"
                              /\ SetupServerVars(f, v).scheme = "couchbases"
<1> DEFINE c == CommonVars(f, v, "couchbase")
           x == PersistentVars(f, v)
           y == SetupServerVars(f, v)
<1>1. /\ x.allow = c.allow /\ x.revs = c.revs /\ x.delta = c.delta
      /\ x.skipVerify = c.skipVerify /\ x.tlsOff = c.tlsOff /\ x.adminOff = c.adminOff
  BY DEF PersistentVars, CommonVars
<1>2. (x.ssl # "none") <=> (c.ssl # "none")
  BY DEF PersistentVars, CommonVars, Https
<1>3. (x.xattrs = "true") <=> (c.xattrs = "true")
  BY DEF PersistentVars, CommonVars
<1>4. v >= 300 => x.hide = c.hide
  <2>1. SUFFICES ASSUME v >= 300 PROVE x.hide = c.hide
    OBVIOUS
  <2>2. x.hide = ("hide" \in f) /\ c.hide = ("hide" \in f /\ v >= 281)
    BY DEF PersistentVars, CommonVars
  <2>3. v >= 281
    BY <2>1
  <2> QED
    BY <2>2, <2>3
<1>5. "cbsSsl" \in f => x.scheme = "couchbases"
  BY DEF PersistentVars, CommonVars, SchemeFor
<1>6. /\ y.allow = x.allow /\ y.revs = x.revs /\ y.delta = x.delta /\ y.hide = x.hide
      /\ y.skipVerify = x.skipVerify /\ y.tlsOff = x.tlsOff /\ y.adminOff = x.adminOff
      /\ y.xattrs = x.xattrs /\ y.ssl = x.ssl /\ y.scheme = x.scheme
  BY DEF SetupServerVars, PersistentVars, CommonVars
<1> HIDE DEF c, x, y
<1>7. v >= 300 => Core(x) = Core(c)
  BY <1>1, <1>2, <1>3, <1>4, SameCore
<1>8. Core(y) = Core(x)
  BY <1>6, SameCore
<1> QED
  BY <1>5, <1>6, <1>7, <1>8 DEF c, x, y

\* Flags that were overridden are not overridden again.
LEMMA OverriddenOK ==
  ASSUME NEW f \in ConfigFlags
  PROVE  Overridden(f) \in ConfigFlags
<1>1. CASE f \in FlagSets
  BY <1>1 DEF ConfigFlags
<1>2. ASSUME NEW u \in FlagSets, f = Overridden(u) PROVE Overridden(f) = Overridden(u)
  BY <1>2 DEF Overridden
<1> QED
  BY <1>1, <1>2 DEF ConfigFlags

\* A file with the settings of one of the copies.
LEMMA FileGood ==
  ASSUME NEW f \in FileFlags, NEW v, NEW vars,
         cbs >= 500 => Core(vars) = Core(CommonVars(f, v, "couchbase")),
         "cbsSsl" \in f => vars.scheme = "couchbases"
  PROVE  GoodFile(File(f, v, vars)) /\ File(f, v, vars).f \in FileFlags
<1> DEFINE x == File(f, v, vars)
<1>1. x.f = f /\ x.v = v /\ x.cbs = cbs /\ x.vars = vars
  BY DEF File
<1> HIDE DEF x
<1> QED
  BY <1>1 DEF GoodFile, x

LEMMA BootstrapGood ==
  ASSUME NEW f \in FileFlags, NEW v, NEW vars,
         v >= 300 => Core(vars) = Core(CommonVars(f, v, "couchbase")),
         "cbsSsl" \in f => vars.scheme = "couchbases"
  PROVE  GoodFile(Bootstrap(f, v, vars)) /\ Bootstrap(f, v, vars).f \in FileFlags
<1> DEFINE x == Bootstrap(f, v, vars)
<1>1. x.f = f /\ x.v = v /\ x.cbs = cbs /\ x.vars = vars /\ x.persistent = TRUE
  BY DEF Bootstrap, File
<1>2. x.persistent
  BY <1>1
<1> HIDE DEF x
<1> QED
  BY <1>1, <1>2 DEF GoodFile, x

\* Every operation renders a file that is right for a gateway, but for the start of an
\* accelerator, which renders one for that.
LEMMA RenderedGood ==
  ASSUME WorldOK, NEW name, NEW T, NEW version \in Versions \cup {0}, NEW import
  PROVE  LET x == Rendered(name, T, version, import) IN
         x # NoFile => x.f \in FileFlags /\ (name # "accel_start" => GoodFile(x))
<1> DEFINE x == Rendered(name, T, version, import)
           s == KeywordScheme(name, version)
           f == FlagsOf(name)
<1>0. /\ flags \in FileFlags /\ f \in FileFlags
      /\ cfgVersion \in Nat /\ version \in Nat /\ cbs \in Nat
  BY VersionsNat DEF WorldOK, FlagsOf, FileFlags
<1>1. CASE UsesPersistent(name, version)
  <2>1. GoodFile(Bootstrap(flags, cfgVersion, SetupVars(flags, cfgVersion)))
        /\ Bootstrap(flags, cfgVersion, SetupVars(flags, cfgVersion)).f \in FileFlags
    BY <1>0, PersistentCore, BootstrapGood DEF SetupVars
  <2>2. ASSUME NEW v \in Nat, NEW e \in FileFlags
        PROVE  GoodFile(Bootstrap(e, v, SetupServerVars(e, v)))
               /\ Bootstrap(e, v, SetupServerVars(e, v)).f \in FileFlags
    BY <1>0, PersistentCore, BootstrapGood
  <2>3. \/ x = Bootstrap(flags, cfgVersion, SetupVars(flags, cfgVersion))
        \/ x = Bootstrap(flags, version, SetupServerVars(flags, version))
        \/ x = Bootstrap(f, cfgVersion, SetupServerVars(f, cfgVersion))
    <3>1. CASE name \in {"tk_start", "tk_restart"}
      BY <1>1, <3>1, Zenon DEF Rendered
    <3>2. CASE name = "redeploy"
      BY <1>1, <3>2 DEF Rendered
    <3>3. CASE name \notin {"tk_start", "tk_restart", "redeploy"}
      BY <1>1, <3>3 DEF Rendered
    <3> QED
      BY <3>1, <3>2, <3>3
  <2> HIDE DEF x, f
  <2> QED
    BY <2>1, <2>2, <2>3, <1>0 DEF x
<1>2. CASE ~UsesPersistent(name, version)
  <2>1. ASSUME NEW v, NEW sc
        PROVE  GoodFile(File(flags, v, CommonVars(flags, v, sc)))
               /\ File(flags, v, CommonVars(flags, v, sc)).f \in FileFlags
    BY <1>0, CommonCore, FileGood
  <2>2. GoodFile(File(flags, cfgVersion, StartKeywordVars(flags, cfgVersion, s)))
        /\ File(flags, cfgVersion, StartKeywordVars(flags, cfgVersion, s)).f \in FileFlags
    BY <1>0, KeywordCore, FileGood
  <2>3. ASSUME name = "upgrade"
        PROVE  GoodFile(File(flags, version, UpgradeVars(flags, version, s, cbs)))
               /\ File(flags, version, UpgradeVars(flags, version, s, cbs)).f \in FileFlags
    <3>1. "cbsSsl" \in flags => s = "couchbases"
      BY <1>2, <2>3 DEF KeywordScheme, SchemeFor
    <3>2. "cbsSsl" \in flags => UpgradeVars(flags, version, s, cbs).scheme = "couchbases"
      <4> HIDE DEF s
      <4> QED
        BY <3>1 DEF UpgradeVars, CommonVars
    <3> HIDE DEF s
    <3>3. cbs >= 500 => Core(UpgradeVars(flags, version, s, cbs))
                          = Core(CommonVars(flags, version, "couchbase"))
      BY <1>0, UpgradeCore
    <3> QED
      BY <3>2, <3>3, <1>0, FileGood
  <2>4. GoodFile(File(flags, version, RedeployVars(flags, version, import)))
        /\ File(flags, version, RedeployVars(flags, version, import)).f \in FileFlags
    BY <1>0, RedeployCore, FileGood
  <2>5. GoodFile(File(flags, version, InstallVars(flags, version)))
        /\ File(flags, version, InstallVars(flags, version)).f \in FileFlags
    BY <1>0, InstallCore, FileGood
  <2>6. File(flags, cfgVersion, AccelVars(flags, cfgVersion)).f \in FileFlags
    BY <1>0 DEF File
  <2>8. GoodFile(File(f, cfgVersion, ResetVars(f, cfgVersion, made)))
        /\ File(f, cfgVersion, ResetVars(f, cfgVersion, made)).f \in FileFlags
    <3> HIDE DEF f
    <3> QED
      BY <1>0, ResetCore, FileGood
  <2>7. /\ name \in {"tk_start", "tk_restart"} =>
             \E sc : x = File(flags, cfgVersion, CommonVars(flags, cfgVersion, sc))
        /\ name = "start" => x = File(flags, cfgVersion, StartKeywordVars(flags, cfgVersion, s))
        /\ name = "upgrade" => x = File(flags, version, UpgradeVars(flags, version, s, cbs))
        /\ name = "redeploy" => x = File(flags, version, RedeployVars(flags, version, import))
        /\ name = "install" => x = File(flags, version, InstallVars(flags, version))
        /\ name = "accel_start" => x = File(flags, cfgVersion, AccelVars(flags, cfgVersion))
        /\ name = "cluster_reset" => x = File(f, cfgVersion, ResetVars(f, cfgVersion, made))
        /\ name \notin {"tk_start", "tk_restart", "start", "upgrade", "redeploy", "install",
                        "cluster_reset", "accel_start"} => x = NoFile
    <3> HIDE DEF s, f
    <3> QED
      BY <1>2 DEF Rendered, StartVars, RestartVars, s, f
  <2> HIDE DEF x, s, f
  <2> QED
    BY <2>1, <2>2, <2>3, <2>4, <2>5, <2>6, <2>7, <2>8 DEF x
<1> QED
  BY <1>1, <1>2

-----------------------------------------------------------------------------
(* Playbooks                                                               *)

Four == {"stop", "deploy", "package", "start"}

\* What the phases of a playbook do to one host.
LEMMA PerformEffect ==
  ASSUME NEW x, HostOK(x), NEW phase \in Four, OpOK(op)
  PROVE  LET y == Perform(x, phase) IN
         /\ HostOK(y)
         /\ phase = "stop" => ~y.up /\ y.version = x.version /\ y.file = x.file
         /\ phase = "deploy" => /\ (y.up <=> x.up) /\ y.version = x.version
                                /\ y.file = op.file /\ y.running = x.running
         /\ phase = "package" => /\ (y.up <=> x.up) /\ y.version = op.version
                                 /\ y.file = x.file /\ y.running = x.running
         /\ phase = "start" => /\ y.version = x.version /\ y.file = x.file
                               /\ ~x.up /\ y.up => y.running = y.file
<1> DEFINE y == Perform(x, phase)
<1>0. /\ x = [up |-> x.up, version |-> x.version, file |-> x.file, running |-> x.running]
      /\ x.up \in BOOLEAN /\ x.version \in Versions \cup {0}
      /\ x.running # NoFile => x.up
      /\ x.file # NoFile => x.file.f \in FileFlags
      /\ op.version \in Versions \cup {0}
      /\ op.file # NoFile => op.file.f \in FileFlags
  BY DEF HostOK, IsHost, OpOK
<1>1. CASE phase = "stop"
  <2>1. y = [up |-> FALSE, version |-> x.version, file |-> x.file, running |-> NoFile]
    <3>1. y = [x EXCEPT !.up = FALSE, !.running = NoFile]
      BY <1>1 DEF Perform
    <3> HIDE DEF y
    <3> QED
      BY <3>1, <1>0
  <2> HIDE DEF y
  <2>2. y.up = FALSE /\ y.version = x.version /\ y.file = x.file /\ y.running = NoFile
    BY <2>1
  <2>3. ~y.up /\ y.up \in BOOLEAN
    BY <2>2
  <2>4. IsHost(y)
    BY <2>1, <2>2 DEF IsHost
  <2>5. HostOK(y)
    BY <2>2, <2>3, <2>4, <1>0 DEF HostOK
  <2> QED
    BY <1>1, <2>2, <2>3, <2>5 DEF y
<1>2. CASE phase = "deploy"
  <2>1. y = [up |-> x.up, version |-> x.version, file |-> op.file, running |-> x.running]
    <3>1. y = [x EXCEPT !.file = op.file]
      BY <1>2 DEF Perform
    <3> HIDE DEF y
    <3> QED
      BY <3>1, <1>0
  <2> HIDE DEF y
  <2>2. y.up = x.up /\ y.version = x.version /\ y.file = op.file /\ y.running = x.running
    BY <2>1
  <2>4. IsHost(y)
    BY <2>1, <2>2 DEF IsHost
  <2>5. HostOK(y)
    BY <2>2, <2>4, <1>0 DEF HostOK
  <2> QED
    BY <1>2, <2>2, <2>5 DEF y
<1>3. CASE phase = "package"
  <2>1. y = [up |-> x.up, version |-> op.version, file |-> x.file, running |-> x.running]
    <3>1. y = [x EXCEPT !.version = op.version]
      BY <1>3 DEF Perform
    <3> HIDE DEF y
    <3> QED
      BY <3>1, <1>0
  <2> HIDE DEF y
  <2>2. y.up = x.up /\ y.version = op.version /\ y.file = x.file /\ y.running = x.running
    BY <2>1
  <2>4. IsHost(y)
    BY <2>1, <2>2 DEF IsHost
  <2>5. HostOK(y)
    BY <2>2, <2>4, <1>0 DEF HostOK
  <2> QED
    BY <1>3, <2>2, <2>5 DEF y
<1>4. CASE phase = "start"
  <2>1. y = x \/ y = [x EXCEPT !.up = TRUE, !.running = x.file]
    BY <1>4 DEF Perform
  <2>2. y = x => ~(~x.up /\ y.up)
    OBVIOUS
  <2> HIDE DEF y
  <2>3. CASE y = x
    BY <1>4, <2>2, <2>3 DEF y
  <2>4. CASE y = [x EXCEPT !.up = TRUE, !.running = x.file]
    <3>1. y = [up |-> TRUE, version |-> x.version, file |-> x.file, running |-> x.file]
      BY <2>4, <1>0
    <3>2. y.up = TRUE /\ y.version = x.version /\ y.file = x.file /\ y.running = x.file
      BY <3>1
    <3>3. y.up /\ y.up \in BOOLEAN
      BY <3>2
    <3>4. IsHost(y)
      BY <3>1, <3>2 DEF IsHost
    <3>5. HostOK(y)
      BY <3>2, <3>3, <3>4, <1>0 DEF HostOK
    <3> QED
      BY <1>4, <3>2, <3>3, <3>5 DEF y
  <2> QED
    BY <2>1, <2>3, <2>4
<1> QED
  BY <1>1, <1>2, <1>3, <1>4 DEF Four

\* The playbooks have at most four phases.
LEMMA PhasesOK ==
  ASSUME NEW kind \in Kinds \ {"none"}, NEW h
  PROVE  /\ Len(Phases(kind, h)) \in 1..4
         /\ \A n \in 1..Len(Phases(kind, h)) : Phases(kind, h)[n] \in Four
<1>1. CASE kind = "stop"
  BY <1>1 DEF Phases, GatewayPhases, Four
<1>2. CASE kind = "start"
  BY <1>2 DEF Phases, GatewayPhases, Four
<1>3. CASE kind = "restart"
  BY <1>3 DEF Phases, GatewayPhases, Four
<1>4. CASE kind \in {"reset", "clusterReset"}
  BY <1>4 DEF Phases, GatewayPhases, Four
<1>5. CASE kind = "deploy"
  BY <1>5 DEF Phases, GatewayPhases, Four
<1>6. CASE kind = "deployOnly"
  BY <1>6 DEF Phases, GatewayPhases, Four
<1>7. CASE kind = "upgrade"
  BY <1>7 DEF Phases, GatewayPhases, Four
<1>8. CASE kind = "upgradeOnly"
  BY <1>8 DEF Phases, GatewayPhases, Four
<1>9. CASE kind \in {"install", "installAccel"}
  BY <1>9 DEF Phases, GatewayPhases, Four
<1> QED
  BY <1>1, <1>2, <1>3, <1>4, <1>5, <1>6, <1>7, <1>8, <1>9 DEF Kinds

\* A host gets its version and its file from the operation or keeps them.
Became(x, y) ==
  /\ HostOK(y) /\ y.version \in {x.version, op.version} /\ y.file \in {x.file, op.file}

LEMMA StepOK ==
  ASSUME NEW x, NEW y, HostOK(x), Became(x, y), OpOK(op), NEW kind \in Kinds \ {"none"},
         NEW T, NEW failAt, NEW h, NEW n \in 1..4
  PROVE  Became(x, Step(y, kind, T, failAt, h, n))
<1>1. CASE Does(kind, T, failAt, h, n)
  <2>1. n \in 1..Len(Phases(kind, h))
    BY <1>1, PhasesOK DEF Does
  <2>2. Phases(kind, h)[n] \in Four
    BY <2>1, PhasesOK
  <2>3. HostOK(y)
    BY DEF Became
  <2> DEFINE z == Perform(y, Phases(kind, h)[n])
  <2>4. HostOK(z) /\ z.version \in {y.version, op.version} /\ z.file \in {y.file, op.file}
    BY <2>2, <2>3, PerformEffect DEF Four
  <2> HIDE DEF z
  <2>5. Became(x, z)
    BY <2>4 DEF Became
  <2> QED
    BY <1>1, <2>5 DEF Step, z
<1>2. CASE ~Does(kind, T, failAt, h, n)
  BY <1>2 DEF Step
<1> QED
  BY <1>1, <1>2

\* What a playbook does, however it ends.
LEMMA AfterOK ==
  ASSUME HostsOK(host), OpOK(op), NEW kind \in Kinds \ {"none"}, NEW T \in SUBSET Hosts,
         NEW failAt
  PROVE  LET H == AfterPlaybook(kind, T, failAt) IN
         /\ DOMAIN H = Hosts
         /\ \A h \in Hosts : Became(host[h], H[h])
         /\ \A h \in Hosts \ T : H[h] = host[h]
<1> DEFINE H == AfterPlaybook(kind, T, failAt)
<1>1. DOMAIN H = Hosts /\ \A h \in Hosts \ T : H[h] = host[h]
  BY DEF AfterPlaybook
<1>2. ASSUME NEW h \in Hosts PROVE Became(host[h], H[h])
  <2> DEFINE one == Step(host[h], kind, T, failAt, h, 1)
             two == Step(one, kind, T, failAt, h, 2)
             three == Step(two, kind, T, failAt, h, 3)
             four == Step(three, kind, T, failAt, h, 4)
  <2>1. HostOK(host[h])
    BY DEF HostsOK
  <2>2. Became(host[h], host[h])
    BY <2>1 DEF Became
  <2>3. 1 \in 1..4 /\ 2 \in 1..4 /\ 3 \in 1..4 /\ 4 \in 1..4
    OBVIOUS
  <2>4. Became(host[h], one)
    BY <2>1, <2>2, <2>3, StepOK
  <2> HIDE DEF one
  <2>5. Became(host[h], two)
    BY <2>1, <2>3, <2>4, StepOK
  <2> HIDE DEF two
  <2>6. Became(host[h], three)
    BY <2>1, <2>3, <2>5, StepOK
  <2> HIDE DEF three
  <2>7. Became(host[h], four)
    BY <2>1, <2>3, <2>6, StepOK
  <2> HIDE DEF four
  <2>8. H[h] = IF h \notin T THEN host[h] ELSE four
    BY DEF AfterPlaybook, MaxPhases, one, two, three, four
  <2> HIDE DEF H
  <2> QED
    BY <2>2, <2>7, <2>8
<1> QED
  BY <1>1, <1>2

\* When the status is 0 every host has done all phases.
LEMMA DoesAll ==
  ASSUME NEW kind \in Kinds \ {"none"}, NEW T, NEW failAt \in [T -> 1..(MaxPhases + 1)],
         NEW after, StatusZero(kind, T, failAt, after), NEW h \in T, NEW n \in 1..4
  PROVE  Does(kind, T, failAt, h, n) <=> n <= Len(Phases(kind, h))
<1> DEFINE L == Len(Phases(kind, h))
<1>1. L \in 1..4 /\ \A x \in T : failAt[x] \in Nat
  BY PhasesOK DEF MaxPhases
<1>2. Does(kind, T, failAt, h, L)
  BY DEF StatusZero
<1> HIDE DEF L
<1>3. L < failAt[h]
  BY <1>2 DEF Does
<1>4. ASSUME n <= L PROVE Does(kind, T, failAt, h, n)
  <2>1. n < failAt[h]
    BY <1>1, <1>3, <1>4
  <2>2. \A x \in T : failAt[x] < n => failAt[x] < L
    BY <1>1, <1>4
  <2> QED
    BY <1>2, <1>4, <2>1, <2>2 DEF Does, L
<1> QED
  BY <1>4 DEF Does, L

\* A playbook that stops its hosts first and succeeded leaves them with their file.
LEMMA AfterSuccess ==
  ASSUME HostsOK(host), OpOK(op), NEW T \in SUBSET Hosts,
         NEW kind \in {"reset", "clusterReset", "deploy", "upgrade", "restart", "install"},
         NEW failAt \in [T -> 1..(MaxPhases + 1)],
         StatusZero(kind, T, failAt, AfterPlaybook(kind, T, failAt)), NEW g \in T \cap Gws
  PROVE  LET x == AfterPlaybook(kind, T, failAt)[g] IN
         /\ x.up => x.running = x.file
         /\ kind = "install" => x.file = op.file
<1> DEFINE one == Step(host[g], kind, T, failAt, g, 1)
           two == Step(one, kind, T, failAt, g, 2)
           three == Step(two, kind, T, failAt, g, 3)
           four == Step(three, kind, T, failAt, g, 4)
<1>0. AfterPlaybook(kind, T, failAt)[g] = four /\ HostOK(host[g]) /\ kind \in Kinds \ {"none"}
  BY DEF AfterPlaybook, MaxPhases, HostsOK, Kinds
<1>1. Phases(kind, g) = GatewayPhases[kind]
  BY GatewayAssumption DEF Phases
<1>2. \A n \in 1..4 : Does(kind, T, failAt, g, n) <=> n <= Len(GatewayPhases[kind])
  BY <1>0, <1>1, DoesAll
<1>3. ASSUME NEW x, NEW n \in 1..4
      PROVE  Step(x, kind, T, failAt, g, n)
               = IF n <= Len(GatewayPhases[kind]) THEN Perform(x, GatewayPhases[kind][n]) ELSE x
  BY <1>1, <1>2 DEF Step
<1>4. GatewayPhases[kind][1] = "stop" /\ 1 <= Len(GatewayPhases[kind])
  BY DEF GatewayPhases
<1>5. HostOK(one) /\ ~one.up
  <2>1. one = Perform(host[g], "stop")
    BY <1>3, <1>4
  <2> QED
    BY <2>1, <1>0, PerformEffect DEF Four
<1> HIDE DEF one
<1>6. CASE kind = "restart"
  <2>1. GatewayPhases[kind] = <<"stop", "start">>
    BY <1>6 DEF GatewayPhases
  <2>2. two = Perform(one, "start")
    BY <1>3, <2>1
  <2>3. HostOK(two) /\ (two.up => two.running = two.file)
    BY <2>2, <1>5, PerformEffect DEF Four
  <2> HIDE DEF two
  <2>4. three = two /\ four = three
    BY <1>3, <2>1
  <2> QED
    BY <1>0, <1>6, <2>3, <2>4
<1>7. CASE kind \in {"reset", "clusterReset", "deploy"}
  <2>1. GatewayPhases[kind] = <<"stop", "deploy", "start">>
    BY <1>7 DEF GatewayPhases
  <2>2. two = Perform(one, "deploy")
    BY <1>3, <2>1
  <2>3. HostOK(two) /\ ~two.up
    BY <2>2, <1>5, PerformEffect DEF Four
  <2> HIDE DEF two
  <2>4. three = Perform(two, "start")
    BY <1>3, <2>1
  <2>5. HostOK(three) /\ (three.up => three.running = three.file)
    BY <2>3, <2>4, PerformEffect DEF Four
  <2> HIDE DEF three
  <2>6. four = three
    BY <1>3, <2>1
  <2> QED
    BY <1>0, <1>7, <2>5, <2>6
<1>8. CASE kind \in {"upgrade", "install"}
  <2>1. GatewayPhases[kind] = IF kind = "upgrade" THEN <<"stop", "deploy", "package", "start">>
                              ELSE <<"stop", "package", "deploy", "start">>
    BY <1>8 DEF GatewayPhases
  <2>2. two = Perform(one, IF kind = "upgrade" THEN "deploy" ELSE "package")
    BY <1>3, <2>1
  <2>3. HostOK(two) /\ ~two.up
    BY <2>2, <1>5, PerformEffect DEF Four
  <2> HIDE DEF two
  <2>4. three = Perform(two, IF kind = "upgrade" THEN "package" ELSE "deploy")
    BY <1>3, <2>1
  <2>5. HostOK(three) /\ ~three.up /\ (kind = "install" => three.file = op.file)
    BY <2>3, <2>4, PerformEffect DEF Four
  <2> HIDE DEF three
  <2>6. four = Perform(three, "start")
    BY <1>3, <2>1
  <2>7. (four.up => four.running = four.file) /\ four.file = three.file
    BY <2>5, <2>6, PerformEffect DEF Four
  <2> HIDE DEF four
  <2> QED
    BY <1>0, <2>5, <2>7
<1> QED
  BY <1>6, <1>7, <1>8

\* A host that is down, and one that runs with its file if it is up.
Down(y) == HostOK(y) /\ ~y.up
Fresh(y) == HostOK(y) /\ (y.up => y.running = y.file)

\* Whatever a playbook that stops its hosts first fails at, a gateway with another file
\* than before is down or runs with it.
LEMMA AfterAny ==
  ASSUME HostsOK(host), OpOK(op), NEW T \in SUBSET Hosts,
         NEW kind \in {"reset", "clusterReset", "deploy", "upgrade", "install"},
         NEW failAt \in [T -> 1..(MaxPhases + 1)], NEW g \in T \cap Gws
  PROVE  LET x == AfterPlaybook(kind, T, failAt)[g] IN x = host[g] \/ Fresh(x)
<1> DEFINE one == Step(host[g], kind, T, failAt, g, 1)
           two == Step(one, kind, T, failAt, g, 2)
           three == Step(two, kind, T, failAt, g, 3)
           four == Step(three, kind, T, failAt, g, 4)
<1>0. AfterPlaybook(kind, T, failAt)[g] = four /\ HostOK(host[g]) /\ kind \in Kinds \ {"none"}
  BY DEF AfterPlaybook, MaxPhases, HostsOK, Kinds
<1>1. Phases(kind, g) = GatewayPhases[kind]
  BY GatewayAssumption DEF Phases
<1>2. \A x \in T : failAt[x] \in 1..5
  BY DEF MaxPhases
<1>3. \A n \in 2..4 : Does(kind, T, failAt, g, n) => Does(kind, T, failAt, g, n - 1)
  <2> SUFFICES ASSUME NEW n \in 2..4, Does(kind, T, failAt, g, n)
               PROVE  Does(kind, T, failAt, g, n - 1)
    OBVIOUS
  <2>1. Len(Phases(kind, g)) \in 1..4
    BY <1>0, PhasesOK
  <2>2. n - 1 <= Len(Phases(kind, g)) /\ n - 1 < failAt[g]
    BY <1>2, <2>1 DEF Does
  <2>3. \A x \in T : failAt[x] < n - 1 => failAt[x] < n
    BY <1>2
  <2> QED
    BY <2>2, <2>3 DEF Does
<1>4. CASE ~Does(kind, T, failAt, g, 1)
  <2>1. \A n \in 1..4 : ~Does(kind, T, failAt, g, n)
    <3>1. ~Does(kind, T, failAt, g, 2)
      BY <1>3, <1>4
    <3>2. ~Does(kind, T, failAt, g, 3)
      BY <1>3, <3>1
    <3>3. ~Does(kind, T, failAt, g, 4)
      BY <1>3, <3>2
    <3> QED
      BY <1>4, <3>1, <3>2, <3>3
  <2>2. four = host[g]
    BY <2>1 DEF Step
  <2> QED
    BY <1>0, <2>2
<1>5. CASE Does(kind, T, failAt, g, 1)
  <2>1. ASSUME NEW y, NEW n \in 1..4
        PROVE  Step(y, kind, T, failAt, g, n) \in {y, Perform(y, GatewayPhases[kind][n])}
    BY <1>1 DEF Step
  <2>2. ASSUME NEW y, Down(y), NEW phase \in {"deploy", "package"}
        PROVE  Down(Perform(y, phase))
    BY <2>2, PerformEffect DEF Down, Four
  <2>3. ASSUME NEW y, Down(y) PROVE Fresh(Perform(y, "start")) /\ Fresh(y)
    BY <2>3, PerformEffect DEF Down, Fresh, Four
  <2>4. Down(one)
    <3>1. GatewayPhases[kind][1] = "stop"
      BY DEF GatewayPhases
    <3>2. one = Perform(host[g], "stop")
      BY <1>1, <1>5, <3>1 DEF Step
    <3> QED
      BY <1>0, <3>2, PerformEffect DEF Down, Four
  <2> HIDE DEF one
  <2>5. Down(two)
    <3>1. GatewayPhases[kind][2] \in {"deploy", "package"}
      BY DEF GatewayPhases
    <3> QED
      BY <2>1, <2>2, <2>4, <3>1
  <2> HIDE DEF two
  <2>6. CASE kind \in {"reset", "clusterReset", "deploy"}
    <3>1. GatewayPhases[kind] = <<"stop", "deploy", "start">>
      BY <2>6 DEF GatewayPhases
    <3>2. Fresh(three)
      BY <2>1, <2>3, <2>5, <3>1
    <3>3. ~Does(kind, T, failAt, g, 4)
      BY <1>1, <3>1 DEF Does
    <3>4. four = three
      BY <3>3 DEF Step
    <3> QED
      BY <1>0, <3>2, <3>4
  <2>7. CASE kind \in {"upgrade", "install"}
    <3>1. GatewayPhases[kind][3] \in {"deploy", "package"} /\ GatewayPhases[kind][4] = "start"
      BY <2>7 DEF GatewayPhases
    <3>2. Down(three)
      BY <2>1, <2>2, <2>5, <3>1
    <3> HIDE DEF three
    <3>3. Fresh(four)
      BY <2>1, <2>3, <3>1, <3>2
    <3> QED
      BY <1>0, <3>3
  <2> QED
    BY <2>6, <2>7
<1> QED
  BY <1>4, <1>5

\* A playbook that deploys nothing leaves the files alone.
LEMMA FilesKept ==
  ASSUME HostsOK(host), OpOK(op), NEW T \in SUBSET Hosts,
         NEW kind \in {"stop", "restart", "upgradeOnly"}, NEW failAt, NEW g \in Gws
  PROVE  AfterPlaybook(kind, T, failAt)[g].file = host[g].file
<1> DEFINE one == Step(host[g], kind, T, failAt, g, 1)
           two == Step(one, kind, T, failAt, g, 2)
           three == Step(two, kind, T, failAt, g, 3)
           four == Step(three, kind, T, failAt, g, 4)
           Same(y) == HostOK(y) /\ y.file = host[g].file
<1>0. /\ AfterPlaybook(kind, T, failAt)[g] = IF g \notin T THEN host[g] ELSE four
      /\ HostOK(host[g]) /\ kind \in Kinds \ {"none"}
  BY DEF AfterPlaybook, MaxPhases, HostsOK, Kinds, Hosts
<1>1. Phases(kind, g) = GatewayPhases[kind]
  BY GatewayAssumption DEF Phases
<1>2. \A n \in 1..Len(GatewayPhases[kind]) : GatewayPhases[kind][n] \in Four \ {"deploy"}
  <2>1. CASE kind = "stop"
    BY <2>1 DEF GatewayPhases, Four
  <2>2. CASE kind = "restart"
    BY <2>2 DEF GatewayPhases, Four
  <2>3. CASE kind = "upgradeOnly"
    BY <2>3 DEF GatewayPhases, Four
  <2> QED
    BY <2>1, <2>2, <2>3
<1>3. ASSUME NEW y, Same(y), NEW n \in 1..4 PROVE Same(Step(y, kind, T, failAt, g, n))
  <2>1. CASE Does(kind, T, failAt, g, n)
    <3>1. n \in 1..Len(GatewayPhases[kind])
      BY <1>1, <2>1, <1>0, PhasesOK DEF Does
    <3>2. GatewayPhases[kind][n] \in Four \ {"deploy"}
      BY <1>2, <3>1
    <3>3. Step(y, kind, T, failAt, g, n) = Perform(y, GatewayPhases[kind][n])
      BY <1>1, <2>1 DEF Step
    <3>4. LET z == Perform(y, GatewayPhases[kind][n]) IN HostOK(z) /\ z.file = y.file
      BY <1>3, <3>2, PerformEffect DEF Four
    <3> QED
      BY <1>3, <3>3, <3>4
  <2>2. CASE ~Does(kind, T, failAt, g, n)
    BY <1>3, <2>2 DEF Step
  <2> QED
    BY <2>1, <2>2
<1>4. Same(host[g])
  BY <1>0
<1> HIDE DEF Same
<1>5. 1 \in 1..4 /\ 2 \in 1..4 /\ 3 \in 1..4 /\ 4 \in 1..4
  OBVIOUS
<1>6. Same(one)
  BY <1>3, <1>4, <1>5
<1> HIDE DEF one
<1>7. Same(two)
  BY <1>3, <1>5, <1>6
<1> HIDE DEF two
<1>8. Same(three)
  BY <1>3, <1>5, <1>7
<1> HIDE DEF three
<1>9. Same(four)
  BY <1>3, <1>5, <1>8
<1> QED
  BY <1>0, <1>9 DEF Same

-----------------------------------------------------------------------------
(* The operations begin                                                    *)

\* The facts about the rest of the state that most steps leave alone.
LEMMA WorldKept ==
  ASSUME WorldOK, UNCHANGED <<world, kw, made, mixed, loaded, nops>>, faults' \in 0..MaxFaults
  PROVE  WorldOK'
BY DEF WorldOK, world

LEMMA BeginKeeps ==
  ASSUME GwInv, NEW name, NEW kind \in Kinds \ {"none", "installAccel"}, NEW T \in SUBSET Hosts,
         NEW version \in Versions \cup {0}, NEW import, NEW todo \in Seq(Gws),
         Begin(name, kind, T, version, import, todo),
         name # "provision", name = "accel_start" => T \cap Gws = {},
         name \in Senders => T \cap Gws # {},
         kind = "install" => name = "install",
         todo # <<>> => /\ name = "upgrade" /\ kind = "upgrade" /\ todo = GatewayList
                        /\ T = {Head(todo)}
  PROVE  GwInv'
<1> DEFINE file == Rendered(name, T, version, import)
           phase == IF todo # <<>> THEN "turn" ELSE FirstPhase(name, version)
<1>0. /\ nops < MaxOps /\ nops' = nops + 1 /\ kw' = KeywordScheme(name, version)
      /\ op' = [name |-> name, targets |-> T, version |-> version, import |-> import,
                old |-> cfgVersion, file |-> file, todo |-> todo, kind |-> kind,
                phase |-> phase]
      /\ push' = NoPush
      /\ UNCHANGED <<flags, cfgVersion, cbs, server, made, host, store, mixed, loaded, faults>>
  BY DEF Begin, world
<1>1. /\ WorldOK /\ HostsOK(host) /\ StoreOK(store, mixed)
  BY DEF GwInv
<1>2. WorldOK'
  <2>1. kw' \in {"couchbase", "couchbases"}
    BY <1>0, <1>1 DEF KeywordScheme, WorldOK
  <2>2. nops' \in 0..MaxOps
    BY <1>0, <1>1, BoundsNat DEF WorldOK
  <2> HIDE DEF file, phase
  <2> QED
    BY <1>0, <1>1, <2>1, <2>2 DEF WorldOK
<1>3. file # NoFile => file.f \in FileFlags /\ (name # "accel_start" => GoodFile(file))
  BY <1>1, RenderedGood
<1>4. phase \in {"turn", "block", "playbook"} /\ (phase = "turn" <=> todo # <<>>)
  BY DEF FirstPhase
<1> HIDE DEF file, phase
<1>5. /\ op'.name = name /\ op'.targets = T /\ op'.version = version /\ op'.file = file
      /\ op'.todo = todo /\ op'.phase = phase /\ op'.kind = kind /\ IsOp(op')
  BY <1>0 DEF IsOp
<1>6. OpOK(op')
  BY <1>3, <1>4, <1>5 DEF OpOK, Phs, Kinds, Pushing
<1>7. UpgradeOK(op', host')
  <2>1. ASSUME todo # <<>>
        PROVE  /\ Len(todo) = Len(GatewayList) /\ Len(GatewayList) \in Nat
               /\ \A i \in 1..Len(todo) : todo[i] = GatewayList[Len(GatewayList) - Len(todo) + i]
    <3>1. todo = GatewayList /\ Len(todo) \in Nat
      BY <2>1
    <3>2. \A i \in 1..Len(todo) : Len(todo) - Len(todo) + i = i
      BY <3>1
    <3> QED
      BY <3>1, <3>2
  <2> QED
    BY <1>4, <1>5, <2>1 DEF UpgradeOK
<1>8. RunsOK(op', host')
  BY <1>4, <1>5 DEF RunsOK, Pushing
<1>9. ProvisionOK(op', host', server', cfgVersion', cbs')
  BY <1>5 DEF ProvisionOK
<1>10. PushOK(op', push', store', mixed')
  BY <1>0, <1>4, <1>5 DEF PushOK, Pushing
<1>11. HostsOK(host') /\ StoreOK(store', mixed')
  BY <1>0, <1>1
<1> QED
  BY <1>2, <1>6, <1>7, <1>8, <1>9, <1>10, <1>11 DEF GwInv

\* Every call that begins an operation.
Calls ==
  \/ TkStop \/ TkStart \/ TkRestart \/ AccelStop \/ AccelStart
  \/ StartSyncGateways \/ StopSyncGateways \/ RestartSyncGateways
  \/ UpgradeSyncGateways \/ UpgradeSyncGateway \/ RedeploySyncGatewayConfig
  \/ InstallSyncGateway \/ ResetCluster

LEMMA CallsKeep == ASSUME GwInv, Calls PROVE GwInv'
<1> USE DEF Kinds, Senders
<1>0. <<>> \in Seq(Gws) /\ 0 \in Versions \cup {0} /\ cfgVersion \in Versions
  BY DEF GwInv, WorldOK
<1>1. Gws \subseteq Hosts /\ Accels \subseteq Hosts /\ Accels \cap Gws = {}
  BY GatewayAssumption DEF Hosts
<1>2. \A T \in Targets : T \in SUBSET Hosts
  BY <1>1 DEF Targets
<1>3. \A T \in TargetsWithAccels :
        T \in SUBSET Hosts /\ T \cap Gws \in SUBSET Hosts /\ T \cap Gws # {}
  <2>1. GatewayList[1] \in Gws
    BY ListFacts, EmptySeq
  <2> QED
    BY <1>1, <2>1 DEF TargetsWithAccels
<1>4. CASE TkStop \/ TkStart \/ TkRestart
  <2>1. PICK g \in Gws : \/ Begin("tk_stop", "stop", {g}, 0, FALSE, <<>>)
                         \/ Begin("tk_start", "start", {g}, 0, FALSE, <<>>)
                         \/ Begin("tk_restart", "reset", {g}, 0, FALSE, <<>>)
    BY <1>4 DEF TkStop, TkStart, TkRestart
  <2>2. {g} \in SUBSET Hosts /\ {g} \cap Gws # {}
    BY <1>1
  <2> QED
    BY <2>1, <2>2, <1>0, BeginKeeps
<1>5. CASE AccelStop \/ AccelStart
  <2>1. PICK a \in Accels : \/ Begin("accel_stop", "stop", {a}, 0, FALSE, <<>>)
                            \/ Begin("accel_start", "start", {a}, 0, FALSE, <<>>)
    BY <1>5 DEF AccelStop, AccelStart
  <2>2. {a} \in SUBSET Hosts /\ {a} \cap Gws = {}
    BY <1>1
  <2> QED
    BY <2>1, <2>2, <1>0, BeginKeeps
<1>6. CASE StartSyncGateways \/ StopSyncGateways
  <2>1. PICK T \in Targets : \/ Begin("start", "start", T, 0, FALSE, <<>>)
                             \/ Begin("stop", "stop", T, 0, FALSE, <<>>)
    BY <1>6 DEF StartSyncGateways, StopSyncGateways
  <2>2. T \in SUBSET Hosts
    BY <1>2
  <2> QED
    BY <2>1, <2>2, <1>0, BeginKeeps
<1>7. CASE RestartSyncGateways
  <2>1. PICK T \in TargetsWithAccels : Begin("restart", "restart", T, 0, FALSE, <<>>)
    BY <1>7 DEF RestartSyncGateways
  <2>2. T \in SUBSET Hosts
    BY <1>3
  <2> QED
    BY <2>1, <2>2, <1>0, BeginKeeps
<1>8. CASE UpgradeSyncGateways
  <2>1. PICK T \in TargetsWithAccels, v \in Versions, k \in {"upgrade", "upgradeOnly"} :
          Begin("upgrade", k, IF k = "upgradeOnly" THEN T \cap Gws ELSE T, v, FALSE, <<>>)
    BY <1>8 DEF UpgradeSyncGateways
  <2> DEFINE U == IF k = "upgradeOnly" THEN T \cap Gws ELSE T
  <2>2. U \in SUBSET Hosts /\ Begin("upgrade", k, U, v, FALSE, <<>>)
    BY <1>3, <2>1
  <2> HIDE DEF U
  <2> QED
    BY <2>2, <1>0, BeginKeeps
<1>9. CASE RedeploySyncGatewayConfig
  <2>1. PICK T \in TargetsWithAccels, import \in BOOLEAN, k \in {"deploy", "deployOnly"} :
          Begin("redeploy", k, IF k = "deployOnly" THEN T \cap Gws ELSE T, cfgVersion, import, <<>>)
    BY <1>9 DEF RedeploySyncGatewayConfig
  <2> DEFINE U == IF k = "deployOnly" THEN T \cap Gws ELSE T
  <2>2. U \in SUBSET Hosts /\ U \cap Gws # {} /\ Begin("redeploy", k, U, cfgVersion, import, <<>>)
    BY <1>3, <2>1
  <2> HIDE DEF U
  <2> QED
    BY <2>2, <1>0, BeginKeeps
<1>10. CASE InstallSyncGateway
  <2>1. PICK T \in Targets, v \in Versions : Begin("install", "install", T, v, FALSE, <<>>)
    BY <1>10 DEF InstallSyncGateway
  <2>2. T \in SUBSET Hosts
    BY <1>2
  <2> QED
    BY <2>1, <2>2, <1>0, BeginKeeps
<1>11. CASE UpgradeSyncGateway
  <2>1. PICK v \in Versions, verify_version \in BOOLEAN :
          Begin("upgrade", "upgrade", {GatewayList[1]}, v, verify_version, GatewayList)
    BY <1>11 DEF UpgradeSyncGateway
  <2>2. GatewayList \in Seq(Gws) /\ GatewayList # <<>>
    BY GatewayAssumption
  <2>3. Head(GatewayList) = GatewayList[1] /\ GatewayList[1] \in Gws
    BY <2>2
  <2>4. {GatewayList[1]} \in SUBSET Hosts
    BY <2>3, <1>1
  <2> QED
    BY <2>1, <2>2, <2>3, <2>4, BeginKeeps
<1>12. CASE ResetCluster
  <2>1. PICK sgdb_creation \in BOOLEAN :
          Begin("cluster_reset", "clusterReset", Hosts, 0, sgdb_creation, <<>>)
    BY <1>12 DEF ResetCluster
  <2>2. GatewayList[1] \in Gws
    BY ListFacts, EmptySeq
  <2>3. Hosts \in SUBSET Hosts /\ Hosts \cap Gws # {}
    BY <1>1, <2>2
  <2> QED
    BY <2>1, <2>3, <1>0, BeginKeeps
<1> QED
  BY <1>4, <1>5, <1>6, <1>7, <1>8, <1>9, <1>10, <1>11, <1>12 DEF Calls

-----------------------------------------------------------------------------
(* The phases of an operation around its playbooks                         *)

\* What the parts of the invariant say of an operation and the hosts.
OpInv(o, H, sv, v, c) ==
  OpOK(o) /\ UpgradeOK(o, H) /\ RunsOK(o, H) /\ ProvisionOK(o, H, sv, v, c)

LEMMA OpPhase ==
  ASSUME NEW o, IsOp(o), NEW ph
  PROVE  LET x == [o EXCEPT !.phase = ph] IN
         /\ x.name = o.name /\ x.targets = o.targets /\ x.version = o.version
         /\ x.import = o.import /\ x.old = o.old /\ x.file = o.file /\ x.todo = o.todo
         /\ x.kind = o.kind /\ x.phase = ph /\ IsOp(x)
<1> DEFINE x == [o EXCEPT !.phase = ph]
<1>1. x = [name |-> o.name, targets |-> o.targets, version |-> o.version,
           import |-> o.import, old |-> o.old, file |-> o.file, todo |-> o.todo,
           phase |-> ph, kind |-> o.kind]
  BY DEF IsOp
<1> HIDE DEF x
<1>2. /\ x.name = o.name /\ x.targets = o.targets /\ x.version = o.version
      /\ x.import = o.import /\ x.old = o.old /\ x.file = o.file /\ x.todo = o.todo
      /\ x.kind = o.kind /\ x.phase = ph
  BY <1>1
<1>3. IsOp(x)
  BY <1>1, <1>2 DEF IsOp
<1> QED
  BY <1>2, <1>3 DEF x

\* An operation may raise anywhere; the loop of an upgrade returns no status.
LEMMA EndsBadly ==
  ASSUME NEW o, NEW H, NEW sv, NEW v, NEW c, OpInv(o, H, sv, v, c),
         NEW ph \in {"raised", "status"}, ph = "status" => o.todo = <<>>
  PROVE  LET x == [o EXCEPT !.phase = ph] IN
         OpInv(x, H, sv, v, c) /\ \A p, S, m : PushOK(x, p, S, m)
<1> DEFINE x == [o EXCEPT !.phase = ph]
<1>0. OpOK(o) /\ UpgradeOK(o, H) /\ RunsOK(o, H) /\ ProvisionOK(o, H, sv, v, c) /\ IsOp(o)
  BY DEF OpInv, OpOK
<1>1. /\ x.name = o.name /\ x.targets = o.targets /\ x.version = o.version
      /\ x.file = o.file /\ x.todo = o.todo /\ x.kind = o.kind /\ x.phase = ph /\ IsOp(x)
  BY <1>0, OpPhase
<1> HIDE DEF x
<1>2. OpOK(x)
  BY <1>0, <1>1 DEF OpOK, Phs, Pushing
<1>3. UpgradeOK(x, H)
  BY <1>0, <1>1 DEF UpgradeOK
<1>4. RunsOK(x, H)
  BY <1>0, <1>1 DEF RunsOK, RunsFiles, Pushing
<1>5. ProvisionOK(x, H, sv, v, c)
  BY <1>0, <1>1 DEF ProvisionOK
<1>6. \A p, S, m : PushOK(x, p, S, m)
  BY <1>1 DEF PushOK, Pushing
<1> QED
  BY <1>2, <1>3, <1>4, <1>5, <1>6 DEF OpInv, x

\* The parts put together.
LEMMA Together ==
  ASSUME WorldOK', HostsOK(host'), OpInv(op', host', server', cfgVersion', cbs'),
         StoreOK(store', mixed'), PushOK(op', push', store', mixed')
  PROVE  GwInv'
BY DEF GwInv, OpInv

LEMMA Apart ==
  ASSUME GwInv
  PROVE  /\ WorldOK /\ HostsOK(host) /\ OpInv(op, host, server, cfgVersion, cbs)
         /\ OpOK(op) /\ IsOp(op) /\ StoreOK(store, mixed) /\ PushOK(op, push, store, mixed)
         /\ mixed \in BOOLEAN /\ faults \in 0..MaxFaults /\ cfgVersion \in Versions
BY DEF GwInv, OpInv, OpOK, WorldOK

LEMMA OneMoreFault ==
  ASSUME faults \in 0..MaxFaults, faults < MaxFaults, faults' = faults + 1
  PROVE  faults' \in 0..MaxFaults
BY BoundsNat

\* A step that only makes the operation raise or return a status.
LEMMA RaisingKeeps ==
  ASSUME GwInv, NEW ph \in {"raised", "status"}, ph = "status" => op.todo = <<>>,
         op' = [op EXCEPT !.phase = ph], faults' \in 0..MaxFaults,
         UNCHANGED <<world, kw, made, host, push, store, mixed, loaded, nops>>
  PROVE  GwInv'
<1>1. OpInv(op', host, server, cfgVersion, cbs) /\ PushOK(op', push, store, mixed)
  BY Apart, EndsBadly
<1>2. WorldOK'
  BY Apart, WorldKept
<1> QED
  BY <1>1, <1>2, Apart, Together DEF world

\* A step to another phase of the same operation that no part looks at.
LEMMA PhaseKeeps ==
  ASSUME GwInv, NEW ph,
         \/ op.phase = "turn" /\ ph \in {"block", "playbook"}
         \/ op.phase = "block" /\ ph = "playbook"
         \/ op.phase = "forwarder" /\ ph = (IF op.name = "provision" THEN "nginx" ELSE "verify")
         \/ op.phase = "nginx" /\ ph = "verify",
         op' = [op EXCEPT !.phase = ph],
         UNCHANGED <<world, kw, made, host, push, store, mixed, loaded, nops, faults>>
  PROVE  GwInv'
<1>0. /\ OpOK(op) /\ UpgradeOK(op, host) /\ RunsOK(op, host) /\ IsOp(op)
      /\ ProvisionOK(op, host, server, cfgVersion, cbs) /\ PushOK(op, push, store, mixed)
  BY DEF GwInv, OpOK
<1>1. /\ op'.name = op.name /\ op'.targets = op.targets /\ op'.version = op.version
      /\ op'.file = op.file /\ op'.todo = op.todo /\ op'.kind = op.kind /\ op'.phase = ph
      /\ IsOp(op')
  BY <1>0, OpPhase
<1>2. OpOK(op')
  BY <1>0, <1>1 DEF OpOK, UpgradeOK, Phs, Pushing
<1>3. UpgradeOK(op', host)
  BY <1>0, <1>1 DEF UpgradeOK, OpOK
<1>4. RunsOK(op', host)
  BY <1>0, <1>1 DEF RunsOK, RunsFiles, Pushing, OpOK
<1>5. ProvisionOK(op', host, server, cfgVersion, cbs)
  BY <1>0, <1>1 DEF ProvisionOK
<1>6. PushOK(op', push, store, mixed)
  BY <1>0, <1>1 DEF PushOK, Pushing
<1>7. WorldOK'
  BY Apart, WorldKept
<1> QED
  BY <1>2, <1>3, <1>4, <1>5, <1>6, <1>7, Apart, Together DEF OpInv, world

LEMMA StoppedHost ==
  ASSUME NEW x, IsHost(x)
  PROVE  [x EXCEPT !.up = FALSE, !.running = NoFile]
           = [up |-> FALSE, version |-> x.version, file |-> x.file, running |-> NoFile]
<1>1. x = [up |-> x.up, version |-> x.version, file |-> x.file, running |-> x.running]
  BY DEF IsHost
<1> DEFINE y == [x EXCEPT !.up = FALSE, !.running = NoFile]
<1>2. y = [x EXCEPT !.up = FALSE, !.running = NoFile]
  OBVIOUS
<1> HIDE DEF y
<1>3. y = [up |-> FALSE, version |-> x.version, file |-> x.file, running |-> NoFile]
  BY <1>1, <1>2
<1> QED
  BY <1>2, <1>3

\* Hosts that go down, and nothing else of them changes.
LEMMA DownKeeps ==
  ASSUME GwInv, DOMAIN host' = Hosts,
         \A h \in Hosts : \/ host'[h] = host[h]
                          \/ host'[h] = [up |-> FALSE, version |-> host[h].version,
                                         file |-> host[h].file, running |-> NoFile]
  PROVE  HostsOK(host') /\ OpInv(op, host', server, cfgVersion, cbs)
<1>1. HostsOK(host) /\ \A h \in Hosts : HostOK(host[h])
  BY Apart DEF HostsOK
<1>2. ASSUME NEW h \in Hosts
      PROVE  /\ HostOK(host'[h])
             /\ host'[h].version = host[h].version /\ host'[h].file = host[h].file
             /\ host'[h].up => host[h].up /\ host'[h].running = host[h].running
  <2>1. CASE host'[h] = host[h]
    BY <1>1, <2>1
  <2>2. CASE host'[h] = [up |-> FALSE, version |-> host[h].version, file |-> host[h].file,
                         running |-> NoFile]
    <3>1. /\ host'[h].up = FALSE /\ host'[h].version = host[h].version
          /\ host'[h].file = host[h].file /\ host'[h].running = NoFile /\ IsHost(host'[h])
      BY <2>2 DEF IsHost
    <3>2. ~host'[h].up /\ host'[h].up \in BOOLEAN
      BY <3>1
    <3>3. HostOK(host[h])
      BY <1>1
    <3> QED
      BY <3>1, <3>2, <3>3 DEF HostOK
  <2> QED
    BY <2>1, <2>2
<1>3. Gws \subseteq Hosts
  BY DEF Hosts
<1>4. HostsOK(host')
  BY <1>1, <1>2, <1>3 DEF HostsOK
<1>5. OpInv(op, host, server, cfgVersion, cbs) /\ OpOK(op)
  BY Apart
<1>6. UpgradeOK(op, host')
  <2>1. \A i \in 1..Len(GatewayList) : GatewayList[i] \in Hosts
    BY <1>3, ListFacts
  <2>2. \A n \in Nat : \A i \in 1..(Len(GatewayList) - n) : i \in 1..Len(GatewayList)
    BY ListFacts
  <2>3. Len(op.todo) \in Nat
    BY <1>5 DEF OpOK
  <2> QED
    BY <1>2, <1>3, <1>5, <2>1, <2>2, <2>3 DEF UpgradeOK, OpInv
<1>7. RunsOK(op, host')
  BY <1>2, <1>3, <1>5 DEF RunsOK, RunsFiles, OpInv
<1>8. ProvisionOK(op, host', server, cfgVersion, cbs)
  BY <1>2, <1>3, <1>5 DEF ProvisionOK, OpInv
<1> QED
  BY <1>4, <1>5, <1>6, <1>7, <1>8 DEF OpInv

LEMMA PhasesKeep ==
  ASSUME GwInv, UpgradeTurn \/ BlockPorts \/ Forwarder \/ InstallNginx
  PROVE  GwInv'
<1>1. CASE UpgradeTurn
  <2>1. PICK ph \in {"block", "playbook", "raised"} :
          /\ op.phase = "turn" /\ op' = [op EXCEPT !.phase = ph]
          /\ UNCHANGED <<world, kw, made, host, push, store, mixed, loaded, nops, faults>>
    BY <1>1 DEF UpgradeTurn, FirstPhase
  <2>2. faults' \in 0..MaxFaults
    BY <2>1, Apart
  <2> QED
    BY <2>1, <2>2, PhaseKeeps, RaisingKeeps
<1>2. CASE BlockPorts
  <2>0. op.phase = "block" /\ UNCHANGED <<world, kw, made, push, store, mixed, loaded, nops>>
    BY <1>2 DEF BlockPorts
  <2>1. CASE op' = [op EXCEPT !.phase = "playbook"] /\ UNCHANGED <<host, faults>>
    BY <2>0, <2>1, PhaseKeeps
  <2>2. CASE /\ faults < MaxFaults /\ faults' = faults + 1
             /\ op' = [op EXCEPT !.phase = "raised"]
             /\ host' = IF op.name # "cluster_reset" THEN host
                        ELSE [h \in Hosts |-> [host[h] EXCEPT !.up = FALSE, !.running = NoFile]]
    <3>1. faults' \in 0..MaxFaults
      BY <2>2, Apart, OneMoreFault
    <3>2. DOMAIN host = Hosts /\ \A h \in Hosts : IsHost(host[h])
      BY Apart DEF HostsOK, HostOK
    <3>3. /\ DOMAIN host' = Hosts
          /\ \A h \in Hosts : \/ host'[h] = host[h]
                             \/ host'[h] = [up |-> FALSE, version |-> host[h].version,
                                            file |-> host[h].file, running |-> NoFile]
      BY <2>2, <3>2, StoppedHost
    <3>4. HostsOK(host') /\ OpInv(op, host', server, cfgVersion, cbs)
      BY <3>3, DownKeeps
    <3>5. OpInv(op', host', server, cfgVersion, cbs) /\ PushOK(op', push, store, mixed)
      BY <2>2, <3>4, EndsBadly
    <3>6. WorldOK'
      BY <2>0, <3>1, Apart, WorldKept
    <3> QED
      BY <2>0, <3>4, <3>5, <3>6, Apart, Together DEF world
  <2> QED
    BY <1>2, <2>1, <2>2 DEF BlockPorts
<1>3. CASE Forwarder
  <2>1. CASE /\ op' = [op EXCEPT !.phase = IF op.name = "provision" THEN "nginx" ELSE "verify"]
             /\ UNCHANGED faults
    BY <1>3, <2>1, PhaseKeeps DEF Forwarder
  <2>2. CASE faults < MaxFaults /\ faults' = faults + 1 /\ op' = [op EXCEPT !.phase = "raised"]
    <3>1. faults' \in 0..MaxFaults
      BY <2>2, Apart, OneMoreFault
    <3> QED
      BY <1>3, <2>2, <3>1, RaisingKeeps DEF Forwarder
  <2> QED
    BY <1>3, <2>1, <2>2 DEF Forwarder
<1>4. CASE InstallNginx
  <2>1. CASE op' = [op EXCEPT !.phase = "verify"] /\ UNCHANGED faults
    BY <1>4, <2>1, PhaseKeeps DEF InstallNginx
  <2>2. CASE faults < MaxFaults /\ faults' = faults + 1 /\ op' = [op EXCEPT !.phase = "raised"]
    <3>1. faults' \in 0..MaxFaults
      BY <2>2, Apart, OneMoreFault
    <3> QED
      BY <1>4, <2>2, <3>1, RaisingKeeps DEF InstallNginx
  <2> QED
    BY <1>4, <2>1, <2>2 DEF InstallNginx
<1> QED
  BY <1>1, <1>2, <1>3, <1>4

\* The gateways are those of the list.
LEMMA GatewayOf == \A g \in Gws : \E i \in 1..Len(GatewayList) : g = GatewayList[i]
BY ListFacts DEF Gws, Range

LEMMA VerifyKeeps == ASSUME GwInv, Verify PROVE GwInv'
<1>0. /\ OpOK(op) /\ UpgradeOK(op, host) /\ RunsOK(op, host) /\ IsOp(op)
      /\ ProvisionOK(op, host, server, cfgVersion, cbs) /\ PushOK(op, push, store, mixed)
      /\ WorldOK /\ op.phase = "verify" /\ op.todo \in Seq(Gws)
  BY DEF GwInv, OpOK, Verify
<1>1. UNCHANGED <<world, kw, made, host, push, store, mixed, loaded, nops, faults>>
  BY DEF Verify
<1>2. CASE ~VersionsRight
  <2>1. op' = [op EXCEPT !.phase = "raised"] /\ faults' \in 0..MaxFaults
    BY <1>1, <1>2, Apart DEF Verify
  <2> QED
    BY <2>1, <1>1, RaisingKeeps
<1>a. op.todo # <<>> => op.name = "upgrade"
  BY <1>0 DEF UpgradeOK
<1>3. CASE VersionsRight /\ Len(op.todo) <= 1
  <2>1. op' = [op EXCEPT !.phase = "ok"]
    BY <1>3 DEF Verify
  <2>2. /\ op'.name = op.name /\ op'.targets = op.targets /\ op'.version = op.version
        /\ op'.file = op.file /\ op'.todo = op.todo /\ op'.kind = op.kind /\ op'.phase = "ok"
        /\ IsOp(op')
    BY <1>0, <2>1, OpPhase
  <2>3. OpOK(op')
    BY <1>0, <2>2 DEF OpOK, Phs, Pushing
  <2>4. ASSUME op.todo # <<>>, NEW g \in Gws PROVE host[g].version = op.version
    <3>1. PICK i \in 1..Len(GatewayList) : g = GatewayList[i]
      BY GatewayOf
    <3>2. TargetsRight
      BY <1>3, <1>a, <2>4 DEF VersionsRight
    <3>3. Len(op.todo) = 1 /\ Len(GatewayList) \in Nat
      BY <1>0, <1>3, <2>4, ListFacts, OneLeft
    <3>4. op.todo[1] = GatewayList[Len(GatewayList)] /\ Head(op.todo) = op.todo[1]
      BY <1>0, <2>4, <3>3 DEF UpgradeOK
    <3>5. host[GatewayList[Len(GatewayList)]].version = op.version
      BY <1>0, <2>4, <3>2, <3>4 DEF TargetsRight, RunningVersion, UpgradeOK
    <3>6. i < Len(GatewayList) => host[GatewayList[i]].version = op.version
      BY <1>0, <2>4, <3>3 DEF UpgradeOK
    <3> QED
      BY <3>1, <3>3, <3>5, <3>6
  <2>5. UpgradeOK(op', host)
    BY <1>0, <2>2, <2>4 DEF UpgradeOK
  <2>6. RunsOK(op', host)
    BY <1>0, <2>2 DEF RunsOK, RunsFiles, Pushing
  <2>7. ProvisionOK(op', host, server, cfgVersion, cbs)
    <3>1. ASSUME op.name = "provision"
          PROVE  /\ op.kind = "installAccel" /\ server = cbs
                 /\ \A h \in Hosts : host[h].version = cfgVersion
      <4>1. op.kind = "installAccel" /\ op.targets = Gws /\ op.version = cfgVersion
        BY <1>0, <1>a, <3>1 DEF OpOK, ProvisionOK
      <4>2. ServerRight /\ TargetsRight /\ AccelsRight
        BY <1>3, <3>1 DEF VersionsRight, ClusterRight
      <4>3. \A a \in Accels : host[a].version = cfgVersion
        <5>1. cfgVersion # 0
          BY <1>0, GatewayAssumption, Zenon DEF WorldOK
        <5> QED
          BY <4>1, <4>2, <5>1 DEF AccelsRight, AccelVersion
      <4>4. \A g \in Gws : host[g].version = cfgVersion
        BY <4>1, <4>2 DEF TargetsRight, RunningVersion
      <4> QED
        BY <4>1, <4>2, <4>3, <4>4 DEF ServerRight, Hosts
    <3> QED
      BY <1>0, <2>2, <3>1 DEF ProvisionOK
  <2>8. PushOK(op', push, store, mixed)
    BY <1>0, <2>2 DEF PushOK, Pushing
  <2>9. WorldOK'
    BY <1>1, Apart, WorldKept
  <2> QED
    BY <1>1, <2>3, <2>5, <2>6, <2>7, <2>8, <2>9, Apart, Together DEF OpInv, world
<1>4. CASE VersionsRight /\ ~(Len(op.todo) <= 1)
  <2> DEFINE rest == Tail(op.todo)
             T == {Head(rest)}
  <2>0. op' = [op EXCEPT !.phase = "turn", !.todo = Tail(@), !.targets = {Head(Tail(op.todo))}]
    BY <1>4 DEF Verify
  <2>1. op' = [name |-> op.name, targets |-> T, version |-> op.version,
               import |-> op.import, old |-> op.old, file |-> op.file, todo |-> rest,
               phase |-> "turn", kind |-> op.kind]
    BY <1>0, <2>0 DEF IsOp
  <2>2. /\ op.todo # <<>> /\ rest \in Seq(Gws) /\ Len(rest) = Len(op.todo) - 1
        /\ Len(rest) >= 1 /\ Len(rest) \in Nat /\ rest # <<>> /\ Head(rest) \in Gws
        /\ \A i \in 1..Len(rest) : rest[i] = op.todo[i + 1]
        /\ Head(op.todo) = op.todo[1] /\ Head(op.todo) \in Gws
    BY <1>0, <1>4, TailFacts
  <2> HIDE DEF rest
  <2>3. /\ op'.name = op.name /\ op'.targets = T /\ op'.version = op.version
        /\ op'.file = op.file /\ op'.todo = rest /\ op'.kind = op.kind /\ op'.phase = "turn"
        /\ IsOp(op')
    BY <2>1 DEF IsOp
  <2>4. /\ op.name = "upgrade" /\ op.kind = "upgrade" /\ op.targets = {Head(op.todo)}
        /\ Len(op.todo) <= Len(GatewayList)
    BY <1>0, <2>2 DEF UpgradeOK
  <2>5. OpOK(op')
    <3>1. op.file # NoFile => op.file.f \in FileFlags /\ GoodFile(op.file)
      BY <1>0, <2>2, <2>4 DEF OpOK
    <3>2. T \subseteq Hosts
      BY <2>2 DEF Hosts
    <3>3. op.version \in Versions \cup {0}
      BY <1>0 DEF OpOK
    <3> HIDE DEF T
    <3> QED
      BY <2>2, <2>3, <2>4, <3>1, <3>2, <3>3 DEF OpOK, Phs, Kinds, Pushing, Senders
  <2>6. UpgradeOK(op', host)
    <3>0. Len(GatewayList) \in Nat /\ Len(op.todo) \in Nat
      BY <1>0, ListFacts
    <3>1. \A i \in 1..Len(rest) : rest[i] = GatewayList[Len(GatewayList) - Len(rest) + i]
      <4>1. SUFFICES ASSUME NEW i \in 1..Len(rest)
                     PROVE  rest[i] = GatewayList[Len(GatewayList) - Len(rest) + i]
        OBVIOUS
      <4>2. i + 1 \in 1..Len(op.todo) /\ rest[i] = op.todo[i + 1]
        BY <2>2, <3>0
      <4>3. op.todo[i + 1] = GatewayList[Len(GatewayList) - Len(op.todo) + (i + 1)]
        BY <1>0, <2>2, <4>2 DEF UpgradeOK
      <4>4. Len(GatewayList) - Len(op.todo) + (i + 1) = Len(GatewayList) - Len(rest) + i
        BY <2>2, <3>0
      <4> QED
        BY <4>2, <4>3, <4>4
    <3>2. TargetsRight
      BY <1>4, <2>4 DEF VersionsRight
    <3>3. host[Head(op.todo)].version = op.version
      BY <2>4, <3>2 DEF TargetsRight, RunningVersion
    <3>4. \A i \in 1..(Len(GatewayList) - Len(rest)) :
            host[GatewayList[i]].version = op.version
      <4>1. SUFFICES ASSUME NEW i \in 1..(Len(GatewayList) - Len(rest))
                     PROVE  host[GatewayList[i]].version = op.version
        OBVIOUS
      <4> DEFINE k == Len(GatewayList) - Len(op.todo)
      <4>2. k \in Nat /\ (i \in 1..k \/ i = k + 1)
        <5> DEFINE n == Len(GatewayList)
                   t == Len(op.todo)
                   r == Len(rest)
        <5>1. n \in Nat /\ t \in Nat /\ r = t - 1 /\ t <= n /\ i \in 1..(n - r)
          BY <2>2, <2>4, <3>0
        <5> HIDE DEF n, t, r
        <5>2. n - t \in Nat /\ (i \in 1..(n - t) \/ i = n - t + 1)
          BY <5>1
        <5> QED
          BY <5>2 DEF n, t
      <4>3. i \in 1..k => host[GatewayList[i]].version = op.version
        BY <1>0, <2>2 DEF UpgradeOK
      <4>4. op.todo[1] = GatewayList[k + 1]
        <5>1. 1 \in 1..Len(op.todo)
          BY <2>2, <3>0
        <5> QED
          BY <1>0, <2>2, <5>1 DEF UpgradeOK
      <4> QED
        BY <4>2, <4>3, <4>4, <3>3, <2>2
    <3>5. Len(rest) <= Len(GatewayList)
      BY <2>2, <2>4, <3>0
    <3> QED
      BY <2>3, <2>4, <3>1, <3>4, <3>5 DEF UpgradeOK
  <2>7. RunsOK(op', host)
    BY <2>3, <2>4 DEF RunsOK, Pushing
  <2>8. ProvisionOK(op', host, server, cfgVersion, cbs)
    BY <2>3, <2>4 DEF ProvisionOK
  <2>9. PushOK(op', push, store, mixed)
    BY <1>0, <2>3 DEF PushOK, Pushing
  <2>10. WorldOK'
    BY <1>1, Apart, WorldKept
  <2> QED
    BY <1>1, <2>5, <2>6, <2>7, <2>8, <2>9, <2>10, Apart, Together DEF OpInv, world
<1> QED
  BY <1>2, <1>3, <1>4

-----------------------------------------------------------------------------
(* Provisioning, and what happens around the operations                    *)

LEMMA ProvisionKeeps == ASSUME GwInv, ProvisionCluster PROVE GwInv'
<1>1. PICK v \in Versions, sv \in CbsVersions, skip \in BOOLEAN :
        /\ nops < MaxOps /\ nops' = nops + 1
        /\ flags' = Overridden(flags) /\ cfgVersion' = v /\ cbs' = sv
        /\ op' = [name |-> "provision", targets |-> Gws, version |-> v, import |-> skip,
                  old |-> cfgVersion, file |-> NoFile, todo |-> <<>>, kind |-> "install",
                  phase |-> "clean"]
        /\ push' = NoPush
        /\ UNCHANGED <<server, kw, made, host, store, mixed, loaded, faults>>
  BY DEF ProvisionCluster, WriteConfig
<1>2. WorldOK'
  <2>1. flags' \in ConfigFlags
    BY <1>1, OverriddenOK DEF GwInv, WorldOK
  <2>2. nops' \in 0..MaxOps
    BY <1>1, BoundsNat DEF GwInv, WorldOK
  <2> QED
    BY <1>1, <2>1, <2>2 DEF GwInv, WorldOK
<1>3. /\ op'.name = "provision" /\ op'.targets = Gws /\ op'.version = v /\ op'.file = NoFile
      /\ op'.todo = <<>> /\ op'.phase = "clean" /\ op'.kind = "install" /\ IsOp(op')
  BY <1>1 DEF IsOp
<1>4. OpOK(op')
  <2>1. Gws \subseteq Hosts /\ <<>> \in Seq(Gws) /\ v \in Versions \cup {0}
    BY DEF Hosts
  <2> QED
    BY <1>3, <2>1 DEF OpOK, Phs, Kinds, Pushing, Senders
<1>5. UpgradeOK(op', host') /\ RunsOK(op', host')
  BY <1>3 DEF UpgradeOK, RunsOK
<1>6. ProvisionOK(op', host', server', cfgVersion', cbs')
  BY <1>1, <1>3 DEF ProvisionOK
<1>7. PushOK(op', push', store', mixed')
  BY <1>1, <1>3 DEF PushOK, Pushing
<1> QED
  BY <1>1, <1>2, <1>4, <1>5, <1>6, <1>7, Apart, Together DEF OpInv

LEMMA CleanKeeps == ASSUME GwInv, CleanCluster PROVE GwInv'
<1>0. PICK cleaned \in SUBSET Gws :
       /\ host' = [h \in Hosts |->
                     IF h \in cleaned
                     THEN [up |-> FALSE, version |-> 0, file |-> NoFile, running |-> NoFile]
                     ELSE host[h]]
       /\ \/ op' = [op EXCEPT !.phase = "server"] /\ UNCHANGED faults
          \/ /\ faults < MaxFaults /\ faults' = faults + 1
             /\ op' = [op EXCEPT !.phase = "raised"]
  BY DEF CleanCluster
<1>1. /\ op.phase = "clean"
      /\ UNCHANGED <<world, kw, made, push, store, mixed, loaded, nops>>
  BY DEF CleanCluster
<1>2. HostsOK(host')
  <2> DEFINE gone == [up |-> FALSE, version |-> 0, file |-> NoFile, running |-> NoFile]
  <2>1. HostOK(gone) /\ gone.file = NoFile
    BY DEF HostOK, IsHost
  <2>2. \A h \in Hosts : host'[h] = gone \/ host'[h] = host[h]
    BY <1>0
  <2>3. DOMAIN host' = Hosts /\ Gws \subseteq Hosts
    BY <1>0 DEF Hosts
  <2> HIDE DEF gone
  <2>4. HostsOK(host)
    BY Apart
  <2> QED
    BY <2>1, <2>2, <2>3, <2>4 DEF HostsOK
<1>3. /\ OpOK(op) /\ IsOp(op) /\ op.name = "provision" /\ op.kind = "install"
      /\ op.todo = <<>> /\ ProvisionOK(op, host, server, cfgVersion, cbs)
      /\ PushOK(op, push, store, mixed)
  BY <1>1 DEF GwInv, OpOK
<1>4. OpInv(op, host', server, cfgVersion, cbs)
  BY <1>1, <1>3 DEF OpInv, UpgradeOK, RunsOK, ProvisionOK
<1>5. CASE op' = [op EXCEPT !.phase = "server"] /\ UNCHANGED faults
  <2>1. /\ op'.name = op.name /\ op'.targets = op.targets /\ op'.version = op.version
        /\ op'.file = op.file /\ op'.todo = op.todo /\ op'.kind = op.kind
        /\ op'.phase = "server" /\ IsOp(op')
    BY <1>3, <1>5, OpPhase
  <2>2. OpOK(op')
    BY <1>3, <2>1 DEF OpOK, Phs, Pushing
  <2>3. UpgradeOK(op', host') /\ RunsOK(op', host')
    BY <1>3, <2>1 DEF UpgradeOK, RunsOK
  <2>4. ProvisionOK(op', host', server, cfgVersion, cbs)
    BY <1>3, <2>1 DEF ProvisionOK
  <2>5. PushOK(op', push, store, mixed)
    BY <1>1, <1>3, <2>1 DEF PushOK, Pushing
  <2>6. WorldOK'
    BY <1>1, <1>5, Apart, WorldKept
  <2> QED
    BY <1>1, <1>2, <2>2, <2>3, <2>4, <2>5, <2>6, Apart, Together DEF OpInv, world
<1>6. CASE faults < MaxFaults /\ faults' = faults + 1 /\ op' = [op EXCEPT !.phase = "raised"]
  <2>1. faults' \in 0..MaxFaults
    BY <1>6, Apart, OneMoreFault
  <2>2. OpInv(op', host', server, cfgVersion, cbs) /\ PushOK(op', push, store, mixed)
    BY <1>4, <1>6, EndsBadly
  <2>3. WorldOK'
    BY <1>1, <2>1, Apart, WorldKept
  <2> QED
    BY <1>1, <1>2, <2>2, <2>3, Apart, Together DEF world
<1> QED
  BY <1>0, <1>5, <1>6

LEMMA InstallServerKeeps == ASSUME GwInv, InstallServer PROVE GwInv'
<1>1. /\ op.phase = "server"
      /\ UNCHANGED <<flags, cfgVersion, cbs, kw, made, host, push, store, mixed, loaded, nops>>
  BY DEF InstallServer
<1>2. /\ OpOK(op) /\ IsOp(op) /\ op.name = "provision" /\ op.kind = "install"
      /\ op.todo = <<>> /\ ProvisionOK(op, host, server, cfgVersion, cbs)
      /\ PushOK(op, push, store, mixed) /\ WorldOK /\ op.version \in Versions \cup {0}
  BY <1>1 DEF GwInv, OpOK
<1>3. server' \in CbsVersions \cup {0}
  BY <1>2 DEF InstallServer, WorldOK
<1>4. faults' \in 0..MaxFaults
  BY Apart, OneMoreFault DEF InstallServer
<1>5. WorldOK'
  BY <1>1, <1>2, <1>3, <1>4 DEF WorldOK
<1>6. CASE op' = [op EXCEPT !.phase = FirstPhase("install", op.version),
                            !.file = Rendered("install", Gws, op.version, FALSE)]
  <2> DEFINE file == Rendered("install", Gws, op.version, FALSE)
             ph == FirstPhase("install", op.version)
  <2>1. ph \in {"block", "playbook"}
    BY DEF FirstPhase
  <2>2. file # NoFile => file.f \in FileFlags /\ GoodFile(file)
    BY <1>2, RenderedGood
  <2> HIDE DEF file, ph
  <2>3. op' = [name |-> op.name, targets |-> op.targets, version |-> op.version,
               import |-> op.import, old |-> op.old, file |-> file, todo |-> op.todo,
               phase |-> ph, kind |-> op.kind]
    BY <1>2, <1>6 DEF IsOp, file, ph
  <2>4. /\ op'.name = op.name /\ op'.targets = op.targets /\ op'.version = op.version
        /\ op'.file = file /\ op'.todo = op.todo /\ op'.kind = op.kind
        /\ op'.phase = ph /\ IsOp(op')
    BY <2>3 DEF IsOp
  <2>5. OpOK(op')
    BY <1>2, <2>1, <2>2, <2>4 DEF OpOK, Phs, Pushing
  <2>6. UpgradeOK(op', host') /\ RunsOK(op', host')
    BY <1>2, <2>4 DEF UpgradeOK, RunsOK
  <2>7. ProvisionOK(op', host', server', cfgVersion', cbs')
    BY <1>1, <1>2, <2>1, <2>4 DEF ProvisionOK
  <2>8. PushOK(op', push', store', mixed')
    BY <1>1, <1>2, <2>1, <2>4 DEF PushOK, Pushing
  <2> QED
    BY <1>1, <1>5, <2>5, <2>6, <2>7, <2>8, Apart, Together DEF OpInv
<1>7. CASE op' = [op EXCEPT !.phase = "raised"]
  <2>1. OpInv(op, host, server', cfgVersion, cbs)
    BY <1>1, <1>2 DEF OpInv, UpgradeOK, RunsOK, ProvisionOK
  <2>2. OpInv(op', host, server', cfgVersion, cbs) /\ PushOK(op', push, store, mixed)
    BY <1>7, <2>1, EndsBadly
  <2> QED
    BY <1>1, <1>5, <2>2, Apart, Together
<1> QED
  BY <1>6, <1>7 DEF InstallServer

LEMMA LoadKeeps == ASSUME GwInv, LoadConfig PROVE GwInv'
<1>1. /\ nops < MaxOps /\ nops' = nops + 1
      /\ UNCHANGED <<world, kw, made, host, op, push, store, mixed, faults>>
  BY DEF LoadConfig
<1>2. GoodLoaded(loaded')
  <2> DEFINE c == CommonVars(flags, cfgVersion, "couchbase")
  <2>1. CASE loaded' = File(flags, cfgVersion, LoadVars(flags, cfgVersion))
    <3> DEFINE x == LoadVars(flags, cfgVersion)
    <3>1. x.allow = c.allow /\ x.revs = c.revs /\ x.delta = c.delta /\ x.xattrs = c.xattrs
      BY DEF LoadVars, CommonVars
    <3>2. loaded'.f = flags /\ loaded'.v = cfgVersion /\ loaded'.vars = x
      BY <2>1 DEF File
    <3> HIDE DEF x, c
    <3> QED
      BY <3>1, <3>2 DEF GoodLoaded, c
  <2>2. CASE loaded' = File(flags, cfgVersion, DbConfigVars(flags, cfgVersion))
    <3> DEFINE x == DbConfigVars(flags, cfgVersion)
    <3>1. x.allow = c.allow /\ x.revs = c.revs /\ x.delta = c.delta /\ x.xattrs = c.xattrs
      BY DEF DbConfigVars, PersistentVars, CommonVars
    <3>2. loaded'.f = flags /\ loaded'.v = cfgVersion /\ loaded'.vars = x
      BY <2>2 DEF File
    <3> HIDE DEF x, c
    <3> QED
      BY <3>1, <3>2 DEF GoodLoaded, c
  <2> QED
    BY <2>1, <2>2 DEF LoadConfig
<1>3. nops' \in 0..MaxOps
  BY <1>1, BoundsNat DEF GwInv, WorldOK
<1>4. WorldOK'
  BY <1>1, <1>2, <1>3 DEF GwInv, WorldOK, world
<1> QED
  BY <1>1, <1>4, Apart, Together DEF world

LEMMA TestsKeep == ASSUME GwInv, PersistFlags \/ NewCluster PROVE GwInv'
<1>1. UNCHANGED <<cfgVersion, cbs, server, kw, host, op, push, store, mixed, loaded, faults>>
  BY DEF PersistFlags, NewCluster, world
<1>2. flags' \in ConfigFlags
  BY DEF PersistFlags, NewCluster, world, ConfigFlags, GwInv, WorldOK
<1>3. made' \in ConfigFlags
  BY DEF PersistFlags, NewCluster, GwInv, WorldOK
<1>4. nops' \in 0..MaxOps
  BY BoundsNat DEF PersistFlags, NewCluster, GwInv, WorldOK
<1>5. WorldOK'
  BY <1>1, <1>2, <1>3, <1>4 DEF GwInv, WorldOK
<1> QED
  BY <1>1, <1>5, Apart, Together

LEMMA DiesKeeps == ASSUME GwInv, Dies PROVE GwInv'
<1>1. PICK g \in Gws : host' = [host EXCEPT ![g].up = FALSE, ![g].running = NoFile]
  BY DEF Dies
<1>2. /\ faults < MaxFaults /\ faults' = faults + 1
      /\ UNCHANGED <<world, kw, made, op, push, store, mixed, loaded, nops>>
  BY DEF Dies
<1>3. HostsOK(host) /\ HostOK(host[g]) /\ g \in Hosts /\ DOMAIN host = Hosts
  BY Apart DEF HostsOK, Hosts
<1>4. /\ DOMAIN host' = Hosts /\ \A h \in Hosts \ {g} : host'[h] = host[h]
      /\ host'[g] = [up |-> FALSE, version |-> host[g].version, file |-> host[g].file,
                     running |-> NoFile]
  <2>1. host' = [host EXCEPT ![g] = [host[g] EXCEPT !.up = FALSE, !.running = NoFile]]
    BY <1>1, <1>3 DEF HostOK, IsHost
  <2>2. [host[g] EXCEPT !.up = FALSE, !.running = NoFile]
          = [up |-> FALSE, version |-> host[g].version, file |-> host[g].file,
             running |-> NoFile]
    BY <1>3, StoppedHost DEF HostOK
  <2> QED
    BY <1>3, <2>1, <2>2
<1>5. HostsOK(host') /\ OpInv(op, host', server, cfgVersion, cbs)
  BY <1>4, DownKeeps
<1>14. WorldOK'
  BY <1>2, Apart, OneMoreFault, WorldKept
<1> QED
  BY <1>2, <1>5, <1>14, Apart, Together DEF world

-----------------------------------------------------------------------------
(* A playbook is run                                                       *)

LEMMA HostsFinite == IsFiniteSet(Hosts)
<1>1. IsFiniteSet(Accels)
  BY GatewayAssumption, Zenon
<1>2. IsFiniteSet(1..Len(GatewayList))
  BY ListFacts, FS_Interval
<1>3. GatewayList \in Surjection(1..Len(GatewayList), Gws)
  <2>1. GatewayList \in [1..Len(GatewayList) -> Gws]
    BY ListFacts
  <2> QED
    BY <2>1, GatewayOf DEF Surjection
<1>4. IsFiniteSet(Gws)
  BY <1>2, <1>3, FS_Surjection
<1> QED
  BY <1>1, <1>4, FS_Union DEF Hosts

\* The playbook on its targets, whatever its status.
LEMMA PlaybookEffect ==
  ASSUME GwInv, op.phase = "playbook", NEW failAt \in FailAts,
         faults' = faults + Failing(failAt),
         host' = AfterPlaybook(op.kind, PlayTargets, failAt)
  PROVE  /\ faults' \in 0..MaxFaults /\ HostsOK(host')
         /\ OpInv(op, host', server, cfgVersion, cbs)
         /\ op.kind \in Kinds \ {"none"} /\ PlayTargets \in SUBSET Hosts
         /\ failAt \in [PlayTargets -> 1..(MaxPhases + 1)]
<1>0. /\ HostsOK(host) /\ OpOK(op) /\ UpgradeOK(op, host) /\ RunsOK(op, host)
      /\ ProvisionOK(op, host, server, cfgVersion, cbs) /\ faults \in 0..MaxFaults
  BY Apart DEF OpInv
<1>1. op.kind \in Kinds \ {"none"} /\ PlayTargets \in SUBSET Hosts
  BY <1>0 DEF OpOK, PlayTargets, Hosts
<1>2. failAt \in [PlayTargets -> 1..(MaxPhases + 1)] /\ faults + Failing(failAt) <= MaxFaults
  BY DEF FailAts
<1>3. faults' \in 0..MaxFaults
  <2>1. {h \in PlayTargets : failAt[h] <= Len(Phases(op.kind, h))} \in SUBSET Hosts
    BY <1>1
  <2>2. Failing(failAt) \in Nat
    BY <2>1, HostsFinite, FS_Subset, FS_CardinalityType DEF Failing
  <2> QED
    BY <1>0, <1>2, <2>2, BoundsNat
<1>4. /\ DOMAIN host' = Hosts
      /\ \A h \in Hosts : Became(host[h], host'[h])
      /\ \A h \in Hosts \ PlayTargets : host'[h] = host[h]
  BY <1>0, <1>1, AfterOK
<1>5. \A h \in Hosts : /\ HostOK(host'[h]) /\ host'[h].version \in {host[h].version, op.version}
                       /\ host'[h].file \in {host[h].file, op.file}
  BY <1>4 DEF Became
<1>6. Gws \subseteq Hosts /\ Gws \cap Accels = {}
  BY GatewayAssumption DEF Hosts
<1>7. op.kind = "installAccel" => \A g \in Gws : host'[g] = host[g]
  BY <1>4, <1>6 DEF PlayTargets
<1>8. HostsOK(host')
  <2>1. ASSUME NEW g \in Gws, host'[g].file # NoFile PROVE GoodFile(host'[g].file)
    <3>1. CASE g \in PlayTargets
      <4>1. op.targets \cap Gws # {}
        BY <1>6, <3>1 DEF PlayTargets
      <4> QED
        BY <1>0, <1>5, <1>6, <2>1, <4>1 DEF OpOK, HostsOK
    <3>2. CASE g \notin PlayTargets
      <4>1. host'[g] = host[g]
        BY <1>4, <1>6, <3>2
      <4> QED
        BY <1>0, <2>1, <4>1 DEF HostsOK
    <3> QED
      BY <3>1, <3>2
  <2> QED
    BY <1>4, <1>5, <2>1 DEF HostsOK
<1>9. UpgradeOK(op, host')
  <2>1. \A i \in 1..Len(GatewayList) : GatewayList[i] \in Hosts
    BY <1>6, ListFacts
  <2>2. \A n \in Nat : \A i \in 1..(Len(GatewayList) - n) : i \in 1..Len(GatewayList)
    BY ListFacts
  <2>3. Len(op.todo) \in Nat
    BY <1>0 DEF OpOK
  <2> QED
    BY <1>0, <1>5, <2>1, <2>2, <2>3 DEF UpgradeOK
<1>10. RunsOK(op, host')
  BY <1>0, <1>7 DEF RunsOK, RunsFiles, Pushing
<1>11. ProvisionOK(op, host', server, cfgVersion, cbs)
  BY <1>0, <1>7 DEF ProvisionOK
<1> QED
  BY <1>0, <1>1, <1>2, <1>3, <1>8, <1>9, <1>10, <1>11 DEF OpInv

\* What a playbook with status 0 has seen to.
LEMMA PlaybookDone ==
  ASSUME GwInv, op.phase = "playbook", NEW failAt \in FailAts,
         faults' = faults + Failing(failAt),
         host' = AfterPlaybook(op.kind, PlayTargets, failAt),
         StatusZero(op.kind, PlayTargets, failAt, host'),
         op.kind \in {"reset", "clusterReset", "deploy", "upgrade", "restart", "install"}
  PROVE  /\ RunsFiles(op, host')
         /\ op.kind = "install" => \A g \in op.targets \cap Gws : host'[g].file = op.file
<1>1. /\ PlayTargets \in SUBSET Hosts /\ failAt \in [PlayTargets -> 1..(MaxPhases + 1)]
      /\ PlayTargets = op.targets
  BY PlaybookEffect DEF PlayTargets
<1>2. \A g \in op.targets \cap Gws : /\ host'[g].up => host'[g].running = host'[g].file
                                     /\ op.kind = "install" => host'[g].file = op.file
  BY <1>1, Apart, AfterSuccess
<1> QED
  BY <1>2 DEF RunsFiles

\* Another phase of the operation after its playbook.
LEMMA NextPhase ==
  ASSUME NEW H, NEW sv, NEW v, NEW c, OpInv(op, H, sv, v, c), op.phase = "playbook",
         op.kind \notin {"install", "none"}, push = NoPush,
         op.kind \in {"reset", "clusterReset", "deploy", "upgrade", "restart"} => RunsFiles(op, H),
         NEW ph,
         \/ op.kind = "installAccel" /\ ph = "forwarder"
         \/ op.kind # "installAccel" /\ ph = "verify" /\ op.todo # <<>>
         \/ op.kind # "installAccel" /\ ph = "ok" /\ op.todo = <<>>
         \/ op.name \in Senders /\ ph = "pushGateway"
  PROVE  LET x == [op EXCEPT !.phase = ph] IN
         /\ OpInv(x, H, sv, v, c) /\ x.targets = op.targets /\ x.phase = ph
         /\ ph # "pushGateway" => \A S, m : PushOK(x, push, S, m)
<1> DEFINE x == [op EXCEPT !.phase = ph]
<1>0. OpOK(op) /\ UpgradeOK(op, H) /\ RunsOK(op, H) /\ ProvisionOK(op, H, sv, v, c) /\ IsOp(op)
  BY DEF OpInv, OpOK
<1>1. /\ x.name = op.name /\ x.targets = op.targets /\ x.version = op.version
      /\ x.file = op.file /\ x.todo = op.todo /\ x.kind = op.kind /\ x.phase = ph /\ IsOp(x)
  BY <1>0, OpPhase
<1> HIDE DEF x
<1>2. OpOK(x)
  BY <1>0, <1>1 DEF OpOK, Phs, Pushing
<1>3. UpgradeOK(x, H)
  <2>1. op.todo # <<>> => op.name = "upgrade" /\ op.kind = "upgrade"
    BY <1>0 DEF UpgradeOK
  <2>2. op.todo # <<>> => ph = "verify"
    BY <2>1 DEF Senders
  <2> QED
    BY <1>0, <1>1, <2>2 DEF UpgradeOK
<1>4. RunsOK(x, H)
  BY <1>0, <1>1 DEF RunsOK, RunsFiles
<1>5. ProvisionOK(x, H, sv, v, c)
  <2>1. op.name = "provision" => op.kind = "installAccel"
    BY <1>0 DEF OpOK
  <2>2. op.name = "provision" => ph = "forwarder"
    BY <2>1 DEF Senders
  <2> QED
    BY <1>0, <1>1, <2>2 DEF ProvisionOK
<1>6. ph # "pushGateway" => \A S, m : PushOK(x, push, S, m)
  BY <1>1 DEF PushOK, Pushing
<1> QED
  BY <1>1, <1>2, <1>3, <1>4, <1>5, <1>6 DEF OpInv, x

LEMMA PlaybookKeeps == ASSUME GwInv, RunPlaybook PROVE GwInv'
<1>1. PICK failAt \in FailAts :
        /\ faults' = faults + Failing(failAt)
        /\ host' = AfterPlaybook(op.kind, PlayTargets, failAt)
        /\ IF ~StatusZero(op.kind, PlayTargets, failAt, host')
           THEN op' = [op EXCEPT !.phase = Failed] /\ UNCHANGED <<push, mixed>>
           ELSE IF Pushes
           THEN \E c \in PushConfigs :
                  /\ op' = [op EXCEPT !.phase = "pushGateway"]
                  /\ push' = [NoPush EXCEPT !.cfg = c, !.given = c, !.gws = op.targets \cap Gws]
                  /\ mixed' = (mixed \/ \E d, e \in DOMAIN c :
                                 Before(DbList, d, e) /\ ~(c[d] \subseteq c[e]))
           ELSE op' = Succeeded /\ UNCHANGED <<push, mixed>>
  BY DEF RunPlaybook
<1>2. op.phase = "playbook" /\ UNCHANGED <<world, kw, made, store, loaded, nops>>
  BY DEF RunPlaybook
<1>3. /\ faults' \in 0..MaxFaults /\ HostsOK(host')
      /\ OpInv(op, host', server, cfgVersion, cbs)
      /\ op.kind \in Kinds \ {"none"} /\ PlayTargets \in SUBSET Hosts
      /\ failAt \in [PlayTargets -> 1..(MaxPhases + 1)]
  BY <1>1, <1>2, PlaybookEffect
<1>4. /\ OpOK(op) /\ UpgradeOK(op, host') /\ IsOp(op) /\ push = NoPush
      /\ WorldOK /\ StoreOK(store, mixed) /\ mixed \in BOOLEAN
  BY <1>2, <1>3, Apart DEF OpInv, PushOK
<1>5. op.todo # <<>> => op.name = "upgrade" /\ op.kind = "upgrade"
  BY <1>4 DEF UpgradeOK
<1>6. CASE ~StatusZero(op.kind, PlayTargets, failAt, host')
  <2>1. op' = [op EXCEPT !.phase = Failed] /\ UNCHANGED <<push, mixed>>
    BY <1>1, <1>6
  <2>2. WorldOK'
    BY <1>2, <1>3, <1>4, <2>1, WorldKept
  <2>3. CASE Failed = "ok"
    <3>1. op.kind = "upgradeOnly" /\ op.todo = <<>>
      BY <1>5, <2>3 DEF Failed
    <3>2. OpInv(op', host', server, cfgVersion, cbs) /\ PushOK(op', push, store, mixed)
      BY <1>2, <1>3, <1>4, <2>1, <2>3, <3>1, NextPhase
    <3> QED
      BY <1>2, <1>3, <1>4, <2>1, <2>2, <3>2, Together DEF world
  <2>4. CASE Failed # "ok"
    <3>1. Failed \in {"raised", "status"} /\ (Failed = "status" => op.todo = <<>>)
      BY <1>5, <2>4 DEF Failed
    <3>2. OpInv(op', host', server, cfgVersion, cbs) /\ PushOK(op', push, store, mixed)
      BY <1>3, <2>1, <3>1, EndsBadly
    <3> QED
      BY <1>2, <1>3, <1>4, <2>1, <2>2, <3>2, Together DEF world
  <2> QED
    BY <2>3, <2>4
<1>7. CASE StatusZero(op.kind, PlayTargets, failAt, host')
  <2>1. op.kind \in {"reset", "clusterReset", "deploy", "upgrade", "restart", "install"} =>
          /\ RunsFiles(op, host')
          /\ op.kind = "install" => \A g \in op.targets \cap Gws : host'[g].file = op.file
    BY <1>1, <1>2, <1>7, PlaybookDone
  <2>2. CASE Pushes
    <3>1. PICK c \in PushConfigs :
            /\ op' = [op EXCEPT !.phase = "pushGateway"]
            /\ push' = [NoPush EXCEPT !.cfg = c, !.given = c, !.gws = op.targets \cap Gws]
            /\ mixed' = (mixed \/ \E d, e \in DOMAIN c :
                           Before(DbList, d, e) /\ ~(c[d] \subseteq c[e]))
      BY <1>1, <1>7, <2>2
    <3>2. op.name \in Senders
      BY <2>2 DEF Pushes, Senders
    <3>3. op.kind \notin {"install", "installAccel", "none"}
      BY <1>3, <1>4, <3>2 DEF OpOK, Senders
    <3>4. /\ OpInv(op', host', server, cfgVersion, cbs) /\ op'.targets = op.targets
          /\ op'.phase = "pushGateway"
      BY <1>2, <1>3, <1>4, <2>1, <3>1, <3>2, <3>3, NextPhase
    <3>5. /\ mixed' \in BOOLEAN /\ (~mixed' => ~mixed)
          /\ ~mixed' => \A d, e \in DOMAIN c : Before(DbList, d, e) => c[d] \subseteq c[e]
      BY <1>4, <3>1
    <3>6. StoreOK(store', mixed')
      BY <1>2, <1>4, <3>5 DEF StoreOK
    <3>7. WorldOK'
      BY <1>2, <1>3, <1>4, <3>5 DEF WorldOK, world
    <3>8. push' = [cfg |-> c, given |-> c, gws |-> op.targets \cap Gws, dbs |-> {}, exist |-> {},
                   roles |-> "", users |-> "", orig |-> "", skipped |-> {}]
      BY <3>1 DEF NoPush
    <3>9. /\ push'.cfg = c /\ push'.given = c /\ push'.gws = op.targets \cap Gws /\ push'.dbs = {}
          /\ push'.exist = {} /\ push'.roles = "" /\ push'.users = "" /\ push'.orig = ""
          /\ IsPush(push')
      BY <3>8 DEF IsPush
    <3>10. c \in [DOMAIN c -> SUBSET Parts] /\ DOMAIN c \subseteq Dbs
      BY GatewayAssumption, Zenon DEF Dbs
    <3>11. Current(op', push') = {} /\ Rest(op', push') = DOMAIN c
      BY <3>4, <3>9 DEF Current, Rest
    <3>12. PushTypeOK(op', push')
      BY <3>4, <3>9, <3>10 DEF PushTypeOK
    <3>13. UsersOK(op', push', store') /\ OidcOK(op', push', store') /\ TakenOK(op', push', store')
      BY <3>4, <3>9 DEF UsersOK, OidcOK, TakenOK
    <3>14. ~mixed' => PartsOK(op', push') /\ ToldOK(op', push', store')
      BY <3>4, <3>5, <3>9, <3>11 DEF PartsOK, ToldOK
    <3>15. PushOK(op', push', store', mixed')
      BY <3>4, <3>12, <3>13, <3>14 DEF PushOK
    <3> QED
      BY <1>2, <1>3, <3>4, <3>6, <3>7, <3>15, Together DEF world
  <2>3. CASE ~Pushes
    <3>1. op' = Succeeded /\ UNCHANGED <<push, mixed>>
      BY <1>1, <1>7, <2>3
    <3>2. WorldOK'
      BY <1>2, <1>3, <1>4, <3>1, WorldKept
    <3>3. CASE op.kind = "install"
      <4>1. op' = [op EXCEPT !.kind = "installAccel"]
        BY <3>1, <3>3 DEF Succeeded
      <4>2. op' = [name |-> op.name, targets |-> op.targets, version |-> op.version,
                   import |-> op.import, old |-> op.old, file |-> op.file, todo |-> op.todo,
                   phase |-> op.phase, kind |-> "installAccel"]
        BY <1>4, <4>1 DEF IsOp
      <4>3. /\ op'.name = op.name /\ op'.targets = op.targets /\ op'.version = op.version
            /\ op'.file = op.file /\ op'.todo = op.todo /\ op'.phase = "playbook"
            /\ op'.kind = "installAccel" /\ IsOp(op')
        BY <1>2, <4>2 DEF IsOp
      <4>4. OpOK(op')
        BY <1>2, <1>4, <3>3, <4>3 DEF OpOK, Phs, Kinds, Pushing
      <4>5. UpgradeOK(op', host')
        BY <1>5, <3>3, <4>3 DEF UpgradeOK
      <4>6. RunsOK(op', host')
        BY <2>1, <3>3, <4>3 DEF RunsOK, RunsFiles
      <4>7. ProvisionOK(op', host', server, cfgVersion, cbs)
        BY <1>3, <1>4, <2>1, <3>3, <4>3 DEF ProvisionOK, OpInv, OpOK
      <4>8. PushOK(op', push, store, mixed)
        BY <1>4, <4>3 DEF PushOK, Pushing
      <4> QED
        BY <1>2, <1>3, <1>4, <3>1, <3>2, <4>4, <4>5, <4>6, <4>7, <4>8, Together
           DEF OpInv, world
    <3>4. CASE op.kind # "install"
      <4>1. PICK ph : /\ op' = [op EXCEPT !.phase = ph]
                      /\ \/ op.kind = "installAccel" /\ ph = "forwarder"
                         \/ op.kind # "installAccel" /\ ph = "verify" /\ op.todo # <<>>
                         \/ op.kind # "installAccel" /\ ph = "ok" /\ op.todo = <<>>
        <5>1. CASE op.kind = "installAccel"
          BY <3>1, <5>1 DEF Succeeded
        <5>2. CASE op.kind # "installAccel"
          BY <3>1, <3>4, <5>2 DEF Succeeded
        <5> QED
          BY <5>1, <5>2
      <4>2. OpInv(op', host', server, cfgVersion, cbs) /\ PushOK(op', push, store, mixed)
        BY <1>2, <1>3, <1>4, <2>1, <3>4, <4>1, NextPhase
      <4> QED
        BY <1>2, <1>3, <1>4, <3>1, <3>2, <4>2, Together DEF world
    <3> QED
      BY <3>3, <3>4
  <2> QED
    BY <2>2, <2>3
<1> QED
  BY <1>6, <1>7

-----------------------------------------------------------------------------
(* The databases are pushed                                                *)

\* One element of a set comes first.
LEMMA ForemostOne ==
  ASSUME NEW S, NEW d \in Foremost(DbList, S)
  PROVE  /\ Foremost(DbList, S) = {d} /\ d \in S
         /\ \A e \in S \ {d} : Before(DbList, d, e)
<1>0. d \in S /\ \A e \in S \ {d} : Before(DbList, d, e)
  BY DEF Foremost
<1>1. \A i, j \in 1..Len(DbList) : DbList[i] = DbList[j] => i = j
  <2>1. DbList \in Seq(Range(DbList)) /\ IsInjective(DbList)
    BY GatewayAssumption, Zenon
  <2>2. DOMAIN DbList = 1..Len(DbList)
    BY <2>1
  <2> QED
    BY <2>1, <2>2 DEF IsInjective
<1>2. ASSUME NEW e \in Foremost(DbList, S), e # d PROVE FALSE
  <2>1. Before(DbList, d, e) /\ Before(DbList, e, d)
    BY <1>0, <1>2 DEF Foremost
  <2>2. PICK i, j \in 1..Len(DbList) : i < j /\ DbList[i] = d /\ DbList[j] = e
    BY <2>1 DEF Before
  <2>3. PICK k, l \in 1..Len(DbList) : k < l /\ DbList[k] = e /\ DbList[l] = d
    BY <2>1 DEF Before
  <2>4. i = l /\ j = k
    BY <1>1, <2>2, <2>3
  <2>5. i \in Int /\ j \in Int
    OBVIOUS
  <2> QED
    BY <2>2, <2>3, <2>4, <2>5
<1> QED
  BY <1>0, <1>2

\* Where a push is, and a step of it put together.
LEMMA PushState ==
  ASSUME GwInv, op.phase \in Pushing
  PROVE  /\ PushTypeOK(op, push) /\ UsersOK(op, push, store) /\ OidcOK(op, push, store)
         /\ TakenOK(op, push, store)
         /\ ~mixed => PartsOK(op, push) /\ ToldOK(op, push, store)
         /\ StoreOK(store, mixed) /\ op.targets \cap Gws # {} /\ op.name \in Senders
         /\ op.todo = <<>> /\ IsOp(op)
<1>1. OpOK(op) /\ UpgradeOK(op, host) /\ PushOK(op, push, store, mixed) /\ StoreOK(store, mixed)
  BY DEF GwInv
<1>2. op.name \in Senders /\ op.targets \cap Gws # {} /\ IsOp(op)
  BY <1>1 DEF OpOK
<1>3. op.todo = <<>>
  BY <1>1, <1>2 DEF UpgradeOK, Senders
<1>4. /\ PushTypeOK(op, push) /\ UsersOK(op, push, store) /\ OidcOK(op, push, store)
      /\ TakenOK(op, push, store)
      /\ ~mixed => PartsOK(op, push) /\ ToldOK(op, push, store)
  BY <1>1 DEF PushOK
<1> QED
  BY <1>1, <1>2, <1>3, <1>4

LEMMA PushPhase ==
  ASSUME GwInv, op.phase \in Pushing, NEW ph \in Pushing \cup {"ok"},
         op' = [op EXCEPT !.phase = ph]
  PROVE  /\ op'.phase = ph /\ op'.targets = op.targets
         /\ OpInv(op', host, server, cfgVersion, cbs)
<1>0. OpOK(op) /\ UpgradeOK(op, host) /\ RunsOK(op, host) /\ IsOp(op)
      /\ ProvisionOK(op, host, server, cfgVersion, cbs)
  BY DEF GwInv, OpOK
<1>1. op.name \in Senders /\ op.todo = <<>>
  BY PushState
<1>2. /\ op'.name = op.name /\ op'.targets = op.targets /\ op'.version = op.version
      /\ op'.file = op.file /\ op'.todo = op.todo /\ op'.kind = op.kind /\ op'.phase = ph
      /\ IsOp(op')
  BY <1>0, OpPhase
<1>3. OpOK(op')
  BY <1>0, <1>1, <1>2 DEF OpOK, Phs, Pushing, Senders
<1>4. UpgradeOK(op', host)
  BY <1>1, <1>2 DEF UpgradeOK
<1>5. RunsOK(op', host)
  BY <1>0, <1>2 DEF RunsOK, RunsFiles, Pushing
<1>6. ProvisionOK(op', host, server, cfgVersion, cbs)
  BY <1>1, <1>2 DEF ProvisionOK, Senders
<1> QED
  BY <1>2, <1>3, <1>4, <1>5, <1>6 DEF OpInv

LEMMA PushStep ==
  ASSUME GwInv, op.phase \in Pushing, NEW ph \in Pushing \cup {"ok"},
         op' = [op EXCEPT !.phase = ph], PushUnchanged, faults' \in 0..MaxFaults,
         StoreOK(store', mixed), PushOK(op', push', store', mixed)
  PROVE  GwInv'
<1>1. OpInv(op', host, server, cfgVersion, cbs)
  BY PushPhase
<1>2. UNCHANGED <<world, kw, made, host, mixed, loaded, nops>>
  BY DEF PushUnchanged
<1>3. WorldOK'
  BY <1>2, Apart, WorldKept
<1> QED
  BY <1>1, <1>2, <1>3, Apart, Together DEF world

LEMMA PushFailing ==
  ASSUME GwInv, op.phase \in Pushing, PushUnchanged, Refused \/ \E g \in Gws : Unreachable(g)
  PROVE  GwInv'
<1>1. UNCHANGED <<world, kw, made, host, push, store, mixed, loaded, nops>>
  BY DEF PushUnchanged, Refused, Unreachable
<1>2. faults' \in 0..MaxFaults
  BY Apart, OneMoreFault DEF Refused, Unreachable
<1>3. PICK ph \in {"raised", "status"} : op' = [op EXCEPT !.phase = ph]
  BY DEF Refused, Unreachable, PushFails
<1>4. op.todo = <<>>
  BY PushState
<1> QED
  BY <1>1, <1>2, <1>3, <1>4, RaisingKeeps

\* The gateway whose turn it is.
LEMMA GatewayServed ==
  ASSUME GwInv, op.phase \in Pushing, NEW g \in Gateway
  PROVE  g \in push.gws /\ g \in Gws
BY PushState DEF Gateway, Foremost, PushTypeOK

LEMMA PushGatewayKeeps == ASSUME GwInv, PushGateway PROVE GwInv'
<1>0. op.phase = "pushGateway" /\ op.phase \in Pushing /\ PushUnchanged
  BY DEF PushGateway, Pushing
<1>1. /\ PushTypeOK(op, push) /\ UsersOK(op, push, store) /\ OidcOK(op, push, store)
      /\ TakenOK(op, push, store)
      /\ ~mixed => PartsOK(op, push) /\ ToldOK(op, push, store)
      /\ StoreOK(store, mixed) /\ op.targets \cap Gws # {}
  BY <1>0, PushState
<1>2. Current(op, push) = {} /\ Rest(op, push) = DOMAIN push.cfg
  BY <1>0 DEF Current, Rest
<1>3. CASE push.gws = {} /\ op' = [op EXCEPT !.phase = "ok"] /\ UNCHANGED <<push, store, faults>>
  <2>1. op'.phase = "ok" /\ op'.targets = op.targets
    BY <1>0, <1>3, PushPhase
  <2>2. DOMAIN push.cfg \subseteq Dbs
    BY <1>1 DEF PushTypeOK
  <2>3. /\ ~mixed => \A d \in DOMAIN push.cfg : store[d].of = d
        /\ \A d \in DOMAIN push.cfg : push.cfg[d] = {} /\ store[d].exists
    BY <1>1, <1>3 DEF ToldOK, TakenOK
  <2>4. \A d \in DOMAIN push.cfg \ push.skipped :
          /\ "users" \in push.given[d] => d \in store[d].users
          /\ "roles" \in push.given[d] => d \in store[d].roles
    BY <1>1, <1>2, <2>3 DEF UsersOK
  <2>5. op.targets \in {{g} : g \in Gws} /\ push.orig # "" => store[push.orig].oidc
    BY <1>1 DEF OidcOK
  <2>6. PushOK(op', push', store', mixed)
    BY <1>3, <2>1, <2>2, <2>3, <2>4, <2>5 DEF PushOK, Pushing
  <2>7. faults' \in 0..MaxFaults /\ StoreOK(store', mixed)
    BY <1>1, <1>3, Apart
  <2> QED
    BY <1>0, <1>3, <2>6, <2>7, PushStep
<1>4. ASSUME NEW g \in Gateway, Refused \/ Unreachable(g) PROVE GwInv'
  BY <1>0, <1>4, GatewayServed, PushFailing
<1>5. ASSUME NEW g \in Gateway,
             store' = [d \in DOMAIN store |-> IF d \in DOMAIN push.cfg THEN store[d] ELSE Absent],
             push' = [push EXCEPT !.exist = {}, !.dbs = DOMAIN push.cfg],
             op' = [op EXCEPT !.phase = "pushDb"], UNCHANGED faults
      PROVE  GwInv'
  <2>0. op'.phase = "pushDb" /\ op'.targets = op.targets /\ g \in push.gws
    BY <1>0, <1>5, PushPhase, GatewayServed DEF Pushing
  <2>1. push' = [cfg |-> push.cfg, given |-> push.given, gws |-> push.gws, dbs |-> DOMAIN push.cfg, exist |-> {},
                 roles |-> push.roles, users |-> push.users, orig |-> push.orig,
                 skipped |-> push.skipped]
    BY <1>1, <1>5 DEF PushTypeOK, IsPush
  <2>2. /\ push'.cfg = push.cfg /\ push'.given = push.given /\ push'.gws = push.gws /\ push'.dbs = DOMAIN push.cfg
        /\ push'.exist = {} /\ push'.roles = push.roles /\ push'.users = push.users
        /\ push'.orig = push.orig /\ push'.skipped = push.skipped /\ IsPush(push')
    BY <2>1 DEF IsPush
  <2>3. /\ store \in [Dbs -> Databases] /\ DOMAIN push.cfg \subseteq Dbs
    BY <1>1 DEF StoreOK, PushTypeOK
  <2>a. store' = [d \in Dbs |-> IF d \in DOMAIN push.cfg THEN store[d] ELSE Absent]
    BY <1>5, <2>3
  <2>b. /\ \A d \in DOMAIN push.cfg : store'[d] = store[d]
        /\ \A d \in Dbs : store'[d] \in {store[d], Absent}
    BY <2>3, <2>a
  <2>4. StoreOK(store', mixed)
    <3>1. Absent \in Databases /\ Absent.users = {} /\ Absent.roles = {}
      BY DEF Absent, Databases
    <3>2. store' \in [Dbs -> Databases]
      BY <2>3, <2>a, <3>1
    <3> QED
      BY <1>1, <2>b, <3>1, <3>2 DEF StoreOK
  <2>5. Current(op', push') = {} /\ Rest(op', push') = DOMAIN push.cfg
    BY <2>0, <2>2 DEF Current, Rest
  <2>6. PushTypeOK(op', push')
    BY <1>1, <2>0, <2>2 DEF PushTypeOK
  <2>7. UsersOK(op', push', store') /\ TakenOK(op', push', store')
    <3>1. UsersOK(op', push', store')
      BY <1>1, <1>2, <2>2, <2>b DEF UsersOK
    <3>2. TakenOK(op', push', store')
      BY <1>1, <2>0, <2>2, <2>5, <2>b DEF TakenOK
    <3> QED
      BY <3>1, <3>2
  <2>8. OidcOK(op', push', store')
    BY <1>0, <1>1, <2>0, <2>2 DEF OidcOK
  <2>9. ASSUME ~mixed PROVE PartsOK(op', push') /\ ToldOK(op', push', store')
    <3>1. PartsOK(op', push')
      BY <1>1, <1>2, <2>2, <2>5, <2>9 DEF PartsOK
    <3>2. ToldOK(op', push', store')
      BY <1>1, <2>0, <2>2, <2>b, <2>5, <2>9 DEF ToldOK
    <3> QED
      BY <3>1, <3>2
  <2>10. PushOK(op', push', store', mixed)
    BY <2>0, <2>6, <2>7, <2>8, <2>9 DEF PushOK
  <2>11. faults' \in 0..MaxFaults
    BY <1>5, Apart
  <2> QED
    BY <1>0, <1>5, <2>4, <2>10, <2>11, PushStep DEF Pushing
<1> QED
  BY <1>3, <1>4, <1>5 DEF PushGateway

\* The gateway has been told of all databases.
LEMMA PushDbDone ==
  ASSUME GwInv, op.phase = "pushDb", PushUnchanged, NEW g \in Gateway, push.dbs = {},
         push' = [push EXCEPT !.gws = @ \ {g}], op' = [op EXCEPT !.phase = "pushGateway"],
         UNCHANGED <<store, faults>>
  PROVE  GwInv'
<1>0. op.phase \in Pushing
  BY DEF Pushing
<1>1. /\ PushTypeOK(op, push) /\ UsersOK(op, push, store) /\ OidcOK(op, push, store)
      /\ TakenOK(op, push, store)
      /\ ~mixed => PartsOK(op, push) /\ ToldOK(op, push, store)
      /\ StoreOK(store, mixed) /\ g \in push.gws
  BY <1>0, PushState, GatewayServed
<1>2. op'.phase = "pushGateway" /\ op'.targets = op.targets
  BY <1>0, PushPhase DEF Pushing
<1>3. Current(op, push) = {} /\ Rest(op, push) = {}
  BY DEF Current, Rest
<1>4. push' = [cfg |-> push.cfg, given |-> push.given, gws |-> push.gws \ {g}, dbs |-> push.dbs, exist |-> push.exist,
               roles |-> push.roles, users |-> push.users, orig |-> push.orig,
               skipped |-> push.skipped]
  BY <1>1 DEF PushTypeOK, IsPush
<1>5. /\ push'.cfg = push.cfg /\ push'.given = push.given /\ push'.gws = push.gws \ {g} /\ push'.dbs = push.dbs
      /\ push'.exist = push.exist /\ push'.roles = push.roles /\ push'.users = push.users
      /\ push'.orig = push.orig /\ push'.skipped = push.skipped /\ IsPush(push')
  BY <1>4 DEF IsPush
<1>6. Current(op', push') = {} /\ Rest(op', push') = DOMAIN push.cfg
  BY <1>2, <1>5 DEF Current, Rest
<1>7. PushTypeOK(op', push')
  BY <1>1, <1>2, <1>5 DEF PushTypeOK
<1>8. UsersOK(op', push', store) /\ TakenOK(op', push', store)
  <2>1. UsersOK(op', push', store)
    BY <1>1, <1>3, <1>5 DEF UsersOK
  <2>2. \A d \in DOMAIN push.cfg : push.cfg[d] = {} /\ store[d].exists
    BY <1>1, <1>3 DEF TakenOK
  <2>3. TakenOK(op', push', store)
    BY <1>2, <1>5, <2>2 DEF TakenOK
  <2> QED
    BY <2>1, <2>3
<1>9. OidcOK(op', push', store)
  <2>1. op.targets \in {{x} : x \in Gws} => push'.gws = {}
    BY <1>1, <1>5 DEF PushTypeOK
  <2> QED
    BY <1>1, <1>2, <1>5, <2>1 DEF OidcOK
<1>10. ASSUME ~mixed PROVE PartsOK(op', push') /\ ToldOK(op', push', store)
  <2>1. \A d \in DOMAIN push.cfg : push.cfg[d] = {} /\ store[d].exists /\ store[d].of = d
    BY <1>1, <1>3, <1>10 DEF PartsOK, ToldOK
  <2> QED
    BY <1>2, <1>5, <1>6, <2>1 DEF PartsOK, ToldOK
<1>11. PushOK(op', push', store', mixed)
  BY <1>2, <1>7, <1>8, <1>9, <1>10 DEF PushOK
<1>12. faults' \in 0..MaxFaults /\ StoreOK(store', mixed)
  BY <1>1, Apart
<1> QED
  BY <1>0, <1>11, <1>12, PushStep DEF Pushing

LEMMA PushRecord ==
  ASSUME NEW p, NEW cfg, NEW given, NEW gws, NEW dbs, NEW exist, NEW roles, NEW users, NEW orig, NEW skipped,
         p = [cfg |-> cfg, given |-> given, gws |-> gws, dbs |-> dbs, exist |-> exist, roles |-> roles,
              users |-> users, orig |-> orig, skipped |-> skipped]
  PROVE  /\ p.cfg = cfg /\ p.given = given /\ p.gws = gws /\ p.dbs = dbs /\ p.exist = exist /\ p.roles = roles
         /\ p.users = users /\ p.orig = orig /\ p.skipped = skipped /\ IsPush(p)
BY DEF IsPush

\* A database that is created has neither users nor roles.
LEMMA Created ==
  ASSUME NEW x, x = [exists |-> TRUE, of |-> "", oidc |-> FALSE, users |-> {}, roles |-> {}]
  PROVE  x \in Databases /\ x.exists /\ x.users = {} /\ x.roles = {}
<1>1. x.exists = TRUE /\ x.users = {} /\ x.roles = {}
  OBVIOUS
<1>2. x \in Databases
  BY DEF Databases
<1> QED
  BY <1>1, <1>2

CreatedOrKept(old) == IF old.exists THEN old ELSE [Absent EXCEPT !.exists = TRUE]

LEMMA CreatedOrKeptOK ==
  ASSUME NEW old \in Databases
  PROVE  LET kept == CreatedOrKept(old) IN
         /\ kept \in Databases /\ kept.exists /\ kept.users \subseteq old.users
         /\ kept.roles \subseteq old.roles /\ (old.exists => kept = old)
<1> DEFINE kept == CreatedOrKept(old)
<1>1. CASE old.exists
  BY <1>1 DEF CreatedOrKept
<1>2. CASE ~old.exists
  <2>1. kept = [exists |-> TRUE, of |-> "", oidc |-> FALSE, users |-> {}, roles |-> {}]
    BY <1>2 DEF CreatedOrKept, Absent
  <2> HIDE DEF kept
  <2> QED
    BY <1>2, <2>1, Created DEF kept
<1> QED
  BY <1>1, <1>2

\* A database is created or given its configuration.
TellsDb(d) ==
  LET parts == push.cfg[d]
      exist == push.exist \cup parts
      orig == IF "oidc" \in parts THEN d ELSE push.orig
      kept == CreatedOrKept(store[d]) IN
  /\ store' = [store EXCEPT ![d] = IF "oidc" \in exist
                                   THEN [kept EXCEPT !.of = orig, !.oidc = TRUE]
                                   ELSE [kept EXCEPT !.of = d, !.oidc = FALSE]]
  /\ push' = [push EXCEPT !.cfg[d] = {}, !.exist = exist, !.orig = orig,
                !.roles = IF "roles" \in parts THEN d ELSE @,
                !.users = IF "users" \in parts THEN d ELSE @]

LEMMA PushDbOne ==
  ASSUME GwInv, op.phase = "pushDb", PushUnchanged, NEW g \in Gateway, NEW d \in Database,
         TellsDb(d), op' = [op EXCEPT !.phase = "pushUsers"], UNCHANGED faults
  PROVE  GwInv'
<1> DEFINE parts == push.cfg[d]
           exist == push.exist \cup parts
           orig == IF "oidc" \in parts THEN d ELSE push.orig
           kept == CreatedOrKept(store[d])
           cfg == [push.cfg EXCEPT ![d] = {}]
           roles == IF "roles" \in parts THEN d ELSE push.roles
           users == IF "users" \in parts THEN d ELSE push.users
<1>a. store' = [store EXCEPT ![d] = IF "oidc" \in exist
                                    THEN [kept EXCEPT !.of = orig, !.oidc = TRUE]
                                    ELSE [kept EXCEPT !.of = d, !.oidc = FALSE]]
  BY DEF TellsDb
<1>b. IsPush(push)
  BY PushState DEF PushTypeOK, Pushing
<1>c. push' = [cfg |-> cfg, given |-> push.given, gws |-> push.gws, dbs |-> push.dbs, exist |-> exist,
               roles |-> roles, users |-> users, orig |-> orig, skipped |-> push.skipped]
  BY <1>b DEF TellsDb, IsPush
<1>d. /\ parts = push.cfg[d] /\ exist = push.exist \cup parts
      /\ "oidc" \in parts => orig = d
      /\ "oidc" \notin parts => orig = push.orig
      /\ kept = CreatedOrKept(store[d]) /\ cfg = [push.cfg EXCEPT ![d] = {}]
      /\ "roles" \in parts => roles = d
      /\ "roles" \notin parts => roles = push.roles
      /\ "users" \in parts => users = d
      /\ "users" \notin parts => users = push.users
  OBVIOUS
<1> HIDE DEF parts, exist, orig, kept, cfg, roles, users
<1>0. op.phase \in Pushing
  BY DEF Pushing
<1>1. /\ PushTypeOK(op, push) /\ UsersOK(op, push, store) /\ OidcOK(op, push, store)
      /\ TakenOK(op, push, store)
      /\ ~mixed => PartsOK(op, push) /\ ToldOK(op, push, store)
      /\ StoreOK(store, mixed)
  BY <1>0, PushState
<1>2. op'.phase = "pushUsers" /\ op'.targets = op.targets
  BY <1>0, PushPhase DEF Pushing
<1>3. Current(op, push) = {} /\ Rest(op, push) = push.dbs
  BY DEF Current, Rest
<1>4. /\ Foremost(DbList, push.dbs) = {d} /\ d \in push.dbs
      /\ \A e \in push.dbs \ {d} : Before(DbList, d, e)
  BY ForemostOne DEF Database
<1>5. /\ d \in DOMAIN push.cfg /\ d \in Dbs /\ parts \subseteq Parts /\ "" \notin Dbs
      /\ DOMAIN push.cfg \subseteq Dbs /\ push.cfg \in [DOMAIN push.cfg -> SUBSET Parts]
  <2>1. "" \notin Dbs
    BY GatewayAssumption, Zenon DEF Dbs
  <2> QED
    BY <1>1, <1>4, <1>d, <2>1 DEF PushTypeOK
<1>7. /\ DOMAIN cfg = DOMAIN push.cfg /\ cfg[d] = {} /\ cfg \in [DOMAIN push.cfg -> SUBSET Parts]
      /\ \A e \in DOMAIN push.cfg \ {d} : cfg[e] = push.cfg[e]
  BY <1>5, <1>d
<1>9. /\ push'.cfg = cfg /\ push'.given = push.given /\ push'.gws = push.gws /\ push'.dbs = push.dbs
      /\ push'.exist = exist /\ push'.roles = roles /\ push'.users = users
      /\ push'.orig = orig /\ push'.skipped = push.skipped /\ IsPush(push')
  BY <1>c, PushRecord
<1>10. Current(op', push') = {d} /\ Rest(op', push') = push.dbs \ {d}
  BY <1>2, <1>4, <1>9 DEF Current, Rest
<1> DEFINE new == store'[d]
<1>11. /\ kept \in Databases /\ kept.exists /\ kept.users \subseteq store[d].users
       /\ kept.roles \subseteq store[d].roles
       /\ store[d].exists => kept = store[d]
  <2>1. store[d] \in Databases
    BY <1>1, <1>5 DEF StoreOK
  <2> QED
    BY <1>d, <2>1, CreatedOrKeptOK
<1>12. orig \in DOMAIN push.cfg \cup {""}
  BY <1>1, <1>5, <1>d DEF PushTypeOK
<1>13. /\ new \in Databases /\ new.exists /\ new.users = kept.users /\ new.roles = kept.roles
       /\ "oidc" \in exist => new.of = orig /\ new.oidc
       /\ "oidc" \notin exist => new.of = d
       /\ \A e \in Dbs \ {d} : store'[e] = store[e]
       /\ store' \in [Dbs -> Databases]
  <2> DEFINE a == [kept EXCEPT !.of = orig, !.oidc = TRUE]
             b == [kept EXCEPT !.of = d, !.oidc = FALSE]
  <2>0. store \in [Dbs -> Databases] /\ orig \in Dbs \cup {""} /\ d \in Dbs \cup {""}
    BY <1>1, <1>5, <1>12 DEF StoreOK
  <2>1. /\ a \in Databases /\ a.exists = kept.exists /\ a.users = kept.users
        /\ a.roles = kept.roles /\ a.of = orig /\ a.oidc = TRUE
    BY <1>11, <2>0 DEF Databases
  <2>2. /\ b \in Databases /\ b.exists = kept.exists /\ b.users = kept.users
        /\ b.roles = kept.roles /\ b.of = d
    BY <1>11, <2>0 DEF Databases
  <2>3. store' = [store EXCEPT ![d] = IF "oidc" \in exist THEN a ELSE b]
    BY <1>a
  <2>4. a.exists /\ a.oidc /\ b.exists
    BY <1>11, <2>1, <2>2
  <2> HIDE DEF a, b
  <2>5. new = (IF "oidc" \in exist THEN a ELSE b) /\ \A e \in Dbs \ {d} : store'[e] = store[e]
    BY <1>5, <2>0, <2>3
  <2>6. store' \in [Dbs -> Databases]
    BY <1>5, <2>0, <2>1, <2>2, <2>3
  <2> HIDE DEF new
  <2>7. CASE "oidc" \in exist
    BY <2>1, <2>4, <2>5, <2>6, <2>7
  <2>8. CASE "oidc" \notin exist
    BY <2>2, <2>4, <2>5, <2>6, <2>8
  <2> QED
    BY <2>7, <2>8
<1>14. StoreOK(store', mixed)
  BY <1>1, <1>5, <1>11, <1>13 DEF StoreOK
<1>15. PushTypeOK(op', push')
  <2>1. /\ push.gws \subseteq op.targets \cap Gws /\ push.dbs \subseteq DOMAIN push.cfg
        /\ push.exist \subseteq Parts
        /\ {push.users, push.roles} \subseteq DOMAIN push.cfg \cup {""}
        /\ "users" \in push.exist => push.users # ""
        /\ "roles" \in push.exist => push.roles # ""
    BY <1>1 DEF PushTypeOK
  <2>2. exist \subseteq Parts /\ d # ""
    BY <1>5, <1>d, <2>1
  <2>3. {users, roles, orig} \subseteq DOMAIN push.cfg \cup {""}
    BY <1>5, <1>12, <1>d, <2>1
  <2>4. ("users" \in exist => users # "") /\ ("roles" \in exist => roles # "")
    BY <1>d, <2>1, <2>2
  <2> QED
    BY <1>2, <1>5, <1>7, <1>9, <2>1, <2>2, <2>3, <2>4 DEF PushTypeOK
<1>16. UsersOK(op', push', store') /\ TakenOK(op', push', store')
  <2>1. /\ d \in store[d].users => d \in new.users
        /\ d \in store[d].roles => d \in new.roles
    <3>1. store[d].users \cup store[d].roles # {} => store[d].exists
      BY <1>1, <1>5 DEF StoreOK
    <3> QED
      BY <1>11, <1>13, <3>1
  <2>2. ASSUME NEW e \in DOMAIN push.cfg
        PROVE  /\ "users" \in push.given[e] =>
                    \/ "users" \in cfg[e] \/ e \in push.skipped \/ e \in store'[e].users
                    \/ e = d /\ "users" \in exist /\ users = d
               /\ "roles" \in push.given[e] =>
                    \/ "roles" \in cfg[e] \/ e \in push.skipped \/ e \in store'[e].roles
                    \/ e = d /\ "roles" \in exist /\ roles = d
    <3>1. /\ "users" \in push.given[e] =>
               "users" \in push.cfg[e] \/ e \in push.skipped \/ e \in store[e].users
          /\ "roles" \in push.given[e] =>
               "roles" \in push.cfg[e] \/ e \in push.skipped \/ e \in store[e].roles
      BY <1>1, <1>3 DEF UsersOK
    <3>2. CASE e = d
      BY <1>d, <2>1, <3>1, <3>2
    <3>3. CASE e # d
      BY <1>5, <1>7, <1>13, <3>1, <3>3
    <3> QED
      BY <3>2, <3>3
  <2>3. UsersOK(op', push', store')
    BY <1>7, <1>9, <1>10, <2>2 DEF UsersOK
  <2>4. ASSUME NEW e \in DOMAIN push.cfg, push.cfg[e] = {}, store[e].exists
        PROVE  cfg[e] = {} /\ store'[e].exists
    BY <1>5, <1>7, <1>13, <2>4
  <2>5. TakenOK(op', push', store')
    <3>1. ASSUME NEW e \in DOMAIN push.cfg \ (push.dbs \ {d})
          PROVE  cfg[e] = {} /\ store'[e].exists
      <4>1. CASE e = d
        BY <1>7, <1>13, <4>1
      <4>2. CASE e # d
        BY <1>1, <1>3, <2>4, <4>2 DEF TakenOK
      <4> QED
        BY <4>1, <4>2
    <3>2. ASSUME push.gws # op.targets \cap Gws, NEW e \in DOMAIN push.cfg
          PROVE  cfg[e] = {} /\ store'[e].exists
      BY <1>1, <2>4, <3>2 DEF TakenOK
    <3> QED
      BY <1>2, <1>7, <1>9, <1>10, <3>1, <3>2 DEF TakenOK
  <2> QED
    BY <2>3, <2>5
<1>17. OidcOK(op', push', store')
  <2>1. CASE "oidc" \in parts
    BY <1>2, <1>9, <1>10, <1>13, <1>d, <2>1 DEF OidcOK
  <2>2. CASE "oidc" \notin parts
    <3>1. orig = push.orig
      BY <1>d, <2>2
    <3>2. ASSUME op.targets \in {{x} : x \in Gws}, push.orig # ""
          PROVE  store'[push.orig].oidc /\ push.orig \notin push.dbs \ {d}
      <4>1. store[push.orig].oidc /\ push.orig \notin push.dbs /\ push.orig \in Dbs
        BY <1>1, <1>3, <1>5, <3>2 DEF OidcOK, PushTypeOK
      <4>2. push.orig # d
        BY <1>4, <4>1
      <4> QED
        BY <1>13, <4>1, <4>2
    <3> QED
      BY <1>2, <1>9, <1>10, <3>1, <3>2 DEF OidcOK
  <2> QED
    BY <2>1, <2>2
<1>18. ASSUME ~mixed PROVE PartsOK(op', push') /\ ToldOK(op', push', store')
  <2>0. /\ \A x, y \in push.dbs : Before(DbList, x, y) => push.cfg[x] \subseteq push.cfg[y]
        /\ \A e \in push.dbs : push.exist \subseteq push.cfg[e]
        /\ \A x \in DOMAIN push.cfg \ push.dbs : push.cfg[x] = {}
        /\ \A x \in DOMAIN push.cfg \ push.dbs : store[x].exists /\ store[x].of = x
        /\ push.gws # op.targets \cap Gws =>
             \A x \in DOMAIN push.cfg : store[x].exists /\ store[x].of = x
    BY <1>1, <1>3, <1>18 DEF PartsOK, ToldOK
  <2>1. exist = parts /\ push.dbs \subseteq DOMAIN push.cfg
    BY <1>1, <1>4, <1>d, <2>0 DEF PushTypeOK
  <2>2. \A e \in push.dbs \ {d} : exist \subseteq cfg[e] /\ cfg[e] = push.cfg[e]
    <3>1. \A e \in push.dbs \ {d} : cfg[e] = push.cfg[e]
      BY <1>7, <2>1
    <3>2. \A e \in push.dbs \ {d} : push.cfg[d] \subseteq push.cfg[e]
      BY <1>4, <2>0
    <3> QED
      BY <1>d, <2>1, <3>1, <3>2
  <2>3. \A x \in DOMAIN push.cfg \ (push.dbs \ {d}) : cfg[x] = {}
    BY <1>7, <2>0
  <2>4. PartsOK(op', push')
    BY <1>7, <1>d, <1>9, <1>10, <2>0, <2>1, <2>2, <2>3 DEF PartsOK
  <2>5. new.of = d
    BY <1>13, <1>d, <2>1
  <2>6. \A x \in DOMAIN push.cfg \ (push.dbs \ {d}) : store'[x].exists /\ store'[x].of = x
    BY <1>5, <1>13, <2>0, <2>5
  <2>7. push.gws # op.targets \cap Gws =>
          \A x \in DOMAIN push.cfg : store'[x].exists /\ store'[x].of = x
    <3>1. SUFFICES ASSUME push.gws # op.targets \cap Gws, NEW x \in DOMAIN push.cfg
                   PROVE  store'[x].exists /\ store'[x].of = x
      OBVIOUS
    <3>2. CASE x = d
      BY <1>13, <2>5, <3>2
    <3>3. CASE x # d
      <4>1. store'[x] = store[x]
        BY <1>5, <1>13, <3>3
      <4> QED
        BY <2>0, <3>1, <4>1
    <3> QED
      BY <3>2, <3>3
  <2>8. ToldOK(op', push', store')
    BY <1>2, <1>7, <1>9, <1>10, <2>6, <2>7 DEF ToldOK
  <2> QED
    BY <2>4, <2>8
<1>19. PushOK(op', push', store', mixed)
  BY <1>2, <1>15, <1>16, <1>17, <1>18 DEF PushOK
<1>20. faults' \in 0..MaxFaults
  BY Apart
<1> QED
  BY <1>0, <1>14, <1>19, <1>20, PushStep DEF Pushing

LEMMA PushDbKeeps == ASSUME GwInv, PushDb PROVE GwInv'
<1>0. op.phase = "pushDb" /\ op.phase \in Pushing /\ PushUnchanged
  BY DEF PushDb, Pushing
<1>1. PICK g \in Gateway :
     \/ /\ push.dbs = {}
        /\ push' = [push EXCEPT !.gws = @ \ {g}]
        /\ op' = [op EXCEPT !.phase = "pushGateway"]
        /\ UNCHANGED <<store, faults>>
     \/ \E d \in Database :
        \/ /\ TellsDb(d)
           /\ op' = [op EXCEPT !.phase = "pushUsers"]
           /\ UNCHANGED faults
        \/ Refused
        \/ Unreachable(g)
  BY Zenon DEF PushDb, TellsDb, CreatedOrKept
<1>2. CASE Refused \/ Unreachable(g)
  BY <1>0, <1>2, GatewayServed, PushFailing
<1>3. CASE /\ push.dbs = {}
           /\ push' = [push EXCEPT !.gws = @ \ {g}]
           /\ op' = [op EXCEPT !.phase = "pushGateway"]
           /\ UNCHANGED <<store, faults>>
  BY <1>0, <1>3, PushDbDone
<1>4. ASSUME NEW d \in Database, TellsDb(d), op' = [op EXCEPT !.phase = "pushUsers"],
             UNCHANGED faults
      PROVE  GwInv'
  BY <1>0, <1>4, PushDbOne
<1> QED
  BY <1>1, <1>2, <1>3, <1>4

\* Both ends of PushUsers: the database is served or was not online.
LEMMA PushUsersEnd ==
  ASSUME GwInv, op.phase = "pushUsers", PushUnchanged, NEW d \in Database, NEW skipped,
         push.skipped \subseteq skipped, op' = [op EXCEPT !.phase = "pushDb"],
         faults' \in 0..MaxFaults, IsPush(push'),
         /\ push'.cfg = push.cfg /\ push'.given = push.given /\ push'.gws = push.gws /\ push'.dbs = push.dbs \ {d}
         /\ push'.exist = push.exist /\ push'.roles = push.roles /\ push'.users = push.users
         /\ push'.orig = push.orig /\ push'.skipped = skipped,
         store' \in [Dbs -> Databases],
         \A e \in Dbs \ {d} : store'[e] = store[e],
         /\ store'[d].exists = store[d].exists /\ store'[d].of = store[d].of
         /\ store'[d].oidc = store[d].oidc,
         /\ store[d].users \subseteq store'[d].users
         /\ store[d].roles \subseteq store'[d].roles
         /\ store'[d].users \subseteq
              store[d].users \cup (IF "users" \in push.exist THEN {push.users} ELSE {})
         /\ store'[d].roles \subseteq
              store[d].roles \cup (IF "roles" \in push.exist THEN {push.roles} ELSE {}),
         \/ d \in skipped
         \/ /\ "users" \in push.exist => push.users \in store'[d].users
            /\ "roles" \in push.exist => push.roles \in store'[d].roles
  PROVE  GwInv'
<1>0. op.phase \in Pushing
  BY DEF Pushing
<1>1. /\ PushTypeOK(op, push) /\ UsersOK(op, push, store) /\ OidcOK(op, push, store)
      /\ TakenOK(op, push, store)
      /\ ~mixed => PartsOK(op, push) /\ ToldOK(op, push, store)
      /\ StoreOK(store, mixed)
  BY <1>0, PushState
<1>2. op'.phase = "pushDb" /\ op'.targets = op.targets
  BY <1>0, PushPhase DEF Pushing
<1>3. Foremost(DbList, push.dbs) = {d} /\ d \in push.dbs
  BY ForemostOne DEF Database
<1>4. Current(op, push) = {d} /\ Rest(op, push) = push.dbs \ {d}
  BY <1>3 DEF Current, Rest
<1>5. Current(op', push') = {} /\ Rest(op', push') = push.dbs \ {d}
  BY <1>2 DEF Current, Rest
<1>6. d \in Dbs /\ DOMAIN push.cfg \subseteq Dbs /\ push.dbs \subseteq DOMAIN push.cfg
  BY <1>1, <1>3 DEF PushTypeOK
<1>7. PushTypeOK(op', push')
  BY <1>1, <1>2 DEF PushTypeOK
<1>8. StoreOK(store', mixed)
  <2>1. ASSUME ~mixed PROVE store'[d].users \cup store'[d].roles \subseteq {d}
    <3>1. store[d].users \cup store[d].roles \subseteq {d}
      BY <1>1, <1>6, <2>1 DEF StoreOK
    <3>2. /\ "users" \in push.exist => push.users = d
          /\ "roles" \in push.exist => push.roles = d
      BY <1>1, <1>4, <2>1 DEF PartsOK
    <3> QED
      BY <3>1, <3>2
  <2>2. store'[d].exists
    BY <1>1, <1>3, <1>4, <1>6 DEF TakenOK
  <2> QED
    BY <1>1, <2>1, <2>2 DEF StoreOK
<1>9. \A e \in Dbs : /\ store[e].exists => store'[e].exists
                     /\ store'[e].of = store[e].of /\ (store[e].oidc => store'[e].oidc)
                     /\ store[e].users \subseteq store'[e].users
                     /\ store[e].roles \subseteq store'[e].roles
  OBVIOUS
<1>10. UsersOK(op', push', store') /\ TakenOK(op', push', store')
  <2>1. ASSUME NEW e \in DOMAIN push.cfg
        PROVE  /\ "users" \in push.given[e] =>
                    "users" \in push.cfg[e] \/ e \in skipped \/ e \in store'[e].users
               /\ "roles" \in push.given[e] =>
                    "roles" \in push.cfg[e] \/ e \in skipped \/ e \in store'[e].roles
    <3>1. /\ "users" \in push.given[e] =>
               \/ "users" \in push.cfg[e] \/ e \in push.skipped \/ e \in store[e].users
               \/ e = d /\ "users" \in push.exist /\ push.users = d
          /\ "roles" \in push.given[e] =>
               \/ "roles" \in push.cfg[e] \/ e \in push.skipped \/ e \in store[e].roles
               \/ e = d /\ "roles" \in push.exist /\ push.roles = d
      BY <1>1, <1>4 DEF UsersOK
    <3> QED
      BY <1>6, <1>9, <3>1
  <2>2. UsersOK(op', push', store')
    BY <2>1 DEF UsersOK
  <2>3. TakenOK(op', push', store')
    BY <1>1, <1>2, <1>4, <1>5, <1>6, <1>9 DEF TakenOK
  <2> QED
    BY <2>2, <2>3
<1>11. OidcOK(op', push', store')
  <2>1. push.orig # "" => push.orig \in Dbs
    BY <1>1, <1>6 DEF PushTypeOK
  <2> QED
    BY <1>1, <1>2, <1>4, <1>5, <1>9, <2>1 DEF OidcOK
<1>12. ASSUME ~mixed PROVE PartsOK(op', push') /\ ToldOK(op', push', store')
  <2>1. PartsOK(op', push')
    BY <1>1, <1>4, <1>5, <1>12 DEF PartsOK
  <2>2. ToldOK(op', push', store')
    BY <1>1, <1>2, <1>4, <1>5, <1>6, <1>9, <1>12 DEF ToldOK
  <2> QED
    BY <2>1, <2>2
<1>13. PushOK(op', push', store', mixed)
  BY <1>2, <1>7, <1>10, <1>11, <1>12 DEF PushOK
<1> QED
  BY <1>0, <1>8, <1>13, PushStep DEF Pushing

LEMMA PushUsersKeeps == ASSUME GwInv, PushUsers PROVE GwInv'
<1>0. op.phase = "pushUsers" /\ op.phase \in Pushing /\ PushUnchanged
  BY DEF PushUsers, Pushing
<1>1. PICK g \in Gateway, d \in Database :
     \/ /\ store' = [store EXCEPT
              ![d].roles = IF "roles" \in push.exist THEN @ \cup {push.roles} ELSE @,
              ![d].users = IF "users" \in push.exist THEN @ \cup {push.users} ELSE @]
        /\ push' = [push EXCEPT !.dbs = @ \ {d}]
        /\ op' = [op EXCEPT !.phase = "pushDb"]
        /\ UNCHANGED faults
     \/ /\ faults < MaxFaults /\ faults' = faults + 1
        /\ push' = [push EXCEPT !.dbs = @ \ {d}, !.skipped = @ \cup {d}]
        /\ op' = [op EXCEPT !.phase = "pushDb"]
        /\ UNCHANGED store
     \/ Refused
     \/ Unreachable(g)
  BY DEF PushUsers
<1>2. /\ PushTypeOK(op, push) /\ IsPush(push) /\ store \in [Dbs -> Databases]
      /\ DOMAIN push.cfg \subseteq Dbs
  BY <1>0, PushState DEF PushTypeOK, StoreOK
<1>3. d \in Dbs
  BY <1>2, ForemostOne DEF Database, PushTypeOK
<1>4. CASE Refused \/ Unreachable(g)
  BY <1>0, <1>4, GatewayServed, PushFailing
<1>5. CASE /\ store' = [store EXCEPT
              ![d].roles = IF "roles" \in push.exist THEN @ \cup {push.roles} ELSE @,
              ![d].users = IF "users" \in push.exist THEN @ \cup {push.users} ELSE @]
           /\ push' = [push EXCEPT !.dbs = @ \ {d}]
           /\ op' = [op EXCEPT !.phase = "pushDb"]
           /\ UNCHANGED faults
  <2> DEFINE R == store[d].roles \cup (IF "roles" \in push.exist THEN {push.roles} ELSE {})
             U == store[d].users \cup (IF "users" \in push.exist THEN {push.users} ELSE {})
             x == [store[d] EXCEPT !.roles = R, !.users = U]
  <2>1. push' = [cfg |-> push.cfg, given |-> push.given, gws |-> push.gws, dbs |-> push.dbs \ {d},
                 exist |-> push.exist, roles |-> push.roles, users |-> push.users,
                 orig |-> push.orig, skipped |-> push.skipped]
    BY <1>2, <1>5 DEF IsPush
  <2>2. /\ push'.cfg = push.cfg /\ push'.given = push.given /\ push'.gws = push.gws /\ push'.dbs = push.dbs \ {d}
        /\ push'.exist = push.exist /\ push'.roles = push.roles /\ push'.users = push.users
        /\ push'.orig = push.orig /\ push'.skipped = push.skipped /\ IsPush(push')
    BY <2>1, PushRecord
  <2>3. store[d] \in Databases
    BY <1>2, <1>3
  <2>4. R \in SUBSET Dbs /\ U \in SUBSET Dbs
    <3>1. ("users" \in push.exist => push.users \in Dbs)
          /\ ("roles" \in push.exist => push.roles \in Dbs)
      BY <1>2 DEF PushTypeOK
    <3>2. store[d].users \subseteq Dbs /\ store[d].roles \subseteq Dbs
      BY <2>3 DEF Databases
    <3> QED
      BY <3>1, <3>2
  <2>5. store' = [store EXCEPT ![d] = x]
    <3>1. R = IF "roles" \in push.exist THEN store[d].roles \cup {push.roles} ELSE store[d].roles
      OBVIOUS
    <3>2. U = IF "users" \in push.exist THEN store[d].users \cup {push.users} ELSE store[d].users
      OBVIOUS
    <3> HIDE DEF R, U
    <3> QED
      BY <1>2, <1>3, <1>5, <2>3, <3>1, <3>2 DEF Databases
  <2>6. ("users" \in push.exist => push.users \in U) /\ ("roles" \in push.exist => push.roles \in R)
    OBVIOUS
  <2> HIDE DEF R, U
  <2>7. /\ x \in Databases /\ x.exists = store[d].exists /\ x.of = store[d].of
        /\ x.oidc = store[d].oidc /\ x.users = U /\ x.roles = R
    BY <2>3, <2>4 DEF Databases
  <2> HIDE DEF x
  <2>8. /\ store' \in [Dbs -> Databases] /\ store'[d] = x
        /\ \A e \in Dbs \ {d} : store'[e] = store[e]
    BY <1>2, <1>3, <2>5, <2>7
  <2>9. store[d].users \subseteq U /\ store[d].roles \subseteq R
    BY DEF U, R
  <2>10. faults' \in 0..MaxFaults /\ push.skipped \subseteq push.skipped
    BY <1>5, Apart
  <2> QED
    BY <1>0, <1>5, <2>2, <2>6, <2>7, <2>8, <2>9, <2>10, PushUsersEnd DEF U, R
<1>6. CASE /\ faults < MaxFaults /\ faults' = faults + 1
           /\ push' = [push EXCEPT !.dbs = @ \ {d}, !.skipped = @ \cup {d}]
           /\ op' = [op EXCEPT !.phase = "pushDb"]
           /\ UNCHANGED store
  <2>1. push' = [cfg |-> push.cfg, given |-> push.given, gws |-> push.gws, dbs |-> push.dbs \ {d},
                 exist |-> push.exist, roles |-> push.roles, users |-> push.users,
                 orig |-> push.orig, skipped |-> push.skipped \cup {d}]
    BY <1>2, <1>6 DEF IsPush
  <2>2. /\ push'.cfg = push.cfg /\ push'.given = push.given /\ push'.gws = push.gws /\ push'.dbs = push.dbs \ {d}
        /\ push'.exist = push.exist /\ push'.roles = push.roles /\ push'.users = push.users
        /\ push'.orig = push.orig /\ push'.skipped = push.skipped \cup {d} /\ IsPush(push')
    BY <2>1, PushRecord
  <2>3. faults' \in 0..MaxFaults
    BY <1>6, Apart, OneMoreFault
  <2>4. /\ store' \in [Dbs -> Databases]
        /\ \A e \in Dbs \ {d} : store'[e] = store[e]
        /\ store'[d] = store[d]
    BY <1>2, <1>6
  <2>5. push.skipped \subseteq push.skipped \cup {d} /\ d \in push.skipped \cup {d}
    OBVIOUS
  <2> QED
    BY <1>0, <1>6, <2>2, <2>3, <2>4, <2>5, PushUsersEnd
<1> QED
  BY <1>1, <1>4, <1>5, <1>6

-----------------------------------------------------------------------------
(* The invariant and what follows from it                                  *)

LEMMA GwInit == Init => GwInv
<1> SUFFICES ASSUME Init PROVE GwInv
  OBVIOUS
<1> DEFINE file == IF Persistent(cfgVersion, flags)
                   THEN Bootstrap(flags, cfgVersion, SetupServerVars(flags, cfgVersion))
                   ELSE File(flags, cfgVersion, InstallVars(flags, cfgVersion))
<1>1. /\ flags \in ConfigFlags /\ cfgVersion \in Versions /\ cbs \in CbsVersions
      /\ server = cbs /\ kw = "couchbase" /\ made = flags
      /\ push = NoPush /\ store = [d \in Dbs |-> Absent] /\ loaded = NoFile
      /\ nops = 0 /\ faults = 0 /\ cfgVersion \in Nat
  BY VersionsNat DEF Init, ConfigFlags, Dbs
<1>2. mixed \in BOOLEAN
  BY DEF Init
<1>3. WorldOK
  <2>2. GoodLoaded(loaded)
    BY <1>1 DEF GoodLoaded
  <2>3. nops \in 0..MaxOps /\ faults \in 0..MaxFaults
    BY <1>1, BoundsNat
  <2> QED
    BY <1>1, <1>2, <2>2, <2>3 DEF WorldOK
<1>4. GoodFile(file) /\ file.f \in FileFlags
  <2>0. flags \in FileFlags
    BY <1>1 DEF FileFlags
  <2>1. /\ GoodFile(Bootstrap(flags, cfgVersion, SetupServerVars(flags, cfgVersion)))
        /\ Bootstrap(flags, cfgVersion, SetupServerVars(flags, cfgVersion)).f \in FileFlags
    BY <1>1, <2>0, PersistentCore, BootstrapGood
  <2>2. /\ GoodFile(File(flags, cfgVersion, InstallVars(flags, cfgVersion)))
        /\ File(flags, cfgVersion, InstallVars(flags, cfgVersion)).f \in FileFlags
    BY <1>1, <2>0, InstallCore, FileGood
  <2> QED
    BY <2>1, <2>2
<1>5. host = [h \in Hosts |-> [up |-> TRUE, version |-> cfgVersion,
                               file |-> IF h \in Gws THEN file ELSE NoFile,
                               running |-> IF h \in Gws THEN file ELSE NoFile]]
  BY DEF Init
<1> HIDE DEF file
<1>6. HostsOK(host)
  <2>1. \A h \in Hosts : /\ host[h].up = TRUE /\ host[h].version = cfgVersion
                         /\ host[h].file = (IF h \in Gws THEN file ELSE NoFile)
                         /\ IsHost(host[h])
    BY <1>5 DEF IsHost
  <2>2. \A h \in Hosts : host[h].up /\ host[h].up \in BOOLEAN
    BY <2>1
  <2>3. DOMAIN host = Hosts /\ Gws \subseteq Hosts
    BY <1>5 DEF Hosts
  <2>4. \A h \in Hosts : HostOK(host[h])
    BY <1>1, <1>4, <2>1, <2>2 DEF HostOK
  <2> QED
    BY <1>4, <2>1, <2>3, <2>4 DEF HostsOK
<1>7. op = [name |-> "none", targets |-> {}, version |-> 0, import |-> FALSE, old |-> 0,
            file |-> NoFile, todo |-> <<>>, phase |-> "idle", kind |-> "none"]
  BY DEF Init
<1>8. /\ op.name = "none" /\ op.targets = {} /\ op.version = 0 /\ op.file = NoFile
      /\ op.todo = <<>> /\ op.phase = "idle" /\ op.kind = "none" /\ IsOp(op)
  BY <1>7 DEF IsOp
<1>9. OpOK(op)
  <2>1. <<>> \in Seq(Gws)
    OBVIOUS
  <2> QED
    BY <1>8, <2>1 DEF OpOK, Phs, Kinds, Pushing, Senders
<1>10. UpgradeOK(op, host) /\ RunsOK(op, host) /\ ProvisionOK(op, host, server, cfgVersion, cbs)
  BY <1>8 DEF UpgradeOK, RunsOK, ProvisionOK
<1>11. StoreOK(store, mixed)
  <2>1. Absent \in Databases /\ Absent.users = {} /\ Absent.roles = {}
    BY DEF Absent, Databases
  <2> QED
    BY <1>1, <2>1 DEF StoreOK
<1>12. PushOK(op, push, store, mixed)
  BY <1>8 DEF PushOK, Pushing
<1> QED
  BY <1>3, <1>6, <1>9, <1>10, <1>11, <1>12 DEF GwInv

LEMMA GwNext == GwInv /\ [Next]_gwvars => GwInv'
<1> SUFFICES ASSUME GwInv, [Next]_gwvars PROVE GwInv'
  OBVIOUS
<1>1. CASE UNCHANGED gwvars
  <2>1. UNCHANGED <<flags, cfgVersion, cbs, server, kw, made, host, op, push, store, mixed,
                    loaded, nops, faults>>
    BY <1>1 DEF gwvars
  <2>2. WorldOK'
    BY <2>1 DEF GwInv, WorldOK
  <2> QED
    BY <2>1, <2>2, Apart, Together
<1>2. CASE Next
  <2>1. CASE Calls
    BY <2>1, CallsKeep
  <2>2. CASE LoadConfig
    BY <2>2, LoadKeeps
  <2>3. CASE ProvisionCluster
    BY <2>3, ProvisionKeeps
  <2>4. CASE CleanCluster
    BY <2>4, CleanKeeps
  <2>5. CASE InstallServer
    BY <2>5, InstallServerKeeps
  <2>6. CASE InstallNginx \/ UpgradeTurn \/ BlockPorts \/ Forwarder
    BY <2>6, PhasesKeep
  <2>7. CASE RunPlaybook
    BY <2>7, PlaybookKeeps
  <2>8. CASE Verify
    BY <2>8, VerifyKeeps
  <2>9. CASE PushGateway
    BY <2>9, PushGatewayKeeps
  <2>10. CASE PushDb
    BY <2>10, PushDbKeeps
  <2>11. CASE PushUsers
    BY <2>11, PushUsersKeeps
  <2>12. CASE PersistFlags \/ NewCluster
    BY <2>12, TestsKeep
  <2>13. CASE Dies
    BY <2>13, DiesKeeps
  <2> QED
    BY <1>2, <2>1, <2>2, <2>3, <2>4, <2>5, <2>6, <2>7, <2>8, <2>9, <2>10, <2>11, <2>12, <2>13
       DEF Next, Calls
<1> QED
  BY <1>1, <1>2

\* The invariant holds in every state of every run.
THEOREM GatewaysInvariant == GatewaySpec => []GwInv
<1> QED
  BY GwInit, GwNext, PTL DEF GatewaySpec

-----------------------------------------------------------------------------
(* What follows for the properties of the runs                             *)

LEMMA FilesAreGood ==
  ASSUME GwInv, NEW x \in Files
  PROVE  GoodFile(x) /\ (x.persistent => x.v >= 300)
<1>1. PICK g \in Gws : x = host[g].file /\ x # NoFile
  BY DEF Files
<1> QED
  BY <1>1 DEF Files, GwInv, HostsOK

LEMMA TypesHold == GwInv => GatewayTypeOK
<1> SUFFICES ASSUME GwInv PROVE GatewayTypeOK
  OBVIOUS
<1>1. /\ flags \in ConfigFlags /\ cfgVersion \in Versions /\ cbs \in CbsVersions
      /\ server \in CbsVersions \cup {0}
      /\ kw \in {"couchbase", "couchbases"}
      /\ made \in ConfigFlags
      /\ nops \in 0..MaxOps /\ faults \in 0..MaxFaults
  BY DEF GwInv, WorldOK
<1>2. \A h \in Hosts : /\ host[h].up \in BOOLEAN /\ host[h].version \in Versions \cup {0}
                       /\ host[h].running # NoFile => host[h].up
                       /\ host[h].file # NoFile => host[h].file.f \in FileFlags
  BY DEF GwInv, HostsOK, HostOK
<1>3. op.phase \in Phs
  BY DEF GwInv, OpOK
<1>4. ASSUME NEW d \in DOMAIN store
      PROVE  store[d].users \cup store[d].roles \subseteq DOMAIN store
  <2>1. store \in [Dbs -> Databases] /\ DOMAIN store = Dbs
    BY DEF GwInv, StoreOK
  <2>2. store[d] \in Databases
    BY <2>1, <1>4
  <2> QED
    BY <2>1, <2>2 DEF Databases
<1> QED
  BY <1>1, <1>2, <1>3, <1>4 DEF GatewayTypeOK, Phs

LEMMA CopiesDoAgree == GwInv => CopiesAgree
<1> SUFFICES ASSUME GwInv, NEW x \in Files, NEW y \in Files,
                    x.f = y.f, x.v = y.v, x.cbs >= 500, y.cbs >= 500
             PROVE  Core(x.vars) = Core(y.vars)
  BY DEF CopiesAgree
<1>1. Core(x.vars) = Core(CommonVars(x.f, x.v, "couchbase"))
  BY FilesAreGood DEF GoodFile
<1>2. Core(y.vars) = Core(CommonVars(y.f, y.v, "couchbase"))
  BY FilesAreGood DEF GoodFile
<1> QED
  BY <1>1, <1>2

\* What two settings have in common that have the same core.
LEMMA CoreParts ==
  ASSUME NEW a, NEW b, Core(a) = Core(b)
  PROVE  /\ a.allow = b.allow /\ a.revs = b.revs /\ a.delta = b.delta
         /\ (a.xattrs = "true") = (b.xattrs = "true")
<1>1. Core(a).allow = Core(b).allow /\ Core(a).revs = Core(b).revs
      /\ Core(a).delta = Core(b).delta /\ Core(a).shared = Core(b).shared
  OBVIOUS
<1>2. \A z : /\ Core(z).allow = z.allow /\ Core(z).revs = z.revs /\ Core(z).delta = z.delta
             /\ Core(z).shared = (z.xattrs = "true")
  BY DEF Core
<1> QED
  BY <1>1, <1>2, Zenon

LEMMA LoadedDoesAgree == GwInv => LoadedAgrees
<1> SUFFICES ASSUME GwInv, loaded # NoFile, NEW x \in Files,
                    x.f = loaded.f, x.v = loaded.v, x.cbs >= 500
             PROVE  /\ x.vars.allow = loaded.vars.allow /\ x.vars.revs = loaded.vars.revs
                    /\ x.vars.delta = loaded.vars.delta
                    /\ (x.vars.xattrs = "true") = (loaded.vars.xattrs = "true")
  BY DEF LoadedAgrees
<1> DEFINE c == CommonVars(x.f, x.v, "couchbase")
<1>1. Core(x.vars) = Core(c)
  BY FilesAreGood DEF GoodFile
<1>2. /\ loaded.vars.allow = c.allow /\ loaded.vars.revs = c.revs
      /\ loaded.vars.delta = c.delta
      /\ (loaded.vars.xattrs = "true") = (c.xattrs = "true")
  BY Zenon DEF GwInv, WorldOK, GoodLoaded
<1> HIDE DEF c
<1>3. /\ x.vars.allow = c.allow /\ x.vars.revs = c.revs /\ x.vars.delta = c.delta
      /\ (x.vars.xattrs = "true") = (c.xattrs = "true")
  BY <1>1, CoreParts
<1> QED
  BY <1>2, <1>3, Zenon

\* FilesRight: for every set of flags and versions, and after any history of
\* operations, failed ones included, the files that the copies in syncgateway.py,
\* SyncGateway.py, install_sync_gateway.py and cluster.py rendered agree in what
\* they share, and with the configuration handed to a test; none talks in the clear
\* to a server that asks for TLS.
THEOREM GatewaysFilesRight == GatewaySpec => []FilesRight
<1>1. GwInv => EncryptedServer
  BY FilesAreGood DEF EncryptedServer, GoodFile
<1>2. GwInv => FilesRight
  BY <1>1, TypesHold, CopiesDoAgree, LoadedDoesAgree DEF FilesRight
<1> QED
  BY <1>2, GatewaysInvariant, PTL

\* RunsItsFile: reset, redeployment, upgrade, restart and installation that returned
\* leave no gateway running with the file it had before.
THEOREM GatewaysRunTheirFiles == GatewaySpec => []RunsItsFile
<1>1. GwInv => RunsItsFile
  BY DEF GwInv, RunsOK, RunsFiles, RunsItsFile
<1> QED
  BY <1>1, GatewaysInvariant, PTL

\* UpgradeInOrder: the loop of upgrade_sync_gateway has upgraded all gateways before
\* the one it stops at, and all of them if it returns.
THEOREM UpgradesInOrder == GatewaySpec => []UpgradeInOrder
<1>1. GwInv => UpgradeInOrder
  BY DEF GwInv, UpgradeOK, UpgradeInOrder
<1> QED
  BY <1>1, GatewaysInvariant, PTL

LEMMA NothingPushed == NoPush.cfg = <<>>
BY DEF NoPush

\* PushRight: send_dbconfig_as_restCall that returned has given every database that
\* was online the users and the roles it was handed for it, although the first gateway
\* takes them out of the dictionary that all share; nothing of another database as
\* long as none lacks a part an earlier one has; and the last database keeps its OpenID
\* Connect part if there is one gateway.
THEOREM PushesRight == GatewaySpec => []PushRight
<1>1. GwInv => PushExact
  <2> SUFFICES ASSUME GwInv, op.phase = "ok", push.cfg # <<>>, NEW d \in DOMAIN push.cfg
               PROVE  /\ store[d].exists
                      /\ d \notin push.skipped =>
                           /\ "users" \in push.given[d] => d \in store[d].users
                           /\ "roles" \in push.given[d] => d \in store[d].roles
                      /\ ~mixed => /\ store[d].of = d
                                   /\ store[d].users \cup store[d].roles \subseteq {d}
    BY DEF PushExact
  <2>1. push # NoPush
    BY NothingPushed
  <2>2. /\ DOMAIN push.cfg \subseteq Dbs
        /\ ~mixed => \A e \in DOMAIN push.cfg : store[e].of = e
        /\ \A e \in DOMAIN push.cfg : store[e].exists
        /\ \A e \in DOMAIN push.cfg \ push.skipped :
             /\ "users" \in push.given[e] => e \in store[e].users
             /\ "roles" \in push.given[e] => e \in store[e].roles
    BY <2>1 DEF GwInv, PushOK
  <2>3. ~mixed => store[d].users \cup store[d].roles \subseteq {d}
    BY <2>2 DEF GwInv, StoreOK
  <2> QED
    BY <2>2, <2>3
<1>2. GwInv => OidcKept
  <2> SUFFICES ASSUME GwInv, op.phase = "ok", push.cfg # <<>>,
                      op.targets \in {{g} : g \in Gws}, push.orig # ""
               PROVE  store[push.orig].oidc
    BY DEF OidcKept
  <2>1. push # NoPush
    BY NothingPushed
  <2> QED
    BY <2>1 DEF GwInv, PushOK
<1>3. GwInv => PushRight
  BY <1>1, <1>2 DEF PushRight
<1> QED
  BY <1>3, GatewaysInvariant, PTL

\* Provisioned: a provision_cluster that returned has the versions it wrote to the
\* cluster configuration on the server, the gateways and the accelerators, and the
\* gateways run with the file it rendered.
THEOREM ProvisionedRight == GatewaySpec => []Provisioned
<1>1. GwInv => Provisioned
  <2> SUFFICES ASSUME GwInv, op.name = "provision", op.phase = "ok"
               PROVE  /\ server = cbs
                      /\ \A h \in Hosts : host[h].version = cfgVersion
                      /\ \A g \in Gws : /\ host[g].file = op.file
                                        /\ host[g].up => host[g].running = op.file
    BY DEF Provisioned
  <2>1. /\ op.kind = "installAccel" /\ server = cbs
        /\ \A h \in Hosts : host[h].version = cfgVersion
        /\ \A g \in Gws : host[g].file = op.file
    BY DEF GwInv, ProvisionOK
  <2>2. op.targets = Gws
    BY DEF GwInv, OpOK
  <2>3. \A g \in Gws : host[g].up => host[g].running = host[g].file
    BY <2>1, <2>2 DEF GwInv, RunsOK, RunsFiles
  <2> QED
    BY <2>1, <2>3
<1> QED
  BY <1>1, GatewaysInvariant, PTL

\* NewFileRuns: wherever a reset, a redeployment, an upgrade or an installation fails, it
\* leaves no gateway running with the file before the one it deployed.
THEOREM NewFilesRun == GatewaySpec => NewFileRuns
<1> DEFINE A == \A g \in Gws :
             host'[g].file # host[g].file /\ host'[g].up /\ op.kind \notin {"start", "deployOnly"}
               => host'[g].running = host'[g].file
<1>1. GwInv /\ [Next]_gwvars => [A]_gwvars
  <2> SUFFICES ASSUME GwInv, Next, NEW g \in Gws, host'[g].file # host[g].file, host'[g].up,
                      op.kind \notin {"start", "deployOnly"}
               PROVE  host'[g].running = host'[g].file
    OBVIOUS
  <2>0. HostsOK(host) /\ OpOK(op) /\ g \in Hosts /\ IsHost(host[g]) /\ g \notin Accels
    BY Apart, GatewayAssumption DEF HostsOK, HostOK, Hosts
  <2>1. CASE UNCHANGED host
    BY <2>1
  <2>2. CASE RunPlaybook
    <3>1. PICK failAt \in FailAts : host' = AfterPlaybook(op.kind, PlayTargets, failAt)
      BY <2>2 DEF RunPlaybook
    <3>2. op.phase = "playbook"
      BY <2>2 DEF RunPlaybook
    <3>3. /\ op.kind \in Kinds \ {"none"} /\ PlayTargets \in SUBSET Hosts
          /\ failAt \in [PlayTargets -> 1..(MaxPhases + 1)]
      BY <2>0, <3>2 DEF OpOK, PlayTargets, Hosts, FailAts
    <3>4. g \in PlayTargets
      BY <2>0, <3>1 DEF AfterPlaybook
    <3>5. op.kind # "installAccel"
      BY <2>0, <3>4 DEF PlayTargets
    <3>6. op.kind \notin {"stop", "restart", "upgradeOnly"}
      BY <2>0, <3>1, <3>3, FilesKept
    <3>7. op.kind \in {"reset", "clusterReset", "deploy", "upgrade", "install"}
      BY <3>3, <3>5, <3>6 DEF Kinds
    <3>8. host'[g] = host[g] \/ Fresh(host'[g])
      BY <2>0, <3>1, <3>3, <3>4, <3>7, AfterAny
    <3> QED
      BY <3>8 DEF Fresh
  <2>3. CASE CleanCluster
    <3>1. PICK cleaned \in SUBSET Gws :
            host' = [h \in Hosts |->
                       IF h \in cleaned
                       THEN [up |-> FALSE, version |-> 0, file |-> NoFile, running |-> NoFile]
                       ELSE host[h]]
      BY <2>3 DEF CleanCluster
    <3>2. host'[g] = host[g] \/ host'[g].up = FALSE
      BY <2>0, <3>1
    <3> QED
      BY <3>2
  <2>4. CASE BlockPorts
    <3>1. host' = host \/ host' = [h \in Hosts |-> [host[h] EXCEPT !.up = FALSE, !.running = NoFile]]
      BY <2>4 DEF BlockPorts
    <3>2. host'[g] = host[g] \/ host'[g] = [host[g] EXCEPT !.up = FALSE, !.running = NoFile]
      BY <2>0, <3>1
    <3>3. [host[g] EXCEPT !.up = FALSE, !.running = NoFile].file = host[g].file
      BY <2>0, StoppedHost
    <3> QED
      BY <3>2, <3>3
  <2>5. CASE Dies
    <3>1. PICK h \in Gws : host' = [host EXCEPT ![h].up = FALSE, ![h].running = NoFile]
      BY <2>5 DEF Dies
    <3>2. DOMAIN host = Hosts /\ h \in Hosts /\ IsHost(host[h])
      BY <2>0, Apart DEF HostsOK, HostOK, Hosts
    <3>3. host' = [host EXCEPT ![h] = [host[h] EXCEPT !.up = FALSE, !.running = NoFile]]
      BY <3>1, <3>2 DEF IsHost
    <3>4. [host[h] EXCEPT !.up = FALSE, !.running = NoFile].file = host[h].file
      BY <3>2, StoppedHost
    <3>5. CASE g = h
      BY <2>0, <3>2, <3>3, <3>4, <3>5
    <3>6. CASE g # h
      BY <2>0, <3>2, <3>3, <3>6
    <3> QED
      BY <3>5, <3>6
  <2>6. Calls => UNCHANGED host
    BY DEF Calls, TkStop, TkStart, TkRestart, AccelStop, AccelStart, StartSyncGateways,
           StopSyncGateways, RestartSyncGateways, UpgradeSyncGateways, UpgradeSyncGateway,
           RedeploySyncGatewayConfig, InstallSyncGateway, ResetCluster, Begin
  <2>7. LoadConfig \/ ProvisionCluster \/ InstallServer \/ InstallNginx \/ UpgradeTurn
          \/ Forwarder \/ Verify \/ PersistFlags \/ NewCluster => UNCHANGED host
    BY DEF LoadConfig, ProvisionCluster, InstallServer, InstallNginx, UpgradeTurn, Forwarder,
           Verify, PersistFlags, NewCluster
  <2>8. PushGateway \/ PushDb \/ PushUsers => UNCHANGED host
    BY DEF PushGateway, PushDb, PushUsers, PushUnchanged
  <2> QED
    BY <2>1, <2>2, <2>3, <2>4, <2>5, <2>6, <2>7, <2>8 DEF Next, Calls
<1>2. GatewaySpec => [][A]_gwvars
  BY <1>1, GatewaysInvariant, PTL DEF GatewaySpec
<1> QED
  BY <1>2 DEF NewFileRuns
=============================================================================
