-------------------------- MODULE ClusterResetProofs --------------------------
(***************************************************************************)
(* Theorems about Cluster.reset and the bucket operations it calls, for    *)
(* every set of gateways, accelerators and buckets, every configuration,   *)
(* every fault that the constants allow and every bound on the retries.    *)
(***************************************************************************)
EXTENDS ClusterReset, FiniteSetTheorems, WellFoundedInduction, TLAPS

-----------------------------------------------------------------------------
(* Types: counters stay within their bounds                                *)

\* A request is repeated only while tries are left, a round is begun only while rounds
\* are left, and who works on a bucket has one at hand.
CountersOK ==
    /\ pc \in {"names", "verify", "existing", "delete", "adduser"} => tries < MaxTries
    /\ pc \in {"index", "prepareds", "indexes"} => tries < MaxPolls
    /\ pc \in {"names", "each", "user", "delete"} => round < MaxRounds
    /\ pc = "ram" => todo # {}
    /\ pc \in {"user", "delete", "adduser", "ready"} => cur \in Buckets

\* The memory is divided among at least one bucket.
LEMMA RamShared ==
    ASSUME TypeOK, CountersOK, pc = "ram"
    PROVE  Ram \div Cardinality(todo) \in 0..Ram
<1>1. IsFiniteSet(todo) /\ todo # {}
  BY FS_Subset, AdminAssumption DEF TypeOK, CountersOK
<1>2. Cardinality(todo) \in Nat \ {0}
  BY <1>1, FS_CardinalityType, FS_EmptySet
<1>3. \A k \in Nat \ {0}, n \in Nat : n \div k \in 0..n
  OBVIOUS
<1> QED
  BY <1>2, <1>3, AdminAssumption

\* A step of delete_buckets or create_buckets keeps the types.
LEMMA OpTypes ==
    ASSUME TypeOK, CountersOK, OpStep
    PROVE  TypeOK' /\ CountersOK'
<1> USE AdminAssumption DEF TypeOK, CountersOK, At, Raise, Places, server
<1>1. CASE GetBucketNames
  <2>1. UNCHANGED <<server, op, wanted, cur, round, ram>>
    BY <1>1 DEF GetBucketNames
  <2>2. CASE pc = "names" /\ todo' = exists /\ fails' = FALSE
             /\ pc' \in {"verify", "each"} /\ tries' = 0
    <3>1. fails' \in BOOLEAN
      BY <2>2
    <3>2. TypeOK'
      BY <2>1, <2>2, <3>1
    <3>3. CountersOK'
      BY <2>1, <2>2
    <3> QED
      BY <3>2, <3>3
  <2>3. CASE pc = "verify" /\ pc' \in {"index", "raised"} /\ tries' = 0
             /\ UNCHANGED <<todo, fails>>
    BY <2>1, <2>3
  <2>4. CASE pc = "existing" /\ todo' = wanted \ exists
             /\ At(IF wanted \subseteq exists THEN "ok" ELSE "ram") /\ UNCHANGED fails
    <3>1. todo' = {} => wanted \subseteq exists
      BY <2>4
    <3> QED
      BY <2>1, <2>4, <3>1
  <2> QED
    BY <1>1, <2>2, <2>3, <2>4 DEF GetBucketNames
<1>2. CASE GetBucketNamesFails
  BY <1>2 DEF GetBucketNamesFails
<1>3. CASE Round
  BY <1>3 DEF Round
<1>4. CASE NextBucket
  BY <1>4 DEF NextBucket
<1>5. CASE VersionFails
  BY <1>5 DEF VersionFails
<1>6. CASE DeleteUser
  <2>1. UNCHANGED <<faulty, exists, dying, quota, indexed, prepared, op, wanted, todo, cur,
                    round, ram>>
    BY <1>6 DEF DeleteUser
  <2>2. CASE users' = users \ {cur} /\ At("delete") /\ UNCHANGED fails
    BY <1>6, <2>1, <2>2 DEF DeleteUser
  <2>3. CASE fails' = TRUE /\ At("each") /\ users' \in {users, users \ {cur}}
    BY <1>6, <2>1, <2>3 DEF DeleteUser
  <2> QED
    BY <1>6, <2>2, <2>3 DEF DeleteUser
<1>7. CASE DeleteUserLost
  BY <1>7 DEF DeleteUserLost
<1>8. CASE DeleteBucket
  BY <1>8 DEF DeleteBucket, ServerDeletes
<1>9. CASE DeleteRefused
  BY <1>9 DEF DeleteRefused, ServerDeletes
<1>10. CASE DeleteLost
  BY <1>10 DEF DeleteLost, ServerDeletes
<1>11. CASE RoundDone
  BY <1>11 DEF RoundDone
<1>12. CASE PollIndex
  BY <1>12 DEF PollIndex
<1>13. CASE Purge
  <2>1. prepared' \in BOOLEAN
    BY <1>13 DEF Purge
  <2> QED
    BY <1>13, <2>1 DEF Purge
<1>14. CASE PollQuery
  BY <1>14 DEF PollQuery
<1>15. CASE ChecksFail
  BY <1>15 DEF ChecksFail
<1>16. CASE GetRamPerBucket
  BY <1>16, RamShared DEF GetRamPerBucket
<1>17. CASE GetRamFails
  BY <1>17 DEF GetRamFails
<1>18. CASE CreateBucket
  BY <1>18 DEF CreateBucket
<1>19. CASE CreateBucketFails
  BY <1>19 DEF CreateBucketFails
<1>20. CASE CreateUser
  BY <1>20 DEF CreateUser
<1>21. CASE CreateUserFails
  BY <1>21 DEF CreateUserFails
<1>22. CASE WaitForReadyState
  BY <1>22 DEF WaitForReadyState
<1>23. CASE CreateDone
  BY <1>23 DEF CreateDone
<1> QED
  BY <1>1, <1>2, <1>3, <1>4, <1>5, <1>6, <1>7, <1>8, <1>9, <1>10, <1>11, <1>12, <1>13, <1>14,
     <1>15, <1>16, <1>17, <1>18, <1>19, <1>20, <1>21, <1>22, <1>23 DEF OpStep

-----------------------------------------------------------------------------
(* The phases of reset                                                     *)

ResetPlaces == {"testing", "stopsg", "stopac", "wipesg", "wipeac", "delete", "deleting",
                "validate", "create", "creating", "ready", "block", "startsg", "startac",
                "pindex", "push", "done", "raised"}

ResetTypeOK ==
    /\ rpc \in ResetPlaces /\ config \in Configs /\ {cpc, admin, calm} \subseteq BOOLEAN
    /\ sg \in [Gateways -> BOOLEAN] /\ ac \in [Accels -> BOOLEAN]
    /\ sgConf \in [Gateways -> {"old", "none", "new"}]
    /\ acConf \in [Accels -> {"old", "none", "new"}]
    /\ pushed \subseteq Gateways

\* While delete_buckets runs: once it has verified that no bucket is left, none is.
Deleting ==
    rpc = "deleting" =>
        /\ pc \in {"round", "names", "each", "user", "delete", "verify", "index", "purge",
                   "prepareds", "indexes", "ok", "raised"}
        /\ pc \in {"index", "purge", "prepareds", "indexes", "ok"} => exists = {}

\* While create_buckets runs: it began on an empty server, so that the buckets that exist
\* are those it has created, each but the one at hand with its user.
Creating ==
    rpc = "creating" =>
        /\ pc \in {"existing", "ram", "create", "adduser", "ready", "ok", "raised"}
        /\ wanted = config.buckets
        /\ pc # "raised" => dying = {}
        /\ pc \in {"existing", "ram"} => exists = {}
        /\ pc = "ram" => todo = wanted
        /\ pc \in {"create", "adduser", "ready"} => exists = wanted \ todo /\ todo \subseteq wanted
        /\ pc \in {"create", "ready"} => exists \subseteq users
        /\ pc = "adduser" => exists \subseteq users \cup {cur}
        /\ pc = "ok" => exists = wanted /\ wanted \subseteq users

\* The buckets, in the phases before and after.
BucketPhases ==
    /\ rpc \in {"validate", "create"} => exists = {}
    /\ rpc \in {"ready", "block", "startsg", "startac", "pindex", "push", "done"} =>
          exists = config.buckets /\ config.buckets \subseteq users /\ dying = {}

\* The hosts: stopped from their playbook on, running what was deployed from the other on.
HostPhases ==
    /\ rpc \in {"stopac", "wipesg", "wipeac", "delete", "deleting", "validate", "create",
                "creating", "ready", "block", "startsg"} => \A g \in Gateways : ~sg[g]
    /\ rpc \in {"startac", "pindex", "push", "done"} =>
          \A g \in Gateways : sg[g] /\ sgConf[g] = "new"
    /\ rpc \in {"wipesg", "wipeac", "delete", "deleting", "validate", "create", "creating",
                "ready", "block", "startsg", "startac"} => \A a \in Accels : ~ac[a]
    /\ rpc \in {"startac", "pindex"} => config.mode = "di"
    /\ rpc \in {"pindex", "push", "done"} => \A a \in Accels : ac[a] <=> config.mode = "di"

\* Persistent configuration: the user, and the databases pushed to every gateway, or to
\* none, since the gateways were started.
CpcPhases ==
    /\ rpc \in {"block", "startsg", "startac", "pindex", "push", "done"} /\ cpc => admin
    /\ rpc \in {"startac", "pindex"} => pushed = {}
    /\ rpc \in {"push", "done"} /\ ~Pushes => pushed = {}
    /\ rpc = "done" /\ Pushes => pushed = Gateways

ResetInv ==
    TypeOK /\ CountersOK /\ ResetTypeOK /\ Deleting /\ Creating /\ BucketPhases /\ HostPhases
    /\ CpcPhases

\* A configuration asks for buckets of the server.
LEMMA ConfigBuckets ==
    ASSUME NEW c \in Configs
    PROVE  c.buckets \subseteq Buckets
BY ResetAssumption

\* A step of delete_buckets or create_buckets, called by reset.
LEMMA ResetOpStep ==
    ASSUME ResetInv, rpc \in {"deleting", "creating"}, OpStep, UNCHANGED reset
    PROVE  ResetInv'
<1>1. TypeOK' /\ CountersOK'
  BY OpTypes DEF ResetInv
<1>2. UNCHANGED <<rpc, config, cpc, sg, sgConf, ac, acConf, admin, pushed, calm, resets>>
  BY DEF reset, hosts
<1>3. ResetTypeOK' /\ HostPhases' /\ CpcPhases' /\ BucketPhases'
  BY <1>2 DEF ResetInv, ResetTypeOK, HostPhases, CpcPhases, Pushes, BucketPhases
<1> USE DEF At, Raise, server
<1>4. Deleting'
  <2> SUFFICES ASSUME rpc = "deleting" PROVE Deleting'
    BY <1>2 DEF Deleting
  <2>1. Deleting
    BY DEF ResetInv
  <2>2. CASE GetBucketNames \/ GetBucketNamesFails
    BY <1>2, <2>1, <2>2 DEF Deleting, GetBucketNames, GetBucketNamesFails
  <2>3. CASE Round \/ NextBucket \/ VersionFails \/ RoundDone
    BY <1>2, <2>1, <2>3 DEF Deleting, Round, NextBucket, VersionFails, RoundDone
  <2>4. CASE DeleteUser \/ DeleteUserLost
    BY <1>2, <2>1, <2>4 DEF Deleting, DeleteUser, DeleteUserLost
  <2>5. CASE DeleteBucket \/ DeleteRefused \/ DeleteLost
    BY <1>2, <2>1, <2>5 DEF Deleting, DeleteBucket, DeleteRefused, DeleteLost
  <2>6. CASE PollIndex \/ Purge \/ PollQuery \/ ChecksFail
    BY <1>2, <2>1, <2>6 DEF Deleting, PollIndex, Purge, PollQuery, ChecksFail
  <2>7. CASE \/ GetRamPerBucket \/ GetRamFails \/ CreateBucket \/ CreateBucketFails
             \/ CreateUser \/ CreateUserFails \/ WaitForReadyState \/ CreateDone
    BY <2>1, <2>7 DEF Deleting, GetRamPerBucket, GetRamFails, CreateBucket, CreateBucketFails,
                      CreateUser, CreateUserFails, WaitForReadyState, CreateDone
  <2> QED
    BY <2>2, <2>3, <2>4, <2>5, <2>6, <2>7 DEF OpStep
<1>5. Creating'
  <2> SUFFICES ASSUME rpc = "creating" PROVE Creating'
    BY <1>2 DEF Creating
  <2>1. Creating
    BY DEF ResetInv
  <2>2. CASE GetBucketNames
    <3>1. pc = "existing" /\ exists = {} /\ wanted = config.buckets /\ dying = {}
      BY <2>1, <2>2 DEF Creating, GetBucketNames
    <3>2. /\ todo' = wanted /\ UNCHANGED <<exists, dying, users, wanted>>
          /\ (pc' = "ok" /\ wanted = {}) \/ pc' = "ram"
      BY <2>2, <3>1 DEF GetBucketNames
    <3> QED
      BY <1>2, <3>1, <3>2 DEF Creating
  <2>3. CASE GetBucketNamesFails \/ GetRamFails
    BY <1>2, <2>1, <2>3 DEF Creating, GetBucketNamesFails, GetRamFails
  <2>4. CASE GetRamPerBucket
    <3>1. pc = "ram" /\ pc' = "create" /\ UNCHANGED <<exists, dying, users, wanted, todo>>
      BY <2>4 DEF GetRamPerBucket
    <3>2. exists = {} /\ todo = wanted
      BY <2>1, <3>1 DEF Creating
    <3> QED
      BY <1>2, <2>1, <3>1, <3>2 DEF Creating
  <2>5. CASE CreateBucket
    <3>1. PICK b \in todo : exists' = exists \cup {b} /\ cur' = b /\ todo' = todo \ {b}
      BY <2>5 DEF CreateBucket
    <3>2. pc = "create" /\ pc' = "adduser" /\ UNCHANGED <<dying, users, wanted>>
      BY <2>5 DEF CreateBucket
    <3>3. exists = wanted \ todo /\ todo \subseteq wanted /\ exists \subseteq users
      BY <2>1, <3>2 DEF Creating
    <3> QED
      BY <1>2, <2>1, <3>1, <3>2, <3>3 DEF Creating
  <2>6. CASE CreateBucketFails
    BY <1>2, <2>1, <2>6 DEF Creating, CreateBucketFails
  <2>7. CASE CreateUser
    BY <1>2, <2>1, <2>7 DEF Creating, CreateUser
  <2>8. CASE CreateUserFails \/ WaitForReadyState
    BY <1>2, <2>1, <2>8 DEF Creating, CreateUserFails, WaitForReadyState
  <2>9. CASE CreateDone
    <3>1. pc = "create" /\ pc' = "ok" /\ todo = {}
          /\ UNCHANGED <<exists, dying, users, wanted, todo>>
      BY <2>9 DEF CreateDone
    <3> QED
      BY <1>2, <2>1, <3>1 DEF Creating
  <2>10. CASE \/ Round \/ NextBucket \/ VersionFails \/ RoundDone \/ DeleteUser
              \/ DeleteUserLost \/ DeleteBucket \/ DeleteRefused \/ DeleteLost \/ PollIndex
              \/ Purge \/ PollQuery \/ ChecksFail
    BY <2>1, <2>10 DEF Creating, Round, NextBucket, VersionFails, RoundDone, DeleteUser,
         DeleteUserLost, DeleteBucket, DeleteRefused, DeleteLost, PollIndex, Purge, PollQuery,
         ChecksFail
  <2> QED
    BY <2>2, <2>3, <2>4, <2>5, <2>6, <2>7, <2>8, <2>9, <2>10 DEF OpStep
<1> QED
  BY <1>1, <1>3, <1>4, <1>5 DEF ResetInv

\* The buckets, and the operation on them, are left alone.
LEMMA AdminKept ==
    ASSUME TypeOK, CountersOK, UNCHANGED vars
    PROVE  /\ TypeOK' /\ CountersOK'
           /\ UNCHANGED <<exists, dying, users, faulty, pc, wanted, todo, cur>>
BY DEF vars, server, client, TypeOK, CountersOK

\* What a playbook leaves on the hosts it reached.
LEMMA Switched ==
    ASSUME NEW S, NEW f \in [S -> BOOLEAN], NEW H \in SUBSET S
    PROVE  /\ On(f, H, TRUE) \in [S -> BOOLEAN] /\ On(f, H, FALSE) \in [S -> BOOLEAN]
           /\ \A h \in S : On(f, S, TRUE)[h] /\ ~On(f, S, FALSE)[h]
BY DEF On

\* A playbook that reaches all hosts leaves every one of them in the state it asks for.
LEMMA Deployed ==
    ASSUME NEW S, NEW f \in [S -> {"old", "none", "new"}], NEW H \in SUBSET S,
           NEW v \in {"none", "new"}
    PROVE  /\ On(f, H, v) \in [S -> {"old", "none", "new"}]
           /\ \A h \in S : On(f, S, v)[h] = v
BY DEF On

\* A step of reset itself that leaves the buckets alone.
LEMMA ResetHostStep ==
    ASSUME ResetInv, UNCHANGED vars,
           \/ Reset \/ StopSyncGateway \/ StopSgAccel
           \/ DeleteSyncGatewayArtifacts \/ DeleteSgAccelArtifacts \/ ValidateCluster
           \/ ServerReady \/ BlockHttpPorts \/ StartSyncGateway \/ StartSgAccel \/ ValidatePindexes
           \/ PushDbConfig \/ ResetDone \/ Test
    PROVE  ResetInv'
<1>1. TypeOK' /\ CountersOK' /\ UNCHANGED <<exists, dying, users, faulty, pc, wanted, todo, cur>>
  BY AdminKept DEF ResetInv
<1>a. ASSUME NEW H \in SUBSET Gateways
      PROVE  /\ On(sg, H, TRUE) \in [Gateways -> BOOLEAN] /\ On(sg, H, FALSE) \in [Gateways -> BOOLEAN]
             /\ \A g \in Gateways : On(sg, Gateways, TRUE)[g] /\ ~On(sg, Gateways, FALSE)[g]
  BY Switched DEF ResetInv, ResetTypeOK
<1>b. ASSUME NEW H \in SUBSET Accels
      PROVE  /\ On(ac, H, TRUE) \in [Accels -> BOOLEAN] /\ On(ac, H, FALSE) \in [Accels -> BOOLEAN]
             /\ \A a \in Accels : On(ac, Accels, TRUE)[a] /\ ~On(ac, Accels, FALSE)[a]
  BY Switched DEF ResetInv, ResetTypeOK
<1>c. ASSUME NEW H \in SUBSET Gateways, NEW v \in {"none", "new"}
      PROVE  /\ On(sgConf, H, v) \in [Gateways -> {"old", "none", "new"}]
             /\ \A g \in Gateways : On(sgConf, Gateways, v)[g] = v
  BY Deployed DEF ResetInv, ResetTypeOK
<1>d. ASSUME NEW H \in SUBSET Accels, NEW v \in {"none", "new"}
      PROVE  /\ On(acConf, H, v) \in [Accels -> {"old", "none", "new"}]
             /\ \A a \in Accels : On(acConf, Accels, v)[a] = v
  BY Deployed DEF ResetInv, ResetTypeOK
<1> USE <1>1 DEF ResetInv, ResetTypeOK, ResetPlaces, Deleting, Creating, BucketPhases,
                 HostPhases, CpcPhases, Pushes, hosts, Playbook
<1>2. CASE Reset
  BY <1>2 DEF Reset
<1>3. CASE StopSyncGateway
  <2>1. PICK H \in SUBSET Gateways :
          Playbook("stopsg", Gateways, "stopac", H) /\ sg' = On(sg, H, FALSE)
    BY <1>3 DEF StopSyncGateway
  <2>2. sg' \in [Gateways -> BOOLEAN]
    BY <2>1, <1>a
  <2>3. H = Gateways => \A h \in Gateways : ~sg'[h]
    BY <2>1, <1>a
  <2> QED
    BY <1>3, <2>1, <2>2, <2>3 DEF StopSyncGateway
<1>4. CASE StopSgAccel
  <2>1. PICK H \in SUBSET Accels :
          Playbook("stopac", Accels, "wipesg", H) /\ ac' = On(ac, H, FALSE)
    BY <1>4 DEF StopSgAccel
  <2>2. ac' \in [Accels -> BOOLEAN]
    BY <2>1, <1>b
  <2>3. H = Accels => \A h \in Accels : ~ac'[h]
    BY <2>1, <1>b
  <2> QED
    BY <1>4, <2>1, <2>2, <2>3 DEF StopSgAccel
<1>5. CASE DeleteSyncGatewayArtifacts
  BY <1>5, <1>c DEF DeleteSyncGatewayArtifacts
<1>6. CASE DeleteSgAccelArtifacts
  BY <1>6, <1>d DEF DeleteSgAccelArtifacts
<1>7. CASE ValidateCluster
  BY <1>7 DEF ValidateCluster
<1>8. CASE ServerReady \/ BlockHttpPorts
  BY <1>8 DEF ServerReady, BlockHttpPorts
<1>9. CASE StartSyncGateway
  <2>1. PICK H \in SUBSET Gateways :
          Playbook("startsg", Gateways, IF config.mode = "di" THEN "startac" ELSE "push", H)
          /\ sg' = On(sg, H, TRUE) /\ sgConf' = On(sgConf, H, "new")
    BY <1>9 DEF StartSyncGateway
  <2>2. sg' \in [Gateways -> BOOLEAN]
    BY <2>1, <1>a
  <2>3. H = Gateways => \A h \in Gateways : sg'[h]
    BY <2>1, <1>a
  <2>4. sgConf' \in [Gateways -> {"old", "none", "new"}]
        /\ (H = Gateways => \A h \in Gateways : sgConf'[h] = "new")
    BY <2>1, <1>c
  <2> QED
    BY <1>9, <2>1, <2>2, <2>3, <2>4 DEF StartSyncGateway
<1>10. CASE StartSgAccel
  <2>1. PICK H \in SUBSET Accels :
          Playbook("startac", Accels, "pindex", H) /\ ac' = On(ac, H, TRUE) /\ acConf' = On(acConf, H, "new")
    BY <1>10 DEF StartSgAccel
  <2>2. ac' \in [Accels -> BOOLEAN]
    BY <2>1, <1>b
  <2>3. H = Accels => \A h \in Accels : ac'[h]
    BY <2>1, <1>b
  <2>4. acConf' \in [Accels -> {"old", "none", "new"}]
        /\ (H = Accels => \A h \in Accels : acConf'[h] = "new")
    BY <2>1, <1>d
  <2> QED
    BY <1>10, <2>1, <2>2, <2>3, <2>4 DEF StartSgAccel
<1>11. CASE ValidatePindexes
  BY <1>11 DEF ValidatePindexes
<1>12. CASE PushDbConfig
  BY <1>12 DEF PushDbConfig
<1>13. CASE ResetDone
  BY <1>13 DEF ResetDone
<1>14. CASE Test
  BY <1>14 DEF Test
<1> QED
  BY <1>2, <1>3, <1>4, <1>5, <1>6, <1>7, <1>8, <1>9, <1>10, <1>11, <1>12, <1>13, <1>14

\* Calls of the bucket operations, and what reset does when they return.
LEMMA ResetCallStep ==
    ASSUME ResetInv,
           \/ CallDeleteBuckets \/ BucketsDeleted \/ CallCreateBuckets \/ BucketsCreated
           \/ Interrupt
    PROVE  ResetInv'
<1> USE AdminAssumption DEF ResetInv, ResetTypeOK, ResetPlaces, Deleting, Creating, BucketPhases,
         HostPhases, CpcPhases, Pushes, hosts, server, Forget, TypeOK, CountersOK, Places, At, Returned
<1>1. CASE CallDeleteBuckets
  BY <1>1 DEF CallDeleteBuckets, DeleteBuckets
<1>2. CASE BucketsDeleted
  <2>1. fails' \in BOOLEAN
    BY <1>2 DEF BucketsDeleted
  <2>2. TypeOK'
    BY <1>2, <2>1 DEF BucketsDeleted
  <2>3. CountersOK'
    BY <1>2 DEF BucketsDeleted
  <2>4. ResetTypeOK' /\ HostPhases' /\ CpcPhases'
    BY <1>2 DEF BucketsDeleted
  <2>5. Deleting' /\ Creating' /\ BucketPhases'
    BY <1>2 DEF BucketsDeleted
  <2> QED
    BY <2>2, <2>3, <2>4, <2>5
<1>3. CASE CallCreateBuckets
  BY <1>3, ConfigBuckets DEF CallCreateBuckets, CreateBuckets
<1>4. CASE BucketsCreated
  <2>1. fails' \in BOOLEAN
    BY <1>4 DEF BucketsCreated
  <2>2. TypeOK'
    BY <1>4, <2>1 DEF BucketsCreated
  <2>3. CountersOK'
    BY <1>4 DEF BucketsCreated
  <2>4. ResetTypeOK' /\ HostPhases' /\ CpcPhases'
    BY <1>4 DEF BucketsCreated
  <2>5. Deleting' /\ Creating' /\ BucketPhases'
    BY <1>4 DEF BucketsCreated
  <2> QED
    BY <2>2, <2>3, <2>4, <2>5
<1>5. CASE Interrupt
  <2>1. fails' \in BOOLEAN
    BY <1>5 DEF Interrupt
  <2>2. TypeOK'
    BY <1>5, <2>1 DEF Interrupt
  <2>3. CountersOK'
    BY <1>5 DEF Interrupt
  <2>4. ResetTypeOK' /\ HostPhases' /\ CpcPhases'
    BY <1>5 DEF Interrupt, Ended
  <2>5. Deleting' /\ Creating' /\ BucketPhases'
    BY <1>5 DEF Interrupt, Ended
  <2> QED
    BY <2>2, <2>3, <2>4, <2>5
<1> QED
  BY <1>1, <1>2, <1>3, <1>4, <1>5

\* What happens on the server meanwhile, and a test that creates a bucket.
LEMMA ResetServerStep ==
    ASSUME ResetInv, Meanwhile \/ \E b \in Buckets : TestBucket(b)
    PROVE  ResetInv'
<1> USE AdminAssumption DEF ResetInv, ResetTypeOK, ResetPlaces, Deleting, Creating, BucketPhases,
         HostPhases, CpcPhases, Pushes, reset, hosts, client, TypeOK, CountersOK, Places
<1>1. ASSUME NEW b \in Buckets, TestBucket(b) PROVE ResetInv'
  BY <1>1 DEF TestBucket
<1>2. ASSUME NEW b \in Buckets, FinishDelete(b), UNCHANGED reset PROVE ResetInv'
  BY <1>2 DEF FinishDelete
<1>3. ASSUME NEW b \in Buckets, DropIndex(b) \/ Index(b), UNCHANGED reset PROVE ResetInv'
  <2>1. prepared' \in BOOLEAN
    BY <1>3 DEF DropIndex, Index
  <2> QED
    BY <1>3, <2>1 DEF DropIndex, Index
<1>4. ASSUME Calm, UNCHANGED reset PROVE ResetInv'
  <2>1. faulty' \in BOOLEAN
    BY <1>4 DEF Calm
  <2> QED
    BY <1>4, <2>1 DEF Calm
<1> QED
  BY <1>1, <1>2, <1>3, <1>4 DEF Meanwhile

\* A cluster in any configuration, with no call under way, satisfies the invariant.
LEMMA ResetInvInit == ResetInit => ResetInv
<1> SUFFICES ASSUME ResetInit PROVE ResetInv
  OBVIOUS
<1>0. 0 \in 0..Ram /\ 0 \in 0..MaxRounds /\ 0 \in 0..(MaxTries + MaxPolls)
  BY AdminAssumption
<1>1. prepared \in BOOLEAN /\ faulty \in BOOLEAN /\ fails \in BOOLEAN
  BY DEF ResetInit, AdminInit
<1>2. TypeOK /\ CountersOK
  BY <1>0, <1>1 DEF ResetInit, AdminInit, TypeOK, CountersOK, Places
<1>3. ResetTypeOK
  BY ResetAssumption DEF ResetInit, ResetTypeOK, ResetPlaces
<1>4. Deleting /\ Creating /\ BucketPhases /\ HostPhases /\ CpcPhases
  BY DEF ResetInit, Deleting, Creating, BucketPhases, HostPhases, CpcPhases, Pushes
<1> QED
  BY <1>2, <1>3, <1>4 DEF ResetInv

\* Every step of a call, of the server and of the hosts keeps the invariant.
LEMMA ResetInvStep == ResetInv /\ [ResetNext]_allVars => ResetInv'
<1> SUFFICES ASSUME ResetInv, [ResetNext]_allVars PROVE ResetInv'
  OBVIOUS
<1>1. CASE \/ Reset \/ StopSyncGateway \/ StopSgAccel
           \/ DeleteSyncGatewayArtifacts \/ DeleteSgAccelArtifacts \/ ValidateCluster
           \/ ServerReady \/ BlockHttpPorts \/ StartSyncGateway \/ StartSgAccel \/ ValidatePindexes
           \/ PushDbConfig \/ ResetDone \/ Test
  <2>1. UNCHANGED vars
    BY <1>1 DEF Reset, StopSyncGateway, StopSgAccel, DeleteSyncGatewayArtifacts,
         DeleteSgAccelArtifacts, ValidateCluster, ServerReady, BlockHttpPorts, StartSyncGateway, StartSgAccel,
         ValidatePindexes, PushDbConfig, ResetDone, Test
  <2> QED
    BY <1>1, <2>1, ResetHostStep
<1>2. CASE \/ CallDeleteBuckets \/ BucketsDeleted \/ CallCreateBuckets \/ BucketsCreated
           \/ Interrupt
  BY <1>2, ResetCallStep
<1>3. CASE rpc \in {"deleting", "creating"} /\ OpStep /\ UNCHANGED reset
  BY <1>3, ResetOpStep
<1>4. CASE Meanwhile \/ \E b \in Buckets : TestBucket(b)
  BY <1>4, ResetServerStep
<1>5. CASE UNCHANGED allVars
  <2>1. UNCHANGED vars /\ UNCHANGED reset
    BY <1>5 DEF allVars
  <2>2. TypeOK' /\ CountersOK' /\ UNCHANGED <<exists, dying, users, pc, wanted, todo, cur>>
    BY <2>1, AdminKept DEF ResetInv
  <2> QED
    BY <2>1, <2>2 DEF ResetInv, reset, hosts, ResetTypeOK, Deleting, Creating, BucketPhases,
                      HostPhases, CpcPhases, Pushes
<1> QED
  BY <1>1, <1>2, <1>3, <1>4, <1>5 DEF ResetNext, ResetStep

\* The invariant holds in every state of every sequence of calls.
LEMMA ResetInvAlways == ResetSpec => []ResetInv
BY ResetInvInit, ResetInvStep, PTL DEF ResetSpec

\* Whatever playbooks and requests fail, and however late the server carries them out:
\* a reset that returns has all gateways running the new configuration, accelerators in
\* distributed index mode only, exactly the buckets of the configuration with their
\* users, and with persistent configuration the administrator; the databases were sent to
\* every gateway since it started, or, if the caller passed sgdb_creation=False, to none;
\* and delete_buckets returns only on a server without buckets.
THEOREM ResetIsRight == ResetSpec => []ResetRight
<1>1. ResetInv => ResetRight
  BY DEF ResetInv, ResetRight, ResetPost, DeletedAll, Deleting, BucketPhases, HostPhases,
         CpcPhases, Pushes
<1> QED
  BY <1>1, ResetInvAlways, PTL

\* No bucket is deleted under a gateway or accelerator that runs, and no gateway is
\* started before its buckets and their users are there and all deletions are over.
THEOREM ResetOrderSafe == ResetSpec => []SafeOrder
<1>1. ResetInv => SafeOrder
  BY DEF ResetInv, SafeOrder, QuietDelete, StartsOnBuckets, BucketPhases, HostPhases
<1> QED
  BY <1>1, ResetInvAlways, PTL
-----------------------------------------------------------------------------
(* Memory: the buckets of a reset share what the server has               *)

\* Among some parts of a finite set there is a least one: induction over a finite set is
\* then an argument about a least counterexample.
LEMMA LeastPart ==
    ASSUME NEW S, IsFiniteSet(S), NEW T, T \subseteq SUBSET S, T # {}
    PROVE  \E x \in T : \A y \in T : ~ (y \subseteq x /\ y # x)
<1>1. T \subseteq FiniteSubsetsOf(S)
  BY FS_Subset DEF FiniteSubsetsOf
<1>2. PICK x \in T : \A y \in T : ~ (<<y, x>> \in StrictSubsetOrdering(S))
  BY <1>1, FS_StrictSubsetOrderingWellFounded, WFMin
<1>3. \A y \in T : y \subseteq x /\ y # x => <<y, x>> \in StrictSubsetOrdering(S)
  BY DEF StrictSubsetOrdering
<1>4. \A y \in T : ~ (y \subseteq x /\ y # x)
  BY <1>2, <1>3, Zenon
<1> QED
  BY <1>4, Zenon

\* One step of the sum that the server computes over the buckets of s.
Part(it, q, s) == IF s = {} THEN 0 ELSE LET x == CHOOSE x \in s : TRUE IN q[x] + it[s \ {x}]

\* Buckets with equal quotas take as many quotas as they are.
LEMMA SumOfEqual ==
    ASSUME NEW S, IsFiniteSet(S), NEW q, NEW r \in Nat, \A b \in S : q[b] = r
    PROVE  MapThenSumSet(LAMBDA b : q[b], S) = r * Cardinality(S)
<1> DEFINE it == CHOOSE it : it = [s \in SUBSET S |-> Part(it, q, s)]
<1>1. MapThenSumSet(LAMBDA b : q[b], S) = it[S]
  BY DEF MapThenSumSet, MapThenFoldSet, Part
<1>2. ASSUME NEW s \in SUBSET S, s # {}
      PROVE  LET x == CHOOSE x \in s : TRUE IN
             /\ x \in s /\ q[x] = r /\ s \ {x} \in SUBSET S /\ s \ {x} # s
             /\ r * Cardinality(s) = r + r * Cardinality(s \ {x})
  <2> DEFINE x == CHOOSE x \in s : TRUE
  <2>1. x \in s
    BY <1>2
  <2>2. IsFiniteSet(s) /\ Cardinality(s) \in Nat /\ Cardinality(s \ {x}) = Cardinality(s) - 1
    BY <2>1, FS_Subset, FS_RemoveElement, FS_CardinalityType
  <2>3. \A n \in Nat : r * n = r + r * (n - 1)
    OBVIOUS
  <2> QED
    BY <2>1, <2>2, <2>3
<1> DEFINE sum == [s \in SUBSET S |-> r * Cardinality(s)]
<1>3. sum = [s \in SUBSET S |-> Part(sum, q, s)]
  <2>1. ASSUME NEW s \in SUBSET S PROVE sum[s] = Part(sum, q, s)
    <3>1. CASE s = {}
      BY <3>1, FS_EmptySet DEF Part
    <3>2. CASE s # {}
      <4> DEFINE x == CHOOSE x \in s : TRUE
      <4>1. x \in s /\ q[x] = r /\ s \ {x} \in SUBSET S
            /\ r * Cardinality(s) = r + r * Cardinality(s \ {x})
        BY <1>2, <3>2
      <4>2. Part(sum, q, s) = q[x] + sum[s \ {x}]
        BY <3>2 DEF Part
      <4> QED
        BY <4>1, <4>2
    <3> QED
      BY <3>1, <3>2
  <2> QED
    BY <2>1
<1>4. it = [s \in SUBSET S |-> Part(it, q, s)]
  <2> HIDE DEF sum
  <2> QED BY <1>3
<1> HIDE DEF it
<1>5. ASSUME it[S] # r * Cardinality(S) PROVE FALSE
  <2> DEFINE T == {s \in SUBSET S : it[s] # r * Cardinality(s)}
  <2>1. PICK s \in T : \A y \in T : ~ (y \subseteq s /\ y # s)
    <3>1. S \in T /\ T \subseteq SUBSET S
      BY <1>5
    <3> HIDE DEF T
    <3> QED BY <3>1, LeastPart
  <2>2. CASE s = {}
    BY <2>2, <1>4, FS_EmptySet DEF Part
  <2>3. CASE s # {}
    <3> DEFINE x == CHOOSE x \in s : TRUE
    <3>1. x \in s /\ q[x] = r /\ s \ {x} \in SUBSET S /\ s \ {x} # s
          /\ r * Cardinality(s) = r + r * Cardinality(s \ {x})
      BY <1>2, <2>3
    <3>2. it[s] = q[x] + it[s \ {x}]
      BY <2>3, <1>4 DEF Part
    <3>3. it[s \ {x}] = r * Cardinality(s \ {x})
      BY <2>1, <3>1
    <3> QED
      BY <3>1, <3>2, <3>3
  <2> QED
    BY <2>2, <2>3
<1> QED
  BY <1>1, <1>5

\* The buckets created so far have the share that was computed for all that were wanted.
SharesOK ==
    (rpc = "creating" /\ pc \in {"create", "adduser", "ready"}) =>
        /\ wanted # {} /\ ram = Ram \div Cardinality(wanted)
        /\ \A b \in exists : quota[b] = ram

\* An operation on the buckets is under way only in the two phases of reset that call one.
CalledByReset == ~Returned => rpc \in {"deleting", "creating"}

\* A reset that meets no fault empties the server in its first round, if only because what
\* it failed to delete had been deleted late; a second round finds nothing.
CalmDelete ==
    (calm /\ rpc = "deleting") =>
        /\ pc \notin {"raised", "user"}
        /\ round \in {0, 1} /\ (round = 1 => exists = {} /\ pc \notin {"each", "delete"})
        /\ pc = "each" => exists \subseteq todo
        /\ pc = "delete" => exists \subseteq todo \cup {cur}
        /\ pc = "verify" => exists = {}

CalmInv ==
    /\ calm => ~faulty /\ rpc # "raised"
    /\ CalmDelete
    /\ (calm /\ rpc = "creating") => pc # "raised"

\* A share of the wanted buckets is left for each that is still to be created.
LEMMA RoomLeft ==
    ASSUME ResetInv, SharesOK, rpc = "creating", pc = "create", todo # {}
    PROVE  Allocated + ram <= Ram
<1>1. /\ exists = wanted \ todo /\ todo \subseteq wanted /\ wanted \subseteq Buckets
      /\ ram = Ram \div Cardinality(wanted) /\ \A b \in exists : quota[b] = ram
      /\ ram \in Nat
  BY DEF ResetInv, SharesOK, Creating, TypeOK
<1>2. IsFiniteSet(wanted) /\ IsFiniteSet(exists)
  BY <1>1, FS_Subset, AdminAssumption
<1>3. Allocated = ram * Cardinality(exists)
  BY <1>1, <1>2, SumOfEqual DEF Allocated
<1>4. /\ Cardinality(wanted) \in Nat /\ Cardinality(exists) \in Nat
      /\ Cardinality(exists) + 1 <= Cardinality(wanted)
  <2>1. PICK b \in todo : b \in wanted /\ b \notin exists
    BY <1>1
  <2>2. exists \cup {b} \subseteq wanted
    BY <1>1, <2>1
  <2>3. Cardinality(exists \cup {b}) = Cardinality(exists) + 1
    BY <1>2, <2>1, FS_AddElement
  <2>4. Cardinality(exists \cup {b}) <= Cardinality(wanted)
    BY <1>2, <2>2, FS_Subset
  <2> QED
    BY <1>2, <2>3, <2>4, FS_CardinalityType
<1>5. \A m, w \in Nat : m + 1 <= w => (Ram \div w) * m + (Ram \div w) <= Ram
  <2> SUFFICES ASSUME NEW m \in Nat, NEW w \in Nat, m + 1 <= w
               PROVE  (Ram \div w) * m + (Ram \div w) <= Ram
    OBVIOUS
  <2>1. Ram \in Nat
    BY AdminAssumption
  <2>2. Ram \div w \in Nat /\ (Ram \div w) * w <= Ram
    BY <2>1
  <2>3. \A q \in Nat : q * m + q = q * (m + 1) /\ q * (m + 1) <= q * w
    OBVIOUS
  <2>4. (Ram \div w) * (m + 1) \in Nat /\ (Ram \div w) * w \in Nat
    BY <2>2
  <2> QED
    BY <2>1, <2>2, <2>3, <2>4
<1> QED
  BY <1>1, <1>3, <1>4, <1>5

\* The share is computed on an empty server for all wanted buckets, and every bucket is
\* then created with it.
LEMMA SharesStep ==
    ASSUME ResetInv, SharesOK, rpc \in {"deleting", "creating"}, OpStep, UNCHANGED reset
    PROVE  SharesOK'
<1>1. UNCHANGED rpc
  BY DEF reset
<1> SUFFICES ASSUME rpc = "creating", pc' \in {"create", "adduser", "ready"}
             PROVE  /\ wanted' # {} /\ ram' = Ram \div Cardinality(wanted')
                    /\ \A b \in exists' : quota'[b] = ram'
  BY <1>1 DEF SharesOK
<1> USE DEF At, Raise, server
<1>2. Creating /\ quota \in [Buckets -> 0..Ram] /\ exists \subseteq Buckets /\ CountersOK
      /\ todo \subseteq Buckets
  BY DEF ResetInv, TypeOK
<1>3. CASE GetRamPerBucket
  <2>1. pc = "ram" /\ ram' = Ram \div Cardinality(todo) /\ UNCHANGED <<exists, quota, wanted, todo>>
    BY <1>3 DEF GetRamPerBucket
  <2>2. exists = {} /\ todo = wanted /\ todo # {}
    BY <1>2, <2>1 DEF Creating, CountersOK
  <2> QED
    BY <2>1, <2>2
<1>4. CASE CreateBucket
  <2>1. PICK b \in todo : exists' = exists \cup {b} /\ quota' = [quota EXCEPT ![b] = ram]
    BY <1>4 DEF CreateBucket
  <2>2. pc = "create" /\ UNCHANGED <<wanted, ram>>
    BY <1>4 DEF CreateBucket
  <2>3. wanted # {} /\ ram = Ram \div Cardinality(wanted) /\ \A c \in exists : quota[c] = ram
    BY <2>2 DEF SharesOK
  <2> QED
    BY <1>2, <2>1, <2>2, <2>3
<1>5. CASE CreateUser \/ CreateUserFails \/ WaitForReadyState
  <2>1. pc \in {"adduser", "ready"} /\ UNCHANGED <<exists, quota, wanted, ram>>
    BY <1>5 DEF CreateUser, CreateUserFails, WaitForReadyState
  <2> QED
    BY <2>1 DEF SharesOK
<1>6. CASE GetBucketNames \/ GetBucketNamesFails \/ GetRamFails \/ CreateBucketFails \/ CreateDone
  BY <1>2, <1>6 DEF Creating, GetBucketNames, GetBucketNamesFails, GetRamFails,
                    CreateBucketFails, CreateDone
<1>7. CASE \/ Round \/ NextBucket \/ VersionFails \/ RoundDone \/ DeleteUser
           \/ DeleteUserLost \/ DeleteBucket \/ DeleteRefused \/ DeleteLost \/ PollIndex
           \/ Purge \/ PollQuery \/ ChecksFail
  BY <1>2, <1>7 DEF Creating, Round, NextBucket, VersionFails, RoundDone, DeleteUser,
       DeleteUserLost, DeleteBucket, DeleteRefused, DeleteLost, PollIndex, Purge, PollQuery,
       ChecksFail
<1> QED
  BY <1>3, <1>4, <1>5, <1>6, <1>7 DEF OpStep

\* The shares, and who has called the operation, through every other step.
LEMMA SharesInvStep ==
    ASSUME ResetInv, SharesOK, CalledByReset, [ResetNext]_allVars
    PROVE  SharesOK' /\ CalledByReset'
<1>1. CASE UNCHANGED vars /\ rpc' # "creating" /\ rpc \notin {"deleting", "creating"}
  BY <1>1 DEF SharesOK, CalledByReset, Returned, vars, client
<1>2. CASE \/ Reset \/ StopSyncGateway \/ StopSgAccel
           \/ DeleteSyncGatewayArtifacts \/ DeleteSgAccelArtifacts \/ ValidateCluster
           \/ ServerReady \/ BlockHttpPorts \/ StartSyncGateway \/ StartSgAccel \/ ValidatePindexes
           \/ PushDbConfig \/ ResetDone \/ Test
  BY <1>1, <1>2 DEF Reset, StopSyncGateway, StopSgAccel, DeleteSyncGatewayArtifacts,
         DeleteSgAccelArtifacts, ValidateCluster, ServerReady, BlockHttpPorts, StartSyncGateway, StartSgAccel,
         ValidatePindexes, PushDbConfig, ResetDone, Test, Ended, Playbook
<1>3. CASE \/ CallDeleteBuckets \/ BucketsDeleted \/ CallCreateBuckets \/ BucketsCreated
           \/ Interrupt
  BY <1>3 DEF SharesOK, CalledByReset, CallDeleteBuckets, DeleteBuckets, BucketsDeleted,
     CallCreateBuckets, CreateBuckets, BucketsCreated, Interrupt, Returned, At
<1>4. CASE rpc \in {"deleting", "creating"} /\ OpStep /\ UNCHANGED reset
  <2>1. SharesOK'
    BY <1>4, SharesStep
  <2>2. CalledByReset'
    BY <1>4 DEF CalledByReset, reset
  <2> QED
    BY <2>1, <2>2
<1>5. CASE Meanwhile
  <2>1. UNCHANGED <<rpc, pc, wanted, ram, quota>> /\ exists' \subseteq exists
    BY <1>5 DEF Meanwhile, Calm, DropIndex, FinishDelete, Index, reset, client
  <2> QED
    BY <2>1 DEF SharesOK, CalledByReset, Returned
<1>6. CASE \E b \in Buckets : TestBucket(b)
  BY <1>6 DEF TestBucket, reset, client, SharesOK, CalledByReset, Returned
<1>7. CASE UNCHANGED allVars
  BY <1>7 DEF allVars, vars, server, client, reset, SharesOK, CalledByReset, Returned
<1> QED
  BY <1>2, <1>3, <1>4, <1>5, <1>6, <1>7 DEF ResetNext, ResetStep

\* The server is asked for no more memory than it has, however many buckets a
\* configuration names and whatever resets before this one left behind.
THEOREM MemoryShared == ResetSpec => []NeverOverCommits
<1>1. ResetInit => SharesOK /\ CalledByReset
  BY DEF ResetInit, AdminInit, SharesOK, CalledByReset, Returned
<1>2. ResetInv /\ SharesOK /\ CalledByReset /\ [ResetNext]_allVars => SharesOK' /\ CalledByReset'
  BY SharesInvStep
<1>3. ResetInv /\ SharesOK /\ CalledByReset => NeverOverCommits
  <2> SUFFICES ASSUME ResetInv, SharesOK, CalledByReset, pc = "create", todo # {}
               PROVE  Allocated + ram <= Ram
    BY DEF NeverOverCommits
  <2>1. rpc = "creating"
    BY DEF CalledByReset, Returned, ResetInv, Deleting
  <2> QED
    BY <2>1, RoomLeft
<1> QED
  BY <1>1, <1>2, <1>3, ResetInvAlways, PTL DEF ResetSpec

-----------------------------------------------------------------------------
(* A reset that meets no fault                                             *)

\* What the argument needs of the constants: a server that takes its users with its
\* buckets, a second round of delete_buckets (the code has five), a cluster with a
\* gateway, and accelerators where a configuration asks for them.
CalmAssumption ==
    /\ ~OldServer /\ MaxRounds >= 2 /\ Gateways # {}
    /\ \A c \in Configs : c.mode = "di" => Accels # {}

\* delete_buckets without faults.
LEMMA CalmDeleteStep ==
    ASSUME CalmAssumption, ResetInv, CalmInv, calm, rpc = "deleting", OpStep, UNCHANGED reset
    PROVE  CalmInv'
<1>1. UNCHANGED <<rpc, calm>> /\ ~faulty
  BY DEF reset, CalmInv
<1>2. UNCHANGED faulty
  BY DEF OpStep, GetBucketNames, GetBucketNamesFails, Round, NextBucket, VersionFails, RoundDone,
       DeleteUser, DeleteUserLost, DeleteBucket, DeleteRefused, DeleteLost, PollIndex, Purge,
       PollQuery, ChecksFail, GetRamPerBucket, GetRamFails, CreateBucket, CreateBucketFails,
       CreateUser, CreateUserFails, WaitForReadyState, CreateDone, server
<1> SUFFICES CalmDelete'
  BY <1>1, <1>2 DEF CalmInv
<1>3. CalmDelete /\ Deleting /\ MaxRounds \in Nat /\ round \in 0..MaxRounds
  BY AdminAssumption DEF ResetInv, CalmInv, TypeOK
<1> USE <1>1, <1>3 DEF CalmDelete, At, Raise, server, Lost, Refused
<1>4. CASE GetBucketNames
  BY <1>4 DEF GetBucketNames, Deleting
<1>5. CASE GetBucketNamesFails \/ VersionFails \/ DeleteUserLost \/ DeleteLost \/ ChecksFail
  BY <1>5 DEF GetBucketNamesFails, VersionFails, DeleteUserLost, DeleteLost, ChecksFail
<1>6. CASE Round
  BY <1>6 DEF Round, CalmAssumption
<1>7. CASE NextBucket
  <2>1. PICK b \in todo : cur' = b /\ todo' = todo \ {b}
    BY <1>7 DEF NextBucket
  <2>2. pc = "each" /\ pc' = "delete" /\ UNCHANGED <<exists, round>>
    BY <1>7 DEF NextBucket, CalmAssumption
  <2> QED
    BY <2>1, <2>2
<1>8. CASE DeleteUser
  BY <1>8 DEF DeleteUser
<1>9. CASE DeleteBucket
  <2>1. pc = "delete" /\ pc' = "each" /\ exists' = exists \ {cur} /\ UNCHANGED <<todo, cur, round>>
    BY <1>9 DEF DeleteBucket, ServerDeletes
  <2> QED
    BY <2>1
<1>10. CASE DeleteRefused
  <2>1. /\ pc = "delete" /\ pc' \in {"each", "delete"} /\ cur \notin exists
        /\ UNCHANGED <<exists, todo, cur, round>>
    BY <1>10 DEF DeleteRefused
  <2> QED
    BY <2>1
<1>11. CASE RoundDone
  <2>1. /\ pc = "each" /\ todo = {} /\ pc' \in {"round", "verify"} /\ UNCHANGED exists
        /\ round' \in {round, round + 1}
    BY <1>11 DEF RoundDone
  <2>2. exists = {} /\ round = 0
    BY <2>1
  <2> QED
    BY <2>1, <2>2
<1>12. CASE PollIndex \/ Purge \/ PollQuery
  <2>1. /\ pc' \in {"index", "purge", "prepareds", "indexes", "ok"}
        /\ UNCHANGED <<exists, round>>
    BY <1>12 DEF PollIndex, Purge, PollQuery
  <2> QED
    BY <2>1
<1>13. CASE \/ GetRamPerBucket \/ GetRamFails \/ CreateBucket \/ CreateBucketFails
            \/ CreateUser \/ CreateUserFails \/ WaitForReadyState \/ CreateDone
  BY <1>13 DEF Deleting, GetRamPerBucket, GetRamFails, CreateBucket, CreateBucketFails,
               CreateUser, CreateUserFails, WaitForReadyState, CreateDone
<1> QED
  BY <1>4, <1>5, <1>6, <1>7, <1>8, <1>9, <1>10, <1>11, <1>12, <1>13 DEF OpStep

\* create_buckets without faults: the server has room for every bucket.
LEMMA CalmCreateStep ==
    ASSUME ResetInv, SharesOK, CalmInv, calm, rpc = "creating", OpStep, UNCHANGED reset
    PROVE  CalmInv'
<1>1. UNCHANGED <<rpc, calm>> /\ ~faulty /\ pc # "raised" /\ Creating
  BY DEF reset, CalmInv, ResetInv
<1>2. UNCHANGED faulty
  BY DEF OpStep, GetBucketNames, GetBucketNamesFails, Round, NextBucket, VersionFails, RoundDone,
       DeleteUser, DeleteUserLost, DeleteBucket, DeleteRefused, DeleteLost, PollIndex, Purge,
       PollQuery, ChecksFail, GetRamPerBucket, GetRamFails, CreateBucket, CreateBucketFails,
       CreateUser, CreateUserFails, WaitForReadyState, CreateDone, server
<1> SUFFICES pc' # "raised"
  BY <1>1, <1>2 DEF CalmInv, CalmDelete
<1> USE <1>1 DEF At, Raise, Lost, Refused
<1>3. CASE CreateBucketFails
  <2>1. pc = "create" /\ todo # {} /\ Allocated + ram > Ram
    BY <1>3 DEF CreateBucketFails
  <2>2. Allocated + ram <= Ram
    BY <2>1, RoomLeft
  <2>3. Allocated \in Nat /\ ram \in Nat /\ Ram \in Nat
    <3>1. /\ exists = wanted \ todo /\ wanted \subseteq Buckets
          /\ \A b \in exists : quota[b] = ram /\ ram \in Nat
      BY <2>1 DEF ResetInv, SharesOK, Creating, TypeOK
    <3>2. IsFiniteSet(exists)
      BY <3>1, FS_Subset, AdminAssumption
    <3>3. ram \in Nat
      BY AdminAssumption DEF ResetInv, TypeOK
    <3>4. Allocated = ram * Cardinality(exists)
      BY <3>1, <3>2, <3>3, SumOfEqual DEF Allocated
    <3> QED
      BY <3>2, <3>3, <3>4, FS_CardinalityType, AdminAssumption
  <2> QED
    BY <2>1, <2>2, <2>3
<1>4. CASE GetBucketNames \/ GetBucketNamesFails
  BY <1>4 DEF GetBucketNames, GetBucketNamesFails, Creating
<1>5. CASE \/ GetRamPerBucket \/ GetRamFails \/ CreateBucket \/ CreateUser \/ CreateUserFails
           \/ WaitForReadyState \/ CreateDone
  BY <1>5 DEF GetRamPerBucket, GetRamFails, CreateBucket, CreateUser, CreateUserFails,
              WaitForReadyState, CreateDone
<1>6. CASE \/ Round \/ NextBucket \/ VersionFails \/ RoundDone \/ DeleteUser
           \/ DeleteUserLost \/ DeleteBucket \/ DeleteRefused \/ DeleteLost \/ PollIndex
           \/ Purge \/ PollQuery \/ ChecksFail
  BY <1>6 DEF Creating, Round, NextBucket, VersionFails, RoundDone, DeleteUser,
       DeleteUserLost, DeleteBucket, DeleteRefused, DeleteLost, PollIndex, Purge, PollQuery,
       ChecksFail
<1> QED
  BY <1>3, <1>4, <1>5, <1>6 DEF OpStep

\* Every other step of a session.
LEMMA CalmStep ==
    ASSUME CalmAssumption, ResetInv, SharesOK, CalledByReset, CalmInv, [ResetNext]_allVars
    PROVE  CalmInv'
<1>1. CASE Reset
  BY <1>1 DEF Reset, CalmInv, CalmDelete, vars, server
<1>2. CASE \/ StopSyncGateway \/ StopSgAccel
           \/ DeleteSyncGatewayArtifacts \/ DeleteSgAccelArtifacts
           \/ ServerReady \/ BlockHttpPorts \/ StartSyncGateway \/ StartSgAccel
           \/ PushDbConfig \/ ResetDone \/ Test
  <2>1. /\ UNCHANGED <<faulty, calm>> /\ rpc' \notin {"deleting", "creating"}
        /\ rpc' = "raised" => faulty
    BY <1>2 DEF StopSyncGateway, StopSgAccel, DeleteSyncGatewayArtifacts,
         DeleteSgAccelArtifacts, ServerReady, BlockHttpPorts, StartSyncGateway, StartSgAccel,
         PushDbConfig, ResetDone, Test, Playbook, Fails, vars, server
  <2> QED
    BY <2>1 DEF CalmInv, CalmDelete
<1>3. CASE ValidateCluster \/ ValidatePindexes
  <2>1. /\ UNCHANGED <<faulty, calm>> /\ rpc' \in {"create", "push", "raised"}
        /\ rpc' = "raised" => faulty \/ Gateways = {} \/ (config.mode = "di" /\ Accels = {})
    BY <1>3 DEF ValidateCluster, ValidatePindexes, Fails, vars, server, ResetInv, HostPhases
  <2>2. Gateways # {} /\ (config.mode = "di" => Accels # {})
    BY DEF CalmAssumption, ResetInv, ResetTypeOK
  <2> QED
    BY <2>1, <2>2 DEF CalmInv, CalmDelete
<1>4. CASE CallDeleteBuckets
  BY <1>4 DEF CallDeleteBuckets, DeleteBuckets, At, server, CalmInv, CalmDelete
<1>5. CASE BucketsDeleted \/ CallCreateBuckets \/ BucketsCreated \/ Interrupt
  BY <1>5 DEF BucketsDeleted, CallCreateBuckets, CreateBuckets, BucketsCreated, Interrupt, At,
              server, CalmInv, CalmDelete
<1>6. CASE rpc \in {"deleting", "creating"} /\ OpStep /\ UNCHANGED reset
  <2>1. CASE calm
    BY <1>6, <2>1, CalmDeleteStep, CalmCreateStep
  <2>2. CASE ~calm
    BY <1>6, <2>2 DEF CalmInv, CalmDelete, reset
  <2> QED
    BY <2>1, <2>2
<1>7. CASE Meanwhile
  <2>1. /\ UNCHANGED <<rpc, calm, pc, round, todo, cur>> /\ exists' \subseteq exists
        /\ faulty' => faulty
    BY <1>7 DEF Meanwhile, Calm, DropIndex, FinishDelete, Index, reset, client
  <2> QED
    BY <2>1 DEF CalmInv, CalmDelete
<1>8. CASE \E b \in Buckets : TestBucket(b)
  BY <1>8 DEF TestBucket, reset, client, CalmInv, CalmDelete
<1>9. CASE UNCHANGED allVars
  BY <1>9 DEF allVars, vars, server, client, reset, CalmInv, CalmDelete
<1> QED
  BY <1>1, <1>2, <1>3, <1>4, <1>5, <1>6, <1>7, <1>8, <1>9 DEF ResetNext, ResetStep

\* Whatever state failed and interrupted resets left behind, a reset that begins after
\* the last fault does not raise: deletions that the server finishes late under it cost
\* it one more round of delete_buckets, and nothing else can go wrong.
THEOREM CalmResetRecovers ==
    ASSUME CalmAssumption
    PROVE  ResetSpec => []CalmResetSucceeds
<1>1. ResetInit => SharesOK /\ CalledByReset /\ CalmInv
  BY DEF ResetInit, AdminInit, SharesOK, CalledByReset, Returned, CalmInv, CalmDelete
<1>2. ResetInv /\ SharesOK /\ CalledByReset /\ CalmInv /\ [ResetNext]_allVars
      => SharesOK' /\ CalledByReset' /\ CalmInv'
  BY SharesInvStep, CalmStep
<1>3. CalmInv => CalmResetSucceeds
  BY DEF CalmInv, CalmResetSucceeds
<1> QED
  BY <1>1, <1>2, <1>3, ResetInvAlways, PTL DEF ResetSpec
=============================================================================
