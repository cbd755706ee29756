# Verification of mobile-testkit

mobile-testkit is the functional test framework for Couchbase Mobile. Its tests run
against a cluster of real machines: Couchbase Servers, Sync Gateways, Sync Gateway
accelerators, load balancers, and test applications on phones and desktops that embed
Couchbase Lite. The framework reserves machines, installs and configures the products,
brings them into a known state before every test, drives them over REST and RPC, and
waits for what a test expects. What it promises its tests is what is specified here:
that a job has its machines for itself, that a reset leaves a clean cluster, that a
listener of the changes feed loses nothing, that a wait ends.

The TLA+ modules are translated from the Python source under `src/`. `PROJECT.json`
maps every definition to the lines it models.

## The system's parts

| part | source | state it keeps | operations | what is hard |
|---|---|---|---|---|
| Node pool | `utilities/mobile_server_pool.py` | one document per machine in a shared bucket: state, user | reserve, release, clean up, count | independent Jenkins jobs read and write the same documents; jobs are aborted; a replace may time out after it was applied |
| Changes tracker | `keywords/ChangesTracker.py` | `processed_changes`, `cancel` | `start` (long poll loop), `stop`, `wait_until` | several threads share one dictionary; rows are repeated; updates arrive between two polls |
| Bucket administration | `keywords/couchbaseserver.py` | buckets, RBAC users, indexes, memory quotas of a server | `delete_buckets`, `create_buckets`, readiness checks | requests are refused, lost, or carried out after an error; the indexer is late |
| Cluster reset | `libraries/testkit/cluster.py` | processes and configuration on gateway hosts | `reset`, `setup_server_and_sgw` | a playbook fails on some hosts; a session is interrupted in the middle |
| Server nodes | `keywords/couchbaseserver.py` | members of the server cluster | `add_node`, `rebalance_in`, `rebalance_out`, `rebalance_server`, `recover`, `start`, `stop`, `upgrade_server` | a rebalance fails or is refused while the caller waits; an answer is lost after the request was obeyed |
| Sync Gateway control | `libraries/testkit/syncgateway.py`, `keywords/SyncGateway.py` | processes, deployed configuration, databases | start, stop, restart, upgrade, push database configuration | ten copies of the rules for a gateway's settings; several gateways share one bucket; a dictionary is shared between gateways |
| REST client | `keywords/MobileRestClient.py` | a session of connections | documents, bulk documents, sessions, attachments, verification by polling | other threads and replications write between two requests; rows of a bulk request fail one by one |
| Users | `libraries/testkit/user.py`, `verify.py`, `admin.py`, `parallelize.py` | a cache of revisions for each user | add, update and delete documents in threads, compare the caches with the changes feed | conflicts, one failure among many threads |
| CBL clients | `CBLClient/`, `keywords/TestServer*.py`, `keywords/LiteServ*.py` | handles of remote objects; processes on devices | RPC, replication and its status polls, install, start, stop | polls against a replicator that goes idle and busy again |
| Replications between gateways | `libraries/testkit/syncgateway.py`, `admin.py`, `keywords/MobileRestClient.py` | tasks and replications of a gateway | start, stop, reset, waits on counters and statuses | counters lag; a wait counts two ways; credentials are set as a side effect |
| Provisioning | `libraries/provision/`, `keywords/ClusterKeywords.py` | software on hosts, the cluster configuration | remove, install server, gateways, accelerators, nginx; verify versions | the configuration is written before anything is installed; partial failure |
| Cluster configuration | `libraries/utilities/generate_clusters_from_pool.py`, `utilities/cluster_config_utils.py` | inventory files | generate, edit at run time | files edited while others read them |

How the parts meet. A Jenkins job reserves machines from the node pool and writes them
into `resources/pool.json`; the cluster configurations are generated from that file;
provisioning installs the products on the hosts of one configuration. From then on the
test session talks to the hosts in three ways: playbooks (start, stop, deploy, wipe),
REST requests (server, gateways, documents) and RPC (test applications). `Cluster.reset`
is the meeting point: it uses playbooks for the gateways, `CouchbaseServer` for the
buckets and, with persistent configuration, the admin API for the databases. A test runs
several threads over the REST clients and the changes tracker, and polls until the
replicators and feeds show what it expects. There is no shared memory between jobs: they
meet in the bucket of the pool only. Within a job, threads share the tracker's
dictionary, the users' caches and the cluster configuration files.

What is hard, and where a test would hardly get: read-then-write over the network (the
pool, `update_doc`); several attributes of a changing object read one after another (the
replicator, `verify_docs_deleted`); requests that are carried out although they failed
(bucket deletion, replace, rebalance); playbooks that succeed on some hosts; sessions that
end in the middle; state that outlives the operation that made it (the scheme a keyword
object remembers, the application an earlier job left running); loops that must end.
`PROJECT.json` lists these under "hazards", each at its line, with the properties that
would catch it going wrong. Smaller ones that are not in the list, because no property of
the models could tell: the versions compared as strings (`sgaccel.py:75` and many others),
the index distribution compared with the first node only (`cluster.py:752`), the
precedence slip in `keywords/utils.py:524`, a bare memory quota below 640 MB
(`couchbaseserver.py:430`), a property written to the JSON file and then to the inventory
(`cluster_config_utils.py:77`).

What makes each part correct:

- Node pool: no machine is used by two jobs, whatever else runs; the bucket agrees with what jobs hold; a
  reservation is handed over in full or not at all; every invocation ends.
- Changes tracker: nothing is skipped, forgotten or recorded twice; `wait_until` is right
  when it returns True; `stop` and the time limits end every thread.
- Buckets and reset: a reset that returns leaves exactly the state its configuration asks
  for; steps are in an order that the products survive; a reset without faults succeeds
  whatever earlier ones left; every reset ends.
- Replicator waits: a wait that returns means the work is done; a failure is reported;
  every wait ends.
- REST client: no update is lost; an operation of several requests that returns has done
  what it says; a poll misses no change.
- Server nodes: a call made as the tests make it succeeds and has had its effect when it
  returns, lost answers and repeated requests included.
- Gateways: whichever operation configured a gateway, the same flags give the same
  settings; what runs is what was deployed; an upgrade that returns upgraded all; a pushed
  configuration is every database's own; a provisioning that returns installed what the
  cluster configuration now says.
- Users: caches, returned errors and trackers agree with the database, and the verifiers
  are right when they pass and when they fail.
- Test applications: what answers after a start is the version asked for; a stop leaves
  neither process nor data; an installation replaces what was there.
- Replications: a wait that returns means the documents moved, an empty task list means
  that nothing moves any more, a reset starts over.

## Modules

| module | models | state | actions |
|---|---|---|---|
| `NodePool` | `mobile_server_pool.py` as processes over one document per machine | `doc` is the bucket, the rest are the locals of each invocation; the CAS value is a bit (`fresh`: nobody wrote since I read) | one per remote call: `GetNodesQuery`, `ReserveGet`, `ReserveReplace`, `ReserveCasMismatch`, `ReserveError`, `ReserveReget`, `CheckAlive`, `NotEnoughNodes`, `ReleaseGet`, `ReleaseReplace`, `CleanupGet`, `CleanupReplace`, ..., and `Crash` |
| `NodePoolHistory` | `NodePool` and a history variable | `taken`: the nodes written over while a job held them (a reservation that read the document as booked, or a cleanup), as long as one holds them | those of `NodePool`, each with `Marks` |
| `ExclusivePool` | what the pool promises, abstractly | who owns a node, what a job has in hand | `Book`, `Hand`, `GiveBack`, `Free` |
| `ChangesTracker` | `ChangesTracker.py` as threads over one dictionary of lists | `dict` and `lists` are `processed_changes`, split so that two threads can hold different list objects of one document; `since`, `snap`, `todo` belong to a call of `start`, `expect`, `missing` to one of `wait_until` | `LoopTop`, `Respond`, `RequestFails`, `RowCheck`, `RowStore`, `RowsDone`; `PollTop`, `Look`, `LookDone`; `Stop`; the database's `Update` |
| `BucketAdmin` | `delete_buckets`, `create_buckets` and their helpers in `couchbaseserver.py` | the server (`exists`, `dying`, `users`, `quota`, `indexed`, `prepared`) and the one client that administers it | one per request; `Late` lets the server carry out what it answered with an error |
| `ClusterReset` | `Cluster.reset`; EXTENDS `BucketAdmin` and runs its steps inside a reset | hosts (`sg`, `sgConf`, `ac`, `acConf`), `pushed`, and where reset is (`rpc`) | one per playbook or REST call of reset (with the ports blocked on an encrypted server), failing on any subset of the hosts; `Interrupt`; `Test` and `TestBucket` for what a test does in between |
| `ServerNodes` | the nodes of the server cluster under the calls of `CouchbaseServer` | `memb` is what the cluster knows of a node, `up` its process, `task` and `leave` the rebalance, `op` the call | one per request and per poll of ten kinds of calls, a start with a custom port and an upgrade of all nodes among them; the primary may be down; lost answers, failed rebalances and automatic failover are external |
| `GatewayVars` | the ten copies of the code that turns flags and versions into a gateway's settings | none: operators, each the common rules and what that copy does differently | |
| `Gateways` | start, stop, restart, upgrade, redeploy, install (testkit and keywords), the push of database configurations, and the provisioning of the cluster | the cluster configuration (`flags`, `cfgVersion`, `cbs`), what the objects remember (`kw`; `made`, the flags of when the `Cluster` and its objects were made), the hosts, the running server, the operation and the shared dictionary (`push`), the databases (`store`) | the operations, then `RunPlaybook` with a failure of any host at any phase (the gateways' plays before the accelerators'), `Verify`, `PushGateway`, `PushDb`, `PushUsers`, `CleanCluster`, `InstallServer`, `InstallNginx` |
| `Users` | `user.py`, `parallelize.py`, the trackers and verifiers of the old test kit | the gateway's revisions and its lagging feed, the caches, one record for each thread, user, test and tracker | one per request; `in_parallel` collects its futures |
| `TestApp` | `TestServer*.py` and `LiteServ*.py` | what is on disk, on the device and on the port, the object with its process handle, the script under way | an operation is a script of steps (a command, a request, a check); `ScriptStep` runs the next one; the application comes up and dies by itself |
| `Replicator` | `CBLClient/Replication.py`: start, stop, `yield_for_replicator_connected`, `wait_until_replicator_idle` | the device's replicator (`level`, `doc`, `err`) and the locals of the wait | one per RPC; the device's actions are external |
| `Replications` | replications between gateways as `syncgateway.py`, `admin.py` and `MobileRestClient.py` use them | `task` (sg-replicate 1), `repl` (sg-replicate 2), the credentials `auth`, the call | one per request; the gateways' moves are external |
| `RestDocs` | the document operations of `MobileRestClient.py` | `revs`, the revision trees of the database, `bodies` (what a compaction has not dropped), and one record `cl[c]` for each thread | one per HTTP request, with what is done with its response; `RequestFails` stands for `raise_for_status` and time limits |

The `MC` modules give the constants their values. The `Proofs` modules hold the theorems
about the modules they extend, with the invariants and lemmas they rest on.
Definitions named in the comments as mutants are not part of the specification: each is a
plausible slip in the definition next to it, and TLC finds the property it is listed with
in `PROJECT.json` violated when it takes that definition's place.

Composition: `ClusterReset` runs `BucketAdmin` inside a reset; `Gateways` uses
`GatewayVars` for every file it deploys, and a provisioning runs the installation of the
gateways as its middle part; `NodePool` implements `ExclusivePool`. The other modules meet
through the products only (the gateway, the server), and each has its own small model of
what it sees of them.

Data are abstracted to what the properties tell apart: documents, nodes, buckets and
hosts are model values; a revision is a generation and an id; a version is a number; a
gateway's file is a record of the settings the flags decide, with the flags and versions
it was rendered for; what a push has still to serve is a set, taken in the order of the
lists; texts of errors are the
class the code sorts them into. `update_doc` with a revision or a body given by the
caller is left out of `RestDocs`: it is the same PUT without the GET. The `seq`
assertion of `verify_docs_in_changes` is left out, since the modelled database gives
every change a sequence of its own.

## Runs

| run | what it shows |
|---|---|
| `pool_overlap` | Two jobs and a cleanup that overlap freely. The CAS does protect something: a job that read a node as available and books it takes it from nobody (`SawFreeTookFree`). `HandsRight`: a job is handed as many nodes as it asked for, of the kind it asked for (`HandedInFull`), and after its release it is the recorded user of none of them (`ReleaseClears`). `HeldAlone`: a job has its nodes for itself, as long as none of the two blind writes of "Known divergences" hits them. |
| `pool_serial` | Invocations that never overlap, with failing replaces, dead nodes and aborted jobs: they implement the abstract pool (`KeepsPromise`, a refinement, exclusion included), and every invocation ends. |
| `changes_feed` | One feed, one waiter, a database with branches, repeated rows, failing requests and time limits. |
| `reset` | Three resets in a row under any fault and interruption, told to create the databases or not (`sgdb_creation`): postcondition, order of steps, memory, and the repair by a calm reset (on servers from 7.0 on). |
| `reset_ends` | A reset ends, with the code's own numbers of retries. |
| `replicator_waits` | A wait on a replicator that changes between any two reads: idle means done, incomplete means incomplete, a failure before the last round is reported, every call ends. |
| `rest_documents` | A writer and a second thread with all other operations, on two documents: no lost update, and what the compound operations and verifiers promise. `ConflictsGone`, `BulkStored`, `DeletedGone` and `Compacted` are stated for calls during which no other thread wrote, up to the next write; the other three hold under every interleaving. |
| `test_apps` | Eighteen platforms, two jobs, two versions: what start, stop and the chain of download, install and start promise when they return, whatever an earlier job left, and that an installation replaces the package and the process (`InstallReplaces`). |
| `gateways` | Two operations out of fifteen one after the other, the configuration rewritten in between, one fault anywhere: the ten copies agree, nothing talks to an encrypted server in the clear, what runs is what was deployed, a sequential upgrade stops at the first failure, a push leaves every database its own configuration, a provisioning that returns made the configuration true, and a gateway whose file a failed operation replaced is down or runs with the new one (`NewFileRuns`). |
| `server_nodes` | Five calls of ten kinds on three nodes with one fault, the primary up or down: a fitting call succeeds, `rebalance_in` has waited for what it asked for, `rebalance_out` has ejected the node, every call ends. |
| `users` | Two users, three documents, up to three calls, a tracker: caches, returned errors, threads, verifiers (with and without `ignore_rev_ids`) and trackers (which may time out) agree with the database, whichever GET, PUT or bulk request loses its answer. |
| `gateway_replications` | Three calls over replications of either generation, with one fault, which may refuse or lose a start: a wait that returns means that the documents moved, a reset looks at all again, a call without faults succeeds, every call ends. |

What belongs together is checked as one property, the conjunction of named parts that the
modules state and comment one by one:

| property | parts |
|---|---|
| `HandsRight` | `HandedInFull`, `ReleaseClears` |
| `RecordedRight`, `FeedEnds` (tracker) | `RecordedOnce`, `NoFalseAlarm`; `StopEnds`, `LimitEnds` |
| `ResetRight`, `SafeOrder` | `ResetPost`, `DeletedAll`; `QuietDelete`, `StartsOnBuckets` |
| `EndsTrue` (replicator) | `NoFalseIncomplete`, `FailureReported` |
| `ReturnsTrue`, `ChangesFollowed` (documents) | `ConflictsGone`, `BulkStored`, `Compacted`, `DeletedGone`; `ChangesVerified`, `NothingSkipped` |
| `RunsAsked`, `StopLeavesNothing` (applications) | `LiteServVersion`, `FreshChain`; `StopStops`, `StopClears` |
| `FilesRight`, `PushRight` (gateways) | `CopiesAgree`, `LoadedAgrees`, `EncryptedServer`; `PushExact`, `OidcKept` |
| `RebalanceTrue` | `InWaited`, `OutEjected` |
| `CallsTrue`, `VerifiersTrue` (users) | `CacheCurrent`, `ErrorsTrue`, `NoLateThread`; `VerifiedTrue`, `SameTrue`, `NoFalseAlarm` |
| `ReturnMeansDone` (replications) | `DoneMeansMoved`, `EmptyMeansOver`, `ResetLooksAgain` |

One property of each module also has the module's type invariant among its parts, except
in the pool, where `TypeOK` is checked, and proved, by itself.

### Bounds

- Pool: two machines and a device, two jobs that compete for both machines (one wants
  both), a third that is refused, one cleanup, one retry (`MaxRetry`, 5 in the code). Two
  processes are enough for a stale read; one retry for the counter to run out.
- Tracker: one document and one principal, three updates, two branches. Three updates are
  needed for a document to change before, between and after two polls.
- Reset: two buckets, two gateways, one accelerator, three resets (one to fail, one to be
  interrupted, one to repair), two rounds, tries and polls where the code has five;
  `reset_ends` has the five.
- Replicator: two documents, `max_times` 3, `max_idle_count` 2, one poll of quiet. The
  order 0 < Quiet < MaxIdle < MaxTimes is that of the code's 20 and 150; two documents
  let one finish while the other is moving.
- REST: two documents, three revisions ever, two updates a call. Three revisions are a
  document, its branch and the deletion of the branch, or two concurrent updates of one
  document. The writer has the five operations that change documents in every way; the
  second thread has all others and `update_doc`. Documents are interchangeable (symmetry);
  the run has no temporal property.
- Gateways: two gateways and an accelerator, two operations (what one leaves, the next
  finds), one fault, versions 2.0 and 3.0 (either side of every rule that the copies
  share, and of persistent configurations), servers 4.5 and 5.5 (either side of xattrs
  and of indexes), playbooks of at most four phases (`MaxPhases`), three flag sets that between them set all flags, three
  database configurations (one database; parts that grow; parts that are missing).
- Server nodes: a primary and two nodes (one to move, one to stay), five calls (out, in,
  fail, recover, rebalance), two tries, one fault.
- Users: two users, one with two documents (so that one thread of two fails), three
  calls, one fault.
- Test applications: one platform at a time, two jobs and two versions, which is one job
  and what it left for another.
- Replications: one replication or the four tasks of a pair of databases, one document
  each way, `max_times` 7 and `retry_max_count` 2: the double count of status `starting`
  can pass the limit, and counters can stand still for long enough.

### Fairness

Weak fairness is assumed for a process or thread that has been started, as its operating
system gives it, where every remote call is answered or times out: `Running` in the pool,
`RunStep` and `WaitStep` in the tracker, `ResetStep`, `Waiter`, and `CallStep` of the
server nodes and replications. Nothing makes a test call `stop`, a job release, or
anybody start. Of the products only this is assumed: a replication that has something to
move moves it in the end (`Moves`); an idle replicator with documents left wakes within
`Quiet` polls, and is at work until a poll has seen it (`max_idle_count` is that assumption
in the code); the query service answers with success in the end in `reset_ends`
(`QueryErrors = FALSE`), since the loop at `couchbaseserver.py:219` neither counts nor
waits for other answers and need not end otherwise. In `ServerNodes` the time limit is
fair with the call (`CallStep \/ Timeout`), since the waits are bounded by time only.

`CHECK_DEADLOCK FALSE` is given where the system may come to rest: all processes of the
pool ended, or the bound on calls reached in `Gateways`, `ServerNodes`, `Users`,
`Replications` and `TestApp`.

## Known divergences

Where the code does not do what its own words say, the properties above are stated as far
as they hold, and the limit is here:

- `mobile_server_pool.py:138`: `reserve_node` reads the document afresh and does not look
  at its state. A job whose query is older than another job's booking takes the node over:
  `KeepsPromise` fails in `NodePoolSerial.cfg` with `Overlap = TRUE`. In `HeldAlone` this is
  the exception `BooksBooked`.
- `cleanup_for_blocked_nodes` overwrites its parameter `job_name`, so the check for a
  running job is never made, and a cleanup releases nodes in use: add a cleaner to
  `NodePoolSerial.cfg`. In `HeldAlone` this is the exception `Unblocks`. `HeldAlone` says
  that there is no third way for two jobs to have one node.
- Two feeds on one `ChangesTracker`: the list stored last replaces the longer one
  (`Runs = {t1, t2}` in `ChangesFeed.cfg` violates `NothingMissed`).
- Before server 7.0 a refused DELETE leaves a bucket without its user, and every later
  reset fails at it (`OldServer = TRUE` in `Reset.cfg` violates `CalmResetSucceeds`).
- `wait_until_replicator_idle` reads the error before the level: a failure in between
  passes for completion; after `max_times` polls it returns without complaint.
- The second pass of `delete_conflicts`, documented as an assertion that no conflicts are
  left, asserts nothing.
- `rebalance_in` may return True with the node outside the cluster, when all five POSTs
  were refused or the rebalance failed (`InWaited` says what is left);
  `upgrade_server` waits for the primary and not for the node it upgraded.
- `wait_until_sgw_replication_done` counts status `starting` twice and may pass
  `max_times` without noticing; it then returns as if done (`GivesUpLate`).
- `send_dbconfig_as_restCall` deletes users, roles and OIDC from the one dictionary it
  has: from the second gateway on they are missing, and a database without a part gets
  the part of an earlier one. `PushExact` asks for every database's own users and roles all
  the same, unless it was not online when they were to be written (`skipped`); only that a
  database has nothing of another is not promised after such a configuration (`mixed`).
  `OidcKept` speaks of a single target.
- The redeployment's text for client certificates is no JSON (`brokenCert`).
- `start` of the Android TestServer does not compare the version of what answers, which
  is why `FreshChain` leaves Android out; the install loop on an emulator (line 117) ends on
  an exception only. It is modelled as it stands, and `InstallReplaces` leaves it out.
- The playbooks of the Java servers kill the old process with `ignore_errors: yes`. A
  process that outlives the kill of a start (`Survives`) holds the port, and what answers
  afterwards may be the old version: such a chain is not counted in `did`, so `FreshChain`
  does not speak of it.
- Exit status 1 of `adb uninstall` is taken for success (`TestServerAndroid.py:231`), the
  application still there. With `using_devicectl` the start of an iOS application launches
  whatever is installed (`TestServeriOS.py:325`).
- `upgrade-sgw-package.yml` has two `tasks` keys, and YAML keeps the second: an upgrade by
  package alone installs it under a running gateway, without the stop.
- A `Cluster` object keeps the flags of when it was made (`made`, `KeptFlags`): its `reset`
  renders `cbsSsl`, `xattrs` and `ssl` from them although the cluster configuration has
  changed since.
- `load_sync_gateway_config` passes `hide_prod_version`, the templates read
  `hide_product_version`: it is never rendered, and `hide` is FALSE in `LoadVars`.
- `start(custom_port=True)` returns without waiting for the node (`couchbaseserver.py:836`):
  `FitSucceeds` promises only that the process was started.
- `recover` retries after an HTTP error only; a lost connection ends it
  (`couchbaseserver.py:817`).
- `verify_changes` with `ignore_rev_ids` (`verify.py:227`) passes over caches that are
  behind: `VerifiedTrue` asks them to have the document, at any revision.
- `reset(sgdb_creation=False)` pushes no database, also with persistent configuration
  (`cluster.py:369`): `ResetPost` then says that none was pushed since the gateways
  started.
- A reset of a replication that raised after its first request leaves the replication
  stopped, and one that raised after its second also without its checkpoint.
- `start_sync_gateways` deploys a file and leaves a running gateway with the old one.

## Proofs

Eight modules hold theorems: `NodePoolProofs`, `ChangesTrackerProofs`,
`ClusterResetProofs`, `WaitsProofs` (the replicator and the server nodes, whose calls
poll), `RestDocsProofs`, `ReplicationsProofs`, `GatewaysProofs` and `ClientsProofs` (the
users and the test applications). All are proved for every value of the constants (any number of nodes, jobs, documents, revisions, buckets, hosts, polls, calls
and faults), from the `ASSUME` of the component's module, which TLC evaluates in the runs,
and from the hypotheses that a theorem states. The pattern is the same everywhere: an
inductive invariant, checked by TLC on the bounds of the run before it was proved; a lemma
for the initial states; a lemma for every action or group of actions, with a step for
every part of the invariant that the action can disturb; and a temporal step by PTL.

**Node pool.**

- `PoolTypeCorrect`: `TypeOK`, with overlap, faults and cleanups allowed. The
  strengthening is `CurOK`: a process that is about to read or write a document has a
  node at hand; without it the type of `doc` is lost at the write to `cur[p]`.
- `OverlapExclusive`: `HeldAlone` for any number of jobs and cleanups that interleave freely,
  with faults and crashes. What a job holds begins at the replace that books a node, before
  the node is listed (`Holds`). A booking by a read that saw the node available meets an
  available document (`FreshSeen`), and an available document is that of a node that nobody
  holds, or that is marked (`AvailableUnheld`); a write over a node that a job holds is a
  blind write or the job's own release; and a mark stays while anybody holds the node.
  `ListsOK` says that an idle job has nothing in its lists, and that the node a release is
  at is not among those still to be released.
- `ReserveIsCompareAndSwap`: the action property `SawFreeTookFree` under every
  interleaving; `FreshSeen` says that a read whose CAS is still current is what the
  bucket holds.
- `HandsAreRight`: `HandsRight` under every interleaving; `Cleared` strengthens
  `ReleaseClears` to a release that is half done.
- `SerialKeepsPromise`: the refinement of `ExclusivePool`, for use of the script by one
  invocation at a time (`~Overlap`, `Cleaners = {}`) and jobs with names of their own
  (`NamesDiffer`: the script tells jobs apart by name only). Nothing in the code enforces
  these hypotheses, and the first two known divergences show that they are needed; the
  result is what a deployment gains that serialises its jobs, and `pool_serial` checks it.
  `SerialInv` says that what a job holds in any phase is booked for it and disjoint from
  what others hold, and that the rows its loop has still to visit are as available as the
  query found them; with `HandsInv` and `RowFree` (the node a job is about to book is free)
  every action is `Book`, `Hand`, `GiveBack`, `Free` or a stutter.

**Changes tracker**, for an only feed (`OneFeed`: at most one thread runs `start`, which
the third known divergence shows to be needed).

- `FeedMissesNothing` (`NothingMissed`) and `FeedRecordsRight` (`RecordedRight`): `FeedInv`
  says where every sequence number up to `since` is: recorded, or in the rows that are
  still to be processed.
- `WaitUntilSound` (`WaitSound`): the loop of `wait_until` looks at one document after the
  other, so `WaitInv` keeps what it has found, and `SeenGrows` says that records only grow.

**Buckets and reset.**

- `ResetIsRight` (`ResetRight`) and `ResetOrderSafe` (`SafeOrder`): `ResetInv` says, for
  every place in `Cluster.reset` and in the `delete_buckets` and `create_buckets` it calls,
  what of the server and of the hosts has been established so far and cannot be undone by
  a request that is carried out late.
- `MemoryShared` (`NeverOverCommits`): `SharesOK` says that every bucket created so far has
  the share `Ram \div Cardinality(wanted)`. What is allocated is a sum over a set of
  buckets; `SumOfEqual` proves that a sum of equal numbers is a product, by the least
  counterexample among the parts of a finite set (`LeastPart`), which well-founded
  induction on subsets provides without an operator as its parameter. `RoomLeft` then is
  arithmetic.
- `CalmResetRecovers` (`CalmResetSucceeds`): `CalmInv` says of a reset that began after the
  last fault how far `delete_buckets` is in its first or second round, while deletions of
  earlier resets are still being carried out; a creation cannot be refused for memory
  because of `RoomLeft`. `CalmAssumption` is what it needs of the constants: a server that
  takes its users with its buckets (see the fourth known divergence), two rounds (the code
  has five), a gateway to start, and an accelerator if a configuration asks for one.
  `Reset.cfg` satisfies it.

**Replicator waits.**

- `WaitEndsTrue` (`EndsTrue`) and `IdleWaitMeansDone` (`IdleMeansDone`): the waits read
  level, total and completed one after the other from a replicator that goes on. `EndsInv`
  and `IdleInv` relate what was read to what can have happened since: documents only go
  forward, a stopped replicator stands still, and while documents are left the count of
  idle polls is bounded by how long the replicator has been quiet (`Patience`).
  `ReplicatorAssumption` has `Quiet < MaxIdle`, which is what `max_idle_count` assumes of
  a replicator, and at least one poll.

**REST client: documents.**

- `NoUpdateLost` (`UpdatesCounted`), `FeedIsFollowed` (`ChangesFollowed`) and
  `NormalReturnsTrue` (`ReturnsTrue`), with no hypothesis beyond `RestAssumption`, under
  every interleaving of any number of threads. `RestInv` has three parts: the revision
  tree is well formed (`Grown`: ids are unique, children are longer than their parents,
  a leaf that wins is unique), each thread's locals belong to its operation (`Local`),
  and what a call has promised so far is kept for the documents it is through with
  (`KeptFor`, up to the next write of another thread). `StoreEffect` and `PurgeEffect`
  prove once what a write does to the tree; every action then uses them.

**Server nodes.**

- `RebalanceIsTrue` (`RebalanceTrue`) and `FitCallsSucceed` (`FitSucceeds`): `ServerInv`
  says for every phase of every call what the cluster knows of the node it is about, also
  when an answer was lost and a POST is repeated; `PhaseFits`, `InKept`, `OutKept` and
  `FitKept` are its parts.

**Replications between gateways.**

- `WaitGivesUpLate` (`GivesUpLate`): a direction's `retry` counter never runs ahead of the
  polls in which nothing moved (`WaitOK`), because a document that moved since the last
  poll shows as progress in the next one.
- `ReturnedIsDone` (`ReturnMeansDone`): a replication that stopped of itself has looked at
  what was there when it was started (`ReplsOK`), and only a call starts one, so what a
  wait or a status poll saw is still so when it returned (`DoneOK`). A reset puts the
  checkpoint back to the first document while the replication is stopped (`look` is zero
  before the last request), so all that it has looked at when the call returns it has
  looked at in the run the reset began (`look = sent`).
- `CalmCallsSucceed` (`CalmSucceeds`): `CalmOK` carries through the requests of a call what
  made it fit; for a reset this is that the replication stays stopped between its three
  requests.

**Gateways.** One invariant, `GwInv`, carries all six theorems. `GatewayAssumption` is
the only assumption: there is a gateway, no host is both a gateway and an accelerator, the
databases of a configuration are different, versions are positive.

- `GatewaysFilesRight` (`FilesRight`): every copy of the rules gives the core settings that
  the flags and the version ask for (`RenderedGood`, from one lemma for each copy on
  `GatewayVars`), every file on a gateway was rendered by one of them (`GoodFile`), and so
  was what a test loaded (`GoodLoaded`). An upgrade leaves xattrs out for a server older
  than 5.0, and its file stays on the disk after the server was upgraded. The property as
  it was first stated looked at the server of the moment, and a third operation breaks
  that; a file now records the server it was rendered for (`cbs`).
- `GatewaysRunTheirFiles` (`RunsItsFile`): a playbook with status 0 went through all of its
  phases on every host (`DoesAll`), and the ones in question stop the gateway first, so the
  start cannot find it running (`AfterSuccess`). `RunsOK` keeps this through the rest of
  the operation, in which a gateway can die but not start.
- `UpgradesInOrder` (`UpgradeInOrder`): `UpgradeOK` says that what is left of the loop is
  the end of the list of gateways, and that those before it have the new version.
- `PushesRight` (`PushRight`): `PushOK` says, between any two requests, that the users and
  the roles of every database are in its dictionary still, at the database, about to be
  written, or skipped (`UsersOK`), that nothing is left in the dictionary for a database
  the gateway was told of (`TakenOK`), for one gateway where the OpenID Connect part is
  (`OidcOK`) and, while no database lacks a part that an earlier one has, that databases
  were told their own configuration (`ToldOK`) and that the parts last seen belong to the
  database at hand (`PartsOK`).
- `ProvisionedRight` (`Provisioned`): `ProvisionOK` holds what each of its steps has seen to;
  nothing is concluded from the cluster configuration, which was written beforehand.
- `NewFilesRun` (`NewFileRuns`, an action property): a phase that deploys a file comes after
  the one that stops the gateway in every playbook but those of a start and of a plain
  deployment, and a host that fails at a phase has gone through those before it.

**Users and verification.** `UsersAssumption` has finite, disjoint sequences of documents
for the users, a termination document that is none of them, and at least one update a call.

- `CallsAreTrue` (`CallsTrue`): `CacheCurrent` and `ErrorsTrue` speak of calls that have
  ended, and `UsersInv` of those under way. `CurrentOK`: the cache of a user that has not
  raised is current but for the document of a thread whose answer was lost, and that
  thread makes its call raise. `UpdatesOK`: a thread's rounds left and the revision it has
  reached add up to the updates asked for, so that an HTTPError in any round leaves the
  document short of them. `CallsOK`: threads run inside the call of their user, and that
  inside `in_parallel`. `ThreadForms` reduces every request of a thread, answered, refused
  or lost, to one of three forms.
- `VerifiersAreTrue` (`VerifiersTrue`): between the start of `verify_changes` and its last
  user nothing is written (`VerifyOK`), `AskedOK` bounds every revision by the updates asked
  for, and a match of the feed with `expected` means that all have theirs, and that the
  caches have them too unless revisions are ignored
  (`MatchComplete`, `CompleteMatches`). `SameOK` is the same for `verify_same_docs`.
- `TrackerHasAll` (`TrackedAll`, an action property): `PollOK` says of a tracker that polls
  that it has what the feed numbers up to its `since`, at the revision the feed shows, that
  `since` is not ahead of the feed, that numbers belong to single documents, and that a
  feed that lags has the missing documents queued. `NumberedTracked` proves it for
  documents that enter the feed, at once or when it catches up.

**Test applications.** `AppAssumption` has the platforms that the factories know (they raise
for any other), and versions that are not the model's marks for "none" and "any". What an
operation has done is told by what is left of its script, so the parts of `AppInv` speak of
the set `Left` of the steps still to take: `CallOK` says that they are steps of the script of
the operation, `PortOK` that a port answers with the version of the process, `HandleOK` that
the object has a handle for the local process it started. `Follows` has the two places where
the order matters: the version is compared right after the wait for the port, and only
`put_stop` can be skipped. `StepForms` reduces every step of every script, also one that
fails, to two forms, `Ended` and `Moved`; one lemma for every class lists its scripts
(`AndroidScripts`, ...), and one says which steps they have (`AndroidTable`, ...).

- `StopsLeaveNothing` (`StopLeavesNothing`): `StopDone(L)` says, for each kind of stop, that
  the step that ends the process, the one that checks the port or the one that clears the
  data is still in `L` or has had its effect; no step of a stop starts a process, but for
  `put_stop` of the iOS LiteServ, which opens no port.
- `StartsRunAsked` (`RunsAsked`): `AnswerDone(L)` says that the wait is still to come, or only
  the comparison, with the answer of the process that runs. `ChainOK` follows a package from
  the download to the process: `did` counts the operations that returned, and each count has
  its place (the package on disk, the service, the process) at the version asked for. The
  download that finds a package returns early, which is why `ChainOK` also says that a
  package with a version in its name has that version.

Only model-checked, and why:

- liveness (`InvocationEnds`, `FeedEnds`, `ResetEnds`, `CallsEnd`, `CallEnds`): the prover
  has neither fairness nor ENABLED;
- `InstallReplaces`: the runs cover every platform, two jobs and two versions; an invariant
  of the installation scripts like those of start and stop would be needed to prove it.

## Not modelled

`PROJECT.json` lists every part with its status. Left out:

- document generators (`libraries/data/doc_generators.py`): constant sample bodies;
- cloud instances (`ec2.py`): calls of a provider whose semantics are not in the
  repository;
- the generation and editing of cluster configuration files: text before a run; what the
  configuration says is state of `Gateways`;
- REST calls of one request whose answer is returned as it is (databases, sessions,
  attachments, views), and the RPC client, which has no state but remote handles;
- log scanning and report parsing, monitoring and plots, SSH and logging: pure I/O;
- the applications under `apps/`, and the test suites, which are the clients of the
  framework and appear as the environment of the modules.
