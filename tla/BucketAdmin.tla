----------------------------- MODULE BucketAdmin -----------------------------
(***************************************************************************)
(* The buckets of a Couchbase Server as a test administers them:           *)
(* delete_buckets and create_buckets of keywords/couchbaseserver.py, with  *)
(* the helpers they call.  The client is one thread of requests; the       *)
(* server may refuse a request, drop the connection, or carry a request    *)
(* out although it answered with an error, and it drops the indexes of a   *)
(* deleted bucket some time later.                                         *)
(***************************************************************************)
EXTENDS Naturals, FiniteSets, FiniteSetsExt

CONSTANTS
    Buckets,
    None,
    OldServer,    \* version < "7.0.0": delete_bucket first deletes the RBAC user
    Ram,          \* _get_effective_ram_mb: what the buckets may share
    MaxRounds,    \* max_retries of delete_buckets (5)
    MaxTries,     \* max_retries of delete_bucket, and of the requests (5)
    MaxPolls,     \* checks of indexes and of prepared statements (5)
    Lose,         \* the requests during which the connection may break
    Refuse,       \* the requests that may be answered with an error status
    Late,         \* may the server carry a request out after it answered?
    QueryErrors   \* may the query service answer without success?

\* Where an operation can be; requests are named after the place they are made at.
Places == {"ok", "raised", "round", "names", "each", "user", "delete", "verify", "index",
           "purge", "prepareds", "indexes", "existing", "ram", "create", "adduser", "ready"}

ASSUME AdminAssumption ==
    /\ IsFiniteSet(Buckets) /\ None \notin Buckets
    /\ Lose \subseteq Places /\ Refuse \subseteq Places
    /\ {Ram, MaxRounds, MaxTries, MaxPolls} \subseteq Nat \ {0}
    /\ {OldServer, Late, QueryErrors} \subseteq BOOLEAN

VARIABLES
    exists,    \* buckets of the server
    dying,     \* those among them that it is still deleting
    users,     \* RBAC users, each named after its bucket
    quota,     \* [Buckets -> the memory it was created with]
    indexed,   \* buckets that have indexes, the deleted ones too until they are dropped
    prepared,  \* are there prepared statements in the query service?
    faulty,    \* does it still meet the faults that the constants allow?
    op,        \* the operation under way, or the last one
    pc,        \* where it is; "ok" when it returned, "raised" when it raised
    wanted,    \* bucket_names of create_buckets
    todo,      \* buckets its loop has still to visit
    cur,       \* the bucket at hand
    round,     \* count of delete_buckets
    tries,     \* the counter of the request that is being repeated
    fails,     \* num_failures > 0
    ram        \* per_bucket_ram_mb

server == <<exists, dying, users, quota, indexed, prepared, faulty>>
client == <<op, pc, wanted, todo, cur, round, tries, fails, ram>>
vars == <<server, client>>

AdminInit ==
    /\ exists = {} /\ dying = {} /\ users = {}
    /\ quota = [b \in Buckets |-> 0]
    /\ indexed = {} /\ prepared = FALSE /\ faulty = TRUE
    /\ op = "none" /\ pc = "ok"
    /\ wanted = {} /\ todo = {} /\ cur = None
    /\ round = 0 /\ tries = 0 /\ fails = FALSE /\ ram = 0

Allocated == MapThenSumSet(LAMBDA b : quota[b], exists)

Returned == pc \in {"ok", "raised"}

\* The operation goes on at l, with a new counter for the request made there.
At(l) == pc' = l /\ tries' = 0

\* The caller goes on: the local variables of the operation are gone.
Forget ==
    /\ wanted' = {} /\ todo' = {} /\ cur' = None
    /\ round' = 0 /\ tries' = 0 /\ fails' = FALSE /\ ram' = 0

Raise == pc' = "raised" /\ UNCHANGED tries

-----------------------------------------------------------------------------
(* What happens on the server meanwhile                                    *)

\* Sync Gateway or a test builds indexes and prepares statements on a bucket.
Index(b) ==
    /\ Returned /\ b \in exists
    /\ indexed' = indexed \cup {b}
    /\ prepared' = TRUE
    /\ UNCHANGED <<faulty, exists, dying, users, quota, client>>

\* The indexer drops the indexes of a bucket that is gone.
DropIndex(b) ==
    /\ b \in indexed \ exists
    /\ indexed' = indexed \ {b}
    /\ UNCHANGED <<faulty, exists, dying, users, quota, prepared, client>>

\* A deletion that was answered early is finished.
FinishDelete(b) ==
    /\ b \in dying
    /\ exists' = exists \ {b} /\ dying' = dying \ {b}
    /\ UNCHANGED <<faulty, users, quota, indexed, prepared, client>>

\* The server handles the DELETE of bucket b, now or (if Late) some time later.
ServerDeletes(b) ==
    \/ exists' = exists \ {b} /\ dying' = dying \ {b}
    \/ Late /\ faulty /\ b \in exists /\ dying' = dying \cup {b} /\ UNCHANGED exists

\* From now on nothing goes wrong any more.
Calm ==
    /\ faulty /\ faulty' = FALSE
    /\ UNCHANGED <<exists, dying, users, quota, indexed, prepared, client>>

\* May the request made here be refused, or lost?
Refused == faulty /\ pc \in Refuse
Lost == faulty /\ pc \in Lose

-----------------------------------------------------------------------------
(* get_bucket_names                                                        *)

\* Where the list of buckets is read: at the head of a round, to verify that they
\* are gone, and before buckets are created.
GetBucketNames ==
    /\ \/ /\ pc = "names"
          /\ todo' = exists
          /\ fails' = FALSE
          /\ At(IF exists = {} THEN "verify" ELSE "each")
       \/ /\ pc = "verify"
          /\ pc' = (IF exists = {} THEN "index" ELSE "raised") /\ tries' = 0
          /\ UNCHANGED <<todo, fails>>
       \/ /\ pc = "existing"
          /\ todo' = wanted \ exists
          /\ At(IF wanted \subseteq exists THEN "ok" ELSE "ram")
          /\ UNCHANGED fails
    /\ UNCHANGED <<server, op, wanted, cur, round, ram>>

\* A lost connection is retried, up to max_retries; an error status raises.
GetBucketNamesFails ==
    /\ pc \in {"names", "verify", "existing"}
    /\ \/ Lost /\ tries' = tries + 1 /\ pc' = (IF tries + 1 = MaxTries THEN "raised" ELSE pc)
       \/ Refused /\ Raise
    /\ UNCHANGED <<server, op, wanted, todo, cur, round, fails, ram>>

-----------------------------------------------------------------------------
(* delete_buckets and delete_bucket                                        *)

DeleteBuckets ==
    /\ Returned /\ op' = "delete"
    /\ round' = 0
    /\ At("round")
    /\ UNCHANGED <<server, wanted, todo, cur, fails, ram>>

\* The head of a round: give up after max_retries of them.
Round ==
    /\ pc = "round"
    /\ IF round = MaxRounds THEN Raise ELSE At("names")
    /\ UNCHANGED <<server, op, wanted, todo, cur, round, fails, ram>>

\* delete_bucket for the next bucket of the list.
NextBucket ==
    /\ pc = "each"
    /\ \E b \in todo :
        /\ cur' = b
        /\ todo' = todo \ {b}
    /\ At(IF OldServer THEN "user" ELSE "delete")
    /\ UNCHANGED <<server, op, wanted, round, fails, ram>>

\* The version of the server, read before the bucket is deleted, cannot be had.
VersionFails ==
    /\ pc = "each" /\ (Lost \/ Refused)
    /\ \E b \in todo :
        /\ cur' = b
        /\ todo' = todo \ {b}
    /\ fails' = TRUE
    /\ UNCHANGED <<server, op, pc, tries, wanted, round, ram>>

\* _delete_internal_rbac_bucket_user, on old servers only.  Whatever is not a 200
\* raises at its first request, a 404 for a user that does not exist too: delete_bucket
\* is left and the failure is counted.  An error may answer a deletion that was done.
DeleteUser ==
    /\ pc = "user"
    /\ \/ /\ cur \in users
          /\ users' = users \ {cur}
          /\ At("delete")
          /\ UNCHANGED fails
       \/ /\ cur \notin users \/ Refused
          /\ fails' = TRUE
          /\ At("each")
          /\ users' \in {users, users \ {cur}}
    /\ UNCHANGED <<faulty, exists, dying, quota, indexed, prepared, op, wanted, todo, cur, round, ram>>

\* A lost connection is caught there, but the response it then looks at is None.
DeleteUserLost ==
    /\ pc = "user" /\ Lost
    /\ users' \in {users, users \ {cur}}
    /\ Raise
    /\ UNCHANGED <<faulty, exists, dying, quota, indexed, prepared, op, wanted, todo, cur, round, fails, ram>>

\* DELETE of the bucket is answered with 200.
DeleteBucket ==
    /\ pc = "delete" /\ cur \in exists
    /\ ServerDeletes(cur)
    /\ At("each")
    /\ UNCHANGED <<faulty, users, quota, indexed, prepared, op, wanted, todo, cur, round, fails, ram>>

\* Another status (404 when the bucket is gone): repeated, then raised and counted.
DeleteRefused ==
    /\ pc = "delete"
    /\ cur \notin exists \/ Refused
    /\ UNCHANGED <<exists, dying>> \/ (Late /\ faulty /\ ServerDeletes(cur))
    /\ tries' = tries + 1
    /\ pc' = (IF tries + 1 = MaxTries THEN "each" ELSE pc)
    /\ fails' = (fails \/ tries + 1 = MaxTries)
    /\ UNCHANGED <<faulty, users, quota, indexed, prepared, op, wanted, todo, cur, round, ram>>

\* The connection is lost: counted at once.
DeleteLost ==
    /\ pc = "delete" /\ Lost
    /\ UNCHANGED <<exists, dying>> \/ ServerDeletes(cur)
    /\ fails' = TRUE
    /\ At("each")
    /\ UNCHANGED <<faulty, users, quota, indexed, prepared, op, wanted, todo, cur, round, ram>>

\* Mutant: a round in which anything failed is the last one.
RoundDoneGivesUp ==
    /\ pc = "each" /\ todo = {}
    /\ At(IF fails THEN "raised" ELSE "verify")
    /\ round' = (IF fails THEN round + 1 ELSE round)
    /\ UNCHANGED <<server, op, wanted, todo, cur, fails, ram>>

\* The list is done: another round if anything failed.
RoundDone ==
    /\ pc = "each" /\ todo = {}
    /\ At(IF fails THEN "round" ELSE "verify")
    /\ round' = (IF fails THEN round + 1 ELSE round)
    /\ UNCHANGED <<server, op, wanted, todo, cur, fails, ram>>

\* Wait for the indexer to report no index any more; after MaxPolls go on anyway.
PollIndex ==
    /\ pc = "index"
    /\ IF indexed = {} \/ tries + 1 = MaxPolls THEN At("purge") ELSE pc' = pc /\ tries' = tries + 1
    /\ UNCHANGED <<server, op, wanted, todo, cur, round, fails, ram>>

\* delete from system:prepareds, and from system:indexes, which cannot be deleted from.
\* The answers are not looked at.
Purge ==
    /\ pc = "purge"
    /\ prepared' \in {FALSE} \cup (IF faulty /\ QueryErrors THEN {prepared} ELSE {})
    /\ At("prepareds")
    /\ UNCHANGED <<faulty, exists, dying, users, quota, indexed, op, wanted, todo, cur, round, fails, ram>>

\* Mutant: the wait for the indexes to go is never given up.
PollQueryForever ==
    /\ pc \in {"prepareds", "indexes"}
    /\ LET left == IF pc = "prepareds" THEN prepared ELSE indexed # {} IN
       IF left THEN pc' = pc /\ UNCHANGED tries
               ELSE At(IF pc = "prepareds" THEN "indexes" ELSE "ok")
    /\ UNCHANGED <<server, op, wanted, todo, cur, round, fails, ram>>

\* Check the prepared statements, then the indexes; after MaxPolls go on anyway.  An
\* answer without success is neither counted nor slept on: the request is repeated at
\* once, which changes nothing here.
PollQuery ==
    /\ pc \in {"prepareds", "indexes"}
    /\ LET left == IF pc = "prepareds" THEN prepared ELSE indexed # {} IN
       IF left /\ tries + 1 < MaxPolls
       THEN pc' = pc /\ tries' = tries + 1
       ELSE At(IF pc = "prepareds" THEN "indexes" ELSE "ok")
    /\ UNCHANGED <<server, op, wanted, todo, cur, round, fails, ram>>

\* Any of these requests raises when the connection is lost.
ChecksFail ==
    /\ pc \in {"index", "purge", "prepareds", "indexes"} /\ Lost
    /\ Raise
    /\ UNCHANGED <<server, op, wanted, todo, cur, round, fails, ram>>

-----------------------------------------------------------------------------
(* create_buckets and create_bucket                                        *)

CreateBuckets(W) ==
    /\ Returned /\ op' = "create"
    /\ wanted' = W
    /\ At("existing")
    /\ UNCHANGED <<server, todo, cur, round, fails, ram>>

\* get_ram_per_bucket: the memory divided by the buckets that will be created.
GetRamPerBucket ==
    /\ pc = "ram"
    /\ ram' = Ram \div Cardinality(todo)
    /\ At("create")
    /\ UNCHANGED <<server, op, wanted, todo, cur, round, fails>>

\* The server cannot be asked, or no node reports its memory in five attempts.
GetRamFails ==
    /\ pc = "ram" /\ (Lost \/ Refused)
    /\ Raise
    /\ UNCHANGED <<server, op, wanted, todo, cur, round, fails, ram>>

\* POST of the next bucket: the server has room for it.
CreateBucket ==
    /\ pc = "create"
    /\ \E b \in todo :
        /\ Allocated + ram <= Ram
        /\ exists' = exists \cup {b}
        /\ quota' = [quota EXCEPT ![b] = ram]
        /\ cur' = b
        /\ todo' = todo \ {b}
    /\ At("adduser")
    /\ UNCHANGED <<faulty, dying, users, indexed, prepared, op, wanted, round, fails, ram>>

\* The server has no room for it, refuses, or is lost: the exception goes up.
CreateBucketFails ==
    /\ pc = "create"
    /\ \E b \in todo :
        /\ Allocated + ram > Ram \/ Refused \/ Lost
        /\ \/ UNCHANGED <<exists, quota>>
           \/ /\ Late /\ faulty /\ Allocated + ram <= Ram
              /\ exists' = exists \cup {b}
              /\ quota' = [quota EXCEPT ![b] = ram]
    /\ Raise
    /\ UNCHANGED <<faulty, dying, users, indexed, prepared, op, wanted, todo, cur, round, fails, ram>>

\* _create_internal_rbac_user_request: PUT of the user.
CreateUser ==
    /\ pc = "adduser"
    /\ users' = users \cup {cur}
    /\ At("ready")
    /\ UNCHANGED <<faulty, exists, dying, quota, indexed, prepared, op, wanted, todo, cur, round, fails, ram>>

\* An error status is retried, up to max_retries; a lost connection is not.  The user
\* may have been stored all the same.
CreateUserFails ==
    /\ pc = "adduser"
    /\ \/ Refused /\ tries' = tries + 1 /\ pc' = (IF tries + 1 = MaxTries THEN "raised" ELSE pc)
       \/ Lost /\ Raise
    /\ users' \in {users, users \cup {cur}}
    /\ UNCHANGED <<faulty, exists, dying, quota, indexed, prepared, op, wanted, todo, cur, round, fails, ram>>

\* wait_for_ready_state: it polls until all nodes are healthy, or raises.
WaitForReadyState ==
    /\ pc = "ready"
    /\ \/ At("create")
       \/ (Lost \/ Refused) /\ Raise
    /\ UNCHANGED <<server, op, wanted, todo, cur, round, fails, ram>>

\* The loop of create_buckets is over.
CreateDone ==
    /\ pc = "create" /\ todo = {}
    /\ At("ok")
    /\ UNCHANGED <<server, op, wanted, todo, cur, round, fails, ram>>

-----------------------------------------------------------------------------
\* A step of the operation that is under way.
OpStep ==
    \/ GetBucketNames \/ GetBucketNamesFails
    \/ Round \/ NextBucket \/ VersionFails \/ DeleteUser \/ DeleteUserLost
    \/ DeleteBucket \/ DeleteRefused \/ DeleteLost \/ RoundDone
    \/ PollIndex \/ Purge \/ PollQuery \/ ChecksFail
    \/ GetRamPerBucket \/ GetRamFails \/ CreateBucket \/ CreateBucketFails
    \/ CreateUser \/ CreateUserFails \/ WaitForReadyState \/ CreateDone

ServerStep == Calm \/ \E b \in Buckets : Index(b) \/ DropIndex(b) \/ FinishDelete(b)

-----------------------------------------------------------------------------
(* Properties                                                              *)

TypeOK ==
    /\ exists \subseteq Buckets /\ dying \subseteq exists /\ users \subseteq Buckets /\ indexed \subseteq Buckets
    /\ quota \in [Buckets -> 0..Ram]
    /\ prepared \in BOOLEAN /\ faulty \in BOOLEAN /\ fails \in BOOLEAN
    /\ op \in {"none", "delete", "create"} /\ pc \in Places
    /\ wanted \subseteq Buckets /\ todo \subseteq Buckets /\ cur \in Buckets \cup {None}
    /\ round \in 0..MaxRounds /\ tries \in 0..(MaxTries + MaxPolls)
    /\ ram \in 0..Ram

\* The server is never asked for more memory than it has.
NeverOverCommits ==
    (op = "create" /\ pc = "create" /\ todo # {}) => Allocated + ram <= Ram

=============================================================================
