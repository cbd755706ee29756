--------------------------------- MODULE Users ---------------------------------
(* The legacy users of libraries/testkit: User objects that add and update their    *)
(* documents with a pool of threads and cache the revisions they get (user.py), the *)
(* pool of threads over users (parallelize.py), the trackers of the changes feed,   *)
(* and the verifiers that compare caches, feed and trackers (verify.py), while a    *)
(* test may take the database offline (admin.py).  A revision is its generation:    *)
(* updates name their parent, so that histories are linear.                         *)
EXTENDS Naturals, Sequences, FiniteSets, SequencesExt

CONSTANTS
    Users,
    DocsOf,      \* for each user, the sequence of the names of its documents
    Fin,         \* the document that ends trackers
    NumRevs,     \* values of num_revisions ...
    TrackedRevs, \* ... and those of a test that tracks
    MaxCalls,    \* calls of the test, of those it makes by turns
    MaxFaults    \* requests refused or lost, times the database is taken offline

Own(u) == ToSet(DocsOf[u])
Docs == UNION {Own(u) : u \in Users}
AllDocs == Docs \cup {Fin}

ASSUME UsersAssumption ==
    /\ Fin \notin Docs /\ NumRevs \cup TrackedRevs \subseteq Nat \ {0}
    /\ IsFiniteSet(Docs) /\ \A u \in Users : DocsOf[u] \in Seq(Own(u))
    /\ \A u, v \in Users : u # v => Own(u) \cap Own(v) = {}

VARIABLES
    rev,      \* the gateway: revisions, 0 for no document
    lag,      \* the changes feed lags behind the writes
    queue,    \* documents whose writes are not in the feed yet, in the order of the writes
    feed,     \* the changes feed: for each document the last revision in it ...
    fseq,     \* ... and its sequence number
    online,   \* the database is online
    cache,    \* User.cache, 0 for no entry
    th,       \* the thread for a document
    uc,       \* the call under way of each user
    main,     \* the call the test makes
    tr,       \* a tracker, in a thread of its own
    asked,    \* updates the test has asked for
    calls, faults

gate == <<rev, lag, queue, feed, fseq, online>>
client == <<cache, th, uc>>
usersVars == <<gate, client, main, tr, asked, calls, faults>>

NoThread == [phase |-> "none", left |-> 0, read |-> 0]
NoCall == [kind |-> "none", phase |-> "idle", num |-> 0, errors |-> {},
           base |-> [d \in Docs |-> 0]]
Empty == [d \in AllDocs |-> 0]

UsersInit ==
    /\ rev = Empty /\ lag = FALSE /\ queue = <<>> /\ feed = Empty /\ fseq = Empty /\ online = TRUE
    /\ cache = [u \in Users |-> Empty]
    /\ th = [d \in Docs |-> NoThread]
    /\ uc = [u \in Users |-> NoCall]
    /\ main = [kind |-> "none", phase |-> "returned", todo |-> {}, right |-> FALSE,
               ignore |-> FALSE, clean |-> Users, expected |-> Empty]
    /\ tr = [kind |-> "none", phase |-> "off", since |-> 0, docs |-> Empty]
    /\ asked = 0 /\ calls = 0 /\ faults = 0

Fault == faults < MaxFaults /\ faults' = faults + 1

-----------------------------------------------------------------------------
(* The gateway                                                             *)

\* The changes feed has one entry for a document, its last revision.  Sequence numbers
\* are kept as long as a tracker looks at them: ds is in the order of the writes, the
\* last of which counts.
Numbered(ds) ==
    IF tr.phase # "poll" THEN fseq
    ELSE LET last == Max(Range(fseq)) IN
         [d \in AllDocs |-> IF d \in ToSet(ds) THEN last + Max({i \in DOMAIN ds : ds[i] = d})
                            ELSE fseq[d]]

\* The documents of ds get their next revisions, which enter the feed unless it lags.
Writes(ds) ==
    /\ rev' = [d \in AllDocs |-> IF d \in ds THEN rev[d] + 1 ELSE rev[d]]
    /\ IF lag
       THEN /\ queue' = IF tr.phase # "poll" THEN queue
                        ELSE queue \o SetToSeq(ds)
            /\ UNCHANGED <<feed, fseq>>
       ELSE feed' = rev' /\ fseq' = Numbered(SetToSeq(ds)) /\ UNCHANGED queue

\* The cache behind the feed falls behind, and catches up.
FallBehind ==
    /\ ~lag /\ Fault /\ lag' = TRUE
    /\ UNCHANGED <<rev, queue, feed, fseq, online, client, main, tr, asked, calls>>

CatchUp ==
    /\ lag /\ lag' = FALSE
    /\ feed' = rev /\ fseq' = Numbered(queue) /\ queue' = <<>>
    /\ UNCHANGED <<rev, online, client, main, tr, asked, calls, faults>>

\* take_db_offline and bring_db_online, from another thread of the test.
TakeDbOffline ==
    /\ online /\ Fault /\ online' = FALSE
    /\ main' = [main EXCEPT !.right = FALSE]
    /\ UNCHANGED <<rev, lag, queue, feed, fseq, client, tr, asked, calls>>

BringDbOnline ==
    /\ ~online /\ online' = TRUE
    /\ UNCHANGED <<rev, lag, queue, feed, fseq, client, main, tr, asked, calls, faults>>

-----------------------------------------------------------------------------
(* Threads of a user                                                       *)

Ends(d, how) == th' = [th EXCEPT ![d] = [NoThread EXCEPT !.phase = how]]

\* A round of update_doc is over.
NextRound(d) ==
    IF th[d].left = 1 THEN Ends(d, "ok")
    ELSE th' = [th EXCEPT ![d] = [phase |-> "get", left |-> th[d].left - 1, read |-> 0]]

\* add_doc: a document that is there, and a database that is offline, give an
\* HTTPError; a lost answer is an exception of another kind.
AddDoc(u, d) ==
    /\ th[d].phase = "add"
    /\ \/ /\ online /\ rev[d] = 0
          /\ Writes({d})
          /\ \/ /\ cache' = [cache EXCEPT ![u][d] = 1] /\ Ends(d, "ok")
                /\ UNCHANGED faults
             \/ Fault /\ Ends(d, "other") /\ UNCHANGED cache
       \/ /\ ~online \/ rev[d] # 0
          /\ Ends(d, "http") /\ UNCHANGED <<rev, queue, feed, fseq, cache, faults>>
    /\ UNCHANGED <<lag, online, uc, main, tr, asked, calls>>

\* Mutant: a GET that is not 200 is passed over.
UpdateGetSilent(u, d) ==
    /\ th[d].phase = "get"
    /\ IF online
       THEN th' = [th EXCEPT ![d] = [@ EXCEPT !.phase = "put", !.read = rev[d]]]
       ELSE NextRound(d)
    /\ UNCHANGED <<gate, cache, uc, main, tr, asked, calls, faults>>

\* update_doc, the GET of a round: raise_for_status at its end is all that is left of
\* an answer that is not 200.  A GET that times out is no HTTPError.
UpdateGet(u, d) ==
    /\ th[d].phase = "get"
    /\ \/ /\ online /\ th' = [th EXCEPT ![d] = [@ EXCEPT !.phase = "put", !.read = rev[d]]]
          /\ UNCHANGED faults
       \/ ~online /\ Ends(d, "http") /\ UNCHANGED faults
       \/ Fault /\ Ends(d, "other")
    /\ UNCHANGED <<gate, cache, uc, main, tr, asked, calls>>

\* update_doc, the PUT.  One that is refused leaves the body of the GET, without 'rev':
\* a ValueError, before raise_for_status.
UpdatePut(u, d) ==
    /\ th[d].phase = "put"
    /\ \/ /\ online /\ rev[d] = th[d].read
          /\ Writes({d})
          /\ \/ /\ cache' = [cache EXCEPT ![u][d] = rev'[d]]
                /\ NextRound(d) /\ UNCHANGED faults
             \/ Fault /\ Ends(d, "other") /\ UNCHANGED cache
       \/ /\ ~online \/ rev[d] # th[d].read
          /\ Ends(d, "other") /\ UNCHANGED <<rev, queue, feed, fseq, cache, faults>>
    /\ UNCHANGED <<lag, online, uc, main, tr, asked, calls>>

-----------------------------------------------------------------------------
(* Calls of a user                                                         *)

\* add_bulk_docs, one POST.  Rows that were refused have no 'rev': the documents after
\* the first of them are not entered in the cache, although they are stored, and a
\* KeyError ends the call.  A refused POST is an error like any other; a lost answer
\* is an exception, with all documents stored.
AddBulkDocs(u) ==
    /\ uc[u].phase = "bulk"
    /\ IF online
       THEN LET bad == {i \in 1..Len(DocsOf[u]) : rev[DocsOf[u][i]] # 0}
                entered == {DocsOf[u][i] : i \in {j \in 1..Len(DocsOf[u]) :
                                                   \A k \in bad : j < k}}
            IN /\ Writes({d \in Own(u) : rev[d] = 0})
               /\ \/ /\ cache' = [cache EXCEPT ![u] =
                                [d \in AllDocs |-> IF d \in entered THEN 1 ELSE @[d]]]
                     /\ uc' = [uc EXCEPT ![u].phase = IF bad = {} THEN "returned" ELSE "raised"]
                     /\ UNCHANGED faults
                  \/ Fault /\ uc' = [uc EXCEPT ![u].phase = "raised"] /\ UNCHANGED cache
       ELSE /\ uc' = [uc EXCEPT ![u].phase = "returned", ![u].errors = Own(u)]
            /\ UNCHANGED <<rev, queue, feed, fseq, cache, faults>>
    /\ UNCHANGED <<lag, online, th, main, tr, asked, calls>>

Busy(d) == th[d].phase \in {"add", "get", "put"}

\* The end of add_docs and update_docs.  HTTPErrors are collected; anything else leaves
\* the loop, and the pool waits for its threads before the exception goes on.
UserOutcome(u) ==
    /\ uc' = [uc EXCEPT ![u].phase = IF \E d \in Own(u) : th[d].phase = "other"
                                     THEN "raised" ELSE "returned",
                        ![u].errors = {d \in Own(u) : th[d].phase = "http"}]
    /\ UNCHANGED <<gate, cache, th, main, tr, asked, calls, faults>>

UserCallEnds(u) ==
    /\ uc[u].phase = "running" /\ \A d \in Own(u) : ~Busy(d)
    /\ UserOutcome(u)

-----------------------------------------------------------------------------
(* Calls of the test                                                       *)

MainEnded == main.phase \in {"returned", "raised"}

Begins(kind) ==
    /\ MainEnded /\ calls < MaxCalls /\ calls' = calls + 1
    /\ main' = [main EXCEPT !.kind = kind, !.phase = "running", !.todo = Users]

\* in_parallel(users, 'add_docs', num, bulk); tests that track add in bulk.
AddDocs(bulk) ==
    /\ Begins("add") /\ (bulk \/ tr.phase = "off")
    /\ uc' = [u \in Users |-> [NoCall EXCEPT !.kind = "add",
                                 !.phase = IF bulk THEN "bulk" ELSE "running"]]
    /\ th' = [d \in Docs |-> IF bulk THEN NoThread ELSE [NoThread EXCEPT !.phase = "add"]]
    /\ UNCHANGED <<gate, cache, tr, asked, faults>>

\* in_parallel(users, 'update_docs', num): the documents in the caches are updated.
UpdateDocs(num) ==
    /\ Begins("update") /\ asked' = asked + num
    /\ num \in IF tr.phase = "off" THEN NumRevs ELSE TrackedRevs
    /\ uc' = [u \in Users |-> [NoCall EXCEPT !.kind = "update", !.phase = "running",
                                 !.num = num, !.base = [d \in Docs |-> rev[d]]]]
    /\ th' = [d \in Docs |->
                IF \E u \in Users : cache[u][d] # 0
                THEN [NoThread EXCEPT !.phase = "get", !.left = num] ELSE NoThread]
    /\ UNCHANGED <<gate, cache, tr, faults>>

\* in_parallel returns, or raises when a call did, once all calls have ended.
InParallelEnds ==
    /\ main.kind \in {"add", "update"} /\ main.phase = "running"
    /\ \A u \in Users : uc[u].phase \in {"returned", "raised"}
    /\ LET bad == {u \in Users : uc[u].phase = "raised"} IN
         main' = [main EXCEPT !.phase = IF bad = {} THEN "returned" ELSE "raised",
                              !.clean = @ \ bad]
    /\ UNCHANGED <<gate, client, tr, asked, calls, faults>>

\* add_doc(termination_doc_id), by a user of its own.
AddFin ==
    /\ MainEnded /\ calls < MaxCalls /\ calls' = calls + 1
    /\ tr.phase # "off" /\ online /\ rev[Fin] = 0 /\ Writes({Fin})
    /\ main' = [main EXCEPT !.kind = "fin", !.phase = "returned"]
    /\ UNCHANGED <<lag, online, client, tr, asked, faults>>

\* expected_docs, which tests put together from the caches.
Expected == [d \in AllDocs |-> LET us == {u \in Users : cache[u][d] # 0} IN
                                 IF us = {} THEN 0 ELSE cache[CHOOSE u \in us : TRUE][d]]

\* All documents were added, got their updates, are in the feed and, with their
\* revisions unless these are ignored, in the caches.
AllRight(ignore) ==
    /\ \A u \in Users : \A d \in Own(u) :
         /\ rev[d] = 1 + asked
         /\ cache[u][d] # 0 /\ (ignore \/ cache[u][d] = rev[d])
    /\ rev[Fin] = 0 /\ ~lag /\ online

\* ignore_rev_ids is for documents that somebody else has updated.
VerifyChanges(ignore) ==
    /\ MainEnded /\ calls < MaxCalls /\ calls' = calls + 1 /\ tr.phase = "off"
    /\ main' = [main EXCEPT !.kind = "verify", !.phase = "running", !.todo = Users,
                            !.right = AllRight(ignore), !.ignore = ignore,
                            !.expected = Expected]
    /\ UNCHANGED <<gate, client, tr, asked, faults>>

InFeed == {d \in AllDocs : feed[d] # 0}

\* Mutant: only the names are compared.
ChangesMatchNames(expected, ignore) ==
    Cardinality(InFeed) = Cardinality(Docs) /\ InFeed = {d \in AllDocs : expected[d] # 0}

\* verify_changes for one user: numbers, names, revisions and numbers of updates; an
\* unknown name is a KeyError.
ChangesMatch(expected, ignore) ==
    /\ Cardinality(InFeed) = Cardinality(Docs)
    /\ {d \in AllDocs : expected[d] # 0} = InFeed
    /\ \A d \in InFeed : (ignore \/ expected[d] = feed[d]) /\ feed[d] = 1 + asked

VerifyUser(u) ==
    /\ main.kind = "verify" /\ main.phase = "running" /\ u \in main.todo
    /\ LET ok == online /\ ChangesMatch(main.expected, main.ignore) IN
         main' = [main EXCEPT !.todo = @ \ {u},
                              !.phase = IF ~ok THEN "raised"
                                        ELSE IF main.todo = {u} THEN "returned"
                                        ELSE "running"]
    /\ UNCHANGED <<gate, client, tr, asked, calls, faults>>

\* verify_same_docs: what a tracker returned against the caches.
VerifySameDocs ==
    /\ MainEnded /\ tr.phase = "done"
    /\ LET found == {d \in AllDocs : tr.docs[d] # 0} IN
         main' = [main EXCEPT
           !.kind = "same",
           !.phase = IF /\ Cardinality(found) = Cardinality(Docs)
                        /\ tr.docs = Expected
                     THEN "returned" ELSE "raised"]
    /\ UNCHANGED <<gate, client, tr, asked, calls, faults>>

-----------------------------------------------------------------------------
(* Trackers                                                                *)

StartTracking(kind) ==
    /\ tr.phase = "off" /\ calls = 0
    /\ tr' = [tr EXCEPT !.kind = kind, !.phase = "poll"]
    /\ UNCHANGED <<gate, client, main, asked, calls, faults>>

Newer == {d \in AllDocs : fseq[d] > tr.since}

Stored(ds) == [d \in AllDocs |-> IF d \in ds THEN feed[d] ELSE tr.docs[d]]

LastSeq == Max({fseq[d] : d \in AllDocs})

\* One answer of a longpoll: changes are stored up to the termination document.  An
\* empty answer polls again, or ends a tracker that is not to loop; one that is goes on
\* after a single change, which may be that of a user.
BeforeFin == {d \in Newer : Fin \notin Newer \/ fseq[d] < fseq[Fin]}

\* Mutant: since is taken from writes that the feed does not show yet.
LongpollLastWritten ==
    /\ tr.kind \in {"loop", "once"} /\ tr.phase = "poll" /\ online /\ Newer # {}
    /\ tr' = [tr EXCEPT !.docs = Stored(BeforeFin),
                        !.since = LastSeq + Len(queue),
                        !.phase = IF Fin \in Newer THEN "done" ELSE "poll"]
    /\ UNCHANGED <<gate, client, main, asked, calls, faults>>

Longpoll ==
    /\ tr.kind \in {"loop", "once"} /\ tr.phase = "poll" /\ online
    /\ Newer # {} \/ tr.kind = "once"
    /\ tr' = [tr EXCEPT
         !.docs = Stored(BeforeFin),
         !.since = LastSeq,
         !.phase = IF Fin \in Newer THEN "done"
                   ELSE IF tr.kind = "once" /\ Cardinality(Newer) # 1 THEN "gone"
                   ELSE "poll"]
    /\ UNCHANGED <<gate, client, main, asked, calls, faults>>

\* One line of a continuous feed: the next change.
Continuous ==
    /\ tr.kind = "continuous" /\ tr.phase = "poll" /\ online /\ Newer # {}
    /\ LET d == CHOOSE e \in Newer : \A f \in Newer : fseq[e] <= fseq[f] IN
         tr' = IF d = Fin THEN [tr EXCEPT !.phase = "done"]
               ELSE [tr EXCEPT !.docs = Stored({d}), !.since = fseq[d]]
    /\ UNCHANGED <<gate, client, main, asked, calls, faults>>

\* An answer that is not 200 raises in a longpoll and ends a continuous feed, whose
\* caller cannot tell; loop_timeout, looked at before every poll, ends a longpoll likewise.
TrackerStops ==
    /\ tr.phase = "poll" /\ (~online \/ tr.kind # "continuous")
    /\ tr' = [tr EXCEPT !.phase = IF ~online /\ tr.kind # "continuous" THEN "raised"
                                  ELSE "gone"]
    /\ UNCHANGED <<gate, client, main, asked, calls, faults>>

-----------------------------------------------------------------------------
WorkStep ==
    \/ \E u \in Users : \/ \E d \in Own(u) : AddDoc(u, d) \/ UpdateGet(u, d) \/ UpdatePut(u, d)
                        \/ AddBulkDocs(u) \/ UserCallEnds(u) \/ VerifyUser(u)
    \/ InParallelEnds

UsersNext ==
    \/ WorkStep
    \/ \E bulk \in BOOLEAN : AddDocs(bulk)
    \/ \E num \in NumRevs \cup TrackedRevs : UpdateDocs(num)
    \/ \E ignore \in BOOLEAN : VerifyChanges(ignore)
    \/ AddFin \/ VerifySameDocs
    \/ \E kind \in {"loop", "once", "continuous"} : StartTracking(kind)
    \/ Longpoll \/ Continuous \/ TrackerStops
    \/ FallBehind \/ CatchUp \/ TakeDbOffline \/ BringDbOnline

UsersSpec == UsersInit /\ [][UsersNext]_usersVars

-----------------------------------------------------------------------------
(* Properties                                                              *)

UsersTypeOK ==
    /\ \A d \in AllDocs : feed[d] <= rev[d]
    /\ \A u \in Users : \A d \in AllDocs : cache[u][d] <= rev[d]
    /\ \A d \in Docs : th[d].phase \in {"none", "add", "get", "put", "ok", "http", "other"}
    /\ \A u \in Users :
         uc[u].phase \in {"idle", "bulk", "running", "returned", "raised"}
    /\ main.phase \in {"running", "returned", "raised"}
    /\ tr.phase \in {"off", "poll", "done", "gone", "raised"}

\* As long as no call of a user has raised, its cache has the current revisions of its
\* documents when it is at rest, whatever was refused: tests expect the cache in the feed.
CacheCurrent ==
    \A u \in main.clean : uc[u].phase = "returned" =>
        \A d \in Own(u) : cache[u][d] = rev[d]

\* The errors that update_docs returns are the documents that did not get all their
\* updates, and the others got theirs.
ErrorsTrue ==
    \A u \in Users : uc[u].kind = "update" /\ uc[u].phase = "returned"
                       /\ main.kind = "update" =>
        \A d \in Own(u) : th[d].phase # "none" =>
            (rev[d] = uc[u].base[d] + uc[u].num <=> d \notin uc[u].errors)

\* When in_parallel has returned or raised, no thread of it writes any more.
NoLateThread == main.kind \in {"add", "update"} /\ MainEnded => \A d \in Docs : ~Busy(d)

\* verify_changes passes only when all documents have all their updates at the gateway
\* and are in the caches: errors of calls before, and a feed that lags, make it fail.
\* Only with ignore_rev_ids may a cache be behind, as the test that passes it expects.
VerifiedTrue ==
    main.kind = "verify" /\ main.phase = "returned" =>
        \A u \in Users : \A d \in Own(u) : 
            /\ rev[d] = 1 + asked
            /\ cache[u][d] # 0 /\ (main.ignore \/ cache[u][d] = rev[d])

\* verify_same_docs, after calls that returned, passes only when the tracker has the
\* current revision of every document: no update came after what it was told.
SameTrue ==
    main.kind = "same" /\ main.phase = "returned" /\ main.clean = Users =>
        \A d \in Docs : tr.docs[d] = rev[d]

\* ... and it does not fail when all is right and the feed has caught up.
NoFalseAlarm == main.kind = "verify" /\ main.right => main.phase # "raised"

\* A tracker that is ended by the termination document has every document at the
\* revision the feed had before it.
TrackedAll ==
    [][tr.phase = "poll" /\ tr'.phase = "done" =>
         \A d \in Docs : fseq[d] # 0 /\ fseq[d] < fseq[Fin] => tr'.docs[d] = feed[d]]_usersVars

\* What calls over many threads leave is true: the caches, the errors they return, and
\* that they are over.
CallsTrue == UsersTypeOK /\ CacheCurrent /\ ErrorsTrue /\ NoLateThread

\* The verifiers are right, when they pass and when they fail, although the feed lags.
VerifiersTrue == VerifiedTrue /\ SameTrue /\ NoFalseAlarm

=============================================================================
