------------------------------ MODULE RestDocs ------------------------------
(***************************************************************************)
(* The document operations of keywords/MobileRestClient.py.  Every         *)
(* operation is a sequence of HTTP requests to a database that keeps a     *)
(* tree of revisions for each document; between two requests of one test   *)
(* thread, other threads and replications change the same documents.  One  *)
(* step of a client is one request with what is done with its response.    *)
(***************************************************************************)
EXTENDS Integers, FiniteSets, FiniteSetsExt

CONSTANTS
    Clients,    \* threads that use the client
    Docs,
    Does,       \* for every client, the operations that it calls
    MaxRevs,    \* bound on the revisions ever made
    MaxUpdates  \* bound on number_updates of update_doc

Ids == 1..MaxRevs
Operations == {"update_doc", "update_doc_with_content", "put_doc", "add_conflict",
               "delete_docs", "delete_conflicts", "add_docs", "add_bulk_docs",
               "delete_bulk_docs", "purge_docs", "compact_database",
               "verify_docs_deleted", "verify_docs_present", "verify_open_revs",
               "verify_docs_in_changes", "get_bulk_docs"}

ASSUME RestAssumption ==
    /\ MaxRevs \in Nat /\ MaxUpdates \in Nat
    /\ Does \in [Clients -> SUBSET Operations]

VARIABLES
    revs,     \* revisions in the database
    used,     \* revision ids ever given to a document
    bodies,   \* revisions whose bodies are available
    seq,      \* for every document, the sequence of its last change
    cl        \* the operation each client is in

database == <<revs, used, bodies, seq>>
vars == <<database, cl>>

Revisions == [doc : Docs, id : Ids, parent : {0} \union Ids, gen : Ids,
              past : SUBSET Ids, dead : BOOLEAN, updates : 0..MaxRevs, by : {"add", "update", "other"}]

-----------------------------------------------------------------------------
(* The database: not part of the code                                      *)

Tree(d)   == {r \in revs : r.doc = d}
Leaves(d) == {r \in Tree(d) : \A s \in Tree(d) : s.parent # r.id}
Live(d)   == {r \in Leaves(d) : ~r.dead}
IsLeaf(d, i) == \E r \in Leaves(d) : r.id = i

\* Of two leaves, a live one wins over a dead one, then the longer history,
\* then the greater digest.
Beats(r, s) ==
    \/ ~r.dead /\ s.dead
    \/ r.dead = s.dead /\ r.gen > s.gen
    \/ r.dead = s.dead /\ r.gen = s.gen /\ r.id > s.id
Winner(d)    == CHOOSE r \in Leaves(d) : \A s \in Leaves(d) \ {r} : Beats(r, s)
Readable(d)  == Live(d) # {}
Conflicts(d) == {r.id : r \in Live(d)} \ (IF Readable(d) THEN {Winner(d).id} ELSE {})
LastSeq      == Max({seq[d] : d \in Docs})

\* The digest of a new revision is smaller or greater than those before it.
NewIds == IF used = Ids THEN {} ELSE {Min(Ids \ used), Max(Ids \ used)}

Parent(d, i) == {r \in Tree(d) : r.id = i}

\* A revision is stored under an id of its own, as the document's next change.
Store(d, parent, dead, updates, by, i) ==
    /\ i \in NewIds
    /\ revs' = revs \union
         {[doc |-> d, id |-> i, parent |-> parent, dead |-> dead,
           updates |-> updates, by |-> by,
           past |-> UNION {r.past \union {parent} : r \in Parent(d, parent)},
           gen |-> 1 + Cardinality(UNION {r.past \union {parent} : r \in Parent(d, parent)})]}
    /\ used' = used \union {i} /\ bodies' = bodies \union {i}
    /\ seq' = [seq EXCEPT ![d] = LastSeq + 1]

-----------------------------------------------------------------------------
(* Clients                                                                 *)

\* at: the next request; todo: the documents not done yet; args: the
\* documents of the call, each with a revision (0: none); rev, num, left and
\* pend: local variables; bad: an error row was met; since: of
\* the changes feed; quiet: no one else wrote since the call; ok: it returned.
NoCall == [op |-> "none", at |-> "idle", args |-> <<>>, todo |-> {}, d |-> "none",
           rev |-> 0, num |-> 0, left |-> 0, pend |-> {}, bad |-> FALSE,
           since |-> 0, quiet |-> TRUE, ok |-> FALSE]

Init ==
    /\ revs = {} /\ used = {} /\ bodies = {}
    /\ seq = [d \in Docs |-> 0]
    /\ cl = [c \in Clients |-> NoCall]

At(c, place) == cl[c].at = place
Goes(c, r)   == cl' = [cl EXCEPT ![c] = r]
Reads(c, r)  == Goes(c, r) /\ UNCHANGED database

\* A call returns; what it was about stays for the record that the properties speak of,
\* until someone else writes.
Recorded == {"delete_conflicts", "add_docs", "add_bulk_docs", "delete_bulk_docs",
             "compact_database", "verify_docs_deleted", "verify_docs_in_changes"}
Returned(r) == IF r.quiet /\ r.op \in Recorded
               THEN [NoCall EXCEPT !.op = r.op, !.args = r.args, !.ok = TRUE]
               ELSE NoCall
Return(c)   == Reads(c, Returned(cl[c]))
Raise(c)    == Reads(c, NoCall)

\* The client writes, and disturbs what the others are doing.
Writes(c, r) ==
    cl' = [x \in Clients |-> IF x = c THEN r
                             ELSE IF At(x, "idle") THEN NoCall
                             ELSE [cl[x] EXCEPT !.quiet = FALSE]]

Call(c, op, place, Args) ==
    /\ At(c, "idle") /\ op \in Does[c]
    /\ \E args \in Args :
         Reads(c, [NoCall EXCEPT !.op = op, !.at = place, !.args = args,
                                 !.todo = DOMAIN args])

\* Arguments: some documents, with revisions that the test knows, or with none
NoRevs  == {[d \in S |-> 0] : S \in (SUBSET Docs) \ {{}}}
AllRevs == UNION {[S -> Ids] : S \in (SUBSET Docs) \ {{}}}
HasRevs == {a \in AllRevs : \A d \in DOMAIN a : \E r \in Tree(d) : r.id = a[d]}

\* raise_for_status, or the time limit of a polling loop
RequestFails(c) == ~At(c, "idle") /\ Raise(c)

\* get_doc: the winning revision, with its history and its conflicts, or 404.
GetDoc(c, d, then) == IF Readable(d) THEN Reads(c, then) ELSE Raise(c)

-----------------------------------------------------------------------------
(* update_doc: GET, then number_updates times PUT                          *)

CallUpdateDoc(c) ==
    /\ At(c, "idle") /\ "update_doc" \in Does[c]
    /\ \E d \in Docs, n \in 1..MaxUpdates :
         Reads(c, [NoCall EXCEPT !.op = "update_doc", !.at = "get", !.d = d, !.left = n])

GetForUpdate(c) ==
    /\ At(c, "get")
    /\ LET me == cl[c] IN
       GetDoc(c, me.d, [me EXCEPT !.at = "put", !.num = Winner(me.d).updates + 1,
                                  !.rev = Winner(me.d).id])

\* Mutant: an update that conflicts is repeated on the current revision, with
\* the body it has.
PutUpdateAnyway(c) ==
    /\ At(c, "put") /\ Readable(cl[c].d)
    /\ LET me == cl[c]
           on == IF IsLeaf(me.d, me.rev) THEN me.rev ELSE Winner(me.d).id
       IN  \E i \in NewIds :
             /\ Store(me.d, on, FALSE, me.num, "update", i)
             /\ Writes(c, IF me.left = 1 THEN Returned(me)
                          ELSE [me EXCEPT !.rev = i, !.num = @ + 1, !.left = @ - 1])

PutUpdate(c) ==
    /\ At(c, "put")
    /\ LET me == cl[c] IN
       IF IsLeaf(me.d, me.rev)
       THEN \E i \in NewIds :
             /\ Store(me.d, me.rev, FALSE, me.num, "update", i)
             /\ Writes(c, IF me.left = 1 THEN Returned(me)
                          ELSE [me EXCEPT !.rev = i, !.num = @ + 1, !.left = @ - 1])
       ELSE Raise(c)

\* update_doc_with_content: GET, then PUT of the body with one key changed.
CallUpdateContent(c) ==
    /\ At(c, "idle") /\ "update_doc_with_content" \in Does[c]
    /\ \E d \in Docs :
         Reads(c, [NoCall EXCEPT !.op = "update_doc_with_content", !.at = "get_content", !.d = d])

GetContent(c) ==
    /\ At(c, "get_content")
    /\ LET me == cl[c] IN
       GetDoc(c, me.d, [me EXCEPT !.at = "put_body", !.num = Winner(me.d).updates,
                                  !.rev = Winner(me.d).id])

\* put_doc: a body of the test, on a revision that it knows.
CallPutDoc(c) ==
    /\ At(c, "idle") /\ "put_doc" \in Does[c]
    /\ \E r \in revs :
         Reads(c, [NoCall EXCEPT !.op = "put_doc", !.at = "put_body", !.d = r.doc,
                                 !.rev = r.id, !.num = r.updates])

PutDoc(c) ==
    /\ At(c, "put_body")
    /\ LET me == cl[c] IN
       IF IsLeaf(me.d, me.rev)
       THEN /\ \E i \in NewIds : Store(me.d, me.rev, FALSE, me.num, "other", i)
            /\ Writes(c, Returned(me))
       ELSE Raise(c)

-----------------------------------------------------------------------------
(* add_conflict: GET, then PUT with new_edits=false                        *)

CallAddConflict(c) ==
    /\ At(c, "idle") /\ "add_conflict" \in Does[c]
    /\ \E r \in revs :
         Reads(c, [NoCall EXCEPT !.op = "add_conflict", !.at = "get_body",
                                 !.d = r.doc, !.rev = r.id])

GetForConflict(c) ==
    /\ At(c, "get_body")
    /\ GetDoc(c, cl[c].d, [cl[c] EXCEPT !.at = "put_branch",
                                         !.num = Winner(cl[c].d).updates])

PutConflict(c) ==
    /\ At(c, "put_branch")
    /\ \E i \in NewIds : Store(cl[c].d, cl[c].rev, FALSE, cl[c].num, "other", i)
    /\ Writes(c, Returned(cl[c]))

-----------------------------------------------------------------------------
(* delete_doc, delete_docs and delete_conflicts                            *)

\* The DELETE of a revision: refused if it is not a leaf.
DeleteRev(c, d, i, after) ==
    IF IsLeaf(d, i)
    THEN /\ \E j \in NewIds : Store(d, i, TRUE, 0, "other", j)
         /\ Writes(c, after)
    ELSE Raise(c)

CallDeleteDocs(c) == Call(c, "delete_docs", "get_latest", NoRevs)

GetLatest(c) ==
    /\ At(c, "get_latest")
    /\ \E d \in cl[c].todo :
         GetDoc(c, d, [cl[c] EXCEPT !.at = "delete", !.d = d, !.rev = Winner(d).id])

DeleteDoc(c) ==
    /\ At(c, "delete")
    /\ LET me == cl[c] IN
       DeleteRev(c, me.d, me.rev,
                 IF me.todo = {me.d} THEN Returned(me)
                 ELSE [me EXCEPT !.at = "get_latest", !.todo = @ \ {me.d}, !.d = "none", !.rev = 0])

CallDeleteConflicts(c) == Call(c, "delete_conflicts", "get_conflicts", NoRevs)

\* Mutant: the list is taken to begin with the winner, and its first entry is
\* skipped.
GetConflictsRest(c) ==
    /\ At(c, "get_conflicts")
    /\ \/ /\ cl[c].todo = {}
          /\ Reads(c, [cl[c] EXCEPT !.at = "recheck", !.todo = DOMAIN cl[c].args])
       \/ \E d \in cl[c].todo :
            GetDoc(c, d, [cl[c] EXCEPT !.at = "delete_conflict", !.d = d, !.todo = @ \ {d},
                                !.pend = Conflicts(d) \ {Max(Conflicts(d) \union {0})}])

GetConflicts(c) ==
    /\ At(c, "get_conflicts")
    /\ \/ /\ cl[c].todo = {}
          /\ Reads(c, [cl[c] EXCEPT !.at = "recheck", !.todo = DOMAIN cl[c].args])
       \/ \E d \in cl[c].todo :
            GetDoc(c, d, [cl[c] EXCEPT !.at = "delete_conflict", !.d = d, !.todo = @ \ {d},
                                       !.pend = Conflicts(d)])

DeleteConflict(c) ==
    /\ At(c, "delete_conflict")
    /\ LET me == cl[c] IN
       IF me.pend = {}
       THEN Reads(c, [me EXCEPT !.at = "get_conflicts", !.d = "none"])
       ELSE \E i \in me.pend : DeleteRev(c, me.d, i, [me EXCEPT !.pend = @ \ {i}])

\* The second pass gets every document again.  It looks for _conflicts in the
\* document it was called with, which has none, and not in the response.
Recheck(c) ==
    /\ At(c, "recheck")
    /\ \/ cl[c].todo = {} /\ Return(c)
       \/ \E d \in cl[c].todo :
            GetDoc(c, d, [cl[c] EXCEPT !.todo = @ \ {d}])

-----------------------------------------------------------------------------
(* add_docs: one PUT for each document                                     *)

CallAddDocs(c) == Call(c, "add_docs", "add", NoRevs)

\* add_doc: a name that is taken is refused, and ends add_docs.
AddDoc(c) ==
    /\ At(c, "add")
    /\ \E d \in cl[c].todo :
         IF Readable(d) THEN Raise(c)
         ELSE /\ \E j \in NewIds :
                   Store(d, IF Tree(d) # {} THEN Winner(d).id ELSE 0, FALSE, 0, "add", j)
              /\ Writes(c, IF cl[c].todo = {d} THEN Returned(cl[c])
                           ELSE [cl[c] EXCEPT !.todo = @ \ {d}])

-----------------------------------------------------------------------------
(* _bulk_docs: rows succeed or fail one by one; an error row raises at the *)
(* end.                                                                    *)

CallAddBulk(c)    == Call(c, "add_bulk_docs", "bulk", NoRevs)
CallDeleteBulk(c) == Call(c, "delete_bulk_docs", "bulk", HasRevs)

\* A new document needs a free id, a deletion the current revision.
RowAccepted(d, i) == IF i = 0 THEN ~Readable(d) ELSE IsLeaf(d, i)

BulkRow(c) ==
    /\ At(c, "bulk")
    /\ \E d \in cl[c].todo :
         LET me == cl[c]
             i  == me.args[d]
         IN  IF RowAccepted(d, i)
             THEN /\ \E j \in NewIds :
                       Store(d, IF i = 0 /\ Tree(d) # {} THEN Winner(d).id ELSE i,
                             i # 0, 0, IF i = 0 THEN "add" ELSE "other", j)
                  /\ Writes(c, [me EXCEPT !.todo = @ \ {d}])
             ELSE Reads(c, [me EXCEPT !.todo = @ \ {d}, !.bad = TRUE])

BulkDone(c) ==
    /\ At(c, "bulk") /\ cl[c].todo = {}
    /\ IF cl[c].bad THEN Raise(c) ELSE Return(c)

\* purge_docs: one request for every document; nothing of it is left.
CallPurgeDocs(c) == Call(c, "purge_docs", "purge", NoRevs)

PurgeDoc(c) ==
    /\ At(c, "purge")
    /\ \E d \in cl[c].todo :
         /\ revs' = revs \ Tree(d) /\ bodies' = bodies \ {r.id : r \in Tree(d)}
         /\ UNCHANGED <<used, seq>>
         /\ Writes(c, IF cl[c].todo = {d} THEN Returned(cl[c])
                      ELSE [cl[c] EXCEPT !.todo = @ \ {d}])

\* compact_database: POST _compact, the list of the documents, and for each of them the
\* revisions of its history that are available.  Histories are shorter than 20 here, so
\* that one pass decides.
CallCompact(c) ==
    /\ At(c, "idle") /\ "compact_database" \in Does[c]
    /\ Reads(c, [NoCall EXCEPT !.op = "compact_database", !.at = "compact"])

\* The database drops the bodies of old revisions, all or some of them.
PostCompact(c) ==
    /\ At(c, "compact")
    /\ LET old == {i \in bodies : \A r \in revs : r.id = i => ~IsLeaf(r.doc, i)} IN
         \E kept \in SUBSET old : bodies' = (bodies \ old) \union kept
    /\ Goes(c, [cl[c] EXCEPT !.at = "all_docs"])
    /\ UNCHANGED <<revs, used, seq>>

AllDocs(c) ==
    /\ At(c, "all_docs")
    /\ Reads(c, [cl[c] EXCEPT !.at = "revs_info", !.todo = {d \in Docs : Readable(d)},
                              !.args = [d \in {e \in Docs : Readable(e)} |-> 0]])

Available(d) == bodies \intersect (Winner(d).past \union {Winner(d).id})

RevsInfo(c) ==
    /\ At(c, "revs_info")
    /\ \/ cl[c].todo = {} /\ Return(c)
       \/ \E d \in cl[c].todo :
            IF Readable(d) /\ Cardinality(Available(d)) # 1 THEN Raise(c)
            ELSE GetDoc(c, d, [cl[c] EXCEPT !.todo = @ \ {d}])

-----------------------------------------------------------------------------
(* The polling verifications                                               *)

\* verify_docs_deleted: a pass over the documents, until one finds none.
CallVerifyDeleted(c) == Call(c, "verify_docs_deleted", "look", NoRevs)

LookAtDoc(c) ==
    /\ At(c, "look")
    /\ \E d \in cl[c].todo :
         IF Tree(d) = {} THEN Raise(c)  \* 404, but with another reason
         ELSE Reads(c, [cl[c] EXCEPT !.todo = @ \ {d}, !.bad = @ \/ Readable(d)])

LookDone(c) ==
    /\ At(c, "look") /\ cl[c].todo = {}
    /\ IF cl[c].bad
       THEN Reads(c, [cl[c] EXCEPT !.todo = DOMAIN cl[c].args, !.bad = FALSE])
       ELSE Return(c)

\* verify_docs_present: repeated until every document has the revision.
CallVerifyPresent(c) == Call(c, "verify_docs_present", "bulk_get", HasRevs)

BulkGet(c) ==
    /\ At(c, "bulk_get")
    /\ \A d \in DOMAIN cl[c].args : Readable(d) /\ Winner(d).id = cl[c].args[d]
    /\ Return(c)

\* get_bulk_docs, which raises for a document that is not there.
CallGetBulkDocs(c) == Call(c, "get_bulk_docs", "bulk_get_all", NoRevs)

GetBulkDocs(c) ==
    /\ At(c, "bulk_get_all")
    /\ IF \A d \in DOMAIN cl[c].args : Readable(d) THEN Return(c) ELSE Raise(c)

\* verify_open_revs: the leaves of a document, deleted ones too, are those expected.
OpenRevs(d) == {r.id : r \in Leaves(d)}

CallVerifyOpenRevs(c) ==
    /\ At(c, "idle") /\ "verify_open_revs" \in Does[c]
    /\ \E d \in Docs :
         /\ Tree(d) # {}
         /\ Reads(c, [NoCall EXCEPT !.op = "verify_open_revs", !.at = "open_revs", !.d = d,
                                    !.pend = OpenRevs(d)])

VerifyOpenRevs(c) ==
    /\ At(c, "open_revs")
    /\ IF Tree(cl[c].d) # {} /\ OpenRevs(cl[c].d) = cl[c].pend THEN Return(c) ELSE Raise(c)

\* verify_docs_in_changes: to do are the documents that the feed has not yet
\* shown with the expected revision.
CallVerifyChanges(c) == Call(c, "verify_docs_in_changes", "changes", AllRevs)

\* get_changes: the documents changed since, each with its winning revision
Changed(since) == {d \in Docs : Tree(d) # {} /\ seq[d] > since}

\* The documents found are crossed out.
CrossOut(c, found, next) ==
    /\ At(c, "changes")
    /\ IF cl[c].todo \subseteq found THEN Return(c)
       ELSE Reads(c, [cl[c] EXCEPT !.todo = @ \ found, !.since = next])

\* With strict, one that is not looked for, or not any more, raises instead.
Unexpected(c) ==
    /\ At(c, "changes")
    /\ ~(Changed(cl[c].since) \subseteq cl[c].todo)
    /\ Raise(c)

Matching(c) == {d \in Changed(cl[c].since) \intersect cl[c].todo :
                    Winner(d).id = cl[c].args[d]}

\* Mutant: the next poll starts one after the last sequence.
GetChangesOneOff(c) == CrossOut(c, Matching(c), LastSeq + 1)

GetChanges(c) == CrossOut(c, Matching(c), LastSeq)

-----------------------------------------------------------------------------
Writer(c) ==
    \/ CallUpdateDoc(c) \/ GetForUpdate(c) \/ PutUpdate(c)
    \/ CallUpdateContent(c) \/ GetContent(c) \/ CallPutDoc(c) \/ PutDoc(c)
    \/ CallAddConflict(c) \/ GetForConflict(c) \/ PutConflict(c)
    \/ CallDeleteDocs(c) \/ GetLatest(c) \/ DeleteDoc(c)
    \/ CallDeleteConflicts(c) \/ GetConflicts(c) \/ DeleteConflict(c) \/ Recheck(c)
    \/ CallAddDocs(c) \/ AddDoc(c)
    \/ CallAddBulk(c) \/ CallDeleteBulk(c) \/ BulkRow(c) \/ BulkDone(c)
    \/ CallPurgeDocs(c) \/ PurgeDoc(c)
    \/ CallCompact(c) \/ PostCompact(c) \/ AllDocs(c) \/ RevsInfo(c)

Verifier(c) ==
    \/ CallVerifyDeleted(c) \/ LookAtDoc(c) \/ LookDone(c)
    \/ CallVerifyPresent(c) \/ BulkGet(c)
    \/ CallGetBulkDocs(c) \/ GetBulkDocs(c) \/ CallVerifyOpenRevs(c) \/ VerifyOpenRevs(c)
    \/ CallVerifyChanges(c) \/ GetChanges(c) \/ Unexpected(c)

Next == \E c \in Clients : Writer(c) \/ Verifier(c) \/ RequestFails(c)

Spec == Init /\ [][Next]_vars

-----------------------------------------------------------------------------
(* Properties                                                              *)

TypeOK ==
    /\ revs \subseteq Revisions /\ used \subseteq Ids /\ bodies \subseteq used
    /\ seq \in [Docs -> 0..MaxRevs]
    /\ \A c \in Clients :
         /\ cl[c].op \in Operations \union {"none"}
         /\ cl[c].todo \subseteq Docs /\ cl[c].pend \subseteq Ids
         /\ cl[c].rev \in {0} \union Ids /\ cl[c].num \in 0..(MaxRevs + 1)
         /\ cl[c].since \in 0..MaxRevs
         /\ cl[c].quiet \in BOOLEAN /\ cl[c].ok \in BOOLEAN

Ok(c, op) == cl[c].ok /\ cl[c].op = op

\* No update is lost: a revision made by update_doc counts one update more than
\* the revision it replaces, however the GETs and PUTs of several threads fall.
UpdatesCounted ==
    \A r, p \in revs : r.by = "update" /\ p.doc = r.doc /\ p.id = r.parent =>
        r.updates = p.updates + 1

\* delete_conflicts leaves no conflicts, and does not delete the document, as
\* long as no one else writes meanwhile.
ConflictsGone ==
    \A c \in Clients : Ok(c, "delete_conflicts") =>
        \A d \in DOMAIN cl[c].args : Readable(d) /\ Conflicts(d) = {}

\* add_docs, add_bulk_docs and delete_bulk_docs return normally only if each document was
\* stored or deleted by this call, although the request as a whole succeeds
\* when rows of it fail.
BulkStored ==
    \A c \in Clients : \A d \in DOMAIN cl[c].args :
        /\ Ok(c, "add_docs") \/ Ok(c, "add_bulk_docs") => Readable(d) /\ Winner(d).by = "add"
        /\ Ok(c, "delete_bulk_docs") =>
             \E r \in Leaves(d) : r.dead /\ r.parent = cl[c].args[d]

\* verify_docs_deleted is right about all the documents together, although it
\* looks at them one after another and repeats its passes.
DeletedGone ==
    \A c \in Clients : Ok(c, "verify_docs_deleted") =>
        \A d \in DOMAIN cl[c].args : ~Readable(d)

\* compact_database returns normally only if no document has an old revision left to
\* read, whatever the database did of its compaction, when no one else writes meanwhile.
Compacted ==
    \A c \in Clients : Ok(c, "compact_database") =>
        \A d \in Docs : Readable(d) => Available(d) = {Winner(d).id}

\* verify_docs_in_changes has seen every expected revision that it crossed out.
ChangesVerified ==
    \A c \in Clients : cl[c].op = "verify_docs_in_changes" =>
        \A d \in DOMAIN cl[c].args \ cl[c].todo : cl[c].args[d] \in used

\* A document that verify_docs_in_changes still looks for, and that has the
\* expected revision, is ahead of the sequence it will ask from: no change
\* falls between two polls.
NothingSkipped ==
    \A c \in Clients : At(c, "changes") =>
        \A d \in cl[c].todo :
            Tree(d) # {} /\ Winner(d).id = cl[c].args[d] => seq[d] > cl[c].since

\* An operation of several requests that returned normally has done what it says, or
\* seen what it verifies, when no one else wrote meanwhile and until someone writes.
ReturnsTrue == TypeOK /\ ConflictsGone /\ BulkStored /\ Compacted /\ DeletedGone

\* verify_docs_in_changes crosses out only what it has seen, and asks from where no change
\* is skipped, while other threads write between its polls.
ChangesFollowed == ChangesVerified /\ NothingSkipped

=============================================================================
