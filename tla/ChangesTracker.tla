--------------------------- MODULE ChangesTracker ---------------------------
(***************************************************************************)
(* keywords/ChangesTracker.py: threads of a test that follow the _changes  *)
(* feed of a database by long polling, and threads that wait until the     *)
(* documents they expect have been seen.                                   *)
(*                                                                         *)
(* All calls of start share one object: the dictionary processed_changes   *)
(* and the flag cancel.  A list of revisions is a Python object: a call    *)
(* reads the reference in one step and uses it in a later one.  A call     *)
(* creates at most one list per document, so that lists are named after    *)
(* the call that created them.                                             *)
(*                                                                         *)
(* The database (Sync Gateway) is external: every update of a document     *)
(* takes the next sequence number; a feed row holds all its leaf revisions *)
(* (style=all_docs), and a row of a user or role document holds none.      *)
(***************************************************************************)
EXTENDS Naturals, FiniteSets

CONSTANTS
    Docs,        \* document ids
    Principals,  \* the ids among them whose rows carry no changes
    Branches,    \* tells revisions of one generation apart
    MaxSeq,      \* bound on the updates of the database
    Runs,        \* calls of start
    Waiters,     \* calls of wait_until
    Prefix,      \* [Waiters -> BOOLEAN], the argument rev_prefix_gen
    None,
    Conflicts,   \* do updates create conflicting branches?
    Resend,      \* does the server send rows again (sync_gateway issue 2186)?
    Faults,      \* may requests time out or fail?
    Deadlines    \* may the time limits of the loops be reached?

Revs == (1..MaxSeq) \X Branches

ASSUME TrackerAssumption ==
    /\ MaxSeq \in Nat
    /\ Principals \subseteq Docs
    /\ None \notin Runs
    /\ Runs \cap Waiters = {}
    /\ Prefix \in [Waiters -> BOOLEAN]
    /\ {Conflicts, Resend, Faults, Deadlines} \subseteq BOOLEAN

VARIABLES
    seq,      \* the last sequence number the database assigned
    seqOf,    \* [Docs -> sequence of the last update, 0 if there was none]
    leaves,   \* [Docs -> leaf revisions]
    ever,     \* [Docs -> all revisions]
    pc,       \* where each call of start or wait_until is
    since,    \* current_seq_num of each call of start
    last,     \* last_seq of the response it is processing
    snap,     \* the changes of each row of that response
    todo,     \* its rows still to be processed
    cur,      \* the row at hand, and for wait_until the document it looks at
    ref,      \* the list that row found in the dictionary (None: not in it)
    expired,  \* the loop's time limit is reached
    dict,     \* processed_changes: the list of each document, None if absent
    lists,    \* [Docs -> [Runs -> [Revs -> how often it is in that list]]]
    cancel,   \* self.cancel
    expect,   \* expected_docs of each call of wait_until
    missing,  \* missing_docs
    repeated  \* the runs to which the server has sent a row again

serverVars == <<seq, seqOf, leaves, ever>>
runVars == <<since, last, snap, ref>>
waitVars == <<expect, missing>>
vars == <<serverVars, pc, runVars, todo, cur, expired, dict, lists, cancel, waitVars, repeated>>

Threads == Runs \cup Waiters

Goto(t, l) == pc' = [pc EXCEPT ![t] = l]

\* The revisions recorded for a document.
Seen(d) == IF dict[d] = None THEN {} ELSE {r \in Revs : lists[d][dict[d]][r] > 0}

Init ==
    /\ seq = 0
    /\ seqOf = [d \in Docs |-> 0]
    /\ leaves = [d \in Docs |-> {}]
    /\ ever = [d \in Docs |-> {}]
    /\ pc = [t \in Threads |-> "idle"]
    /\ since = [t \in Runs |-> 0]
    /\ last = [t \in Runs |-> 0]
    /\ snap = [t \in Runs |-> [d \in Docs |-> {}]]
    /\ todo = [t \in Threads |-> {}]
    /\ cur = [t \in Threads |-> None]
    /\ ref = [t \in Runs |-> None]
    /\ expired = [t \in Threads |-> FALSE]
    /\ dict = [d \in Docs |-> None]
    /\ lists = [d \in Docs |-> [t \in Runs |-> [r \in Revs |-> 0]]]
    /\ cancel = FALSE
    /\ expect = [w \in Waiters |-> {}]
    /\ missing = [w \in Waiters |-> {}]
    /\ repeated = {}

-----------------------------------------------------------------------------
(* The database                                                            *)

\* A client adds a revision: a first one, a child of the leaf or, where conflicts
\* are allowed, of any revision.  A principal is updated without a revision.
Update(d) ==
    /\ seq < MaxSeq
    /\ seq' = seq + 1
    /\ seqOf' = [seqOf EXCEPT ![d] = seq + 1]
    /\ IF d \in Principals
       THEN UNCHANGED <<leaves, ever>>
       ELSE \E parent \in {<<0, None>>} \cup ever[d], b \in Branches :
              LET new == <<parent[1] + 1, b>> IN
              /\ new \notin ever[d]
              /\ ~Conflicts => IF parent[1] = 0 THEN leaves[d] = {} ELSE parent \in leaves[d]
              /\ leaves' = [leaves EXCEPT ![d] = (@ \ {parent}) \cup {new}]
              /\ ever' = [ever EXCEPT ![d] = @ \cup {new}]
    /\ UNCHANGED <<pc, runVars, todo, cur, expired, dict, lists, cancel, waitVars, repeated>>

-----------------------------------------------------------------------------
(* start and process_changes                                               *)

Start(t) ==
    /\ pc[t] = "idle"
    /\ since' = [since EXCEPT ![t] = 0]
    /\ Goto(t, "top")
    /\ UNCHANGED <<serverVars, last, snap, ref, todo, cur, expired, dict, lists, cancel, waitVars, repeated>>

\* The time limit of the loop passes.
Expire(t) ==
    /\ Deadlines /\ pc[t] \notin {"idle", "ended", "died", "alarm", "true", "false"}
    /\ ~expired[t]
    /\ expired' = [expired EXCEPT ![t] = TRUE]
    /\ UNCHANGED <<serverVars, pc, runVars, todo, cur, dict, lists, cancel, waitVars, repeated>>

\* Mutant: the loop does not look at the flag.
LoopTopDeaf(t) ==
    /\ pc[t] = "top"
    /\ Goto(t, IF expired[t] THEN "ended" ELSE "posted")
    /\ UNCHANGED <<serverVars, runVars, todo, cur, expired, dict, lists, cancel, waitVars, repeated>>

\* The head of the loop: leave it, or send the next request.
LoopTop(t) ==
    /\ pc[t] = "top"
    /\ Goto(t, IF cancel \/ expired[t] THEN "ended" ELSE "posted")
    /\ UNCHANGED <<serverVars, runVars, todo, cur, expired, dict, lists, cancel, waitVars, repeated>>

\* Mutant: last_seq is taken from the state of the database after the response.
RespondEarly(t) ==
    /\ pc[t] = "posted"
    /\ todo' = [todo EXCEPT ![t] = {d \in Docs : seqOf[d] > since[t] /\ seqOf[d] < seq}]
    /\ snap' = [snap EXCEPT ![t] = leaves]
    /\ last' = [last EXCEPT ![t] = seq]
    /\ Goto(t, "row")
    /\ UNCHANGED <<serverVars, since, cur, ref, expired, dict, lists, cancel, waitVars, repeated>>

\* The response: a row for each document updated after `since', or none when the
\* server gives up waiting for one.
Respond(t) ==
    /\ pc[t] = "posted"
    /\ \E again \in SUBSET Docs :
        /\ again # {} => Resend /\ \A d \in again : seqOf[d] \in 1..since[t]
        /\ todo' = [todo EXCEPT ![t] = {d \in Docs : seqOf[d] > since[t]} \cup again]
        /\ repeated' = (IF again = {} THEN repeated ELSE repeated \cup {t})
    /\ snap' = [snap EXCEPT ![t] = leaves]
    /\ last' = [last EXCEPT ![t] = seq]
    /\ Goto(t, "row")
    /\ UNCHANGED <<serverVars, since, cur, ref, expired, dict, lists, cancel, waitVars>>

\* The request times out and the loop is left, or its status raises.
RequestFails(t) ==
    /\ Faults /\ pc[t] = "posted"
    /\ \E l \in {"ended", "died"} : Goto(t, l)
    /\ UNCHANGED <<serverVars, runVars, todo, cur, expired, dict, lists, cancel, waitVars, repeated>>

\* Mutant: a revision seen before is not looked for.
RowCheckNoAlarm(t) ==
    /\ pc[t] = "row"
    /\ \E d \in todo[t] :
        /\ cur' = [cur EXCEPT ![t] = d]
        /\ todo' = [todo EXCEPT ![t] = @ \ {d}]
        /\ ref' = [ref EXCEPT ![t] = dict[d]]
        /\ Goto(t, IF snap[t][d] = {} THEN "row" ELSE "store")
    /\ UNCHANGED <<serverVars, since, last, snap, expired, dict, lists, cancel, waitVars, repeated>>

\* The next row: skipped if it has no changes; looked up in the dictionary; a
\* revision that its list already holds raises ChangesError.
RowCheck(t) ==
    /\ pc[t] = "row"
    /\ \E d \in todo[t] :
        /\ cur' = [cur EXCEPT ![t] = d]
        /\ todo' = [todo EXCEPT ![t] = @ \ {d}]
        /\ ref' = [ref EXCEPT ![t] = dict[d]]
        /\ Goto(t, IF snap[t][d] = {} THEN "row"
                   ELSE IF snap[t][d] \cap Seen(d) # {} THEN "alarm" ELSE "store")
    /\ UNCHANGED <<serverVars, since, last, snap, expired, dict, lists, cancel, waitVars, repeated>>

\* Store the row: a new list for a document that was absent when it was looked up,
\* else extend the list that was found and put it back.
RowStore(t) ==
    /\ pc[t] = "store"
    /\ LET d == cur[t]
           o == IF ref[t] = None THEN t ELSE ref[t]
           old == IF ref[t] = None THEN [r \in Revs |-> 0] ELSE lists[d][o]
       IN /\ lists' = [lists EXCEPT ![d][o] =
                          [r \in Revs |-> IF r \in snap[t][d] THEN old[r] + 1 ELSE old[r]]]
          /\ dict' = [dict EXCEPT ![d] = o]
    /\ Goto(t, "row")
    /\ UNCHANGED <<serverVars, runVars, todo, cur, expired, cancel, waitVars, repeated>>

\* All rows are processed: continue after them.  The response is not used any more.
RowsDone(t) ==
    /\ pc[t] = "row" /\ todo[t] = {}
    /\ since' = [since EXCEPT ![t] = last[t]]
    /\ last' = [last EXCEPT ![t] = 0]
    /\ snap' = [snap EXCEPT ![t] = [d \in Docs |-> {}]]
    /\ cur' = [cur EXCEPT ![t] = None]
    /\ ref' = [ref EXCEPT ![t] = None]
    /\ Goto(t, "top")
    /\ UNCHANGED <<serverVars, todo, expired, dict, lists, cancel, waitVars, repeated>>

Stop ==
    /\ cancel' = TRUE
    /\ UNCHANGED <<serverVars, pc, runVars, todo, cur, expired, dict, lists, waitVars, repeated>>

-----------------------------------------------------------------------------
(* wait_until                                                              *)

\* A test waits for the present revisions of some documents.
WaitUntil(w) ==
    /\ pc[w] = "idle"
    /\ \E D \in SUBSET Docs :
        /\ \E d \in D : leaves[d] # {}
        /\ expect' = [expect EXCEPT ![w] = UNION {{d} \X leaves[d] : d \in D}]
    /\ Goto(w, "poll")
    /\ UNCHANGED <<serverVars, runVars, todo, cur, expired, dict, lists, cancel, missing, repeated>>

\* The head of the loop: give up, or look at the documents once more.
PollTop(w) ==
    /\ pc[w] = "poll"
    /\ IF expired[w]
       THEN Goto(w, "false") /\ UNCHANGED <<todo, missing>>
       ELSE /\ Goto(w, "look")
            /\ todo' = [todo EXCEPT ![w] = {e[1] : e \in expect[w]}]
            /\ missing' = [missing EXCEPT ![w] = {}]
    /\ UNCHANGED <<serverVars, runVars, cur, expired, dict, lists, cancel, expect, repeated>>

\* Is an expected revision among the recorded ones?  By its generation alone if only
\* the prefix is compared.
Found(w, e) ==
    \E r \in Seen(e[1]) : IF Prefix[w] THEN r[1] = e[2][1] ELSE r = e[2]

\* Mutant: a document counts as found as soon as any of its revisions was seen.
LookAnyRev(w) ==
    /\ pc[w] = "look"
    /\ \E d \in todo[w] :
        /\ todo' = [todo EXCEPT ![w] = @ \ {d}]
        /\ missing' = [missing EXCEPT ![w] =
                         @ \cup {e \in expect[w] : e[1] = d /\ Seen(d) = {}}]
    /\ UNCHANGED <<serverVars, pc, runVars, cur, expired, dict, lists, cancel, expect, repeated>>

\* Look at one expected document.
Look(w) ==
    /\ pc[w] = "look"
    /\ \E d \in todo[w] :
        /\ todo' = [todo EXCEPT ![w] = @ \ {d}]
        /\ missing' = [missing EXCEPT ![w] =
                         @ \cup {e \in expect[w] : e[1] = d /\ ~Found(w, e)}]
    /\ UNCHANGED <<serverVars, pc, runVars, cur, expired, dict, lists, cancel, expect, repeated>>

\* All were looked at: return True if none is missing, else sleep and loop.
LookDone(w) ==
    /\ pc[w] = "look" /\ todo[w] = {}
    /\ Goto(w, IF missing[w] = {} THEN "true" ELSE "poll")
    /\ UNCHANGED <<serverVars, runVars, todo, cur, expired, dict, lists, cancel, waitVars, repeated>>

-----------------------------------------------------------------------------
RunStep(t) ==
    \/ LoopTop(t) \/ Respond(t) \/ RequestFails(t)
    \/ RowCheck(t) \/ RowStore(t) \/ RowsDone(t)

WaitStep(w) == PollTop(w) \/ Look(w) \/ LookDone(w)

Next ==
    \/ \E d \in Docs : Update(d)
    \/ \E t \in Runs : Start(t) \/ RunStep(t)
    \/ Stop
    \/ \E w \in Waiters : WaitUntil(w) \/ WaitStep(w)
    \/ \E t \in Threads : Expire(t)

Spec == Init /\ [][Next]_vars

\* Threads that were started run on, and a request is answered or times out.  Nothing
\* makes a test call stop.
FairSpec ==
    /\ Spec
    /\ \A t \in Runs : WF_vars(RunStep(t))
    /\ \A w \in Waiters : WF_vars(WaitStep(w))

-----------------------------------------------------------------------------
(* Properties                                                              *)

RunPlaces == {"idle", "top", "posted", "row", "store", "ended", "died", "alarm"}
WaitPlaces == {"idle", "poll", "look", "true", "false"}

TypeOK ==
    /\ seq \in 0..MaxSeq
    /\ seqOf \in [Docs -> 0..MaxSeq]
    /\ leaves \in [Docs -> SUBSET Revs]
    /\ ever \in [Docs -> SUBSET Revs]
    /\ pc \in [Threads -> RunPlaces \cup WaitPlaces]
    /\ since \in [Runs -> 0..MaxSeq] /\ last \in [Runs -> 0..MaxSeq]
    /\ snap \in [Runs -> [Docs -> SUBSET Revs]]
    /\ todo \in [Threads -> SUBSET Docs]
    /\ cur \in [Threads -> Docs \cup {None}]
    /\ ref \in [Runs -> Runs \cup {None}]
    /\ expired \in [Threads -> BOOLEAN]
    /\ dict \in [Docs -> Runs \cup {None}]
    /\ lists \in [Docs -> [Runs -> [Revs -> Nat]]]
    /\ cancel \in BOOLEAN
    /\ expect \in [Waiters -> SUBSET (Docs \X Revs)]
    /\ missing \in [Waiters -> SUBSET (Docs \X Revs)]
    /\ repeated \subseteq Runs

\* A feed that goes on from `since' has recorded everything up to there: advancing
\* last_seq never skips an update, whenever updates arrive between two requests.
NothingMissed ==
    \A t \in Runs : pc[t] \in {"top", "posted"} =>
        \A d \in Docs : seqOf[d] <= since[t] => leaves[d] \subseteq Seen(d)

\* Only revisions that were written are recorded, and wait_until reports a document
\* only if the awaited revision (or its generation) is recorded.
WaitSound ==
    \A w \in Waiters : pc[w] = "true" => \A e \in expect[w] : Found(w, e)

\* Two revisions of a document are of one generation: it has conflicting branches.
InConflict(d) == \E r, s \in ever[d] : r # s /\ r[1] = s[1]

\* The only feed of a database never accuses it unjustly: ChangesError is raised for a
\* server that repeats itself, or for a document with branches, whose other leaves are
\* sent again with every update.
NoFalseAlarm ==
    \A t \in Runs : pc[t] = "alarm" => t \in repeated \/ InConflict(cur[t])

\* No revision is recorded twice, even by a server that sends it twice.
RecordedOnce ==
    \A d \in Docs : dict[d] # None => \A r \in Revs : lists[d][dict[d]][r] <= 1

\* stop ends every feed, also one that waits for a response at that moment.
StopEnds == cancel ~> \A t \in Runs : pc[t] \in {"idle", "ended", "died", "alarm"}

\* The time limit ends a feed, and wait_until, without stop.
LimitEnds ==
    \A t \in Threads : expired[t] ~> pc[t] \in {"ended", "died", "alarm", "true", "false"}

\* processed_changes has no row twice and ChangesError is raised for no row that is new,
\* whatever rows the feed repeats.
RecordedRight == TypeOK /\ RecordedOnce /\ NoFalseAlarm

\* The threads of a tracker end: all after stop, each at its time limit.
FeedEnds == StopEnds /\ LimitEnds

=============================================================================
