------------------------- MODULE ChangesTrackerProofs -------------------------
(***************************************************************************)
(* Theorems about the changes tracker, for every set of documents and      *)
(* waiting tests, every number of updates and every mix of conflicts,      *)
(* repeated rows, failing requests and time limits.                        *)
(***************************************************************************)
EXTENDS ChangesTracker, TLAPS

-----------------------------------------------------------------------------
(* Type correctness, for any number of feeds                               *)

\* A revision's generation is at most the number of updates, and a row that is about
\* to be stored is at hand.
BaseOK ==
    /\ \A d \in Docs : \A r \in ever[d] : r[1] <= seq
    /\ \A t \in Runs : pc[t] = "store" => cur[t] \in Docs

\* What an update adds is a revision.
LEMMA UpdateTypes ==
    ASSUME TypeOK, BaseOK, NEW d \in Docs, Update(d)
    PROVE  TypeOK' /\ BaseOK'
<1>1. seq' = seq + 1 /\ seq' \in 0..MaxSeq /\ seq + 1 \in 1..MaxSeq
  BY TrackerAssumption DEF Update, TypeOK
<1>2. seqOf' \in [Docs -> 0..MaxSeq]
  BY <1>1 DEF Update, TypeOK
<1>3. /\ leaves' \in [Docs -> SUBSET Revs] /\ ever' \in [Docs -> SUBSET Revs]
      /\ \A e \in Docs : \A r \in ever'[e] : r[1] <= seq'
  <2>1. CASE d \in Principals
    BY <1>1, <2>1 DEF Update, TypeOK, BaseOK, Revs
  <2>2. CASE d \notin Principals
    <3>1. PICK parent \in {<<0, None>>} \cup ever[d], b \in Branches :
              /\ leaves' = [leaves EXCEPT ![d] = (@ \ {parent}) \cup {<<parent[1] + 1, b>>}]
              /\ ever' = [ever EXCEPT ![d] = @ \cup {<<parent[1] + 1, b>>}]
      BY <2>2 DEF Update
    <3>2. parent[1] \in 0..seq
      <4>1. CASE parent = <<0, None>>
        BY <4>1, <1>1 DEF TypeOK
      <4>2. CASE parent \in ever[d]
        <5>1. parent \in Revs /\ parent[1] <= seq
          BY <4>2 DEF TypeOK, BaseOK
        <5> QED
          BY <5>1 DEF Revs
      <4> QED
        BY <4>1, <4>2, <3>1
    <3>3. <<parent[1] + 1, b>> \in Revs /\ parent[1] + 1 <= seq + 1
      BY <1>1, <3>2, TrackerAssumption DEF Revs, TypeOK
    <3>4. leaves' \in [Docs -> SUBSET Revs] /\ ever' \in [Docs -> SUBSET Revs]
      BY <3>1, <3>3 DEF TypeOK
    <3>5. ASSUME NEW e \in Docs, NEW r \in ever'[e] PROVE r[1] <= seq'
      <4>1. r \in ever[e] \/ r = <<parent[1] + 1, b>>
        BY <3>1, <3>5 DEF TypeOK
      <4>2. CASE r \in ever[e]
        <5>1. r \in Revs /\ r[1] <= seq
          BY <4>2 DEF TypeOK, BaseOK
        <5> QED
          BY <5>1, <1>1 DEF Revs, TypeOK
      <4>3. CASE r = <<parent[1] + 1, b>>
        BY <1>1, <3>3, <4>3
      <4> QED
        BY <4>1, <4>2, <4>3
    <3> QED
      BY <3>4, <3>5
  <2> QED
    BY <2>1, <2>2
<1>4. UNCHANGED <<pc, runVars, todo, cur, expired, dict, lists, cancel, waitVars, repeated>>
  BY DEF Update
<1> QED
  BY <1>1, <1>2, <1>3, <1>4 DEF TypeOK, BaseOK, runVars, waitVars

\* A step of a feed keeps the types; the lists hold counts.
LEMMA RunTypes ==
    ASSUME TypeOK, BaseOK, NEW t \in Runs, Start(t) \/ RunStep(t)
    PROVE  TypeOK' /\ BaseOK'
<1>0. t \in Threads
  BY DEF Threads
<1> USE <1>0, TrackerAssumption
        DEF TypeOK, BaseOK, Goto, RunPlaces, WaitPlaces, serverVars, runVars, waitVars, Threads
<1>1. CASE Start(t)
  BY <1>1 DEF Start
<1>2. CASE LoopTop(t)
  BY <1>2 DEF LoopTop
<1>3. CASE Respond(t)
  BY <1>3 DEF Respond
<1>4. CASE RequestFails(t)
  BY <1>4 DEF RequestFails
<1>5. CASE RowCheck(t)
  BY <1>5 DEF RowCheck
<1>6. CASE RowStore(t)
  <2> DEFINE d == cur[t]
             o == IF ref[t] = None THEN t ELSE ref[t]
             old == IF ref[t] = None THEN [r \in Revs |-> 0] ELSE lists[d][o]
             new == [r \in Revs |-> IF r \in snap[t][d] THEN old[r] + 1 ELSE old[r]]
  <2>1. d \in Docs /\ o \in Runs
    BY <1>6 DEF RowStore
  <2>2. old \in [Revs -> Nat]
    BY <2>1
  <2>3. new \in [Revs -> Nat]
    BY <2>2
  <2>4. lists' = [lists EXCEPT ![d][o] = new] /\ dict' = [dict EXCEPT ![d] = o]
    BY <1>6 DEF RowStore
  <2> HIDE DEF d, o, old, new
  <2>5. lists' \in [Docs -> [Runs -> [Revs -> Nat]]] /\ dict' \in [Docs -> Runs \cup {None}]
    BY <2>1, <2>3, <2>4
  <2> QED
    BY <1>6, <2>5 DEF RowStore
<1>7. CASE RowsDone(t)
  BY <1>7 DEF RowsDone
<1> QED
  BY <1>1, <1>2, <1>3, <1>4, <1>5, <1>6, <1>7 DEF RunStep

\* A step of wait_until keeps the types.
LEMMA WaitTypes ==
    ASSUME TypeOK, BaseOK, NEW w \in Waiters, WaitUntil(w) \/ WaitStep(w)
    PROVE  TypeOK' /\ BaseOK'
<1>0. w \in Threads /\ w \notin Runs
  BY TrackerAssumption DEF Threads
<1> USE <1>0 DEF TypeOK, BaseOK, Goto, RunPlaces, WaitPlaces, serverVars, runVars, Threads
<1>1. CASE WaitUntil(w)
  <2>1. \A D \in SUBSET Docs : UNION {{d} \X leaves[d] : d \in D} \in SUBSET (Docs \X Revs)
    OBVIOUS
  <2>2. expect' \in [Waiters -> SUBSET (Docs \X Revs)]
    BY <1>1, <2>1 DEF WaitUntil
  <2> QED
    BY <1>1, <2>2 DEF WaitUntil
<1>2. CASE PollTop(w)
  <2>1. {e[1] : e \in expect[w]} \subseteq Docs
    OBVIOUS
  <2>2. CASE expired[w]
    <3>1. pc' = [pc EXCEPT ![w] = "false"] /\ UNCHANGED <<todo, missing>>
      BY <1>2, <2>2 DEF PollTop
    <3> QED
      BY <1>2, <3>1 DEF PollTop
  <2>3. CASE ~expired[w]
    <3>1. /\ pc' = [pc EXCEPT ![w] = "look"]
          /\ todo' = [todo EXCEPT ![w] = {e[1] : e \in expect[w]}]
          /\ missing' = [missing EXCEPT ![w] = {}]
      BY <1>2, <2>3 DEF PollTop
    <3> QED
      BY <1>2, <2>1, <3>1 DEF PollTop
  <2> QED
    BY <2>2, <2>3
<1>3. CASE Look(w)
  BY <1>3 DEF Look
<1>4. CASE LookDone(w)
  BY <1>4 DEF LookDone, waitVars
<1> QED
  BY <1>1, <1>2, <1>3, <1>4 DEF WaitStep

\* Every step of the server, a feed or a waiting test keeps the types.
LEMMA TrackerTypeStep == TypeOK /\ BaseOK /\ [Next]_vars => TypeOK' /\ BaseOK'
<1> SUFFICES ASSUME TypeOK, BaseOK, [Next]_vars PROVE TypeOK' /\ BaseOK'
  OBVIOUS
<1>1. CASE Stop
  BY <1>1 DEF Stop, TypeOK, BaseOK, serverVars, runVars, waitVars
<1>2. CASE \E t \in Threads : Expire(t)
  BY <1>2 DEF Expire, TypeOK, BaseOK, serverVars, runVars, waitVars
<1>3. CASE UNCHANGED vars
  BY <1>3 DEF vars, TypeOK, BaseOK, serverVars, runVars, waitVars
<1> QED
  BY <1>1, <1>2, <1>3, UpdateTypes, RunTypes, WaitTypes DEF Next

\* A database without updates and threads that have not begun are well typed.
LEMMA TrackerTypeInit == Init => TypeOK /\ BaseOK
<1> SUFFICES ASSUME Init PROVE TypeOK /\ BaseOK
  OBVIOUS
<1>1. snap \in [Runs -> [Docs -> SUBSET Revs]]
  BY DEF Init
<1>2. lists \in [Docs -> [Runs -> [Revs -> Nat]]]
  <2>1. [r \in Revs |-> 0] \in [Revs -> Nat]
    OBVIOUS
  <2>2. [t \in Runs |-> [r \in Revs |-> 0]] \in [Runs -> [Revs -> Nat]]
    BY <2>1
  <2> QED
    BY <2>2 DEF Init
<1>3. 0 \in 0..MaxSeq
  BY TrackerAssumption
<1>4. BaseOK
  BY DEF Init, BaseOK, Threads
<1> QED
  BY <1>1, <1>2, <1>3, <1>4 DEF Init, TypeOK, RunPlaces, WaitPlaces, Threads

-----------------------------------------------------------------------------
(* What the database guarantees                                            *)

\* The revisions of a document reach down to its first generation, its leaves are among
\* them, a principal has none, and while it has no conflicting branches the leaf is the latest revision.
DatabaseOK ==
    \A d \in Docs :
        /\ leaves[d] \subseteq ever[d] /\ seqOf[d] <= seq
        /\ seqOf[d] = 0 => ever[d] = {}
        /\ d \in Principals => leaves[d] = {}
        /\ \A r \in ever[d] : \A g \in 1..r[1] : \E s \in ever[d] : s[1] = g
        /\ ~InConflict(d) => \A r \in leaves[d], s \in ever[d] : s[1] <= r[1]

\* An update of a document that has no conflicting branches, also not afterwards,
\* leaves it with one leaf, which is new.
LEMMA NewLeaf ==
    ASSUME TypeOK, DatabaseOK, NEW d \in Docs, Update(d), d \notin Principals, ~InConflict(d)'
    PROVE  \E r \in ever'[d] : /\ leaves'[d] = {r} /\ r \notin ever[d]
                               /\ \A s \in ever'[d] : s[1] <= r[1]
<1>1. PICK parent \in {<<0, None>>} \cup ever[d], b \in Branches :
          /\ <<parent[1] + 1, b>> \notin ever[d]
          /\ leaves' = [leaves EXCEPT ![d] = (@ \ {parent}) \cup {<<parent[1] + 1, b>>}]
          /\ ever' = [ever EXCEPT ![d] = @ \cup {<<parent[1] + 1, b>>}]
  BY DEF Update
<1> DEFINE new == <<parent[1] + 1, b>>
<1>2. /\ leaves'[d] = (leaves[d] \ {parent}) \cup {new}
      /\ ever'[d] = ever[d] \cup {new}
  BY <1>1 DEF TypeOK
<1>3. \A r, s \in ever[d] \cup {new} : r[1] = s[1] => r = s
  BY <1>2 DEF InConflict
<1>4. ~InConflict(d)
  BY <1>3 DEF InConflict
<1>5. \A r \in ever[d] : r \in Revs /\ r[1] \in Nat \ {0}
  BY DEF TypeOK, Revs
<1>6. parent[1] \in Nat
  BY <1>1, <1>5
<1>7. \A s \in ever[d] : s[1] <= parent[1]
  <2> SUFFICES ASSUME NEW s \in ever[d], s[1] > parent[1] PROVE FALSE
    BY <1>5, <1>6
  <2>1. parent[1] + 1 \in 1..s[1]
    BY <1>5, <1>6
  <2>2. PICK x \in ever[d] : x[1] = parent[1] + 1
    BY <2>1 DEF DatabaseOK
  <2>3. x = new
    BY <1>3, <2>2
  <2> QED
    BY <1>1, <2>2, <2>3
<1>8. leaves[d] \subseteq {parent}
  <2> SUFFICES ASSUME NEW r \in leaves[d] PROVE r = parent
    OBVIOUS
  <2>1. r \in ever[d] /\ r[1] <= parent[1] /\ r[1] \in Nat \ {0}
    BY <1>5, <1>7 DEF DatabaseOK
  <2>2. parent \in ever[d]
    BY <1>1, <2>1
  <2>3. parent[1] <= r[1]
    BY <1>4, <2>2 DEF DatabaseOK
  <2> QED
    BY <1>3, <1>6, <2>1, <2>2, <2>3
<1>9. new \in ever'[d] /\ leaves'[d] = {new} /\ new \notin ever[d]
  BY <1>1, <1>2, <1>8
<1>10. \A s \in ever'[d] : s[1] <= new[1]
  BY <1>2, <1>5, <1>6, <1>7
<1> QED
  BY <1>9, <1>10

\* An update touches one document, and only adds revisions.
LEMMA UpdateShape ==
    ASSUME TypeOK, NEW d \in Docs, Update(d)
    PROVE  /\ seq' = seq + 1 /\ seqOf'[d] = seq + 1
           /\ \A e \in Docs \ {d} : /\ seqOf'[e] = seqOf[e] /\ leaves'[e] = leaves[e]
                                    /\ ever'[e] = ever[e]
           /\ ever[d] \subseteq ever'[d]
           /\ d \in Principals => leaves' = leaves /\ ever' = ever
           /\ UNCHANGED <<pc, runVars, todo, cur, expired, dict, lists, cancel, waitVars,
                          repeated>>
<1>1. CASE d \in Principals
  BY <1>1 DEF Update, TypeOK
<1>2. CASE d \notin Principals
  <2>1. PICK parent \in {<<0, None>>} \cup ever[d], b \in Branches :
            /\ leaves' = [leaves EXCEPT ![d] = (@ \ {parent}) \cup {<<parent[1] + 1, b>>}]
            /\ ever' = [ever EXCEPT ![d] = @ \cup {<<parent[1] + 1, b>>}]
    BY <1>2 DEF Update
  <2> QED
    BY <1>2, <2>1 DEF Update, TypeOK
<1> QED
  BY <1>1, <1>2

\* A conflict never goes away.
LEMMA ConflictStays ==
    ASSUME TypeOK, [Next]_vars, NEW e \in Docs
    PROVE  ever[e] \subseteq ever'[e] /\ (InConflict(e) => InConflict(e)')
<1>1. ever[e] \subseteq ever'[e]
  <2>1. ASSUME NEW d \in Docs, Update(d) PROVE ever[e] \subseteq ever'[e]
    BY <2>1, UpdateShape
  <2>2. CASE ever' = ever
    BY <2>2
  <2>3. (\E d \in Docs : Update(d)) \/ ever' = ever
    BY DEF Next, Start, RunStep, LoopTop, Respond, RequestFails, RowCheck, RowStore, RowsDone,
           Stop, WaitUntil, WaitStep, PollTop, Look, LookDone, Expire, vars, serverVars
  <2> QED
    BY <2>1, <2>2, <2>3
<1> QED
  BY <1>1 DEF InConflict

\* An update leaves the database consistent: its leaves, its history and its sequence.
LEMMA DatabaseUpdate ==
    ASSUME TypeOK, DatabaseOK, NEW d \in Docs, Update(d)
    PROVE  DatabaseOK'
<1> DEFINE Doc(e) == /\ leaves[e] \subseteq ever[e] /\ seqOf[e] <= seq
                     /\ seqOf[e] = 0 => ever[e] = {}
                     /\ e \in Principals => leaves[e] = {}
                     /\ \A r \in ever[e] : \A g \in 1..r[1] : \E s \in ever[e] : s[1] = g
                     /\ ~InConflict(e) => \A r \in leaves[e], s \in ever[e] : s[1] <= r[1]
<1>a. seq \in Nat /\ \A e \in Docs : seqOf[e] \in Nat
  BY DEF TypeOK
<1>b. ASSUME NEW e \in Docs, leaves'[e] = leaves[e], ever'[e] = ever[e],
             seqOf'[e] = seqOf[e] \/ seqOf'[e] = seq + 1
      PROVE  Doc(e)'
  <2>1. Doc(e)
    BY DEF DatabaseOK
  <2>2. InConflict(e)' <=> InConflict(e)
    BY <1>b DEF InConflict
  <2>3. seqOf'[e] <= seq' /\ (seqOf'[e] = 0 => seqOf[e] = 0)
    BY <1>a, <1>b, <2>1, UpdateShape
  <2> QED
    BY <1>b, <2>1, <2>2, <2>3
<1>c. \A e \in Docs \ {d} : Doc(e)'
  BY <1>b, UpdateShape
<1>1. CASE d \in Principals
  <2>1. Doc(d)'
    BY <1>1, <1>b, UpdateShape
  <2> QED
    BY <1>c, <2>1 DEF DatabaseOK
<1>2. CASE d \notin Principals
  <2>2. PICK parent \in {<<0, None>>} \cup ever[d], b \in Branches :
            /\ leaves' = [leaves EXCEPT ![d] = (@ \ {parent}) \cup {<<parent[1] + 1, b>>}]
            /\ ever' = [ever EXCEPT ![d] = @ \cup {<<parent[1] + 1, b>>}]
    BY <1>2 DEF Update
  <2> DEFINE new == <<parent[1] + 1, b>>
  <2>3. /\ leaves'[d] = (leaves[d] \ {parent}) \cup {new}
        /\ ever'[d] = ever[d] \cup {new}
    BY <2>2 DEF TypeOK
  <2>4. \A r \in ever[d] : r[1] \in Nat
    BY DEF TypeOK, Revs
  <2>5. parent[1] \in Nat
    BY <2>2, <2>4
  <2>6. leaves'[d] \subseteq ever'[d] /\ seqOf'[d] <= seq' /\ seqOf'[d] # 0
    BY <2>3, UpdateShape DEF DatabaseOK, TypeOK
  <2>7. ASSUME NEW r \in ever'[d], NEW g \in 1..r[1] PROVE \E s \in ever'[d] : s[1] = g
    <3>1. CASE r \in ever[d]
      BY <2>3, <2>7, <3>1 DEF DatabaseOK
    <3>2. CASE r = new
      <4>1. CASE g = parent[1] + 1
        <5>1. new \in ever'[d] /\ new[1] = g
          BY <2>3, <4>1
        <5> QED
          BY <5>1
      <4>2. CASE g # parent[1] + 1
        <5>1. g \in 1..parent[1] /\ parent[1] # 0
          BY <2>5, <2>7, <3>2, <4>2
        <5>2. parent \in ever[d]
          BY <2>2, <5>1
        <5> QED
          BY <2>3, <5>1, <5>2 DEF DatabaseOK
      <4> QED
        BY <4>1, <4>2
    <3> QED
      BY <2>3, <2>7, <3>1, <3>2
  <2>8. ~InConflict(d)' => \A r \in leaves'[d], s \in ever'[d] : s[1] <= r[1]
    BY <1>2, NewLeaf
  <2> QED
    BY <1>2, <1>c, <2>6, <2>7, <2>8 DEF DatabaseOK
<1> QED
  BY <1>1, <1>2

-----------------------------------------------------------------------------
(* The only feed of a database                                             *)

\* Two feeds that meet a new document replace each other's list; what follows is about
\* a tracker of which start is called once.
OneFeed == \A s, t \in Runs : s = t

\* What is recorded, and what a response holds, was written; the row that is about to be
\* stored is as it was looked up.
RecordsOK(t) ==
    /\ since[t] <= seq /\ last[t] <= seq
    /\ pc[t] = "idle" => \A d \in Docs : dict[d] = None
    /\ \A d \in Docs : snap[t][d] \cup Seen(d) \subseteq ever[d]
    /\ pc[t] = "store" => /\ ref[t] = dict[cur[t]] /\ cur[t] \notin todo[t]
                          /\ snap[t][cur[t]] \cap Seen(cur[t]) = {}
    /\ pc[t] = "alarm" => cur[t] \in Docs

\* Up to `since', and in a response up to its last_seq, only rows that are still to be
\* processed are not recorded, and these are as the response has them.
Complete(t) ==
    /\ pc[t] \in {"top", "posted"} =>
          \A d \in Docs : seqOf[d] <= since[t] => leaves[d] \subseteq Seen(d)
    /\ pc[t] \in {"row", "store"} =>
          \A d \in Docs : seqOf[d] <= last[t] =>
              /\ snap[t][d] = leaves[d]
              /\ \/ d \in todo[t]
                 \/ pc[t] = "store" /\ d = cur[t]
                 \/ leaves[d] \subseteq Seen(d)

\* Without repeated rows and conflicting branches, what comes after is new.
Unseen(t) ==
    t \notin repeated => \A d \in Docs : ~InConflict(d) =>
        /\ pc[t] \in {"top", "posted"} /\ ~(seqOf[d] <= since[t]) => leaves[d] \cap Seen(d) = {}
        /\ pc[t] \in {"row", "store"} /\ d \in todo[t] => snap[t][d] \cap Seen(d) = {}
        /\ pc[t] \in {"row", "store"} /\ ~(seqOf[d] <= last[t]) =>
              leaves[d] \cap (Seen(d) \cup snap[t][d]) = {}

FeedInv ==
    /\ \A t \in Runs : RecordsOK(t) /\ Complete(t) /\ Unseen(t)
    /\ RecordedOnce /\ NoFalseAlarm

\* What is recorded of a document depends on the dictionary and its lists only.
LEMMA SeenSame ==
    ASSUME UNCHANGED <<dict, lists>>, NEW d \in Docs
    PROVE  Seen(d)' = Seen(d)
BY DEF Seen

\* Storing a row adds its revisions to those of its document, each once.
LEMMA SeenStored ==
    ASSUME TypeOK, BaseOK, RecordedOnce, NEW t \in Runs, RowStore(t), ref[t] = dict[cur[t]],
           snap[t][cur[t]] \cap Seen(cur[t]) = {}
    PROVE  /\ \A e \in Docs : Seen(e)' = IF e = cur[t] THEN Seen(e) \cup snap[t][e] ELSE Seen(e)
           /\ RecordedOnce'
<1>0. PICK d \in Docs : d = cur[t]
  BY DEF RowStore, BaseOK
<1> DEFINE o == IF ref[t] = None THEN t ELSE ref[t]
           old == IF ref[t] = None THEN [r \in Revs |-> 0] ELSE lists[d][o]
           new == [r \in Revs |-> IF r \in snap[t][d] THEN old[r] + 1 ELSE old[r]]
<1>1. o \in Runs /\ o # None
  BY TrackerAssumption DEF TypeOK
<1>2. lists' = [lists EXCEPT ![d][o] = new] /\ dict' = [dict EXCEPT ![d] = o]
  BY <1>0 DEF RowStore
<1>3. old \in [Revs -> Nat] /\ \A r \in Revs : r \in Seen(d) <=> old[r] > 0
  BY <1>0 DEF Seen, TypeOK
<1>4. \A r \in Revs : old[r] <= 1
  BY <1>0, TrackerAssumption DEF RecordedOnce, TypeOK
<1>5. snap[t][d] \subseteq Revs /\ snap[t][d] \cap Seen(d) = {} /\ Seen(d) \subseteq Revs
  BY <1>0 DEF TypeOK, Seen
<1> HIDE DEF o, old
<1>6. dict'[d] = o /\ lists'[d][o] = new
  BY <1>1, <1>2 DEF TypeOK
<1>7. Seen(d)' = {r \in Revs : new[r] > 0}
  BY <1>1, <1>6 DEF Seen
<1>8. \A r \in Revs : new[r] > 0 <=> (r \in snap[t][d] \/ r \in Seen(d))
  BY <1>3
<1>9. Seen(d)' = Seen(d) \cup snap[t][d]
  BY <1>5, <1>7, <1>8
<1>10. \A e \in Docs \ {d} : dict'[e] = dict[e] /\ lists'[e] = lists[e]
  BY <1>1, <1>2 DEF TypeOK
<1>11. \A e \in Docs \ {d} : Seen(e)' = Seen(e)
  BY <1>10 DEF Seen
<1>12. \A r \in Revs : new[r] <= 1
  BY <1>3, <1>4, <1>5
<1>13. RecordedOnce'
  BY <1>6, <1>10, <1>12 DEF RecordedOnce
<1> QED
  BY <1>0, <1>9, <1>11, <1>13

\* A step of somebody else that leaves the database and the records alone.
LEMMA FeedKept ==
    ASSUME TypeOK, BaseOK, FeedInv, UNCHANGED <<serverVars, dict, lists, repeated>>,
           \A t \in Runs : UNCHANGED <<pc[t], since[t], last[t], snap[t], todo[t], cur[t], ref[t]>>
    PROVE  FeedInv'
<1>1. \A d \in Docs : Seen(d)' = Seen(d)
  BY SeenSame
<1>2. UNCHANGED <<seq, seqOf, leaves, ever>>
  BY DEF serverVars
<1>3. \A d : InConflict(d)' <=> InConflict(d)
  BY <1>2 DEF InConflict
<1>4. ASSUME NEW t \in Runs PROVE RecordsOK(t)'
  <2>1. RecordsOK(t)
    BY DEF FeedInv
  <2>2. pc[t] = "store" => cur[t] \in Docs
    BY DEF BaseOK
  <2> QED
    BY <1>1, <1>2, <2>1, <2>2 DEF RecordsOK
<1>5. ASSUME NEW t \in Runs PROVE Complete(t)'
  BY <1>1, <1>2 DEF FeedInv, Complete
<1>6. ASSUME NEW t \in Runs PROVE Unseen(t)'
  BY <1>1, <1>2, <1>3 DEF FeedInv, Unseen
<1>7. RecordedOnce' /\ NoFalseAlarm'
  BY <1>3 DEF FeedInv, RecordedOnce, NoFalseAlarm
<1> QED
  BY <1>4, <1>5, <1>6, <1>7 DEF FeedInv

\* An update of the database comes after everything a feed has seen.
LEMMA FeedUpdate ==
    ASSUME TypeOK, BaseOK, DatabaseOK, FeedInv, NEW d \in Docs, Update(d)
    PROVE  FeedInv'
<1>a. /\ \A t \in Runs : UNCHANGED <<pc[t], since[t], last[t], snap[t], todo[t], cur[t], ref[t]>>
      /\ UNCHANGED <<dict, lists, repeated>>
  BY UpdateShape DEF runVars
<1>b. \A e \in Docs : Seen(e)' = Seen(e)
  BY <1>a, SeenSame
<1>c. /\ seq \in Nat /\ \A e \in Docs : seqOf[e] \in Nat
      /\ \A t \in Runs : since[t] \in Nat /\ last[t] \in Nat
  BY DEF TypeOK
<1>d. \A e \in Docs : ever[e] \subseteq ever'[e]
  BY UpdateShape
<1>e. \A e \in Docs : ~InConflict(e)' => ~InConflict(e)
  BY <1>d DEF InConflict
<1>1. ASSUME NEW t \in Runs PROVE RecordsOK(t)'
  <2>1. RecordsOK(t) /\ (pc[t] = "store" => cur[t] \in Docs)
    BY DEF FeedInv, BaseOK
  <2>2. since[t] <= seq' /\ last[t] <= seq'
    BY <1>c, <2>1, UpdateShape DEF RecordsOK
  <2> QED
    BY <1>a, <1>b, <1>d, <2>1, <2>2 DEF RecordsOK
<1>2. ASSUME NEW t \in Runs PROVE ~(seqOf'[d] <= since[t]) /\ ~(seqOf'[d] <= last[t])
  BY <1>c, UpdateShape DEF FeedInv, RecordsOK
<1>3. ASSUME NEW t \in Runs PROVE Complete(t)'
  <2>1. Complete(t)
    BY DEF FeedInv
  <2> QED
    BY <1>a, <1>b, <1>2, <2>1, UpdateShape DEF Complete
<1>4. ASSUME NEW t \in Runs PROVE Unseen(t)'
  <2> SUFFICES ASSUME t \notin repeated, NEW e \in Docs, ~InConflict(e)'
               PROVE  /\ pc[t] \in {"top", "posted"} /\ ~(seqOf'[e] <= since[t])
                            => leaves'[e] \cap Seen(e) = {}
                      /\ pc[t] \in {"row", "store"} /\ e \in todo[t]
                            => snap[t][e] \cap Seen(e) = {}
                      /\ pc[t] \in {"row", "store"} /\ ~(seqOf'[e] <= last[t]) =>
                            leaves'[e] \cap (Seen(e) \cup snap[t][e]) = {}
    BY <1>a, <1>b DEF Unseen
  <2>1. CASE e # d
    BY <1>e, <2>1, UpdateShape DEF FeedInv, Unseen
  <2>2. CASE e = d /\ d \in Principals
    <3>1. leaves'[d] = {}
      BY <2>2, UpdateShape DEF DatabaseOK
    <3> QED
      BY <1>e, <2>2, <3>1 DEF FeedInv, Unseen
  <2>3. CASE e = d /\ d \notin Principals
    <3>1. PICK r \in ever'[d] : leaves'[d] = {r} /\ r \notin ever[d]
      BY <2>3, NewLeaf
    <3>2. Seen(d) \cup snap[t][d] \subseteq ever[d]
      BY DEF FeedInv, RecordsOK
    <3> QED
      BY <1>e, <2>3, <3>1, <3>2 DEF FeedInv, Unseen
  <2> QED
    BY <2>1, <2>2, <2>3
<1>5. RecordedOnce'
  BY <1>a DEF FeedInv, RecordedOnce
<1>6. NoFalseAlarm'
  <2> SUFFICES ASSUME NEW t \in Runs, pc[t] = "alarm", t \notin repeated
               PROVE  InConflict(cur[t])'
    BY <1>a DEF NoFalseAlarm
  <2>1. cur[t] \in Docs /\ InConflict(cur[t])
    BY DEF FeedInv, NoFalseAlarm, RecordsOK
  <2> QED
    BY <1>a, <1>e, <2>1
<1> QED
  BY <1>1, <1>3, <1>4, <1>5, <1>6 DEF FeedInv

\* A step of the feed itself.
LEMMA FeedRun ==
    ASSUME OneFeed, TypeOK, BaseOK, DatabaseOK, FeedInv, NEW t \in Runs, Start(t) \/ RunStep(t)
    PROVE  FeedInv'
<1>a. t \in Threads /\ \A s \in Runs : s = t
  BY DEF OneFeed, Threads
<1>b. RecordsOK(t) /\ Complete(t) /\ Unseen(t) /\ RecordedOnce /\ NoFalseAlarm
  BY DEF FeedInv
<1>c. UNCHANGED <<seq, seqOf, leaves, ever>>
  BY DEF Start, RunStep, LoopTop, Respond, RequestFails, RowCheck, RowStore, RowsDone, serverVars
<1>d. \A d : InConflict(d)' <=> InConflict(d)
  BY <1>c DEF InConflict
<1>e. ASSUME RecordsOK(t)', Complete(t)', Unseen(t)', RecordedOnce', NoFalseAlarm'
      PROVE  FeedInv'
  BY <1>a, <1>e DEF FeedInv
<1>f. ASSUME UNCHANGED <<dict, lists>>
      PROVE  (\A d \in Docs : Seen(d)' = Seen(d)) /\ RecordedOnce'
  BY <1>b, <1>f, SeenSame DEF RecordedOnce
<1>g. /\ seq \in Nat /\ \A e \in Docs : seqOf[e] \in Nat
      /\ since[t] \in Nat /\ last[t] \in Nat
      /\ \A d \in Docs : leaves[d] \subseteq ever[d] /\ seqOf[d] <= seq
  BY DEF TypeOK, DatabaseOK
<1>h. pc'[t] # "alarm" => NoFalseAlarm'
  BY <1>a DEF NoFalseAlarm
<1> USE DEF Goto
<1>1. CASE Start(t)
  <2>1. /\ pc[t] = "idle" /\ pc'[t] = "top" /\ since'[t] = 0
        /\ UNCHANGED <<last, snap, ref, todo, cur, dict, lists, repeated>>
    BY <1>1, <1>a DEF Start, TypeOK
  <2>2. \A d \in Docs : Seen(d) = {} /\ (seqOf[d] <= 0 => leaves[d] = {})
    BY <1>b, <1>g, <2>1 DEF RecordsOK, Seen, DatabaseOK
  <2>3. RecordsOK(t)'
    BY <1>b, <1>c, <1>f, <1>g, <2>1 DEF RecordsOK
  <2>4. Complete(t)' /\ Unseen(t)'
    BY <1>c, <1>f, <2>1, <2>2 DEF Complete, Unseen
  <2> QED
    BY <1>e, <1>f, <1>h, <2>1, <2>3, <2>4
<1>2. CASE LoopTop(t) \/ RequestFails(t)
  <2>1. /\ pc[t] \in {"top", "posted"} /\ pc'[t] \in {"posted", "ended", "died"}
        /\ UNCHANGED <<since, last, snap, ref, todo, cur, dict, lists, repeated>>
    BY <1>2, <1>a DEF LoopTop, RequestFails, TypeOK, runVars
  <2>2. RecordsOK(t)'
    BY <1>b, <1>c, <1>f, <2>1 DEF RecordsOK
  <2>3. Complete(t)' /\ Unseen(t)'
    BY <1>b, <1>c, <1>d, <1>f, <2>1 DEF Complete, Unseen
  <2> QED
    BY <1>e, <1>f, <1>h, <2>1, <2>2, <2>3
<1>3. CASE Respond(t)
  <2>1. PICK again \in SUBSET Docs :
          /\ todo' = [todo EXCEPT ![t] = {d \in Docs : seqOf[d] > since[t]} \cup again]
          /\ repeated' = (IF again = {} THEN repeated ELSE repeated \cup {t})
    BY <1>3 DEF Respond
  <2>2. /\ pc[t] = "posted" /\ pc'[t] = "row" /\ last'[t] = seq /\ snap'[t] = leaves
        /\ todo'[t] = {d \in Docs : seqOf[d] > since[t]} \cup again
        /\ UNCHANGED <<since, cur, ref, dict, lists>>
    BY <1>3, <1>a, <2>1 DEF Respond, TypeOK
  <2>3. RecordsOK(t)'
    BY <1>b, <1>c, <1>f, <1>g, <2>2 DEF RecordsOK
  <2>4. Complete(t)'
    <3> SUFFICES ASSUME NEW d \in Docs, d \notin todo'[t] PROVE leaves[d] \subseteq Seen(d)
      <4>1. pc'[t] = "row" /\ snap'[t] = leaves /\ leaves' = leaves
        BY <1>c, <2>2
      <4>2. \A d \in Docs : Seen(d)' = Seen(d)
        BY <1>f, <2>2
      <4> QED
        BY <4>1, <4>2 DEF Complete
    <3>1. seqOf[d] <= since[t]
      BY <1>g, <2>2
    <3> QED
      BY <1>b, <2>2, <3>1 DEF Complete
  <2>5. Unseen(t)'
    <3> SUFFICES ASSUME t \notin repeated', NEW d \in Docs, ~InConflict(d), d \in todo'[t]
                 PROVE  leaves[d] \cap Seen(d) = {}
      BY <1>c, <1>d, <1>f, <1>g, <2>2 DEF Unseen
    <3>1. again = {} /\ t \notin repeated
      BY <2>1
    <3> QED
      BY <1>b, <1>g, <2>2, <3>1 DEF Unseen
  <2> QED
    BY <1>e, <1>f, <1>h, <2>2, <2>3, <2>4, <2>5
<1>4. CASE RowCheck(t)
  <2>1. PICK d \in todo[t] :
          /\ cur' = [cur EXCEPT ![t] = d]
          /\ todo' = [todo EXCEPT ![t] = @ \ {d}]
          /\ ref' = [ref EXCEPT ![t] = dict[d]]
          /\ Goto(t, IF snap[t][d] = {} THEN "row"
                     ELSE IF snap[t][d] \cap Seen(d) # {} THEN "alarm" ELSE "store")
    BY <1>4 DEF RowCheck
  <2>2. /\ pc[t] = "row" /\ d \in Docs
        /\ cur'[t] = d /\ todo'[t] = todo[t] \ {d} /\ ref'[t] = dict[d]
        /\ UNCHANGED <<since, last, snap, dict, lists, repeated>>
    BY <1>4, <1>a, <2>1 DEF RowCheck, TypeOK
  <2>3. \/ pc'[t] = "row" /\ snap[t][d] = {}
        \/ pc'[t] = "alarm" /\ snap[t][d] \cap Seen(d) # {}
        \/ pc'[t] = "store" /\ snap[t][d] \cap Seen(d) = {}
    BY <1>a, <2>1 DEF TypeOK
  <2>4. RecordsOK(t)'
    BY <1>b, <1>c, <1>f, <2>2, <2>3 DEF RecordsOK
  <2>5. Complete(t)'
    <3> SUFFICES ASSUME pc'[t] \in {"row", "store"}, NEW e \in Docs, seqOf[e] <= last[t]
                 PROVE  /\ snap[t][e] = leaves[e]
                        /\ \/ e \in todo'[t]
                           \/ pc'[t] = "store" /\ e = cur'[t]
                           \/ leaves[e] \subseteq Seen(e)
      BY <1>c, <1>f, <2>2, <2>3 DEF Complete
    <3>1. snap[t][e] = leaves[e] /\ (e \in todo[t] \/ leaves[e] \subseteq Seen(e))
      BY <1>b, <2>2 DEF Complete
    <3>2. CASE e # d
      BY <2>2, <3>1, <3>2
    <3>3. CASE e = d /\ pc'[t] = "row"
      <4>1. leaves[e] = {}
        BY <2>3, <3>1, <3>3
      <4> QED
        BY <3>1, <4>1
    <3>4. CASE e = d /\ pc'[t] = "store"
      BY <2>2, <3>1, <3>4
    <3> QED
      BY <3>2, <3>3, <3>4
  <2>6. Unseen(t)'
    BY <1>b, <1>c, <1>d, <1>f, <2>2, <2>3 DEF Unseen
  <2>7. NoFalseAlarm'
    <3> SUFFICES ASSUME pc'[t] = "alarm", t \notin repeated PROVE InConflict(d)'
      BY <1>a, <2>2 DEF NoFalseAlarm
    <3> QED
      BY <1>b, <1>d, <2>2, <2>3 DEF Unseen
  <2> QED
    BY <1>e, <1>f, <2>2, <2>4, <2>5, <2>6, <2>7
<1>5. CASE RowStore(t)
  <2>1. /\ pc[t] = "store" /\ pc'[t] = "row" /\ cur[t] \in Docs
        /\ UNCHANGED <<since, last, snap, ref, todo, cur, repeated>>
    BY <1>5, <1>a DEF RowStore, TypeOK, BaseOK, runVars
  <2>2. /\ ref[t] = dict[cur[t]] /\ cur[t] \notin todo[t]
        /\ snap[t][cur[t]] \cap Seen(cur[t]) = {}
    BY <1>b, <2>1 DEF RecordsOK
  <2>3. /\ \A e \in Docs : Seen(e)' = IF e = cur[t] THEN Seen(e) \cup snap[t][e] ELSE Seen(e)
        /\ RecordedOnce'
    BY <1>5, <1>b, <2>2, SeenStored
  <2>4. RecordsOK(t)'
    BY <1>b, <1>c, <2>1, <2>3 DEF RecordsOK
  <2>5. Complete(t)'
    BY <1>b, <1>c, <2>1, <2>3 DEF Complete
  <2>6. Unseen(t)'
    BY <1>b, <1>c, <1>d, <2>1, <2>2, <2>3 DEF Unseen
  <2> QED
    BY <1>e, <1>h, <2>1, <2>3, <2>4, <2>5, <2>6
<1>6. CASE RowsDone(t)
  <2>1. /\ pc[t] = "row" /\ todo[t] = {} /\ pc'[t] = "top" /\ since'[t] = last[t]
        /\ last'[t] = 0 /\ \A d \in Docs : snap'[t][d] = {}
        /\ UNCHANGED <<dict, lists, repeated>>
    BY <1>6, <1>a DEF RowsDone, TypeOK
  <2>2. RecordsOK(t)'
    BY <1>b, <1>c, <1>f, <1>g, <2>1 DEF RecordsOK
  <2>3. Complete(t)' /\ Unseen(t)'
    BY <1>b, <1>c, <1>d, <1>f, <2>1 DEF Complete, Unseen
  <2> QED
    BY <1>e, <1>f, <1>h, <2>1, <2>2, <2>3
<1> QED
  BY <1>1, <1>2, <1>3, <1>4, <1>5, <1>6 DEF RunStep

\* Nothing has been recorded when nothing has been written.
LEMMA FeedInit == Init => DatabaseOK /\ FeedInv
<1> SUFFICES ASSUME Init PROVE DatabaseOK /\ FeedInv
  OBVIOUS
<1>1. DatabaseOK
  BY DEF Init, DatabaseOK
<1>2. \A d \in Docs : Seen(d) = {}
  BY DEF Init, Seen
<1>3. \A t \in Runs : RecordsOK(t) /\ Complete(t) /\ Unseen(t)
  BY <1>2 DEF Init, Threads, RecordsOK, Complete, Unseen
<1>4. RecordedOnce /\ NoFalseAlarm
  BY DEF Init, Threads, RecordedOnce, NoFalseAlarm
<1> QED
  BY <1>1, <1>3, <1>4 DEF FeedInv

\* Every step keeps the database consistent and the feed complete.
LEMMA FeedStep ==
    ASSUME OneFeed
    PROVE  TypeOK /\ BaseOK /\ DatabaseOK /\ FeedInv /\ [Next]_vars => DatabaseOK' /\ FeedInv'
<1> SUFFICES ASSUME TypeOK, BaseOK, DatabaseOK, FeedInv, [Next]_vars
             PROVE  DatabaseOK' /\ FeedInv'
  OBVIOUS
<1>1. CASE \E d \in Docs : Update(d)
  BY <1>1, DatabaseUpdate, FeedUpdate
<1>2. ASSUME UNCHANGED serverVars PROVE DatabaseOK'
  BY <1>2 DEF serverVars, DatabaseOK, InConflict
<1>3. ASSUME NEW t \in Runs, Start(t) \/ RunStep(t) PROVE DatabaseOK' /\ FeedInv'
  BY <1>2, <1>3, FeedRun DEF Start, RunStep, LoopTop, Respond, RequestFails, RowCheck, RowStore,
                             RowsDone
<1>4. ASSUME NEW w \in Waiters, WaitUntil(w) \/ WaitStep(w) PROVE DatabaseOK' /\ FeedInv'
  <2>1. w \notin Runs
    BY TrackerAssumption
  <2>2. \A t \in Runs : pc'[t] = pc[t] /\ todo'[t] = todo[t]
    <3> USE DEF Goto, TypeOK, Threads
    <3>1. CASE WaitUntil(w) \/ LookDone(w)
      BY <2>1, <3>1 DEF WaitUntil, LookDone
    <3>2. CASE PollTop(w)
      BY <2>1, <3>2 DEF PollTop
    <3>3. CASE Look(w)
      BY <2>1, <3>3 DEF Look
    <3> QED
      BY <1>4, <3>1, <3>2, <3>3 DEF WaitStep
  <2>3. UNCHANGED <<serverVars, runVars, cur, dict, lists, repeated>>
    BY <1>4 DEF WaitUntil, WaitStep, PollTop, Look, LookDone
  <2> QED
    BY <1>2, <2>2, <2>3, FeedKept DEF runVars
<1>5. CASE Stop \/ (\E t \in Threads : Expire(t)) \/ UNCHANGED vars
  <2>1. UNCHANGED <<serverVars, pc, runVars, todo, cur, dict, lists, repeated>>
    BY <1>5 DEF Stop, Expire, vars
  <2> QED
    BY <1>2, <2>1, FeedKept DEF runVars
<1> QED
  BY <1>1, <1>3, <1>4, <1>5 DEF Next

\* The only feed of a database misses no update: whenever it goes on from `since', all
\* the leaves of every document updated up to there are recorded, however the updates
\* fall between its requests and among the rows it is processing.
THEOREM FeedMissesNothing ==
    ASSUME OneFeed
    PROVE  Spec => []NothingMissed
<1>1. FeedInv => NothingMissed
  BY DEF FeedInv, Complete, NothingMissed
<1> QED
  BY <1>1, FeedInit, FeedStep, TrackerTypeInit, TrackerTypeStep, PTL DEF Spec

\* The only feed of a database records no revision twice and raises ChangesError only
\* for a server that repeats itself or a document that has conflicting branches.
THEOREM FeedRecordsRight ==
    ASSUME OneFeed
    PROVE  Spec => []RecordedRight
<1>1. TypeOK /\ FeedInv => RecordedRight
  BY DEF FeedInv, RecordedRight
<1> QED
  BY <1>1, FeedInit, FeedStep, TrackerTypeInit, TrackerTypeStep, PTL DEF Spec

-----------------------------------------------------------------------------
(* wait_until                                                              *)

\* Every expected revision is still to be looked at, was found missing in this round, or
\* is recorded; nothing is ever taken out of the records of an only feed.
WaitInv ==
    \A w \in Waiters :
        /\ pc[w] = "look" => \A e \in expect[w] :
              e[1] \in todo[w] \/ e \in missing[w] \/ Found(w, e)
        /\ pc[w] = "true" => \A e \in expect[w] : Found(w, e)

\* The records of an only feed grow.
LEMMA SeenGrows ==
    ASSUME OneFeed, TypeOK, BaseOK, FeedInv, [Next]_vars, NEW d \in Docs
    PROVE  Seen(d) \subseteq Seen(d)'
<1>1. CASE UNCHANGED <<dict, lists>>
  BY <1>1, SeenSame
<1>2. ASSUME NEW t \in Runs, RowStore(t) PROVE Seen(d) \subseteq Seen(d)'
  <2>1. ref[t] = dict[cur[t]] /\ snap[t][cur[t]] \cap Seen(cur[t]) = {} /\ RecordedOnce
    BY <1>2 DEF FeedInv, RecordsOK, RowStore
  <2> QED
    BY <1>2, <2>1, SeenStored
<1>3. UNCHANGED <<dict, lists>> \/ \E t \in Runs : RowStore(t)
  BY DEF Next, Update, Start, RunStep, LoopTop, Respond, RequestFails, RowCheck, RowsDone,
         Stop, WaitUntil, WaitStep, PollTop, Look, LookDone, Expire, vars
<1> QED
  BY <1>1, <1>2, <1>3

\* Every step keeps what a waiting test has found so far true.
LEMMA WaitInvStep ==
    ASSUME OneFeed
    PROVE  TypeOK /\ BaseOK /\ FeedInv /\ WaitInv /\ [Next]_vars => WaitInv'
<1> SUFFICES ASSUME TypeOK, BaseOK, FeedInv, WaitInv, [Next]_vars PROVE WaitInv'
  OBVIOUS
<1>a. ASSUME NEW w \in Waiters, NEW e \in expect[w], Found(w, e) PROVE Found(w, e)'
  <2>1. e[1] \in Docs
    BY DEF TypeOK
  <2>2. Seen(e[1]) \subseteq Seen(e[1])'
    BY <2>1, SeenGrows
  <2> QED
    BY <1>a, <2>2 DEF Found
<1>b. ASSUME NEW w \in Waiters, UNCHANGED <<pc[w], todo[w], missing[w], expect[w]>>
      PROVE  /\ pc'[w] = "look" => \A e \in expect'[w] :
                    e[1] \in todo'[w] \/ e \in missing'[w] \/ Found(w, e)'
             /\ pc'[w] = "true" => \A e \in expect'[w] : Found(w, e)'
  BY <1>a, <1>b DEF WaitInv
<1> USE DEF Goto
<1>1. ASSUME NEW w \in Waiters, WaitUntil(w) \/ WaitStep(w) PROVE WaitInv'
  <2>a. w \in Threads
    BY DEF Threads
  <2>b. \A v \in Waiters \ {w} : UNCHANGED <<pc[v], todo[v], missing[v], expect[v]>>
    <3> USE DEF TypeOK, Threads
    <3>1. CASE WaitUntil(w)
      BY <3>1 DEF WaitUntil
    <3>2. CASE PollTop(w)
      BY <3>2 DEF PollTop
    <3>3. CASE Look(w)
      BY <3>3 DEF Look
    <3>4. CASE LookDone(w)
      BY <3>4 DEF LookDone, waitVars
    <3> QED
      BY <1>1, <3>1, <3>2, <3>3, <3>4 DEF WaitStep
  <2>c. ASSUME /\ pc'[w] = "look" => \A e \in expect'[w] :
                    e[1] \in todo'[w] \/ e \in missing'[w] \/ Found(w, e)'
               /\ pc'[w] = "true" => \A e \in expect'[w] : Found(w, e)'
        PROVE  WaitInv'
    BY <1>b, <2>b, <2>c DEF WaitInv
  <2>1. CASE WaitUntil(w)
    BY <2>1, <2>a, <2>c DEF WaitUntil, TypeOK
  <2>2. CASE PollTop(w)
    <3>1. CASE expired[w]
      <4>1. pc' = [pc EXCEPT ![w] = "false"]
        BY <2>2, <3>1 DEF PollTop
      <4> QED
        BY <2>a, <2>c, <4>1 DEF TypeOK
    <3>2. CASE ~expired[w]
      <4>1. pc' = [pc EXCEPT ![w] = "look"] /\ expect' = expect
            /\ todo' = [todo EXCEPT ![w] = {e[1] : e \in expect[w]}]
        BY <2>2, <3>2 DEF PollTop
      <4> QED
        BY <2>a, <2>c, <4>1 DEF TypeOK
    <3> QED
      BY <3>1, <3>2
  <2>3. CASE Look(w)
    <3>1. PICK d \in todo[w] :
            /\ todo' = [todo EXCEPT ![w] = @ \ {d}]
            /\ missing' = [missing EXCEPT ![w] =
                             @ \cup {e \in expect[w] : e[1] = d /\ ~Found(w, e)}]
      BY <2>3 DEF Look
    <3>2. /\ pc[w] = "look" /\ pc' = pc /\ expect' = expect
          /\ todo'[w] = todo[w] \ {d}
          /\ missing'[w] = missing[w] \cup {e \in expect[w] : e[1] = d /\ ~Found(w, e)}
      BY <2>3, <2>a, <3>1 DEF Look, TypeOK
    <3>3. ASSUME NEW e \in expect[w]
          PROVE  e[1] \in todo'[w] \/ e \in missing'[w] \/ Found(w, e)'
      <4>1. e[1] \in todo[w] \/ e \in missing[w] \/ Found(w, e)
        BY <3>2 DEF WaitInv
      <4> QED
        BY <1>a, <3>2, <4>1
    <3> QED
      BY <2>c, <3>2, <3>3
  <2>4. CASE LookDone(w)
    <3>1. /\ pc[w] = "look" /\ todo[w] = {} /\ UNCHANGED <<todo, missing, expect>>
          /\ pc'[w] = IF missing[w] = {} THEN "true" ELSE "poll"
      BY <2>4, <2>a DEF LookDone, waitVars, TypeOK
    <3>2. pc'[w] = "true" => \A e \in expect[w] : Found(w, e)
      BY <3>1 DEF WaitInv
    <3> QED
      BY <1>a, <2>c, <3>1, <3>2
  <2> QED
    BY <1>1, <2>1, <2>2, <2>3, <2>4 DEF WaitStep
<1>2. ASSUME NEW t \in Runs, Start(t) \/ RunStep(t) PROVE WaitInv'
  <2>1. \A w \in Waiters : w # t
    BY TrackerAssumption
  <2>2. \A w \in Waiters : UNCHANGED <<pc[w], todo[w]>>
    <3> USE DEF TypeOK, Threads
    <3>1. CASE Start(t) \/ LoopTop(t) \/ RequestFails(t) \/ RowsDone(t)
      BY <2>1, <3>1 DEF Start, LoopTop, RequestFails, RowsDone
    <3>2. CASE Respond(t)
      BY <2>1, <3>2 DEF Respond
    <3>3. CASE RowCheck(t)
      BY <2>1, <3>3 DEF RowCheck
    <3>4. CASE RowStore(t)
      BY <2>1, <3>4 DEF RowStore
    <3> QED
      BY <1>2, <3>1, <3>2, <3>3, <3>4 DEF RunStep
  <2>3. UNCHANGED waitVars
    BY <1>2 DEF Start, RunStep, LoopTop, Respond, RequestFails, RowCheck, RowStore, RowsDone
  <2> QED
    BY <1>b, <2>2, <2>3 DEF waitVars, WaitInv
<1>3. CASE (\E d \in Docs : Update(d)) \/ Stop \/ (\E t \in Threads : Expire(t)) \/ UNCHANGED vars
  <2>1. UNCHANGED <<pc, todo, waitVars>>
    BY <1>3 DEF Update, Stop, Expire, vars
  <2> QED
    BY <1>b, <2>1 DEF waitVars, WaitInv
<1> QED
  BY <1>1, <1>2, <1>3 DEF Next

\* wait_until returns True only when every expected revision, or its generation, is in
\* the records at that moment and from then on, although it looks at the documents one
\* by one while the feed goes on recording.
THEOREM WaitUntilSound ==
    ASSUME OneFeed
    PROVE  Spec => []WaitSound
<1>1. Init => WaitInv
  BY DEF Init, WaitInv, Threads
<1>2. WaitInv => WaitSound
  BY DEF WaitInv, WaitSound
<1> QED
  BY <1>1, <1>2, FeedInit, FeedStep, WaitInvStep, TrackerTypeInit, TrackerTypeStep, PTL
     DEF Spec
=============================================================================
