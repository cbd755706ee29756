------------------------------ MODULE ClientsProofs ------------------------------
(***************************************************************************)
(* Theorems about the clients of a gateway: first the users of             *)
(* libraries/testkit, for all sets of users and documents, all numbers of  *)
(* updates, calls and faults; then the test applications, for every set of *)
(* platforms and versions and any number of jobs one after the other.      *)
(***************************************************************************)
EXTENDS Users, TestApp, FiniteSetTheorems, WellFoundedInduction, TLAPS

-----------------------------------------------------------------------------
(* Users: what holds between the steps of calls, threads and the tracker   *)

ThreadPhases == {"none", "add", "get", "put", "ok", "http", "other"}
CallPhases == {"idle", "bulk", "running", "returned", "raised"}
MainKinds == {"none", "add", "update", "fin", "verify", "same"}
TrackerPhases == {"off", "poll", "done", "gone", "raised"}

ClientTypes ==
    /\ cache \in [Users -> [AllDocs -> Nat]]
    /\ th \in [Docs -> [phase : ThreadPhases, left : Nat, read : Nat]]
    /\ uc \in [Users -> [kind : {"none", "add", "update"}, phase : CallPhases, num : Nat,
                         errors : SUBSET Docs, base : [Docs -> Nat]]]

GateTypes ==
    /\ {rev, feed, fseq} \subseteq [AllDocs -> Nat]
    /\ lag \in BOOLEAN /\ online \in BOOLEAN /\ queue \in Seq(AllDocs)

TestTypes ==
    /\ main \in [kind : MainKinds, phase : {"running", "returned", "raised"},
                 todo : SUBSET Users, right : BOOLEAN, ignore : BOOLEAN,
                 clean : SUBSET Users, expected : [AllDocs -> Nat]]
    /\ tr \in [kind : {"none", "loop", "once", "continuous"}, phase : TrackerPhases,
               since : Nat, docs : [AllDocs -> Nat]]
    /\ asked \in Nat /\ calls \in Nat

\* The feed shows revisions that there were, and all of them unless it lags.
FeedOK == (\A d \in AllDocs : feed[d] <= rev[d]) /\ (~lag => feed = rev)

\* A user caches its own documents, at revisions that there were.
CacheOK == \A u \in Users, d \in AllDocs :
    cache[u][d] <= rev[d] /\ (cache[u][d] # 0 => d \in Own(u))

\* A document has at most the revisions that were asked for.
AskedOK == \A d \in Docs :
    /\ rev[d] <= 1 + asked
    /\ th[d].phase \in {"get", "put"} => th[d].left >= 1 /\ rev[d] + th[d].left <= 1 + asked

Working == main.kind \in {"add", "update"} /\ main.phase = "running"

\* Threads run only in a call of their user, and calls of users only in one of the test.
CallsOK ==
    /\ \A u \in Users : \A d \in Own(u) :
         /\ uc[u].phase # "running" => ~Busy(d)
         /\ uc[u].phase \in {"idle", "bulk", "returned"} => th[d].phase # "other"
    /\ \A u \in Users : uc[u].phase = "bulk" => uc[u].kind = "add"
    /\ ~Working => \A u \in Users : \/ uc[u].phase \in {"idle", "returned"}
                                    \/ uc[u].phase = "raised" /\ u \notin main.clean

\* The cache of a user of whom no call has raised is current, but for the document of a
\* thread that is about to make the call raise.
CurrentOK == \A u \in main.clean : \A d \in Own(u) :
    (uc[u].phase # "raised" /\ th[d].phase # "other") => cache[u][d] = rev[d]

\* How far the update of a document is.
UpdatesOK == \A u \in Users : uc[u].kind = "update" =>
    /\ \A d \in Own(u) :
         /\ th[d].phase # "add"
         /\ th[d].phase \in {"get", "put"} => rev[d] + th[d].left = uc[u].base[d] + uc[u].num
         /\ th[d].phase = "ok" => rev[d] = uc[u].base[d] + uc[u].num
         /\ th[d].phase = "http" => rev[d] < uc[u].base[d] + uc[u].num
    /\ uc[u].phase = "returned" => uc[u].errors = {d \in Own(u) : th[d].phase = "http"}

UsersInv ==
    /\ ClientTypes /\ GateTypes /\ TestTypes
    /\ FeedOK /\ CacheOK /\ AskedOK /\ CallsOK /\ CurrentOK /\ UpdatesOK

\* All documents have all their updates at the gateway and, unless revisions are ignored,
\* in the caches.
Complete(ignore) == \A u \in Users : \A d \in Own(u) :
    rev[d] = 1 + asked /\ cache[u][d] # 0 /\ (ignore \/ cache[u][d] = rev[d])

\* While the test verifies: nothing is written, and what was right stays so.
VerifyOK == main.kind = "verify" =>
    /\ main.expected = Expected
    /\ main.phase = "returned" => Complete(main.ignore)
    /\ main.right => Complete(main.ignore) /\ online /\ feed = rev /\ rev[Fin] = 0 /\ main.phase # "raised"

SameOK == main.kind = "same" =>
    /\ tr.phase = "done"
    /\ (main.phase = "returned" /\ main.clean = Users) => \A d \in Docs : tr.docs[d] = rev[d]

\* Before the first call there is no document.
StartOK == calls = 0 => rev = Empty /\ main.phase # "running"

\* While a tracker polls: what is numbered up to since it has, at the revision in the feed;
\* numbers are those of single documents, and since is not ahead of them; the writes that
\* the feed does not show are queued.
PollOK ==
    /\ \A d \in Docs : (fseq[d] # 0 /\ fseq[d] <= tr.since) => tr.docs[d] = feed[d]
    /\ \E d \in AllDocs : tr.since <= fseq[d]
    /\ \A d, e \in AllDocs : (fseq[d] = fseq[e] /\ fseq[d] # 0) => d = e
    /\ lag => \A d \in AllDocs : feed[d] # rev[d] => d \in ToSet(queue)

TrackOK ==
    /\ tr.phase = "off" => fseq = Empty /\ tr.since = 0
    /\ tr.phase = "poll" => PollOK

-----------------------------------------------------------------------------
(* Greatest and least numbers, sets as sequences                           *)

\* The parts of a finite set in T have a least one.
LEMMA LeastSet ==
    ASSUME NEW S, IsFiniteSet(S), NEW T, T \subseteq SUBSET S, T # {}
    PROVE  \E x \in T : \A y \in T : ~ (y \subseteq x /\ y # x)
<1>1. T \subseteq FiniteSubsetsOf(S)
  BY FS_Subset DEF FiniteSubsetsOf
<1>2. PICK x \in T : \A y \in T : ~ (<<y, x>> \in StrictSubsetOrdering(S))
  BY <1>1, FS_StrictSubsetOrderingWellFounded, WFMin
<1>3. \A y \in T : y \subseteq x /\ y # x => <<y, x>> \in StrictSubsetOrdering(S)
  BY DEF StrictSubsetOrdering
<1>4. \A y \in T : ~ (y \subseteq x /\ y # x)
  BY <1>2, <1>3, Zenon
<1> QED
  BY <1>4, Zenon

\* Among finitely many documents with numbers there is one with the least.
LEMMA LeastNumbered ==
    ASSUME NEW S, IsFiniteSet(S), S # {}, NEW f, \A x \in S : f[x] \in Nat
    PROVE  \E x \in S : \A y \in S : f[x] <= f[y]
<1> DEFINE Below(x) == {y \in S : f[y] < f[x]}
           T == {Below(x) : x \in S}
<1>1. T \subseteq SUBSET S /\ T # {}
  OBVIOUS
<1>2. PICK t \in T : \A y \in T : ~ (y \subseteq t /\ y # t)
  <2> HIDE DEF T
  <2> QED BY <1>1, LeastSet
<1>3. PICK x \in S : t = Below(x)
  OBVIOUS
<1>4. \A y \in S : f[x] <= f[y]
  <2> SUFFICES ASSUME NEW y \in S, f[y] < f[x] PROVE FALSE
    OBVIOUS
  <2>1. Below(y) \subseteq t /\ Below(y) \in T
    BY <1>3
  <2>2. y \in t /\ y \notin Below(y)
    BY <1>3
  <2> QED
    BY <1>2, <2>1, <2>2
<1> QED
  BY <1>4

\* ... and one with the greatest, the one that the fewest are above.
LEMMA GreatestNumbered ==
    ASSUME NEW S, IsFiniteSet(S), S # {}, NEW f, \A x \in S : f[x] \in Nat
    PROVE  \E x \in S : \A y \in S : f[y] <= f[x]
<1> DEFINE Above(x) == {y \in S : f[y] > f[x]}
           T == {Above(x) : x \in S}
<1>1. T \subseteq SUBSET S /\ T # {}
  OBVIOUS
<1>2. PICK t \in T : \A y \in T : ~ (y \subseteq t /\ y # t)
  <2> HIDE DEF T
  <2> QED BY <1>1, LeastSet
<1>3. PICK x \in S : t = Above(x)
  OBVIOUS
<1>4. \A y \in S : f[y] <= f[x]
  <2> SUFFICES ASSUME NEW y \in S, f[y] > f[x] PROVE FALSE
    OBVIOUS
  <2>1. Above(y) \subseteq t /\ Above(y) \in T
    BY <1>3
  <2>2. y \in t /\ y \notin Above(y)
    BY <1>3
  <2> QED
    BY <1>2, <2>1, <2>2
<1> QED
  BY <1>4

\* The operator Max gives it.
LEMMA MaxOfNats ==
    ASSUME NEW S, S \subseteq Nat, IsFiniteSet(S), S # {}
    PROVE  Max(S) \in S /\ \A y \in S : y <= Max(S)
<1> DEFINE f == [x \in S |-> x]
<1>1. \A x \in S : f[x] = x /\ x \in Nat
  OBVIOUS
<1>2. \E x \in S : \A y \in S : f[y] <= f[x]
  <2>1. \A x \in S : f[x] \in Nat
    BY <1>1
  <2> HIDE DEF f
  <2> QED
    BY <2>1, GreatestNumbered, Zenon
<1>3. \E x \in S : \A y \in S : x >= y
  BY <1>1, <1>2
<1>4. Max(S) \in S /\ \A y \in S : Max(S) >= y
  BY <1>3 DEF Max
<1> QED
  BY <1>1, <1>4

\* A finite set as a sequence: all of its elements.
LEMMA SeqOfSet ==
    ASSUME NEW S, IsFiniteSet(S)
    PROVE  SetToSeq(S) \in Seq(S) /\ ToSet(SetToSeq(S)) = S
<1> DEFINE n == Cardinality(S)
           s == SetToSeq(S)
<1>1. n \in Nat /\ ExistsBijection(1..n, S)
  BY FS_CardinalityType
<1>2. \E f \in [1..n -> S] : IsInjective(f)
  BY <1>1 DEF ExistsBijection, Bijection, Injection, IsInjective
<1>3. s \in [1..n -> S] /\ IsInjective(s)
  BY <1>2 DEF SetToSeq
<1>4. s \in Injection(1..n, S)
  BY <1>3 DEF Injection
<1>5. Cardinality(1..n) = n
  BY <1>1, FS_Interval
<1>6. s \in Surjection(1..n, S)
  <2> HIDE DEF s
  <2> QED BY <1>4, <1>5, FS_Injection
<1>7. DOMAIN s = 1..n /\ \A x \in S : \E i \in 1..n : s[i] = x
  BY <1>3, <1>6 DEF Surjection
<1>8. s \in Seq(S)
  <2> HIDE DEF s, n
  <2> QED BY <1>1, <1>3
<1> HIDE DEF s, n
<1>9. ToSet(s) = S
  BY <1>3, <1>7 DEF ToSet
<1> QED
  BY <1>8, <1>9 DEF s

-----------------------------------------------------------------------------
(* Writes                                                                  *)

\* Whose documents are whose.
LEMMA OwnDocs ==
    /\ IsFiniteSet(AllDocs) /\ Docs \subseteq AllDocs /\ Fin \in AllDocs /\ Fin \notin Docs
    /\ \A u \in Users : Own(u) \subseteq Docs
    /\ \A d \in Docs : \E u \in Users : d \in Own(u)
    /\ \A u, v \in Users : \A d \in Own(u) \cap Own(v) : u = v
<1>1. IsFiniteSet(Docs) /\ Fin \notin Docs
  BY UsersAssumption, Zenon
<1>2. IsFiniteSet(AllDocs)
  BY <1>1, FS_AddElement DEF AllDocs
<1>3. \A u, v \in Users : u # v => Own(u) \cap Own(v) = {}
  BY UsersAssumption, Zenon
<1>4. \A u, v \in Users : \A d \in Own(u) \cap Own(v) : u = v
  <2> SUFFICES ASSUME NEW u \in Users, NEW v \in Users, NEW d \in Own(u) \cap Own(v), u # v
               PROVE  FALSE
    OBVIOUS
  <2> QED
    BY <1>3
<1>5. /\ \A u \in Users : Own(u) \subseteq Docs
      /\ \A d \in Docs : \E u \in Users : d \in Own(u)
  BY DEF Docs
<1>6. Docs \subseteq AllDocs /\ Fin \in AllDocs
  BY DEF AllDocs
<1> QED
  BY <1>1, <1>2, <1>4, <1>5, <1>6

\* New numbers are beyond all that there were, and belong to single documents.
LEMMA NewNumbers ==
    ASSUME fseq \in [AllDocs -> Nat], NEW s \in Seq(AllDocs), tr.phase = "poll"
    PROVE  /\ Numbered(s) \in [AllDocs -> Nat]
           /\ \A d \in AllDocs \ ToSet(s) : Numbered(s)[d] = fseq[d]
           /\ \A d \in AllDocs \cap ToSet(s), e \in AllDocs : Numbered(s)[d] > fseq[e]
           /\ \A d, e \in AllDocs \cap ToSet(s) : Numbered(s)[d] = Numbered(s)[e] => d = e
<1> DEFINE top == Max(Range(fseq))
           Spots(d) == {i \in DOMAIN s : s[i] = d}
<1>1. top \in Nat /\ \A e \in AllDocs : fseq[e] <= top
  <2>1. Range(fseq) \subseteq Nat /\ Range(fseq) # {} /\ \A e \in AllDocs : fseq[e] \in Range(fseq)
    BY OwnDocs DEF Range
  <2>2. fseq \in Surjection(AllDocs, Range(fseq))
    BY DEF Surjection, Range
  <2>3. IsFiniteSet(Range(fseq))
    BY <2>2, OwnDocs, FS_Surjection
  <2>4. top \in Range(fseq) /\ \A y \in Range(fseq) : y <= top
    BY <2>1, <2>3, MaxOfNats
  <2> QED
    BY <2>1, <2>4
<1>2. ASSUME NEW d \in AllDocs \cap ToSet(s)
      PROVE  Max(Spots(d)) \in Nat \ {0} /\ Max(Spots(d)) \in DOMAIN s /\ s[Max(Spots(d))] = d
  <2>1. Len(s) \in Nat /\ DOMAIN s = 1..Len(s)
    OBVIOUS
  <2>2. IsFiniteSet(DOMAIN s)
    BY <2>1, FS_Interval
  <2>3. Spots(d) \subseteq DOMAIN s /\ Spots(d) # {}
    BY <1>2 DEF ToSet
  <2>4. IsFiniteSet(Spots(d)) /\ Spots(d) \subseteq Nat
    BY <2>1, <2>2, <2>3, FS_Subset
  <2>5. Max(Spots(d)) \in Spots(d)
    <3> HIDE DEF Spots
    <3> QED BY <2>3, <2>4, MaxOfNats
  <2> QED
    BY <2>1, <2>5
<1>3. Numbered(s) = [d \in AllDocs |-> IF d \in ToSet(s) THEN top + Max(Spots(d)) ELSE fseq[d]]
  BY DEF Numbered
<1> HIDE DEF top, Spots
<1>4. Numbered(s) \in [AllDocs -> Nat]
  <2>1. \A d \in AllDocs : Numbered(s)[d] \in Nat
    BY <1>1, <1>2, <1>3
  <2> QED
    BY <1>3, <2>1
<1>5. \A d \in AllDocs \cap ToSet(s), e \in AllDocs : Numbered(s)[d] > fseq[e]
  <2> SUFFICES ASSUME NEW d \in AllDocs \cap ToSet(s), NEW e \in AllDocs
               PROVE  Numbered(s)[d] > fseq[e]
    OBVIOUS
  <2>1. Numbered(s)[d] = top + Max(Spots(d))
    BY <1>3
  <2> QED
    BY <1>1, <1>2, <2>1
<1>6. \A d, e \in AllDocs \cap ToSet(s) : Numbered(s)[d] = Numbered(s)[e] => d = e
  <2> SUFFICES ASSUME NEW d \in AllDocs \cap ToSet(s), NEW e \in AllDocs \cap ToSet(s),
                      Numbered(s)[d] = Numbered(s)[e]
               PROVE  d = e
    OBVIOUS
  <2>1. Numbered(s)[d] = top + Max(Spots(d)) /\ Numbered(s)[e] = top + Max(Spots(e))
    BY <1>3
  <2>2. Max(Spots(d)) = Max(Spots(e))
    <3>1. Max(Spots(d)) \in Nat /\ Max(Spots(e)) \in Nat
      BY <1>2
    <3>2. \A a, b, c \in Nat : a + b = a + c => b = c
      OBVIOUS
    <3> QED
      BY <1>1, <2>1, <3>1, <3>2
  <2> QED
    BY <1>2, <2>2
<1> QED
  BY <1>3, <1>4, <1>5, <1>6

\* Without a tracker the numbers stay.
LEMMA NumbersTyped ==
    ASSUME fseq \in [AllDocs -> Nat], NEW s \in Seq(AllDocs)
    PROVE  Numbered(s) \in [AllDocs -> Nat]
BY NewNumbers DEF Numbered

\* What writing some documents does to the gateway and its feed.
LEMMA WritesGate ==
    ASSUME GateTypes, FeedOK, NEW ds \in SUBSET AllDocs, Writes(ds), UNCHANGED <<lag, online>>
    PROVE  /\ GateTypes' /\ FeedOK'
           /\ \A d \in AllDocs : rev'[d] = IF d \in ds THEN rev[d] + 1 ELSE rev[d]
<1>1. /\ rev \in [AllDocs -> Nat] /\ feed \in [AllDocs -> Nat] /\ fseq \in [AllDocs -> Nat]
      /\ lag \in BOOLEAN /\ online \in BOOLEAN /\ queue \in Seq(AllDocs)
  BY DEF GateTypes
<1>2. /\ rev' = [d \in AllDocs |-> IF d \in ds THEN rev[d] + 1 ELSE rev[d]]
  BY DEF Writes
<1>3. rev' \in [AllDocs -> Nat] /\ \A d \in AllDocs : rev[d] <= rev'[d]
  BY <1>1, <1>2
<1>4. SetToSeq(ds) \in Seq(AllDocs)
  <2>1. SetToSeq(ds) \in Seq(ds)
    BY OwnDocs, FS_Subset, SeqOfSet
  <2> QED
    BY <2>1
<1>5. CASE lag
  <2>1. feed' = feed /\ fseq' = fseq /\ queue' \in {queue, queue \o SetToSeq(ds)}
    BY <1>5 DEF Writes
  <2>2. queue' \in Seq(AllDocs)
    <3>1. \A a, b \in Seq(AllDocs) : a \o b \in Seq(AllDocs)
      OBVIOUS
    <3> QED
      BY <1>1, <1>4, <2>1, <3>1
  <2>3. \A d \in AllDocs : feed'[d] <= rev'[d]
    <3>1. \A d \in AllDocs : feed[d] \in Nat /\ rev[d] \in Nat /\ rev'[d] \in Nat /\ feed[d] <= rev[d]
      BY <1>1, <1>3 DEF FeedOK
    <3> QED
      BY <1>3, <2>1, <3>1
  <2> QED
    BY <1>1, <1>2, <1>3, <1>5, <2>1, <2>2, <2>3 DEF GateTypes, FeedOK
<1>6. CASE ~lag
  <2>1. feed' = rev' /\ fseq' = Numbered(SetToSeq(ds)) /\ queue' = queue
    BY <1>6 DEF Writes
  <2>2. fseq' \in [AllDocs -> Nat]
    BY <1>1, <1>4, <2>1, NumbersTyped
  <2>3. \A d \in AllDocs : feed'[d] <= rev'[d]
    BY <1>3, <2>1
  <2> QED
    BY <1>1, <1>2, <1>3, <2>1, <2>2, <2>3 DEF GateTypes, FeedOK
<1> QED
  BY <1>5, <1>6

-----------------------------------------------------------------------------
(* Threads                                                                 *)

Threads == [phase : ThreadPhases, left : Nat, read : Nat]

\* The thread for d goes on without writing: it has read, or was refused.
Refusal(d, t) ==
    /\ UNCHANGED <<rev, queue, feed, fseq, cache>>
    /\ \/ t.phase = "put" /\ th[d].phase = "get" /\ t.left = th[d].left
       \/ t.phase = "http" /\ th[d].phase \in {"add", "get"}
       \/ t.phase = "other"

\* It has written, and the answer was lost.
LostAnswer(d, t) == Writes({d}) /\ t.phase = "other" /\ UNCHANGED cache

\* It has written, and cached what it got.
Written(u, d, t) ==
    /\ Writes({d}) /\ cache' = [cache EXCEPT ![u][d] = rev'[d]]
    /\ \/ t.phase = "ok" /\ th[d].phase = "add"
       \/ t.phase = "ok" /\ th[d].phase = "put" /\ th[d].left = 1
       \/ t.phase = "get" /\ th[d].phase = "put" /\ th[d].left # 1 /\ t.left = th[d].left - 1

\* Every step of a thread has one of these forms.
ThreadStep(u, d, t) ==
    /\ th' = [th EXCEPT ![d] = t] /\ Busy(d)
    /\ UNCHANGED <<lag, online, uc, main, tr, asked, calls>>
    /\ (~ UNCHANGED rev) /\ th[d].phase = "add" => rev[d] = 0
    /\ Refusal(d, t) \/ LostAnswer(d, t) \/ Written(u, d, t)

\* A thread without a document to write, and how it ends.
LEMMA EndThread ==
    ASSUME NEW how \in ThreadPhases
    PROVE  /\ [NoThread EXCEPT !.phase = how] \in Threads
           /\ [NoThread EXCEPT !.phase = how].phase = how
BY DEF NoThread, Threads

\* The thread after a round of update_doc.
LEMMA RoundThread ==
    ASSUME ClientTypes, AskedOK, NEW d \in Docs, th[d].phase = "put", NextRound(d)
    PROVE  \E t \in Threads :
              /\ th' = [th EXCEPT ![d] = t]
              /\ \/ t.phase = "ok" /\ th[d].left = 1
                 \/ t.phase = "get" /\ th[d].left # 1 /\ t.left = th[d].left - 1
<1>1. th[d] \in Threads /\ th[d].left >= 1 /\ th[d].left \in Nat
  BY DEF ClientTypes, AskedOK, Threads
<1>2. CASE th[d].left = 1
  <2>1. th' = [th EXCEPT ![d] = [NoThread EXCEPT !.phase = "ok"]]
    BY <1>2 DEF NextRound, Ends
  <2> QED
    BY <1>2, <2>1, EndThread DEF ThreadPhases
<1>3. CASE th[d].left # 1
  <2> DEFINE t == [phase |-> "get", left |-> th[d].left - 1, read |-> 0]
  <2>2. th' = [th EXCEPT ![d] = t]
    BY <1>3 DEF NextRound
  <2>3. th[d].left - 1 \in Nat
    BY <1>1, <1>3
  <2>4. t \in Threads /\ t.phase = "get" /\ t.left = th[d].left - 1
    BY <2>3 DEF Threads, ThreadPhases
  <2> QED
    BY <1>3, <2>2, <2>4
<1> QED
  BY <1>2, <1>3

\* add_doc and update_doc take such steps only.
LEMMA ThreadForms ==
    ASSUME ClientTypes, GateTypes, FeedOK, AskedOK, NEW u \in Users, NEW d \in Own(u),
           AddDoc(u, d) \/ UpdateGet(u, d) \/ UpdatePut(u, d)
    PROVE  \E t \in Threads : ThreadStep(u, d, t)
<1>0. d \in Docs /\ d \in AllDocs /\ th[d] \in Threads /\ rev \in [AllDocs -> Nat]
  BY OwnDocs DEF ClientTypes, GateTypes, Threads
<1>a. ASSUME NEW how \in {"ok", "http", "other"}, Ends(d, how)
      PROVE  \E t \in Threads : t.phase = how /\ th' = [th EXCEPT ![d] = t]
  BY <1>a, EndThread DEF Ends, ThreadPhases
<1>1. CASE AddDoc(u, d)
  <2>1. /\ th[d].phase = "add" /\ Busy(d) /\ UNCHANGED <<lag, online, uc, main, tr, asked, calls>>
    BY <1>1 DEF AddDoc, Busy
  <2>2. CASE rev[d] = 0 /\ Writes({d}) /\ cache' = [cache EXCEPT ![u][d] = 1] /\ Ends(d, "ok")
    <3>1. rev'[d] = 1
      BY <1>0, <2>1, <2>2, WritesGate
    <3> QED
      BY <1>a, <2>1, <2>2, <3>1 DEF ThreadStep, Written
  <2>3. CASE rev[d] = 0 /\ Writes({d}) /\ Ends(d, "other") /\ UNCHANGED cache
    BY <1>a, <2>1, <2>3 DEF ThreadStep, LostAnswer
  <2>4. CASE Ends(d, "http") /\ UNCHANGED <<rev, queue, feed, fseq, cache>>
    BY <1>a, <2>1, <2>4 DEF ThreadStep, Refusal
  <2> QED
    BY <1>1, <2>2, <2>3, <2>4 DEF AddDoc
<1>2. CASE UpdateGet(u, d)
  <2>1. /\ th[d].phase = "get" /\ Busy(d)
        /\ UNCHANGED <<rev, queue, feed, fseq, lag, online, cache, uc, main, tr, asked, calls>>
    BY <1>2 DEF UpdateGet, Busy, gate
  <2>2. CASE th' = [th EXCEPT ![d] = [@ EXCEPT !.phase = "put", !.read = rev[d]]]
    <3> DEFINE t == [th[d] EXCEPT !.phase = "put", !.read = rev[d]]
    <3>1. t \in Threads /\ t.phase = "put" /\ t.left = th[d].left
      BY <1>0 DEF Threads, ThreadPhases
    <3>2. th' = [th EXCEPT ![d] = t]
      BY <2>2
    <3> QED
      BY <2>1, <3>1, <3>2 DEF ThreadStep, Refusal
  <2>3. CASE Ends(d, "http")
    BY <1>a, <2>1, <2>3 DEF ThreadStep, Refusal
  <2>4. CASE Ends(d, "other")
    BY <1>a, <2>1, <2>4 DEF ThreadStep, Refusal
  <2> QED
    BY <1>2, <2>2, <2>3, <2>4 DEF UpdateGet
<1>3. CASE UpdatePut(u, d)
  <2>1. /\ th[d].phase = "put" /\ Busy(d) /\ UNCHANGED <<lag, online, uc, main, tr, asked, calls>>
    BY <1>3 DEF UpdatePut, Busy
  <2>2. CASE Writes({d}) /\ cache' = [cache EXCEPT ![u][d] = rev'[d]] /\ NextRound(d)
    BY <1>0, <2>1, <2>2, RoundThread DEF ThreadStep, Written
  <2>3. CASE Writes({d}) /\ Ends(d, "other") /\ UNCHANGED cache
    BY <1>a, <2>1, <2>3 DEF ThreadStep, LostAnswer
  <2>4. CASE Ends(d, "other") /\ UNCHANGED <<rev, queue, feed, fseq, cache>>
    BY <1>a, <2>1, <2>4 DEF ThreadStep, Refusal
  <2> QED
    BY <1>3, <2>2, <2>3, <2>4 DEF UpdatePut
<1> QED
  BY <1>1, <1>2, <1>3

\* A thread runs only while the call of its user, and that of the test, do.
LEMMA BusyWorks ==
    ASSUME CallsOK, NEW u \in Users, NEW d \in Own(u), Busy(d)
    PROVE  uc[u].phase = "running" /\ Working
<1>1. uc[u].phase = "running"
  BY DEF CallsOK
<1> QED
  BY <1>1 DEF CallsOK

\* What a step of the thread for d leaves alone, and the types it keeps.
LEMMA ThreadFrame ==
    ASSUME ClientTypes, GateTypes, TestTypes, FeedOK, NEW u \in Users, NEW d \in Own(u),
           NEW t \in Threads, ThreadStep(u, d, t)
    PROVE  /\ ClientTypes' /\ GateTypes' /\ TestTypes' /\ FeedOK'
           /\ th'[d] = t /\ \A e \in Docs \ {d} : th'[e] = th[e]
           /\ \A e \in AllDocs \ {d} : rev'[e] = rev[e]
           /\ \A v \in Users, e \in AllDocs : (v # u \/ e # d) => cache'[v][e] = cache[v][e]
           /\ \/ rev'[d] = rev[d] /\ cache'[u][d] = cache[u][d] /\ Refusal(d, t)
              \/ rev'[d] = rev[d] + 1 /\ cache'[u][d] = cache[u][d] /\ t.phase = "other"
              \/ rev'[d] = rev[d] + 1 /\ cache'[u][d] = rev'[d] /\ Written(u, d, t)
<1>0. d \in Docs /\ d \in AllDocs
  BY OwnDocs
<1>1. th \in [Docs -> Threads] /\ th' = [th EXCEPT ![d] = t]
  BY DEF ClientTypes, Threads, ThreadStep
<1>2. th' \in [Docs -> Threads] /\ th'[d] = t /\ \A e \in Docs \ {d} : th'[e] = th[e]
  BY <1>0, <1>1
<1>3. TestTypes' /\ UNCHANGED <<lag, online, uc>>
  BY DEF TestTypes, ThreadStep
<1>4. cache \in [Users -> [AllDocs -> Nat]] /\ rev \in [AllDocs -> Nat]
  BY DEF ClientTypes, GateTypes
<1>5. CASE Refusal(d, t)
  <2>1. UNCHANGED <<rev, queue, feed, fseq, cache>>
    BY <1>5 DEF Refusal
  <2>2. GateTypes' /\ FeedOK'
    BY <1>3, <2>1 DEF GateTypes, FeedOK
  <2>3. ClientTypes'
    BY <1>2, <1>3, <2>1 DEF ClientTypes, Threads
  <2> QED
    BY <1>2, <1>3, <1>5, <2>1, <2>2, <2>3
<1>6. CASE LostAnswer(d, t) \/ Written(u, d, t)
  <2>1. GateTypes' /\ FeedOK' /\ \A e \in AllDocs : rev'[e] = IF e \in {d} THEN rev[e] + 1 ELSE rev[e]
    BY <1>0, <1>3, <1>6, WritesGate DEF LostAnswer, Written
  <2>2. rev'[d] = rev[d] + 1 /\ rev'[d] \in Nat /\ \A e \in AllDocs \ {d} : rev'[e] = rev[e]
    BY <1>0, <1>4, <2>1
  <2>3. CASE LostAnswer(d, t)
    <3>1. UNCHANGED cache /\ t.phase = "other"
      BY <2>3 DEF LostAnswer
    <3>2. ClientTypes'
      BY <1>2, <1>3, <3>1 DEF ClientTypes, Threads
    <3> QED
      BY <1>2, <1>3, <2>1, <2>2, <3>1, <3>2
  <2>4. CASE Written(u, d, t)
    <3>1. cache' = [cache EXCEPT ![u][d] = rev'[d]]
      BY <2>4 DEF Written
    <3>2. /\ cache' \in [Users -> [AllDocs -> Nat]] /\ cache'[u][d] = rev'[d]
          /\ \A v \in Users, e \in AllDocs : (v # u \/ e # d) => cache'[v][e] = cache[v][e]
      BY <1>0, <1>4, <2>2, <3>1
    <3>3. ClientTypes'
      BY <1>2, <1>3, <3>2 DEF ClientTypes, Threads
    <3> QED
      BY <1>2, <1>3, <2>1, <2>2, <2>4, <3>2, <3>3
  <2> QED
    BY <1>6, <2>3, <2>4
<1> QED
  BY <1>5, <1>6 DEF ThreadStep

\* A step of a thread keeps the invariant.
LEMMA ThreadKeeps ==
    ASSUME UsersInv, NEW u \in Users, NEW d \in Own(u), NEW t \in Threads, ThreadStep(u, d, t)
    PROVE  UsersInv'
<1> USE DEF UsersInv
<1>0. /\ d \in Docs /\ d \in AllDocs /\ Docs \subseteq AllDocs
      /\ \A v \in Users : Own(v) \subseteq Docs
      /\ \A v \in Users : d \in Own(v) => v = u
  BY OwnDocs
<1>1. uc[u].phase = "running" /\ Working /\ UNCHANGED <<uc, main, asked>> /\ Busy(d)
  BY BusyWorks DEF ThreadStep
<1>2. /\ ClientTypes' /\ GateTypes' /\ TestTypes' /\ FeedOK'
      /\ th'[d] = t /\ \A e \in Docs \ {d} : th'[e] = th[e]
      /\ \A e \in AllDocs \ {d} : rev'[e] = rev[e]
      /\ \A v \in Users, e \in AllDocs : (v # u \/ e # d) => cache'[v][e] = cache[v][e]
  BY ThreadFrame
<1>3. \/ rev'[d] = rev[d] /\ cache'[u][d] = cache[u][d] /\ Refusal(d, t)
      \/ rev'[d] = rev[d] + 1 /\ cache'[u][d] = cache[u][d] /\ t.phase = "other"
      \/ rev'[d] = rev[d] + 1 /\ cache'[u][d] = rev'[d] /\ Written(u, d, t)
  BY ThreadFrame
<1>4. /\ \A v \in Users, e \in AllDocs : cache[v][e] \in Nat
      /\ \A e \in AllDocs : rev[e] \in Nat
      /\ th[d].left \in Nat /\ t.left \in Nat /\ asked \in Nat
      /\ uc[u].num \in Nat /\ uc[u].base[d] \in Nat
  BY <1>0 DEF ClientTypes, GateTypes, TestTypes, Threads
<1>5. CacheOK'
  <2> SUFFICES ASSUME NEW v \in Users, NEW e \in AllDocs
               PROVE  cache'[v][e] <= rev'[e] /\ (cache'[v][e] # 0 => e \in Own(v))
    BY DEF CacheOK
  <2>1. cache[v][e] <= rev[e] /\ (cache[v][e] # 0 => e \in Own(v))
    BY DEF CacheOK
  <2>2. CASE e # d
    BY <1>2, <2>1, <2>2
  <2>3. CASE e = d /\ v # u
    BY <1>2, <1>3, <1>4, <2>1, <2>3
  <2>4. CASE e = d /\ v = u
    BY <1>3, <1>4, <2>1, <2>4
  <2> QED
    BY <2>2, <2>3, <2>4
<1>6. AskedOK'
  <2> SUFFICES ASSUME NEW e \in Docs
               PROVE  /\ rev'[e] <= 1 + asked
                      /\ th'[e].phase \in {"get", "put"}
                           => th'[e].left >= 1 /\ rev'[e] + th'[e].left <= 1 + asked
    BY <1>1 DEF AskedOK
  <2>1. /\ rev[e] <= 1 + asked
        /\ th[e].phase \in {"get", "put"} => th[e].left >= 1 /\ rev[e] + th[e].left <= 1 + asked
    BY DEF AskedOK
  <2>2. CASE e # d
    BY <1>0, <1>2, <2>1, <2>2
  <2>3. CASE e = d
    <3>1. CASE rev'[d] = rev[d] /\ Refusal(d, t)
      BY <1>2, <2>1, <2>3, <3>1 DEF Refusal
    <3>2. CASE rev'[d] = rev[d] + 1
      <4>1. rev[d] = 0 \/ (th[d].phase = "put" \/ th[d].phase = "get")
        <5>1. ~ UNCHANGED rev
          BY <1>0, <1>4, <3>2
        <5> QED
          BY <1>1, <5>1 DEF ThreadStep, Busy
      <4>2. rev'[d] <= 1 + asked
        BY <1>0, <1>4, <2>1, <2>3, <3>2, <4>1
      <4>3. t.phase \in {"get", "put"} =>
               th[d].phase = "put" /\ th[d].left # 1 /\ t.left = th[d].left - 1
        BY <1>0, <1>3, <1>4, <3>2 DEF Written
      <4> QED
        BY <1>0, <1>2, <1>4, <2>1, <2>3, <3>2, <4>2, <4>3
    <3> QED
      BY <1>3, <3>1, <3>2
  <2> QED
    BY <2>2, <2>3
<1>7. CallsOK'
  <2>1. \A v \in Users : \A e \in Own(v) :
         /\ uc[v].phase # "running" => ~Busy(e)'
         /\ uc[v].phase \in {"idle", "bulk", "returned"} => th'[e].phase # "other"
    <3> SUFFICES ASSUME NEW v \in Users, NEW e \in Own(v), uc[v].phase # "running"
                 PROVE  ~Busy(e)' /\ (uc[v].phase \in {"idle", "bulk", "returned"} => th'[e].phase # "other")
      BY <1>1
    <3>1. e # d /\ th'[e] = th[e]
      BY <1>0, <1>1, <1>2
    <3> QED
      BY <3>1 DEF CallsOK, Busy
  <2>2. Working'
    BY <1>1 DEF Working
  <2> QED
    BY <1>1, <2>1, <2>2 DEF CallsOK
<1>8. CurrentOK'
  <2> SUFFICES ASSUME NEW v \in main.clean, NEW e \in Own(v), uc[v].phase # "raised",
                      th'[e].phase # "other"
               PROVE  cache'[v][e] = rev'[e]
    BY <1>1 DEF CurrentOK
  <2>0. v \in Users /\ e \in Docs /\ e \in AllDocs
    BY <1>0 DEF TestTypes
  <2>1. CASE e # d
    BY <1>2, <2>0, <2>1 DEF CurrentOK
  <2>2. CASE e = d
    <3>1. v = u /\ t.phase # "other" /\ th[d].phase # "other"
      BY <1>0, <1>1, <1>2, <2>0, <2>2 DEF Busy
    <3>2. cache[u][d] = rev[d]
      BY <2>2, <3>1 DEF CurrentOK
    <3> QED
      BY <1>3, <2>2, <3>1, <3>2
  <2> QED
    BY <2>1, <2>2
<1>9. UpdatesOK'
  <2> SUFFICES ASSUME NEW v \in Users, uc[v].kind = "update"
               PROVE
      /\ \A e \in Own(v) :
         /\ th'[e].phase # "add"
         /\ th'[e].phase \in {"get", "put"} => rev'[e] + th'[e].left = uc[v].base[e] + uc[v].num
         /\ th'[e].phase = "ok" => rev'[e] = uc[v].base[e] + uc[v].num
         /\ th'[e].phase = "http" => rev'[e] < uc[v].base[e] + uc[v].num
      /\ uc[v].phase = "returned" => uc[v].errors = {e \in Own(v) : th'[e].phase = "http"}
    BY <1>1 DEF UpdatesOK
  <2>1. CASE v # u
    <3>1. \A e \in Own(v) : th'[e] = th[e] /\ rev'[e] = rev[e]
      BY <1>0, <1>2, <2>1
    <3> QED
      BY <3>1 DEF UpdatesOK
  <2>2. CASE v = u
    <3>1. ASSUME NEW e \in Own(u), e # d PROVE th'[e] = th[e] /\ rev'[e] = rev[e]
      BY <1>0, <1>2, <3>1
    <3>2. /\ t.phase # "add"
          /\ t.phase \in {"get", "put"} => rev'[d] + t.left = uc[u].base[d] + uc[u].num
          /\ t.phase = "ok" => rev'[d] = uc[u].base[d] + uc[u].num
          /\ t.phase = "http" => rev'[d] < uc[u].base[d] + uc[u].num
      <4>1. /\ th[d].phase \in {"get", "put"} /\ th[d].left >= 1
            /\ rev[d] + th[d].left = uc[u].base[d] + uc[u].num
        BY <1>0, <1>1, <2>2 DEF UpdatesOK, Busy, AskedOK
      <4> QED
        BY <1>0, <1>3, <1>4, <4>1 DEF Refusal, Written
    <3>3. uc[v].phase # "returned"
      BY <1>1, <2>2
    <3> QED
      BY <1>2, <2>2, <3>1, <3>2, <3>3 DEF UpdatesOK
  <2> QED
    BY <2>1, <2>2
<1> QED
  BY <1>2, <1>5, <1>6, <1>7, <1>8, <1>9

-----------------------------------------------------------------------------
(* Calls of a user                                                         *)

UserCalls == [kind : {"none", "add", "update"}, phase : CallPhases, num : Nat,
              errors : SUBSET Docs, base : [Docs -> Nat]]

\* The call of u comes to its end.
CallEnded(u, ph, es) ==
    /\ uc' \in [Users -> UserCalls] /\ \A v \in Users \ {u} : uc'[v] = uc[v]
    /\ uc'[u].kind = uc[u].kind /\ uc'[u].num = uc[u].num /\ uc'[u].base = uc[u].base
    /\ uc'[u].phase = ph /\ uc'[u].errors = es

\* Both ways of writing it.
LEMMA CallRecord ==
    ASSUME ClientTypes, NEW u \in Users, NEW ph \in CallPhases, NEW es \in SUBSET Docs,
           \/ uc' = [uc EXCEPT ![u].phase = ph] /\ es = uc[u].errors
           \/ uc' = [uc EXCEPT ![u].phase = ph, ![u].errors = es]
    PROVE  CallEnded(u, ph, es)
<1>1. uc \in [Users -> UserCalls]
  BY DEF ClientTypes, UserCalls
<1>2. CASE uc' = [uc EXCEPT ![u].phase = ph] /\ es = uc[u].errors
  BY <1>1, <1>2 DEF CallEnded, UserCalls
<1>3. CASE uc' = [uc EXCEPT ![u].phase = ph, ![u].errors = es]
  BY <1>1, <1>3 DEF CallEnded, UserCalls
<1> QED
  BY <1>2, <1>3

\* add_bulk_docs: the documents E, which were not there, are entered in the cache.
Entered(u, E) ==
    /\ E \subseteq Own(u) /\ \A d \in E : rev[d] = 0
    /\ Writes({d \in Own(u) : rev[d] = 0})
    /\ cache' = [cache EXCEPT ![u] = [d \in AllDocs |-> IF d \in E THEN 1 ELSE @[d]]]

LEMMA BulkForm ==
    ASSUME ClientTypes, NEW u \in Users, AddBulkDocs(u)
    PROVE  /\ uc[u].phase = "bulk" /\ UNCHANGED <<lag, online, th, main, tr, asked, calls>>
           /\ \/ /\ UNCHANGED <<rev, queue, feed, fseq, cache>>
                 /\ CallEnded(u, "returned", Own(u))
              \/ \E E \in SUBSET Own(u), ph \in {"returned", "raised"} :
                   /\ Entered(u, E) /\ CallEnded(u, ph, uc[u].errors)
                   /\ ph = "returned" => E = Own(u)
<1>1. uc[u].phase = "bulk" /\ UNCHANGED <<lag, online, th, main, tr, asked, calls>>
  BY DEF AddBulkDocs
<1>2. Own(u) \subseteq Docs /\ uc[u].errors \subseteq Docs
  BY OwnDocs DEF ClientTypes
<1>3. CASE online
  <2> DEFINE bad == {i \in 1..Len(DocsOf[u]) : rev[DocsOf[u][i]] # 0}
             E == {DocsOf[u][i] : i \in {j \in 1..Len(DocsOf[u]) : \A k \in bad : j < k}}
             ph == IF bad = {} THEN "returned" ELSE "raised"
  <2>1. /\ Writes({d \in Own(u) : rev[d] = 0})
        /\ \/ /\ cache' = [cache EXCEPT ![u] = [d \in AllDocs |-> IF d \in E THEN 1 ELSE @[d]]]
              /\ uc' = [uc EXCEPT ![u].phase = ph]
           \/ uc' = [uc EXCEPT ![u].phase = "raised"] /\ cache' = cache
    BY <1>3 DEF AddBulkDocs
  <2>2. DocsOf[u] \in Seq(Own(u))
    BY UsersAssumption, Zenon
  <2>3. DOMAIN DocsOf[u] = 1..Len(DocsOf[u]) /\ Len(DocsOf[u]) \in Nat
    BY <2>2
  <2>4. Own(u) = {DocsOf[u][i] : i \in 1..Len(DocsOf[u])}
    BY <2>3 DEF Own, ToSet
  <2>5. \A j \in 1..Len(DocsOf[u]) : (\A k \in bad : j < k) => rev[DocsOf[u][j]] = 0
    OBVIOUS
  <2>6. E \subseteq Own(u) /\ \A d \in E : rev[d] = 0
    BY <2>4, <2>5
  <2>7. bad = {} => E = Own(u)
    BY <2>4
  <2>8. ph \in {"returned", "raised"} /\ (ph = "returned" => bad = {})
    OBVIOUS
  <2> HIDE DEF bad, E, ph
  <2>9. CASE /\ cache' = [cache EXCEPT ![u] = [d \in AllDocs |-> IF d \in E THEN 1 ELSE @[d]]]
             /\ uc' = [uc EXCEPT ![u].phase = ph]
    <3>1. CallEnded(u, ph, uc[u].errors)
      BY <1>2, <2>8, <2>9, CallRecord DEF CallPhases
    <3>2. Entered(u, E)
      BY <2>1, <2>6, <2>9 DEF Entered
    <3> QED
      BY <1>1, <2>6, <2>7, <2>8, <3>1, <3>2
  <2>10. CASE uc' = [uc EXCEPT ![u].phase = "raised"] /\ cache' = cache
    <3>1. CallEnded(u, "raised", uc[u].errors)
      BY <1>2, <2>10, CallRecord DEF CallPhases
    <3>2. cache' = [cache EXCEPT ![u] = [d \in AllDocs |-> IF d \in {} THEN 1 ELSE @[d]]]
      <4>1. cache \in [Users -> [AllDocs -> Nat]]
        BY DEF ClientTypes
      <4>2. [d \in AllDocs |-> cache[u][d]] = cache[u]
        BY <4>1
      <4>3. [d \in AllDocs |-> IF d \in {} THEN 1 ELSE cache[u][d]] = [d \in AllDocs |-> cache[u][d]]
        OBVIOUS
      <4>4. [cache EXCEPT ![u] = cache[u]] = cache
        BY <4>1
      <4> QED
        BY <2>10, <4>2, <4>3, <4>4
    <3>3. Entered(u, {})
      BY <2>1, <3>2 DEF Entered
    <3> QED
      BY <1>1, <3>1, <3>3
  <2> QED
    BY <2>1, <2>9, <2>10
<1>4. CASE ~online
  <2>1. /\ uc' = [uc EXCEPT ![u].phase = "returned", ![u].errors = Own(u)]
        /\ UNCHANGED <<rev, queue, feed, fseq, cache>>
    BY <1>4 DEF AddBulkDocs
  <2>2. CallEnded(u, "returned", Own(u))
    BY <1>2, <2>1, CallRecord DEF CallPhases
  <2> QED
    BY <1>1, <2>1, <2>2
<1> QED
  BY <1>3, <1>4

\* add_bulk_docs keeps the invariant: it writes and caches documents that were not there.
LEMMA BulkKeeps ==
    ASSUME UsersInv, NEW u \in Users, AddBulkDocs(u)
    PROVE  UsersInv'
<1> USE DEF UsersInv
<1>0. /\ Docs \subseteq AllDocs /\ \A v \in Users : Own(v) \subseteq Docs
      /\ \A v \in Users \ {u} : \A d \in Own(v) : d \notin Own(u)
  BY OwnDocs
<1>1. /\ uc[u].phase = "bulk" /\ uc[u].kind = "add" /\ Working
      /\ UNCHANGED <<lag, online, th, main, tr, asked, calls>>
  BY BulkForm DEF CallsOK
<1>2. PICK E \in SUBSET Own(u), ph \in {"returned", "raised"}, es \in SUBSET Docs :
         /\ CallEnded(u, ph, es)
         /\ \/ UNCHANGED <<rev, queue, feed, fseq, cache>> /\ E = {} /\ ph = "returned"
            \/ Entered(u, E) /\ (ph = "returned" => E = Own(u))
  <2>1. uc[u].errors \subseteq Docs /\ Own(u) \subseteq Docs /\ {} \subseteq Own(u)
    BY <1>0 DEF ClientTypes
  <2> QED
    BY <2>1, BulkForm
<1>3. /\ uc'[u].kind = "add" /\ uc'[u].phase = ph
      /\ \A v \in Users \ {u} : uc'[v] = uc[v]
      /\ \A v \in Users : uc'[v].kind = uc[v].kind
  BY <1>1, <1>2 DEF CallEnded
<1>4. /\ \A v \in Users, d \in AllDocs : cache[v][d] \in Nat
      /\ \A d \in AllDocs : rev[d] \in Nat
      /\ asked \in Nat /\ cache \in [Users -> [AllDocs -> Nat]]
  BY DEF ClientTypes, GateTypes, TestTypes
<1>5. /\ GateTypes' /\ FeedOK' /\ cache' \in [Users -> [AllDocs -> Nat]]
      /\ \A d \in AllDocs : d \notin Own(u) \/ rev[d] # 0 => rev'[d] = rev[d]
      /\ \A d \in AllDocs : rev'[d] = rev[d] \/ (rev[d] = 0 /\ rev'[d] = 1)
      /\ \A v \in Users, d \in AllDocs : v # u \/ d \notin E => cache'[v][d] = cache[v][d]
      /\ \A d \in E : cache'[u][d] = 1 /\ rev[d] = 0 /\ rev'[d] = 1
      /\ ph = "returned" => \A d \in Own(u) :
            \/ rev'[d] = rev[d] /\ cache'[u][d] = cache[u][d]
            \/ cache'[u][d] = rev'[d]
  <2>1. CASE UNCHANGED <<rev, queue, feed, fseq, cache>> /\ E = {} /\ ph = "returned"
    <3>1. GateTypes' /\ FeedOK'
      BY <1>1, <2>1 DEF GateTypes, FeedOK
    <3> QED
      BY <1>4, <2>1, <3>1
  <2>2. CASE Entered(u, E) /\ (ph = "returned" => E = Own(u))
    <3>1. {d \in Own(u) : rev[d] = 0} \in SUBSET AllDocs
      BY <1>0
    <3>2. /\ GateTypes' /\ FeedOK'
          /\ \A d \in AllDocs : rev'[d] = IF d \in {e \in Own(u) : rev[e] = 0} THEN rev[d] + 1 ELSE rev[d]
      BY <1>1, <2>2, <3>1, WritesGate DEF Entered
    <3>3. /\ cache' \in [Users -> [AllDocs -> Nat]]
          /\ \A v \in Users, d \in AllDocs : v # u \/ d \notin E => cache'[v][d] = cache[v][d]
          /\ \A d \in E : cache'[u][d] = 1
      BY <1>0, <1>4, <2>2 DEF Entered
    <3>4. \A d \in E : rev[d] = 0 /\ rev'[d] = 1
      BY <1>0, <2>2, <3>2 DEF Entered
    <3>5. \A d \in AllDocs : d \notin Own(u) \/ rev[d] # 0 => rev'[d] = rev[d]
      BY <3>2
    <3>6. \A d \in AllDocs : rev'[d] = rev[d] \/ (rev[d] = 0 /\ rev'[d] = 1)
      BY <1>4, <3>2
    <3>7. ph = "returned" => \A d \in Own(u) : cache'[u][d] = rev'[d]
      BY <2>2, <3>3, <3>4
    <3> QED
      BY <3>2, <3>3, <3>4, <3>5, <3>6, <3>7
  <2> QED
    BY <1>2, <2>1, <2>2
<1>6. ClientTypes' /\ TestTypes'
  BY <1>1, <1>2, <1>5 DEF ClientTypes, TestTypes, CallEnded, UserCalls
<1>7. CacheOK'
  <2> SUFFICES ASSUME NEW v \in Users, NEW d \in AllDocs
               PROVE  cache'[v][d] <= rev'[d] /\ (cache'[v][d] # 0 => d \in Own(v))
    BY DEF CacheOK
  <2>1. cache[v][d] <= rev[d] /\ (cache[v][d] # 0 => d \in Own(v))
    BY DEF CacheOK
  <2>2. CASE v # u \/ d \notin E
    <3>1. cache'[v][d] = cache[v][d]
      BY <1>5, <2>2
    <3>2. rev'[d] = rev[d] \/ (rev[d] = 0 /\ rev'[d] = 1)
      BY <1>5
    <3> QED
      BY <1>4, <2>1, <3>1, <3>2
  <2>3. CASE v = u /\ d \in E
    BY <1>5, <2>3
  <2> QED
    BY <2>2, <2>3
<1>8. \A d \in Docs : Busy(d) => rev'[d] = rev[d]
  <2> SUFFICES ASSUME NEW d \in Docs, Busy(d) PROVE rev'[d] = rev[d]
    OBVIOUS
  <2>1. d \notin Own(u)
    BY <1>1 DEF CallsOK
  <2> QED
    BY <1>0, <1>5, <2>1
<1>9. AskedOK'
  <2> SUFFICES ASSUME NEW d \in Docs
               PROVE  /\ rev'[d] <= 1 + asked
                      /\ th[d].phase \in {"get", "put"} =>
                           th[d].left >= 1 /\ rev'[d] + th[d].left <= 1 + asked
    BY <1>1 DEF AskedOK
  <2>1. rev[d] <= 1 + asked
    BY DEF AskedOK
  <2>2. rev'[d] <= 1 + asked
    BY <1>0, <1>4, <1>5, <2>1
  <2>3. th[d].phase \in {"get", "put"} => rev'[d] = rev[d]
    BY <1>8 DEF Busy
  <2> QED
    BY <2>2, <2>3 DEF AskedOK
<1>10. CallsOK'
  <2>1. \A v \in Users : \A d \in Own(v) :
          /\ uc'[v].phase # "running" => ~Busy(d)'
          /\ uc'[v].phase \in {"idle", "bulk", "returned"} => th'[d].phase # "other"
    <3> SUFFICES ASSUME NEW v \in Users, NEW d \in Own(v)
                 PROVE  /\ uc'[v].phase # "running" => ~Busy(d)'
                        /\ uc'[v].phase \in {"idle", "bulk", "returned"} => th'[d].phase # "other"
      OBVIOUS
    <3>1. CASE v # u
      BY <1>1, <1>3, <3>1 DEF CallsOK, Busy
    <3>2. CASE v = u
      BY <1>1, <1>3, <3>2 DEF CallsOK, Busy
    <3> QED
      BY <3>1, <3>2
  <2>2. \A v \in Users : uc'[v].phase = "bulk" => uc'[v].kind = "add"
    BY <1>3 DEF CallsOK
  <2>3. Working'
    BY <1>1 DEF Working
  <2> QED
    BY <2>1, <2>2, <2>3 DEF CallsOK
<1>11. CurrentOK'
  <2> SUFFICES ASSUME NEW v \in main.clean, NEW d \in Own(v), uc'[v].phase # "raised",
                      th[d].phase # "other"
               PROVE  cache'[v][d] = rev'[d]
    BY <1>1 DEF CurrentOK
  <2>0. v \in Users /\ d \in AllDocs
    BY <1>0 DEF TestTypes
  <2>1. CASE v # u
    BY <1>0, <1>3, <1>5, <2>0, <2>1 DEF CurrentOK
  <2>2. CASE v = u
    <3>1. ph = "returned"
      BY <1>3, <2>2
    <3>2. cache[u][d] = rev[d]
      BY <1>1, <2>2 DEF CurrentOK
    <3> QED
      BY <1>5, <2>2, <3>1, <3>2
  <2> QED
    BY <2>1, <2>2
<1>12. UpdatesOK'
  <2> SUFFICES ASSUME NEW v \in Users, uc'[v].kind = "update"
               PROVE
      /\ \A d \in Own(v) :
         /\ th[d].phase # "add"
         /\ th[d].phase \in {"get", "put"} => rev'[d] + th[d].left = uc'[v].base[d] + uc'[v].num
         /\ th[d].phase = "ok" => rev'[d] = uc'[v].base[d] + uc'[v].num
         /\ th[d].phase = "http" => rev'[d] < uc'[v].base[d] + uc'[v].num
      /\ uc'[v].phase = "returned" => uc'[v].errors = {d \in Own(v) : th[d].phase = "http"}
    BY <1>1 DEF UpdatesOK
  <2>1. v # u /\ uc'[v] = uc[v]
    BY <1>3
  <2>2. \A d \in Own(v) : rev'[d] = rev[d]
    BY <1>0, <1>5, <2>1
  <2> QED
    BY <2>1, <2>2 DEF UpdatesOK
<1> QED
  BY <1>5, <1>6, <1>7, <1>9, <1>10, <1>11, <1>12

\* The end of add_docs and update_docs keeps it: their outcome is that of the threads.
LEMMA OutcomeKeeps ==
    ASSUME UsersInv, NEW u \in Users, UserCallEnds(u)
    PROVE  UsersInv'
<1> USE DEF UsersInv
<1> DEFINE ph == IF \E d \in Own(u) : th[d].phase = "other" THEN "raised" ELSE "returned"
           es == {d \in Own(u) : th[d].phase = "http"}
<1>1. /\ uc[u].phase = "running" /\ \A d \in Own(u) : ~Busy(d)
      /\ uc' = [uc EXCEPT ![u].phase = ph, ![u].errors = es]
      /\ UNCHANGED <<rev, lag, queue, feed, fseq, online, cache, th, main, tr, asked, calls>>
  BY DEF UserCallEnds, UserOutcome, gate
<1>2. ph \in CallPhases /\ es \in SUBSET Docs /\ ph \in {"raised", "returned"}
      /\ (ph = "returned" => \A d \in Own(u) : th[d].phase # "other")
  BY OwnDocs DEF CallPhases
<1>3. es = {d \in Own(u) : th[d].phase = "http"}
  OBVIOUS
<1> HIDE DEF ph, es
<1>4. CallEnded(u, ph, es)
  BY <1>1, <1>2, CallRecord
<1>5. ClientTypes' /\ GateTypes' /\ TestTypes' /\ FeedOK' /\ CacheOK' /\ AskedOK'
  <2>1. ClientTypes'
    BY <1>1, <1>4 DEF ClientTypes, CallEnded, UserCalls
  <2>2. GateTypes' /\ TestTypes' /\ FeedOK' /\ CacheOK' /\ AskedOK'
    BY <1>1 DEF GateTypes, TestTypes, FeedOK, CacheOK, AskedOK
  <2> QED
    BY <2>1, <2>2
<1>6. CallsOK'
  <2>1. Working /\ Working'
    BY <1>1 DEF CallsOK, Working
  <2> QED
    BY <1>1, <1>2, <1>4, <2>1 DEF CallsOK, CallEnded, Busy
<1>7. CurrentOK'
  BY <1>1, <1>4 DEF CurrentOK, CallEnded, TestTypes
<1>8. UpdatesOK'
  BY <1>1, <1>3, <1>4 DEF UpdatesOK, CallEnded
<1> QED
  BY <1>5, <1>6, <1>7, <1>8

-----------------------------------------------------------------------------
(* Calls of the test                                                       *)

MainCalls == [kind : MainKinds, phase : {"running", "returned", "raised"},
              todo : SUBSET Users, right : BOOLEAN, ignore : BOOLEAN,
              clean : SUBSET Users, expected : [AllDocs -> Nat]]

\* The test's record after a call has begun.
LEMMA BeginsMain ==
    ASSUME TestTypes, NEW k \in MainKinds, Begins(k)
    PROVE  /\ main' \in MainCalls /\ main'.kind = k /\ main'.phase = "running"
           /\ main'.clean = main.clean /\ calls' = calls + 1 /\ main.phase # "running"
BY DEF Begins, MainEnded, TestTypes, MainCalls

\* Nothing is under way, and caches are current, when the test makes a call.
LEMMA AtRest ==
    ASSUME UsersInv, ~Working
    PROVE  /\ \A d \in Docs : ~Busy(d)
           /\ \A u \in Users : uc[u].phase \in {"idle", "returned", "raised"}
           /\ \A u \in main.clean : uc[u].phase \in {"idle", "returned"}
           /\ \A u \in main.clean : \A d \in Own(u) : cache[u][d] = rev[d]
<1>1. \A u \in Users : \/ uc[u].phase \in {"idle", "returned"}
                       \/ uc[u].phase = "raised" /\ u \notin main.clean
  BY DEF UsersInv, CallsOK
<1>2. main.clean \subseteq Users
  BY DEF UsersInv, TestTypes
<1>3. \A d \in Docs : ~Busy(d)
  <2> SUFFICES ASSUME NEW d \in Docs PROVE ~Busy(d)
    OBVIOUS
  <2>1. PICK u \in Users : d \in Own(u)
    BY OwnDocs
  <2> QED
    BY <1>1, <2>1 DEF UsersInv, CallsOK
<1>4. \A u \in main.clean : \A d \in Own(u) : th[d].phase # "other"
  BY <1>1, <1>2 DEF UsersInv, CallsOK
<1>5. \A u \in main.clean : \A d \in Own(u) : cache[u][d] = rev[d]
  BY <1>1, <1>2, <1>4 DEF UsersInv, CurrentOK
<1> QED
  BY <1>1, <1>2, <1>3, <1>5

\* add_docs, update_docs: the threads begin where the caches are.
LEMMA CallsBegin ==
    ASSUME UsersInv, (\E bulk \in BOOLEAN : AddDocs(bulk))
                     \/ (\E num \in NumRevs \cup TrackedRevs : UpdateDocs(num))
    PROVE  UsersInv'
<1> USE DEF UsersInv
<1>0. Docs \subseteq AllDocs /\ \A u \in Users : Own(u) \subseteq Docs
  BY OwnDocs
<1>1. ~Working
  BY DEF AddDocs, UpdateDocs, Begins, MainEnded, Working
<1>2. \A u \in main.clean : \A d \in Own(u) : cache[u][d] = rev[d]
  BY <1>1, AtRest
<1>3. UNCHANGED <<rev, lag, queue, feed, fseq, online, cache, tr>>
  BY DEF AddDocs, UpdateDocs, gate
<1>4. GateTypes' /\ FeedOK' /\ CacheOK'
  BY <1>3 DEF GateTypes, FeedOK, CacheOK
<1>5. \A d \in Docs : rev[d] \in Nat /\ rev[d] <= 1 + asked /\ asked \in Nat
  BY <1>0 DEF GateTypes, TestTypes, AskedOK
<1>6. ASSUME NEW bulk \in BOOLEAN, AddDocs(bulk) PROVE UsersInv'
  <2>1. /\ main' \in MainCalls /\ main'.kind = "add" /\ main'.phase = "running"
        /\ main'.clean = main.clean /\ calls' = calls + 1 /\ asked' = asked
    BY <1>6, BeginsMain DEF AddDocs, MainKinds
  <2>2. TestTypes' /\ Working'
    BY <1>3, <2>1 DEF TestTypes, Working, MainCalls
  <2> DEFINE ph == IF bulk THEN "bulk" ELSE "running"
             r == [NoCall EXCEPT !.kind = "add", !.phase = ph]
             t == IF bulk THEN NoThread ELSE [NoThread EXCEPT !.phase = "add"]
  <2>3. uc' = [u \in Users |-> r] /\ th' = [d \in Docs |-> t]
    BY <1>6 DEF AddDocs
  <2>4. r \in UserCalls /\ r.kind = "add" /\ r.phase = ph /\ ph \in {"bulk", "running"}
    BY DEF NoCall, UserCalls, CallPhases
  <2>5. t \in Threads /\ t.phase \in {"none", "add"} /\ (ph = "bulk" => t.phase = "none")
    BY EndThread DEF NoThread, Threads, ThreadPhases
  <2> HIDE DEF r, t, ph
  <2>6. ClientTypes'
    BY <1>3, <2>3, <2>4, <2>5 DEF ClientTypes, Threads, UserCalls
  <2>7. \A u \in Users : uc'[u] = r
    BY <2>3
  <2>8. \A d \in Docs : th'[d] = t
    BY <2>3
  <2>9. AskedOK'
    BY <1>3, <1>5, <2>1, <2>5, <2>8 DEF AskedOK
  <2>10. CallsOK'
    <3>1. \A u \in Users : \A d \in Own(u) :
            /\ uc'[u].phase # "running" => ~Busy(d)'
            /\ uc'[u].phase \in {"idle", "bulk", "returned"} => th'[d].phase # "other"
      BY <1>0, <2>4, <2>5, <2>7, <2>8 DEF Busy
    <3> QED
      BY <2>2, <2>4, <2>7, <3>1 DEF CallsOK
  <2>11. CurrentOK'
    BY <1>2, <1>3, <2>1 DEF CurrentOK
  <2>12. UpdatesOK'
    BY <2>4, <2>7 DEF UpdatesOK
  <2> QED
    BY <1>4, <2>2, <2>6, <2>9, <2>10, <2>11, <2>12
<1>7. ASSUME NEW num \in NumRevs \cup TrackedRevs, UpdateDocs(num) PROVE UsersInv'
  <2>0. num \in Nat /\ num >= 1
    <3>1. NumRevs \cup TrackedRevs \subseteq Nat \ {0}
      BY UsersAssumption, Zenon
    <3> QED
      BY <3>1
  <2>1. /\ main' \in MainCalls /\ main'.kind = "update" /\ main'.phase = "running"
        /\ main'.clean = main.clean /\ calls' = calls + 1 /\ asked' = asked + num
    BY <1>7, BeginsMain DEF UpdateDocs, MainKinds
  <2>2. TestTypes' /\ Working'
    BY <1>3, <2>0, <2>1 DEF TestTypes, Working, MainCalls
  <2> DEFINE base == [d \in Docs |-> rev[d]]
             r == [NoCall EXCEPT !.kind = "update", !.phase = "running", !.num = num, !.base = base]
             go == [NoThread EXCEPT !.phase = "get", !.left = num]
  <2>3. /\ uc' = [u \in Users |-> r]
        /\ th' = [d \in Docs |-> IF \E u \in Users : cache[u][d] # 0 THEN go ELSE NoThread]
    BY <1>7 DEF UpdateDocs
  <2>4. base \in [Docs -> Nat] /\ \A d \in Docs : base[d] = rev[d]
    BY <1>5
  <2>5. go \in Threads /\ go.phase = "get" /\ go.left = num
        /\ NoThread \in Threads /\ NoThread.phase = "none"
    BY <2>0 DEF NoThread, Threads, ThreadPhases
  <2> HIDE DEF base, go
  <2>6. r \in UserCalls /\ r.kind = "update" /\ r.phase = "running" /\ r.num = num /\ r.base = base
    BY <2>0, <2>4 DEF NoCall, UserCalls, CallPhases
  <2> HIDE DEF r
  <2>7. ClientTypes'
    BY <1>3, <2>3, <2>5, <2>6 DEF ClientTypes, Threads, UserCalls
  <2>8. \A u \in Users : uc'[u] = r
    BY <2>3
  <2>9. \A d \in Docs : th'[d] \in {go, NoThread}
    BY <2>3
  <2>10. AskedOK'
    <3> SUFFICES ASSUME NEW d \in Docs
                 PROVE  /\ rev'[d] <= 1 + asked'
                        /\ th'[d].phase \in {"get", "put"} =>
                             th'[d].left >= 1 /\ rev'[d] + th'[d].left <= 1 + asked'
      BY DEF AskedOK
    <3>1. rev'[d] \in Nat /\ rev'[d] <= 1 + asked /\ asked \in Nat
      BY <1>3, <1>5
    <3>2. th'[d].phase \in {"get", "put"} => th'[d].left = num
      BY <2>5, <2>9
    <3> QED
      BY <2>0, <2>1, <3>1, <3>2
  <2>11. CallsOK'
    <3>1. \A u \in Users : uc'[u].phase = "running"
      BY <2>6, <2>8
    <3> QED
      BY <2>2, <3>1 DEF CallsOK
  <2>12. CurrentOK'
    BY <1>2, <1>3, <2>1 DEF CurrentOK
  <2>13. UpdatesOK'
    <3> SUFFICES ASSUME NEW u \in Users
                 PROVE
          /\ \A d \in Own(u) :
             /\ th'[d].phase # "add"
             /\ th'[d].phase \in {"get", "put"} => rev'[d] + th'[d].left = uc'[u].base[d] + uc'[u].num
             /\ th'[d].phase = "ok" => rev'[d] = uc'[u].base[d] + uc'[u].num
             /\ th'[d].phase = "http" => rev'[d] < uc'[u].base[d] + uc'[u].num
          /\ uc'[u].phase # "returned"
      BY DEF UpdatesOK
    <3>1. uc'[u].phase # "returned" /\ uc'[u].num = num /\ uc'[u].base = base
      BY <2>6, <2>8
    <3>2. \A d \in Own(u) : /\ th'[d].phase \in {"get", "none"} /\ rev'[d] = base[d]
                            /\ th'[d].phase = "get" => th'[d].left = num
      BY <1>0, <1>3, <2>4, <2>5, <2>9
    <3> QED
      BY <3>1, <3>2
  <2> QED
    BY <1>4, <2>2, <2>7, <2>10, <2>11, <2>12, <2>13
<1> QED
  BY <1>6, <1>7

\* in_parallel ends when all calls have; users whose call raised are not clean any more.
LEMMA ParallelEndsKeeps ==
    ASSUME UsersInv, InParallelEnds
    PROVE  UsersInv'
<1> USE DEF UsersInv
<1> DEFINE bad == {u \in Users : uc[u].phase = "raised"}
<1>1. /\ \A u \in Users : uc[u].phase \in {"returned", "raised"}
      /\ UNCHANGED <<rev, lag, queue, feed, fseq, online, cache, th, uc, tr, asked, calls>>
  BY DEF InParallelEnds, gate, client
<1>2. main' = [main EXCEPT !.phase = IF bad = {} THEN "returned" ELSE "raised", !.clean = @ \ bad]
  BY DEF InParallelEnds
<1>3. main' \in MainCalls /\ main'.clean = main.clean \ bad /\ main'.kind = main.kind
      /\ main'.phase \in {"returned", "raised"}
  BY <1>2 DEF TestTypes, MainCalls
<1>4. ClientTypes' /\ GateTypes' /\ TestTypes' /\ FeedOK' /\ CacheOK' /\ AskedOK' /\ UpdatesOK'
  BY <1>1, <1>3 DEF ClientTypes, GateTypes, TestTypes, FeedOK, CacheOK, AskedOK, UpdatesOK, MainCalls
<1>5. CallsOK'
  <2>1. \A u \in Users : \/ uc'[u].phase \in {"idle", "returned"}
                         \/ uc'[u].phase = "raised" /\ u \notin main'.clean
    BY <1>1, <1>3
  <2> QED
    BY <1>1, <2>1 DEF CallsOK, Busy
<1>6. CurrentOK'
  BY <1>1, <1>3 DEF CurrentOK
<1> QED
  BY <1>4, <1>5, <1>6

\* What the test expects, put together from the caches.
LEMMA ExpectedTyped ==
    ASSUME ClientTypes
    PROVE  Expected \in [AllDocs -> Nat]
<1>1. \A d \in AllDocs : Expected[d] \in Nat /\ DOMAIN Expected = AllDocs
  <2> SUFFICES ASSUME NEW d \in AllDocs PROVE Expected[d] \in Nat
    BY DEF Expected
  <2> DEFINE us == {u \in Users : cache[u][d] # 0}
             w == CHOOSE u \in us : TRUE
  <2>1. Expected[d] = IF us = {} THEN 0 ELSE cache[w][d]
    BY DEF Expected
  <2>2. us # {} => w \in us
    OBVIOUS
  <2>3. us # {} => cache[w][d] \in Nat
    BY <2>2 DEF ClientTypes
  <2> QED
    BY <2>1, <2>3
<1> QED
  BY <1>1 DEF Expected

\* A call of the test that changes its own record only.
LEMMA MainOnlyKeeps ==
    ASSUME UsersInv, (\E ig \in BOOLEAN : VerifyChanges(ig))
                     \/ (\E u \in Users : VerifyUser(u)) \/ VerifySameDocs
    PROVE  /\ UsersInv' /\ ~Working /\ ~Working'
           /\ UNCHANGED <<rev, lag, queue, feed, fseq, online, cache, th, uc, tr, asked>>
           /\ main'.clean = main.clean
<1> USE DEF UsersInv
<1>1. /\ UNCHANGED <<rev, lag, queue, feed, fseq, online, cache, th, uc, tr, asked>>
      /\ calls' \in {calls, calls + 1}
  BY DEF VerifyChanges, VerifyUser, VerifySameDocs, gate, client
<1>2. ~Working
  BY DEF VerifyChanges, VerifyUser, VerifySameDocs, Working, MainEnded
<1>3. main' \in MainCalls /\ main'.kind \in {"verify", "same"} /\ main'.clean = main.clean
  <2>1. CASE \E ig \in BOOLEAN : VerifyChanges(ig)
    <3>1. PICK ig \in BOOLEAN : VerifyChanges(ig)
      BY <2>1
    <3>2. PICK ok \in BOOLEAN : main' = [main EXCEPT !.kind = "verify", !.phase = "running",
             !.todo = Users, !.right = ok, !.ignore = ig, !.expected = Expected]
      <4>1. AllRight(ig) \in BOOLEAN
        BY DEF AllRight
      <4> QED
        BY <3>1, <4>1 DEF VerifyChanges
    <3> QED
      BY <3>2, ExpectedTyped DEF TestTypes, MainCalls, MainKinds
  <2>2. CASE \E u \in Users : VerifyUser(u)
    <3>1. PICK u \in Users : VerifyUser(u)
      BY <2>2
    <3>2. PICK ok \in BOOLEAN :
             main' = [main EXCEPT !.todo = @ \ {u},
                              !.phase = IF ~ok THEN "raised"
                                        ELSE IF main.todo = {u} THEN "returned"
                                        ELSE "running"]
      <4>1. (online /\ ChangesMatch(main.expected, main.ignore)) \in BOOLEAN
        BY DEF ChangesMatch
      <4> QED
        BY <3>1, <4>1 DEF VerifyUser
    <3>3. main.kind = "verify"
      BY <3>1 DEF VerifyUser
    <3> QED
      BY <3>2, <3>3 DEF TestTypes, MainCalls, MainKinds
  <2>3. CASE VerifySameDocs
    BY <2>3 DEF VerifySameDocs, TestTypes, MainCalls, MainKinds
  <2> QED
    BY <2>1, <2>2, <2>3
<1>4. ~Working'
  BY <1>3 DEF Working
<1>5. ClientTypes' /\ GateTypes' /\ TestTypes' /\ FeedOK' /\ CacheOK' /\ AskedOK' /\ UpdatesOK'
  <2>1. ClientTypes' /\ GateTypes'
    BY <1>1 DEF ClientTypes, GateTypes
  <2>2. TestTypes'
    BY <1>1, <1>3 DEF TestTypes, MainCalls
  <2>3. FeedOK' /\ CacheOK' /\ AskedOK'
    BY <1>1 DEF FeedOK, CacheOK, AskedOK
  <2>4. UpdatesOK'
    BY <1>1 DEF UpdatesOK
  <2> QED
    BY <2>1, <2>2, <2>3, <2>4
<1>6. CallsOK' /\ CurrentOK'
  BY <1>1, <1>2, <1>3 DEF CallsOK, CurrentOK, Busy
<1> QED
  BY <1>1, <1>2, <1>3, <1>4, <1>5, <1>6

\* The document that ends trackers is no user's.
LEMMA FinKeeps ==
    ASSUME UsersInv, AddFin
    PROVE  /\ UsersInv' /\ UNCHANGED <<lag, online, cache, th, uc, tr>>
           /\ ~Working /\ main'.kind = "fin" /\ main'.phase = "returned" /\ calls' = calls + 1
<1> USE DEF UsersInv
<1>0. Fin \in AllDocs /\ Fin \notin Docs /\ Docs \subseteq AllDocs /\ \A u \in Users : Own(u) \subseteq Docs
  BY OwnDocs
<1>1. /\ Writes({Fin}) /\ UNCHANGED <<lag, online, cache, th, uc, tr, asked>> /\ calls' = calls + 1
      /\ main' = [main EXCEPT !.kind = "fin", !.phase = "returned"] /\ MainEnded
  BY DEF AddFin, client
<1>2. /\ GateTypes' /\ FeedOK'
      /\ \A d \in AllDocs : rev'[d] = IF d \in {Fin} THEN rev[d] + 1 ELSE rev[d]
  BY <1>0, <1>1, WritesGate
<1>3. \A d \in Docs : rev'[d] = rev[d]
  BY <1>0, <1>2
<1>4. main' \in MainCalls /\ main'.kind = "fin" /\ main'.phase = "returned" /\ main'.clean = main.clean
  BY <1>1 DEF TestTypes, MainCalls, MainKinds
<1>5. ClientTypes' /\ TestTypes'
  BY <1>1, <1>4 DEF ClientTypes, TestTypes, MainCalls
<1>6. CacheOK'
  <2> SUFFICES ASSUME NEW u \in Users, NEW d \in AllDocs
               PROVE  cache[u][d] <= rev'[d] /\ (cache[u][d] # 0 => d \in Own(u))
    BY <1>1 DEF CacheOK
  <2>1. cache[u][d] <= rev[d] /\ (cache[u][d] # 0 => d \in Own(u))
    BY DEF CacheOK
  <2>2. cache[u][d] \in Nat /\ rev[d] \in Nat
    BY DEF ClientTypes, GateTypes
  <2> QED
    BY <1>2, <2>1, <2>2
<1>7. AskedOK'
  BY <1>1, <1>3 DEF AskedOK
<1>8. ~Working
  BY <1>1 DEF Working, MainEnded
<1>9. CallsOK' /\ CurrentOK' /\ UpdatesOK'
  <2>1. CallsOK'
    BY <1>1, <1>4, <1>8 DEF CallsOK, Busy
  <2>2. CurrentOK'
    BY <1>0, <1>1, <1>3, <1>4 DEF CurrentOK, TestTypes
  <2>3. UpdatesOK'
    BY <1>0, <1>1, <1>3 DEF UpdatesOK
  <2> QED
    BY <2>1, <2>2, <2>3
<1> QED
  BY <1>1, <1>2, <1>4, <1>5, <1>6, <1>7, <1>8, <1>9

-----------------------------------------------------------------------------
(* The feed, the tracker and the database                                  *)

\* The numbers of the feed are bounded, and the bound is the number of a document.
LEMMA LastSeqIs ==
    ASSUME fseq \in [AllDocs -> Nat]
    PROVE  LastSeq \in Nat /\ \E d \in AllDocs : LastSeq = fseq[d]
<1> DEFINE R == {fseq[d] : d \in AllDocs}
<1>1. R \subseteq Nat /\ R # {}
  BY OwnDocs
<1>2. fseq \in Surjection(AllDocs, R)
  BY DEF Surjection
<1>3. IsFiniteSet(R)
  BY <1>2, OwnDocs, FS_Surjection
<1>4. Max(R) \in R
  <2> HIDE DEF R
  <2> QED BY <1>1, <1>3, MaxOfNats
<1> QED
  BY <1>1, <1>4 DEF LastSeq

\* Steps of the tracker, types and what they leave alone.
LEMMA TrackerKeeps ==
    ASSUME UsersInv, (\E k \in {"loop", "once", "continuous"} : StartTracking(k))
                     \/ Longpoll \/ Continuous \/ TrackerStops
    PROVE  /\ UsersInv'
           /\ UNCHANGED <<rev, lag, queue, feed, fseq, online, cache, th, uc, main, asked, calls>>
<1> USE DEF UsersInv
<1>1. UNCHANGED <<rev, lag, queue, feed, fseq, online, cache, th, uc, main, asked, calls>>
  BY DEF StartTracking, Longpoll, Continuous, TrackerStops, gate, client
<1>2. \A S \in SUBSET AllDocs : Stored(S) \in [AllDocs -> Nat]
  BY DEF Stored, GateTypes, TestTypes
<1> DEFINE Trackers == [kind : {"none", "loop", "once", "continuous"}, phase : TrackerPhases,
                        since : Nat, docs : [AllDocs -> Nat]]
<1>a. tr \in Trackers /\ fseq \in [AllDocs -> Nat]
  BY DEF TestTypes, GateTypes
<1>3. tr' \in Trackers
  <2>1. CASE (\E k \in {"loop", "once", "continuous"} : StartTracking(k)) \/ TrackerStops
    BY <1>a, <2>1 DEF StartTracking, TrackerStops, TrackerPhases
  <2>2. CASE Longpoll
    <3>1. BeforeFin \subseteq AllDocs
      BY DEF BeforeFin, Newer
    <3>2. Stored(BeforeFin) \in [AllDocs -> Nat] /\ LastSeq \in Nat
      BY <1>2, <1>a, <3>1, LastSeqIs
    <3> QED
      BY <1>a, <2>2, <3>2 DEF Longpoll, TrackerPhases
  <2>3. CASE Continuous
    <3> DEFINE d == CHOOSE e \in Newer : \A f \in Newer : fseq[e] <= fseq[f]
    <3>1. Newer # {} /\ Newer \subseteq AllDocs
      BY <2>3 DEF Continuous, Newer
    <3>2. IsFiniteSet(Newer) /\ \A e \in Newer : fseq[e] \in Nat
      BY <1>a, <3>1, OwnDocs, FS_Subset
    <3>3. \E e \in Newer : \A f \in Newer : fseq[e] <= fseq[f]
      BY <3>1, <3>2, LeastNumbered
    <3>4. d \in Newer
      BY <3>3
    <3>5. tr' = IF d = Fin THEN [tr EXCEPT !.phase = "done"]
                ELSE [tr EXCEPT !.docs = Stored({d}), !.since = fseq[d]]
      BY <2>3 DEF Continuous
    <3> HIDE DEF d
    <3>6. Stored({d}) \in [AllDocs -> Nat] /\ fseq[d] \in Nat
      BY <1>2, <3>1, <3>2, <3>4
    <3> QED
      BY <1>a, <3>5, <3>6 DEF TrackerPhases
  <2> QED
    BY <2>1, <2>2, <2>3
<1>4. TestTypes'
  BY <1>1, <1>3 DEF TestTypes
<1>5. ClientTypes' /\ GateTypes' /\ FeedOK' /\ CacheOK' /\ AskedOK' /\ UpdatesOK'
  BY <1>1 DEF ClientTypes, GateTypes, FeedOK, CacheOK, AskedOK, UpdatesOK
<1>6. CallsOK' /\ CurrentOK'
  BY <1>1 DEF CallsOK, CurrentOK, Busy, Working
<1> QED
  BY <1>1, <1>4, <1>5, <1>6

\* The feed falls behind and catches up; the database goes offline and online.
LEMMA GateKeeps ==
    ASSUME UsersInv, FallBehind \/ CatchUp \/ TakeDbOffline \/ BringDbOnline
    PROVE  /\ UsersInv' /\ UNCHANGED <<rev, cache, th, uc, tr, asked, calls>>
           /\ main'.kind = main.kind /\ main'.phase = main.phase /\ main'.clean = main.clean
           /\ main'.expected = main.expected /\ main'.ignore = main.ignore
           /\ (main'.right => main.right)
           /\ (online' \/ ~main'.right \/ UNCHANGED online) /\ (feed' = feed \/ feed' = rev')
<1> USE DEF UsersInv
<1>1. UNCHANGED <<rev, cache, th, uc, tr, asked, calls>>
  BY DEF FallBehind, CatchUp, TakeDbOffline, BringDbOnline, client
<1>2. main' = main \/ main' = [main EXCEPT !.right = FALSE]
  BY DEF FallBehind, CatchUp, TakeDbOffline, BringDbOnline
<1>3. /\ main' \in MainCalls /\ main'.kind = main.kind /\ main'.phase = main.phase
      /\ main'.clean = main.clean /\ main'.expected = main.expected
      /\ main'.ignore = main.ignore /\ (main'.right => main.right)
  BY <1>2 DEF TestTypes, MainCalls
<1>4. GateTypes' /\ FeedOK' /\ (feed' = feed \/ feed' = rev')
  <2>1. CASE CatchUp
    <3>1. fseq' = Numbered(queue) /\ feed' = rev /\ queue' = <<>> /\ lag' = FALSE
          /\ UNCHANGED <<rev, online>>
      BY <2>1 DEF CatchUp
    <3>2. fseq' \in [AllDocs -> Nat] /\ <<>> \in Seq(AllDocs)
      BY <3>1, NumbersTyped DEF GateTypes
    <3>3. GateTypes'
      BY <3>1, <3>2 DEF GateTypes
    <3>4. \A d \in AllDocs : rev[d] \in Nat
      BY DEF GateTypes
    <3> QED
      BY <3>1, <3>3, <3>4 DEF FeedOK
  <2>2. CASE FallBehind \/ TakeDbOffline \/ BringDbOnline
    <3>1. /\ UNCHANGED <<rev, queue, feed, fseq>> /\ lag' \in BOOLEAN /\ online' \in BOOLEAN
          /\ ~lag' => ~lag
      BY <2>2 DEF FallBehind, TakeDbOffline, BringDbOnline, GateTypes
    <3> QED
      BY <3>1 DEF GateTypes, FeedOK
  <2> QED
    BY <2>1, <2>2
<1>5. online' \/ ~main'.right \/ UNCHANGED online
  BY DEF FallBehind, CatchUp, TakeDbOffline, BringDbOnline, TestTypes
<1>6. ClientTypes' /\ TestTypes' /\ CacheOK' /\ AskedOK' /\ UpdatesOK'
  BY <1>1, <1>3 DEF ClientTypes, TestTypes, CacheOK, AskedOK, UpdatesOK, MainCalls
<1>7. CallsOK' /\ CurrentOK'
  BY <1>1, <1>3 DEF CallsOK, CurrentOK, Busy, Working
<1> QED
  BY <1>1, <1>3, <1>4, <1>5, <1>6, <1>7

-----------------------------------------------------------------------------
(* Caches and errors are true                                              *)

\* Before the first call the invariant holds.
LEMMA UsersInvInit == UsersInit => UsersInv
<1> SUFFICES ASSUME UsersInit PROVE UsersInv
  OBVIOUS
<1>0. Docs \subseteq AllDocs /\ \A u \in Users : Own(u) \subseteq Docs
  BY OwnDocs
<1>1. Empty \in [AllDocs -> Nat] /\ \A d \in AllDocs : Empty[d] = 0
  BY DEF Empty
<1>2. NoCall \in UserCalls /\ NoCall.phase = "idle" /\ NoCall.kind = "none"
  BY DEF NoCall, UserCalls, CallPhases
<1>3. NoThread \in Threads /\ NoThread.phase = "none"
  BY DEF NoThread, Threads, ThreadPhases
<1>4. ClientTypes
  BY <1>1, <1>2, <1>3 DEF UsersInit, ClientTypes, UserCalls, Threads
<1>5. GateTypes
  <2>1. lag \in BOOLEAN /\ online \in BOOLEAN
    BY DEF UsersInit
  <2>2. rev = Empty /\ feed = Empty /\ fseq = Empty /\ queue = <<>>
    BY DEF UsersInit
  <2>3. <<>> \in Seq(AllDocs)
    OBVIOUS
  <2> HIDE DEF Empty
  <2> QED
    BY <1>1, <2>1, <2>2, <2>3 DEF GateTypes
<1>6. TestTypes
  BY <1>1 DEF UsersInit, TestTypes, MainKinds, TrackerPhases
<1>7. /\ \A u \in Users : uc[u] = NoCall /\ cache[u] = Empty
      /\ \A d \in Docs : th[d] = NoThread
      /\ rev = Empty /\ feed = Empty /\ asked = 0 /\ main.clean = Users
  BY DEF UsersInit
<1>8. FeedOK /\ CacheOK /\ AskedOK
  BY <1>0, <1>1, <1>3, <1>7 DEF FeedOK, CacheOK, AskedOK
<1>9. CallsOK /\ UpdatesOK
  BY <1>0, <1>2, <1>3, <1>7 DEF CallsOK, Busy, UpdatesOK
<1>10. CurrentOK
  BY <1>0, <1>1, <1>7 DEF CurrentOK
<1> QED
  BY <1>4, <1>5, <1>6, <1>8, <1>9, <1>10 DEF UsersInv

\* Every step of threads, users, test, tracker and gateway keeps it.
LEMMA UsersInvStep == UsersInv /\ [UsersNext]_usersVars => UsersInv'
<1> SUFFICES ASSUME UsersInv, [UsersNext]_usersVars PROVE UsersInv'
  OBVIOUS
<1>1. ASSUME NEW u \in Users, NEW d \in Own(u), AddDoc(u, d) \/ UpdateGet(u, d) \/ UpdatePut(u, d)
      PROVE  UsersInv'
  BY <1>1, ThreadForms, ThreadKeeps DEF UsersInv
<1>2. ASSUME NEW u \in Users, AddBulkDocs(u) \/ UserCallEnds(u) PROVE UsersInv'
  BY <1>2, BulkKeeps, OutcomeKeeps
<1>3. CASE InParallelEnds \/ AddFin
  BY <1>3, ParallelEndsKeeps, FinKeeps
<1>4. CASE (\E bulk \in BOOLEAN : AddDocs(bulk))
           \/ (\E num \in NumRevs \cup TrackedRevs : UpdateDocs(num))
  BY <1>4, CallsBegin
<1>5. CASE (\E ig \in BOOLEAN : VerifyChanges(ig)) \/ (\E u \in Users : VerifyUser(u)) \/ VerifySameDocs
  BY <1>5, MainOnlyKeeps
<1>6. CASE (\E k \in {"loop", "once", "continuous"} : StartTracking(k))
           \/ Longpoll \/ Continuous \/ TrackerStops
  BY <1>6, TrackerKeeps
<1>7. CASE FallBehind \/ CatchUp \/ TakeDbOffline \/ BringDbOnline
  BY <1>7, GateKeeps
<1>8. CASE UNCHANGED usersVars
  <2>1. UNCHANGED <<rev, lag, queue, feed, fseq, online, cache, th, uc, main, tr, asked, calls>>
    BY <1>8 DEF usersVars, gate, client
  <2> QED
    BY <2>1 DEF UsersInv, ClientTypes, GateTypes, TestTypes, FeedOK, CacheOK, AskedOK, CallsOK,
                CurrentOK, UpdatesOK, Busy, Working
<1> QED
  BY <1>1, <1>2, <1>3, <1>4, <1>5, <1>6, <1>7, <1>8 DEF UsersNext, WorkStep

\* The invariant holds in every state of a test.
LEMMA UsersInvAlways == UsersSpec => []UsersInv
BY UsersInvInit, UsersInvStep, PTL DEF UsersSpec

\* Calls over many threads, whatever requests are refused and answers are lost, leave a
\* true record: as long as none of its calls raised, the cache of a user has the current
\* revisions of its documents; the errors of update_docs are exactly the documents that
\* did not get all their updates; and no thread writes once in_parallel is over.
THEOREM CallsAreTrue == UsersSpec => []CallsTrue
<1>1. UsersInv => CallsTrue
  <2> SUFFICES ASSUME UsersInv PROVE CallsTrue
    OBVIOUS
  <2>0. Docs \subseteq AllDocs /\ main.clean \subseteq Users /\ \A u \in Users : Own(u) \subseteq Docs
    BY OwnDocs DEF UsersInv, TestTypes
  <2>1. UsersTypeOK
    BY DEF UsersInv, UsersTypeOK, FeedOK, CacheOK, ClientTypes, TestTypes, ThreadPhases,
           CallPhases, TrackerPhases
  <2>2. CacheCurrent
    BY <2>0 DEF UsersInv, CacheCurrent, CurrentOK, CallsOK
  <2>3. ErrorsTrue
    <3> SUFFICES ASSUME NEW u \in Users, uc[u].kind = "update", uc[u].phase = "returned",
                        NEW d \in Own(u), th[d].phase # "none"
                 PROVE  rev[d] = uc[u].base[d] + uc[u].num <=> d \notin uc[u].errors
      BY DEF ErrorsTrue
    <3>1. ~Busy(d) /\ th[d].phase # "other" /\ th[d].phase \in ThreadPhases
      BY <2>0 DEF UsersInv, CallsOK, ClientTypes
    <3>2. th[d].phase \in {"ok", "http"}
      BY <3>1 DEF Busy, ThreadPhases
    <3>3. /\ uc[u].errors = {e \in Own(u) : th[e].phase = "http"}
          /\ th[d].phase = "ok" => rev[d] = uc[u].base[d] + uc[u].num
          /\ th[d].phase = "http" => rev[d] < uc[u].base[d] + uc[u].num
      BY DEF UsersInv, UpdatesOK
    <3>4. rev[d] \in Nat /\ uc[u].base[d] \in Nat /\ uc[u].num \in Nat
      BY <2>0 DEF UsersInv, GateTypes, ClientTypes
    <3> QED
      BY <3>2, <3>3, <3>4
  <2>4. NoLateThread
    <3> SUFFICES ASSUME MainEnded PROVE \A d \in Docs : ~Busy(d)
      BY DEF NoLateThread
    <3>1. ~Working
      BY DEF MainEnded, Working
    <3> QED
      BY <3>1, AtRest
  <2> QED
    BY <2>1, <2>2, <2>3, <2>4 DEF CallsTrue
<1> QED
  BY <1>1, UsersInvAlways, PTL

-----------------------------------------------------------------------------
(* Verifiers                                                               *)

\* What tests expect of a document is what its owner has cached.
LEMMA ExpectedIsCache ==
    ASSUME UsersInv
    PROVE  /\ \A u \in Users : \A d \in Own(u) : Expected[d] = cache[u][d]
           /\ {d \in AllDocs : Expected[d] # 0} \subseteq Docs
           /\ Expected[Fin] = 0
<1>0. /\ Docs \subseteq AllDocs /\ Fin \in AllDocs /\ Fin \notin Docs
      /\ \A u \in Users : Own(u) \subseteq Docs
      /\ \A u, v \in Users : \A d \in Own(u) \cap Own(v) : u = v
  BY OwnDocs
<1>1. \A u \in Users, d \in AllDocs : cache[u][d] # 0 => d \in Own(u)
  BY DEF UsersInv, CacheOK
<1>2. ASSUME NEW d \in AllDocs
      PROVE  \/ Expected[d] = 0 /\ \A u \in Users : cache[u][d] = 0
             \/ \E u \in Users : cache[u][d] # 0 /\ Expected[d] = cache[u][d]
  <2> DEFINE us == {u \in Users : cache[u][d] # 0}
  <2>1. Expected[d] = IF us = {} THEN 0 ELSE cache[CHOOSE u \in us : TRUE][d]
    BY DEF Expected
  <2>2. us # {} => (CHOOSE u \in us : TRUE) \in us
    OBVIOUS
  <2> QED
    BY <2>1, <2>2
<1>3. \A u \in Users : \A d \in Own(u) : Expected[d] = cache[u][d]
  <2> SUFFICES ASSUME NEW u \in Users, NEW d \in Own(u) PROVE Expected[d] = cache[u][d]
    OBVIOUS
  <2>0. d \in AllDocs
    BY <1>0
  <2>1. CASE Expected[d] = 0 /\ \A v \in Users : cache[v][d] = 0
    BY <2>1
  <2>2. CASE \E v \in Users : cache[v][d] # 0 /\ Expected[d] = cache[v][d]
    <3>1. PICK v \in Users : cache[v][d] # 0 /\ Expected[d] = cache[v][d]
      BY <2>2
    <3>2. v = u
      BY <1>0, <1>1, <2>0, <3>1
    <3> QED
      BY <3>1, <3>2
  <2> QED
    BY <1>2, <2>0, <2>1, <2>2
<1>4. \A d \in AllDocs : Expected[d] # 0 => d \in Docs
  BY <1>0, <1>1, <1>2
<1> QED
  BY <1>0, <1>3, <1>4

\* As many documents as all are all.
LEMMA AllFound ==
    ASSUME NEW S, S \subseteq Docs, Cardinality(S) = Cardinality(Docs)
    PROVE  S = Docs
<1>1. IsFiniteSet(Docs)
  BY UsersAssumption, Zenon
<1> QED
  BY <1>1, FS_Subset

\* verify_changes that finds no difference has found all documents with all updates: there
\* can be no more of them than were asked for, at the gateway either.
LEMMA MatchComplete ==
    ASSUME UsersInv, NEW ignore \in BOOLEAN, ChangesMatch(Expected, ignore)
    PROVE  Complete(ignore)
<1>1. InFeed = Docs
  <2>1. InFeed \subseteq Docs /\ Cardinality(InFeed) = Cardinality(Docs)
    BY ExpectedIsCache DEF ChangesMatch
  <2> QED
    BY <2>1, AllFound
<1> SUFFICES ASSUME NEW u \in Users, NEW d \in Own(u)
             PROVE  rev[d] = 1 + asked /\ cache[u][d] # 0 /\ (ignore \/ cache[u][d] = rev[d])
  BY DEF Complete
<1>2. d \in Docs /\ d \in AllDocs
  BY OwnDocs
<1>3. /\ (ignore \/ Expected[d] = feed[d]) /\ feed[d] = 1 + asked
      /\ Expected[d] = cache[u][d] /\ Expected[d] # 0
  BY <1>1, <1>2, ExpectedIsCache DEF ChangesMatch
<1>4. feed[d] <= rev[d] /\ rev[d] <= 1 + asked /\ rev[d] \in Nat /\ asked \in Nat
  BY <1>2 DEF UsersInv, FeedOK, AskedOK, GateTypes, TestTypes
<1> QED
  BY <1>3, <1>4

\* When all is right it finds none.
LEMMA CompleteMatches ==
    ASSUME UsersInv, NEW ignore \in BOOLEAN, Complete(ignore), feed = rev, rev[Fin] = 0
    PROVE  ChangesMatch(Expected, ignore)
<1>0. Docs \subseteq AllDocs /\ AllDocs = Docs \cup {Fin} /\ Fin \notin Docs
      /\ (\A d \in Docs : \E u \in Users : d \in Own(u)) /\ asked \in Nat
  BY OwnDocs DEF AllDocs, UsersInv, TestTypes
<1>1. \A d \in Docs : feed[d] = 1 + asked /\ Expected[d] # 0 /\ (ignore \/ Expected[d] = feed[d])
  <2> SUFFICES ASSUME NEW d \in Docs
               PROVE  feed[d] = 1 + asked /\ Expected[d] # 0 /\ (ignore \/ Expected[d] = feed[d])
    OBVIOUS
  <2>1. PICK u \in Users : d \in Own(u)
    BY <1>0
  <2> QED
    BY <2>1, ExpectedIsCache DEF Complete
<1>2. \A d \in Docs : feed[d] # 0 /\ Expected[d] # 0
  BY <1>0, <1>1
<1>3. InFeed = Docs
  BY <1>0, <1>2 DEF InFeed
<1>4. {d \in AllDocs : Expected[d] # 0} = Docs
  BY <1>0, <1>2, ExpectedIsCache
<1> QED
  BY <1>1, <1>3, <1>4 DEF ChangesMatch

\* Only a call that adds or updates documents lets users and their threads work.
LEMMA WorkersWork ==
    ASSUME UsersInv, NEW u \in Users,
           \/ AddBulkDocs(u) \/ UserCallEnds(u)
           \/ \E d \in Own(u) : AddDoc(u, d) \/ UpdateGet(u, d) \/ UpdatePut(u, d)
    PROVE  Working /\ UNCHANGED <<main, tr, calls>>
<1>1. CASE AddBulkDocs(u) \/ UserCallEnds(u)
  BY <1>1 DEF AddBulkDocs, UserCallEnds, UserOutcome, UsersInv, CallsOK
<1>2. CASE \E d \in Own(u) : AddDoc(u, d) \/ UpdateGet(u, d) \/ UpdatePut(u, d)
  <2>1. PICK d \in Own(u) : AddDoc(u, d) \/ UpdateGet(u, d) \/ UpdatePut(u, d)
    BY <1>2
  <2>2. Busy(d) /\ UNCHANGED <<main, tr, calls>>
    BY <2>1 DEF AddDoc, UpdateGet, UpdatePut, Busy
  <2> QED
    BY <2>2, BusyWorks DEF UsersInv
<1> QED
  BY <1>1, <1>2

VerifierInv == VerifyOK /\ SameOK /\ StartOK

\* One user's part of verify_changes.
LEMMA VerifyUserKeeps ==
    ASSUME UsersInv, VerifierInv, NEW u \in Users, VerifyUser(u)
    PROVE  VerifierInv'
<1> USE DEF VerifierInv
<1> DEFINE ok == online /\ ChangesMatch(main.expected, main.ignore)
<1>1. /\ main' = [main EXCEPT !.todo = @ \ {u},
                     !.phase = IF ~ok THEN "raised"
                               ELSE IF main.todo = {u} THEN "returned" ELSE "running"]
      /\ main.kind = "verify" /\ calls' = calls /\ main.phase = "running"
  BY DEF VerifyUser
<1>2. UNCHANGED <<rev, feed, online, cache, asked, tr>>
  BY DEF VerifyUser, gate, client
<1>3. /\ main'.kind = "verify" /\ main'.expected = main.expected /\ main'.right = main.right
      /\ main'.ignore = main.ignore /\ main.ignore \in BOOLEAN
      /\ main'.phase = IF ~ok THEN "raised" ELSE IF main.todo = {u} THEN "returned" ELSE "running"
  BY <1>1 DEF UsersInv, TestTypes
<1>4. main.expected = Expected /\ UNCHANGED <<Expected, Complete(main.ignore)>>
  BY <1>1, <1>2, <1>3 DEF VerifyOK, Expected, Complete
<1>5. ok => Complete(main.ignore)
  BY <1>3, <1>4, MatchComplete
<1>6. main.right => ok
  <2> SUFFICES ASSUME main.right PROVE ok
    OBVIOUS
  <2>1. Complete(main.ignore) /\ online /\ feed = rev /\ rev[Fin] = 0
    BY <1>1 DEF VerifyOK
  <2> QED
    BY <1>3, <1>4, <2>1, CompleteMatches
<1> HIDE DEF ok
<1>7. VerifyOK'
  <2>1. main'.expected = Expected'
    BY <1>3, <1>4
  <2>2. main'.phase = "returned" => Complete(main.ignore)'
    BY <1>3, <1>4, <1>5
  <2>3. main'.right => Complete(main.ignore)' /\ online' /\ feed' = rev' /\ rev'[Fin] = 0 /\ main'.phase # "raised"
    BY <1>1, <1>2, <1>3, <1>4, <1>6 DEF VerifyOK
  <2> QED
    BY <2>1, <2>2, <2>3 DEF VerifyOK
<1>8. SameOK' /\ StartOK'
  BY <1>1, <1>2, <1>3 DEF SameOK, StartOK
<1> QED
  BY <1>7, <1>8

\* verify_same_docs: the tracker has what the caches have, and these are current.
LEMMA SameDocsKeeps ==
    ASSUME UsersInv, VerifierInv, VerifySameDocs
    PROVE  VerifierInv'
<1> USE DEF VerifierInv
<1> DEFINE found == {d \in AllDocs : tr.docs[d] # 0}
           ok == Cardinality(found) = Cardinality(Docs) /\ tr.docs = Expected
<1>1. /\ MainEnded /\ tr.phase = "done" /\ calls' = calls
      /\ main' = [main EXCEPT !.kind = "same", !.phase = IF ok THEN "returned" ELSE "raised"]
  BY DEF VerifySameDocs
<1>2. UNCHANGED <<rev, feed, online, cache, asked, tr>>
  BY DEF VerifySameDocs, gate, client
<1>3. /\ main'.kind = "same" /\ main'.clean = main.clean
      /\ main'.phase = IF ok THEN "returned" ELSE "raised"
  BY <1>1 DEF UsersInv, TestTypes
<1>4. ASSUME ok, main.clean = Users PROVE \A d \in Docs : tr.docs[d] = rev[d]
  <2>1. ~Working
    BY <1>1 DEF MainEnded, Working
  <2> SUFFICES ASSUME NEW d \in Docs PROVE tr.docs[d] = rev[d]
    OBVIOUS
  <2>2. PICK u \in Users : d \in Own(u)
    BY OwnDocs
  <2>3. cache[u][d] = rev[d]
    BY <1>4, <2>1, <2>2, AtRest
  <2> QED
    BY <1>4, <2>2, <2>3, ExpectedIsCache
<1> HIDE DEF ok
<1>5. SameOK'
  BY <1>1, <1>2, <1>3, <1>4 DEF SameOK
<1>6. VerifyOK' /\ StartOK'
  BY <1>1, <1>2, <1>3 DEF VerifyOK, StartOK, MainEnded
<1> QED
  BY <1>5, <1>6

\* verify_changes begins.
LEMMA VerifyChangesKeeps ==
    ASSUME UsersInv, VerifierInv, NEW ig \in BOOLEAN, VerifyChanges(ig)
    PROVE  VerifierInv'
<1> USE DEF VerifierInv
<1>1. /\ main' = [main EXCEPT !.kind = "verify", !.phase = "running", !.todo = Users,
                            !.right = AllRight(ig), !.ignore = ig, !.expected = Expected]
      /\ calls' = calls + 1
  BY DEF VerifyChanges
<1>2. UNCHANGED <<rev, feed, online, cache, asked, tr>>
  BY DEF VerifyChanges, gate, client
<1>3. /\ main'.kind = "verify" /\ main'.phase = "running" /\ main'.right = AllRight(ig)
      /\ main'.ignore = ig /\ main'.expected = Expected
  BY <1>1 DEF UsersInv, TestTypes
<1>4. Expected' = Expected /\ Complete(main.ignore)' = Complete(ig)
  BY <1>2, <1>3 DEF Expected, Complete
<1>5. AllRight(ig) => Complete(ig) /\ online /\ feed = rev /\ rev[Fin] = 0
  BY DEF AllRight, Complete, UsersInv, FeedOK
<1>6. calls' # 0
  BY <1>1 DEF UsersInv, TestTypes
<1>7. VerifyOK'
  BY <1>2, <1>3, <1>4, <1>5 DEF VerifyOK
<1>8. SameOK' /\ StartOK'
  BY <1>3, <1>6 DEF SameOK, StartOK
<1> QED
  BY <1>7, <1>8

\* Every other step: nothing is written while the test verifies.
LEMMA VerifierStep ==
    ASSUME UsersInv, VerifierInv, [UsersNext]_usersVars
    PROVE  VerifierInv'
<1>a. VerifyOK /\ SameOK /\ StartOK
  BY DEF VerifierInv
<1>1. ASSUME Working, main' = main, calls' = calls PROVE VerifierInv'
  BY <1>a, <1>1 DEF Working, VerifierInv, VerifyOK, SameOK, StartOK
<1>2. ASSUME main'.kind \in {"add", "update", "fin"}, calls' # 0 PROVE VerifierInv'
  BY <1>2 DEF VerifierInv, VerifyOK, SameOK, StartOK
<1>3. CASE \E u \in Users : \/ AddBulkDocs(u) \/ UserCallEnds(u)
                            \/ \E d \in Own(u) : AddDoc(u, d) \/ UpdateGet(u, d) \/ UpdatePut(u, d)
  BY <1>1, <1>3, WorkersWork
<1>4. CASE InParallelEnds
  <2>1. main.kind \in {"add", "update"} /\ main.phase = "running" /\ calls' = calls
    BY <1>4 DEF InParallelEnds
  <2>2. main'.kind = main.kind
    BY <1>4 DEF InParallelEnds, UsersInv, TestTypes
  <2>3. calls # 0
    BY <1>a, <2>1 DEF StartOK
  <2> QED
    BY <1>2, <2>1, <2>2, <2>3
<1>5. CASE (\E bulk \in BOOLEAN : AddDocs(bulk))
           \/ (\E num \in NumRevs \cup TrackedRevs : UpdateDocs(num))
  <2>1. PICK k \in {"add", "update"} : Begins(k)
    BY <1>5 DEF AddDocs, UpdateDocs
  <2>2. main'.kind = k /\ calls' = calls + 1 /\ calls \in Nat
    BY <2>1, BeginsMain DEF UsersInv, TestTypes, MainKinds
  <2> QED
    BY <1>2, <2>2
<1>6. CASE AddFin
  <2>1. main'.kind = "fin" /\ calls' = calls + 1 /\ calls \in Nat
    BY <1>6, FinKeeps DEF UsersInv, TestTypes
  <2> QED
    BY <1>2, <2>1
<1>7. CASE (\E ig \in BOOLEAN : VerifyChanges(ig)) \/ (\E u \in Users : VerifyUser(u)) \/ VerifySameDocs
  BY <1>7, VerifyChangesKeeps, VerifyUserKeeps, SameDocsKeeps
<1>8. CASE (\E k \in {"loop", "once", "continuous"} : StartTracking(k))
           \/ Longpoll \/ Continuous \/ TrackerStops
  <2>1. UNCHANGED <<rev, feed, online, cache, main, asked, calls>> /\ tr.phase \in {"off", "poll"}
    BY <1>8, TrackerKeeps DEF StartTracking, Longpoll, Continuous, TrackerStops
  <2>2. main.kind # "same"
    BY <1>a, <2>1 DEF SameOK
  <2>3. UNCHANGED <<Expected, Complete(main.ignore)>>
    BY <2>1 DEF Expected, Complete
  <2> QED
    BY <1>a, <2>1, <2>2, <2>3 DEF VerifierInv, VerifyOK, SameOK, StartOK
<1>9. CASE FallBehind \/ CatchUp \/ TakeDbOffline \/ BringDbOnline
  <2>1. /\ UNCHANGED <<rev, cache, tr, asked, calls>>
        /\ main'.kind = main.kind /\ main'.phase = main.phase /\ main'.clean = main.clean
        /\ main'.expected = main.expected /\ main'.ignore = main.ignore
        /\ (main'.right => main.right)
        /\ (online' \/ ~main'.right \/ UNCHANGED online) /\ (feed' = feed \/ feed' = rev')
    BY <1>9, GateKeeps
  <2>2. UNCHANGED <<Expected, Complete(main.ignore)>>
    BY <2>1 DEF Expected, Complete
  <2>3. VerifyOK'
    <3> SUFFICES ASSUME main'.kind = "verify" PROVE VerifyOK'
      BY DEF VerifyOK
    <3>1. main'.expected = Expected' /\ (main'.phase = "returned" => Complete(main.ignore)')
      BY <1>a, <2>1, <2>2 DEF VerifyOK
    <3>2. main'.right => Complete(main.ignore)' /\ online' /\ feed' = rev' /\ rev'[Fin] = 0 /\ main'.phase # "raised"
      BY <1>a, <2>1, <2>2 DEF VerifyOK
    <3> QED
      BY <3>1, <3>2 DEF VerifyOK
  <2>4. SameOK' /\ StartOK'
    BY <1>a, <2>1 DEF SameOK, StartOK
  <2> QED
    BY <2>3, <2>4 DEF VerifierInv
<1>10. CASE UNCHANGED usersVars
  <2>1. UNCHANGED <<rev, feed, online, cache, main, tr, asked, calls>>
    BY <1>10 DEF usersVars, gate, client
  <2>2. UNCHANGED <<Expected, Complete(main.ignore)>>
    BY <2>1 DEF Expected, Complete
  <2> QED
    BY <1>a, <2>1, <2>2 DEF VerifierInv, VerifyOK, SameOK, StartOK
<1> QED
  BY <1>3, <1>4, <1>5, <1>6, <1>7, <1>8, <1>9, <1>10 DEF UsersNext, WorkStep

\* verify_changes passes only when every document has all its updates at the gateway and
\* is in the caches, with these updates unless ignore_rev_ids is given, however far the
\* feed it reads lags, and never fails when all is right;
\* verify_same_docs, after calls that returned, passes only for a tracker that has the
\* current revision of every document.
THEOREM VerifiersAreTrue == UsersSpec => []VerifiersTrue
<1>1. UsersInit => VerifierInv
  BY DEF UsersInit, VerifierInv, VerifyOK, SameOK, StartOK
<1>2. UsersInv /\ VerifierInv /\ [UsersNext]_usersVars => VerifierInv'
  BY VerifierStep
<1>3. VerifierInv => VerifiersTrue
  BY DEF VerifierInv, VerifyOK, SameOK, Complete, VerifiersTrue, VerifiedTrue, SameTrue, NoFalseAlarm
<1> QED
  BY <1>1, <1>2, <1>3, UsersInvAlways, PTL DEF UsersSpec

-----------------------------------------------------------------------------
(* Trackers                                                                *)

\* Documents that enter the feed get numbers that the tracker has not come to.
LEMMA NumberedTracked ==
    ASSUME GateTypes, TestTypes, PollOK, tr.phase = "poll", NEW s \in Seq(AllDocs),
           UNCHANGED tr, ~lag', feed' = rev', fseq' = Numbered(s),
           \A d \in AllDocs \ ToSet(s) : rev'[d] = feed[d]
    PROVE  PollOK'
<1> DEFINE n == Numbered(s)
           ds == ToSet(s)
<1>0. Docs \subseteq AllDocs
  BY OwnDocs
<1>1. ds \subseteq AllDocs
  BY DEF ToSet
<1>2. fseq \in [AllDocs -> Nat] /\ tr.since \in Nat
  BY DEF GateTypes, TestTypes
<1>3. /\ n \in [AllDocs -> Nat]
      /\ \A d \in AllDocs \ ds : n[d] = fseq[d]
      /\ \A d \in AllDocs \cap ds, e \in AllDocs : n[d] > fseq[e]
      /\ \A d, e \in AllDocs \cap ds : n[d] = n[e] => d = e
  BY <1>2, NewNumbers
<1>a. fseq' = n /\ feed' = rev' /\ \A d \in AllDocs \ ds : rev'[d] = feed[d]
  OBVIOUS
<1> HIDE DEF n, ds
<1>4. PICK w \in AllDocs : tr.since <= fseq[w]
  BY DEF PollOK
<1>5. \A d \in ds : n[d] > tr.since
  <2> SUFFICES ASSUME NEW d \in ds PROVE n[d] > tr.since
    OBVIOUS
  <2>1. n[d] > fseq[w] /\ n[d] \in Nat /\ fseq[w] \in Nat
    BY <1>1, <1>2, <1>3
  <2> QED
    BY <1>2, <1>4, <2>1
<1>6. \A d \in Docs : (n[d] # 0 /\ n[d] <= tr.since) => tr.docs[d] = rev'[d]
  <2> SUFFICES ASSUME NEW d \in Docs, n[d] # 0, n[d] <= tr.since PROVE tr.docs[d] = rev'[d]
    OBVIOUS
  <2>0. d \in AllDocs /\ n[d] \in Nat
    BY <1>0, <1>3
  <2>1. d \notin ds
    BY <1>2, <1>5, <2>0
  <2>2. n[d] = fseq[d] /\ rev'[d] = feed[d]
    BY <1>3, <1>a, <2>0, <2>1
  <2> QED
    BY <2>2 DEF PollOK
<1>7. \E d \in AllDocs : tr.since <= n[d]
  <2>1. CASE w \in ds
    BY <1>2, <1>3, <1>5, <2>1
  <2>2. CASE w \notin ds
    BY <1>3, <1>4, <2>2
  <2> QED
    BY <2>1, <2>2
<1>8. \A d, e \in AllDocs : (n[d] = n[e] /\ n[d] # 0) => d = e
  <2> SUFFICES ASSUME NEW d \in AllDocs, NEW e \in AllDocs, n[d] = n[e], n[d] # 0 PROVE d = e
    OBVIOUS
  <2>1. n[d] \in Nat /\ n[e] \in Nat /\ fseq[d] \in Nat /\ fseq[e] \in Nat
    BY <1>2, <1>3
  <2>2. CASE d \in ds /\ e \in ds
    BY <1>3, <2>2
  <2>3. CASE d \in ds /\ e \notin ds
    BY <1>3, <2>1, <2>3
  <2>4. CASE d \notin ds /\ e \in ds
    BY <1>3, <2>1, <2>4
  <2>5. CASE d \notin ds /\ e \notin ds
    BY <1>3, <2>5 DEF PollOK
  <2> QED
    BY <2>2, <2>3, <2>4, <2>5
<1> QED
  BY <1>a, <1>6, <1>7, <1>8 DEF PollOK

\* Documents that are written get numbers that the tracker has not come to; if the feed
\* lags they are queued instead.
LEMMA WritesTracked ==
    ASSUME GateTypes, FeedOK, TestTypes, TrackOK, NEW ds \in SUBSET AllDocs, Writes(ds),
           UNCHANGED <<lag, tr>>
    PROVE  TrackOK'
<1>0. Docs \subseteq AllDocs
  BY OwnDocs
<1>1. tr'.phase = "off" => fseq' = Empty /\ tr'.since = 0
  BY DEF Writes, Numbered, TrackOK
<1> SUFFICES ASSUME tr.phase = "poll" PROVE PollOK'
  BY <1>1 DEF TrackOK
<1>2. PollOK
  BY DEF TrackOK
<1>3. /\ rev' = [d \in AllDocs |-> IF d \in ds THEN rev[d] + 1 ELSE rev[d]]
  BY DEF Writes
<1>4. SetToSeq(ds) \in Seq(AllDocs) /\ ToSet(SetToSeq(ds)) = ds
  <2>1. SetToSeq(ds) \in Seq(ds) /\ ToSet(SetToSeq(ds)) = ds
    BY OwnDocs, FS_Subset, SeqOfSet
  <2> QED
    BY <2>1
<1>5. CASE lag
  <2>1. UNCHANGED <<feed, fseq>> /\ queue' = queue \o SetToSeq(ds)
    BY <1>5 DEF Writes
  <2>2. \A a, b \in Seq(AllDocs) : ToSet(a) \cup ToSet(b) \subseteq ToSet(a \o b)
    <3> SUFFICES ASSUME NEW a \in Seq(AllDocs), NEW b \in Seq(AllDocs)
                 PROVE  ToSet(a) \cup ToSet(b) \subseteq ToSet(a \o b)
      OBVIOUS
    <3>1. /\ Len(a) \in Nat /\ Len(b) \in Nat /\ DOMAIN a = 1..Len(a) /\ DOMAIN b = 1..Len(b)
          /\ DOMAIN (a \o b) = 1..(Len(a) + Len(b))
      OBVIOUS
    <3>2. \A i \in 1..Len(a) : i \in 1..(Len(a) + Len(b)) /\ (a \o b)[i] = a[i]
      BY <3>1
    <3>3. \A i \in 1..Len(b) : Len(a) + i \in 1..(Len(a) + Len(b)) /\ (a \o b)[Len(a) + i] = b[i]
      BY <3>1
    <3>4. ToSet(a) \subseteq ToSet(a \o b)
      BY <3>1, <3>2 DEF ToSet
    <3>5. ToSet(b) \subseteq ToSet(a \o b)
      BY <3>1, <3>3 DEF ToSet
    <3> QED
      BY <3>4, <3>5
  <2>3. ToSet(queue) \cup ds \subseteq ToSet(queue')
    BY <1>4, <2>1, <2>2 DEF GateTypes
  <2>4. \A d \in AllDocs : feed'[d] # rev'[d] => d \in ToSet(queue')
    BY <1>2, <1>3, <1>5, <2>1, <2>3 DEF PollOK
  <2> QED
    BY <1>2, <2>1, <2>4 DEF PollOK
<1>6. CASE ~lag
  <2>1. feed' = rev' /\ fseq' = Numbered(SetToSeq(ds)) /\ feed = rev
    BY <1>6 DEF Writes, FeedOK
  <2>2. \A d \in AllDocs \ ToSet(SetToSeq(ds)) : rev'[d] = feed[d]
    BY <1>3, <1>4, <2>1
  <2> QED
    BY <1>2, <1>4, <1>6, <2>1, <2>2, NumberedTracked
<1> QED
  BY <1>5, <1>6

\* The feed catches up with the queue.
LEMMA CatchUpTracked ==
    ASSUME UsersInv, TrackOK, CatchUp
    PROVE  TrackOK'
<1>1. /\ lag /\ ~lag' /\ feed' = rev /\ fseq' = Numbered(queue) /\ rev' = rev /\ tr' = tr
  BY DEF CatchUp
<1>2. GateTypes /\ TestTypes /\ queue \in Seq(AllDocs)
  BY DEF UsersInv, GateTypes
<1>3. CASE tr.phase = "poll"
  <2>1. PollOK /\ \A d \in AllDocs \ ToSet(queue) : rev'[d] = feed[d]
    BY <1>1, <1>3 DEF TrackOK, PollOK
  <2>2. PollOK'
    BY <1>1, <1>2, <1>3, <2>1, NumberedTracked
  <2> QED
    BY <1>1, <1>3, <2>2 DEF TrackOK
<1>4. CASE tr.phase # "poll"
  BY <1>1, <1>4 DEF TrackOK, Numbered
<1> QED
  BY <1>3, <1>4

\* The least number that the tracker has not come to.
LEMMA NextChange ==
    ASSUME UsersInv, Continuous
    PROVE  \E d \in Newer :
              /\ \A e \in Newer : fseq[d] <= fseq[e]
              /\ \/ d = Fin /\ tr'.phase = "done" /\ tr'.docs = tr.docs
                 \/ /\ d # Fin /\ tr'.phase = "poll" /\ tr'.docs = Stored({d})
                    /\ tr'.since = fseq[d]
<1> DEFINE d == CHOOSE e \in Newer : \A f \in Newer : fseq[e] <= fseq[f]
<1>1. Newer # {} /\ Newer \subseteq AllDocs /\ tr.phase = "poll"
  BY DEF Continuous, Newer
<1>2. IsFiniteSet(Newer) /\ \A e \in Newer : fseq[e] \in Nat
  BY <1>1, OwnDocs, FS_Subset DEF UsersInv, GateTypes
<1>3. \E e \in Newer : \A f \in Newer : fseq[e] <= fseq[f]
  BY <1>1, <1>2, LeastNumbered
<1>4. d \in Newer /\ \A e \in Newer : fseq[d] <= fseq[e]
  BY <1>3
<1>5. tr' = IF d = Fin THEN [tr EXCEPT !.phase = "done"]
            ELSE [tr EXCEPT !.docs = Stored({d}), !.since = fseq[d]]
  BY DEF Continuous
<1> HIDE DEF d
<1>6. \/ d = Fin /\ tr'.phase = "done" /\ tr'.docs = tr.docs
      \/ /\ d # Fin /\ tr'.phase = "poll" /\ tr'.docs = Stored({d})
         /\ tr'.since = fseq[d]
  BY <1>1, <1>5 DEF UsersInv, TestTypes
<1> QED
  BY <1>4, <1>6

\* What a longpoll answers.
LEMMA PollAnswer ==
    ASSUME UsersInv, Longpoll
    PROVE  /\ tr.phase = "poll" /\ tr'.docs = Stored(BeforeFin) /\ tr'.since = LastSeq
           /\ tr'.phase \in {"done", "gone", "poll"}
           /\ tr'.phase = "done" <=> Fin \in Newer
BY DEF Longpoll, UsersInv, TestTypes

\* A tracker has what it was told, line by line and poll by poll.
LEMMA TrackerTracked ==
    ASSUME UsersInv, VerifierInv, TrackOK,
           (\E k \in {"loop", "once", "continuous"} : StartTracking(k))
           \/ Longpoll \/ Continuous \/ TrackerStops
    PROVE  TrackOK'
<1>0. Docs \subseteq AllDocs /\ Fin \in AllDocs /\ Fin \notin Docs
  BY OwnDocs
<1>a. /\ fseq \in [AllDocs -> Nat] /\ feed \in [AllDocs -> Nat] /\ rev \in [AllDocs -> Nat]
      /\ tr.since \in Nat /\ tr.docs \in [AllDocs -> Nat]
  BY DEF UsersInv, GateTypes, TestTypes
<1>b. UNCHANGED <<rev, lag, queue, feed, fseq>>
  BY TrackerKeeps
<1>1. CASE \E k \in {"loop", "once", "continuous"} : StartTracking(k)
  <2>1. calls = 0 /\ tr.phase = "off" /\ tr'.phase = "poll" /\ tr'.since = tr.since
    BY <1>1 DEF StartTracking, UsersInv, TestTypes
  <2>2. rev = Empty /\ fseq = Empty /\ tr'.since = 0
    BY <2>1 DEF VerifierInv, StartOK, TrackOK
  <2>3. \A d \in AllDocs : rev[d] = 0 /\ fseq[d] = 0
    BY <2>2 DEF Empty
  <2>4. \A d \in AllDocs : feed[d] = rev[d]
    <3> SUFFICES ASSUME NEW d \in AllDocs PROVE feed[d] = rev[d]
      OBVIOUS
    <3>1. feed[d] <= rev[d] /\ feed[d] \in Nat
      BY <1>a DEF UsersInv, FeedOK
    <3> QED
      BY <2>3, <3>1
  <2>5. PollOK'
    BY <1>0, <1>b, <2>2, <2>3, <2>4 DEF PollOK
  <2> QED
    BY <2>1, <2>5 DEF TrackOK
<1>2. CASE Longpoll
  <2>1. /\ tr.phase = "poll" /\ tr'.docs = Stored(BeforeFin) /\ tr'.since = LastSeq
        /\ tr'.phase \in {"done", "gone", "poll"} /\ (tr'.phase = "done" <=> Fin \in Newer)
    BY <1>2, PollAnswer
  <2> SUFFICES ASSUME Fin \notin Newer PROVE PollOK'
    BY <2>1 DEF TrackOK
  <2>2. PollOK
    BY <2>1 DEF TrackOK
  <2>3. \E d \in AllDocs : LastSeq = fseq[d]
    BY <1>a, LastSeqIs
  <2>4. \A d \in Docs : fseq[d] # 0 => tr'.docs[d] = feed[d]
    <3> SUFFICES ASSUME NEW d \in Docs, fseq[d] # 0 PROVE tr'.docs[d] = feed[d]
      OBVIOUS
    <3>1. d \in AllDocs /\ fseq[d] \in Nat
      BY <1>0, <1>a
    <3>2. CASE fseq[d] > tr.since
      BY <2>1, <3>1, <3>2 DEF Stored, BeforeFin, Newer
    <3>3. CASE fseq[d] <= tr.since
      BY <2>1, <2>2, <3>1, <3>3 DEF Stored, PollOK
    <3> QED
      BY <1>a, <3>1, <3>2, <3>3
  <2>5. \E d \in AllDocs : LastSeq <= fseq[d]
    BY <1>a, <2>3
  <2> QED
    BY <1>b, <2>1, <2>2, <2>4, <2>5 DEF PollOK
<1>3. CASE Continuous
  <2>1. PICK d \in Newer :
              /\ \A e \in Newer : fseq[d] <= fseq[e]
              /\ \/ d = Fin /\ tr'.phase = "done" /\ tr'.docs = tr.docs
                 \/ /\ d # Fin /\ tr'.phase = "poll" /\ tr'.docs = Stored({d})
                    /\ tr'.since = fseq[d]
    BY <1>3, NextChange
  <2>2. tr.phase = "poll" /\ PollOK
    BY <1>3 DEF Continuous, TrackOK
  <2>3. CASE d = Fin
    BY <2>1, <2>3 DEF TrackOK
  <2> SUFFICES ASSUME d # Fin PROVE PollOK'
    BY <2>1, <2>3 DEF TrackOK
  <2>4. \A e \in Docs : (fseq[e] # 0 /\ fseq[e] <= fseq[d]) => tr'.docs[e] = feed[e]
    <3> SUFFICES ASSUME NEW e \in Docs, fseq[e] # 0, fseq[e] <= fseq[d], e # d
                 PROVE  tr'.docs[e] = feed[e]
      BY <1>0, <2>1 DEF Stored
    <3>1. e \in AllDocs /\ d \in AllDocs /\ fseq[e] \in Nat /\ fseq[d] \in Nat
      BY <1>0, <1>a DEF Newer
    <3>2. fseq[e] # fseq[d]
      BY <2>2, <3>1 DEF PollOK
    <3>3. e \notin Newer
      BY <2>1, <3>1, <3>2
    <3>4. fseq[e] <= tr.since
      BY <1>a, <3>1, <3>3 DEF Newer
    <3>5. tr.docs[e] = feed[e]
      BY <2>2, <3>4 DEF PollOK
    <3> QED
      BY <2>1, <3>1, <3>5 DEF Stored
  <2>5. d \in AllDocs /\ fseq[d] <= fseq[d]
    BY <1>a DEF Newer
  <2> QED
    BY <1>b, <2>1, <2>2, <2>4, <2>5 DEF PollOK
<1>4. CASE TrackerStops
  <2>1. tr'.phase \in {"raised", "gone"}
    BY <1>4 DEF TrackerStops, UsersInv, TestTypes
  <2> QED
    BY <2>1 DEF TrackOK
<1> QED
  BY <1>1, <1>2, <1>3, <1>4

\* Every step keeps what the tracker knows.
LEMMA TrackStep ==
    ASSUME UsersInv, VerifierInv, TrackOK, [UsersNext]_usersVars
    PROVE  TrackOK'
<1>0. Docs \subseteq AllDocs /\ Fin \in AllDocs /\ \A u \in Users : Own(u) \subseteq Docs
  BY OwnDocs
<1>a. GateTypes /\ TestTypes /\ FeedOK /\ ClientTypes /\ AskedOK
  BY DEF UsersInv
<1>1. ASSUME UNCHANGED <<rev, lag, queue, feed, fseq, tr>> PROVE TrackOK'
  BY <1>1 DEF TrackOK, PollOK
<1>2. ASSUME NEW ds \in SUBSET AllDocs, Writes(ds), UNCHANGED <<lag, tr>> PROVE TrackOK'
  BY <1>2, <1>a, WritesTracked
<1>3. ASSUME NEW u \in Users, NEW d \in Own(u), AddDoc(u, d) \/ UpdateGet(u, d) \/ UpdatePut(u, d)
      PROVE  TrackOK'
  <2>1. PICK t \in Threads : ThreadStep(u, d, t)
    BY <1>3, <1>a, ThreadForms
  <2>2. UNCHANGED <<lag, tr>> /\ (UNCHANGED <<rev, queue, feed, fseq>> \/ Writes({d}))
    BY <2>1 DEF ThreadStep, Refusal, LostAnswer, Written
  <2>3. {d} \subseteq AllDocs
    BY <1>0, <1>3
  <2> QED
    BY <1>1, <1>2, <2>2, <2>3
<1>4. ASSUME NEW u \in Users, AddBulkDocs(u) PROVE TrackOK'
  <2>1. /\ UNCHANGED <<lag, tr>>
        /\ UNCHANGED <<rev, queue, feed, fseq>> \/ Writes({d \in Own(u) : rev[d] = 0})
    BY <1>4, <1>a, BulkForm DEF Entered
  <2>2. {d \in Own(u) : rev[d] = 0} \subseteq AllDocs
    BY <1>0
  <2> QED
    BY <1>1, <1>2, <2>1, <2>2
<1>5. CASE AddFin
  <2>1. Writes({Fin}) /\ UNCHANGED <<lag, tr>> /\ {Fin} \subseteq AllDocs
    BY <1>0, <1>5 DEF AddFin
  <2> QED
    BY <1>2, <2>1
<1>6. CASE \/ \E u \in Users : UserCallEnds(u) \/ VerifyUser(u)
           \/ InParallelEnds \/ (\E bulk \in BOOLEAN : AddDocs(bulk))
           \/ (\E num \in NumRevs \cup TrackedRevs : UpdateDocs(num))
           \/ (\E ig \in BOOLEAN : VerifyChanges(ig)) \/ VerifySameDocs
  <2>1. UNCHANGED <<rev, lag, queue, feed, fseq, tr>>
    BY <1>6 DEF UserCallEnds, UserOutcome, VerifyUser, InParallelEnds, AddDocs, UpdateDocs,
                VerifyChanges, VerifySameDocs, gate
  <2> QED
    BY <1>1, <2>1
<1>7. CASE (\E k \in {"loop", "once", "continuous"} : StartTracking(k))
           \/ Longpoll \/ Continuous \/ TrackerStops
  BY <1>7, TrackerTracked
<1>8. CASE CatchUp
  BY <1>8, CatchUpTracked
<1>9. CASE FallBehind
  <2>1. UNCHANGED <<rev, queue, feed, fseq, tr>> /\ feed = rev
    BY <1>9, <1>a DEF FallBehind, FeedOK
  <2> QED
    BY <2>1 DEF TrackOK, PollOK
<1>10. CASE TakeDbOffline \/ BringDbOnline
  BY <1>1, <1>10 DEF TakeDbOffline, BringDbOnline
<1>11. CASE UNCHANGED usersVars
  BY <1>1, <1>11 DEF usersVars, gate
<1> QED
  BY <1>3, <1>4, <1>5, <1>6, <1>7, <1>8, <1>9, <1>10, <1>11 DEF UsersNext, WorkStep

\* A tracker that the termination document ends, by a longpoll or line by line, has every
\* document that came before it in the feed, at the revision the feed shows: whatever was
\* written while it polled, and although the feed lags and its answers overlap.
THEOREM TrackerHasAll == UsersSpec => TrackedAll
<1> DEFINE Told == tr.phase = "poll" /\ tr'.phase = "done" =>
              \A d \in Docs : fseq[d] # 0 /\ fseq[d] < fseq[Fin] => tr'.docs[d] = feed[d]
<1>1. UsersInit => VerifierInv /\ TrackOK
  BY DEF UsersInit, VerifierInv, VerifyOK, SameOK, StartOK, TrackOK
<1>2. UsersInv /\ VerifierInv /\ TrackOK /\ [UsersNext]_usersVars => (VerifierInv /\ TrackOK)'
  BY VerifierStep, TrackStep
<1>3. UsersInv /\ TrackOK /\ [UsersNext]_usersVars => [Told]_usersVars
  <2> SUFFICES ASSUME UsersInv, TrackOK, UsersNext, tr.phase = "poll", tr'.phase = "done",
                      NEW d \in Docs, fseq[d] # 0, fseq[d] < fseq[Fin]
               PROVE  tr'.docs[d] = feed[d]
    OBVIOUS
  <2>0. /\ d \in AllDocs /\ Fin \in AllDocs /\ d # Fin
        /\ fseq[d] \in Nat /\ fseq[Fin] \in Nat /\ tr.since \in Nat
    BY OwnDocs DEF UsersInv, GateTypes, TestTypes
  <2>1. fseq[d] <= tr.since => tr.docs[d] = feed[d]
    BY DEF TrackOK, PollOK
  <2>2. Longpoll \/ Continuous
    <3>1. tr' # tr
      OBVIOUS
    <3>2. CASE WorkStep \/ (\E bulk \in BOOLEAN : AddDocs(bulk))
               \/ (\E num \in NumRevs \cup TrackedRevs : UpdateDocs(num))
               \/ AddFin \/ (\E ig \in BOOLEAN : VerifyChanges(ig)) \/ VerifySameDocs
               \/ FallBehind \/ CatchUp \/ TakeDbOffline \/ BringDbOnline
      <4>1. tr' = tr
        BY <3>2 DEF WorkStep, AddDoc, UpdateGet, UpdatePut, AddBulkDocs, UserCallEnds, UserOutcome,
                    VerifyUser, InParallelEnds, AddDocs, UpdateDocs, AddFin, VerifyChanges,
                    VerifySameDocs, FallBehind, CatchUp, TakeDbOffline, BringDbOnline
      <4> QED
        BY <3>1, <4>1
    <3>3. CASE TrackerStops
      BY <3>3 DEF TrackerStops, UsersInv, TestTypes
    <3> QED
      BY <3>2, <3>3 DEF UsersNext, StartTracking
  <2>3. CASE Longpoll
    <3>1. tr'.docs = Stored(BeforeFin)
      BY <2>3, PollAnswer
    <3>2. CASE fseq[d] > tr.since
      BY <2>0, <3>1, <3>2 DEF Stored, BeforeFin, Newer
    <3>3. CASE fseq[d] <= tr.since
      BY <2>0, <2>1, <3>1, <3>3 DEF Stored
    <3> QED
      BY <2>0, <3>2, <3>3
  <2>4. CASE Continuous
    <3>1. Fin \in Newer /\ (\A e \in Newer : fseq[Fin] <= fseq[e]) /\ tr'.docs = tr.docs
      BY <2>4, NextChange
    <3>2. d \notin Newer
      BY <2>0, <3>1
    <3>3. fseq[d] <= tr.since
      BY <2>0, <3>2 DEF Newer
    <3> QED
      BY <2>1, <3>1, <3>3
  <2> QED
    BY <2>2, <2>3, <2>4
<1>4. UsersSpec => [](VerifierInv /\ TrackOK)
  BY <1>1, <1>2, UsersInvAlways, PTL DEF UsersSpec
<1>5. UsersSpec => [][Told]_usersVars
  BY <1>3, <1>4, UsersInvAlways, PTL DEF UsersSpec
<1> QED
  BY <1>5 DEF TrackedAll


-----------------------------------------------------------------------------
(* What holds between the steps of a script                                *)

\* The steps of a script, and those that an operation has still to take.
StepsOf(s) == {s[i] : i \in DOMAIN s}
Left == StepsOf(call.todo)

AllSteps ==
    {"supported", "have", "fetch", "emulator", "try_uninstall_s", "install_loop", "listed",
     "real_device", "pool_id", "install_s", "uninstall_s", "adb", "open_log", "launch",
     "reachable", "adb_s", "force_stop_s", "clear_s", "close_log", "home", "get_zip", "unpack",
     "try_osascript", "try_copy_log", "install_and_launch", "sim_install", "springboard", "sim_id",
     "ios_uninstall", "unlisted", "kill_simulator", "erase", "note_log", "launch_bundle", "running",
     "wipe", "try_kill", "service_install", "service_start", "clean", "kill", "run",
     "list_processes", "kill_on_host", "not_running", "attribute_error", "flush_log", "kill_process",
     "version", "spawn", "install", "type_error", "uninstall", "force_stop", "clear", "admin",
     "put_start", "if_running", "put_stop", "copy_log", "osascript", "service_remove",
     "no_such_file"}

\* What an order of two steps is needed for: the version is compared right after the wait for
\* the port, at the end; nothing but put_stop is skipped.
Follows(s) == \A i \in DOMAIN s :
    /\ s[i] = "if_running" => i + 1 \in DOMAIN s /\ s[i + 1] = "put_stop"
    /\ (IsLiteServ /\ s[i] = "reachable") => Len(s) = i + 1 /\ s[i + 1] = "version"

\* The types of AppTypeOK, with those of the operation under way.
Objects == [want : Versions, named : Versions, id : BOOLEAN, here : BOOLEAN, ctl : BOOLEAN,
            log : BOOLEAN, proc : {None, "app", "other", "logcat", "dead"}, did : 0..3]
Apps    == [v : Found, mine : BOOLEAN]
Devices == [v : Found, dirty : BOOLEAN]
Calls   == [op : Operations \union {None}, todo : Seq(AllSteps), tries : 0..1, resp : Found]

AppTypes ==
    /\ kind \in Kinds /\ jobs \in 1..MaxJobs /\ obj \in Objects /\ disk \in [Slots -> Found]
    /\ device \in Devices /\ app \in Apps /\ port \in Found /\ call \in Calls
    /\ last \in [op : Operations \union {None}, ok : BOOLEAN]

\* The operation under way goes through its script.
CallOK ==
    /\ Follows(call.todo)
    /\ IF Idle THEN call.todo = <<>>
       ELSE call.op \in DOMAIN Scripts /\ Left \subseteq StepsOf(Scripts[call.op])

\* The port is that of the process.
PortOK == /\ port \in {None, app.v} /\ (app.v = None => ~app.mine /\ port = None)

Local == {"lite-macosx", "lite-net-mono"}

\* The handle of a local process.
HandleOK == kind \in Local /\ app.mine => obj.proc \in {"app", "other"}

Killers == {"kill", "force_stop", "force_stop_s"}

\* What a stop has done, up to the steps L.
StopDone(L) ==
    /\ kind \in Stopping \ Local => L \cap Killers # {} \/ app.v = None
    /\ kind \in Local => "kill_process" \in L \/ ~app.mine \/ obj.proc = "other"
    /\ kind = "lite-ios" => "not_running" \in L \/ port = None
    /\ Class = "Android" => "clear_s" \in L \/ ~device.dirty

StopsOK == (call.op = "stop" => StopDone(Left)) /\ (Returned("stop") => StopDone({}))

Starts == {"start", "start_device"}

\* What the start of a LiteServ has seen, up to the steps L.
AnswerDone(L) == IsLiteServ =>
    /\ "reachable" \in L \/ (L \subseteq {"version"} /\ app.v \in {None, call.resp})
    /\ "version" \in L \/ app.v \in {None, obj.want}

AnswerOK ==
    /\ call.op \in Starts => AnswerDone(Left)
    /\ (IsLiteServ /\ (Returned("start") \/ Returned("start_device"))) => app.v \in {None, obj.want}

\* What is started on the platforms that replace everything.
Target == IF Class = "JavaWS" THEN device.v ELSE disk[Slot]
iOSInstalls == {"sim_install", "install_and_launch"}

ChainOK == kind \in Replacing =>
    /\ kind = "ios" => \A v \in Versions : disk[v] \in {None, v}
    /\ Class \in {"Java", "JavaWS"} => obj.want = obj.named
    /\ (call.op # "download" /\ obj.did >= 1) => disk[Slot] = obj.want
    /\ (call.op = "download" /\ obj.want = obj.named) =>
          Left \cap {"unpack", "fetch"} # {} \/ disk[Slot] = obj.want
    /\ (Class = "JavaWS" /\ call.op \notin {"download", "install"} /\ obj.did >= 2) => device.v = obj.want
    /\ (Class = "JavaWS" /\ call.op = "install") => "service_install" \in Left \/ device.v = disk[Slot]
    /\ (Class # "iOS" /\ call.op \in Starts) =>
          "try_kill" \in Left \/ app.v \in {None, Target} \/ obj.did = 0
    /\ (Class = "iOS" /\ call.op \in {"install", "install_device"}) =>
          Left \cap iOSInstalls # {} \/ (device.v = disk[Slot] /\ app.v \in {None, disk[Slot]})
    /\ (Class = "iOS" /\ (Idle \/ call.op \in Starts) /\ obj.did >= 2) =>
          device.v = obj.want /\ app.v \in {None, obj.want}
    /\ (Idle /\ obj.did = 3) => app.v \in {None, obj.want}
    /\ (Class \in {"Java", "JavaWS"} /\ call.op = "download") =>
          call.todo \in {<<"wipe", "fetch">>, <<"fetch">>, <<>>}

AppInv == AppTypes /\ CallOK /\ PortOK /\ HandleOK /\ StopsOK /\ AnswerOK /\ ChainOK

-----------------------------------------------------------------------------
(* Scripts are sequences                                                   *)

LEMMA SameSeq ==
    ASSUME NEW S, NEW s \in Seq(S), NEW t \in Seq(S), Len(s) = Len(t),
           \A i \in 1..Len(s) : s[i] = t[i]
    PROVE  s = t
OBVIOUS

\* Scripts that are put together of two.
LEMMA Join11 ==
    ASSUME NEW a, NEW b
    PROVE  <<a>> \o <<b>> = <<a, b>>
<1> DEFINE S == {a, b}
           s == <<a>> \o <<b>>
           t == <<a, b>>
<1>1. Len(s) = 2 /\ s \in Seq(S) /\ s[1] = a /\ s[2] = b
  OBVIOUS
<1>2. Len(t) = 2 /\ t \in Seq(S) /\ t[1] = a /\ t[2] = b
  OBVIOUS
<1> HIDE DEF s, t, S
<1>3. \A i \in 1..2 : s[i] = t[i]
  BY <1>1, <1>2
<1>4. s = t
  BY <1>1, <1>2, <1>3, SameSeq
<1> QED
  BY <1>4 DEF s, t

LEMMA Join22 ==
    ASSUME NEW a, NEW b, NEW c, NEW d
    PROVE  <<a, b>> \o <<c, d>> = <<a, b, c, d>>
<1> DEFINE S == {a, b, c, d}
           s == <<a, b>> \o <<c, d>>
           t == <<a, b, c, d>>
<1>1. Len(s) = 4 /\ s \in Seq(S) /\ s[1] = a /\ s[2] = b /\ s[3] = c /\ s[4] = d
  OBVIOUS
<1>2. Len(t) = 4 /\ t \in Seq(S) /\ t[1] = a /\ t[2] = b /\ t[3] = c /\ t[4] = d
  OBVIOUS
<1> HIDE DEF s, t, S
<1>3. \A i \in 1..4 : s[i] = t[i]
  BY <1>1, <1>2
<1>4. s = t
  BY <1>1, <1>2, <1>3, SameSeq
<1> QED
  BY <1>4 DEF s, t

LEMMA Join42 ==
    ASSUME NEW a, NEW b, NEW c, NEW d, NEW e, NEW f
    PROVE  <<a, b, c, d>> \o <<e, f>> = <<a, b, c, d, e, f>>
<1> DEFINE S == {a, b, c, d, e, f}
           s == <<a, b, c, d>> \o <<e, f>>
           t == <<a, b, c, d, e, f>>
<1>1. Len(s) = 6 /\ s \in Seq(S) /\ s[1] = a /\ s[2] = b /\ s[3] = c /\ s[4] = d /\ s[5] = e /\ s[6] = f
  OBVIOUS
<1>2. Len(t) = 6 /\ t \in Seq(S) /\ t[1] = a /\ t[2] = b /\ t[3] = c /\ t[4] = d /\ t[5] = e /\ t[6] = f
  OBVIOUS
<1> HIDE DEF s, t, S
<1>3. \A i \in 1..6 : s[i] = t[i]
  BY <1>1, <1>2
<1>4. s = t
  BY <1>1, <1>2, <1>3, SameSeq
<1> QED
  BY <1>4 DEF s, t

LEMMA Join52 ==
    ASSUME NEW a, NEW b, NEW c, NEW d, NEW e, NEW f, NEW g
    PROVE  <<a, b, c, d, e>> \o <<f, g>> = <<a, b, c, d, e, f, g>>
<1> DEFINE S == {a, b, c, d, e, f, g}
           s == <<a, b, c, d, e>> \o <<f, g>>
           t == <<a, b, c, d, e, f, g>>
<1>1. Len(s) = 7 /\ s \in Seq(S) /\ s[1] = a /\ s[2] = b /\ s[3] = c /\ s[4] = d /\ s[5] = e /\ s[6] = f /\ s[7] = g
  OBVIOUS
<1>2. Len(t) = 7 /\ t \in Seq(S) /\ t[1] = a /\ t[2] = b /\ t[3] = c /\ t[4] = d /\ t[5] = e /\ t[6] = f /\ t[7] = g
  OBVIOUS
<1> HIDE DEF s, t, S
<1>3. \A i \in 1..7 : s[i] = t[i]
  BY <1>1, <1>2
<1>4. s = t
  BY <1>1, <1>2, <1>3, SameSeq
<1> QED
  BY <1>4 DEF s, t

\* A script that an operation can go through.
Script(s) == s \in Seq(AllSteps) /\ Follows(s)

\* Steps that nothing has to follow.
Plain == {a \in AllSteps : a # "if_running" /\ ~(IsLiteServ /\ a = "reachable")}

LEMMA PlainScripts ==
    ASSUME NEW a \in Plain, NEW b \in Plain, NEW c \in Plain, NEW d \in Plain, NEW e \in Plain,
           NEW f \in Plain
    PROVE  /\ Script(<<>>) /\ Script(<<a>>) /\ Script(<<a, b>>) /\ Script(<<a, b, c>>)
           /\ Script(<<a, b, c, d>>) /\ Script(<<a, b, c, d, e>>) /\ Script(<<a, b, c, d, e, f>>)
<1>1. \A x \in Plain : x \in AllSteps /\ x # "if_running" /\ ~(IsLiteServ /\ x = "reachable")
  BY DEF Plain
<1> HIDE DEF Plain, AllSteps
<1>2. /\ <<>> \in Seq(AllSteps) /\ <<a>> \in Seq(AllSteps) /\ <<a, b>> \in Seq(AllSteps)
      /\ <<a, b, c>> \in Seq(AllSteps) /\ <<a, b, c, d>> \in Seq(AllSteps)
      /\ <<a, b, c, d, e>> \in Seq(AllSteps) /\ <<a, b, c, d, e, f>> \in Seq(AllSteps)
  BY <1>1
<1>3. Follows(<<>>) /\ Follows(<<a>>) /\ Follows(<<a, b>>) /\ Follows(<<a, b, c>>)
  BY <1>1 DEF Follows
<1>4. Follows(<<a, b, c, d>>) /\ Follows(<<a, b, c, d, e>>) /\ Follows(<<a, b, c, d, e, f>>)
  BY <1>1 DEF Follows
<1> QED
  BY <1>2, <1>3, <1>4 DEF Script

LEMMA PlainOnes ==
    /\ Script(<<>>) /\ \A a \in Plain : Script(<<a>>)
    /\ \A a, b \in Plain : Script(<<a, b>>)
    /\ \A a, b, c \in Plain : Script(<<a, b, c>>)
    /\ \A a, b, c, d \in Plain : Script(<<a, b, c, d>>)
    /\ \A a, b, c, d, e \in Plain : Script(<<a, b, c, d, e>>)
    /\ \A a, b, c, d, e, f \in Plain : Script(<<a, b, c, d, e, f>>)
<1>1. "adb" \in Plain
  BY DEF Plain, AllSteps
<1> HIDE DEF Plain, Script
<1> QED
  BY <1>1, PlainScripts, Zenon

\* Going on to the next step.
LEMMA NextStep ==
    ASSUME NEW s \in Seq(AllSteps), s # <<>>
    PROVE  /\ Tail(s) \in Seq(AllSteps) /\ Head(s) \in StepsOf(s)
           /\ StepsOf(Tail(s)) \subseteq StepsOf(s)
           /\ StepsOf(s) \subseteq StepsOf(Tail(s)) \union {Head(s)}
           /\ Follows(s) => Follows(Tail(s))
           /\ (Follows(s) /\ Head(s) = "if_running") => Tail(s) # <<>> /\ Head(Tail(s)) = "put_stop"
           /\ (Follows(s) /\ IsLiteServ /\ Head(s) = "reachable") => StepsOf(Tail(s)) = {"version"}
<1> DEFINE t == Tail(s)
           n == Len(s)
<1>1. /\ n \in Nat \ {0} /\ DOMAIN s = 1..n /\ t \in Seq(AllSteps) /\ Len(t) = n - 1 /\ Head(s) = s[1]
      /\ DOMAIN t = 1..(n - 1) /\ \A i \in 1..(n - 1) : t[i] = s[i + 1]
  <2> HIDE DEF AllSteps
  <2> QED OBVIOUS
<1> HIDE DEF t, n
<1>2. Head(s) \in StepsOf(s)
  BY <1>1 DEF StepsOf
<1>3. StepsOf(t) \subseteq StepsOf(s)
  BY <1>1 DEF StepsOf
<1>4. StepsOf(s) \subseteq StepsOf(t) \union {Head(s)}
  <2> SUFFICES ASSUME NEW i \in 1..n, i # 1 PROVE s[i] \in StepsOf(t)
    BY <1>1 DEF StepsOf
  <2>1. i - 1 \in 1..(n - 1) /\ t[i - 1] = s[i]
    BY <1>1
  <2> QED
    BY <1>1, <2>1 DEF StepsOf
<1>5. ASSUME Follows(s) PROVE Follows(t)
  <2> SUFFICES ASSUME NEW i \in 1..(n - 1)
               PROVE  /\ t[i] = "if_running" => i + 1 \in DOMAIN t /\ t[i + 1] = "put_stop"
                      /\ (IsLiteServ /\ t[i] = "reachable") => Len(t) = i + 1 /\ t[i + 1] = "version"
    BY <1>1 DEF Follows
  <2>1. i + 1 \in 1..n /\ t[i] = s[i + 1]
    BY <1>1
  <2>2. s[i + 1] = "if_running" => (i + 1) + 1 \in 1..n /\ s[(i + 1) + 1] = "put_stop"
    BY <1>1, <1>5, <2>1 DEF Follows
  <2>3. (IsLiteServ /\ s[i + 1] = "reachable") => n = (i + 1) + 1 /\ s[(i + 1) + 1] = "version"
    BY <1>1, <1>5, <2>1 DEF Follows, n
  <2> QED
    BY <1>1, <2>1, <2>2, <2>3
<1>6. ASSUME Follows(s), Head(s) = "if_running" PROVE t # <<>> /\ Head(t) = "put_stop"
  <2>0. 1 \in DOMAIN s /\ s[1] = "if_running"
    BY <1>1, <1>6
  <2>a. 1 + 1 \in DOMAIN s /\ s[1 + 1] = "put_stop"
    BY <1>6, <2>0 DEF Follows
  <2>1. 2 \in 1..n /\ s[2] = "put_stop"
    BY <1>1, <2>a
  <2>2. Len(t) # 0 /\ t[1] = "put_stop"
    BY <1>1, <2>1
  <2>3. Head(t) = t[1] /\ t # <<>>
    BY <1>1, <2>2
  <2> QED
    BY <2>2, <2>3
<1>7. ASSUME Follows(s), IsLiteServ, Head(s) = "reachable" PROVE StepsOf(t) = {"version"}
  <2>0. 1 \in DOMAIN s /\ s[1] = "reachable"
    BY <1>1, <1>7
  <2>a. Len(s) = 1 + 1 /\ s[1 + 1] = "version"
    BY <1>7, <2>0 DEF Follows
  <2>1. n = 2 /\ s[2] = "version"
    BY <2>a DEF n
  <2>2. DOMAIN t = 1..1 /\ t[1] = "version"
    BY <1>1, <2>1
  <2> QED
    BY <2>2 DEF StepsOf
<1> QED
  BY <1>1, <1>2, <1>3, <1>4, <1>5, <1>6, <1>7 DEF t

-----------------------------------------------------------------------------
(* Classes and their scripts                                               *)

LiteClasses == {"LiteAndroid", "LiteiOS", "LiteMacOSX", "LiteNetMono", "LiteNetMsft"}
TestClasses == {"Android", "iOS", "Java", "JavaWS", "Cpp", "NetMsft", "NetMono"}

\* Every platform has a class, and which one.
LEMMA ClassOf ==
    ASSUME kind \in Kinds
    PROVE  /\ Class \in LiteClasses \union TestClasses
           /\ IsLiteServ <=> Class \in LiteClasses
<1>1. TestServerClass(kind) # None \/ LiteServClass(kind) # None
  BY AppAssumption
<1>2. LiteServClass(kind) \in LiteClasses \union {None}
  BY DEF LiteServClass, LiteClasses, None
<1>3. TestServerClass(kind) \in TestClasses \union {None}
  BY DEF TestServerClass, TestClasses, None
<1>4. None \notin LiteClasses /\ None \notin TestClasses /\ LiteClasses \cap TestClasses = {}
  BY DEF LiteClasses, TestClasses, None
<1> QED
  BY <1>1, <1>2, <1>3, <1>4 DEF Class, IsLiteServ

\* The platforms that the properties name.
LEMMA ClassesNamed ==
    /\ (Class = "Android" /\ ~IsLiteServ) => kind \in Stopping \ Local
    /\ kind \in Replacing => Class \in {"iOS", "Java", "JavaWS"} /\ kind # "java-msft" /\ kind # "javaws-msft"
    /\ kind \in Replacing => (Class = "iOS" <=> kind \in {"ios", "xamarin-ios", "c-ios"})
    /\ kind \in Stopping \ Local => Class \in {"Android", "NetMsft", "LiteAndroid", "LiteNetMsft"}
    /\ (kind \in Stopping /\ Class = "NetMsft") => kind = "c-msft"
    /\ (kind = "lite-ios" <=> Class = "LiteiOS")
    /\ (kind \in Local <=> Class \in {"LiteMacOSX", "LiteNetMono"})
<1>1. Class = "Android" /\ ~IsLiteServ => kind \in Stopping \ Local
  BY DEF Class, IsLiteServ, LiteServClass, TestServerClass, None, Stopping, Local
<1>2. kind \in Replacing => Class \in {"iOS", "Java", "JavaWS"} /\ kind # "java-msft" /\ kind # "javaws-msft"
  BY DEF Class, IsLiteServ, LiteServClass, TestServerClass, None, Replacing
<1>3. kind \in Replacing => (Class = "iOS" <=> kind \in {"ios", "xamarin-ios", "c-ios"})
  BY DEF Class, IsLiteServ, LiteServClass, TestServerClass, None, Replacing
<1>4. kind \in Stopping \ Local => Class \in {"Android", "NetMsft", "LiteAndroid", "LiteNetMsft"}
  BY DEF Class, IsLiteServ, LiteServClass, TestServerClass, None, Stopping, Local
<1>5. (kind \in Stopping /\ Class = "NetMsft") => kind = "c-msft"
  BY DEF Class, IsLiteServ, LiteServClass, TestServerClass, None, Stopping
<1>6. kind = "lite-ios" <=> Class = "LiteiOS"
  BY DEF Class, IsLiteServ, LiteServClass, TestServerClass, None
<1>7. kind \in Local <=> Class \in {"LiteMacOSX", "LiteNetMono"}
  BY DEF Class, IsLiteServ, LiteServClass, TestServerClass, None, Local
<1> QED
  BY <1>1, <1>2, <1>3, <1>4, <1>5, <1>6, <1>7

\* An operation of the class goes through a script.
ScriptsOK == \A op \in DOMAIN Scripts : op \in Operations /\ Script(Scripts[op])

LEMMA AndroidScripts ==
    ASSUME Class = "Android", ~IsLiteServ
    PROVE  ScriptsOK
<1>1. Scripts = [download |-> AndroidDownload, install |-> AndroidInstall,
               install_device |-> AndroidInstallDevice, remove |-> AndroidRemove,
               start |-> AndroidStart, start_device |-> AndroidStartDevice,
               stop |-> AndroidStop, close_app |-> AndroidCloseApp, open_app |-> AndroidOpenApp]
  BY DEF Scripts
<1>2. {"adb", "adb_s", "clear_s", "close_log", "emulator", "fetch", "force_stop_s", "have",
            "home", "install_loop", "install_s", "launch", "listed", "open_log", "pool_id",
            "reachable", "real_device", "supported", "try_uninstall_s", "uninstall_s"} \subseteq Plain
  BY DEF Plain, AllSteps
<1>3. Script(AndroidDownload)
  BY <1>2, PlainOnes DEF AndroidDownload
<1>4. Script(AndroidInstall)
  BY <1>2, PlainOnes DEF AndroidInstall
<1>5. Script(AndroidInstallDevice)
  BY <1>2, PlainOnes DEF AndroidInstallDevice
<1>6. Script(AndroidRemove)
  BY <1>2, PlainOnes DEF AndroidRemove
<1>7. Script(AndroidStart)
  BY <1>2, PlainOnes DEF AndroidStart
<1>8. Script(AndroidStartDevice)
  BY <1>2, PlainOnes DEF AndroidStartDevice
<1>9. Script(AndroidStop)
  BY <1>2, PlainOnes DEF AndroidStop
<1>10. Script(AndroidCloseApp)
  BY <1>2, PlainOnes DEF AndroidCloseApp
<1>11. Script(AndroidOpenApp)
  BY <1>2, PlainOnes DEF AndroidOpenApp
<1> QED
  BY <1>1, <1>3, <1>4, <1>5, <1>6, <1>7, <1>8, <1>9, <1>10, <1>11 DEF ScriptsOK, Operations

LEMMA iOSScripts ==
    ASSUME Class = "iOS", ~IsLiteServ
    PROVE  ScriptsOK
<1>1. Scripts = [download |-> iOSDownload, install |-> iOSInstall,
               install_device |-> iOSInstallDevice, remove |-> iOSRemove,
               remove_device |-> iOSRemoveDevice, start |-> iOSStart,
               start_device |-> iOSStartDevice, stop |-> iOSStop, close_app |-> iOSCloseApp,
               open_app |-> iOSOpenApp]
  BY DEF Scripts
<1>2. {"erase", "get_zip", "have", "install_and_launch", "ios_uninstall", "kill_simulator",
            "launch", "launch_bundle", "listed", "note_log", "reachable", "running", "sim_id",
            "sim_install", "springboard", "try_copy_log", "try_osascript", "unlisted", "unpack",
            "no_such_file"} \subseteq Plain
  BY DEF Plain, AllSteps
<1>3. Script(iOSDownload)
  BY <1>2, PlainOnes DEF iOSDownload
<1>4. Script(iOSInstall)
  BY <1>2, PlainOnes DEF iOSInstall
<1>5. Script(iOSInstallDevice)
  <2>a. iOSStop = <<"try_osascript", "try_copy_log">>
    BY Join11 DEF iOSStop, iOSCloseApp
  <2>1. iOSInstallDevice = <<"install_and_launch", "listed", "try_osascript", "try_copy_log">>
    BY <2>a, Join22 DEF iOSInstallDevice
  <2> QED
    BY <1>2, <2>1, PlainOnes
<1>6. Script(iOSRemove)
  <2>a. iOSStop = <<"try_osascript", "try_copy_log">>
    BY Join11 DEF iOSStop, iOSCloseApp
  <2>1. iOSRemove = <<"try_osascript", "try_copy_log", "kill_simulator", "erase">>
    BY <2>a, Join22 DEF iOSRemove
  <2> QED
    BY <1>2, <2>1, PlainOnes
<1>7. Script(iOSRemoveDevice)
  <2>1. CASE obj.ctl
    BY <1>2, <2>1, PlainOnes DEF iOSRemoveDevice
  <2>2. CASE ~obj.ctl
    BY <1>2, <2>2, PlainOnes DEF iOSRemoveDevice
  <2> QED
    BY <2>1, <2>2
<1>8. Script(iOSStart)
  BY <1>2, PlainOnes DEF iOSStart
<1>9. Script(iOSStartDevice)
  BY <1>2, PlainOnes DEF iOSStartDevice
<1>10. Script(iOSStop)
  <2>1. iOSStop = <<"try_osascript", "try_copy_log">>
    BY Join11 DEF iOSStop, iOSCloseApp
  <2> QED
    BY <1>2, <2>1, PlainOnes
<1>11. Script(iOSCloseApp)
  BY <1>2, PlainOnes DEF iOSCloseApp
<1>12. Script(iOSOpenApp)
  BY <1>2, PlainOnes DEF iOSOpenApp
<1> QED
  BY <1>1, <1>3, <1>4, <1>5, <1>6, <1>7, <1>8, <1>9, <1>10, <1>11, <1>12 DEF ScriptsOK, Operations

LEMMA JavaScripts ==
    ASSUME Class = "Java", ~IsLiteServ
    PROVE  ScriptsOK
<1>1. Scripts = [download |-> JavaDownload, install |-> JavaInstall, start |-> JavaStart,
               stop |-> JavaStop]
  BY DEF Scripts
<1>2. {"clean", "fetch", "kill", "reachable", "run", "service_install", "service_start",
            "try_kill", "wipe"} \subseteq Plain
  BY DEF Plain, AllSteps
<1>3. Script(JavaDownload)
  BY <1>2, PlainOnes DEF JavaDownload
<1>4. Script(JavaInstall)
  BY <1>2, PlainOnes DEF JavaInstall
<1>5. Script(JavaStart)
  BY <1>2, PlainOnes DEF JavaStart
<1>6. Script(JavaStop)
  BY <1>2, PlainOnes DEF JavaStop
<1> QED
  BY <1>1, <1>3, <1>4, <1>5, <1>6 DEF ScriptsOK, Operations

LEMMA JavaWSScripts ==
    ASSUME Class = "JavaWS", ~IsLiteServ
    PROVE  ScriptsOK
<1>1. Scripts = [download |-> JavaWSDownload, install |-> JavaWSInstall,
               start |-> JavaWSStart, stop |-> JavaWSStop]
  BY DEF Scripts
<1>2. {"clean", "fetch", "kill", "service_install", "service_start", "try_kill", "wipe"} \subseteq Plain
  BY DEF Plain, AllSteps
<1>3. Script(JavaWSDownload)
  BY <1>2, PlainOnes DEF JavaWSDownload
<1>4. Script(JavaWSInstall)
  BY <1>2, PlainOnes DEF JavaWSInstall
<1>5. Script(JavaWSStart)
  BY <1>2, PlainOnes DEF JavaWSStart
<1>6. Script(JavaWSStop)
  BY <1>2, PlainOnes DEF JavaWSStop
<1> QED
  BY <1>1, <1>3, <1>4, <1>5, <1>6 DEF ScriptsOK, Operations

LEMMA CppScripts ==
    ASSUME Class = "Cpp", ~IsLiteServ
    PROVE  ScriptsOK
<1>1. Scripts = [download |-> CppDownload, install |-> CppInstall, remove |-> CppRemove,
               start |-> CppStart, stop |-> CppStop]
  BY DEF Scripts
<1>2. {"fetch", "kill", "kill_on_host", "list_processes", "run", "wipe"} \subseteq Plain
  BY DEF Plain, AllSteps
<1>3. Script(CppDownload)
  BY <1>2, PlainOnes DEF CppDownload
<1>4. Script(CppInstall)
  BY <1>2, PlainOnes DEF CppInstall
<1>5. Script(CppRemove)
  BY <1>2, PlainOnes DEF CppRemove
<1>6. Script(CppStart)
  BY <1>2, PlainOnes DEF CppStart
<1>7. Script(CppStop)
  BY <1>2, PlainOnes DEF CppStop
<1> QED
  BY <1>1, <1>3, <1>4, <1>5, <1>6, <1>7 DEF ScriptsOK, Operations

LEMMA NetMsftScripts ==
    ASSUME Class = "NetMsft", ~IsLiteServ
    PROVE  ScriptsOK
<1>1. Scripts = [download |-> NetMsftDownload, install |-> NetMsftInstall,
               remove |-> NetMsftRemove, start |-> NetMsftStart, stop |-> NetMsftStop]
  BY DEF Scripts
<1>2. {"fetch", "have", "kill", "run", "try_kill", "wipe"} \subseteq Plain
  BY DEF Plain, AllSteps
<1>3. Script(NetMsftDownload)
  BY <1>2, PlainOnes DEF NetMsftDownload
<1>4. Script(NetMsftInstall)
  BY <1>2, PlainOnes DEF NetMsftInstall
<1>5. Script(NetMsftRemove)
  BY <1>2, PlainOnes DEF NetMsftRemove
<1>6. Script(NetMsftStart)
  BY <1>2, PlainOnes DEF NetMsftStart
<1>7. Script(NetMsftStop)
  BY <1>2, PlainOnes DEF NetMsftStop
<1> QED
  BY <1>1, <1>3, <1>4, <1>5, <1>6, <1>7 DEF ScriptsOK, Operations

LEMMA NetMonoScripts ==
    ASSUME Class = "NetMono", ~IsLiteServ
    PROVE  ScriptsOK
<1>1. Scripts = [download |-> NetMonoDownload, install |-> NetMonoInstall,
               remove |-> NetMonoRemove, start |-> NetMonoStart, stop |-> NetMonoStop]
  BY DEF Scripts
<1>2. {"attribute_error", "flush_log", "get_zip", "have", "kill_process", "not_running",
            "unpack"} \subseteq Plain
  BY DEF Plain, AllSteps
<1>3. Script(NetMonoDownload)
  BY <1>2, PlainOnes DEF NetMonoDownload
<1>4. Script(NetMonoInstall)
  BY <1>2, PlainOnes DEF NetMonoInstall
<1>5. Script(NetMonoRemove)
  BY <1>2, PlainOnes DEF NetMonoRemove
<1>6. Script(NetMonoStart)
  BY <1>2, PlainOnes DEF NetMonoStart
<1>7. Script(NetMonoStop)
  BY <1>2, PlainOnes DEF NetMonoStop
<1> QED
  BY <1>1, <1>3, <1>4, <1>5, <1>6, <1>7 DEF ScriptsOK, Operations

LEMMA LiteMacOSXScripts ==
    ASSUME Class = "LiteMacOSX", IsLiteServ
    PROVE  ScriptsOK
<1>1. Scripts = [download |-> LiteMacOSXDownload, install |-> LiteMacOSXInstall,
               remove |-> LiteMacOSXRemove, start |-> LiteMacOSXStart, stop |-> LiteMacOSXStop]
  BY DEF Scripts
<1>2. {"flush_log", "get_zip", "have", "kill_process", "not_running", "unpack"} \subseteq Plain
  BY DEF Plain, AllSteps
<1>3. Script(LiteMacOSXDownload)
  BY <1>2, PlainOnes DEF LiteMacOSXDownload
<1>4. Script(LiteMacOSXInstall)
  BY <1>2, PlainOnes DEF LiteMacOSXInstall
<1>5. Script(LiteMacOSXRemove)
  BY <1>2, PlainOnes DEF LiteMacOSXRemove
<1>6. Script(LiteMacOSXStop)
  BY <1>2, PlainOnes DEF LiteMacOSXStop
<1>7. Script(LiteMacOSXStart)
  <2>1. LiteMacOSXStart = <<"not_running", "spawn", "reachable", "version">>
    BY Join22 DEF LiteMacOSXStart, LiteMacOSXVerify
  <2>2. {"not_running", "spawn", "reachable", "version"} \subseteq AllSteps
    BY DEF AllSteps
  <2>3. LiteMacOSXStart \in Seq(AllSteps)
    <3> HIDE DEF AllSteps
    <3> QED BY <2>1, <2>2
  <2>4. Follows(LiteMacOSXStart)
    BY <2>1 DEF Follows
  <2> QED
    BY <2>3, <2>4 DEF Script
<1> QED
  BY <1>1, <1>3, <1>4, <1>5, <1>6, <1>7 DEF ScriptsOK, Operations

LEMMA LiteNetMonoScripts ==
    ASSUME Class = "LiteNetMono", IsLiteServ
    PROVE  ScriptsOK
<1>1. Scripts = [download |-> LiteNetMonoDownload, install |-> LiteNetMonoInstall,
               remove |-> LiteNetMonoRemove, start |-> LiteNetMonoStart,
               stop |-> LiteNetMonoStop]
  BY DEF Scripts
<1>2. {"flush_log", "get_zip", "have", "kill_process", "not_running", "unpack"} \subseteq Plain
  BY DEF Plain, AllSteps
<1>3. Script(LiteNetMonoDownload)
  BY <1>2, PlainOnes DEF LiteNetMonoDownload
<1>4. Script(LiteNetMonoInstall)
  BY <1>2, PlainOnes DEF LiteNetMonoInstall
<1>5. Script(LiteNetMonoRemove)
  BY <1>2, PlainOnes DEF LiteNetMonoRemove
<1>6. Script(LiteNetMonoStop)
  BY <1>2, PlainOnes DEF LiteNetMonoStop
<1>7. Script(LiteNetMonoStart)
  <2>1. LiteNetMonoStart = <<"not_running", "spawn", "reachable", "version">>
    BY Join22 DEF LiteNetMonoStart, LiteNetMonoVerify
  <2>2. {"not_running", "spawn", "reachable", "version"} \subseteq AllSteps
    BY DEF AllSteps
  <2>3. LiteNetMonoStart \in Seq(AllSteps)
    <3> HIDE DEF AllSteps
    <3> QED BY <2>1, <2>2
  <2>4. Follows(LiteNetMonoStart)
    BY <2>1 DEF Follows
  <2> QED
    BY <2>3, <2>4 DEF Script
<1> QED
  BY <1>1, <1>3, <1>4, <1>5, <1>6, <1>7 DEF ScriptsOK, Operations

LEMMA LiteAndroidScripts ==
    ASSUME Class = "LiteAndroid", IsLiteServ
    PROVE  ScriptsOK
<1>1. Scripts = [download |-> LiteAndroidDownload, install |-> LiteAndroidInstall,
               remove |-> LiteAndroidRemove, start |-> LiteAndroidStart,
               stop |-> LiteAndroidStop, close_app |-> LiteAndroidCloseApp]
  BY DEF Scripts
<1>2. {"clear", "fetch", "flush_log", "force_stop", "have", "home", "install", "not_running",
            "type_error", "uninstall"} \subseteq Plain
  BY DEF Plain, AllSteps
<1>3. Script(LiteAndroidDownload)
  BY <1>2, PlainOnes DEF LiteAndroidDownload
<1>4. Script(LiteAndroidInstall)
  BY <1>2, PlainOnes DEF LiteAndroidInstall
<1>5. Script(LiteAndroidRemove)
  BY <1>2, PlainOnes DEF LiteAndroidRemove
<1>6. Script(LiteAndroidStop)
  BY <1>2, PlainOnes DEF LiteAndroidStop
<1>7. Script(LiteAndroidCloseApp)
  BY <1>2, PlainOnes DEF LiteAndroidCloseApp
<1>8. Script(LiteAndroidStart)
  <2>1. LiteAndroidStart = <<"not_running", "adb", "open_log", "launch", "reachable", "version">>
    BY Join42 DEF LiteAndroidStart, LiteAndroidVerify
  <2>2. {"not_running", "adb", "open_log", "launch", "reachable", "version"} \subseteq AllSteps
    BY DEF AllSteps
  <2>3. LiteAndroidStart \in Seq(AllSteps)
    <3> HIDE DEF AllSteps
    <3> QED BY <2>1, <2>2
  <2>4. Follows(LiteAndroidStart)
    BY <2>1 DEF Follows
  <2> QED
    BY <2>3, <2>4 DEF Script
<1> QED
  BY <1>1, <1>3, <1>4, <1>5, <1>6, <1>7, <1>8 DEF ScriptsOK, Operations

LEMMA LiteiOSScripts ==
    ASSUME Class = "LiteiOS", IsLiteServ
    PROVE  ScriptsOK
<1>1. Scripts = [download |-> LiteiOSDownload, install |-> LiteiOSInstall,
               install_device |-> LiteiOSInstallDevice, remove |-> LiteiOSRemove,
               remove_device |-> LiteiOSRemoveDevice, start |-> LiteiOSStart,
               start_device |-> LiteiOSStartDevice, stop |-> LiteiOSStop,
               close_app |-> LiteiOSCloseApp, open_app |-> LiteiOSOpenApp]
  BY DEF Scripts
<1>2. {"get_zip", "install_and_launch", "ios_uninstall", "launch", "osascript", "sim_install",
            "type_error", "unpack"} \subseteq Plain
  BY DEF Plain, AllSteps
<1>3. Script(LiteiOSDownload)
  BY <1>2, PlainOnes DEF LiteiOSDownload
<1>4. Script(LiteiOSInstall)
  BY <1>2, PlainOnes DEF LiteiOSInstall
<1>5. Script(LiteiOSInstallDevice)
  BY <1>2, PlainOnes DEF LiteiOSInstallDevice
<1>6. Script(LiteiOSRemoveDevice)
  BY <1>2, PlainOnes DEF LiteiOSRemoveDevice
<1>7. Script(LiteiOSCloseApp)
  BY <1>2, PlainOnes DEF LiteiOSCloseApp
<1>8. Script(LiteiOSOpenApp)
  BY <1>2, PlainOnes DEF LiteiOSOpenApp
<1>9. Script(LiteiOSRemove)
  <2>1. LiteiOSRemove = <<"if_running", "put_stop", "copy_log", "not_running",
          "kill_simulator", "erase">>
    BY Join42 DEF LiteiOSRemove, LiteiOSStop
  <2>2. {"if_running", "put_stop", "copy_log", "not_running", "kill_simulator", "erase"} \subseteq AllSteps
    BY DEF AllSteps
  <2>3. LiteiOSRemove \in Seq(AllSteps)
    <3> HIDE DEF AllSteps
    <3> QED BY <2>1, <2>2
  <2>4. Follows(LiteiOSRemove)
    BY <2>1 DEF Follows
  <2> QED
    BY <2>3, <2>4 DEF Script
<1>10. Script(LiteiOSStart)
  <2>1. LiteiOSStart = <<"note_log", "launch_bundle", "not_running", "admin", "put_start",
          "reachable", "version">>
    BY Join52 DEF LiteiOSStart, LiteiOSVerify
  <2>2. {"note_log", "launch_bundle", "not_running", "admin", "put_start", "reachable",
          "version"} \subseteq AllSteps
    BY DEF AllSteps
  <2>3. LiteiOSStart \in Seq(AllSteps)
    <3> HIDE DEF AllSteps
    <3> QED BY <2>1, <2>2
  <2>4. Follows(LiteiOSStart)
    BY <2>1 DEF Follows
  <2> QED
    BY <2>3, <2>4 DEF Script
<1>11. Script(LiteiOSStartDevice)
  <2>1. LiteiOSStartDevice = <<"note_log", "launch_bundle", "not_running", "admin",
          "put_start", "reachable", "version">>
    BY Join52 DEF LiteiOSStartDevice, LiteiOSVerify
  <2>2. {"note_log", "launch_bundle", "not_running", "admin", "put_start", "reachable",
          "version"} \subseteq AllSteps
    BY DEF AllSteps
  <2>3. LiteiOSStartDevice \in Seq(AllSteps)
    <3> HIDE DEF AllSteps
    <3> QED BY <2>1, <2>2
  <2>4. Follows(LiteiOSStartDevice)
    BY <2>1 DEF Follows
  <2> QED
    BY <2>3, <2>4 DEF Script
<1>12. Script(LiteiOSStop)
  <2>1. LiteiOSStop = <<"if_running", "put_stop", "copy_log", "not_running">>
    BY DEF LiteiOSStop
  <2>2. {"if_running", "put_stop", "copy_log", "not_running"} \subseteq AllSteps
    BY DEF AllSteps
  <2>3. LiteiOSStop \in Seq(AllSteps)
    <3> HIDE DEF AllSteps
    <3> QED BY <2>1, <2>2
  <2>4. Follows(LiteiOSStop)
    BY <2>1 DEF Follows
  <2> QED
    BY <2>3, <2>4 DEF Script
<1> QED
  BY <1>1, <1>3, <1>4, <1>5, <1>6, <1>7, <1>8, <1>9, <1>10, <1>11, <1>12 DEF ScriptsOK, Operations

LEMMA LiteNetMsftScripts ==
    ASSUME Class = "LiteNetMsft", IsLiteServ
    PROVE  ScriptsOK
<1>1. Scripts = [download |-> LiteNetMsftDownload, install |-> LiteNetMsftInstall,
               remove |-> LiteNetMsftRemove, start |-> LiteNetMsftStart,
               stop |-> LiteNetMsftStop]
  BY DEF Scripts
<1>2. {"copy_log", "fetch", "have", "kill", "service_install", "service_remove", "wipe"} \subseteq Plain
  BY DEF Plain, AllSteps
<1>3. Script(LiteNetMsftDownload)
  BY <1>2, PlainOnes DEF LiteNetMsftDownload
<1>4. Script(LiteNetMsftInstall)
  BY <1>2, PlainOnes DEF LiteNetMsftInstall
<1>5. Script(LiteNetMsftRemove)
  BY <1>2, PlainOnes DEF LiteNetMsftRemove
<1>6. Script(LiteNetMsftStop)
  BY <1>2, PlainOnes DEF LiteNetMsftStop
<1>7. Script(LiteNetMsftStart)
  <2>1. LiteNetMsftStart = <<"not_running", "run", "reachable", "version">>
    BY Join22 DEF LiteNetMsftStart, LiteNetMsftVerify
  <2>2. {"not_running", "run", "reachable", "version"} \subseteq AllSteps
    BY DEF AllSteps
  <2>3. LiteNetMsftStart \in Seq(AllSteps)
    <3> HIDE DEF AllSteps
    <3> QED BY <2>1, <2>2
  <2>4. Follows(LiteNetMsftStart)
    BY <2>1 DEF Follows
  <2> QED
    BY <2>3, <2>4 DEF Script
<1> QED
  BY <1>1, <1>3, <1>4, <1>5, <1>6, <1>7 DEF ScriptsOK, Operations

LEMMA ScriptsAlways ==
    ASSUME kind \in Kinds
    PROVE  ScriptsOK
<1>1. Class \in LiteClasses \union TestClasses /\ (IsLiteServ <=> Class \in LiteClasses)
  BY ClassOf
<1>2. CASE Class \in LiteClasses
  BY <1>1, <1>2, LiteAndroidScripts, LiteiOSScripts, LiteMacOSXScripts, LiteNetMonoScripts,
     LiteNetMsftScripts DEF LiteClasses
<1>3. CASE Class \notin LiteClasses
  BY <1>1, <1>3, AndroidScripts, iOSScripts, JavaScripts, JavaWSScripts, CppScripts,
     NetMsftScripts, NetMonoScripts DEF TestClasses
<1> QED
  BY <1>2, <1>3

-----------------------------------------------------------------------------
(* What a step of a script does                                            *)

\* The operation ends: it raises, or it returns at the end of its script or since the package
\* is there.
EndsWith(ok) ==
    /\ call' = NoOperation /\ last' = [op |-> call.op, ok |-> ok]
    /\ obj' = [obj EXCEPT !.did = IF ok THEN Progress(call.op) ELSE 0]
    /\ UNCHANGED world
Ended ==
    \/ EndsWith(FALSE)
    \/ EndsWith(TRUE) /\ (call.todo = <<>> \/ (Step = "have" /\ disk[Slot] # None))

\* Or it goes on.
CallMoves ==
    /\ UNCHANGED <<kind, jobs, last>> /\ call' \in Calls /\ call'.op = call.op
    /\ \/ call'.todo = call.todo /\ Step \in {"install_loop", "put_stop"}
       \/ call'.todo = Tail(call.todo)
       \/ call'.todo = Tail(Tail(call.todo)) /\ Step = "if_running"
    /\ call'.resp = IF Step \in {"reachable", "admin"} THEN port ELSE call.resp

ObjectMoves ==
    /\ obj' \in Objects /\ obj'.want = obj.want /\ obj'.named = obj.named
    /\ obj'.here = obj.here /\ obj'.ctl = obj.ctl /\ obj'.did \in {obj.did, 0}
    /\ (Step = "try_kill" /\ call.op \in Starts) => app'.v = None \/ obj'.did = 0
    /\ Step = "spawn" => obj'.proc \in {"app", "other"}
    /\ Step \notin {"spawn", "open_log", "kill_process"} =>
          obj'.proc = obj.proc \/ (obj.proc = "logcat" /\ obj'.proc = None)
    /\ Step = "kill_process" =>
          IF obj.proc = "app" THEN app' = NoApp ELSE obj.proc # None /\ obj'.proc = obj.proc

DiskMoves ==
    /\ disk' \in [Slots -> Found]
    /\ disk' = CASE Step = "wipe" -> [s \in Slots |-> None]
                 [] Step \in {"fetch", "unpack"} -> [disk EXCEPT ![Slot] = Fetched]
                 [] OTHER -> disk
    /\ Step \in {"fetch", "unpack"} => CanFetch

Installers == {"install", "install_s", "install_loop", "sim_install", "service_install",
               "uninstall", "uninstall_s", "try_uninstall_s", "ios_uninstall", "service_remove",
               "erase", "launch_bundle", "install_and_launch"}

DeviceMoves ==
    /\ device' \in Devices /\ (device'.dirty => device.dirty)
    /\ Step \notin Installers => device'.v = device.v
    /\ Step \in {"service_install", "launch_bundle"} \union iOSInstalls => device'.v = disk[Slot]
    /\ Step = "clear_s" => ~device'.dirty

Starters == {"launch", "service_start", "run", "launch_bundle", "install_and_launch", "spawn",
             "put_start", "put_stop"}

AppMoves ==
    /\ app' \in Apps /\ port' \in Found /\ PortOK'
    /\ Step \notin Starters => (UNCHANGED <<app, port>> \/ (app' = NoApp /\ port' = None))
    /\ Step \in Killers => app' = NoApp
    /\ Step = "run" => app'.v \in {app.v, disk[Slot]} /\ (app.v # None => app' = app)
    /\ Step = "service_start" => app'.v \in {app.v, device.v} /\ (app.v # None => app' = app)
    /\ Step = "launch" => app'.v \in {app.v, device.v}
    /\ Step \in {"launch_bundle"} \union iOSInstalls => app'.v \in {None, disk[Slot]}
    /\ Step = "put_stop" => port' \in {None, port}
    /\ Step = "version" => call.resp = obj.want
    /\ Step = "not_running" => port = None
    /\ Step = "reachable" => port # None

Moved ==
    /\ call.todo # <<>> /\ Step = Head(call.todo)
    /\ CallMoves /\ ObjectMoves /\ DiskMoves /\ DeviceMoves /\ AppMoves

LEMMA SlotTyped ==
    ASSUME obj \in Objects
    PROVE  Slot \in Slots /\ Fetched \in Versions
BY DEF Objects, Slot, Slots, Fetched

\* Steps that leave the object and the machines alone.
LEMMA QuietMoves ==
    ASSUME AppTypes, PortOK, call.todo # <<>>, CallMoves, UNCHANGED <<obj, disk, device, app, port>>,
           Step \notin {"spawn", "kill_process", "wipe", "fetch", "unpack", "service_install",
                        "clear_s", "launch_bundle", "run", "service_start", "put_stop", "launch",
                        "try_kill"} \union Killers \union iOSInstalls,
           Step = "version" => call.resp = obj.want,
           Step = "not_running" => port = None,
           Step = "reachable" => port # None
    PROVE  Moved
<1>1. Step = Head(call.todo)
  BY DEF Step
<1>2. ObjectMoves /\ DeviceMoves
  BY DEF ObjectMoves, DeviceMoves, AppTypes, iOSInstalls
<1>3. DiskMoves
  BY DEF DiskMoves, AppTypes
<1>4. AppMoves
  BY DEF AppMoves, AppTypes, PortOK, iOSInstalls
<1> QED
  BY <1>1, <1>2, <1>3, <1>4 DEF Moved

\* The records of calls, for any set of scripts.
LEMMA CallFields ==
    ASSUME NEW O, NEW T, NEW N, NEW R, NEW c \in [op : O, todo : T, tries : N, resp : R],
           NEW t \in T, NEW n \in N, NEW r \in R
    PROVE  /\ c.op \in O /\ c.todo \in T /\ c.tries \in N /\ c.resp \in R
           /\ [c EXCEPT !.todo = t, !.tries = n] \in [op : O, todo : T, tries : N, resp : R]
           /\ [c EXCEPT !.todo = t, !.resp = r] \in [op : O, todo : T, tries : N, resp : R]
           /\ [c EXCEPT !.todo = t] \in [op : O, todo : T, tries : N, resp : R]
           /\ [c EXCEPT !.tries = n] \in [op : O, todo : T, tries : N, resp : R]
<1>1. c.op \in O /\ c.todo \in T /\ c.tries \in N /\ c.resp \in R
  OBVIOUS
<1>2. [c EXCEPT !.todo = t, !.tries = n] \in [op : O, todo : T, tries : N, resp : R]
  OBVIOUS
<1>3. [c EXCEPT !.todo = t, !.resp = r] \in [op : O, todo : T, tries : N, resp : R]
  OBVIOUS
<1>4. [c EXCEPT !.todo = t] \in [op : O, todo : T, tries : N, resp : R]
  OBVIOUS
<1>5. [c EXCEPT !.tries = n] \in [op : O, todo : T, tries : N, resp : R]
  OBVIOUS
<1> QED
  BY <1>1, <1>2, <1>3, <1>4, <1>5

\* Going on with the script.
LEMMA GoesMoves ==
    ASSUME AppTypes, call.todo # <<>>, Rest, Step \notin {"reachable", "admin"}, Goes
    PROVE  CallMoves
<1>1. Tail(call.todo) \in Seq(AllSteps)
  BY NextStep DEF AppTypes, Calls
<1>2. call' = [call EXCEPT !.todo = Tail(call.todo), !.tries = 0]
  BY DEF Goes
<1>a. call \in Calls
  BY DEF AppTypes
<1>b. call' \in Calls
  <2>1. 0 \in 0..1
    OBVIOUS
  <2> QED
    BY <1>a, <1>1, <1>2, <2>1, CallFields, Zenon DEF Calls
<1>3. call' \in Calls /\ call'.op = call.op /\ call'.todo = Tail(call.todo) /\ call'.resp = call.resp
  BY <1>a, <1>b, <1>2 DEF Calls
<1> QED
  BY <1>3 DEF CallMoves, Rest

\* Raising, returning, and going on after what a try block caught.
LEMMA CaughtForms ==
    ASSUME AppTypes, PortOK, Step # None, Caught
    PROVE  Ended \/ Moved
<1>1. CASE Step \in Soft
  <2>1. /\ Goes /\ Rest /\ UNCHANGED <<disk, device, app, port>> /\ call.todo # <<>>
        /\ obj' = IF Survives THEN [obj EXCEPT !.did = 0] ELSE obj
    BY <1>1 DEF Caught, AppAsIs, Step
  <2>2. CallMoves
    BY <1>1, <2>1, GoesMoves DEF Soft
  <2>3. CASE Step # "try_kill"
    <3>1. obj' = obj
      BY <2>1, <2>3 DEF Survives
    <3> QED
      BY <1>1, <2>1, <2>2, <2>3, <3>1, QuietMoves DEF Soft, Killers, iOSInstalls
  <2>4. CASE Step = "try_kill"
    <3>0. obj \in Objects /\ Step = Head(call.todo)
      BY <2>1 DEF AppTypes, Step
    <3>1. ObjectMoves
      <4>1. CASE Survives
        BY <2>1, <2>4, <3>0, <4>1 DEF ObjectMoves, Objects
      <4>2. CASE ~Survives
        BY <2>1, <2>4, <3>0, <4>2 DEF ObjectMoves, Survives, Starts
      <4> QED
        BY <4>1, <4>2
    <3>2. DiskMoves /\ DeviceMoves
      BY <2>1, <2>4 DEF DiskMoves, DeviceMoves, AppTypes, iOSInstalls
    <3>3. AppMoves
      BY <2>1, <2>4 DEF AppMoves, AppTypes, PortOK, Killers, Starters, iOSInstalls
    <3> QED
      BY <2>1, <2>2, <3>0, <3>1, <3>2, <3>3 DEF Moved
  <2> QED
    BY <2>3, <2>4
<1>2. CASE Step \notin Soft
  BY <1>2 DEF Caught, Raises, Ended, EndsWith
<1> QED
  BY <1>1, <1>2

\* Steps that look, and those without an effect.
LEMMA LookForms ==
    ASSUME AppTypes, PortOK, Finish \/ Check \/ Have \/ Silent \/ Impossible \/ Fails
    PROVE  Ended \/ Moved
<1>1. ASSUME Goes, Rest, UNCHANGED <<obj, disk, device, app, port>>, call.todo # <<>>,
             Step \notin {"reachable", "admin", "spawn", "kill_process", "wipe", "fetch", "unpack",
                 "service_install", "clear_s", "launch_bundle", "run", "service_start", "put_stop",
                 "launch", "try_kill"} \union Killers \union iOSInstalls,
             Step = "version" => call.resp = obj.want, Step = "not_running" => port = None
      PROVE  Moved
  BY <1>1, GoesMoves, QuietMoves
<1>2. Step # None => call.todo # <<>>
  BY DEF Step
<1>3. CASE Finish
  BY <1>3 DEF Finish, Returns, Ended, EndsWith
<1>4. CASE Check
  <2>1. CASE Passes(Step)
    <3>1. Goes /\ Rest /\ UNCHANGED <<obj, disk, device, app, port>> /\ Step \in Checks
      BY <1>4, <2>1 DEF Check
    <3>2. Step = "version" => call.resp = obj.want
      BY <2>1 DEF Passes
    <3>3. Step = "not_running" => port = None
      BY <2>1 DEF Passes
    <3>4. Step # None
      BY <3>1 DEF Checks, None
    <3> QED
      BY <1>1, <1>2, <3>1, <3>2, <3>3, <3>4 DEF Checks, Killers, iOSInstalls
  <2>2. CASE ~Passes(Step)
    BY <1>4, <2>2 DEF Check, Raises, Ended, EndsWith
  <2> QED
    BY <2>1, <2>2
<1>5. CASE Have
  <2>1. CASE disk[Slot] # None
    BY <1>5, <2>1 DEF Have, Returns, Ended, EndsWith
  <2>2. CASE disk[Slot] = None
    BY <1>1, <1>2, <1>5, <2>2 DEF Have, None, Killers, iOSInstalls
  <2> QED
    BY <2>1, <2>2
<1>6. CASE Silent
  BY <1>1, <1>2, <1>6 DEF Silent, Does, AppAsIs, None, Killers, iOSInstalls
<1>7. CASE Impossible \/ Fails
  BY <1>7, CaughtForms DEF Impossible, Fails
<1> QED
  BY <1>3, <1>4, <1>5, <1>6, <1>7

\* Steps that ask the application.
LEMMA AskForms ==
    ASSUME AppTypes, PortOK, Follows(call.todo), Reachable \/ IfRunning
    PROVE  Moved
<1>1. call \in Calls /\ port \in Found /\ call.todo \in Seq(AllSteps) /\ call.resp \in Found /\ 0 \in 0..1
  BY DEF AppTypes, Calls
<1>2. call.todo # <<>>
  BY DEF Reachable, IfRunning, Does, Step, None
<1>3. Tail(call.todo) \in Seq(AllSteps)
  BY <1>1, <1>2, NextStep
<1>4. CASE Reachable
  <2>1. /\ call' = [call EXCEPT !.todo = Tail(call.todo), !.resp = port] /\ Step \in {"reachable", "admin"}
        /\ Rest /\ UNCHANGED <<obj, disk, device, app, port>> /\ (Step = "reachable" => port # None)
    BY <1>4 DEF Reachable, Does, Ready, AppAsIs
  <2>2. call' \in Calls
    BY <1>1, <1>3, <2>1, CallFields, Zenon DEF Calls
  <2>3. call'.op = call.op /\ call'.todo = Tail(call.todo) /\ call'.resp = port
    BY <1>1, <2>1, <2>2 DEF Calls
  <2>4. CallMoves
    BY <2>1, <2>2, <2>3 DEF CallMoves, Rest
  <2> QED
    BY <1>2, <2>1, <2>4, QuietMoves DEF Killers, iOSInstalls
<1>5. CASE IfRunning
  <2>1. PICK t \in {Tail(call.todo), Tail(Tail(call.todo))} : call' = [call EXCEPT !.todo = t]
    BY <1>5 DEF IfRunning
  <2>2. Rest /\ UNCHANGED <<obj, disk, device, app, port>> /\ Step = "if_running"
    BY <1>5 DEF IfRunning, AppAsIs
  <2>3. Head(call.todo) = "if_running"
    BY <1>2, <2>2 DEF Step
  <2>4. Tail(Tail(call.todo)) \in Seq(AllSteps)
    BY <1>1, <1>2, <1>3, <2>3, NextStep
  <2>a. t \in Seq(AllSteps)
    BY <1>3, <2>1, <2>4
  <2>5. call' \in Calls
    BY <1>1, <2>1, <2>a, CallFields, Zenon DEF Calls
  <2>6. call'.op = call.op /\ call'.todo = t /\ call'.resp = call.resp
    BY <1>1, <2>1, <2>5 DEF Calls
  <2>7. CallMoves
    BY <2>1, <2>2, <2>5, <2>6 DEF CallMoves, Rest
  <2> QED
    BY <1>2, <2>2, <2>7, QuietMoves DEF Killers, iOSInstalls
<1> QED
  BY <1>4, <1>5

\* A step that goes on is one of the script.
LEMMA StepHead ==
    ASSUME Step # None
    PROVE  call.todo # <<>> /\ Step = Head(call.todo)
BY DEF Step

LEMMA AppFields ==
    ASSUME AppTypes
    PROVE  /\ NoApp \in Apps /\ NoApp.v = None /\ ~NoApp.mine /\ None \in Found
           /\ \A v \in Found : SetApp(v) => app' \in Apps /\ app'.v = v /\ (v = None => ~app'.mine)
<1>1. NoApp = [v |-> None, mine |-> FALSE] /\ None \in Found
  BY DEF NoApp, Found
<1>2. NoApp \in Apps /\ NoApp.v = None
  BY <1>1 DEF Apps
<1>3. ~NoApp.mine
  BY <1>1
<1>4. ASSUME NEW v \in Found, SetApp(v)
      PROVE  app' \in Apps /\ app'.v = v /\ (v = None => ~app'.mine)
  <2>1. CASE v = None
    BY <1>2, <1>3, <1>4, <2>1 DEF SetApp
  <2>2. CASE v # None
    <3>1. app' = [v |-> v, mine |-> TRUE]
      BY <1>4, <2>2 DEF SetApp
    <3> QED
      BY <1>4, <2>2, <3>1 DEF Apps
  <2> QED
    BY <2>1, <2>2
<1> QED
  BY <1>1, <1>2, <1>3, <1>4

\* Steps on the disk, the object and the processes.
LEMMA FetchForms ==
    ASSUME AppTypes, PortOK, Fetch \/ LearnId \/ Kill \/ Clean
    PROVE  Moved
<1>1. Step # None /\ Step \notin {"reachable", "admin"}
  BY DEF Fetch, LearnId, Kill, Clean, Does, None
<1>2. call.todo # <<>> /\ Step = Head(call.todo)
  BY <1>1, StepHead
<1>3. Goes /\ Rest
  BY DEF Fetch, LearnId, Kill, Clean
<1>4. CallMoves
  BY <1>1, <1>2, <1>3, GoesMoves
<1>5. CASE Fetch
  <2>1. /\ Step \in {"wipe", "get_zip", "fetch", "unpack"} /\ CanFetch /\ UNCHANGED <<obj, device, app, port>>
        /\ disk' = CASE Step = "wipe" -> [s \in Slots |-> None]
                     [] Step = "get_zip" -> disk
                     [] OTHER -> [disk EXCEPT ![Slot] = Fetched]
    BY <1>5 DEF Fetch, Does, Ready, AppAsIs
  <2>2. ObjectMoves /\ DeviceMoves
    BY <2>1 DEF ObjectMoves, DeviceMoves, AppTypes, iOSInstalls
  <2>3. AppMoves
    BY <2>1 DEF AppMoves, AppTypes, PortOK, Killers, Starters, iOSInstalls
  <2>4. Slot \in Slots /\ Fetched \in Found /\ None \in Found
    BY SlotTyped DEF AppTypes, Found
  <2>5. disk' \in [Slots -> Found]
    BY <2>1, <2>4 DEF AppTypes
  <2>6. DiskMoves
    BY <2>1, <2>5 DEF DiskMoves
  <2> QED
    BY <1>2, <1>4, <2>2, <2>3, <2>6 DEF Moved
<1>6. CASE LearnId
  <2>1. /\ Step \in {"pool_id", "sim_id"} /\ UNCHANGED <<disk, device, app, port>>
        /\ \E b \in BOOLEAN : obj' = [obj EXCEPT !.id = b]
    BY <1>6 DEF LearnId, AppAsIs, AppTypes, Objects
  <2>2. ObjectMoves
    BY <2>1 DEF ObjectMoves, AppTypes, Objects
  <2>3. DeviceMoves /\ DiskMoves
    BY <2>1 DEF DeviceMoves, DiskMoves, AppTypes, iOSInstalls
  <2>4. AppMoves
    BY <2>1 DEF AppMoves, AppTypes, PortOK, Killers, Starters, iOSInstalls
  <2> QED
    BY <1>2, <1>4, <2>2, <2>3, <2>4 DEF Moved
<1>7. CASE Kill
  <2>1. /\ Step \in {"kill", "try_kill", "kill_on_host", "force_stop", "force_stop_s", "kill_simulator"}
        /\ UNCHANGED <<obj, disk, device>>
        /\ (UNCHANGED <<app, port>> /\ Step = "kill_on_host") \/ (app' = NoApp /\ port' = None)
    BY <1>7 DEF Kill, Does, AppAsIs, AppGone
  <2>2. ObjectMoves /\ DeviceMoves /\ DiskMoves
    BY <2>1, AppFields DEF ObjectMoves, DeviceMoves, DiskMoves, AppTypes, iOSInstalls
  <2>3. AppMoves
    BY <2>1, AppFields DEF AppMoves, AppTypes, PortOK, Killers, Starters, iOSInstalls
  <2> QED
    BY <1>2, <1>4, <2>2, <2>3 DEF Moved
<1>8. CASE Clean
  <2>1. /\ Step \in {"clean", "clear", "clear_s"} /\ UNCHANGED <<obj, disk, app, port>>
        /\ device' = [device EXCEPT !.dirty = FALSE]
    BY <1>8 DEF Clean, Does, AppAsIs
  <2>2. ObjectMoves /\ DiskMoves
    BY <2>1 DEF ObjectMoves, DiskMoves, AppTypes
  <2>3. DeviceMoves
    BY <2>1 DEF DeviceMoves, AppTypes, Devices, iOSInstalls
  <2>4. AppMoves
    BY <2>1 DEF AppMoves, AppTypes, PortOK, Killers, Starters, iOSInstalls
  <2> QED
    BY <1>2, <1>4, <2>2, <2>3, <2>4 DEF Moved
<1> QED
  BY <1>5, <1>6, <1>7, <1>8

\* Steps that install and remove.
LEMMA InstallForms ==
    ASSUME AppTypes, PortOK, Install \/ Uninstall
    PROVE  Moved
<1>1. Step # None /\ Step \notin {"reachable", "admin"}
  BY DEF Install, Uninstall, Does, None
<1>2. call.todo # <<>> /\ Step = Head(call.todo)
  BY <1>1, StepHead
<1>3. disk[Slot] \in Found /\ None \in Found
  BY SlotTyped DEF AppTypes, Found
<1>4. UNCHANGED <<obj, disk>> /\ Rest /\ (UNCHANGED <<app, port>> \/ (app' = NoApp /\ port' = None))
  BY DEF Install, Uninstall, AppAsIs, AppGone
<1>5. Step \in {"install", "install_s", "install_loop", "sim_install", "service_install",
               "uninstall", "uninstall_s", "try_uninstall_s", "ios_uninstall", "service_remove", "erase"}
  BY DEF Install, Uninstall, Does
<1>a. Step \in iOSInstalls => app' = NoApp
  BY DEF Install, Uninstall, Does, AppGone, iOSInstalls
<1>6. ObjectMoves /\ DiskMoves
  BY <1>4, <1>5 DEF ObjectMoves, DiskMoves, AppTypes
<1>7. AppMoves
  BY <1>4, <1>5, <1>a, AppFields DEF AppMoves, AppTypes, PortOK, Killers, Starters
<1>8. CallMoves
  <2>1. CASE Goes
    BY <1>1, <1>2, <1>4, <2>1, GoesMoves
  <2>2. CASE UNCHANGED call /\ Step = "install_loop"
    BY <1>4, <2>2 DEF CallMoves, Rest, AppTypes
  <2> QED
    BY <2>1, <2>2 DEF Install, Uninstall
<1>9. DeviceMoves
  <2>1. CASE Install
    <3>1. device' = [device EXCEPT !.v = disk[Slot]] /\ device \in Devices
      BY <2>1 DEF Install, AppTypes
    <3> QED
      BY <1>3, <1>5, <3>1 DEF DeviceMoves, Devices, Installers, iOSInstalls
  <2>2. CASE Uninstall
    <3>1. /\ device' = device \/ device' = [v |-> None, dirty |-> Step = "service_remove" /\ device.dirty]
          /\ device \in Devices
      BY <2>2 DEF Uninstall, AppTypes
    <3>2. Step \in Installers \ ({"service_install", "clear_s", "launch_bundle"} \union iOSInstalls)
      BY <2>2 DEF Uninstall, Does, Installers, iOSInstalls
    <3>3. CASE device' = device
      BY <3>1, <3>2, <3>3 DEF DeviceMoves
    <3>4. CASE device' # device
      <4> DEFINE d == Step = "service_remove" /\ device.dirty
      <4>1. d \in BOOLEAN /\ (d => device.dirty)
        OBVIOUS
      <4>2. device' = [v |-> None, dirty |-> d]
        BY <3>1, <3>4
      <4> HIDE DEF d
      <4>3. device' \in Devices
        BY <1>3, <4>1, <4>2 DEF Devices
      <4>4. device'.dirty = d
        BY <4>2
      <4> QED
        BY <3>2, <4>1, <4>3, <4>4 DEF DeviceMoves
    <3> QED
      BY <3>3, <3>4
  <2> QED
    BY <2>1, <2>2
<1> QED
  BY <1>2, <1>6, <1>7, <1>8, <1>9 DEF Moved

\* Steps that start and end processes.
LEMMA LaunchForms ==
    ASSUME AppTypes, PortOK, Launch \/ LaunchBundle \/ Spawn \/ PutStart
    PROVE  Moved
<1>1. Step # None /\ Step \notin {"reachable", "admin"}
  BY DEF Launch, LaunchBundle, Spawn, PutStart, Does, None
<1>2. call.todo # <<>> /\ Step = Head(call.todo)
  BY <1>1, StepHead
<1>3. disk[Slot] \in Found /\ device.v \in Found /\ None \in Found
  BY SlotTyped DEF AppTypes, Found, Devices
<1>4. Goes /\ Rest /\ UNCHANGED disk
  BY DEF Launch, LaunchBundle, Spawn, PutStart
<1>5. CallMoves
  BY <1>1, <1>2, <1>4, GoesMoves
<1>6. Step \in {"launch", "service_start", "run", "launch_bundle", "install_and_launch", "spawn", "put_start"}
  BY DEF Launch, LaunchBundle, Spawn, PutStart, Does
<1>7. DiskMoves
  BY <1>4, <1>6 DEF DiskMoves, AppTypes
<1>8. CASE Launch
  <2>1. /\ Step \in {"launch", "service_start", "run"} /\ UNCHANGED <<obj, device, port>>
        /\ \/ app.v # None /\ app' = app
           \/ app.v = None /\ SetApp(IF Step = "run" THEN disk[Slot] ELSE device.v)
    BY <1>8 DEF Launch, Does
  <2>2. ObjectMoves /\ DeviceMoves
    BY <2>1 DEF ObjectMoves, DeviceMoves, AppTypes, iOSInstalls
  <2>3. app' \in Apps /\ PortOK'
    BY <1>3, <2>1, AppFields DEF AppTypes, PortOK
  <2>4. app.v = None => app'.v = IF Step = "run" THEN disk[Slot] ELSE device.v
    BY <1>3, <2>1, AppFields
  <2>5. AppMoves
    BY <2>1, <2>3, <2>4 DEF AppMoves, AppTypes, Killers, Starters, iOSInstalls
  <2> QED
    BY <1>2, <1>5, <1>7, <2>2, <2>5 DEF Moved
<1>9. CASE LaunchBundle
  <2>1. /\ Step \in {"launch_bundle", "install_and_launch"} /\ UNCHANGED obj /\ port' = None
        /\ device' = [device EXCEPT !.v = disk[Slot]]
        /\ SetApp(disk[Slot]) \/ (Step = "install_and_launch" /\ app' = NoApp)
    BY <1>9 DEF LaunchBundle, Does
  <2>2. ObjectMoves
    BY <2>1 DEF ObjectMoves, AppTypes
  <2>3. DeviceMoves
    BY <1>3, <2>1 DEF DeviceMoves, AppTypes, Devices, Installers, iOSInstalls
  <2>4. app' \in Apps /\ PortOK' /\ app'.v \in {None, disk[Slot]}
    BY <1>3, <2>1, AppFields DEF PortOK
  <2>5. AppMoves
    BY <1>3, <2>1, <2>4 DEF AppMoves, Killers, Starters, iOSInstalls
  <2> QED
    BY <1>2, <1>5, <1>7, <2>2, <2>3, <2>5 DEF Moved
<1>10. CASE Spawn
  <2>1. /\ Step = "spawn" /\ UNCHANGED <<device, port>>
        /\ \/ app.v = None /\ SetApp(disk[Slot]) /\ obj' = [obj EXCEPT !.log = TRUE, !.proc = "app"]
           \/ app.v # None /\ app' = app /\ obj' = [obj EXCEPT !.log = TRUE, !.proc = "other"]
    BY <1>10 DEF Spawn, Does
  <2>2. ObjectMoves
    BY <2>1 DEF ObjectMoves, AppTypes, Objects
  <2>3. DeviceMoves
    BY <2>1 DEF DeviceMoves, AppTypes, iOSInstalls
  <2>4. app' \in Apps /\ PortOK'
    BY <1>3, <2>1, AppFields DEF AppTypes, PortOK
  <2>5. AppMoves
    BY <2>1, <2>4 DEF AppMoves, AppTypes, Killers, Starters, iOSInstalls
  <2> QED
    BY <1>2, <1>5, <1>7, <2>2, <2>3, <2>5 DEF Moved
<1>11. CASE PutStart
  <2>1. Step = "put_start" /\ port' = app.v /\ UNCHANGED <<obj, device, app>>
    BY <1>11 DEF PutStart, Does
  <2>2. ObjectMoves /\ DeviceMoves
    BY <2>1 DEF ObjectMoves, DeviceMoves, AppTypes, iOSInstalls
  <2>3. AppMoves
    BY <2>1 DEF AppMoves, AppTypes, Apps, PortOK, Killers, Starters, iOSInstalls
  <2> QED
    BY <1>2, <1>5, <1>7, <2>2, <2>3 DEF Moved
<1> QED
  BY <1>8, <1>9, <1>10, <1>11

\* Handles of logs and processes, and the request to the iOS LiteServ to stop.
LEMMA HandleForms ==
    ASSUME AppTypes, PortOK, Handles \/ PutStop
    PROVE  Ended \/ Moved
<1>1. Step # None /\ Step \notin {"reachable", "admin"}
  BY DEF Handles, PutStop, Does, None
<1>2. call.todo # <<>> /\ Step = Head(call.todo)
  BY <1>1, StepHead
<1>3. CASE Handles /\ ~Passes(Step)
  BY <1>3 DEF Handles, Raises, Ended, EndsWith
<1>4. CASE Handles /\ Passes(Step)
  <2>1. /\ Step \in {"open_log", "close_log", "flush_log", "kill_process"} /\ Goes /\ Rest
        /\ UNCHANGED <<disk, device>>
        /\ obj' = CASE Step = "open_log" -> [obj EXCEPT !.log = TRUE, !.proc = "logcat"]
                    [] Step = "kill_process" -> [obj EXCEPT !.proc = IF obj.proc = "app" THEN "dead" ELSE obj.proc]
                    [] OTHER -> [obj EXCEPT !.log = FALSE,
                                            !.proc = IF obj.proc = "logcat" THEN None ELSE obj.proc]
        /\ IF Step = "kill_process" /\ obj.proc = "app" THEN app' = NoApp /\ port' = None
           ELSE UNCHANGED <<app, port>>
    BY <1>4 DEF Handles, AppGone, AppAsIs
  <2>2. Step = "kill_process" => obj.proc # None
    BY <1>4 DEF Passes
  <2>3. CallMoves
    BY <1>1, <1>2, <2>1, GoesMoves
  <2>4. DiskMoves /\ DeviceMoves
    BY <2>1 DEF DiskMoves, DeviceMoves, AppTypes, iOSInstalls
  <2>5. ObjectMoves
    <3>0. obj \in Objects
      BY DEF AppTypes
    <3>1. CASE Step = "open_log"
      BY <2>1, <3>0, <3>1 DEF ObjectMoves, Objects
    <3>2. CASE Step = "kill_process"
      BY <2>1, <2>2, <3>0, <3>2 DEF ObjectMoves, Objects
    <3>3. CASE Step \in {"close_log", "flush_log"}
      BY <2>1, <3>0, <3>3 DEF ObjectMoves, Objects
    <3> QED
      BY <2>1, <3>1, <3>2, <3>3
  <2>6. AppMoves
    BY <2>1, AppFields DEF AppMoves, AppTypes, PortOK, Killers, Starters, iOSInstalls
  <2> QED
    BY <1>2, <2>3, <2>4, <2>5, <2>6 DEF Moved
<1>5. CASE PutStop
  <2>1. /\ Step = "put_stop" /\ Rest /\ UNCHANGED <<obj, disk, device>>
        /\ \/ app.v # None /\ port' = None /\ app' = app /\ Goes
           \/ app.v = None /\ call' = [call EXCEPT !.tries = 1] /\ SetApp(device.v) /\ port' = port
    BY <1>5 DEF PutStop, Does
  <2>2. ObjectMoves /\ DeviceMoves /\ DiskMoves
    BY <2>1 DEF ObjectMoves, DeviceMoves, DiskMoves, AppTypes, iOSInstalls
  <2>3. CallMoves
    <3>1. CASE Goes
      BY <1>1, <1>2, <2>1, <3>1, GoesMoves
    <3>2. CASE call' = [call EXCEPT !.tries = 1]
      <4>1. call \in Calls /\ 1 \in 0..1
        BY DEF AppTypes
      <4>2. call.todo \in Seq(AllSteps) /\ call.resp \in Found
        BY <4>1 DEF Calls
      <4>3. call' \in Calls
        BY <3>2, <4>1, <4>2, CallFields, Zenon DEF Calls
      <4>4. call'.op = call.op /\ call'.todo = call.todo /\ call'.resp = call.resp
        BY <3>2, <4>1, <4>3 DEF Calls
      <4> QED
        BY <2>1, <4>3, <4>4 DEF CallMoves, Rest
    <3> QED
      BY <2>1, <3>1, <3>2
  <2>4. device.v \in Found /\ None \in Found
    BY DEF AppTypes, Devices, Found
  <2>5. app' \in Apps /\ PortOK' /\ port' \in Found
    BY <2>1, <2>4, AppFields DEF AppTypes, PortOK
  <2>6. AppMoves
    BY <2>1, <2>5 DEF AppMoves, AppTypes, Killers, Starters, iOSInstalls
  <2> QED
    BY <1>2, <2>2, <2>3, <2>6 DEF Moved
<1> QED
  BY <1>3, <1>4, <1>5

\* Every step of a script ends the operation or goes on.
LEMMA StepForms ==
    ASSUME AppTypes, PortOK, Follows(call.todo), ScriptStep \/ Fails
    PROVE  Ended \/ Moved
BY LookForms, AskForms, FetchForms, InstallForms, LaunchForms, HandleForms DEF ScriptStep

-----------------------------------------------------------------------------
(* Which steps an operation has                                            *)

\* A stop ends the process, stops the listener, clears the data.
StopTable(L) ==
    /\ kind \in Stopping \ Local => L \cap Killers # {} /\ L \cap Starters = {}
    /\ kind \in Local => "kill_process" \in L /\ "spawn" \notin L
    /\ kind = "lite-ios" => "not_running" \in L /\ L \cap Starters \subseteq {"put_stop"}
    /\ Class = "Android" => "clear_s" \in L

\* Where packages are replaced, only a download touches them, only an installation the service,
\* and a start replaces the process.
ChainTable(op, L) ==
    /\ "have" \in L => kind = "ios"
    /\ IF op = "download" THEN L \cap {"unpack", "fetch"} # {} ELSE L \cap {"wipe", "unpack", "fetch"} = {}
    /\ Class = "iOS" => "wipe" \notin L
    /\ Class = "JavaWS" => IF op = "install" THEN "service_install" \in L /\ L \cap Installers \subseteq {"service_install"}
                           ELSE L \cap Installers = {}
    /\ (op \in Starts /\ Class # "iOS") => "try_kill" \in L /\ L \cap Starters \subseteq
          IF Class = "Java" THEN {"run"} ELSE {"service_start"}
    /\ (op \in Starts /\ Class = "iOS") =>
          /\ L \cap Starters \subseteq {"launch_bundle", "launch"}
          /\ L \cap Installers \subseteq {"launch_bundle"}
    /\ (op \in {"install", "install_device"} /\ Class = "iOS") =>
          /\ L \cap iOSInstalls # {} /\ L \cap Starters \subseteq {"install_and_launch"}
          /\ L \cap Installers \subseteq iOSInstalls

Table(op, L) ==
    /\ "have" \in L => op = "download"
    /\ op = "stop" => StopTable(L)
    /\ kind \in Local => L \cap Starters \subseteq {"spawn"} /\ "open_log" \notin L
    /\ (IsLiteServ /\ op \in Starts) => "reachable" \in L
    /\ kind \in Replacing => ChainTable(op, L)

TablesOK == \A op \in DOMAIN Scripts : Table(op, StepsOf(Scripts[op]))

LEMMA AndroidTable ==
    ASSUME Class = "Android", ~IsLiteServ
    PROVE  TablesOK
<1>1. Scripts = [download |-> AndroidDownload,
               install |-> AndroidInstall,
               install_device |-> AndroidInstallDevice,
               remove |-> AndroidRemove,
               start |-> AndroidStart,
               start_device |-> AndroidStartDevice,
               stop |-> AndroidStop,
               close_app |-> AndroidCloseApp,
               open_app |-> AndroidOpenApp]
  BY DEF Scripts
<1>2. kind \notin Local /\ kind \notin Replacing /\ kind # "lite-ios"
  BY ClassesNamed
<1>4. Table("download", StepsOf(AndroidDownload))
  <2>1. StepsOf(AndroidDownload) = {"supported", "have", "fetch"}
    BY DEF StepsOf, AndroidDownload
  <2> QED
    BY <1>2, <2>1 DEF Table, StopTable, ChainTable, Starters, Installers, Killers, Starts, iOSInstalls
<1>5. Table("install", StepsOf(AndroidInstall))
  <2>1. StepsOf(AndroidInstall) = {"emulator", "try_uninstall_s", "install_loop", "listed"}
    BY DEF StepsOf, AndroidInstall
  <2> QED
    BY <1>2, <2>1 DEF Table, StopTable, ChainTable, Starters, Installers, Killers, Starts, iOSInstalls
<1>6. Table("install_device", StepsOf(AndroidInstallDevice))
  <2>1. StepsOf(AndroidInstallDevice) = {"real_device", "pool_id", "try_uninstall_s", "install_s", "listed"}
    BY DEF StepsOf, AndroidInstallDevice
  <2> QED
    BY <1>2, <2>1 DEF Table, StopTable, ChainTable, Starters, Installers, Killers, Starts, iOSInstalls
<1>7. Table("remove", StepsOf(AndroidRemove))
  <2>1. StepsOf(AndroidRemove) = {"uninstall_s"}
    BY DEF StepsOf, AndroidRemove
  <2> QED
    BY <1>2, <2>1 DEF Table, StopTable, ChainTable, Starters, Installers, Killers, Starts, iOSInstalls
<1>8. Table("start", StepsOf(AndroidStart))
  <2>1. StepsOf(AndroidStart) = {"adb", "open_log", "launch", "reachable", "adb"}
    BY DEF StepsOf, AndroidStart
  <2> QED
    BY <1>2, <2>1 DEF Table, StopTable, ChainTable, Starters, Installers, Killers, Starts, iOSInstalls
<1>9. Table("start_device", StepsOf(AndroidStartDevice))
  <2>1. StepsOf(AndroidStartDevice) = {"adb_s", "force_stop_s", "open_log", "launch", "reachable", "adb_s"}
    BY DEF StepsOf, AndroidStartDevice
  <2> QED
    BY <1>2, <2>1 DEF Table, StopTable, ChainTable, Starters, Installers, Killers, Starts, iOSInstalls
<1>10. Table("stop", StepsOf(AndroidStop))
  <2>1. StepsOf(AndroidStop) = {"force_stop_s", "clear_s", "close_log"}
    BY DEF StepsOf, AndroidStop
  <2> QED
    BY <1>2, <2>1 DEF Table, StopTable, ChainTable, Starters, Installers, Killers, Starts, iOSInstalls
<1>11. Table("close_app", StepsOf(AndroidCloseApp))
  <2>1. StepsOf(AndroidCloseApp) = {"home"}
    BY DEF StepsOf, AndroidCloseApp
  <2> QED
    BY <1>2, <2>1 DEF Table, StopTable, ChainTable, Starters, Installers, Killers, Starts, iOSInstalls
<1>12. Table("open_app", StepsOf(AndroidOpenApp))
  <2>1. StepsOf(AndroidOpenApp) = {"launch", "reachable", "adb"}
    BY DEF StepsOf, AndroidOpenApp
  <2> QED
    BY <1>2, <2>1 DEF Table, StopTable, ChainTable, Starters, Installers, Killers, Starts, iOSInstalls
<1> QED
  BY <1>1, <1>4, <1>5, <1>6, <1>7, <1>8, <1>9, <1>10, <1>11, <1>12 DEF TablesOK

LEMMA iOSTable ==
    ASSUME Class = "iOS", ~IsLiteServ
    PROVE  TablesOK
<1>1. Scripts = [download |-> iOSDownload,
               install |-> iOSInstall,
               install_device |-> iOSInstallDevice,
               remove |-> iOSRemove,
               remove_device |-> iOSRemoveDevice,
               start |-> iOSStart,
               start_device |-> iOSStartDevice,
               stop |-> iOSStop,
               close_app |-> iOSCloseApp,
               open_app |-> iOSOpenApp]
  BY DEF Scripts
<1>2. kind \notin Local /\ kind \notin Stopping \ Local /\ kind # "lite-ios" /\ (kind \in Replacing => kind # "java-msft" /\ kind # "javaws-msft")
  BY ClassesNamed
<1>3. kind \in iOSNames => kind = "ios"
  BY DEF iOSNames
<1>4. Table("download", StepsOf(iOSDownload))
  <2>1. \/ kind \in iOSNames /\ StepsOf(iOSDownload) = {"have", "get_zip", "unpack"}
        \/ ~(kind \in iOSNames) /\ StepsOf(iOSDownload) = {"get_zip", "unpack"}
    BY DEF StepsOf, iOSDownload
  <2> QED
    BY <1>2, <1>3, <2>1 DEF Table, StopTable, ChainTable, Starters, Installers, Killers, Starts, iOSInstalls
<1>5. Table("install", StepsOf(iOSInstall))
  <2>1. StepsOf(iOSInstall) = {"sim_install", "springboard", "sim_id"}
    BY DEF StepsOf, iOSInstall
  <2> QED
    BY <1>2, <1>3, <2>1 DEF Table, StopTable, ChainTable, Starters, Installers, Killers, Starts, iOSInstalls
<1>6. Table("install_device", StepsOf(iOSInstallDevice))
  <2>b. iOSStop = <<"try_osascript", "try_copy_log">>
    BY Join11 DEF iOSStop, iOSCloseApp
  <2>a. iOSInstallDevice = <<"install_and_launch", "listed", "try_osascript", "try_copy_log">>
    BY <2>b, Join22 DEF iOSInstallDevice
  <2>1. StepsOf(iOSInstallDevice) = {"install_and_launch", "listed", "try_osascript", "try_copy_log"}
    BY <2>a DEF StepsOf
  <2> QED
    BY <1>2, <1>3, <2>1 DEF Table, StopTable, ChainTable, Starters, Installers, Killers, Starts, iOSInstalls
<1>7. Table("remove", StepsOf(iOSRemove))
  <2>b. iOSStop = <<"try_osascript", "try_copy_log">>
    BY Join11 DEF iOSStop, iOSCloseApp
  <2>a. iOSRemove = <<"try_osascript", "try_copy_log", "kill_simulator", "erase">>
    BY <2>b, Join22 DEF iOSRemove
  <2>1. StepsOf(iOSRemove) = {"try_osascript", "try_copy_log", "kill_simulator", "erase"}
    BY <2>a DEF StepsOf
  <2> QED
    BY <1>2, <1>3, <2>1 DEF Table, StopTable, ChainTable, Starters, Installers, Killers, Starts, iOSInstalls
<1>8. Table("remove_device", StepsOf(iOSRemoveDevice))
  <2>1. \/ obj.ctl /\ StepsOf(iOSRemoveDevice) = {"ios_uninstall", "no_such_file"}
        \/ ~(obj.ctl) /\ StepsOf(iOSRemoveDevice) = {"ios_uninstall", "unlisted"}
    BY DEF StepsOf, iOSRemoveDevice
  <2> QED
    BY <1>2, <1>3, <2>1 DEF Table, StopTable, ChainTable, Starters, Installers, Killers, Starts, iOSInstalls
<1>9. Table("start", StepsOf(iOSStart))
  <2>1. StepsOf(iOSStart) = {"note_log", "launch_bundle", "reachable", "running"}
    BY DEF StepsOf, iOSStart
  <2> QED
    BY <1>2, <1>3, <2>1 DEF Table, StopTable, ChainTable, Starters, Installers, Killers, Starts, iOSInstalls
<1>10. Table("start_device", StepsOf(iOSStartDevice))
  <2>1. \/ obj.ctl /\ StepsOf(iOSStartDevice) = {"note_log", "launch", "reachable", "running"}
        \/ ~(obj.ctl) /\ StepsOf(iOSStartDevice) = {"note_log", "launch_bundle", "reachable", "running"}
    BY DEF StepsOf, iOSStartDevice
  <2> QED
    BY <1>2, <1>3, <2>1 DEF Table, StopTable, ChainTable, Starters, Installers, Killers, Starts, iOSInstalls
<1>11. Table("stop", StepsOf(iOSStop))
  <2>a. iOSStop = <<"try_osascript", "try_copy_log">>
    BY Join11 DEF iOSStop, iOSCloseApp
  <2>1. StepsOf(iOSStop) = {"try_osascript", "try_copy_log"}
    BY <2>a DEF StepsOf
  <2> QED
    BY <1>2, <1>3, <2>1 DEF Table, StopTable, ChainTable, Starters, Installers, Killers, Starts, iOSInstalls
<1>12. Table("close_app", StepsOf(iOSCloseApp))
  <2>1. StepsOf(iOSCloseApp) = {"try_osascript"}
    BY DEF StepsOf, iOSCloseApp
  <2> QED
    BY <1>2, <1>3, <2>1 DEF Table, StopTable, ChainTable, Starters, Installers, Killers, Starts, iOSInstalls
<1>13. Table("open_app", StepsOf(iOSOpenApp))
  <2>1. \/ obj.here /\ StepsOf(iOSOpenApp) = {"launch"}
        \/ ~(obj.here) /\ StepsOf(iOSOpenApp) = {"install_and_launch"}
    BY DEF StepsOf, iOSOpenApp
  <2> QED
    BY <1>2, <1>3, <2>1 DEF Table, StopTable, ChainTable, Starters, Installers, Killers, Starts, iOSInstalls
<1> QED
  BY <1>1, <1>4, <1>5, <1>6, <1>7, <1>8, <1>9, <1>10, <1>11, <1>12, <1>13 DEF TablesOK

LEMMA JavaTable ==
    ASSUME Class = "Java", ~IsLiteServ
    PROVE  TablesOK
<1>1. Scripts = [download |-> JavaDownload,
               install |-> JavaInstall,
               start |-> JavaStart,
               stop |-> JavaStop]
  BY DEF Scripts
<1>2. kind \notin Local /\ kind \notin Stopping \ Local /\ kind # "lite-ios" /\ (kind \in Replacing => kind # "java-msft" /\ kind # "javaws-msft")
  BY ClassesNamed
<1>4. Table("download", StepsOf(JavaDownload))
  <2>1. StepsOf(JavaDownload) = {"wipe", "fetch"}
    BY DEF StepsOf, JavaDownload
  <2> QED
    BY <1>2, <2>1 DEF Table, StopTable, ChainTable, Starters, Installers, Killers, Starts, iOSInstalls
<1>5. Table("install", StepsOf(JavaInstall))
  <2>1. \/ kind = "java-msft" /\ StepsOf(JavaInstall) = {"try_kill", "service_install"}
        \/ ~(kind = "java-msft") /\ StepsOf(JavaInstall) = {}
    BY DEF StepsOf, JavaInstall
  <2> QED
    BY <1>2, <2>1 DEF Table, StopTable, ChainTable, Starters, Installers, Killers, Starts, iOSInstalls
<1>6. Table("start", StepsOf(JavaStart))
  <2>1. \/ kind = "java-msft" /\ StepsOf(JavaStart) = {"service_start"}
        \/ ~(kind = "java-msft") /\ StepsOf(JavaStart) = {"clean", "try_kill", "run", "reachable"}
    BY DEF StepsOf, JavaStart
  <2> QED
    BY <1>2, <2>1 DEF Table, StopTable, ChainTable, Starters, Installers, Killers, Starts, iOSInstalls
<1>7. Table("stop", StepsOf(JavaStop))
  <2>1. \/ kind = "java-msft" /\ StepsOf(JavaStop) = {"kill"}
        \/ ~(kind = "java-msft") /\ StepsOf(JavaStop) = {"try_kill"}
    BY DEF StepsOf, JavaStop
  <2> QED
    BY <1>2, <2>1 DEF Table, StopTable, ChainTable, Starters, Installers, Killers, Starts, iOSInstalls
<1> QED
  BY <1>1, <1>4, <1>5, <1>6, <1>7 DEF TablesOK

LEMMA JavaWSTable ==
    ASSUME Class = "JavaWS", ~IsLiteServ
    PROVE  TablesOK
<1>1. Scripts = [download |-> JavaWSDownload,
               install |-> JavaWSInstall,
               start |-> JavaWSStart,
               stop |-> JavaWSStop]
  BY DEF Scripts
<1>2. kind \notin Local /\ kind \notin Stopping \ Local /\ kind # "lite-ios" /\ (kind \in Replacing => kind # "java-msft" /\ kind # "javaws-msft")
  BY ClassesNamed
<1>4. Table("download", StepsOf(JavaWSDownload))
  <2>1. StepsOf(JavaWSDownload) = {"wipe", "fetch"}
    BY DEF StepsOf, JavaWSDownload
  <2> QED
    BY <1>2, <2>1 DEF Table, StopTable, ChainTable, Starters, Installers, Killers, Starts, iOSInstalls
<1>5. Table("install", StepsOf(JavaWSInstall))
  <2>1. \/ kind = "javaws-msft" /\ StepsOf(JavaWSInstall) = {"kill", "clean", "service_install"}
        \/ ~(kind = "javaws-msft") /\ StepsOf(JavaWSInstall) = {"try_kill", "clean", "service_install"}
    BY DEF StepsOf, JavaWSInstall
  <2> QED
    BY <1>2, <2>1 DEF Table, StopTable, ChainTable, Starters, Installers, Killers, Starts, iOSInstalls
<1>6. Table("start", StepsOf(JavaWSStart))
  <2>1. \/ kind = "javaws-msft" /\ StepsOf(JavaWSStart) = {"service_start"}
        \/ ~(kind = "javaws-msft") /\ StepsOf(JavaWSStart) = {"try_kill", "service_start"}
    BY DEF StepsOf, JavaWSStart
  <2> QED
    BY <1>2, <2>1 DEF Table, StopTable, ChainTable, Starters, Installers, Killers, Starts, iOSInstalls
<1>7. Table("stop", StepsOf(JavaWSStop))
  <2>1. \/ kind = "javaws-msft" /\ StepsOf(JavaWSStop) = {"kill"}
        \/ ~(kind = "javaws-msft") /\ StepsOf(JavaWSStop) = {"try_kill"}
    BY DEF StepsOf, JavaWSStop
  <2> QED
    BY <1>2, <2>1 DEF Table, StopTable, ChainTable, Starters, Installers, Killers, Starts, iOSInstalls
<1> QED
  BY <1>1, <1>4, <1>5, <1>6, <1>7 DEF TablesOK

LEMMA CppTable ==
    ASSUME Class = "Cpp", ~IsLiteServ
    PROVE  TablesOK
<1>1. Scripts = [download |-> CppDownload,
               install |-> CppInstall,
               remove |-> CppRemove,
               start |-> CppStart,
               stop |-> CppStop]
  BY DEF Scripts
<1>2. kind \notin Local /\ kind \notin Replacing /\ kind \notin Stopping \ Local /\ kind # "lite-ios"
  BY ClassesNamed
<1>4. Table("download", StepsOf(CppDownload))
  <2>1. StepsOf(CppDownload) = {"wipe", "fetch"}
    BY DEF StepsOf, CppDownload
  <2> QED
    BY <1>2, <2>1 DEF Table, StopTable, ChainTable, Starters, Installers, Killers, Starts, iOSInstalls
<1>5. Table("install", StepsOf(CppInstall))
  <2>1. StepsOf(CppInstall) = {}
    BY DEF StepsOf, CppInstall
  <2> QED
    BY <1>2, <2>1 DEF Table, StopTable, ChainTable, Starters, Installers, Killers, Starts, iOSInstalls
<1>6. Table("remove", StepsOf(CppRemove))
  <2>1. StepsOf(CppRemove) = {"list_processes"}
    BY DEF StepsOf, CppRemove
  <2> QED
    BY <1>2, <2>1 DEF Table, StopTable, ChainTable, Starters, Installers, Killers, Starts, iOSInstalls
<1>7. Table("start", StepsOf(CppStart))
  <2>1. StepsOf(CppStart) = {"kill_on_host", "run"}
    BY DEF StepsOf, CppStart
  <2> QED
    BY <1>2, <2>1 DEF Table, StopTable, ChainTable, Starters, Installers, Killers, Starts, iOSInstalls
<1>8. Table("stop", StepsOf(CppStop))
  <2>1. StepsOf(CppStop) = {"kill"}
    BY DEF StepsOf, CppStop
  <2> QED
    BY <1>2, <2>1 DEF Table, StopTable, ChainTable, Starters, Installers, Killers, Starts, iOSInstalls
<1> QED
  BY <1>1, <1>4, <1>5, <1>6, <1>7, <1>8 DEF TablesOK

LEMMA NetMsftTable ==
    ASSUME Class = "NetMsft", ~IsLiteServ
    PROVE  TablesOK
<1>1. Scripts = [download |-> NetMsftDownload,
               install |-> NetMsftInstall,
               remove |-> NetMsftRemove,
               start |-> NetMsftStart,
               stop |-> NetMsftStop]
  BY DEF Scripts
<1>2. kind \notin Local /\ kind \notin Replacing /\ (kind \in Stopping => kind = "c-msft") /\ kind # "lite-ios"
  BY ClassesNamed
<1>4. Table("download", StepsOf(NetMsftDownload))
  <2>1. \/ kind = "net-msft" /\ StepsOf(NetMsftDownload) = {"have", "wipe", "fetch"}
        \/ ~(kind = "net-msft") /\ kind = "c-msft" /\ StepsOf(NetMsftDownload) = {"try_kill", "wipe", "fetch"}
        \/ ~(kind = "net-msft") /\ ~(kind = "c-msft") /\ StepsOf(NetMsftDownload) = {"wipe", "fetch"}
    BY DEF StepsOf, NetMsftDownload
  <2> QED
    BY <1>2, <2>1 DEF Table, StopTable, ChainTable, Starters, Installers, Killers, Starts, iOSInstalls
<1>5. Table("install", StepsOf(NetMsftInstall))
  <2>1. StepsOf(NetMsftInstall) = {}
    BY DEF StepsOf, NetMsftInstall
  <2> QED
    BY <1>2, <2>1 DEF Table, StopTable, ChainTable, Starters, Installers, Killers, Starts, iOSInstalls
<1>6. Table("remove", StepsOf(NetMsftRemove))
  <2>1. StepsOf(NetMsftRemove) = {}
    BY DEF StepsOf, NetMsftRemove
  <2> QED
    BY <1>2, <2>1 DEF Table, StopTable, ChainTable, Starters, Installers, Killers, Starts, iOSInstalls
<1>7. Table("start", StepsOf(NetMsftStart))
  <2>1. StepsOf(NetMsftStart) = {"run"}
    BY DEF StepsOf, NetMsftStart
  <2> QED
    BY <1>2, <2>1 DEF Table, StopTable, ChainTable, Starters, Installers, Killers, Starts, iOSInstalls
<1>8. Table("stop", StepsOf(NetMsftStop))
  <2>1. \/ kind = "net-msft" /\ StepsOf(NetMsftStop) = {"try_kill"}
        \/ ~(kind = "net-msft") /\ StepsOf(NetMsftStop) = {"kill"}
    BY DEF StepsOf, NetMsftStop
  <2> QED
    BY <1>2, <2>1 DEF Table, StopTable, ChainTable, Starters, Installers, Killers, Starts, iOSInstalls
<1> QED
  BY <1>1, <1>4, <1>5, <1>6, <1>7, <1>8 DEF TablesOK

LEMMA NetMonoTable ==
    ASSUME Class = "NetMono", ~IsLiteServ
    PROVE  TablesOK
<1>1. Scripts = [download |-> NetMonoDownload,
               install |-> NetMonoInstall,
               remove |-> NetMonoRemove,
               start |-> NetMonoStart,
               stop |-> NetMonoStop]
  BY DEF Scripts
<1>2. kind \notin Local /\ kind \notin Replacing /\ kind \notin Stopping \ Local /\ kind # "lite-ios"
  BY ClassesNamed
<1>4. Table("download", StepsOf(NetMonoDownload))
  <2>1. StepsOf(NetMonoDownload) = {"have", "get_zip", "unpack"}
    BY DEF StepsOf, NetMonoDownload
  <2> QED
    BY <1>2, <2>1 DEF Table, StopTable, ChainTable, Starters, Installers, Killers, Starts, iOSInstalls
<1>5. Table("install", StepsOf(NetMonoInstall))
  <2>1. StepsOf(NetMonoInstall) = {}
    BY DEF StepsOf, NetMonoInstall
  <2> QED
    BY <1>2, <2>1 DEF Table, StopTable, ChainTable, Starters, Installers, Killers, Starts, iOSInstalls
<1>6. Table("remove", StepsOf(NetMonoRemove))
  <2>1. StepsOf(NetMonoRemove) = {}
    BY DEF StepsOf, NetMonoRemove
  <2> QED
    BY <1>2, <2>1 DEF Table, StopTable, ChainTable, Starters, Installers, Killers, Starts, iOSInstalls
<1>7. Table("start", StepsOf(NetMonoStart))
  <2>1. StepsOf(NetMonoStart) = {"not_running", "attribute_error"}
    BY DEF StepsOf, NetMonoStart
  <2> QED
    BY <1>2, <2>1 DEF Table, StopTable, ChainTable, Starters, Installers, Killers, Starts, iOSInstalls
<1>8. Table("stop", StepsOf(NetMonoStop))
  <2>1. StepsOf(NetMonoStop) = {"flush_log", "kill_process", "not_running"}
    BY DEF StepsOf, NetMonoStop
  <2> QED
    BY <1>2, <2>1 DEF Table, StopTable, ChainTable, Starters, Installers, Killers, Starts, iOSInstalls
<1> QED
  BY <1>1, <1>4, <1>5, <1>6, <1>7, <1>8 DEF TablesOK

LEMMA LiteMacOSXTable ==
    ASSUME Class = "LiteMacOSX", IsLiteServ
    PROVE  TablesOK
<1>1. Scripts = [download |-> LiteMacOSXDownload,
               install |-> LiteMacOSXInstall,
               remove |-> LiteMacOSXRemove,
               start |-> LiteMacOSXStart,
               stop |-> LiteMacOSXStop]
  BY DEF Scripts
<1>2. kind \in Local /\ kind \notin Replacing /\ kind \notin Stopping \ Local /\ kind # "lite-ios"
  BY ClassesNamed
<1>4. Table("download", StepsOf(LiteMacOSXDownload))
  <2>1. StepsOf(LiteMacOSXDownload) = {"have", "get_zip", "unpack"}
    BY DEF StepsOf, LiteMacOSXDownload
  <2> QED
    BY <1>2, <2>1 DEF Table, StopTable, ChainTable, Starters, Installers, Killers, Starts, iOSInstalls
<1>5. Table("install", StepsOf(LiteMacOSXInstall))
  <2>1. StepsOf(LiteMacOSXInstall) = {}
    BY DEF StepsOf, LiteMacOSXInstall
  <2> QED
    BY <1>2, <2>1 DEF Table, StopTable, ChainTable, Starters, Installers, Killers, Starts, iOSInstalls
<1>6. Table("remove", StepsOf(LiteMacOSXRemove))
  <2>1. StepsOf(LiteMacOSXRemove) = {}
    BY DEF StepsOf, LiteMacOSXRemove
  <2> QED
    BY <1>2, <2>1 DEF Table, StopTable, ChainTable, Starters, Installers, Killers, Starts, iOSInstalls
<1>7. Table("start", StepsOf(LiteMacOSXStart))
  <2>a. LiteMacOSXStart = <<"not_running", "spawn", "reachable", "version">>
    BY Join11, Join22, Join42, Join52 DEF LiteMacOSXStart, LiteMacOSXVerify
  <2>1. StepsOf(LiteMacOSXStart) = {"not_running", "spawn", "reachable", "version"}
    BY <2>a DEF StepsOf
  <2> QED
    BY <1>2, <2>1 DEF Table, StopTable, ChainTable, Starters, Installers, Killers, Starts, iOSInstalls
<1>8. Table("stop", StepsOf(LiteMacOSXStop))
  <2>1. StepsOf(LiteMacOSXStop) = {"flush_log", "kill_process", "not_running"}
    BY DEF StepsOf, LiteMacOSXStop
  <2> QED
    BY <1>2, <2>1 DEF Table, StopTable, ChainTable, Starters, Installers, Killers, Starts, iOSInstalls
<1> QED
  BY <1>1, <1>4, <1>5, <1>6, <1>7, <1>8 DEF TablesOK

LEMMA LiteNetMonoTable ==
    ASSUME Class = "LiteNetMono", IsLiteServ
    PROVE  TablesOK
<1>1. Scripts = [download |-> LiteNetMonoDownload,
               install |-> LiteNetMonoInstall,
               remove |-> LiteNetMonoRemove,
               start |-> LiteNetMonoStart,
               stop |-> LiteNetMonoStop]
  BY DEF Scripts
<1>2. kind \in Local /\ kind \notin Replacing /\ kind \notin Stopping \ Local /\ kind # "lite-ios"
  BY ClassesNamed
<1>4. Table("download", StepsOf(LiteNetMonoDownload))
  <2>1. StepsOf(LiteNetMonoDownload) = {"have", "get_zip", "unpack"}
    BY DEF StepsOf, LiteNetMonoDownload
  <2> QED
    BY <1>2, <2>1 DEF Table, StopTable, ChainTable, Starters, Installers, Killers, Starts, iOSInstalls
<1>5. Table("install", StepsOf(LiteNetMonoInstall))
  <2>1. StepsOf(LiteNetMonoInstall) = {}
    BY DEF StepsOf, LiteNetMonoInstall
  <2> QED
    BY <1>2, <2>1 DEF Table, StopTable, ChainTable, Starters, Installers, Killers, Starts, iOSInstalls
<1>6. Table("remove", StepsOf(LiteNetMonoRemove))
  <2>1. StepsOf(LiteNetMonoRemove) = {}
    BY DEF StepsOf, LiteNetMonoRemove
  <2> QED
    BY <1>2, <2>1 DEF Table, StopTable, ChainTable, Starters, Installers, Killers, Starts, iOSInstalls
<1>7. Table("start", StepsOf(LiteNetMonoStart))
  <2>a. LiteNetMonoStart = <<"not_running", "spawn", "reachable", "version">>
    BY Join11, Join22, Join42, Join52 DEF LiteNetMonoStart, LiteNetMonoVerify
  <2>1. StepsOf(LiteNetMonoStart) = {"not_running", "spawn", "reachable", "version"}
    BY <2>a DEF StepsOf
  <2> QED
    BY <1>2, <2>1 DEF Table, StopTable, ChainTable, Starters, Installers, Killers, Starts, iOSInstalls
<1>8. Table("stop", StepsOf(LiteNetMonoStop))
  <2>1. StepsOf(LiteNetMonoStop) = {"flush_log", "kill_process", "not_running"}
    BY DEF StepsOf, LiteNetMonoStop
  <2> QED
    BY <1>2, <2>1 DEF Table, StopTable, ChainTable, Starters, Installers, Killers, Starts, iOSInstalls
<1> QED
  BY <1>1, <1>4, <1>5, <1>6, <1>7, <1>8 DEF TablesOK

LEMMA LiteAndroidTable ==
    ASSUME Class = "LiteAndroid", IsLiteServ
    PROVE  TablesOK
<1>1. Scripts = [download |-> LiteAndroidDownload,
               install |-> LiteAndroidInstall,
               remove |-> LiteAndroidRemove,
               start |-> LiteAndroidStart,
               stop |-> LiteAndroidStop,
               close_app |-> LiteAndroidCloseApp]
  BY DEF Scripts
<1>2. kind \notin Local /\ kind \notin Replacing /\ kind # "lite-ios"
  BY ClassesNamed
<1>4. Table("download", StepsOf(LiteAndroidDownload))
  <2>1. StepsOf(LiteAndroidDownload) = {"have", "fetch"}
    BY DEF StepsOf, LiteAndroidDownload
  <2> QED
    BY <1>2, <2>1 DEF Table, StopTable, ChainTable, Starters, Installers, Killers, Starts, iOSInstalls
<1>5. Table("install", StepsOf(LiteAndroidInstall))
  <2>1. StepsOf(LiteAndroidInstall) = {"install", "type_error"}
    BY DEF StepsOf, LiteAndroidInstall
  <2> QED
    BY <1>2, <2>1 DEF Table, StopTable, ChainTable, Starters, Installers, Killers, Starts, iOSInstalls
<1>6. Table("remove", StepsOf(LiteAndroidRemove))
  <2>1. StepsOf(LiteAndroidRemove) = {"uninstall", "type_error"}
    BY DEF StepsOf, LiteAndroidRemove
  <2> QED
    BY <1>2, <2>1 DEF Table, StopTable, ChainTable, Starters, Installers, Killers, Starts, iOSInstalls
<1>7. Table("start", StepsOf(LiteAndroidStart))
  <2>a. LiteAndroidStart = <<"not_running", "adb", "open_log", "launch", "reachable", "version">>
    BY Join11, Join22, Join42, Join52 DEF LiteAndroidStart, LiteAndroidVerify
  <2>1. StepsOf(LiteAndroidStart) = {"not_running", "adb", "open_log", "launch", "reachable", "version"}
    BY <2>a DEF StepsOf
  <2> QED
    BY <1>2, <2>1 DEF Table, StopTable, ChainTable, Starters, Installers, Killers, Starts, iOSInstalls
<1>8. Table("stop", StepsOf(LiteAndroidStop))
  <2>1. StepsOf(LiteAndroidStop) = {"force_stop", "clear", "not_running", "flush_log"}
    BY DEF StepsOf, LiteAndroidStop
  <2> QED
    BY <1>2, <2>1 DEF Table, StopTable, ChainTable, Starters, Installers, Killers, Starts, iOSInstalls
<1>9. Table("close_app", StepsOf(LiteAndroidCloseApp))
  <2>1. StepsOf(LiteAndroidCloseApp) = {"home"}
    BY DEF StepsOf, LiteAndroidCloseApp
  <2> QED
    BY <1>2, <2>1 DEF Table, StopTable, ChainTable, Starters, Installers, Killers, Starts, iOSInstalls
<1> QED
  BY <1>1, <1>4, <1>5, <1>6, <1>7, <1>8, <1>9 DEF TablesOK

LEMMA LiteiOSTable ==
    ASSUME Class = "LiteiOS", IsLiteServ
    PROVE  TablesOK
<1>1. Scripts = [download |-> LiteiOSDownload,
               install |-> LiteiOSInstall,
               install_device |-> LiteiOSInstallDevice,
               remove |-> LiteiOSRemove,
               remove_device |-> LiteiOSRemoveDevice,
               start |-> LiteiOSStart,
               start_device |-> LiteiOSStartDevice,
               stop |-> LiteiOSStop,
               close_app |-> LiteiOSCloseApp,
               open_app |-> LiteiOSOpenApp]
  BY DEF Scripts
<1>2. kind \notin Local /\ kind \notin Replacing /\ kind \notin Stopping \ Local /\ kind = "lite-ios"
  BY ClassesNamed
<1>4. Table("download", StepsOf(LiteiOSDownload))
  <2>1. StepsOf(LiteiOSDownload) = {"get_zip", "unpack"}
    BY DEF StepsOf, LiteiOSDownload
  <2> QED
    BY <1>2, <2>1 DEF Table, StopTable, ChainTable, Starters, Installers, Killers, Starts, iOSInstalls
<1>5. Table("install", StepsOf(LiteiOSInstall))
  <2>1. StepsOf(LiteiOSInstall) = {"sim_install", "type_error"}
    BY DEF StepsOf, LiteiOSInstall
  <2> QED
    BY <1>2, <2>1 DEF Table, StopTable, ChainTable, Starters, Installers, Killers, Starts, iOSInstalls
<1>6. Table("install_device", StepsOf(LiteiOSInstallDevice))
  <2>1. StepsOf(LiteiOSInstallDevice) = {"install_and_launch", "type_error"}
    BY DEF StepsOf, LiteiOSInstallDevice
  <2> QED
    BY <1>2, <2>1 DEF Table, StopTable, ChainTable, Starters, Installers, Killers, Starts, iOSInstalls
<1>7. Table("remove", StepsOf(LiteiOSRemove))
  <2>a. LiteiOSRemove = <<"if_running", "put_stop", "copy_log", "not_running", "kill_simulator", "erase">>
    BY Join11, Join22, Join42, Join52 DEF LiteiOSRemove, LiteiOSStop
  <2>1. StepsOf(LiteiOSRemove) = {"if_running", "put_stop", "copy_log", "not_running", "kill_simulator", "erase"}
    BY <2>a DEF StepsOf
  <2> QED
    BY <1>2, <2>1 DEF Table, StopTable, ChainTable, Starters, Installers, Killers, Starts, iOSInstalls
<1>8. Table("remove_device", StepsOf(LiteiOSRemoveDevice))
  <2>1. StepsOf(LiteiOSRemoveDevice) = {"ios_uninstall", "type_error"}
    BY DEF StepsOf, LiteiOSRemoveDevice
  <2> QED
    BY <1>2, <2>1 DEF Table, StopTable, ChainTable, Starters, Installers, Killers, Starts, iOSInstalls
<1>9. Table("start", StepsOf(LiteiOSStart))
  <2>a. LiteiOSStart = <<"note_log", "launch_bundle", "not_running", "admin", "put_start", "reachable", "version">>
    BY Join11, Join22, Join42, Join52 DEF LiteiOSStart, LiteiOSVerify
  <2>1. StepsOf(LiteiOSStart) = {"note_log", "launch_bundle", "not_running", "admin", "put_start", "reachable", "version"}
    BY <2>a DEF StepsOf
  <2> QED
    BY <1>2, <2>1 DEF Table, StopTable, ChainTable, Starters, Installers, Killers, Starts, iOSInstalls
<1>10. Table("start_device", StepsOf(LiteiOSStartDevice))
  <2>a. LiteiOSStartDevice = <<"note_log", "launch_bundle", "not_running", "admin", "put_start", "reachable", "version">>
    BY Join11, Join22, Join42, Join52 DEF LiteiOSStartDevice, LiteiOSVerify
  <2>1. StepsOf(LiteiOSStartDevice) = {"note_log", "launch_bundle", "not_running", "admin", "put_start", "reachable", "version"}
    BY <2>a DEF StepsOf
  <2> QED
    BY <1>2, <2>1 DEF Table, StopTable, ChainTable, Starters, Installers, Killers, Starts, iOSInstalls
<1>11. Table("stop", StepsOf(LiteiOSStop))
  <2>1. StepsOf(LiteiOSStop) = {"if_running", "put_stop", "copy_log", "not_running"}
    BY DEF StepsOf, LiteiOSStop
  <2> QED
    BY <1>2, <2>1 DEF Table, StopTable, ChainTable, Starters, Installers, Killers, Starts, iOSInstalls
<1>12. Table("close_app", StepsOf(LiteiOSCloseApp))
  <2>1. StepsOf(LiteiOSCloseApp) = {"osascript"}
    BY DEF StepsOf, LiteiOSCloseApp
  <2> QED
    BY <1>2, <2>1 DEF Table, StopTable, ChainTable, Starters, Installers, Killers, Starts, iOSInstalls
<1>13. Table("open_app", StepsOf(LiteiOSOpenApp))
  <2>1. \/ obj.here /\ StepsOf(LiteiOSOpenApp) = {"launch"}
        \/ ~(obj.here) /\ StepsOf(LiteiOSOpenApp) = {"install_and_launch"}
    BY DEF StepsOf, LiteiOSOpenApp
  <2> QED
    BY <1>2, <2>1 DEF Table, StopTable, ChainTable, Starters, Installers, Killers, Starts, iOSInstalls
<1> QED
  BY <1>1, <1>4, <1>5, <1>6, <1>7, <1>8, <1>9, <1>10, <1>11, <1>12, <1>13 DEF TablesOK

LEMMA LiteNetMsftTable ==
    ASSUME Class = "LiteNetMsft", IsLiteServ
    PROVE  TablesOK
<1>1. Scripts = [download |-> LiteNetMsftDownload,
               install |-> LiteNetMsftInstall,
               remove |-> LiteNetMsftRemove,
               start |-> LiteNetMsftStart,
               stop |-> LiteNetMsftStop]
  BY DEF Scripts
<1>2. kind \notin Local /\ kind \notin Replacing /\ kind # "lite-ios"
  BY ClassesNamed
<1>4. Table("download", StepsOf(LiteNetMsftDownload))
  <2>1. StepsOf(LiteNetMsftDownload) = {"have", "wipe", "fetch"}
    BY DEF StepsOf, LiteNetMsftDownload
  <2> QED
    BY <1>2, <2>1 DEF Table, StopTable, ChainTable, Starters, Installers, Killers, Starts, iOSInstalls
<1>5. Table("install", StepsOf(LiteNetMsftInstall))
  <2>1. StepsOf(LiteNetMsftInstall) = {"service_install"}
    BY DEF StepsOf, LiteNetMsftInstall
  <2> QED
    BY <1>2, <2>1 DEF Table, StopTable, ChainTable, Starters, Installers, Killers, Starts, iOSInstalls
<1>6. Table("remove", StepsOf(LiteNetMsftRemove))
  <2>1. StepsOf(LiteNetMsftRemove) = {"service_remove"}
    BY DEF StepsOf, LiteNetMsftRemove
  <2> QED
    BY <1>2, <2>1 DEF Table, StopTable, ChainTable, Starters, Installers, Killers, Starts, iOSInstalls
<1>7. Table("start", StepsOf(LiteNetMsftStart))
  <2>a. LiteNetMsftStart = <<"not_running", "run", "reachable", "version">>
    BY Join11, Join22, Join42, Join52 DEF LiteNetMsftStart, LiteNetMsftVerify
  <2>1. StepsOf(LiteNetMsftStart) = {"not_running", "run", "reachable", "version"}
    BY <2>a DEF StepsOf
  <2> QED
    BY <1>2, <2>1 DEF Table, StopTable, ChainTable, Starters, Installers, Killers, Starts, iOSInstalls
<1>8. Table("stop", StepsOf(LiteNetMsftStop))
  <2>1. StepsOf(LiteNetMsftStop) = {"kill", "copy_log"}
    BY DEF StepsOf, LiteNetMsftStop
  <2> QED
    BY <1>2, <2>1 DEF Table, StopTable, ChainTable, Starters, Installers, Killers, Starts, iOSInstalls
<1> QED
  BY <1>1, <1>4, <1>5, <1>6, <1>7, <1>8 DEF TablesOK

LEMMA TablesAlways ==
    ASSUME kind \in Kinds
    PROVE  TablesOK
<1>1. Class \in LiteClasses \union TestClasses /\ (IsLiteServ <=> Class \in LiteClasses)
  BY ClassOf
<1>2. CASE Class \in LiteClasses
  BY <1>1, <1>2, LiteAndroidTable, LiteiOSTable, LiteMacOSXTable, LiteNetMonoTable,
     LiteNetMsftTable DEF LiteClasses
<1>3. CASE Class \notin LiteClasses
  BY <1>1, <1>3, AndroidTable, iOSTable, JavaTable, JavaWSTable, CppTable,
     NetMsftTable, NetMonoTable DEF TestClasses
<1> QED
  BY <1>2, <1>3

-----------------------------------------------------------------------------
(* The invariant is kept by a step of a script                             *)

LEMMA SameKind ==
    ASSUME kind' = kind
    PROVE  IsLiteServ' = IsLiteServ /\ Class' = Class
BY DEF IsLiteServ, Class, LiteServClass, TestServerClass

LEMMA SameScripts ==
    ASSUME kind' = kind, obj'.here = obj.here, obj'.ctl = obj.ctl
    PROVE  Scripts' = Scripts
<1>1. Class' = Class
  BY SameKind
<1>2. /\ iOSDownload' = iOSDownload /\ iOSOpenApp' = iOSOpenApp /\ JavaInstall' = JavaInstall
      /\ JavaStart' = JavaStart /\ JavaStop' = JavaStop /\ JavaWSStart' = JavaWSStart
      /\ JavaWSStop' = JavaWSStop /\ NetMsftDownload' = NetMsftDownload
      /\ NetMsftStop' = NetMsftStop /\ LiteiOSOpenApp' = LiteiOSOpenApp
      /\ iOSStartDevice' = iOSStartDevice /\ iOSRemoveDevice' = iOSRemoveDevice
      /\ JavaWSInstall' = JavaWSInstall
  BY DEF iOSDownload, iOSOpenApp, JavaInstall, JavaStart, JavaStop, JavaWSStart, JavaWSStop,
         NetMsftDownload, NetMsftStop, LiteiOSOpenApp, iOSStartDevice, iOSRemoveDevice, JavaWSInstall
<1> QED
  BY <1>1, <1>2 DEF Scripts

LEMMA SameSlot ==
    ASSUME kind' = kind, obj'.want = obj.want, obj'.named = obj.named
    PROVE  Slot' = Slot /\ Fetched' = Fetched
<1>1. Class' = Class
  BY SameKind
<1> QED
  BY <1>1 DEF Slot, Fetched

LEMMA SameFollows ==
    ASSUME kind' = kind, NEW s, Follows(s), s = call'.todo
    PROVE  Follows(call.todo)'
<1>1. IsLiteServ' = IsLiteServ
  BY SameKind
<1> QED
  BY <1>1 DEF Follows

\* The wait for the port is followed by the comparison of the version.
LEMMA VersionFollows ==
    ASSUME NEW s \in Seq(AllSteps), Follows(s), IsLiteServ, "reachable" \in StepsOf(s)
    PROVE  "version" \in StepsOf(s)
<1>1. PICK i \in DOMAIN s : s[i] = "reachable"
  BY DEF StepsOf
<1>2. Len(s) = i + 1 /\ s[i + 1] = "version"
  BY <1>1 DEF Follows
<1>3. i + 1 \in DOMAIN s
  <2> HIDE DEF AllSteps
  <2> QED
    BY <1>1, <1>2
<1> QED
  BY <1>2, <1>3 DEF StepsOf

\* What is left after a step.
LEMMA StepsLeft ==
    ASSUME AppTypes, CallOK, Moved
    PROVE  /\ ~Idle /\ call.op \in DOMAIN Scripts /\ Step \in Left
           /\ Left \subseteq StepsOf(Scripts[call.op]) /\ Table(call.op, StepsOf(Scripts[call.op]))
           /\ Left' \subseteq Left /\ Left \subseteq Left' \union {Step, "put_stop"}
           /\ (IsLiteServ /\ Step = "reachable") => Left' = {"version"}
           /\ Follows(call'.todo)
<1>1. call.todo # <<>> /\ Step = Head(call.todo) /\ CallMoves
  BY DEF Moved
<1>2. ~Idle /\ call.op \in DOMAIN Scripts /\ Left \subseteq StepsOf(Scripts[call.op]) /\ Follows(call.todo)
  BY <1>1 DEF CallOK
<1>3. call.todo \in Seq(AllSteps) /\ kind \in Kinds
  BY DEF AppTypes, Calls
<1>4. Table(call.op, StepsOf(Scripts[call.op]))
  BY <1>2, <1>3, TablesAlways DEF TablesOK
<1>5. Left = StepsOf(call.todo) /\ Left' = StepsOf(call'.todo)
  BY DEF Left, StepsOf
<1>6. Step \in Left
  BY <1>1, <1>3, <1>5, NextStep
<1>7. CASE call'.todo = call.todo /\ Step \in {"install_loop", "put_stop"}
  BY <1>2, <1>4, <1>5, <1>6, <1>7
<1>8. CASE call'.todo = Tail(call.todo)
  BY <1>1, <1>2, <1>3, <1>4, <1>5, <1>6, <1>8, NextStep
<1>9. CASE call'.todo = Tail(Tail(call.todo)) /\ Step = "if_running"
  <2> DEFINE t == Tail(call.todo)
  <2>1. /\ t \in Seq(AllSteps) /\ StepsOf(t) \subseteq Left /\ Left \subseteq StepsOf(t) \union {Step}
        /\ Follows(t) /\ t # <<>> /\ Head(t) = "put_stop"
    BY <1>1, <1>2, <1>3, <1>5, <1>9, NextStep
  <2> HIDE DEF t
  <2>2. /\ StepsOf(Tail(t)) \subseteq StepsOf(t) /\ StepsOf(t) \subseteq StepsOf(Tail(t)) \union {"put_stop"}
        /\ Follows(Tail(t))
    BY <2>1, NextStep
  <2>3. call'.todo = Tail(t)
    BY <1>9 DEF t
  <2> QED
    BY <1>2, <1>4, <1>5, <1>6, <1>9, <2>1, <2>2, <2>3
<1> QED
  BY <1>1, <1>7, <1>8, <1>9 DEF CallMoves

LEMMA MovedCallOK ==
    ASSUME AppTypes, CallOK, Moved
    PROVE  CallOK' /\ ~Idle'
<1>1. /\ ~Idle /\ call.op \in DOMAIN Scripts /\ Left \subseteq StepsOf(Scripts[call.op])
      /\ Left' \subseteq Left /\ Follows(call'.todo)
  BY StepsLeft
<1>2. /\ kind' = kind /\ call' \in Calls /\ call'.op = call.op
      /\ obj'.here = obj.here /\ obj'.ctl = obj.ctl
  BY DEF Moved, CallMoves, ObjectMoves
<1>3. Follows(call.todo)'
  BY <1>1, <1>2, SameFollows
<1>4. Scripts' = Scripts
  BY <1>2, SameScripts
<1>5. ~Idle' /\ call'.op \in DOMAIN Scripts' /\ Left' \subseteq StepsOf(Scripts'[call'.op])
  BY <1>1, <1>2, <1>4 DEF Idle
<1> QED
  BY <1>2, <1>3, <1>5 DEF CallOK, Calls, StepsOf

LEMMA MovedHandleOK ==
    ASSUME AppTypes, CallOK, HandleOK, Moved
    PROVE  HandleOK'
<1> SUFFICES ASSUME kind' \in Local, app'.mine PROVE obj'.proc \in {"app", "other"}
  BY DEF HandleOK
<1>1. kind \in Local /\ ObjectMoves /\ AppMoves
  BY DEF Moved, CallMoves, Local
<1>2. Step \in StepsOf(Scripts[call.op]) /\ Table(call.op, StepsOf(Scripts[call.op]))
  BY StepsLeft
<1>3. Step # "open_log" /\ (Step \in Starters => Step = "spawn")
  BY <1>1, <1>2 DEF Table
<1>4. CASE Step = "spawn"
  BY <1>1, <1>4 DEF ObjectMoves
<1>5. CASE Step # "spawn"
  <2>1. app' = app /\ app' # NoApp
    <3>1. app' = app \/ app' = NoApp
      BY <1>1, <1>3, <1>5 DEF AppMoves
    <3> QED
      BY <3>1, AppFields
  <2>2. obj.proc \in {"app", "other"}
    BY <1>1, <2>1 DEF HandleOK
  <2> QED
    BY <1>1, <1>3, <1>5, <2>1, <2>2 DEF ObjectMoves
<1> QED
  BY <1>4, <1>5

LEMMA MovedStopsOK ==
    ASSUME AppTypes, CallOK, HandleOK, StopsOK, Moved
    PROVE  StopsOK'
<1>1. ~Idle' /\ kind' = kind /\ call'.op = call.op /\ ObjectMoves /\ AppMoves /\ DeviceMoves
  BY MovedCallOK DEF Moved, CallMoves
<1>2. ~Returned("stop")'
  BY <1>1 DEF Returned
<1> SUFFICES ASSUME call.op = "stop" PROVE StopDone(Left)'
  BY <1>1, <1>2 DEF StopsOK
<1>3. /\ Step \in Left /\ Left \subseteq StepsOf(Scripts["stop"]) /\ StopTable(StepsOf(Scripts["stop"]))
      /\ Left' \subseteq Left /\ Left \subseteq Left' \union {Step, "put_stop"}
      /\ Table("stop", StepsOf(Scripts["stop"]))
  BY StepsLeft DEF Table
<1>4. StopDone(Left)
  BY DEF StopsOK
<1>5. Class' = Class
  BY <1>1, SameKind
<1>6. NoApp.v = None /\ ~NoApp.mine
  BY AppFields
<1>7. ASSUME kind \in Stopping \ Local PROVE Left' \cap Killers # {} \/ app'.v = None
  <2>1. Step \notin Starters
    BY <1>3, <1>7 DEF StopTable
  <2>2. app' = app \/ app' = NoApp
    BY <1>1, <2>1 DEF AppMoves
  <2>3. CASE app.v = None
    BY <1>6, <2>2, <2>3
  <2>4. CASE Step \in Killers
    BY <1>1, <1>6, <2>4 DEF AppMoves
  <2>5. CASE Left \cap Killers # {} /\ Step \notin Killers
    BY <1>3, <2>5 DEF Killers
  <2> QED
    BY <1>4, <1>7, <2>3, <2>4, <2>5 DEF StopDone
<1>8. ASSUME kind \in Local PROVE "kill_process" \in Left' \/ ~app'.mine \/ obj'.proc = "other"
  <2>1. Step \notin Starters \/ Step = "spawn"
    BY <1>3, <1>8 DEF Table
  <2>a. Step # "open_log"
    BY <1>3, <1>8 DEF Table
  <2>2. CASE Step = "kill_process"
    <3>1. app' = app \/ app' = NoApp
      BY <1>1, <2>2 DEF AppMoves, Starters
    <3>2. app.mine => obj.proc \in {"app", "other"}
      BY <1>8 DEF HandleOK
    <3> QED
      BY <1>1, <1>6, <2>2, <3>1, <3>2 DEF ObjectMoves
  <2>3. CASE Step # "kill_process" /\ Step # "spawn"
    <3>1. app' = app \/ app' = NoApp
      BY <1>1, <2>1, <2>3 DEF AppMoves
    <3>2. "kill_process" \in Left => "kill_process" \in Left'
      BY <1>3, <2>3
    <3>3. obj.proc = "other" => obj'.proc = "other"
      BY <1>1, <2>3, <2>a DEF ObjectMoves
    <3> QED
      BY <1>4, <1>6, <1>8, <3>1, <3>2, <3>3 DEF StopDone
  <2> QED
    BY <1>3, <1>8, <2>2, <2>3 DEF StopTable, Starters
<1>9. ASSUME kind = "lite-ios" PROVE "not_running" \in Left' \/ port' = None
  <2>1. Step \notin Starters \/ Step = "put_stop"
    BY <1>3, <1>9 DEF StopTable
  <2>2. port' \in {None, port}
    BY <1>1, <2>1 DEF AppMoves
  <2>3. Step = "not_running" => port = None
    BY <1>1 DEF AppMoves
  <2> QED
    BY <1>3, <1>4, <1>9, <2>2, <2>3 DEF StopDone
<1>10. ASSUME Class = "Android" PROVE "clear_s" \in Left' \/ ~device'.dirty
  <2>1. (device'.dirty => device.dirty) /\ (Step = "clear_s" => ~device'.dirty)
    BY <1>1 DEF DeviceMoves
  <2> QED
    BY <1>3, <1>4, <1>10, <2>1 DEF StopDone
<1>11. /\ kind' \in Stopping \ Local => Left' \cap Killers # {} \/ app'.v = None
       /\ kind' \in Local => "kill_process" \in Left' \/ ~app'.mine \/ obj'.proc = "other"
       /\ kind' = "lite-ios" => "not_running" \in Left' \/ port' = None
       /\ Class' = "Android" => "clear_s" \in Left' \/ ~device'.dirty
  BY <1>1, <1>5, <1>7, <1>8, <1>9, <1>10
<1> QED
  BY <1>11 DEF StopDone

LEMMA MovedAnswerOK ==
    ASSUME AppTypes, CallOK, PortOK, AnswerOK, Moved
    PROVE  AnswerOK'
<1>1. ~Idle' /\ kind' = kind /\ call'.op = call.op /\ obj'.want = obj.want /\ AppMoves /\ CallMoves
  BY MovedCallOK DEF Moved, CallMoves, ObjectMoves
<1>2. ~Returned("start")' /\ ~Returned("start_device")'
  BY <1>1 DEF Returned
<1>3. IsLiteServ' = IsLiteServ
  BY <1>1, SameKind
<1> SUFFICES ASSUME call.op \in Starts, IsLiteServ
             PROVE  /\ "reachable" \in Left' \/ (Left' \subseteq {"version"} /\ app'.v \in {None, call'.resp})
                    /\ "version" \in Left' \/ app'.v \in {None, obj'.want}
  <2>1. IsLiteServ' /\ call'.op \in Starts => AnswerDone(Left)'
    BY <1>1, <1>3 DEF AnswerDone
  <2> QED
    BY <1>1, <1>2, <2>1 DEF AnswerOK, AnswerDone
<1>4. /\ Step \in Left /\ Left' \subseteq Left /\ Left \subseteq Left' \union {Step, "put_stop"}
      /\ (Step = "reachable" => Left' = {"version"}) /\ Follows(call'.todo)
  BY StepsLeft
<1>5. AnswerDone(Left)
  BY DEF AnswerOK
<1>6. NoApp.v = None
  BY AppFields
<1>7. "reachable" \in Left' => "version" \in Left'
  <2>1. call'.todo \in Seq(AllSteps)
    BY <1>1 DEF CallMoves, Calls
  <2>2. Left' = StepsOf(call'.todo)
    BY DEF Left, StepsOf
  <2> QED
    BY <1>4, <2>1, <2>2, VersionFollows
<1>8. CASE "reachable" \in Left /\ Step # "reachable"
  BY <1>4, <1>7, <1>8
<1>9. CASE Step = "reachable"
  <2>1. app' = app \/ app' = NoApp
    BY <1>1, <1>9 DEF AppMoves, Starters
  <2>2. port # None /\ call'.resp = port
    BY <1>1, <1>9 DEF AppMoves, CallMoves
  <2>3. app.v = port
    BY <2>2 DEF PortOK
  <2> QED
    BY <1>4, <1>6, <1>9, <2>1, <2>2, <2>3
<1>10. CASE "reachable" \notin Left
  <2>1. Left \subseteq {"version"} /\ app.v \in {None, call.resp}
    BY <1>5, <1>10 DEF AnswerDone
  <2>2. Step = "version"
    BY <1>4, <2>1
  <2>3. app' = app \/ app' = NoApp
    BY <1>1, <2>2 DEF AppMoves, Starters
  <2>4. call'.resp = call.resp /\ call.resp = obj.want
    BY <1>1, <2>2 DEF AppMoves, CallMoves
  <2> QED
    BY <1>1, <1>4, <1>6, <2>1, <2>3, <2>4
<1> QED
  BY <1>8, <1>9, <1>10

LEMMA MovedChainOK ==
    ASSUME AppTypes, CallOK, ChainOK, Moved
    PROVE  ChainOK'
<1>1. /\ ~Idle' /\ kind' = kind /\ call'.op = call.op /\ ObjectMoves /\ AppMoves /\ CallMoves
      /\ DiskMoves /\ DeviceMoves
  BY MovedCallOK DEF Moved, CallMoves
<1>2. Class' = Class /\ Slot' = Slot /\ Fetched' = Fetched
  BY <1>1, SameKind, SameSlot DEF ObjectMoves
<1>3. /\ obj'.want = obj.want /\ obj'.named = obj.named /\ obj'.did \in {obj.did, 0} /\ obj.did \in 0..3
      /\ (Step = "try_kill" /\ call.op \in Starts) => app'.v = None \/ obj'.did = 0
  BY <1>1 DEF ObjectMoves, AppTypes, Objects
<1> SUFFICES ASSUME kind \in Replacing
    PROVE /\ kind = "ios" => \A v \in Versions : disk'[v] \in {None, v}
          /\ Class \in {"Java", "JavaWS"} => obj.want = obj.named
          /\ (call.op # "download" /\ obj.did >= 1) => disk'[Slot] = obj.want
          /\ (call.op = "download" /\ obj.want = obj.named) =>
                Left' \cap {"unpack", "fetch"} # {} \/ disk'[Slot] = obj.want
          /\ (Class = "JavaWS" /\ call.op \notin {"download", "install"} /\ obj.did >= 2) => device'.v = obj.want
          /\ (Class = "JavaWS" /\ call.op = "install") => "service_install" \in Left' \/ device'.v = disk'[Slot]
          /\ (Class # "iOS" /\ call.op \in Starts) =>
                "try_kill" \in Left' \/ obj'.did = 0 \/ app'.v \in {None, IF Class = "JavaWS" THEN device'.v ELSE disk'[Slot]}
          /\ (Class = "iOS" /\ call.op \in {"install", "install_device"}) =>
                Left' \cap iOSInstalls # {} \/ (device'.v = disk'[Slot] /\ app'.v \in {None, disk'[Slot]})
          /\ (Class = "iOS" /\ call.op \in Starts /\ obj.did >= 2) =>
                device'.v = obj.want /\ app'.v \in {None, obj.want}
          /\ (Class \in {"Java", "JavaWS"} /\ call.op = "download") =>
                call'.todo \in {<<"wipe", "fetch">>, <<"fetch">>, <<>>}
  BY <1>1, <1>2, <1>3 DEF ChainOK, Target
<1>4. /\ Step \in Left /\ Left \subseteq StepsOf(Scripts[call.op]) /\ Left' \subseteq Left
      /\ Left \subseteq Left' \union {Step, "put_stop"} /\ ChainTable(call.op, StepsOf(Scripts[call.op]))
  BY StepsLeft DEF Table
<1>5. Class \in {"iOS", "Java", "JavaWS"} /\ (Class = "iOS" <=> kind \in {"ios", "xamarin-ios", "c-ios"})
  BY ClassesNamed
<1>6. /\ disk \in [Slots -> Found] /\ Slot \in Slots /\ Versions \subseteq Slots /\ obj \in Objects
      /\ NoApp.v = None /\ Starts = {"start", "start_device"}
  BY SlotTyped, AppFields DEF AppTypes, Slots, Starts
<1>7. Step \in {"fetch", "unpack"} => disk' = [disk EXCEPT ![Slot] = Fetched] /\ CanFetch
  BY <1>1 DEF DiskMoves
<1>8. Step \notin {"wipe", "fetch", "unpack"} => disk' = disk
  BY <1>1 DEF DiskMoves
<1>9. Fetched = IF Class = "iOS" THEN obj.want ELSE obj.named
  BY <1>5 DEF Fetched
<1>10. call.op # "download" => disk' = disk
  BY <1>4, <1>8 DEF ChainTable
<1>11. ASSUME kind = "ios" PROVE \A v \in Versions : disk'[v] \in {None, v}
  <2>1. Slot = obj.named
    BY <1>11 DEF Slot, LiteNames, MonoNames, Versioned, iOSNames
  <2>2. CASE Step = "wipe"
    BY <1>4, <1>5, <1>11, <2>2 DEF ChainTable
  <2>3. CASE Step \in {"fetch", "unpack"}
    <3>1. obj.want = obj.named
      BY <1>7, <1>11, <2>3 DEF CanFetch, iOSNames
    <3> QED
      BY <1>5, <1>6, <1>7, <1>9, <1>11, <2>1, <2>3, <3>1 DEF ChainOK
  <2>4. CASE Step \notin {"wipe", "fetch", "unpack"}
    BY <1>8, <1>11, <2>4 DEF ChainOK
  <2> QED
    BY <2>2, <2>3, <2>4
<1>12. ASSUME Class \in {"Java", "JavaWS"}, call.op = "download"
       PROVE  \/ call.todo = <<"wipe", "fetch">> /\ call'.todo = <<"fetch">> /\ Left' = {"fetch"}
              \/ call.todo = <<"fetch">> /\ call'.todo = <<>> /\ Step = "fetch"
  <2>1. call.todo \in {<<"wipe", "fetch">>, <<"fetch">>}
    BY <1>12 DEF ChainOK, Moved
  <2>2. CASE call.todo = <<"wipe", "fetch">>
    <3>1. Step = "wipe" /\ Tail(call.todo) = <<"fetch">>
      BY <2>2 DEF Step
    <3>2. call'.todo = <<"fetch">>
      BY <1>1, <3>1 DEF CallMoves
    <3>3. Left' = {"fetch"}
      BY <3>2 DEF Left, StepsOf
    <3> QED
      BY <2>2, <3>2, <3>3
  <2>3. CASE call.todo = <<"fetch">>
    <3>1. Step = "fetch" /\ Tail(call.todo) = <<>>
      BY <2>3 DEF Step
    <3> QED
      BY <1>1, <2>3, <3>1 DEF CallMoves
  <2> QED
    BY <2>1, <2>2, <2>3
<1>13. ASSUME call.op = "download", obj.want = obj.named
       PROVE  Left' \cap {"unpack", "fetch"} # {} \/ disk'[Slot] = obj.want
  <2>1. CASE Step \in {"fetch", "unpack"}
    BY <1>6, <1>7, <1>9, <1>13, <2>1
  <2>2. CASE Left \cap {"unpack", "fetch"} # {} /\ Step \notin {"fetch", "unpack"}
    BY <1>4, <2>2
  <2>3. CASE disk[Slot] = obj.want /\ Step \notin {"fetch", "unpack"}
    <3>1. CASE Class = "iOS"
      <4>1. Step # "wipe"
        BY <1>4, <3>1 DEF ChainTable
      <4> QED
        BY <1>8, <2>3, <4>1
    <3>2. CASE Class # "iOS"
      BY <1>5, <1>12, <1>13, <2>3, <3>2
    <3> QED
      BY <3>1, <3>2
  <2> QED
    BY <1>13, <2>1, <2>2, <2>3 DEF ChainOK
<1>14. ASSUME Class = "JavaWS", call.op # "install" PROVE device'.v = device.v
  <2>1. Step \notin Installers
    BY <1>4, <1>14 DEF ChainTable
  <2> QED
    BY <1>1, <2>1 DEF DeviceMoves
<1>15. ASSUME Class = "JavaWS", call.op = "install"
       PROVE  "service_install" \in Left' \/ device'.v = disk'[Slot]
  <2>1. disk' = disk
    BY <1>10, <1>15
  <2>2. CASE Step = "service_install"
    BY <1>1, <2>1, <2>2 DEF DeviceMoves
  <2>3. CASE Step # "service_install"
    <3>1. Step \notin Installers
      BY <1>4, <1>15, <2>3 DEF ChainTable
    <3>2. device'.v = device.v
      BY <1>1, <3>1 DEF DeviceMoves
    <3> QED
      BY <1>4, <1>15, <2>1, <2>3, <3>2 DEF ChainOK
  <2> QED
    BY <2>2, <2>3
<1>16. ASSUME call.op \in Starts, Class # "iOS"
       PROVE  \/ "try_kill" \in Left' \/ obj'.did = 0
              \/ app'.v \in {None, IF Class = "JavaWS" THEN device'.v ELSE disk'[Slot]}
  <2>1. disk' = disk /\ (Class = "JavaWS" => device'.v = device.v)
    BY <1>6, <1>10, <1>14, <1>16
  <2> DEFINE T == IF Class = "JavaWS" THEN device.v ELSE disk[Slot]
  <2>2. "try_kill" \in Left \/ app.v \in {None, T} \/ obj'.did = 0
    BY <1>3, <1>16 DEF ChainOK, Target
  <2>4. Step = "try_kill" => app'.v = None \/ obj'.did = 0
    BY <1>3, <1>16
  <2>5. Step \in Starters => Step = IF Class = "Java" THEN "run" ELSE "service_start"
    BY <1>4, <1>16 DEF ChainTable
  <2>6. CASE Step \notin Starters
    <3>1. app' = app \/ app' = NoApp
      BY <1>1, <2>6 DEF AppMoves
    <3> QED
      BY <1>4, <1>6, <2>1, <2>2, <2>4, <3>1
  <2>7. CASE Step \in Starters
    <3>1. app'.v \in {app.v, T}
      BY <1>1, <1>5, <1>16, <2>5, <2>7 DEF AppMoves
    <3> QED
      BY <1>4, <2>1, <2>2, <2>4, <3>1
  <2> QED
    BY <2>6, <2>7
<1>20. ASSUME Class = "iOS", call.op \in {"install", "install_device"}
       PROVE  Left' \cap iOSInstalls # {} \/ (device'.v = disk'[Slot] /\ app'.v \in {None, disk'[Slot]})
  <2>1. disk' = disk
    BY <1>10, <1>20
  <2>2. /\ Step \in Starters => Step = "install_and_launch"
        /\ Step \in Installers => Step \in iOSInstalls
    BY <1>4, <1>20 DEF ChainTable
  <2>3. CASE Step \in iOSInstalls
    BY <1>1, <2>1, <2>3 DEF DeviceMoves, AppMoves
  <2>4. CASE Step \notin iOSInstalls
    <3>1. Step \notin Starters /\ Step \notin Installers /\ "put_stop" \notin iOSInstalls
      BY <2>2, <2>4 DEF iOSInstalls
    <3>2. device'.v = device.v /\ (app' = app \/ app' = NoApp)
      BY <1>1, <3>1 DEF DeviceMoves, AppMoves
    <3>3. Left \cap iOSInstalls # {} \/ (device.v = disk[Slot] /\ app.v \in {None, disk[Slot]})
      BY <1>20 DEF ChainOK
    <3> QED
      BY <1>4, <1>6, <2>1, <2>4, <3>1, <3>2, <3>3
  <2> QED
    BY <2>3, <2>4
<1>21. ASSUME Class = "iOS", call.op \in Starts, obj.did >= 2
       PROVE  device'.v = obj.want /\ app'.v \in {None, obj.want}
  <2>1. disk[Slot] = obj.want
    BY <1>3, <1>6, <1>21 DEF ChainOK
  <2>2. device.v = obj.want /\ app.v \in {None, obj.want}
    BY <1>21 DEF ChainOK
  <2>3. /\ Step \in Starters => Step \in {"launch_bundle", "launch"}
        /\ Step \in Installers => Step = "launch_bundle"
    BY <1>4, <1>21 DEF ChainTable
  <2>4. device'.v = obj.want
    BY <1>1, <2>1, <2>2, <2>3 DEF DeviceMoves
  <2>5. app'.v \in {None, obj.want}
    <3>1. CASE Step \notin Starters
      BY <1>1, <1>6, <2>2, <3>1 DEF AppMoves
    <3>2. CASE Step = "launch_bundle"
      BY <1>1, <2>1, <3>2 DEF AppMoves
    <3>3. CASE Step = "launch"
      BY <1>1, <2>2, <3>3 DEF AppMoves
    <3> QED
      BY <2>3, <3>1, <3>2, <3>3
  <2> QED
    BY <2>4, <2>5
<1>17. Class \in {"Java", "JavaWS"} => obj.want = obj.named
  BY DEF ChainOK
<1>18. (call.op # "download" /\ obj.did >= 1) => disk'[Slot] = obj.want
  BY <1>10 DEF ChainOK
<1>19. (Class = "JavaWS" /\ call.op \notin {"download", "install"} /\ obj.did >= 2) => device'.v = obj.want
  BY <1>14 DEF ChainOK
<1> QED
  BY <1>11, <1>12, <1>13, <1>15, <1>16, <1>17, <1>18, <1>19, <1>20, <1>21

-----------------------------------------------------------------------------
(* The invariant is kept when an operation ends                            *)

LEMMA ProgressRange ==
    ASSUME obj \in Objects
    PROVE  /\ Progress(call.op) \in 0..3
           /\ Progress(call.op) >= 1 =>
                \/ call.op = "download" /\ Progress(call.op) = 1 /\ obj.want = obj.named
                \/ call.op \in {"install", "install_device"} /\ Progress(call.op) = 2 /\ obj.did = 1
                \/ call.op \in Starts /\ Progress(call.op) = 3 /\ obj.did = 2
BY DEF Progress, Starts

\* What an operation that ends leaves as it is.
LEMMA EndedSame ==
    ASSUME AppTypes, Ended
    PROVE  /\ UNCHANGED <<kind, jobs, disk, device, app, port>> /\ call' = NoOperation /\ obj' \in Objects
           /\ obj'.want = obj.want /\ obj'.named = obj.named /\ obj'.proc = obj.proc
           /\ last' \in [op : Operations \union {None}, ok : BOOLEAN]
           /\ (last'.ok => call.todo = <<>> \/ (Step = "have" /\ disk[Slot] # None)) /\ last'.op = call.op
           /\ obj'.did = IF last'.ok THEN Progress(call.op) ELSE 0
<1>1. /\ obj \in Objects /\ call.op \in Operations \union {None} /\ Progress(call.op) \in 0..3 /\ 0 \in 0..3
  BY ProgressRange DEF AppTypes, Calls
<1>2. PICK ok \in BOOLEAN : EndsWith(ok) /\ (ok => call.todo = <<>> \/ (Step = "have" /\ disk[Slot] # None))
  BY DEF Ended
<1>3. PICK n \in 0..3 : obj' = [obj EXCEPT !.did = n] /\ n = IF ok THEN Progress(call.op) ELSE 0
  BY <1>1, <1>2 DEF EndsWith
<1>4. last' = [op |-> call.op, ok |-> ok] /\ call' = NoOperation /\ UNCHANGED <<kind, jobs, disk, device, app, port>>
  BY <1>2 DEF EndsWith, world
<1>5. /\ obj' \in Objects /\ obj'.want = obj.want /\ obj'.named = obj.named /\ obj'.proc = obj.proc
      /\ obj'.did = n
  BY <1>1, <1>3 DEF Objects
<1>6. last' \in [op : Operations \union {None}, ok : BOOLEAN] /\ last'.ok = ok /\ last'.op = call.op
  BY <1>1, <1>4
<1> QED
  BY <1>2, <1>3, <1>4, <1>5, <1>6

\* Between two operations nothing is under way.
LEMMA NothingUnderWay ==
    ASSUME call' = NoOperation
    PROVE  /\ call' \in Calls /\ call'.op = None /\ call'.todo = <<>> /\ CallOK' /\ Idle'
           /\ None \notin Starts \union {"stop", "download", "install", "install_device"}
<1>1. call' = [op |-> None, todo |-> <<>>, tries |-> 0, resp |-> None]
  BY DEF NoOperation
<1>2. call'.op = None /\ call'.todo = <<>> /\ <<>> \in Seq(AllSteps) /\ 0 \in 0..1 /\ None \in Found
  BY <1>1 DEF Found
<1>3. call' \in Calls
  BY <1>1, <1>2 DEF Calls
<1>4. Idle' /\ Follows(call.todo)'
  BY <1>2 DEF Idle, Follows
<1>5. None \notin Starts \union {"stop", "download", "install", "install_device"}
  BY DEF None, Starts
<1> QED
  BY <1>2, <1>3, <1>4, <1>5 DEF CallOK, Calls

LEMMA EndedOK ==
    ASSUME AppTypes, CallOK, PortOK, HandleOK, StopsOK, AnswerOK, Ended
    PROVE  AppTypes' /\ CallOK' /\ PortOK' /\ HandleOK' /\ StopsOK' /\ AnswerOK'
<1>1. /\ UNCHANGED <<kind, jobs, disk, device, app, port>> /\ call' = NoOperation /\ obj' \in Objects
      /\ obj'.want = obj.want /\ obj'.named = obj.named /\ obj'.proc = obj.proc
      /\ last' \in [op : Operations \union {None}, ok : BOOLEAN]
      /\ (last'.ok => call.todo = <<>> \/ (Step = "have" /\ disk[Slot] # None)) /\ last'.op = call.op
  BY EndedSame
<1>2. call' \in Calls /\ call'.op = None /\ CallOK' /\ None \notin Starts \union {"stop", "download", "install", "install_device"}
  BY <1>1, NothingUnderWay
<1>3. AppTypes' /\ PortOK' /\ HandleOK'
  BY <1>1, <1>2 DEF AppTypes, PortOK, HandleOK
<1>4. ASSUME last'.ok, call.op # "download", call.op # None PROVE call.todo = <<>> /\ Left = {}
  <2>1. call.todo = <<>> \/ (Step = "have" /\ call.todo # <<>>)
    BY <1>1, <1>4
  <2>2. ASSUME Step = "have", call.todo # <<>> PROVE FALSE
    <3>1. call.todo \in Seq(AllSteps) /\ Step = Head(call.todo) /\ Step \in Left
      BY <2>2, NextStep DEF AppTypes, Calls, Step, Left
    <3>2. call.op \in DOMAIN Scripts /\ Left \subseteq StepsOf(Scripts[call.op])
      BY <1>4 DEF CallOK, Idle
    <3>3. Table(call.op, StepsOf(Scripts[call.op]))
      BY <3>2, TablesAlways DEF TablesOK, AppTypes
    <3> QED
      BY <1>4, <2>2, <3>1, <3>2, <3>3 DEF Table
  <2>3. call.todo = <<>>
    BY <2>1, <2>2
  <2> QED
    BY <2>3 DEF Left, StepsOf
<1>5. Class' = Class /\ IsLiteServ' = IsLiteServ
  BY <1>1, SameKind
<1>6. StopsOK'
  <2>1. ASSUME Returned("stop")' PROVE StopDone({})'
    <3>1. last'.ok /\ call.op = "stop"
      BY <1>1, <2>1 DEF Returned
    <3>2. StopDone({})
      BY <1>4, <3>1 DEF StopsOK, None
    <3> QED
      BY <1>1, <1>5, <3>2 DEF StopDone
  <2> QED
    BY <1>2, <2>1 DEF StopsOK
<1>7. AnswerOK'
  <2>1. ASSUME IsLiteServ', Returned("start")' \/ Returned("start_device")' PROVE app'.v \in {None, obj'.want}
    <3>1. last'.ok /\ call.op \in Starts
      BY <1>1, <2>1 DEF Returned, Starts
    <3>2. AnswerDone({}) /\ IsLiteServ
      BY <1>2, <1>4, <1>5, <2>1, <3>1 DEF AnswerOK, Starts
    <3> QED
      BY <1>1, <3>2 DEF AnswerDone
  <2> QED
    BY <1>2, <2>1 DEF AnswerOK
<1> QED
  BY <1>2, <1>3, <1>6, <1>7

LEMMA EndedChainOK ==
    ASSUME AppTypes, CallOK, ChainOK, Ended
    PROVE  ChainOK'
<1>1. /\ UNCHANGED <<kind, jobs, disk, device, app, port>> /\ call' = NoOperation
      /\ obj'.want = obj.want /\ obj'.named = obj.named
      /\ (last'.ok => call.todo = <<>> \/ (Step = "have" /\ disk[Slot] # None))
      /\ obj'.did = IF last'.ok THEN Progress(call.op) ELSE 0
  BY EndedSame
<1>2. call'.op = None /\ Idle' /\ None \notin Starts \union {"stop", "download", "install", "install_device"}
  BY <1>1, NothingUnderWay
<1>3. Class' = Class /\ Slot' = Slot
  BY <1>1, SameKind, SameSlot
<1>4. obj \in Objects /\ disk \in [Slots -> Found]
  BY DEF AppTypes
<1> SUFFICES ASSUME kind \in Replacing
    PROVE /\ obj'.did >= 1 => disk[Slot] = obj.want
          /\ (Class = "JavaWS" /\ obj'.did >= 2) => device.v = obj.want
          /\ (Class = "iOS" /\ obj'.did >= 2) => device.v = obj.want /\ app.v \in {None, obj.want}
          /\ obj'.did = 3 => app.v \in {None, obj.want}
  <2>1. kind' \in Replacing =>
          /\ kind' = "ios" => \A v \in Versions : disk'[v] \in {None, v}
          /\ Class' \in {"Java", "JavaWS"} => obj'.want = obj'.named
    BY <1>1, <1>3 DEF ChainOK
  <2> QED
    BY <1>1, <1>2, <1>3, <2>1 DEF ChainOK
<1> SUFFICES ASSUME obj'.did >= 1
    PROVE /\ disk[Slot] = obj.want
          /\ (Class = "JavaWS" /\ obj'.did >= 2) => device.v = obj.want
          /\ (Class = "iOS" /\ obj'.did >= 2) => device.v = obj.want /\ app.v \in {None, obj.want}
          /\ obj'.did = 3 => app.v \in {None, obj.want}
  <2>1. obj'.did \in 0..3
    BY <1>1, <1>4, ProgressRange
  <2> QED
    BY <2>1
<1>5. last'.ok /\ obj'.did = Progress(call.op) /\ (call.todo = <<>> \/ (Step = "have" /\ disk[Slot] # None))
  BY <1>1
<1>6. \/ call.op = "download" /\ obj'.did = 1 /\ obj.want = obj.named
      \/ call.op \in {"install", "install_device"} /\ obj'.did = 2 /\ obj.did = 1
      \/ call.op \in Starts /\ obj'.did = 3 /\ obj.did = 2
  BY <1>4, <1>5, ProgressRange
<1>7. call.op # None
  BY <1>2, <1>6 DEF None
<1>8. CASE call.todo = <<>>
  <2>1. Left = {}
    BY <1>8 DEF Left, StepsOf
  <2>2. CASE call.op = "download" /\ obj'.did = 1 /\ obj.want = obj.named
    BY <2>1, <2>2 DEF ChainOK
  <2>3. CASE call.op \in {"install", "install_device"} /\ obj'.did = 2 /\ obj.did = 1
    <3>1. disk[Slot] = obj.want
      BY <2>3 DEF ChainOK
    <3>3. Class = "iOS" => device.v = obj.want /\ app.v \in {None, obj.want}
      BY <2>1, <2>3, <3>1 DEF ChainOK
    <3>2. Class = "JavaWS" => call.op = "install"
      <4>1. ASSUME Class = "JavaWS" PROVE DOMAIN Scripts = {"download", "install", "start", "stop"}
        BY <4>1 DEF Scripts
      <4> QED
        BY <1>7, <2>3, <4>1 DEF CallOK, Idle
    <3> QED
      BY <2>1, <2>3, <3>1, <3>2, <3>3 DEF ChainOK
  <2>4. CASE call.op \in Starts /\ obj'.did = 3 /\ obj.did = 2
    <3>1. disk[Slot] = obj.want /\ (Class = "JavaWS" => device.v = obj.want)
      BY <2>4 DEF ChainOK, Starts
    <3>2. Class # "iOS" => app.v \in {None, Target}
      BY <2>1, <2>4 DEF ChainOK
    <3>3. Class = "iOS" => device.v = obj.want /\ app.v \in {None, obj.want}
      BY <2>4 DEF ChainOK
    <3> QED
      BY <3>1, <3>2, <3>3 DEF Target
  <2> QED
    BY <1>6, <2>2, <2>3, <2>4
<1>9. CASE call.todo # <<>>
  <2>1. Step = "have" /\ disk[Slot] # None
    BY <1>5, <1>9
  <2>2. call.todo \in Seq(AllSteps) /\ Step \in Left
    BY <1>9, NextStep DEF AppTypes, Calls, Step, Left
  <2>3. call.op \in DOMAIN Scripts /\ Left \subseteq StepsOf(Scripts[call.op])
    BY <1>7 DEF CallOK, Idle
  <2>4. Table(call.op, StepsOf(Scripts[call.op]))
    BY <2>3, TablesAlways DEF TablesOK, AppTypes
  <2>5. call.op = "download" /\ kind = "ios"
    BY <2>1, <2>2, <2>3, <2>4 DEF Table, ChainTable
  <2>6. obj'.did = 1 /\ obj.want = obj.named
    BY <1>6, <2>5 DEF Starts
  <2>7. Slot = obj.named /\ obj.named \in Versions
    BY <1>4, <2>5 DEF Slot, LiteNames, MonoNames, Versioned, iOSNames, Objects
  <2>8. disk[obj.named] \in {None, obj.named}
    BY <2>5, <2>7 DEF ChainOK
  <2> QED
    BY <2>1, <2>6, <2>7, <2>8
<1> QED
  BY <1>8, <1>9

-----------------------------------------------------------------------------
(* The invariant holds at first and is kept by every step                  *)

LEMMA AppInitOK == AppInit => AppInv
<1> SUFFICES ASSUME AppInit PROVE AppInv
  OBVIOUS
<1>1. PICK v \in Versions, id \in KnownIds, here \in Places : obj = NewObject(v, id, here)
  BY DEF AppInit
<1>a. (id /\ Class = "iOS") \in BOOLEAN
  OBVIOUS
<1>2. id \in BOOLEAN /\ here \in BOOLEAN
  BY DEF KnownIds, Places
<1>3. obj \in Objects /\ obj.did = 0 /\ obj.want = obj.named
  BY <1>a, <1>1, <1>2 DEF NewObject, Objects
<1>4. /\ app = NoApp /\ NoApp \in Apps /\ NoApp.v = None /\ ~NoApp.mine /\ port = None /\ None \in Found
      /\ kind \in Kinds /\ jobs = 1
  <2>1. NoApp = [v |-> None, mine |-> FALSE] /\ None \in Found
    BY DEF NoApp, Found
  <2> QED
    BY <2>1 DEF AppInit, Apps
<1>5. jobs \in 1..MaxJobs
  BY <1>4, AppAssumption
<1>6. disk = [s \in Slots |-> None] /\ disk \in [Slots -> Found] /\ Versions \subseteq Slots
  BY <1>4 DEF AppInit, Slots
<1>7. device \in Devices
  BY <1>4 DEF AppInit, Devices
<1>8. last = [op |-> None, ok |-> FALSE] /\ ~last.ok
  BY DEF AppInit
<1>9. last \in [op : Operations \union {None}, ok : BOOLEAN]
  BY <1>8
<1>10. call = [op |-> None, todo |-> <<>>, tries |-> 0, resp |-> None]
  BY DEF AppInit, NoOperation
<1>11. call.op = None /\ call.todo = <<>> /\ <<>> \in Seq(AllSteps) /\ 0 \in 0..1
  BY <1>10
<1>12. call \in Calls
  BY <1>4, <1>10, <1>11 DEF Calls
<1>13. CallOK
  BY <1>11 DEF CallOK, Follows, Idle
<1>14. None \notin Starts \union {"stop", "download", "install", "install_device"}
  BY DEF None, Starts
<1>15. ~Returned("stop") /\ ~Returned("start") /\ ~Returned("start_device")
  BY <1>8 DEF Returned
<1>16. AppTypes /\ PortOK /\ HandleOK
  BY <1>3, <1>4, <1>5, <1>6, <1>7, <1>9, <1>12 DEF AppTypes, PortOK, HandleOK
<1>17. StopsOK /\ AnswerOK
  BY <1>11, <1>14, <1>15 DEF StopsOK, AnswerOK
<1>18. ChainOK
  <2>1. \A v1 \in Versions : disk[v1] = None
    BY <1>6
  <2> QED
    BY <1>3, <1>11, <1>14, <2>1 DEF ChainOK
<1> QED
  BY <1>13, <1>16, <1>17, <1>18 DEF AppInv

LEMMA NewJobOK ==
    ASSUME AppInv, NewJob
    PROVE  AppInv'
<1>1. /\ AppTypes /\ CallOK /\ PortOK /\ Idle /\ jobs < MaxJobs /\ jobs' = jobs + 1
      /\ UNCHANGED <<kind, disk, device, port, call>> /\ app' = [app EXCEPT !.mine = FALSE]
      /\ last' = [op |-> None, ok |-> FALSE]
  BY DEF AppInv, NewJob
<1>2. PICK v \in Versions, id \in KnownIds : obj' = NewObject(v, id, obj.here)
  BY DEF NewJob
<1>a. (id /\ Class = "iOS") \in BOOLEAN
  OBVIOUS
<1>3. id \in BOOLEAN /\ obj.here \in BOOLEAN
  BY <1>1 DEF KnownIds, AppTypes, Objects
<1>4. obj' \in Objects /\ obj'.did = 0 /\ obj'.want = obj'.named /\ obj'.here = obj.here
  BY <1>a, <1>2, <1>3 DEF NewObject, Objects
<1>5. app' \in Apps /\ app'.v = app.v /\ ~app'.mine
  BY <1>1 DEF AppTypes, Apps
<1>6. jobs' \in 1..MaxJobs
  BY <1>1, AppAssumption DEF AppTypes
<1>7. last' \in [op : Operations \union {None}, ok : BOOLEAN] /\ ~last'.ok
  BY <1>1
<1>8. AppTypes'
  BY <1>1, <1>4, <1>5, <1>6, <1>7 DEF AppTypes
<1>9. Idle' /\ call'.op = None /\ call'.todo = <<>>
  BY <1>1 DEF Idle, CallOK
<1>10. CallOK'
  BY <1>9 DEF CallOK, Follows
<1>11. PortOK' /\ HandleOK'
  BY <1>1, <1>5 DEF PortOK, HandleOK
<1>12. None \notin Starts \union {"stop", "download", "install", "install_device"}
  BY DEF None, Starts
<1>13. ~Returned("stop")' /\ ~Returned("start")' /\ ~Returned("start_device")'
  BY <1>7 DEF Returned
<1>14. StopsOK' /\ AnswerOK'
  BY <1>9, <1>12, <1>13 DEF StopsOK, AnswerOK
<1>15. Class' = Class
  BY <1>1, SameKind
<1>16. ChainOK'
  <2>1. kind' \in Replacing /\ kind' = "ios" => \A v1 \in Versions : disk'[v1] \in {None, v1}
    BY <1>1 DEF AppInv, ChainOK
  <2> QED
    BY <1>4, <1>9, <1>12, <2>1 DEF ChainOK
<1> QED
  BY <1>8, <1>10, <1>11, <1>14, <1>16 DEF AppInv

LEMMA BeginOK ==
    ASSUME AppInv, NEW op \in Operations, Begin(op)
    PROVE  AppInv'
<1>1. /\ AppTypes /\ CallOK /\ PortOK /\ HandleOK /\ Idle /\ op \in DOMAIN Scripts
      /\ UNCHANGED <<kind, jobs, disk, device, app, port>> /\ last' = [op |-> None, ok |-> FALSE]
  BY DEF AppInv, Begin, world
<1>2. Script(Scripts[op]) /\ Table(op, StepsOf(Scripts[op]))
  BY <1>1, ScriptsAlways, TablesAlways DEF ScriptsOK, TablesOK, AppTypes
<1>3. call' = [op |-> op, todo |-> Scripts[op], tries |-> 0, resp |-> None]
  BY DEF Begin, NoOperation
<1>4. Scripts[op] \in Seq(AllSteps) /\ Follows(Scripts[op]) /\ None \in Found /\ 0 \in 0..1 /\ op # None
  BY <1>2 DEF Script, Found, Operations, None
<1>5. call'.op = op /\ call'.todo = Scripts[op]
  BY <1>3
<1>6. call' \in Calls
  <2> HIDE DEF Scripts, AllSteps, Operations
  <2> QED
    BY <1>3, <1>4 DEF Calls
<1>7. PICK w \in Versions : obj' = [obj EXCEPT !.want = w] /\ (w # obj.want => op = "download" /\ Class \notin {"Java", "JavaWS", "Cpp"})
  <2>1. obj \in Objects
    BY <1>1 DEF AppTypes
  <2>2. CASE obj' = obj
    <3>1. obj.want \in Versions /\ obj = [obj EXCEPT !.want = obj.want]
      BY <2>1 DEF Objects
    <3> QED
      BY <2>2, <3>1
  <2>3. CASE \E w \in Versions : obj' = [obj EXCEPT !.want = w] /\ op = "download" /\ Class \notin {"Java", "JavaWS", "Cpp"}
    BY <2>3
  <2> QED
    BY <2>2, <2>3 DEF Begin
<1>8. /\ obj' \in Objects /\ obj'.want = w /\ obj'.named = obj.named /\ obj'.here = obj.here
      /\ obj'.proc = obj.proc /\ obj'.did = obj.did /\ obj'.ctl = obj.ctl
  BY <1>1, <1>7 DEF AppTypes, Objects
<1>9. last' \in [op : Operations \union {None}, ok : BOOLEAN] /\ ~last'.ok
  BY <1>1
<1>10. AppTypes' /\ PortOK' /\ HandleOK'
  BY <1>1, <1>6, <1>8, <1>9 DEF AppTypes, PortOK, HandleOK
<1>11. Class' = Class /\ IsLiteServ' = IsLiteServ /\ Scripts' = Scripts
  BY <1>1, <1>8, SameKind, SameScripts
<1>12. Left' = StepsOf(Scripts[op])
  BY <1>5 DEF Left, StepsOf
<1>13. ~Idle' /\ Follows(call.todo)'
  BY <1>1, <1>4, <1>5, SameFollows DEF Idle
<1>14. CallOK'
  BY <1>1, <1>5, <1>11, <1>12, <1>13 DEF CallOK
<1>15. ~Returned("stop")' /\ ~Returned("start")' /\ ~Returned("start_device")'
  BY <1>9 DEF Returned
<1>16. StopsOK'
  <2>1. ASSUME op = "stop" PROVE StopDone(Left)'
    <3>1. StopTable(Left')
      BY <1>2, <1>12, <2>1 DEF Table
    <3> QED
      BY <1>1, <1>11, <3>1 DEF StopDone, StopTable
  <2> QED
    BY <1>5, <1>15, <2>1 DEF StopsOK
<1>17. AnswerOK'
  <2>1. ASSUME op \in Starts, IsLiteServ PROVE "reachable" \in Left' /\ "version" \in Left'
    <3>1. "reachable" \in StepsOf(Scripts[op])
      BY <1>2, <2>1 DEF Table
    <3> QED
      BY <1>4, <1>12, <2>1, <3>1, VersionFollows
  <2> QED
    BY <1>5, <1>11, <1>15, <2>1 DEF AnswerOK, AnswerDone
<1>18. ChainOK'
  <2> SUFFICES ASSUME kind \in Replacing PROVE ChainOK'
    BY <1>1 DEF ChainOK
  <2>1. ChainOK /\ call.op = None /\ None \notin Starts \union {"stop", "download", "install", "install_device"}
    BY <1>1 DEF AppInv, Idle, None, Starts
  <2>2. ChainTable(op, Left')
    BY <1>2, <1>12 DEF Table
  <2>3. kind' = "ios" => \A v \in Versions : disk'[v] \in {None, v}
    BY <1>1, <2>1 DEF ChainOK
  <2>4. Class' \in {"Java", "JavaWS"} => obj'.want = obj'.named
    BY <1>7, <1>8, <1>11, <2>1 DEF ChainOK
  <2>5. op # "download" => Slot' = Slot /\ obj'.want = obj.want
    BY <1>1, <1>7, <1>8, SameSlot
  <2>6. (op # "download" /\ obj'.did >= 1) => disk'[Slot'] = obj'.want
    BY <1>1, <1>8, <2>1, <2>5 DEF ChainOK
  <2>7. op = "download" => Left' \cap {"unpack", "fetch"} # {}
    BY <2>2 DEF ChainTable
  <2>8. (Class' = "JavaWS" /\ op \notin {"download", "install"} /\ obj'.did >= 2) => device'.v = obj'.want
    BY <1>1, <1>8, <1>11, <2>1, <2>5 DEF ChainOK
  <2>9. (Class' = "JavaWS" /\ op = "install") => "service_install" \in Left'
    BY <1>11, <2>2 DEF ChainTable
  <2>10. (Class' # "iOS" /\ op \in Starts) => "try_kill" \in Left'
    BY <1>11, <2>2 DEF ChainTable
  <2>12. (Class' = "iOS" /\ op \in {"install", "install_device"}) => Left' \cap iOSInstalls # {}
    BY <1>11, <2>2 DEF ChainTable
  <2>13. (Class' = "iOS" /\ op \in Starts /\ obj'.did >= 2) =>
            device'.v = obj'.want /\ app'.v \in {None, obj'.want}
    <3>1. op \in Starts => op # "download"
      BY DEF Starts
    <3> QED
      BY <1>1, <1>8, <1>11, <2>1, <2>5, <3>1 DEF ChainOK
  <2>11. (Class' \in {"Java", "JavaWS"} /\ op = "download") => call'.todo = <<"wipe", "fetch">>
    <3>1. ASSUME Class = "Java", op = "download" PROVE Scripts[op] = <<"wipe", "fetch">>
      BY <3>1 DEF Scripts, JavaDownload
    <3>2. ASSUME Class = "JavaWS", op = "download" PROVE Scripts[op] = <<"wipe", "fetch">>
      BY <3>2 DEF Scripts, JavaWSDownload
    <3> QED
      BY <1>5, <1>11, <3>1, <3>2
  <2> QED
    BY <1>5, <1>13, <2>3, <2>4, <2>6, <2>7, <2>8, <2>9, <2>10, <2>11, <2>12, <2>13 DEF ChainOK
<1> QED
  BY <1>10, <1>14, <1>16, <1>17, <1>18 DEF AppInv

\* The application comes up, dies or is used; or nothing happens.
LEMMA WorldOK ==
    ASSUME AppInv, Listens \/ Dies \/ Used \/ UNCHANGED appVars
    PROVE  AppInv'
<1>1. UNCHANGED <<kind, jobs, obj, disk, call, last>>
  BY DEF Listens, Dies, Used, appVars
<1>2. AppTypes /\ CallOK /\ PortOK /\ HandleOK /\ StopsOK /\ AnswerOK /\ ChainOK
  BY DEF AppInv
<1>3. NoApp \in Apps /\ NoApp.v = None /\ ~NoApp.mine /\ None \in Found
  BY <1>2, AppFields
<1>4. /\ app' = app \/ (app' = NoApp /\ port' = None)
      /\ device' \in Devices /\ device'.v = device.v /\ PortOK' /\ port' \in Found
      /\ kind = "lite-ios" => port' \in {None, port}
      /\ device' = device \/ (Idle /\ port # None)
  <2>1. CASE Listens
    <3>1. kind # "lite-ios"
      BY <2>1, ClassesNamed DEF Listens
    <3> QED
      BY <1>2, <2>1, <3>1 DEF Listens, PortOK, AppTypes, Apps
  <2>2. CASE Dies
    BY <1>2, <1>3, <2>2 DEF Dies, AppGone, PortOK, AppTypes
  <2>3. CASE Used
    BY <1>2, <2>3 DEF Used, PortOK, AppTypes, Devices
  <2>4. CASE UNCHANGED appVars
    BY <1>2, <2>4 DEF appVars, PortOK, AppTypes
  <2> QED
    BY <2>1, <2>2, <2>3, <2>4
<1>5. Class' = Class /\ IsLiteServ' = IsLiteServ /\ Scripts' = Scripts /\ Slot' = Slot /\ Left' = Left
  BY <1>1, SameKind, SameScripts, SameSlot DEF Left, StepsOf
<1>6. AppTypes' /\ CallOK'
  <2>1. Follows(call.todo)'
    BY <1>1, <1>2, SameFollows DEF CallOK
  <2> QED
    BY <1>1, <1>2, <1>3, <1>4, <1>5, <2>1 DEF AppTypes, CallOK, Idle
<1>7. HandleOK'
  BY <1>1, <1>2, <1>3, <1>4 DEF HandleOK
<1>8. ASSUME NEW L, StopDone(L), Idle => L = {}
      PROVE  /\ kind' \in Stopping \ Local => L \cap Killers # {} \/ app'.v = None
             /\ kind' \in Local => "kill_process" \in L \/ ~app'.mine \/ obj'.proc = "other"
             /\ kind' = "lite-ios" => "not_running" \in L \/ port' = None
             /\ Class' = "Android" => "clear_s" \in L \/ ~device'.dirty
  <2>1. kind \in Stopping \ Local => L \cap Killers # {} \/ app'.v = None
    BY <1>3, <1>4, <1>8 DEF StopDone
  <2>2. kind \in Local => "kill_process" \in L \/ ~app'.mine \/ obj'.proc = "other"
    BY <1>1, <1>3, <1>4, <1>8 DEF StopDone
  <2>3. kind = "lite-ios" => "not_running" \in L \/ port' = None
    BY <1>4, <1>8 DEF StopDone
  <2>4. ASSUME Class = "Android" PROVE "clear_s" \in L \/ ~device'.dirty
    <3>1. CASE device' = device
      BY <1>8, <2>4, <3>1 DEF StopDone
    <3>2. CASE Idle /\ port # None
      <4>1. ~IsLiteServ
        BY <1>2, <2>4, ClassOf DEF AppTypes, LiteClasses
      <4>2. kind \in Stopping \ Local
        BY <2>4, <4>1, ClassesNamed
      <4>3. app.v = None
        BY <1>8, <3>2, <4>2 DEF StopDone
      <4> QED
        BY <1>2, <3>2, <4>3 DEF PortOK
    <3> QED
      BY <1>4, <3>1, <3>2
  <2> QED
    BY <1>1, <1>5, <2>1, <2>2, <2>3, <2>4
<1>9. StopsOK'
  <2>1. ASSUME call.op = "stop" PROVE StopDone(Left)'
    <3>1. StopDone(Left) /\ ~Idle
      BY <1>2, <2>1 DEF StopsOK, Idle, None
    <3> QED
      BY <1>5, <1>8, <3>1 DEF StopDone
  <2>2. ASSUME Returned("stop") PROVE StopDone({})'
    <3> DEFINE E == {}
    <3>1. StopDone(E) /\ (Idle => E = {})
      BY <1>2, <2>2 DEF StopsOK
    <3> HIDE DEF E
    <3>2. /\ kind' \in Stopping \ Local => E \cap Killers # {} \/ app'.v = None
          /\ kind' \in Local => "kill_process" \in E \/ ~app'.mine \/ obj'.proc = "other"
          /\ kind' = "lite-ios" => "not_running" \in E \/ port' = None
          /\ Class' = "Android" => "clear_s" \in E \/ ~device'.dirty
      BY <1>8, <3>1
    <3> QED
      BY <3>2 DEF StopDone, E
  <2>3. Returned("stop")' => Returned("stop")
    BY <1>1 DEF Returned, Idle
  <2> QED
    BY <1>1, <2>1, <2>2, <2>3 DEF StopsOK
<1>10. AnswerOK'
  <2>1. app'.v \in {None, app.v}
    BY <1>3, <1>4
  <2>2. call.op \in Starts => AnswerDone(Left)'
    BY <1>1, <1>2, <1>5, <2>1 DEF AnswerOK, AnswerDone
  <2>3. (Returned("start")' => Returned("start")) /\ (Returned("start_device")' => Returned("start_device"))
    BY <1>1 DEF Returned, Idle
  <2> QED
    BY <1>1, <1>2, <1>5, <2>1, <2>2, <2>3 DEF AnswerOK
<1>11. ChainOK'
  <2>1. app'.v \in {None, app.v}
    BY <1>3, <1>4
  <2>2. Target' = Target
    BY <1>1, <1>4, <1>5 DEF Target
  <2> QED
    BY <1>1, <1>2, <1>4, <1>5, <2>1, <2>2 DEF ChainOK, Idle
<1> QED
  BY <1>4, <1>6, <1>7, <1>9, <1>10, <1>11 DEF AppInv

\* Every step keeps the invariant.
LEMMA AppNextOK == AppInv /\ [AppNext]_appVars => AppInv'
<1> SUFFICES ASSUME AppInv, [AppNext]_appVars PROVE AppInv'
  OBVIOUS
<1>1. AppTypes /\ CallOK /\ PortOK /\ HandleOK /\ StopsOK /\ AnswerOK /\ ChainOK
  BY DEF AppInv
<1>2. CASE Ended
  BY <1>1, <1>2, EndedOK, EndedChainOK DEF AppInv
<1>3. CASE Moved
  <2>1. AppTypes'
    BY <1>1, <1>3 DEF AppTypes, Moved, CallMoves, ObjectMoves, DiskMoves, DeviceMoves, AppMoves
  <2>2. PortOK'
    BY <1>3 DEF Moved, AppMoves
  <2> QED
    BY <1>1, <1>3, <2>1, <2>2, MovedCallOK, MovedHandleOK, MovedStopsOK, MovedAnswerOK, MovedChainOK
       DEF AppInv
<1>4. CASE ScriptStep \/ Fails
  <2>1. Follows(call.todo)
    BY <1>1 DEF CallOK
  <2> QED
    BY <1>1, <1>2, <1>3, <1>4, <2>1, StepForms
<1>5. CASE NewJob
  BY <1>5, NewJobOK
<1>6. CASE \E op \in Operations : Begin(op)
  BY <1>6, BeginOK
<1>7. CASE Listens \/ Dies \/ Used \/ UNCHANGED appVars
  BY <1>7, WorldOK
<1> QED
  BY <1>4, <1>5, <1>6, <1>7 DEF AppNext

LEMMA AppAlways == AppSpec => []AppInv
BY AppInitOK, AppNextOK, PTL DEF AppSpec

\* A stop that returned leaves no process of this object, no listener and no data of this run
\* (stop of the TestServer and LiteServ classes), whatever failed before it and however the
\* application came up or died between the steps of the script.
THEOREM StopsLeaveNothing == AppSpec => []StopLeavesNothing
<1>1. AppInv => StopLeavesNothing
  <2> SUFFICES ASSUME AppInv PROVE StopLeavesNothing
    OBVIOUS
  <2>1. AppTypeOK
    BY DEF AppInv, AppTypes, AppTypeOK, Objects, Apps, Devices, Calls
  <2>2. ASSUME Returned("stop") PROVE StopDone({}) /\ PortOK
    BY <2>2 DEF AppInv, StopsOK
  <2>3. StopStops
    BY <2>2 DEF StopDone, StopStops, PortOK
  <2>4. StopClears
    BY <2>2 DEF StopDone, StopClears
  <2> QED
    BY <2>1, <2>3, <2>4 DEF StopLeavesNothing
<1> QED
  BY <1>1, AppAlways, PTL

\* What answers after a start that returned is the version asked for: of a LiteServ, since the
\* start compares the version it answers with; on the platforms that replace the package, the
\* installed application and the process, after a download, an installation and a start in this
\* order, whatever earlier jobs left on disk, on the device and on the port, unless a process
\* outlived a kill of this start, which the playbooks ignore.
THEOREM StartsRunAsked == AppSpec => []RunsAsked
<1>1. AppInv => RunsAsked
  <2> SUFFICES ASSUME AppInv PROVE RunsAsked
    OBVIOUS
  <2>1. port \in {None, app.v}
    BY DEF AppInv, PortOK
  <2>2. LiteServVersion
    BY <2>1 DEF AppInv, AnswerOK, LiteServVersion
  <2>3. FreshChain
    BY <2>1 DEF AppInv, ChainOK, FreshChain
  <2> QED
    BY <2>2, <2>3 DEF RunsAsked
<1> QED
  BY <1>1, AppAlways, PTL
=============================================================================
