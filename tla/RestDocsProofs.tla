---------------------------- MODULE RestDocsProofs ----------------------------
(***************************************************************************)
(* Theorems about the document operations of the REST client, for every    *)
(* number of clients and documents, every assignment of operations to      *)
(* clients, and every number of revisions.                                 *)
(***************************************************************************)
EXTENDS RestDocs, FiniteSetTheorems, WellFoundedInduction, TLAPS

-----------------------------------------------------------------------------
(* Least and greatest numbers                                              *)

\* A set of natural numbers has a least one.
LEMMA Least ==
    ASSUME NEW T \in SUBSET Nat, T # {}
    PROVE  \E x \in T : \A y \in T : x <= y
<1> DEFINE R == {ss \in Nat \X Nat : ss[1] < ss[2]}
<1>0. IsWellFoundedOn(R, Nat)
  BY NatLessThanWellFounded, Zenon DEF OpToRel
<1>1. \E x \in T : \A y \in T : ~ (<<y, x>> \in R)
  BY <1>0, WFMin
<1>2. PICK x \in T : \A y \in T : ~ (<<y, x>> \in R)
  BY <1>1
<1>3. ASSUME NEW y \in T PROVE x <= y
  <2>1. x \in Nat /\ y \in Nat /\ <<y, x>> \notin R
    BY <1>2
  <2>2. ~(y < x)
    <3>1. y < x => <<y, x>> \in R
      BY <2>1
    <3> QED
      BY <2>1, <3>1
  <2> QED
    BY <2>1, <2>2
<1> QED
  BY <1>3

\* A bounded one has a greatest one, which Max finds.
LEMMA Greatest ==
    ASSUME NEW B \in Nat, NEW T \in SUBSET (0..B), T # {}
    PROVE  Max(T) \in T /\ \A y \in T : y <= Max(T)
<1> DEFINE U == {B - x : x \in T}
<1>0. \A x \in T : x \in Nat /\ B - x \in Nat
  OBVIOUS
<1>1. U \in SUBSET Nat /\ U # {}
  BY <1>0
<1>2. PICK u \in U : \A v \in U : u <= v
  BY <1>1, Least
<1>3. PICK x \in T : u = B - x
  BY <1>2
<1>4. \A y \in T : x >= y
  BY <1>2, <1>3
<1> QED
  BY <1>4 DEF Max

-----------------------------------------------------------------------------
(* Trees and their winners                                                 *)

\* Of some revisions with ids of their own, one beats every other.
LEMMA HasBest ==
    ASSUME NEW L, L # {}, NEW B \in Nat,
           \A r \in L : r.gen \in 0..B /\ r.id \in 0..B /\ r.dead \in BOOLEAN,
           \A r, s \in L : r.id = s.id => r = s
    PROVE  \E r \in L : \A s \in L \ {r} : Beats(r, s)
<1> DEFINE A == IF \E r \in L : ~r.dead THEN {r \in L : ~r.dead} ELSE L
           G == {r.gen : r \in A}
           C == {r \in A : r.gen = Max(G)}
           I == {r.id : r \in C}
<1>1. A # {} /\ A \subseteq L /\ (\A r \in A, s \in L : s \notin A => ~r.dead /\ s.dead)
  OBVIOUS
<1>1a. \A r, s \in A : r.dead = s.dead
  OBVIOUS
<1> HIDE DEF A
<1>2. G # {} /\ G \in SUBSET (0..B)
  BY <1>1
<1>3. Max(G) \in G /\ \A g \in G : g <= Max(G)
  BY <1>2, Greatest
<1>4. C # {} /\ C \subseteq A /\ \A r \in A : r.gen <= Max(G)
  BY <1>3
<1>4a. \A r \in C : r.gen = Max(G)
  OBVIOUS
<1>4b. \A r \in A : r \notin C => r.gen # Max(G)
  OBVIOUS
<1>4c. Max(G) \in Nat
  BY <1>2, <1>3
<1> HIDE DEF G, C
<1>5. I # {} /\ I \in SUBSET (0..B)
  BY <1>1, <1>4
<1>6. Max(I) \in I /\ \A i \in I : i <= Max(I)
  BY <1>5, Greatest
<1>7. PICK r \in C : r.id = Max(I)
  BY <1>6
<1>8. ASSUME NEW s \in L \ {r} PROVE Beats(r, s)
  <2>0. r \in A /\ r \in L
    BY <1>7, <1>4, <1>1
  <2>1. CASE s \notin A
    BY <2>1, <2>0, <1>1 DEF Beats
  <2>2. CASE s \in A /\ s \notin C
    <3>1. r.dead = s.dead
      BY <1>1a, <2>0, <2>2
    <3>2. r.gen > s.gen
      BY <2>2, <2>0, <1>1, <1>4, <1>4a, <1>4b, <1>4c
    <3> QED
      BY <3>1, <3>2 DEF Beats
  <2>3. CASE s \in A /\ s \in C
    <3>1. r.dead = s.dead /\ r.gen = s.gen
      BY <1>1a, <1>4a, <2>0, <2>3
    <3>2. s.id <= r.id /\ s.id # r.id
      BY <1>6, <1>7, <2>0, <2>3, <1>1
    <3>3. r.id > s.id
      BY <3>2, <2>0, <1>1
    <3> QED
      BY <3>1, <3>3 DEF Beats
  <2> QED
    BY <2>1, <2>2, <2>3
<1> QED
  BY <1>8, <1>7, <1>4, <1>1

\* The best of some revisions is the one that beats every other.
Best(L) == CHOOSE r \in L : \A s \in L \ {r} : Beats(r, s)

\* There is only one.
LEMMA BestIs ==
    ASSUME NEW L, NEW r \in L, \A s \in L \ {r} : Beats(r, s),
           \A s \in L : s.gen \in Nat /\ s.id \in Nat /\ s.dead \in BOOLEAN
    PROVE  Best(L) = r
<1>1. Best(L) \in L /\ \A s \in L \ {Best(L)} : Beats(Best(L), s)
  BY DEF Best
<1>2. SUFFICES ASSUME Best(L) # r PROVE FALSE
  OBVIOUS
<1>3. Beats(r, Best(L)) /\ Beats(Best(L), r)
  BY <1>1, <1>2
<1> DEFINE b == Best(L)
<1>4. b \in L
  BY <1>1
<1>5. b.gen \in Nat /\ b.id \in Nat /\ b.dead \in BOOLEAN
      /\ r.gen \in Nat /\ r.id \in Nat /\ r.dead \in BOOLEAN
  BY <1>4
<1>6. Beats(r, b) /\ Beats(b, r)
  BY <1>3
<1> HIDE DEF b
<1> QED
  BY <1>5, <1>6 DEF Beats

\* Revisions as the operations make them, with ids from U: an id is given once, and a
\* revision has a longer history than the one it replaces, and counts one update more when
\* update_doc made it.
RevOK(r, U) ==
    /\ r \in [doc : Docs, id : Ids, parent : {0} \union Ids, gen : Nat,
              past : SUBSET Ids, dead : BOOLEAN, updates : Nat, by : {"add", "update", "other"}]
    /\ r.id \in U /\ r.parent \in U \union {0}
    /\ r.past \subseteq U \ {r.id} /\ r.gen = 1 + Cardinality(r.past)
    /\ r.updates <= Cardinality(U)
Unique(R) == \A r, s \in R : r.id = s.id => r = s
Longer(R) == \A r, s \in R : r.doc = s.doc /\ s.parent = r.id => s.gen > r.gen
Counted(R) == \A r, p \in R : r.by = "update" /\ p.doc = r.doc /\ p.id = r.parent =>
                   r.updates = p.updates + 1
Grown(R, U) ==
    /\ U \subseteq Ids
    /\ \A r \in R : RevOK(r, U)
    /\ Unique(R) /\ Longer(R) /\ Counted(R)

\* The leaves of d among the revisions R
Tips(R, d) == {r \in R : r.doc = d /\ \A s \in R : s.doc = d => s.parent # r.id}

\* They are what the database calls its leaves.
LEMMA TipsAreLeaves ==
    ASSUME NEW d
    PROVE  /\ Leaves(d) = Tips(revs, d) /\ Leaves(d)' = Tips(revs', d)
           /\ Winner(d) = Best(Tips(revs, d)) /\ Winner(d)' = Best(Tips(revs', d))
<1>1. Leaves(d) = Tips(revs, d) /\ Leaves(d)' = Tips(revs', d)
  BY DEF Leaves, Tips, Tree
<1>2. Winner(d) = Best(Leaves(d)) /\ Winner(d)' = Best(Leaves(d)')
  BY DEF Winner, Best, Beats
<1> QED
  BY <1>1, <1>2

\* Sets of ids are finite, and no greater than all of them.
LEMMA FewIds ==
    ASSUME NEW U \in SUBSET Ids
    PROVE  IsFiniteSet(U) /\ Cardinality(U) \in 0..MaxRevs
<1>1. IsFiniteSet(Ids) /\ Cardinality(Ids) = MaxRevs
  BY FS_Interval, RestAssumption DEF Ids
<1>2. IsFiniteSet(U) /\ Cardinality(U) <= MaxRevs
  BY <1>1, FS_Subset
<1> QED
  BY <1>2, FS_CardinalityType, RestAssumption

\* A new id makes one more of them.
LEMMA OneMore ==
    ASSUME NEW U \in SUBSET Ids, NEW i \in Ids \ U
    PROVE  /\ Cardinality(U \union {i}) = Cardinality(U) + 1
           /\ U \union {i} \in SUBSET Ids /\ Cardinality(U) < MaxRevs
<1>1. U \union {i} \in SUBSET Ids
  OBVIOUS
<1>2. Cardinality(U \union {i}) = Cardinality(U) + 1
  BY FewIds, FS_AddElement
<1> QED
  BY <1>1, <1>2, FewIds, RestAssumption

\* The length of a history is bounded.
LEMMA ShortHistory ==
    ASSUME NEW U \in SUBSET Ids, NEW r, RevOK(r, U)
    PROVE  r.gen \in 1..MaxRevs /\ r.id \in 1..MaxRevs
<1>1. r.past \in SUBSET Ids /\ r.id \in Ids \ r.past
  BY DEF RevOK
<1>2a. Cardinality(r.past) < MaxRevs
  BY <1>1, OneMore
<1>2. Cardinality(r.past) < MaxRevs /\ Cardinality(r.past) \in Nat
  BY <1>1, <1>2a, FewIds
<1>3. r.gen = 1 + Cardinality(r.past)
  BY DEF RevOK
<1> QED
  BY <1>1, <1>2, <1>3, RestAssumption DEF Ids

\* A document that has revisions has leaves, and one of them wins: a live one when there
\* is one.
LEMMA WinnerWins ==
    ASSUME NEW R, NEW U, Grown(R, U), NEW d, \E r \in R : r.doc = d
    PROVE  /\ Best(Tips(R, d)) \in Tips(R, d)
           /\ \A s \in Tips(R, d) \ {Best(Tips(R, d))} : Beats(Best(Tips(R, d)), s)
           /\ (\E r \in Tips(R, d) : ~r.dead) <=> ~Best(Tips(R, d)).dead
<1> DEFINE T == {r \in R : r.doc = d}
           G == {r.gen : r \in T}
           L == Tips(R, d)
<1>0. MaxRevs \in Nat
  BY RestAssumption
<1>1. \A r \in R : r.gen \in 0..MaxRevs /\ r.id \in 0..MaxRevs /\ r.dead \in BOOLEAN
  <2> SUFFICES ASSUME NEW r \in R
               PROVE  r.gen \in 0..MaxRevs /\ r.id \in 0..MaxRevs /\ r.dead \in BOOLEAN
    OBVIOUS
  <2>1. U \in SUBSET Ids /\ RevOK(r, U)
    BY DEF Grown
  <2>2. r.gen \in 1..MaxRevs /\ r.id \in 1..MaxRevs
    BY <2>1, ShortHistory
  <2>3. r.dead \in BOOLEAN
    BY <2>1 DEF RevOK
  <2> QED
    BY <2>2, <2>3, <1>0
<1>2. G # {} /\ G \in SUBSET (0..MaxRevs)
  BY <1>1
<1>3. Max(G) \in G /\ \A g \in G : g <= Max(G)
  BY <1>0, <1>2, Greatest
<1>4. PICK m \in T : m.gen = Max(G)
  BY <1>3
<1>5. m \in L
  <2> SUFFICES ASSUME NEW s \in R, s.doc = d, s.parent = m.id PROVE FALSE
    BY <1>4 DEF Tips
  <2>1. s.gen > m.gen
    BY <1>4 DEF Grown, Longer
  <2>2. s.gen \in G
    OBVIOUS
  <2>3. s.gen <= m.gen
    BY <2>2, <1>3, <1>4
  <2> QED
    BY <2>1, <2>3, <1>1, <1>4
<1>6. L # {} /\ L \subseteq R
  BY <1>5 DEF Tips
<1>7. \A r, s \in L : r.id = s.id => r = s
  BY <1>6 DEF Grown, Unique
<1> HIDE DEF L
<1>8. \E r \in L : \A s \in L \ {r} : Beats(r, s)
  BY <1>0, <1>1, <1>6, <1>7, HasBest
<1>9. Best(L) \in L /\ \A s \in L \ {Best(L)} : Beats(Best(L), s)
  BY <1>8 DEF Best
<1>10. (\E r \in L : ~r.dead) <=> ~Best(L).dead
  <2>1. SUFFICES ASSUME NEW r \in L, ~r.dead, r # Best(L) PROVE ~Best(L).dead
    BY <1>9
  <2>2. Beats(Best(L), r)
    BY <1>9, <2>1
  <2>3. r.dead \in BOOLEAN /\ Best(L).dead \in BOOLEAN
    BY <1>1, <1>6, <1>9
  <2> QED
    BY <2>1, <2>2, <2>3, Zenon DEF Beats
<1> QED
  BY <1>9, <1>10 DEF L

-----------------------------------------------------------------------------
(* What a store and a purge do to the trees                                *)

\* The history of a revision stored on parent, and the revision
History(R, d, parent) == UNION {r.past \union {parent} : r \in {q \in R : q.doc = d /\ q.id = parent}}
NewRev(R, d, parent, dead, updates, by, i) ==
    [doc |-> d, id |-> i, parent |-> parent, dead |-> dead, updates |-> updates, by |-> by,
     past |-> History(R, d, parent), gen |-> 1 + Cardinality(History(R, d, parent))]

\* A history is empty, or that of the parent with the parent.
LEMMA HistoryIs ==
    ASSUME NEW R, NEW U, Grown(R, U), NEW d, NEW p
    PROVE  /\ (\A q \in R : ~(q.doc = d /\ q.id = p)) => History(R, d, p) = {}
           /\ \A q \in R : q.doc = d /\ q.id = p => History(R, d, p) = q.past \union {p}
<1>1. (\A q \in R : ~(q.doc = d /\ q.id = p)) => History(R, d, p) = {}
  BY DEF History
<1>2. ASSUME NEW q \in R, q.doc = d, q.id = p PROVE History(R, d, p) = q.past \union {p}
  <2>1. {r \in R : r.doc = d /\ r.id = p} = {q}
    BY <1>2 DEF Grown, Unique
  <2> QED
    BY <2>1 DEF History
<1> QED
  BY <1>1, <1>2

\* Ids that are in use stay in use.
LEMMA RevStays ==
    ASSUME NEW U \in SUBSET Ids, NEW i \in Ids \ U, NEW r, RevOK(r, U)
    PROVE  RevOK(r, U \union {i})
<1>1. Cardinality(U \union {i}) = Cardinality(U) + 1 /\ Cardinality(U) \in Nat
  BY OneMore, FewIds, RestAssumption
<1> DEFINE n == Cardinality(U)
           m == Cardinality(U \union {i})
<1>2. r.updates <= n /\ r.updates \in Nat
  BY DEF RevOK
<1>3. r.updates <= m
  BY <1>1, <1>2
<1> QED
  BY <1>3 DEF RevOK

\* What update_doc stores counts one update more than what it is stored on.
Fits(by, R, d, p, n) == by = "update" => \A q \in R : q.doc = d /\ q.id = p => n = q.updates + 1

\* What the others store need not.
LEMMA OtherFits ==
    ASSUME NEW by, by # "update", NEW R, NEW d, NEW p, NEW n
    PROVE  Fits(by, R, d, p, n)
BY DEF Fits

\* A revision that is stored fits the trees.
LEMMA StoreKeeps ==
    ASSUME NEW R, NEW U, Grown(R, U), NEW d \in Docs, NEW p \in U \union {0},
           NEW dead \in BOOLEAN, NEW n \in 0..(Cardinality(U) + 1),
           NEW by \in {"add", "update", "other"}, NEW i \in Ids \ U,
           Fits(by, R, d, p, n)
    PROVE  Grown(R \union {NewRev(R, d, p, dead, n, by, i)}, U \union {i})
<1> DEFINE x == NewRev(R, d, p, dead, n, by, i)
           H == History(R, d, p)
           V == U \union {i}
<1>0. U \in SUBSET Ids /\ V \in SUBSET Ids
  BY DEF Grown
<1>1. Cardinality(V) = Cardinality(U) + 1 /\ Cardinality(U) \in Nat
  BY <1>0, OneMore, FewIds, RestAssumption
<1>2. H \subseteq U
  <2>1. CASE \A q \in R : ~(q.doc = d /\ q.id = p)
    BY <2>1, HistoryIs
  <2>2. CASE \E q \in R : q.doc = d /\ q.id = p
    <3>1. PICK q \in R : q.doc = d /\ q.id = p
      BY <2>2
    <3>2. H = q.past \union {p}
      BY <3>1, HistoryIs
    <3>3. q.past \subseteq U /\ q.id \in U
      BY DEF Grown, RevOK
    <3> QED
      BY <3>1, <3>2, <3>3
  <2> QED
    BY <2>1, <2>2
<1>3. H \in SUBSET Ids /\ i \notin H /\ Cardinality(H) \in Nat
  BY <1>0, <1>2, FewIds, RestAssumption
<1>4. /\ x.doc = d /\ x.id = i /\ x.parent = p /\ x.dead = dead /\ x.updates = n
      /\ x.by = by /\ x.past = H /\ x.gen = 1 + Cardinality(H)
  BY DEF NewRev
<1>5. RevOK(x, V)
  <2>1. x \in [doc : Docs, id : Ids, parent : {0} \union Ids, gen : Nat, past : SUBSET Ids,
               dead : BOOLEAN, updates : Nat, by : {"add", "update", "other"}]
    <3> DEFINE k == 1 + Cardinality(H)
    <3>1. k \in Nat /\ n \in Nat /\ p \in {0} \union Ids
      BY <1>0, <1>1, <1>3
    <3>2. x = [doc |-> d, id |-> i, parent |-> p, dead |-> dead, updates |-> n, by |-> by,
               past |-> H, gen |-> k]
      BY DEF NewRev
    <3> HIDE DEF k, H, x
    <3> QED
      BY <3>1, <3>2, <1>3
  <2>2. x.id \in V /\ x.parent \in V \union {0}
    BY <1>4
  <2>3. x.past \subseteq V \ {x.id} /\ x.gen = 1 + Cardinality(x.past)
    BY <1>2, <1>4
  <2>4. x.updates <= Cardinality(V)
    BY <1>1, <1>4
  <2> QED
    BY <2>1, <2>2, <2>3, <2>4 DEF RevOK
<1> HIDE DEF x, H, V
<1>6. \A r \in R : RevOK(r, U) /\ r.id # i /\ r.parent # i /\ r.id # 0
  BY DEF Grown, RevOK, Ids
<1>7. \A r \in R : RevOK(r, V)
  BY <1>0, <1>6, RevStays DEF V
<1>8. Unique(R \union {x})
  BY <1>4, <1>6 DEF Unique, Grown
<1>9. Longer(R \union {x})
  <2> SUFFICES ASSUME NEW r \in R \union {x}, NEW s \in R \union {x},
                      r.doc = s.doc, s.parent = r.id
               PROVE  s.gen > r.gen
    BY DEF Longer
  <2>0. i # p
    BY DEF Ids
  <2>1. CASE r \in R /\ s \in R
    BY <2>1 DEF Grown, Longer
  <2>2. CASE r = x /\ s \in R
    BY <2>2, <1>4, <1>6
  <2>3. CASE r = x /\ s = x
    BY <2>3, <1>4, <2>0
  <2>4. CASE r \in R /\ s = x
    <3>1. r.doc = d /\ r.id = p
      BY <2>4, <1>4
    <3>2. H = r.past \union {p}
      BY <3>1, <2>4, HistoryIs DEF H
    <3>3. r.past \in SUBSET Ids /\ p \in Ids \ r.past /\ r.gen = 1 + Cardinality(r.past)
      BY <3>1, <2>4, <1>6, <1>0 DEF RevOK
    <3>4. Cardinality(r.past) \in Nat
      BY <3>3, FewIds, RestAssumption
    <3>5. Cardinality(H) = Cardinality(r.past) + 1
      BY <3>2, <3>3, OneMore
    <3> QED
      BY <2>4, <3>3, <3>4, <3>5, <1>4
  <2> QED
    BY <2>1, <2>2, <2>3, <2>4
<1>9a. Counted(R \union {x})
  <2> SUFFICES ASSUME NEW r \in R \union {x}, NEW q \in R \union {x},
                      r.by = "update", q.doc = r.doc, q.id = r.parent
               PROVE  r.updates = q.updates + 1
    BY DEF Counted
  <2>0. i # p
    BY DEF Ids
  <2>1. CASE r \in R /\ q \in R
    BY <2>1 DEF Grown, Counted
  <2>2. CASE q = x
    BY <2>2, <1>4, <1>6, <2>0
  <2>3. CASE r = x /\ q \in R
    BY <2>3, <1>4 DEF Fits
  <2> QED
    BY <2>1, <2>2, <2>3
<1>10. Grown(R \union {x}, V)
  BY <1>0, <1>5, <1>7, <1>8, <1>9, <1>9a DEF Grown
<1> QED
  BY <1>10 DEF x, V

\* It takes the place of its parent among the leaves of its document, and leaves the other
\* documents alone.
LEMMA StoreTips ==
    ASSUME NEW R, NEW U, Grown(R, U), NEW x, x.id \in Ids \ U, x.parent \in U \union {0}
    PROVE  /\ Tips(R \union {x}, x.doc) = {r \in Tips(R, x.doc) : r.id # x.parent} \union {x}
           /\ \A e \in Docs : e # x.doc => Tips(R \union {x}, e) = Tips(R, e)
<1>1. \A r \in R : r.parent # x.id
  BY DEF Grown, RevOK, Ids
<1>2. x.parent # x.id
  BY DEF Ids
<1>3. Tips(R \union {x}, x.doc) = {r \in Tips(R, x.doc) : r.id # x.parent} \union {x}
  BY <1>1, <1>2 DEF Tips
<1>4. ASSUME NEW e, e # x.doc PROVE Tips(R \union {x}, e) = Tips(R, e)
  BY <1>4 DEF Tips
<1> QED
  BY <1>3, <1>4

Without(R, d) == R \ {r \in R : r.doc = d}

\* A purge keeps the trees of the other documents.
LEMMA PurgeKeeps ==
    ASSUME NEW R, NEW U, Grown(R, U), NEW d
    PROVE  /\ Grown(Without(R, d), U) /\ Tips(Without(R, d), d) = {}
           /\ \A e \in Docs : e # d => Tips(Without(R, d), e) = Tips(R, e)
<1> DEFINE Q == Without(R, d)
<1>1. Grown(Q, U)
  BY DEF Without, Grown, Unique, Longer, Counted
<1>2. Tips(Q, d) = {}
  BY DEF Without, Tips
<1>3. ASSUME NEW e, e # d PROVE Tips(Q, e) = Tips(R, e)
  BY <1>3 DEF Without, Tips
<1> QED
  BY <1>1, <1>2, <1>3

-----------------------------------------------------------------------------
(* The database                                                            *)

\* The trees are grown, the leaves have bodies, and the sequences count the revisions made.
DatabaseOK ==
    /\ Grown(revs, used)
    /\ bodies \subseteq used
    /\ \A d \in Docs : \A r \in Tips(revs, d) : r.id \in bodies
    /\ seq \in [Docs -> 0..Cardinality(used)]
    /\ \A r \in revs : seq[r.doc] > 0

\* What a write may do to what the calls remember: ids stay in use, new revisions have new
\* ids, and a document whose leaves change is purged or gets the greatest sequence of all.
Moved ==
    /\ used \subseteq used' /\ used' \subseteq Ids /\ Cardinality(used) <= Cardinality(used')
    /\ \A r \in revs' : r \in revs \/ r.id \notin used
    /\ \A d \in Docs : seq[d] <= seq'[d]
    /\ \A d \in Docs :
         \/ seq'[d] = seq[d] /\ Tips(revs', d) = Tips(revs, d)
         \/ \A r \in revs' : r.doc # d
         \/ \A e \in Docs : seq'[d] > seq[e]

\* The id of a new revision was never used.
LEMMA NewIdIsNew ==
    ASSUME used \subseteq Ids, NEW i \in NewIds
    PROVE  i \in Ids \ used
<1> DEFINE F == Ids \ used
<1>0. used # Ids /\ (i = Min(F) \/ i = Max(F))
  BY DEF NewIds
<1>1a. F # {} /\ MaxRevs \in Nat
  BY <1>0, RestAssumption
<1>1. F # {} /\ F \in SUBSET (0..MaxRevs) /\ F \in SUBSET Nat /\ MaxRevs \in Nat
  BY <1>1a DEF Ids
<1> HIDE DEF F
<1>2. Max(F) \in F
  BY <1>1, Greatest
<1>3. \E x \in F : \A y \in F : x <= y
  BY <1>1, Least
<1>4. Min(F) \in F
  BY <1>3 DEF Min
<1> QED
  BY <1>0, <1>2, <1>4 DEF F

\* The last sequence is that of some document, and no document has a greater one.
LEMMA LastSeqIs ==
    ASSUME DatabaseOK, Docs # {}
    PROVE  /\ LastSeq \in 0..Cardinality(used) /\ Cardinality(used) \in 0..MaxRevs
           /\ \E d \in Docs : LastSeq = seq[d]
           /\ \A d \in Docs : seq[d] \in Nat /\ seq[d] <= LastSeq
<1> DEFINE T == {seq[d] : d \in Docs}
           N == Cardinality(used)
<1>1. N \in 0..MaxRevs /\ N \in Nat
  BY FewIds, RestAssumption DEF DatabaseOK, Grown
<1>2. seq \in [Docs -> 0..N]
  BY DEF DatabaseOK
<1> HIDE DEF N
<1>3. T # {} /\ T \in SUBSET (0..N)
  BY <1>2
<1>4. Max(T) \in T /\ \A y \in T : y <= Max(T)
  BY <1>1, <1>3, Greatest
<1>5. LastSeq = Max(T)
  BY DEF LastSeq
<1>6. LastSeq \in T /\ LastSeq \in 0..N
  BY <1>3, <1>4, <1>5
<1>7. \A d \in Docs : seq[d] \in Nat /\ seq[d] <= LastSeq
  BY <1>1, <1>2, <1>4, <1>5
<1>8. \E d \in Docs : LastSeq = seq[d]
  BY <1>6
<1> QED
  BY <1>1, <1>6, <1>7, <1>8 DEF N

\* What a revision that is stored does to the database
LEMMA StoreEffect ==
    ASSUME DatabaseOK, NEW d \in Docs, NEW p \in used \union {0}, NEW dead \in BOOLEAN,
           NEW n \in 0..(Cardinality(used) + 1), NEW by \in {"add", "update", "other"},
           Fits(by, revs, d, p, n),
           NEW i, Store(d, p, dead, n, by, i)
    PROVE  /\ DatabaseOK' /\ Moved
           /\ i \in Ids \ used /\ used' = used \union {i}
           /\ Cardinality(used') = Cardinality(used) + 1
           /\ revs' = revs \union {NewRev(revs, d, p, dead, n, by, i)}
           /\ \A e \in Docs : e # d => Tips(revs', e) = Tips(revs, e)
<1> DEFINE x == NewRev(revs, d, p, dead, n, by, i)
           N == Cardinality(used)
<1>0. Grown(revs, used) /\ used \in SUBSET Ids /\ bodies \subseteq used
  BY DEF DatabaseOK, Grown
<1>1. i \in Ids \ used
  BY <1>0, NewIdIsNew DEF Store
<1>2. revs' = revs \union {x}
  BY DEF Store, NewRev, History, Parent, Tree
<1>3. used' = used \union {i} /\ bodies' = bodies \union {i} /\ seq' = [seq EXCEPT ![d] = LastSeq + 1]
  BY DEF Store
<1>4. Grown(revs', used')
  BY <1>0, <1>1, <1>2, <1>3, StoreKeeps
<1>5. Cardinality(used') = N + 1 /\ N \in Nat
  BY <1>0, <1>1, <1>3, OneMore, FewIds, RestAssumption
<1>6. /\ LastSeq \in 0..N
      /\ \A e \in Docs : seq[e] \in Nat /\ seq[e] <= LastSeq
  BY LastSeqIs
<1>7. seq \in [Docs -> 0..N]
  BY DEF DatabaseOK
<1>8. /\ Tips(revs', d) = {r \in Tips(revs, d) : r.id # p} \union {x}
      /\ \A e \in Docs : e # d => Tips(revs', e) = Tips(revs, e)
  <2>1. p \in used \union {0} /\ x.doc = d /\ x.id = i /\ x.parent = p
    BY DEF NewRev
  <2> HIDE DEF x
  <2> QED
    BY <2>1, <1>0, <1>1, <1>2, StoreTips
<1>9. x.id = i /\ x.doc = d
  BY DEF NewRev
<1> HIDE DEF x, N
<1>10. seq' \in [Docs -> 0..(N + 1)]
  BY <1>3, <1>5, <1>6, <1>7
<1>11. \A e \in Docs : \A r \in Tips(revs', e) : r.id \in bodies'
  <2> SUFFICES ASSUME NEW e \in Docs, NEW r \in Tips(revs', e) PROVE r.id \in bodies'
    OBVIOUS
  <2>1. r = x \/ r \in Tips(revs, e)
    BY <1>8
  <2>2. r \in Tips(revs, e) => r.id \in bodies
    BY DEF DatabaseOK
  <2> QED
    BY <2>1, <2>2, <1>3, <1>9
<1>11a. \A r \in revs' : seq'[r.doc] > 0
  <2> SUFFICES ASSUME NEW r \in revs' PROVE seq'[r.doc] > 0
    OBVIOUS
  <2>1. CASE r.doc = d
    BY <2>1, <1>3, <1>5, <1>6, <1>7
  <2>2. CASE r.doc # d
    <3>1. r \in revs /\ r.doc \in Docs
      BY <2>2, <1>2, <1>9, <1>0 DEF Grown, RevOK
    <3>2. seq[r.doc] > 0
      BY <3>1 DEF DatabaseOK
    <3> QED
      BY <2>2, <3>1, <3>2, <1>3, <1>7
  <2> QED
    BY <2>1, <2>2
<1>12. DatabaseOK'
  BY <1>0, <1>3, <1>4, <1>5, <1>10, <1>11, <1>11a DEF DatabaseOK
<1>13. Moved
  <2>1. used \subseteq used' /\ used' \subseteq Ids /\ Cardinality(used) <= Cardinality(used')
    BY <1>0, <1>1, <1>3, <1>5 DEF N
  <2>2. \A r \in revs' : r \in revs \/ r.id \notin used
    BY <1>1, <1>2, <1>9
  <2>3. \A e \in Docs : seq[e] <= seq'[e]
    BY <1>3, <1>5, <1>6, <1>7
  <2>4. \A e \in Docs : seq'[d] > seq[e]
    BY <1>3, <1>5, <1>6, <1>7
  <2>5. \A e \in Docs : e # d => seq'[e] = seq[e]
    BY <1>3, <1>7
  <2> QED
    BY <2>1, <2>2, <2>3, <2>4, <2>5, <1>8 DEF Moved
<1> QED
  BY <1>1, <1>2, <1>3, <1>5, <1>8, <1>12, <1>13 DEF x, N

\* What a purge does to it
LEMMA PurgeEffect ==
    ASSUME DatabaseOK, NEW d \in Docs,
           revs' = revs \ Tree(d), bodies' = bodies \ {r.id : r \in Tree(d)},
           UNCHANGED <<used, seq>>
    PROVE  DatabaseOK' /\ Moved
<1>0. Grown(revs, used) /\ used \in SUBSET Ids /\ bodies \subseteq used /\ seq \in [Docs -> 0..Cardinality(used)]
  BY DEF DatabaseOK, Grown
<1>1. revs' = revs \ {r \in revs : r.doc = d}
  BY DEF Tree
<1>2. /\ Grown(revs', used) /\ Tips(revs', d) = {}
      /\ \A e \in Docs : e # d => Tips(revs', e) = Tips(revs, e)
  <2>1. revs' = Without(revs, d)
    BY <1>1 DEF Without
  <2>2. /\ Grown(Without(revs, d), used) /\ Tips(Without(revs, d), d) = {}
        /\ \A e \in Docs : e # d => Tips(Without(revs, d), e) = Tips(revs, e)
    <3>1. Grown(revs, used)
      BY <1>0
    <3> QED
      BY <3>1, PurgeKeeps
  <2> QED
    BY <2>1, <2>2
<1>3. \A e \in Docs : \A r \in Tips(revs', e) : r.id \in bodies'
  <2> SUFFICES ASSUME NEW e \in Docs, NEW r \in Tips(revs', e) PROVE r.id \in bodies'
    OBVIOUS
  <2>1. e # d /\ r \in Tips(revs, e)
    BY <1>2
  <2>2. r.id \in bodies /\ r \in revs /\ r.doc = e
    BY <2>1 DEF DatabaseOK, Tips
  <2>3. \A s \in Tree(d) : s \in revs /\ s.doc = d
    BY DEF Tree
  <2>4. \A s \in Tree(d) : s.id # r.id
    BY <2>1, <2>2, <2>3, <1>0 DEF Grown, Unique
  <2> QED
    BY <2>2, <2>4
<1>3a. \A r \in revs' : seq'[r.doc] > 0
  BY <1>1 DEF DatabaseOK
<1>4. DatabaseOK'
  BY <1>0, <1>2, <1>3, <1>3a DEF DatabaseOK
<1>5. Cardinality(used) \in Nat
  BY <1>0, FewIds, RestAssumption
<1>6. \A e \in Docs : seq'[e] = seq[e] /\ seq[e] <= seq[e]
  BY <1>0, <1>5
<1>7. Moved
  <2>1. used' = used /\ used \subseteq Ids /\ Cardinality(used) <= Cardinality(used')
    BY <1>0, <1>5
  <2>2. \A r \in revs' : r \in revs /\ r.doc # d
    BY <1>1
  <2> QED
    BY <2>1, <2>2, <1>2, <1>6 DEF Moved
<1> QED
  BY <1>4, <1>7

-----------------------------------------------------------------------------
(* What a call has in its local variables                                  *)

Places == {"idle", "get", "put", "get_content", "put_body", "get_body", "put_branch",
           "get_latest", "delete", "get_conflicts", "delete_conflict", "recheck", "add",
           "bulk", "purge", "compact", "all_docs", "revs_info", "look", "bulk_get",
           "bulk_get_all", "open_revs", "changes"}
Arguments == {NoCall.args} \union UNION {[S -> {0} \union Ids] : S \in SUBSET Docs}

Calls == [op : Operations \union {"none"}, at : Places, args : Arguments,
          todo : SUBSET Docs, d : Docs \union {"none"}, rev : {0} \union Ids, num : Nat,
          left : Int, pend : SUBSET Ids, bad : BOOLEAN, since : 0..MaxRevs,
          quiet : BOOLEAN, ok : BOOLEAN]

\* The operation that is at a place
OpAt(m) ==
    /\ m.at \in {"get", "put"} => m.op = "update_doc"
    /\ m.at = "get_content" => m.op = "update_doc_with_content"
    /\ m.at = "put_body" => m.op \in {"update_doc_with_content", "put_doc"}
    /\ m.at \in {"get_body", "put_branch"} => m.op = "add_conflict"
    /\ m.at \in {"get_latest", "delete"} => m.op = "delete_docs"
    /\ m.at \in {"get_conflicts", "delete_conflict", "recheck"} => m.op = "delete_conflicts"
    /\ m.at = "add" => m.op = "add_docs"
    /\ m.at = "bulk" => m.op \in {"add_bulk_docs", "delete_bulk_docs"}
    /\ m.at = "purge" => m.op = "purge_docs"
    /\ m.at \in {"compact", "all_docs", "revs_info"} => m.op = "compact_database"
    /\ m.at = "look" => m.op = "verify_docs_deleted"
    /\ m.at = "bulk_get" => m.op = "verify_docs_present"
    /\ m.at = "bulk_get_all" => m.op = "get_bulk_docs"
    /\ m.at = "open_revs" => m.op = "verify_open_revs"
    /\ m.at = "changes" => m.op = "verify_docs_in_changes"

\* Its local variables, and what it remembers of revisions R with ids from U
Locals(m, R, U) ==
    /\ m.num <= Cardinality(U) + 1
    /\ m.at \in {"get", "put", "get_content", "put_body", "get_body", "put_branch", "delete",
                 "delete_conflict", "open_revs"} => m.d \in Docs
    /\ m.at \in {"put", "put_body", "get_body", "put_branch", "delete"} => m.rev \in U
    /\ m.at \in {"get_latest", "delete", "get_conflicts", "delete_conflict", "recheck", "add",
                 "bulk", "purge", "look", "changes"} => m.todo \subseteq DOMAIN m.args
    /\ m.at = "idle" => m.todo = {}
    /\ m.at = "put" => \A p \in R : p.doc = m.d /\ p.id = m.rev => m.num = p.updates + 1
    /\ m.ok => m.at = "idle"
    /\ m.bad => m.at \in {"bulk", "look"}
    /\ m.at = "bulk" => \A d \in DOMAIN m.args : m.args[d] = 0 <=> m.op = "add_bulk_docs"
    /\ m.at = "delete_conflict" => m.d \in DOMAIN m.args /\ m.d \notin m.todo

\* verify_docs_in_changes: it does not ask from beyond the last sequence q, it has crossed
\* out only what was stored, and it is not past what it looks for.
Follows(m, R, U, q) ==
    /\ m.op = "verify_docs_in_changes" =>
         \A d \in DOMAIN m.args \ m.todo : m.args[d] \in U
    /\ m.at = "changes" =>
         /\ \E e \in Docs : m.since <= q[e]
         /\ \A d \in m.todo : (\E r \in R : r.doc = d) /\ Best(Tips(R, d)).id = m.args[d] =>
                q[d] > m.since

Local(m, R, U, q) == m \in Calls /\ OpAt(m) /\ Locals(m, R, U) /\ Follows(m, R, U, q)

\* Calls not yet made
LEMMA NoCallIs ==
    /\ NoCall \in Calls /\ DOMAIN NoCall.args = {}
    /\ NoCall.op = "none" /\ NoCall.at = "idle" /\ NoCall.todo = {} /\ NoCall.num = 0
    /\ NoCall.ok = FALSE /\ NoCall.bad = FALSE /\ NoCall.quiet = TRUE /\ NoCall.since = 0
<1>1. NoCall.args \in Arguments
  BY DEF Arguments
<1>2. NoCall \in Calls
  BY <1>1, RestAssumption DEF NoCall, Calls, Places
<1>3. DOMAIN NoCall.args = {}
  BY DEF NoCall
<1> QED
  BY <1>2, <1>3 DEF NoCall

\* A call that has returned keeps its name and arguments, or nothing.
LEMMA ReturnedIs ==
    ASSUME NEW m \in Calls
    PROVE  /\ Returned(m) \in Calls /\ Returned(m).at = "idle" /\ Returned(m).todo = {}
           /\ Returned(m).num = 0 /\ ~Returned(m).bad
           /\ \/ Returned(m).op = "none" /\ ~Returned(m).ok /\ DOMAIN Returned(m).args = {}
              \/ /\ m.quiet /\ m.op \in Recorded
                 /\ Returned(m).op = m.op /\ Returned(m).args = m.args
<1>1. CASE m.quiet /\ m.op \in Recorded
  <2>1. Returned(m) = [NoCall EXCEPT !.op = m.op, !.args = m.args, !.ok = TRUE]
    BY <1>1 DEF Returned
  <2>2. m.op \in Operations \union {"none"} /\ m.args \in Arguments
    BY DEF Calls
  <2>3. Returned(m) \in Calls
    BY <2>1, <2>2, NoCallIs DEF Calls
  <2> QED
    BY <1>1, <2>1, <2>3, NoCallIs DEF Calls
<1>2. CASE ~(m.quiet /\ m.op \in Recorded)
  <2>1. Returned(m) = NoCall
    BY <1>2 DEF Returned
  <2> QED
    BY <2>1, NoCallIs
<1> QED
  BY <1>1, <1>2

\* What is idle is in order when it has crossed out only what was stored.
LEMMA IdleLocal ==
    ASSUME NEW m \in Calls, m.at = "idle", m.todo = {}, m.num = 0, ~m.bad,
           NEW R, NEW U \in SUBSET Ids, NEW q,
           m.op = "verify_docs_in_changes" => \A d \in DOMAIN m.args : m.args[d] \in U
    PROVE  Local(m, R, U, q)
<1>1. Cardinality(U) \in Nat
  BY FewIds, RestAssumption
<1>2. OpAt(m)
  BY DEF OpAt
<1>3. Locals(m, R, U)
  BY <1>1 DEF Locals
<1>4. Follows(m, R, U, q)
  BY DEF Follows
<1> QED
  BY <1>2, <1>3, <1>4 DEF Local

\* No call is in order.
LEMMA NoCallLocal ==
    ASSUME NEW R, NEW U \in SUBSET Ids, NEW q
    PROVE  Local(NoCall, R, U, q)
BY NoCallIs, IdleLocal

\* So is one that returns.
LEMMA ReturnedLocal ==
    ASSUME NEW m \in Calls, NEW R, NEW U \in SUBSET Ids, NEW q,
           m.op = "verify_docs_in_changes" => \A d \in DOMAIN m.args : m.args[d] \in U
    PROVE  Local(Returned(m), R, U, q)
<1> DEFINE r == Returned(m)
<1>1. r \in Calls /\ r.at = "idle" /\ r.todo = {} /\ r.num = 0 /\ ~r.bad
  BY ReturnedIs
<1>2. r.op = "verify_docs_in_changes" => \A d \in DOMAIN r.args : r.args[d] \in U
  BY ReturnedIs
<1> HIDE DEF r
<1>3. Local(r, R, U, q)
  BY <1>1, <1>2, IdleLocal
<1> QED
  BY <1>3 DEF r

\* What a call remembers stays in order when another client writes.
LEMMA StaysLocal ==
    ASSUME DatabaseOK, DatabaseOK', Moved, NEW m, Local(m, revs, used, seq),
           NEW n, n = [m EXCEPT !.quiet = FALSE]
    PROVE  Local(n, revs', used', seq')
<1>0. /\ m \in Calls /\ OpAt(m) /\ Locals(m, revs, used) /\ Follows(m, revs, used, seq)
  BY DEF Local
<1>1. n \in Calls
  BY <1>0 DEF Calls
<1>2. /\ n.op = m.op /\ n.at = m.at /\ n.args = m.args /\ n.todo = m.todo /\ n.d = m.d
      /\ n.rev = m.rev /\ n.num = m.num /\ n.bad = m.bad /\ n.since = m.since /\ n.ok = m.ok
  BY <1>0 DEF Calls
<1>3. OpAt(n)
  BY <1>0, <1>2 DEF OpAt
<1>4. Locals(n, revs', used')
  <2>1. /\ Cardinality(used) \in Nat /\ Cardinality(used') \in Nat
        /\ Cardinality(used) <= Cardinality(used')
    BY FewIds, RestAssumption DEF Moved, DatabaseOK, Grown
  <2>2. m.num <= Cardinality(used) + 1 /\ m.num \in Nat
    BY <1>0 DEF Locals, Calls
  <2>3. n.num <= Cardinality(used') + 1
    BY <1>2, <2>1, <2>2
  <2>4. n.at = "put" => \A p \in revs' : p.doc = n.d /\ p.id = n.rev => n.num = p.updates + 1
    BY <1>0, <1>2 DEF Locals, Moved
  <2>5. n.at \in {"put", "put_body", "get_body", "put_branch", "delete"} => n.rev \in used'
    BY <1>0, <1>2 DEF Locals, Moved
  <2> QED
    BY <1>0, <1>2, <2>3, <2>4, <2>5 DEF Locals
<1>5. Follows(n, revs', used', seq')
  <2>1. n.op = "verify_docs_in_changes" => \A d \in DOMAIN n.args \ n.todo : n.args[d] \in used'
    BY <1>0, <1>2 DEF Follows, Moved
  <2>2. SUFFICES ASSUME n.at = "changes"
                 PROVE  /\ \E e \in Docs : n.since <= seq'[e]
                        /\ \A d \in n.todo :
                             (\E r \in revs' : r.doc = d) /\ Best(Tips(revs', d)).id = n.args[d] =>
                                seq'[d] > n.since
    BY <2>1 DEF Follows
  <2>3. PICK e \in Docs : m.since <= seq[e]
    BY <1>0, <1>2, <2>2 DEF Follows
  <2>4. \A d \in Docs : seq[d] \in Nat /\ seq'[d] \in Nat
    <3>1. /\ seq \in [Docs -> 0..Cardinality(used)] /\ seq' \in [Docs -> 0..Cardinality(used')]
          /\ Cardinality(used) \in Nat /\ Cardinality(used') \in Nat
      BY FewIds, RestAssumption DEF Moved, DatabaseOK, Grown
    <3> QED
      BY <3>1
  <2>5. m.since \in Nat
    BY <1>0, RestAssumption DEF Calls
  <2>6. n.since <= seq'[e]
    BY <1>2, <2>3, <2>4, <2>5 DEF Moved
  <2>7. ASSUME NEW d \in n.todo, \E r \in revs' : r.doc = d, Best(Tips(revs', d)).id = n.args[d]
        PROVE  seq'[d] > n.since
    <3>0. d \in Docs /\ d \in m.todo
      BY <1>0, <1>2 DEF Calls
    <3>1. CASE seq'[d] = seq[d] /\ Tips(revs', d) = Tips(revs, d)
      <4>1. Grown(revs', used')
        BY DEF DatabaseOK
      <4>2. Best(Tips(revs', d)) \in Tips(revs', d)
        BY <2>7, <4>1, WinnerWins
      <4>3. \E r \in revs : r.doc = d
        BY <4>2, <3>1 DEF Tips
      <4>4. seq[d] > m.since
        BY <1>0, <1>2, <2>2, <2>7, <3>0, <3>1, <4>3 DEF Follows
      <4> QED
        BY <4>4, <3>1, <1>2
    <3>2. CASE \A e2 \in Docs : seq'[d] > seq[e2]
      BY <3>0, <3>2, <2>3, <2>4, <2>5, <1>2
    <3> QED
      BY <2>7, <3>0, <3>1, <3>2 DEF Moved
  <2> QED
    BY <2>6, <2>7
<1> QED
  BY <1>1, <1>3, <1>4, <1>5 DEF Local

-----------------------------------------------------------------------------
(* What a call that nobody disturbed has done                              *)

LiveTips(R, d)    == {r \in Tips(R, d) : ~r.dead}
ConflictIds(R, d) == {r.id : r \in LiveTips(R, d)} \ {Best(Tips(R, d)).id}
Compact(R, B, d)  == LiveTips(R, d) # {} =>
    B \intersect (Best(Tips(R, d)).past \union {Best(Tips(R, d)).id}) = {Best(Tips(R, d)).id}

\* What an operation promises of a document
Promise(op, i, R, B, d) ==
    /\ op = "delete_conflicts" => LiveTips(R, d) # {} /\ ConflictIds(R, d) = {}
    /\ op \in {"add_docs", "add_bulk_docs"} => LiveTips(R, d) # {} /\ Best(Tips(R, d)).by = "add"
    /\ op = "delete_bulk_docs" => \E r \in Tips(R, d) : r.dead /\ r.parent = i
    /\ op = "verify_docs_deleted" => LiveTips(R, d) = {}
    /\ op = "compact_database" => Compact(R, B, d)

\* The documents that a call is about
About(m) == IF m.op = "compact_database" THEN Docs ELSE DOMAIN m.args

KeptFor(m, S, R, B) == \A d \in S : Promise(m.op, m.args[d], R, B, d)

\* It keeps its promise for the documents that it is done with, and deletes all conflicts
\* of the one it is at.
Truth(m, R, B) ==
    /\ m.ok \/ m.at = "recheck" => KeptFor(m, About(m), R, B)
    /\ m.at \in {"get_conflicts", "add", "bulk", "look", "revs_info"} /\ ~m.bad =>
         KeptFor(m, About(m) \ m.todo, R, B)
    /\ m.at = "delete_conflict" =>
         /\ KeptFor(m, About(m) \ (m.todo \union {m.d}), R, B)
         /\ LiveTips(R, m.d) # {} /\ ConflictIds(R, m.d) = m.pend

Fine(m, R, U, q, B) == Local(m, R, U, q) /\ (m.quiet \/ m.ok => Truth(m, R, B))

RestInv ==
    /\ DatabaseOK
    /\ cl \in [Clients -> Calls]
    /\ \A c \in Clients : Fine(cl[c], revs, used, seq, bodies)

\* No call has promised anything.
LEMMA NoCallFine ==
    ASSUME NEW R, NEW U \in SUBSET Ids, NEW q, NEW B
    PROVE  Fine(NoCall, R, U, q, B)
<1>1. Truth(NoCall, R, B)
  BY NoCallIs DEF Truth
<1> QED
  BY <1>1, NoCallLocal DEF Fine

\* A step that only reads leaves the other clients alone.
LEMMA ReadsKeeps ==
    ASSUME RestInv, NEW c \in Clients, NEW r, Reads(c, r), Fine(r, revs, used, seq, bodies)
    PROVE  RestInv'
<1>1. /\ cl' = [cl EXCEPT ![c] = r]
      /\ revs' = revs /\ used' = used /\ bodies' = bodies /\ seq' = seq
  BY DEF Reads, Goes, database
<1>2. r \in Calls
  BY DEF Fine, Local
<1>3. DatabaseOK'
  BY <1>1 DEF RestInv, DatabaseOK
<1>4. cl' \in [Clients -> Calls]
  BY <1>1, <1>2 DEF RestInv
<1>5. ASSUME NEW x \in Clients PROVE Fine(cl'[x], revs', used', seq', bodies')
  <2>1. cl'[x] = r \/ cl'[x] = cl[x]
    BY <1>1 DEF RestInv
  <2>2. Fine(cl[x], revs, used, seq, bodies)
    BY DEF RestInv
  <2>3. CASE cl'[x] = r
    BY <2>3, <1>1
  <2>4. CASE cl'[x] = cl[x]
    BY <2>4, <2>2, <1>1
  <2> QED
    BY <2>1, <2>3, <2>4
<1> QED
  BY <1>3, <1>4, <1>5 DEF RestInv

\* A step that writes makes the others forget their promises.
LEMMA WritesKeeps ==
    ASSUME RestInv, DatabaseOK', Moved, NEW c \in Clients, NEW r, Writes(c, r),
           Fine(r, revs', used', seq', bodies')
    PROVE  RestInv'
<1>0. used' \in SUBSET Ids
  BY DEF Moved
<1>1. ASSUME NEW x \in Clients
      PROVE  cl'[x] \in Calls /\ Fine(cl'[x], revs', used', seq', bodies')
  <2>0. Local(cl[x], revs, used, seq) /\ cl[x] \in Calls
    BY DEF RestInv, Fine
  <2>1. CASE x = c
    <3>1. cl'[x] = r
      BY <2>1 DEF Writes
    <3> QED
      BY <3>1 DEF Fine, Local
  <2>2. CASE x # c /\ At(x, "idle")
    <3>1. cl'[x] = NoCall
      BY <2>2 DEF Writes
    <3> QED
      BY <3>1, <1>0, NoCallFine, NoCallIs
  <2>3. CASE x # c /\ ~At(x, "idle")
    <3>1. cl'[x] = [cl[x] EXCEPT !.quiet = FALSE]
      BY <2>3 DEF Writes
    <3>2. Local(cl'[x], revs', used', seq')
      BY <3>1, <2>0, StaysLocal DEF RestInv
    <3>3. ~cl'[x].quiet /\ ~cl'[x].ok
      BY <3>1, <2>0, <2>3 DEF Calls, Local, Locals, At
    <3>4. cl'[x] \in Calls
      BY <3>2 DEF Local
    <3> QED
      BY <3>2, <3>3, <3>4 DEF Fine
  <2> QED
    BY <2>1, <2>2, <2>3
<1>2. cl' = [x \in Clients |-> cl'[x]]
  BY DEF Writes
<1>3. cl' \in [Clients -> Calls]
  BY <1>1, <1>2
<1> QED
  BY <1>1, <1>3 DEF RestInv

\* A place where nothing is promised
LEMMA NothingPromised ==
    ASSUME NEW m, NEW R, NEW B, ~m.ok,
           m.at \notin {"recheck", "get_conflicts", "add", "bulk", "look", "revs_info",
                        "delete_conflict"}
    PROVE  Truth(m, R, B)
BY DEF Truth

\* A call that returns has kept its promise.
LEMMA ReturnedFine ==
    ASSUME NEW m \in Calls, NEW R, NEW U \in SUBSET Ids, NEW q, NEW B,
           m.op = "verify_docs_in_changes" => \A d \in DOMAIN m.args : m.args[d] \in U,
           m.quiet /\ m.op \in Recorded => KeptFor(m, About(m), R, B)
    PROVE  Fine(Returned(m), R, U, q, B)
<1> DEFINE r == Returned(m)
<1>1. Local(r, R, U, q)
  BY ReturnedLocal
<1>2. Truth(r, R, B)
  <2>1. r.at = "idle"
    BY ReturnedIs
  <2>2. CASE ~r.ok
    BY <2>1, <2>2, NothingPromised
  <2>3. CASE r.ok
    <3>1. m.quiet /\ m.op \in Recorded /\ r.op = m.op /\ r.args = m.args
      BY <2>3, ReturnedIs
    <3>2. KeptFor(m, About(m), R, B)
      BY <3>1
    <3>3. KeptFor(r, About(r), R, B)
      BY <3>1, <3>2 DEF KeptFor, About
    <3> QED
      BY <2>1, <3>3 DEF Truth
  <2> QED
    BY <2>2, <2>3
<1> QED
  BY <1>1, <1>2 DEF Fine

\* What is known of a call in its state
LEMMA CallIs ==
    ASSUME RestInv, NEW c \in Clients
    PROVE  /\ cl[c] \in Calls /\ OpAt(cl[c]) /\ Locals(cl[c], revs, used)
           /\ Follows(cl[c], revs, used, seq)
           /\ cl[c].quiet \/ cl[c].ok => Truth(cl[c], revs, bodies)
           /\ used \in SUBSET Ids /\ Grown(revs, used)
BY DEF RestInv, Fine, Local, DatabaseOK, Grown

\* A request that fails, and an operation that raises
LEMMA RaiseKeeps ==
    ASSUME RestInv, NEW c \in Clients, Raise(c)
    PROVE  RestInv'
<1>1. Fine(NoCall, revs, used, seq, bodies)
  BY CallIs, NoCallFine
<1>2. Reads(c, NoCall)
  BY DEF Raise
<1> QED
  BY <1>1, <1>2, ReadsKeeps

\* An operation that returns without a write
LEMMA ReturnKeeps ==
    ASSUME RestInv, NEW c \in Clients, Return(c),
           cl[c].op = "verify_docs_in_changes" =>
               \A d \in DOMAIN cl[c].args : cl[c].args[d] \in used,
           cl[c].quiet /\ cl[c].op \in Recorded => KeptFor(cl[c], About(cl[c]), revs, bodies)
    PROVE  RestInv'
<1> DEFINE m == cl[c]
<1>0. m \in Calls /\ used \in SUBSET Ids
  BY CallIs
<1>1. Fine(Returned(m), revs, used, seq, bodies)
  BY <1>0, ReturnedFine
<1>2. Reads(c, Returned(m))
  BY DEF Return
<1> QED
  BY <1>1, <1>2, ReadsKeeps

\* The operations that are called with documents, and where they begin
Starts == {<<"delete_docs", "get_latest">>, <<"delete_conflicts", "get_conflicts">>,
           <<"add_docs", "add">>, <<"add_bulk_docs", "bulk">>, <<"delete_bulk_docs", "bulk">>,
           <<"purge_docs", "purge">>, <<"verify_docs_deleted", "look">>,
           <<"verify_docs_present", "bulk_get">>, <<"get_bulk_docs", "bulk_get_all">>,
           <<"verify_docs_in_changes", "changes">>}

\* Their calls
LEMMA CallKeeps ==
    ASSUME RestInv, NEW c \in Clients, NEW op, NEW place, NEW Args, Call(c, op, place, Args),
           <<op, place>> \in Starts,
           \A a \in Args : /\ a \in Arguments /\ DOMAIN a \in (SUBSET Docs) \ {{}}
                           /\ \A d \in DOMAIN a : op = "add_bulk_docs" => a[d] = 0
                           /\ \A d \in DOMAIN a : op = "delete_bulk_docs" => a[d] # 0
    PROVE  RestInv'
<1>1. PICK a \in Args : Reads(c, [NoCall EXCEPT !.op = op, !.at = place, !.args = a, !.todo = DOMAIN a])
  BY DEF Call
<1> DEFINE r == [NoCall EXCEPT !.op = op, !.at = place, !.args = a, !.todo = DOMAIN a]
<1>2. op \in Operations \ {"compact_database"} /\ place \in Places
  BY DEF Starts, Operations, Places
<1>3. a \in Arguments /\ DOMAIN a \subseteq Docs /\ DOMAIN a # {}
  OBVIOUS
<1>4. r \in Calls
  BY <1>2, <1>3, NoCallIs DEF Calls
<1>5. /\ r.op = op /\ r.at = place /\ r.args = a /\ r.todo = DOMAIN a /\ r.num = 0
      /\ r.since = 0 /\ ~r.ok /\ ~r.bad
  BY NoCallIs DEF Calls
<1> HIDE DEF r
<1>6. OpAt(r)
  BY <1>5 DEF OpAt, Starts
<1>7. Locals(r, revs, used)
  <2>1. Cardinality(used) \in Nat
    BY CallIs, FewIds, RestAssumption
  <2>2. r.num <= Cardinality(used) + 1
    BY <1>5, <2>1
  <2>3. r.at = "bulk" => \A d \in DOMAIN r.args : r.args[d] = 0 <=> r.op = "add_bulk_docs"
    BY <1>5 DEF Starts
  <2>4. r.at \notin {"idle", "get", "put", "get_content", "put_body", "get_body", "put_branch",
                     "delete", "delete_conflict", "open_revs"}
    BY <1>5 DEF Starts
  <2> QED
    BY <1>5, <2>2, <2>3, <2>4 DEF Locals
<1>8. Follows(r, revs, used, seq)
  <2>1. \A d \in Docs : 0 <= seq[d]
    BY LastSeqIs DEF RestInv
  <2>2. \A d \in Docs : (\E s \in revs : s.doc = d) => seq[d] > 0
    BY DEF RestInv, DatabaseOK
  <2> QED
    BY <1>3, <1>5, <2>1, <2>2 DEF Follows
<1>9. Truth(r, revs, bodies)
  <2>1. About(r) \ r.todo = {}
    BY <1>2, <1>5 DEF About
  <2>2. r.at \notin {"recheck", "delete_conflict"} /\ ~r.ok
    BY <1>5 DEF Starts
  <2> QED
    BY <2>1, <2>2 DEF Truth, KeptFor
<1>10. Fine(r, revs, used, seq, bodies)
  BY <1>4, <1>6, <1>7, <1>8, <1>9 DEF Fine, Local
<1>11. Reads(c, r)
  BY <1>1 DEF r
<1> QED
  BY <1>10, <1>11, ReadsKeeps

-----------------------------------------------------------------------------
(* The operations on one document                                          *)

\* The model's terms for a document, in terms of its leaves
LEMMA Terms ==
    ASSUME NEW d
    PROVE  /\ Readable(d) <=> LiveTips(revs, d) # {}
           /\ Readable(d)' <=> LiveTips(revs', d) # {}
           /\ Winner(d) = Best(Tips(revs, d)) /\ Winner(d)' = Best(Tips(revs', d))
           /\ Tree(d) # {} <=> \E r \in revs : r.doc = d
           /\ Readable(d) => Conflicts(d) = ConflictIds(revs, d)
           /\ \A i : IsLeaf(d, i) <=> \E r \in Tips(revs, d) : r.id = i
<1>1. Readable(d) <=> LiveTips(revs, d) # {}
  BY TipsAreLeaves DEF Readable, Live, LiveTips
<1>2. Readable(d)' <=> LiveTips(revs', d) # {}
  BY TipsAreLeaves DEF Readable, Live, LiveTips
<1>3. Readable(d) => Conflicts(d) = ConflictIds(revs, d)
  BY TipsAreLeaves DEF Conflicts, ConflictIds, Live, LiveTips
<1>4. Tree(d) # {} <=> \E r \in revs : r.doc = d
  BY DEF Tree
<1>5. \A i : IsLeaf(d, i) <=> \E r \in Tips(revs, d) : r.id = i
  BY TipsAreLeaves DEF IsLeaf
<1> QED
  BY <1>1, <1>2, <1>3, <1>4, <1>5, TipsAreLeaves

\* The winner of a document that has revisions is one of its leaves.
LEMMA WinnerIs ==
    ASSUME RestInv, NEW d, Tree(d) # {}
    PROVE  /\ Winner(d) \in revs /\ Winner(d) \in Tips(revs, d) /\ Winner(d).doc = d
           /\ Winner(d).id \in used /\ Winner(d).id \in Ids
           /\ Winner(d).updates \in Nat /\ Winner(d).updates <= Cardinality(used)
           /\ Readable(d) <=> ~Winner(d).dead
<1>1. Grown(revs, used)
  BY CallIs DEF RestInv, DatabaseOK
<1>2. /\ Winner(d) \in Tips(revs, d)
      /\ (\E r \in Tips(revs, d) : ~r.dead) <=> ~Winner(d).dead
  BY <1>1, Terms, WinnerWins
<1>3. Winner(d) \in revs /\ Winner(d).doc = d
  BY <1>2 DEF Tips
<1>4. RevOK(Winner(d), used)
  BY <1>1, <1>3 DEF Grown
<1>5. Readable(d) <=> ~Winner(d).dead
  BY <1>2, Terms DEF LiveTips
<1> QED
  BY <1>2, <1>3, <1>4, <1>5 DEF RevOK

\* So is that of a document that can be read.
LEMMA ReadableHasTree ==
    ASSUME NEW d, Readable(d)
    PROVE  Tree(d) # {}
BY DEF Readable, Live, Leaves

\* A call that promises nothing yet is in order with its local variables.
LEMMA PlainFine ==
    ASSUME NEW r \in Calls, NEW R, NEW U \in SUBSET Ids, NEW q, NEW B, OpAt(r), ~r.ok, ~r.bad,
           r.num <= Cardinality(U) + 1,
           \/ r.at \in {"get", "get_content", "open_revs"} /\ r.d \in Docs
           \/ r.at \in {"put_body", "get_body", "put_branch"} /\ r.d \in Docs /\ r.rev \in U
           \/ r.at \in {"compact", "all_docs"}
           \/ r.at \in {"get_latest", "purge"} /\ r.todo \subseteq DOMAIN r.args
           \/ r.at = "delete" /\ r.todo \subseteq DOMAIN r.args /\ r.d \in Docs /\ r.rev \in U
           \/ /\ r.at = "put" /\ r.d \in Docs /\ r.rev \in U
              /\ \A p \in R : p.doc = r.d /\ p.id = r.rev => r.num = p.updates + 1
    PROVE  Fine(r, R, U, q, B)
<1>1. Locals(r, R, U)
  BY DEF Locals
<1>2. Follows(r, R, U, q)
  BY DEF OpAt, Follows
<1>3. Truth(r, R, B)
  BY NothingPromised
<1> QED
  BY <1>1, <1>2, <1>3 DEF Fine, Local

\* The calls with one document
LEMMA CallOneKeeps ==
    ASSUME RestInv, NEW c \in Clients,
           \/ CallUpdateDoc(c) \/ CallUpdateContent(c) \/ CallPutDoc(c) \/ CallAddConflict(c)
           \/ CallVerifyOpenRevs(c) \/ CallCompact(c)
    PROVE  RestInv'
<1>0. used \in SUBSET Ids /\ Cardinality(used) \in Nat /\ Grown(revs, used)
  BY CallIs, FewIds, RestAssumption
<1>0a. \A r \in revs : /\ r.doc \in Docs /\ r.id \in Ids /\ r.id \in used /\ r.updates \in Nat
                       /\ r.updates <= Cardinality(used) + 1
  <2> SUFFICES ASSUME NEW r \in revs
               PROVE  /\ r.doc \in Docs /\ r.id \in Ids /\ r.id \in used /\ r.updates \in Nat
                      /\ r.updates <= Cardinality(used) + 1
    OBVIOUS
  <2>1. RevOK(r, used)
    BY <1>0 DEF Grown
  <2>2. r.doc \in Docs /\ r.id \in Ids /\ r.id \in used /\ r.updates \in Nat /\ r.updates <= Cardinality(used)
    BY <2>1 DEF RevOK
  <2> QED
    BY <2>2, <1>0
<1>1. CASE CallUpdateDoc(c)
  <2>1. PICK d \in Docs, n \in 1..MaxUpdates :
          Reads(c, [NoCall EXCEPT !.op = "update_doc", !.at = "get", !.d = d, !.left = n])
    BY <1>1 DEF CallUpdateDoc
  <2> DEFINE r == [NoCall EXCEPT !.op = "update_doc", !.at = "get", !.d = d, !.left = n]
  <2>1a. n \in Int
    BY RestAssumption
  <2>2. r \in Calls
    BY <2>1a, NoCallIs DEF Calls, Places, Operations
  <2>3. r.at = "get" /\ r.op = "update_doc" /\ r.d = d /\ r.num = 0 /\ ~r.ok /\ ~r.bad
    BY NoCallIs DEF Calls
  <2> HIDE DEF r
  <2>4. OpAt(r)
    BY <2>3 DEF OpAt
  <2>5. Fine(r, revs, used, seq, bodies)
    BY <1>0, <2>2, <2>3, <2>4, PlainFine
  <2> QED
    BY <2>1, <2>5, ReadsKeeps DEF r
<1>2. CASE CallUpdateContent(c)
  <2>1. PICK d \in Docs :
          Reads(c, [NoCall EXCEPT !.op = "update_doc_with_content", !.at = "get_content", !.d = d])
    BY <1>2 DEF CallUpdateContent
  <2> DEFINE r == [NoCall EXCEPT !.op = "update_doc_with_content", !.at = "get_content", !.d = d]
  <2>2. r \in Calls
    BY NoCallIs DEF Calls, Places, Operations
  <2>3. r.at = "get_content" /\ r.op = "update_doc_with_content" /\ r.d = d /\ r.num = 0 /\ ~r.ok /\ ~r.bad
    BY NoCallIs DEF Calls
  <2> HIDE DEF r
  <2>4. OpAt(r)
    BY <2>3 DEF OpAt
  <2>5. Fine(r, revs, used, seq, bodies)
    BY <1>0, <2>2, <2>3, <2>4, PlainFine
  <2> QED
    BY <2>1, <2>5, ReadsKeeps DEF r
<1>3. CASE CallPutDoc(c)
  <2>1. PICK s \in revs :
          Reads(c, [NoCall EXCEPT !.op = "put_doc", !.at = "put_body", !.d = s.doc,
                                  !.rev = s.id, !.num = s.updates])
    BY <1>3 DEF CallPutDoc
  <2> DEFINE r == [NoCall EXCEPT !.op = "put_doc", !.at = "put_body", !.d = s.doc,
                                 !.rev = s.id, !.num = s.updates]
  <2>2. r \in Calls
    BY <1>0a, NoCallIs DEF Calls, Places, Operations
  <2>3. r.at = "put_body" /\ r.op = "put_doc" /\ r.d = s.doc /\ r.rev = s.id /\ r.num = s.updates
        /\ ~r.ok /\ ~r.bad
    BY NoCallIs DEF Calls
  <2> HIDE DEF r
  <2>4. OpAt(r)
    BY <2>3 DEF OpAt
  <2>5. Fine(r, revs, used, seq, bodies)
    BY <1>0, <1>0a, <2>2, <2>3, <2>4, PlainFine
  <2> QED
    BY <2>1, <2>5, ReadsKeeps DEF r
<1>4. CASE CallAddConflict(c)
  <2>1. PICK s \in revs :
          Reads(c, [NoCall EXCEPT !.op = "add_conflict", !.at = "get_body", !.d = s.doc, !.rev = s.id])
    BY <1>4 DEF CallAddConflict
  <2> DEFINE r == [NoCall EXCEPT !.op = "add_conflict", !.at = "get_body", !.d = s.doc, !.rev = s.id]
  <2>2. r \in Calls
    BY <1>0a, NoCallIs DEF Calls, Places, Operations
  <2>3. r.at = "get_body" /\ r.op = "add_conflict" /\ r.d = s.doc /\ r.rev = s.id /\ r.num = 0
        /\ ~r.ok /\ ~r.bad
    BY NoCallIs DEF Calls
  <2> HIDE DEF r
  <2>4. OpAt(r)
    BY <2>3 DEF OpAt
  <2>5. Fine(r, revs, used, seq, bodies)
    BY <1>0, <1>0a, <2>2, <2>3, <2>4, PlainFine
  <2> QED
    BY <2>1, <2>5, ReadsKeeps DEF r
<1>5. CASE CallVerifyOpenRevs(c)
  <2>1. PICK d \in Docs :
          Reads(c, [NoCall EXCEPT !.op = "verify_open_revs", !.at = "open_revs", !.d = d,
                                  !.pend = OpenRevs(d)])
    BY <1>5 DEF CallVerifyOpenRevs
  <2> DEFINE r == [NoCall EXCEPT !.op = "verify_open_revs", !.at = "open_revs", !.d = d,
                                 !.pend = OpenRevs(d)]
  <2>1a. OpenRevs(d) \subseteq Ids
    BY <1>0a DEF OpenRevs, Leaves, Tree
  <2>2. r \in Calls
    BY <2>1a, NoCallIs DEF Calls, Places, Operations
  <2>3. r.at = "open_revs" /\ r.op = "verify_open_revs" /\ r.d = d /\ r.num = 0 /\ ~r.ok /\ ~r.bad
    BY NoCallIs DEF Calls
  <2> HIDE DEF r
  <2>4. OpAt(r)
    BY <2>3 DEF OpAt
  <2>5. Fine(r, revs, used, seq, bodies)
    BY <1>0, <2>2, <2>3, <2>4, PlainFine
  <2> QED
    BY <2>1, <2>5, ReadsKeeps DEF r
<1>6. CASE CallCompact(c)
  <2>1. Reads(c, [NoCall EXCEPT !.op = "compact_database", !.at = "compact"])
    BY <1>6 DEF CallCompact
  <2> DEFINE r == [NoCall EXCEPT !.op = "compact_database", !.at = "compact"]
  <2>2. r \in Calls
    BY NoCallIs DEF Calls, Places, Operations
  <2>3. r.at = "compact" /\ r.op = "compact_database" /\ r.num = 0 /\ ~r.ok /\ ~r.bad
    BY NoCallIs DEF Calls
  <2> HIDE DEF r
  <2>4. OpAt(r)
    BY <2>3 DEF OpAt
  <2>5. Fine(r, revs, used, seq, bodies)
    BY <1>0, <2>2, <2>3, <2>4, PlainFine
  <2> QED
    BY <2>1, <2>5, ReadsKeeps DEF r
<1> QED
  BY <1>1, <1>2, <1>3, <1>4, <1>5, <1>6

\* The GETs of one document, whose response the next request uses
LEMMA GetOneKeeps ==
    ASSUME RestInv, NEW c \in Clients,
           GetForUpdate(c) \/ GetContent(c) \/ GetForConflict(c) \/ GetLatest(c)
    PROVE  RestInv'
<1> DEFINE me == cl[c]
<1>0. used \in SUBSET Ids /\ Cardinality(used) \in Nat /\ Grown(revs, used)
  BY CallIs, FewIds, RestAssumption
<1>0a. me \in Calls /\ OpAt(me) /\ Locals(me, revs, used)
  BY CallIs
<1>0b. \A d : Readable(d) => /\ Winner(d).id \in used /\ Winner(d).id \in Ids
                             /\ Winner(d).updates \in Nat
                             /\ Winner(d).updates + 1 <= Cardinality(used) + 1
                             /\ Winner(d).updates <= Cardinality(used) + 1
                             /\ \A p \in revs : p.id = Winner(d).id => p = Winner(d)
  <2> SUFFICES ASSUME NEW d, Readable(d)
               PROVE  /\ Winner(d).id \in used /\ Winner(d).id \in Ids
                      /\ Winner(d).updates \in Nat
                      /\ Winner(d).updates + 1 <= Cardinality(used) + 1
                      /\ Winner(d).updates <= Cardinality(used) + 1
                      /\ \A p \in revs : p.id = Winner(d).id => p = Winner(d)
    OBVIOUS
  <2>1. /\ Winner(d) \in revs /\ Winner(d).id \in used /\ Winner(d).id \in Ids
        /\ Winner(d).updates \in Nat /\ Winner(d).updates <= Cardinality(used)
    BY ReadableHasTree, WinnerIs
  <2>2. \A p \in revs : p.id = Winner(d).id => p = Winner(d)
    BY <2>1, <1>0 DEF Grown, Unique
  <2> QED
    BY <2>1, <2>2, <1>0
<1> HIDE DEF me
<1>1. CASE GetForUpdate(c)
  <2> DEFINE r == [me EXCEPT !.at = "put", !.num = Winner(me.d).updates + 1, !.rev = Winner(me.d).id]
  <2>1. me.at = "get"
    BY <1>1 DEF GetForUpdate, At, me
  <2>1a. GetDoc(c, me.d, r)
    BY <1>1 DEF GetForUpdate, me
  <2>2. SUFFICES ASSUME Readable(me.d), Reads(c, r) PROVE RestInv'
    BY <2>1a, RaiseKeeps DEF GetDoc
  <2>3. me.op = "update_doc" /\ me.d \in Docs /\ ~me.ok /\ ~me.bad
    BY <1>0a, <2>1 DEF OpAt, Locals
  <2>3a. Winner(me.d).updates + 1 \in Nat /\ Winner(me.d).id \in Ids
    BY <1>0b, <2>2
  <2>4. r \in Calls
    BY <1>0a, <2>3a DEF Calls, Places
  <2>5. /\ r.at = "put" /\ r.op = me.op /\ r.d = me.d /\ r.rev = Winner(me.d).id
        /\ r.num = Winner(me.d).updates + 1 /\ r.ok = me.ok /\ r.bad = me.bad
    BY <1>0a DEF Calls
  <2> HIDE DEF r
  <2>6. OpAt(r)
    BY <2>3, <2>5 DEF OpAt
  <2>7. \A p \in revs : p.doc = r.d /\ p.id = r.rev => r.num = p.updates + 1
    BY <1>0b, <2>2, <2>5
  <2>8. r.rev \in used /\ r.num <= Cardinality(used) + 1
    BY <1>0b, <2>2, <2>5
  <2>9. Fine(r, revs, used, seq, bodies)
    BY <1>0, <2>3, <2>4, <2>5, <2>6, <2>7, <2>8, PlainFine
  <2> QED
    BY <2>9, <2>2, ReadsKeeps DEF r
<1>2. CASE GetContent(c)
  <2> DEFINE r == [me EXCEPT !.at = "put_body", !.num = Winner(me.d).updates, !.rev = Winner(me.d).id]
  <2>1. me.at = "get_content"
    BY <1>2 DEF GetContent, At, me
  <2>1a. GetDoc(c, me.d, r)
    BY <1>2 DEF GetContent, me
  <2>2. SUFFICES ASSUME Readable(me.d), Reads(c, r) PROVE RestInv'
    BY <2>1a, RaiseKeeps DEF GetDoc
  <2>3. me.op = "update_doc_with_content" /\ me.d \in Docs /\ ~me.ok /\ ~me.bad
    BY <1>0a, <2>1 DEF OpAt, Locals
  <2>4. r \in Calls
    BY <1>0a, <1>0b, <2>2 DEF Calls, Places
  <2>5. /\ r.at = "put_body" /\ r.op = me.op /\ r.d = me.d /\ r.rev = Winner(me.d).id
        /\ r.num = Winner(me.d).updates /\ r.ok = me.ok /\ r.bad = me.bad
    BY <1>0a DEF Calls
  <2> HIDE DEF r
  <2>6. OpAt(r)
    BY <2>3, <2>5 DEF OpAt
  <2>8. r.rev \in used /\ r.num <= Cardinality(used) + 1
    BY <1>0b, <2>2, <2>5
  <2>9. Fine(r, revs, used, seq, bodies)
    BY <1>0, <2>3, <2>4, <2>5, <2>6, <2>8, PlainFine
  <2> QED
    BY <2>9, <2>2, ReadsKeeps DEF r
<1>3. CASE GetForConflict(c)
  <2> DEFINE r == [me EXCEPT !.at = "put_branch", !.num = Winner(me.d).updates]
  <2>1. me.at = "get_body"
    BY <1>3 DEF GetForConflict, At, me
  <2>1a. GetDoc(c, me.d, r)
    BY <1>3 DEF GetForConflict, me
  <2>2. SUFFICES ASSUME Readable(me.d), Reads(c, r) PROVE RestInv'
    BY <2>1a, RaiseKeeps DEF GetDoc
  <2>3. me.op = "add_conflict" /\ me.d \in Docs /\ me.rev \in used /\ ~me.ok /\ ~me.bad
    BY <1>0a, <2>1 DEF OpAt, Locals
  <2>4. r \in Calls
    BY <1>0a, <1>0b, <2>2 DEF Calls, Places
  <2>5. /\ r.at = "put_branch" /\ r.op = me.op /\ r.d = me.d /\ r.rev = me.rev
        /\ r.num = Winner(me.d).updates /\ r.ok = me.ok /\ r.bad = me.bad
    BY <1>0a DEF Calls
  <2> HIDE DEF r
  <2>6. OpAt(r)
    BY <2>3, <2>5 DEF OpAt
  <2>8. r.num <= Cardinality(used) + 1
    BY <1>0b, <2>2, <2>5
  <2>9. Fine(r, revs, used, seq, bodies)
    BY <1>0, <2>3, <2>4, <2>5, <2>6, <2>8, PlainFine
  <2> QED
    BY <2>9, <2>2, ReadsKeeps DEF r
<1>4. CASE GetLatest(c)
  <2>1. PICK d \in me.todo : GetDoc(c, d, [me EXCEPT !.at = "delete", !.d = d, !.rev = Winner(d).id])
    BY <1>4 DEF GetLatest, me
  <2> DEFINE r == [me EXCEPT !.at = "delete", !.d = d, !.rev = Winner(d).id]
  <2>1a. me.at = "get_latest"
    BY <1>4 DEF GetLatest, At, me
  <2>2. SUFFICES ASSUME Readable(d), Reads(c, r) PROVE RestInv'
    BY <2>1, RaiseKeeps DEF GetDoc
  <2>3. /\ me.op = "delete_docs" /\ me.todo \subseteq DOMAIN me.args /\ ~me.ok /\ ~me.bad
        /\ me.num <= Cardinality(used) + 1
    BY <1>0a, <2>1a DEF OpAt, Locals
  <2>3a. d \in Docs
    BY <1>0a, <2>1 DEF Calls
  <2>4. r \in Calls
    BY <1>0a, <1>0b, <2>2, <2>3a DEF Calls, Places
  <2>5. /\ r.at = "delete" /\ r.op = me.op /\ r.d = d /\ r.rev = Winner(d).id /\ r.todo = me.todo
        /\ r.args = me.args /\ r.num = me.num /\ r.ok = me.ok /\ r.bad = me.bad
    BY <1>0a DEF Calls
  <2> HIDE DEF r
  <2>6. OpAt(r)
    BY <2>3, <2>5 DEF OpAt
  <2>8. r.rev \in used
    BY <1>0b, <2>2, <2>5
  <2>9. Fine(r, revs, used, seq, bodies)
    BY <1>0, <2>3, <2>3a, <2>4, <2>5, <2>6, <2>8, PlainFine
  <2> QED
    BY <2>9, <2>2, ReadsKeeps DEF r
<1> QED
  BY <1>1, <1>2, <1>3, <1>4

\* An operation that promises nothing returns after a write.
LEMMA WroteAndReturned ==
    ASSUME RestInv, DatabaseOK', Moved, NEW c \in Clients, cl[c].op \notin Recorded,
           Writes(c, Returned(cl[c]))
    PROVE  RestInv'
<1> DEFINE me == cl[c]
<1>0. me \in Calls /\ used' \in SUBSET Ids
  BY CallIs DEF Moved
<1>1. Fine(Returned(me), revs', used', seq', bodies')
  BY <1>0, ReturnedFine DEF Recorded
<1> QED
  BY <1>1, WritesKeeps

\* The PUTs and DELETEs of one document
LEMMA PutOneKeeps ==
    ASSUME RestInv, NEW c \in Clients,
           PutUpdate(c) \/ PutDoc(c) \/ PutConflict(c) \/ DeleteDoc(c)
    PROVE  RestInv'
<1> DEFINE me == cl[c]
<1>0. used \in SUBSET Ids /\ Cardinality(used) \in Nat /\ Grown(revs, used) /\ DatabaseOK
  BY CallIs, FewIds, RestAssumption DEF RestInv
<1>0a. me \in Calls /\ OpAt(me) /\ Locals(me, revs, used)
  BY CallIs
<1>0b. me.num \in 0..(Cardinality(used) + 1)
  BY <1>0, <1>0a DEF Calls, Locals
<1> HIDE DEF me
<1>1. CASE PutUpdate(c)
  <2>1. me.at = "put"
    BY <1>1 DEF PutUpdate, At, me
  <2>2. /\ me.op = "update_doc" /\ me.d \in Docs /\ me.rev \in used /\ ~me.ok /\ ~me.bad
        /\ \A p \in revs : p.doc = me.d /\ p.id = me.rev => me.num = p.updates + 1
    BY <1>0a, <2>1 DEF OpAt, Locals
  <2>3. CASE ~IsLeaf(me.d, me.rev)
    BY <2>3, <1>1, RaiseKeeps DEF PutUpdate, me
  <2>4. CASE IsLeaf(me.d, me.rev)
    <3> DEFINE R(i) == [me EXCEPT !.rev = i, !.num = @ + 1, !.left = @ - 1]
    <3>1. PICK i \in NewIds :
             /\ Store(me.d, me.rev, FALSE, me.num, "update", i)
             /\ Writes(c, IF me.left = 1 THEN Returned(me) ELSE R(i))
      BY <2>4, <1>1 DEF PutUpdate, me
    <3>2. /\ DatabaseOK' /\ Moved /\ i \in Ids \ used /\ used' = used \union {i}
          /\ Cardinality(used') = Cardinality(used) + 1
          /\ revs' = revs \union {NewRev(revs, me.d, me.rev, FALSE, me.num, "update", i)}
      <4>1. Fits("update", revs, me.d, me.rev, me.num)
        BY <2>2 DEF Fits
      <4>2. Store(me.d, me.rev, FALSE, me.num, "update", i)
        BY <3>1
      <4>3. me.d \in Docs /\ me.rev \in used \union {0}
        BY <2>2
      <4> QED
        BY <4>1, <4>2, <4>3, <1>0, <1>0b, StoreEffect
    <3>3. CASE me.left = 1
      <4>1. Writes(c, Returned(cl[c])) /\ cl[c].op \notin Recorded
        BY <3>3, <3>1, <2>2 DEF me, Recorded
      <4> QED
        BY <4>1, <3>2, WroteAndReturned
    <3>4. CASE me.left # 1
      <4> DEFINE r == R(i)
      <4>0. me.num \in Nat /\ me.left \in Int
        BY <1>0a DEF Calls
      <4>1. r \in Calls
        <5>1. i \in Ids
          BY <3>2
        <5>2. me.num + 1 \in Nat /\ me.left - 1 \in Int
          BY <4>0
        <5> QED
          BY <5>1, <5>2, <1>0a DEF Calls
      <4>2. /\ r.at = "put" /\ r.op = me.op /\ r.d = me.d /\ r.rev = i
            /\ r.num = me.num + 1 /\ r.ok = me.ok /\ r.bad = me.bad
        BY <1>0a, <2>1 DEF Calls
      <4>2a. Writes(c, r)
        BY <3>1, <3>4
      <4> HIDE DEF r
      <4>3. OpAt(r)
        BY <2>2, <4>2 DEF OpAt
      <4>4. \A p \in revs' : p.doc = r.d /\ p.id = r.rev => r.num = p.updates + 1
        <5>1. \A p \in revs : p.id # i
          BY <1>0, <3>2 DEF Grown, RevOK
        <5>2. NewRev(revs, me.d, me.rev, FALSE, me.num, "update", i).updates = me.num
          BY DEF NewRev
        <5> QED
          BY <5>1, <5>2, <3>2, <4>2
      <4>5. r.rev \in used' /\ used' \in SUBSET Ids /\ r.num <= Cardinality(used') + 1
        BY <3>2, <4>0, <4>2, <1>0, <1>0b
      <4>6. Fine(r, revs', used', seq', bodies')
        BY <2>2, <4>1, <4>2, <4>3, <4>4, <4>5, PlainFine
      <4> QED
        BY <4>2a, <4>6, <3>2, WritesKeeps
    <3> QED
      BY <3>3, <3>4
  <2> QED
    BY <2>3, <2>4
<1>2. CASE PutDoc(c)
  <2>1. me.at = "put_body"
    BY <1>2 DEF PutDoc, At, me
  <2>2. me.op \notin Recorded /\ me.d \in Docs /\ me.rev \in used
    BY <1>0a, <2>1 DEF OpAt, Locals, Recorded
  <2>3. CASE ~IsLeaf(me.d, me.rev)
    BY <2>3, <1>2, RaiseKeeps DEF PutDoc, me
  <2>4. CASE IsLeaf(me.d, me.rev)
    <3>1. PICK i \in NewIds : Store(me.d, me.rev, FALSE, me.num, "other", i)
      BY <2>4, <1>2 DEF PutDoc, me
    <3>2. Writes(c, Returned(cl[c]))
      BY <2>4, <1>2 DEF PutDoc, me
    <3>3. DatabaseOK' /\ Moved
      BY <3>1, <2>2, <1>0, <1>0b, OtherFits, StoreEffect
    <3> QED
      BY <3>2, <3>3, <2>2, WroteAndReturned DEF me
  <2> QED
    BY <2>3, <2>4
<1>3. CASE PutConflict(c)
  <2>1. me.at = "put_branch"
    BY <1>3 DEF PutConflict, At, me
  <2>2. me.op \notin Recorded /\ me.d \in Docs /\ me.rev \in used
    BY <1>0a, <2>1 DEF OpAt, Locals, Recorded
  <2>3. PICK i \in NewIds : Store(me.d, me.rev, FALSE, me.num, "other", i)
    BY <1>3 DEF PutConflict, me
  <2>4. Writes(c, Returned(cl[c]))
    BY <1>3 DEF PutConflict
  <2>5. DatabaseOK' /\ Moved
    BY <2>3, <2>2, <1>0, <1>0b, OtherFits, StoreEffect
  <2> QED
    BY <2>4, <2>5, <2>2, WroteAndReturned DEF me
<1>4. CASE DeleteDoc(c)
  <2> DEFINE r == [me EXCEPT !.at = "get_latest", !.todo = @ \ {me.d}, !.d = "none", !.rev = 0]
             after == IF me.todo = {me.d} THEN Returned(me) ELSE r
  <2>1. me.at = "delete"
    BY <1>4 DEF DeleteDoc, At, me
  <2>2. /\ me.op = "delete_docs" /\ me.d \in Docs /\ me.rev \in used /\ ~me.ok /\ ~me.bad
        /\ me.todo \subseteq DOMAIN me.args
    BY <1>0a, <2>1 DEF OpAt, Locals
  <2>3. DeleteRev(c, me.d, me.rev, after)
    BY <1>4 DEF DeleteDoc, me
  <2> HIDE DEF after
  <2>4. CASE ~IsLeaf(me.d, me.rev)
    BY <2>4, <2>3, RaiseKeeps DEF DeleteRev
  <2>5. CASE IsLeaf(me.d, me.rev)
    <3>1. PICK i \in NewIds : Store(me.d, me.rev, TRUE, 0, "other", i)
      BY <2>5, <2>3 DEF DeleteRev
    <3>2. Writes(c, after)
      BY <2>5, <2>3 DEF DeleteRev
    <3>3. /\ DatabaseOK' /\ Moved /\ Cardinality(used') = Cardinality(used) + 1
          /\ used' \in SUBSET Ids
      <4>1. 0 \in 0..(Cardinality(used) + 1)
        BY <1>0
      <4>2. DatabaseOK' /\ Moved /\ Cardinality(used') = Cardinality(used) + 1
        BY <4>1, <3>1, <2>2, <1>0, OtherFits, StoreEffect
      <4> QED
        BY <4>2 DEF Moved
    <3>4. CASE me.todo = {me.d}
      <4>1. Writes(c, Returned(cl[c])) /\ cl[c].op \notin Recorded
        BY <3>4, <3>2, <2>2 DEF me, Recorded, after
      <4> QED
        BY <4>1, <3>3, WroteAndReturned
    <3>5. CASE me.todo # {me.d}
      <4>1. r \in Calls
        BY <1>0a DEF Calls, Places
      <4>2. /\ r.at = "get_latest" /\ r.op = me.op /\ r.todo \subseteq me.todo /\ r.args = me.args
            /\ r.num = me.num /\ r.ok = me.ok /\ r.bad = me.bad
        BY <1>0a DEF Calls
      <4>2a. Writes(c, r)
        BY <3>2, <3>5 DEF after
      <4> HIDE DEF r
      <4>3. OpAt(r)
        BY <2>2, <4>2 DEF OpAt
      <4>4. r.num <= Cardinality(used') + 1 /\ r.todo \subseteq DOMAIN r.args
        BY <1>0, <1>0b, <2>2, <3>3, <4>2
      <4>5. Fine(r, revs', used', seq', bodies')
        BY <2>2, <3>3, <4>1, <4>2, <4>3, <4>4, PlainFine
      <4> QED
        BY <4>2a, <4>5, <3>3, WritesKeeps
    <3> QED
      BY <3>4, <3>5
  <2> QED
    BY <2>4, <2>5
<1> QED
  BY <1>1, <1>2, <1>3, <1>4

-----------------------------------------------------------------------------
(* Verifications and purges                                                *)

\* An operation that promises nothing returns.
LEMMA ReadAndReturned ==
    ASSUME RestInv, NEW c \in Clients, cl[c].op \notin Recorded, Return(c)
    PROVE  RestInv'
BY ReturnKeeps DEF Recorded

\* What reads and decides, and what raises
LEMMA DecideKeeps ==
    ASSUME RestInv, NEW c \in Clients,
           BulkGet(c) \/ GetBulkDocs(c) \/ VerifyOpenRevs(c) \/ Unexpected(c) \/ RequestFails(c)
    PROVE  RestInv'
<1>0. OpAt(cl[c])
  BY CallIs
<1>1. CASE BulkGet(c)
  <2>1. cl[c].op \notin Recorded
    BY <1>0, <1>1 DEF BulkGet, At, OpAt, Recorded
  <2> QED
    BY <2>1, <1>1, ReadAndReturned DEF BulkGet
<1>2. CASE GetBulkDocs(c)
  <2>1. cl[c].op \notin Recorded
    BY <1>0, <1>2 DEF GetBulkDocs, At, OpAt, Recorded
  <2> QED
    BY <2>1, <1>2, ReadAndReturned, RaiseKeeps DEF GetBulkDocs
<1>3. CASE VerifyOpenRevs(c)
  <2>1. cl[c].op \notin Recorded
    BY <1>0, <1>3 DEF VerifyOpenRevs, At, OpAt, Recorded
  <2> QED
    BY <2>1, <1>3, ReadAndReturned, RaiseKeeps DEF VerifyOpenRevs
<1>4. CASE Unexpected(c)
  BY <1>4, RaiseKeeps DEF Unexpected
<1>5. CASE RequestFails(c)
  BY <1>5, RaiseKeeps DEF RequestFails
<1> QED
  BY <1>1, <1>2, <1>3, <1>4, <1>5

\* A poll of verify_docs_in_changes crosses out what it has seen, and asks next from the
\* last sequence, which is behind what it still looks for.
LEMMA ChangesKeep ==
    ASSUME RestInv, NEW c \in Clients, GetChanges(c)
    PROVE  RestInv'
<1> DEFINE me == cl[c]
           found == Matching(c)
<1>0. /\ me \in Calls /\ OpAt(me) /\ Locals(me, revs, used) /\ Follows(me, revs, used, seq)
      /\ used \in SUBSET Ids /\ Grown(revs, used)
  BY CallIs
<1>1. me.at = "changes"
  BY DEF GetChanges, CrossOut, At
<1>2. me.op = "verify_docs_in_changes" /\ me.todo \subseteq DOMAIN me.args /\ me.todo \subseteq Docs
      /\ ~me.ok /\ ~me.bad
  BY <1>0, <1>1 DEF OpAt, Locals, Calls
<1>3. ASSUME NEW d \in found PROVE d \in me.todo /\ me.args[d] \in used
  <2>1. d \in me.todo /\ Tree(d) # {} /\ Winner(d).id = me.args[d]
    BY DEF Matching, Changed
  <2> QED
    BY <2>1, WinnerIs
<1>4. \A d \in DOMAIN me.args \ (me.todo \ found) : me.args[d] \in used
  BY <1>0, <1>2, <1>3 DEF Follows
<1>5. ASSUME NEW d \in me.todo \ found, Tree(d) # {} PROVE Winner(d).id # me.args[d]
  <2>1. d \in Docs /\ \E r \in revs : r.doc = d
    BY <1>2, <1>5 DEF Tree
  <2>2. Winner(d).id = me.args[d] => seq[d] > me.since
    BY <1>0, <1>1, <1>5, <2>1, TipsAreLeaves DEF Follows
  <2> QED
    BY <1>5, <2>1, <2>2 DEF Matching, Changed
<1> HIDE DEF found
<1>6. CASE me.todo \subseteq found
  <2>1. Return(c)
    BY <1>6 DEF GetChanges, CrossOut, found
  <2>2. KeptFor(me, About(me), revs, bodies)
    BY <1>2 DEF KeptFor, Promise
  <2>3. \A d \in DOMAIN me.args : me.args[d] \in used
    BY <1>4, <1>6
  <2> QED
    BY <2>1, <2>2, <2>3, ReturnKeeps
<1>7. CASE ~(me.todo \subseteq found)
  <2> DEFINE r == [me EXCEPT !.todo = @ \ found, !.since = LastSeq]
  <2>1. Reads(c, r)
    BY <1>7 DEF GetChanges, CrossOut, found
  <2>2. /\ LastSeq \in 0..MaxRevs /\ \E d \in Docs : LastSeq <= seq[d]
    <3>1. Docs # {} /\ DatabaseOK
      BY <1>2, <1>7 DEF RestInv
    <3>2. /\ LastSeq \in 0..Cardinality(used) /\ Cardinality(used) \in 0..MaxRevs
          /\ \E d \in Docs : LastSeq = seq[d]
      BY <3>1, LastSeqIs
    <3> QED
      BY <3>2, RestAssumption
  <2>3. r \in Calls
    BY <1>0, <2>2 DEF Calls
  <2>4. /\ r.at = me.at /\ r.op = me.op /\ r.args = me.args /\ r.todo = me.todo \ found
        /\ r.since = LastSeq /\ r.num = me.num /\ r.ok = me.ok /\ r.bad = me.bad
    BY <1>0 DEF Calls
  <2> HIDE DEF r
  <2>5. OpAt(r)
    BY <1>1, <1>2, <2>4 DEF OpAt
  <2>6. Locals(r, revs, used)
    BY <1>0, <1>1, <1>2, <2>4 DEF Locals
  <2>7. \A d \in r.todo : (\E s \in revs : s.doc = d) => Best(Tips(revs, d)).id # r.args[d]
    BY <1>5, <2>4, Terms
  <2>8. Follows(r, revs, used, seq)
    BY <1>1, <1>4, <2>2, <2>4, <2>7 DEF Follows
  <2>9. Truth(r, revs, bodies)
    BY <1>1, <1>2, <2>4, NothingPromised
  <2>10. Fine(r, revs, used, seq, bodies)
    BY <2>3, <2>5, <2>6, <2>8, <2>9 DEF Fine, Local
  <2> QED
    BY <2>1, <2>10, ReadsKeeps DEF r
<1> QED
  BY <1>6, <1>7

\* purge_docs, one document at a time
LEMMA PurgeDocKeeps ==
    ASSUME RestInv, NEW c \in Clients, PurgeDoc(c)
    PROVE  RestInv'
<1> DEFINE me == cl[c]
<1>0. /\ me \in Calls /\ OpAt(me) /\ Locals(me, revs, used) /\ used \in SUBSET Ids
  BY CallIs
<1>1. me.at = "purge"
  BY DEF PurgeDoc, At
<1>2. me.op = "purge_docs" /\ me.todo \subseteq DOMAIN me.args /\ me.todo \subseteq Docs
      /\ ~me.ok /\ ~me.bad /\ me.num <= Cardinality(used) + 1
  BY <1>0, <1>1 DEF OpAt, Locals, Calls
<1>3. PICK d \in me.todo :
         /\ revs' = revs \ Tree(d) /\ bodies' = bodies \ {r.id : r \in Tree(d)}
         /\ UNCHANGED <<used, seq>>
         /\ Writes(c, IF cl[c].todo = {d} THEN Returned(cl[c]) ELSE [cl[c] EXCEPT !.todo = @ \ {d}])
  BY DEF PurgeDoc
<1>4. DatabaseOK' /\ Moved
  BY <1>2, <1>3, PurgeEffect DEF RestInv
<1>5. CASE me.todo = {d}
  <2>1. Writes(c, Returned(cl[c])) /\ cl[c].op \notin Recorded
    BY <1>3, <1>5, <1>2 DEF Recorded
  <2> QED
    BY <2>1, <1>4, WroteAndReturned
<1>6. CASE me.todo # {d}
  <2> DEFINE r == [me EXCEPT !.todo = @ \ {d}]
  <2>1. r \in Calls
    BY <1>0 DEF Calls
  <2>2. /\ r.at = me.at /\ r.op = me.op /\ r.args = me.args /\ r.todo = me.todo \ {d}
        /\ r.num = me.num /\ r.ok = me.ok /\ r.bad = me.bad
    BY <1>0 DEF Calls
  <2>3. Writes(c, r)
    BY <1>3, <1>6
  <2> HIDE DEF r
  <2>4. OpAt(r)
    BY <1>1, <1>2, <2>2 DEF OpAt
  <2>5. used' = used
    BY <1>3
  <2>6. Fine(r, revs', used', seq', bodies')
    BY <1>0, <1>1, <1>2, <2>1, <2>2, <2>4, <2>5, PlainFine
  <2> QED
    BY <2>3, <2>6, <1>4, WritesKeeps
<1> QED
  BY <1>5, <1>6

-----------------------------------------------------------------------------
(* The operations that promise something of several documents              *)

\* A call at one of their places is in order with its local variables and its promise.
LEMMA PromisingFine ==
    ASSUME NEW r \in Calls, NEW R, NEW U \in SUBSET Ids, NEW q, NEW B, OpAt(r), ~r.ok,
           r.at \in {"get_conflicts", "delete_conflict", "recheck", "add", "bulk", "look", "revs_info"},
           r.num <= Cardinality(U) + 1,
           r.bad => r.at \in {"bulk", "look"},
           r.at # "revs_info" => r.todo \subseteq DOMAIN r.args,
           r.at = "bulk" => \A d \in DOMAIN r.args : r.args[d] = 0 <=> r.op = "add_bulk_docs",
           r.at = "delete_conflict" => r.d \in Docs /\ r.d \in DOMAIN r.args /\ r.d \notin r.todo,
           r.quiet => Truth(r, R, B)
    PROVE  Fine(r, R, U, q, B)
<1>1. Locals(r, R, U)
  BY DEF Locals
<1>2. Follows(r, R, U, q)
  BY DEF OpAt, Follows
<1> QED
  BY <1>1, <1>2 DEF Fine, Local

\* A promise about a document depends on its leaves alone, but for compact_database.
LEMMA PromiseStays ==
    ASSUME NEW op, op # "compact_database", NEW i, NEW R, NEW Q, NEW B, NEW C, NEW d,
           Tips(Q, d) = Tips(R, d), Promise(op, i, R, B, d)
    PROVE  Promise(op, i, Q, C, d)
BY DEF Promise, LiveTips, ConflictIds

\* Leaves have the types that comparing them needs.
LEMMA TipTypes ==
    ASSUME NEW R, NEW U, Grown(R, U), NEW d
    PROVE  \A s \in Tips(R, d) : /\ s.gen \in Nat /\ s.id \in Nat /\ s.id \in U
                                 /\ s.dead \in BOOLEAN
<1> SUFFICES ASSUME NEW s \in Tips(R, d)
             PROVE  s.gen \in Nat /\ s.id \in Nat /\ s.id \in U /\ s.dead \in BOOLEAN
  OBVIOUS
<1>1. RevOK(s, U)
  BY DEF Grown, Tips
<1> QED
  BY <1>1 DEF RevOK, Ids

\* A revision on a document that cannot be read is the one that is read then.
LEMMA AddWins ==
    ASSUME NEW R, NEW U, Grown(R, U), NEW x, x.id \in Ids \ U, x.parent \in U \union {0},
           ~x.dead, x.by = "add", NEW V, Grown(R \union {x}, V), LiveTips(R, x.doc) = {}
    PROVE  /\ LiveTips(R \union {x}, x.doc) # {}
           /\ Best(Tips(R \union {x}, x.doc)).by = "add"
<1> DEFINE L == Tips(R \union {x}, x.doc)
<1>1. L = {r \in Tips(R, x.doc) : r.id # x.parent} \union {x}
  BY StoreTips
<1>3. \A s \in L : s.gen \in Nat /\ s.id \in Nat /\ s.dead \in BOOLEAN
  BY TipTypes
<1>4. \A s \in Tips(R, x.doc) : s.dead
  BY DEF LiveTips
<1>5. x \in L /\ LiveTips(R \union {x}, x.doc) # {}
  BY <1>1 DEF LiveTips
<1> HIDE DEF L
<1>6. \A s \in L \ {x} : Beats(x, s)
  BY <1>1, <1>4 DEF Beats
<1>7. Best(L) = x
  BY <1>3, <1>5, <1>6, BestIs
<1> QED
  BY <1>5, <1>7 DEF L

\* The deletion of a conflicting revision takes it from the conflicts, and nothing else.
LEMMA DeleteLoses ==
    ASSUME NEW R, NEW U, Grown(R, U), NEW x, x.id \in Ids \ U, x.parent \in ConflictIds(R, x.doc),
           x.dead, NEW V, Grown(R \union {x}, V), LiveTips(R, x.doc) # {}
    PROVE  /\ LiveTips(R \union {x}, x.doc) # {}
           /\ ConflictIds(R \union {x}, x.doc) = ConflictIds(R, x.doc) \ {x.parent}
<1> DEFINE d == x.doc
           i == x.parent
           L == Tips(R, d)
           M == Tips(R \union {x}, d)
           w == Best(L)
<1>0. \A s \in L : s.gen \in Nat /\ s.id \in Nat /\ s.id \in U /\ s.dead \in BOOLEAN
  BY TipTypes
<1>1. i \in U \union {0}
  BY <1>0 DEF ConflictIds, LiveTips
<1>2. M = {r \in L : r.id # i} \union {x}
  BY <1>1, StoreTips
<1>4. \A s \in M : s.gen \in Nat /\ s.id \in Nat /\ s.dead \in BOOLEAN
  BY TipTypes
<1>5. \E r \in R : r.doc = d
  BY DEF LiveTips, Tips
<1>6. /\ w \in L /\ \A s \in L \ {w} : Beats(w, s)
      /\ (\E r \in L : ~r.dead) <=> ~w.dead
  BY <1>5, WinnerWins
<1>7. ~w.dead
  BY <1>6 DEF LiveTips
<1>8. w.id # i
  BY DEF ConflictIds
<1> HIDE DEF L, M, w, i, d
<1>9. w \in M /\ \A s \in M \ {w} : Beats(w, s)
  BY <1>2, <1>6, <1>7, <1>8 DEF Beats
<1>10. Best(M) = w
  BY <1>4, <1>9, BestIs
<1>11. LiveTips(R \union {x}, d) = {r \in LiveTips(R, d) : r.id # i}
  BY <1>2 DEF LiveTips, L, M
<1>12. LiveTips(R \union {x}, d) # {}
  BY <1>7, <1>9 DEF LiveTips, M
<1>13. ConflictIds(R \union {x}, d) = ConflictIds(R, d) \ {i}
  BY <1>10, <1>11 DEF ConflictIds, L, M, w
<1> QED
  BY <1>12, <1>13 DEF d, i

\* delete_conflicts gets every document and deletes its conflicts.
LEMMA GetConflictsKeeps ==
    ASSUME RestInv, NEW c \in Clients, GetConflicts(c)
    PROVE  RestInv'
<1> DEFINE me == cl[c]
<1>0. /\ me \in Calls /\ OpAt(me) /\ Locals(me, revs, used) /\ used \in SUBSET Ids
      /\ Grown(revs, used) /\ (me.quiet => Truth(me, revs, bodies))
  BY CallIs
<1>1. me.at = "get_conflicts"
  BY DEF GetConflicts, At
<1>2. /\ me.op = "delete_conflicts" /\ me.todo \subseteq DOMAIN me.args /\ me.todo \subseteq Docs
      /\ ~me.ok /\ ~me.bad /\ me.num <= Cardinality(used) + 1
  BY <1>0, <1>1 DEF OpAt, Locals, Calls
<1>3. me.quiet => KeptFor(me, About(me) \ me.todo, revs, bodies)
  BY <1>0, <1>1, <1>2 DEF Truth
<1>4. CASE me.todo = {} /\ Reads(c, [me EXCEPT !.at = "recheck", !.todo = DOMAIN me.args])
  <2> DEFINE r == [me EXCEPT !.at = "recheck", !.todo = DOMAIN me.args]
  <2>1. DOMAIN me.args \subseteq Docs
    BY <1>0, NoCallIs DEF Calls, Arguments
  <2>2. r \in Calls
    BY <1>0, <2>1 DEF Calls, Places
  <2>3. /\ r.at = "recheck" /\ r.op = me.op /\ r.args = me.args /\ r.todo = DOMAIN me.args
        /\ r.num = me.num /\ r.ok = me.ok /\ r.bad = me.bad /\ r.quiet = me.quiet
    BY <1>0 DEF Calls
  <2> HIDE DEF r
  <2>4. OpAt(r)
    BY <1>2, <2>3 DEF OpAt
  <2>5. r.quiet => Truth(r, revs, bodies)
    <3> SUFFICES ASSUME r.quiet PROVE Truth(r, revs, bodies)
      OBVIOUS
    <3>1. KeptFor(r, About(r), revs, bodies)
      BY <1>3, <1>4, <2>3 DEF KeptFor, About
    <3> QED
      BY <3>1, <2>3 DEF Truth
  <2>6. Fine(r, revs, used, seq, bodies)
    BY <1>0, <1>2, <2>2, <2>3, <2>4, <2>5, PromisingFine
  <2> QED
    BY <1>4, <2>6, ReadsKeeps DEF r
<1>5. ASSUME NEW d \in me.todo,
             GetDoc(c, d, [me EXCEPT !.at = "delete_conflict", !.d = d, !.todo = @ \ {d},
                                     !.pend = Conflicts(d)])
      PROVE  RestInv'
  <2> DEFINE r == [me EXCEPT !.at = "delete_conflict", !.d = d, !.todo = @ \ {d}, !.pend = Conflicts(d)]
  <2>1. SUFFICES ASSUME Readable(d), Reads(c, r) PROVE RestInv'
    BY <1>5, RaiseKeeps DEF GetDoc
  <2>2. LiveTips(revs, d) # {} /\ Conflicts(d) = ConflictIds(revs, d)
    BY <2>1, Terms
  <2>3. Conflicts(d) \subseteq Ids
    BY <1>0, <2>2, TipTypes DEF ConflictIds, LiveTips
  <2>4. r \in Calls
    BY <1>0, <1>2, <2>3 DEF Calls, Places
  <2>5. /\ r.at = "delete_conflict" /\ r.op = me.op /\ r.args = me.args /\ r.todo = me.todo \ {d}
        /\ r.d = d /\ r.pend = Conflicts(d)
        /\ r.num = me.num /\ r.ok = me.ok /\ r.bad = me.bad /\ r.quiet = me.quiet
    BY <1>0 DEF Calls
  <2> HIDE DEF r
  <2>6. OpAt(r)
    BY <1>2, <2>5 DEF OpAt
  <2>7. r.quiet => Truth(r, revs, bodies)
    <3> SUFFICES ASSUME r.quiet PROVE Truth(r, revs, bodies)
      OBVIOUS
    <3>1. About(r) \ (r.todo \union {r.d}) \subseteq About(me) \ me.todo
      BY <2>5 DEF About
    <3>2. KeptFor(r, About(r) \ (r.todo \union {r.d}), revs, bodies)
      BY <1>3, <2>5, <3>1 DEF KeptFor
    <3> QED
      BY <1>2, <2>2, <2>5, <3>2 DEF Truth
  <2>8. Fine(r, revs, used, seq, bodies)
    BY <1>0, <1>2, <2>4, <2>5, <2>6, <2>7, PromisingFine
  <2> QED
    BY <2>1, <2>8, ReadsKeeps DEF r
<1> QED
  BY <1>4, <1>5 DEF GetConflicts

\* The conflicts of one document, deleted one after another
LEMMA DeleteConflictKeeps ==
    ASSUME RestInv, NEW c \in Clients, DeleteConflict(c)
    PROVE  RestInv'
<1> DEFINE me == cl[c]
<1>0. /\ me \in Calls /\ OpAt(me) /\ Locals(me, revs, used) /\ used \in SUBSET Ids
      /\ Grown(revs, used) /\ (me.quiet => Truth(me, revs, bodies)) /\ DatabaseOK
      /\ Cardinality(used) \in Nat
  BY CallIs, FewIds, RestAssumption DEF RestInv
<1>1. me.at = "delete_conflict"
  BY DEF DeleteConflict, At
<1>2. /\ me.op = "delete_conflicts" /\ me.todo \subseteq DOMAIN me.args /\ me.d \in Docs
      /\ me.d \in DOMAIN me.args /\ me.d \notin me.todo
      /\ ~me.ok /\ ~me.bad /\ me.num <= Cardinality(used) + 1 /\ me.num \in Nat
  BY <1>0, <1>1 DEF OpAt, Locals, Calls
<1>3. me.quiet => /\ KeptFor(me, About(me) \ (me.todo \union {me.d}), revs, bodies)
                  /\ LiveTips(revs, me.d) # {} /\ ConflictIds(revs, me.d) = me.pend
  BY <1>0, <1>1 DEF Truth
<1>4. CASE me.pend = {}
  <2> DEFINE r == [me EXCEPT !.at = "get_conflicts", !.d = "none"]
  <2>1. Reads(c, r)
    BY <1>4 DEF DeleteConflict
  <2>2. r \in Calls
    BY <1>0 DEF Calls, Places
  <2>3. /\ r.at = "get_conflicts" /\ r.op = me.op /\ r.args = me.args /\ r.todo = me.todo
        /\ r.num = me.num /\ r.ok = me.ok /\ r.bad = me.bad /\ r.quiet = me.quiet
    BY <1>0 DEF Calls
  <2> HIDE DEF r
  <2>4. OpAt(r)
    BY <1>2, <2>3 DEF OpAt
  <2>5. r.quiet => Truth(r, revs, bodies)
    <3> SUFFICES ASSUME r.quiet PROVE Truth(r, revs, bodies)
      OBVIOUS
    <3>1. Promise(r.op, r.args[me.d], revs, bodies, me.d)
      BY <1>2, <1>3, <1>4, <2>3 DEF Promise
    <3>2. KeptFor(r, About(r) \ r.todo, revs, bodies)
      BY <1>3, <2>3, <3>1 DEF KeptFor, About
    <3> QED
      BY <1>2, <2>3, <3>2 DEF Truth
  <2>6. Fine(r, revs, used, seq, bodies)
    BY <1>0, <1>2, <2>2, <2>3, <2>4, <2>5, PromisingFine
  <2> QED
    BY <2>1, <2>6, ReadsKeeps DEF r
<1>5. CASE me.pend # {}
  <2>1. PICK i \in me.pend : DeleteRev(c, me.d, i, [me EXCEPT !.pend = @ \ {i}])
    BY <1>5 DEF DeleteConflict
  <2> DEFINE r == [me EXCEPT !.pend = @ \ {i}]
  <2>2. CASE ~IsLeaf(me.d, i)
    BY <2>1, <2>2, RaiseKeeps DEF DeleteRev
  <2>3. CASE IsLeaf(me.d, i)
    <3>1. PICK j \in NewIds : Store(me.d, i, TRUE, 0, "other", j)
      BY <2>1, <2>3 DEF DeleteRev
    <3>2. Writes(c, r)
      BY <2>1, <2>3 DEF DeleteRev
    <3>3. i \in used
      BY <1>0, <2>3, Terms, TipTypes
    <3> DEFINE x == NewRev(revs, me.d, i, TRUE, 0, "other", j)
    <3>4. /\ DatabaseOK' /\ Moved /\ j \in Ids \ used /\ used' = used \union {j}
          /\ Cardinality(used') = Cardinality(used) + 1
          /\ revs' = revs \union {x}
          /\ \A e \in Docs : e # me.d => Tips(revs', e) = Tips(revs, e)
      <4>1. 0 \in 0..(Cardinality(used) + 1)
        BY <1>0
      <4> QED
        BY <1>0, <1>2, <3>1, <3>3, <4>1, OtherFits, StoreEffect
    <3>5. x.doc = me.d /\ x.id = j /\ x.parent = i /\ x.dead
      BY DEF NewRev
    <3>6. r \in Calls
      BY <1>0 DEF Calls
    <3>7. /\ r.at = me.at /\ r.op = me.op /\ r.args = me.args /\ r.todo = me.todo /\ r.d = me.d
          /\ r.pend = me.pend \ {i}
          /\ r.num = me.num /\ r.ok = me.ok /\ r.bad = me.bad /\ r.quiet = me.quiet
      BY <1>0 DEF Calls
    <3> HIDE DEF r, x
    <3>8. OpAt(r)
      BY <1>1, <1>2, <3>7 DEF OpAt
    <3>9. r.quiet => Truth(r, revs', bodies')
      <4> SUFFICES ASSUME r.quiet PROVE Truth(r, revs', bodies')
        OBVIOUS
      <4>1. LiveTips(revs, me.d) # {} /\ i \in ConflictIds(revs, me.d) /\ ConflictIds(revs, me.d) = me.pend
        BY <1>3, <2>1, <3>7
      <4>2. Grown(revs \union {x}, used')
        BY <3>4 DEF DatabaseOK
      <4>3. /\ LiveTips(revs', me.d) # {}
            /\ ConflictIds(revs', me.d) = ConflictIds(revs, me.d) \ {i}
        BY <1>0, <3>4, <3>5, <4>1, <4>2, DeleteLoses
      <4>4. DOMAIN me.args \subseteq Docs
        BY <1>0, NoCallIs DEF Calls, Arguments
      <4>5. \A e \in About(r) \ (r.todo \union {r.d}) : Promise(r.op, r.args[e], revs', bodies', e)
        <5> SUFFICES ASSUME NEW e \in About(r) \ (r.todo \union {r.d})
                     PROVE  Promise(r.op, r.args[e], revs', bodies', e)
          OBVIOUS
        <5>1. e \in About(me) \ (me.todo \union {me.d}) /\ e \in Docs /\ e # me.d
          BY <1>2, <3>7, <4>4 DEF About
        <5>2. Promise(me.op, me.args[e], revs, bodies, e)
          BY <1>3, <3>7, <5>1 DEF KeptFor
        <5>3. Tips(revs', e) = Tips(revs, e) /\ me.op # "compact_database"
          BY <1>2, <3>4, <5>1
        <5> QED
          BY <5>2, <5>3, <3>7, PromiseStays
      <4> QED
        BY <1>1, <1>2, <3>7, <4>1, <4>3, <4>5 DEF Truth, KeptFor
    <3>10. used' \in SUBSET Ids /\ r.num <= Cardinality(used') + 1
      BY <1>0, <1>2, <3>4, <3>7
    <3>11. Fine(r, revs', used', seq', bodies')
      BY <1>1, <1>2, <3>6, <3>7, <3>8, <3>9, <3>10, PromisingFine
    <3> QED
      BY <3>2, <3>4, <3>11, WritesKeeps
  <2> QED
    BY <2>2, <2>3
<1> QED
  BY <1>4, <1>5

\* The second pass
LEMMA RecheckKeeps ==
    ASSUME RestInv, NEW c \in Clients, Recheck(c)
    PROVE  RestInv'
<1> DEFINE me == cl[c]
<1>0. /\ me \in Calls /\ OpAt(me) /\ Locals(me, revs, used) /\ used \in SUBSET Ids
      /\ (me.quiet => Truth(me, revs, bodies))
  BY CallIs
<1>1. me.at = "recheck"
  BY DEF Recheck, At
<1>2. /\ me.op = "delete_conflicts" /\ me.todo \subseteq DOMAIN me.args
      /\ ~me.ok /\ ~me.bad /\ me.num <= Cardinality(used) + 1
  BY <1>0, <1>1 DEF OpAt, Locals, Calls
<1>3. me.quiet => KeptFor(me, About(me), revs, bodies)
  BY <1>0, <1>1 DEF Truth
<1>4. CASE Return(c)
  BY <1>2, <1>3, <1>4, ReturnKeeps
<1>5. ASSUME NEW d \in me.todo, GetDoc(c, d, [me EXCEPT !.todo = @ \ {d}])
      PROVE  RestInv'
  <2> DEFINE r == [me EXCEPT !.todo = @ \ {d}]
  <2>1. SUFFICES ASSUME Reads(c, r) PROVE RestInv'
    BY <1>5, RaiseKeeps DEF GetDoc
  <2>2. r \in Calls
    BY <1>0 DEF Calls
  <2>3. /\ r.at = me.at /\ r.op = me.op /\ r.args = me.args /\ r.todo = me.todo \ {d}
        /\ r.num = me.num /\ r.ok = me.ok /\ r.bad = me.bad /\ r.quiet = me.quiet
    BY <1>0 DEF Calls
  <2> HIDE DEF r
  <2>4. OpAt(r)
    BY <1>1, <1>2, <2>3 DEF OpAt
  <2>5. r.quiet => Truth(r, revs, bodies)
    BY <1>1, <1>3, <2>3 DEF Truth, KeptFor, About
  <2>6. Fine(r, revs, used, seq, bodies)
    BY <1>0, <1>1, <1>2, <2>2, <2>3, <2>4, <2>5, PromisingFine
  <2> QED
    BY <2>1, <2>6, ReadsKeeps DEF r
<1> QED
  BY <1>4, <1>5 DEF Recheck

\* add_docs stores one document at a time.
LEMMA AddDocKeeps ==
    ASSUME RestInv, NEW c \in Clients, AddDoc(c)
    PROVE  RestInv'
<1> DEFINE me == cl[c]
<1>0. /\ me \in Calls /\ OpAt(me) /\ Locals(me, revs, used) /\ used \in SUBSET Ids
      /\ Grown(revs, used) /\ (me.quiet => Truth(me, revs, bodies)) /\ DatabaseOK
      /\ Cardinality(used) \in Nat
  BY CallIs, FewIds, RestAssumption DEF RestInv
<1>1. me.at = "add"
  BY DEF AddDoc, At
<1>2. /\ me.op = "add_docs" /\ me.todo \subseteq DOMAIN me.args /\ me.todo \subseteq Docs
      /\ ~me.ok /\ ~me.bad /\ me.num <= Cardinality(used) + 1 /\ me.num \in Nat
      /\ DOMAIN me.args \subseteq Docs
  BY <1>0, <1>1, NoCallIs DEF OpAt, Locals, Calls, Arguments
<1>3. me.quiet => KeptFor(me, About(me) \ me.todo, revs, bodies)
  BY <1>0, <1>1, <1>2 DEF Truth
<1>4. PICK d \in me.todo :
         IF Readable(d) THEN Raise(c)
         ELSE /\ \E j \in NewIds :
                   Store(d, IF Tree(d) # {} THEN Winner(d).id ELSE 0, FALSE, 0, "add", j)
              /\ Writes(c, IF me.todo = {d} THEN Returned(me) ELSE [me EXCEPT !.todo = @ \ {d}])
  BY DEF AddDoc
<1>5. SUFFICES ASSUME ~Readable(d) PROVE RestInv'
  BY <1>4, RaiseKeeps
<1> DEFINE p == IF Tree(d) # {} THEN Winner(d).id ELSE 0
           r == [me EXCEPT !.todo = @ \ {d}]
           after == IF me.todo = {d} THEN Returned(me) ELSE r
<1>6. p \in used \union {0}
  BY WinnerIs
<1>7. Writes(c, after)
  BY <1>4, <1>5
<1>8. PICK j \in NewIds : Store(d, p, FALSE, 0, "add", j)
  BY <1>4, <1>5
<1> HIDE DEF p, after
<1> DEFINE x == NewRev(revs, d, p, FALSE, 0, "add", j)
<1>9. /\ DatabaseOK' /\ Moved /\ j \in Ids \ used
      /\ Cardinality(used') = Cardinality(used) + 1
      /\ revs' = revs \union {x}
      /\ \A e \in Docs : e # d => Tips(revs', e) = Tips(revs, e)
  <2>1. 0 \in 0..(Cardinality(used) + 1) /\ d \in Docs
    BY <1>0, <1>2
  <2> QED
    BY <1>0, <1>6, <1>8, <2>1, OtherFits, StoreEffect
<1>10. x.doc = d /\ x.id = j /\ x.parent = p /\ ~x.dead /\ x.by = "add"
  BY DEF NewRev
<1> HIDE DEF x
<1>11. LiveTips(revs', d) # {} /\ Best(Tips(revs', d)).by = "add"
  <2>1. LiveTips(revs, d) = {}
    BY <1>5, Terms
  <2>2. Grown(revs \union {x}, used')
    BY <1>9 DEF DatabaseOK
  <2> QED
    BY <1>0, <1>6, <1>9, <1>10, <2>1, <2>2, AddWins
<1>12. Promise(me.op, me.args[d], revs', bodies', d)
  BY <1>2, <1>11 DEF Promise
<1>13. me.quiet => KeptFor(me, About(me) \ (me.todo \ {d}), revs', bodies')
  <2> SUFFICES ASSUME me.quiet, NEW e \in About(me) \ (me.todo \ {d})
               PROVE  Promise(me.op, me.args[e], revs', bodies', e)
    BY DEF KeptFor
  <2>1. CASE e = d
    BY <2>1, <1>12
  <2>2. CASE e # d
    <3>1. e \in About(me) \ me.todo /\ e \in Docs /\ me.op # "compact_database"
      BY <1>2, <2>2 DEF About
    <3>2. Promise(me.op, me.args[e], revs, bodies, e)
      BY <1>3, <3>1 DEF KeptFor
    <3>3. Tips(revs', e) = Tips(revs, e)
      BY <1>9, <2>2, <3>1
    <3> QED
      BY <3>1, <3>2, <3>3, PromiseStays
  <2> QED
    BY <2>1, <2>2
<1>14. used' \in SUBSET Ids
  BY <1>9 DEF Moved
<1>15. CASE me.todo = {d}
  <2>1. me.todo \ {d} = {}
    BY <1>15
  <2>2. me.quiet => KeptFor(me, About(me), revs', bodies')
    BY <1>13, <2>1 DEF KeptFor
  <2>3. Fine(Returned(me), revs', used', seq', bodies')
    BY <1>0, <1>2, <1>14, <2>2, ReturnedFine
  <2>4. Writes(c, Returned(me))
    BY <1>7, <1>15 DEF after
  <2> QED
    BY <1>9, <2>3, <2>4, WritesKeeps
<1>16. CASE me.todo # {d}
  <2>1. r \in Calls
    BY <1>0 DEF Calls
  <2>2. /\ r.at = me.at /\ r.op = me.op /\ r.args = me.args /\ r.todo = me.todo \ {d}
        /\ r.num = me.num /\ r.ok = me.ok /\ r.bad = me.bad /\ r.quiet = me.quiet
    BY <1>0 DEF Calls
  <2>3. Writes(c, r)
    BY <1>7, <1>16 DEF after
  <2> HIDE DEF r
  <2>4. OpAt(r)
    BY <1>1, <1>2, <2>2 DEF OpAt
  <2>5. r.quiet => Truth(r, revs', bodies')
    BY <1>1, <1>2, <1>13, <2>2 DEF Truth, KeptFor, About
  <2>6. r.num <= Cardinality(used') + 1
    BY <1>0, <1>2, <1>9, <2>2
  <2>7. Fine(r, revs', used', seq', bodies')
    BY <1>1, <1>2, <1>14, <2>1, <2>2, <2>4, <2>5, <2>6, PromisingFine
  <2> QED
    BY <1>9, <2>3, <2>7, WritesKeeps
<1> QED
  BY <1>15, <1>16

\* _bulk_docs stores or refuses one row at a time.
LEMMA BulkRowKeeps ==
    ASSUME RestInv, NEW c \in Clients, BulkRow(c)
    PROVE  RestInv'
<1> DEFINE me == cl[c]
<1>0. /\ me \in Calls /\ OpAt(me) /\ Locals(me, revs, used) /\ used \in SUBSET Ids
      /\ Grown(revs, used) /\ (me.quiet => Truth(me, revs, bodies)) /\ DatabaseOK
      /\ Cardinality(used) \in Nat
  BY CallIs, FewIds, RestAssumption DEF RestInv
<1>1. me.at = "bulk"
  BY DEF BulkRow, At
<1>2. /\ me.op \in {"add_bulk_docs", "delete_bulk_docs"} /\ me.todo \subseteq DOMAIN me.args
      /\ me.todo \subseteq Docs /\ DOMAIN me.args \subseteq Docs
      /\ ~me.ok /\ me.num <= Cardinality(used) + 1 /\ me.num \in Nat
      /\ \A d \in DOMAIN me.args : me.args[d] = 0 <=> me.op = "add_bulk_docs"
  BY <1>0, <1>1, NoCallIs DEF OpAt, Locals, Calls, Arguments
<1>3. me.quiet /\ ~me.bad => KeptFor(me, About(me) \ me.todo, revs, bodies)
  BY <1>0, <1>1 DEF Truth
<1>4. PICK d \in me.todo :
         LET i == me.args[d] IN
         IF RowAccepted(d, i)
         THEN /\ \E j \in NewIds :
                   Store(d, IF i = 0 /\ Tree(d) # {} THEN Winner(d).id ELSE i,
                         i # 0, 0, IF i = 0 THEN "add" ELSE "other", j)
              /\ Writes(c, [me EXCEPT !.todo = @ \ {d}])
         ELSE Reads(c, [me EXCEPT !.todo = @ \ {d}, !.bad = TRUE])
  BY DEF BulkRow
<1> DEFINE i == me.args[d]
<1>5. CASE ~RowAccepted(d, i)
  <2> DEFINE r == [me EXCEPT !.todo = @ \ {d}, !.bad = TRUE]
  <2>1. Reads(c, r)
    BY <1>4, <1>5
  <2>2. r \in Calls
    BY <1>0 DEF Calls
  <2>3. /\ r.at = me.at /\ r.op = me.op /\ r.args = me.args /\ r.todo = me.todo \ {d}
        /\ r.num = me.num /\ r.ok = me.ok /\ r.bad /\ r.quiet = me.quiet
    BY <1>0 DEF Calls
  <2> HIDE DEF r
  <2>4. OpAt(r)
    BY <1>1, <1>2, <2>3 DEF OpAt
  <2>5. Truth(r, revs, bodies)
    BY <1>1, <1>2, <2>3 DEF Truth
  <2>6. Fine(r, revs, used, seq, bodies)
    BY <1>0, <1>1, <1>2, <2>2, <2>3, <2>4, <2>5, PromisingFine
  <2> QED
    BY <2>1, <2>6, ReadsKeeps DEF r
<1>6. CASE RowAccepted(d, i)
  <2> DEFINE p == IF i = 0 /\ Tree(d) # {} THEN Winner(d).id ELSE i
             dead == i # 0
             by == IF i = 0 THEN "add" ELSE "other"
             r == [me EXCEPT !.todo = @ \ {d}]
  <2>1. PICK j \in NewIds : Store(d, p, dead, 0, by, j)
    BY <1>4, <1>6
  <2>2. Writes(c, r)
    BY <1>4, <1>6
  <2>3. p \in used \union {0}
    <3>1. CASE i = 0
      BY <3>1, WinnerIs
    <3>2. CASE i # 0
      <4>1. IsLeaf(d, i)
        BY <1>6, <3>2 DEF RowAccepted
      <4>2. i \in used
        BY <1>0, <4>1, Terms, TipTypes
      <4> QED
        BY <3>2, <4>2
    <3> QED
      BY <3>1, <3>2
  <2>4. dead \in BOOLEAN /\ by \in {"add", "update", "other"} /\ by # "update"
    OBVIOUS
  <2>5. (i = 0 => ~dead /\ by = "add") /\ (i # 0 => dead /\ p = i)
    OBVIOUS
  <2> DEFINE x == NewRev(revs, d, p, dead, 0, by, j)
  <2> HIDE DEF p, dead, by, i
  <2>6. /\ DatabaseOK' /\ Moved /\ j \in Ids \ used
        /\ Cardinality(used') = Cardinality(used) + 1
        /\ revs' = revs \union {x}
        /\ \A e \in Docs : e # d => Tips(revs', e) = Tips(revs, e)
    <3>1. 0 \in 0..(Cardinality(used) + 1) /\ d \in Docs
      BY <1>0, <1>2
    <3> QED
      BY <1>0, <2>1, <2>3, <2>4, <3>1, OtherFits, StoreEffect
  <2>7. x.doc = d /\ x.id = j /\ x.parent = p /\ x.dead = dead /\ x.by = by
    BY DEF NewRev
  <2> HIDE DEF x
  <2>8. Grown(revs \union {x}, used')
    BY <2>6 DEF DatabaseOK
  <2>9. Promise(me.op, i, revs', bodies', d)
    <3>1. CASE i = 0
      <4>1. LiveTips(revs, d) = {}
        BY <1>6, <3>1, Terms DEF RowAccepted
      <4>2. ~x.dead /\ x.by = "add"
        BY <2>4, <2>5, <2>7, <3>1
      <4>3. LiveTips(revs', d) # {} /\ Best(Tips(revs', d)).by = "add"
        BY <1>0, <2>3, <2>6, <2>7, <2>8, <4>1, <4>2, AddWins
      <4>4. me.op = "add_bulk_docs"
        BY <1>2, <3>1 DEF i
      <4> QED
        BY <4>3, <4>4 DEF Promise
    <3>2. CASE i # 0
      <4>1. x \in Tips(revs', d)
        <5>1. Tips(revs', d) = {s \in Tips(revs, d) : s.id # p} \union {x}
          BY <1>0, <2>3, <2>6, <2>7, StoreTips
        <5> QED
          BY <5>1
      <4>2. x.dead /\ x.parent = i
        BY <2>4, <2>5, <2>7, <3>2
      <4>3. me.op = "delete_bulk_docs"
        BY <1>2, <3>2 DEF i
      <4> QED
        BY <4>1, <4>2, <4>3 DEF Promise
    <3> QED
      BY <3>1, <3>2
  <2>10. me.quiet /\ ~me.bad => KeptFor(me, About(me) \ (me.todo \ {d}), revs', bodies')
    <3> SUFFICES ASSUME me.quiet, ~me.bad, NEW e \in About(me) \ (me.todo \ {d})
                 PROVE  Promise(me.op, me.args[e], revs', bodies', e)
      BY DEF KeptFor
    <3>1. CASE e = d
      BY <3>1, <2>9 DEF i
    <3>2. CASE e # d
      <4>1. e \in About(me) \ me.todo /\ e \in Docs /\ me.op # "compact_database"
        BY <1>2, <3>2 DEF About
      <4>2. Promise(me.op, me.args[e], revs, bodies, e)
        BY <1>3, <4>1 DEF KeptFor
      <4>3. Tips(revs', e) = Tips(revs, e)
        BY <2>6, <3>2, <4>1
      <4> QED
        BY <4>1, <4>2, <4>3, PromiseStays
    <3> QED
      BY <3>1, <3>2
  <2>11. r \in Calls
    BY <1>0 DEF Calls
  <2>12. /\ r.at = me.at /\ r.op = me.op /\ r.args = me.args /\ r.todo = me.todo \ {d}
         /\ r.num = me.num /\ r.ok = me.ok /\ r.bad = me.bad /\ r.quiet = me.quiet
    BY <1>0 DEF Calls
  <2> HIDE DEF r
  <2>13. OpAt(r)
    BY <1>1, <1>2, <2>12 DEF OpAt
  <2>14. r.quiet => Truth(r, revs', bodies')
    BY <1>1, <1>2, <2>10, <2>12 DEF Truth, KeptFor, About
  <2>15. used' \in SUBSET Ids /\ r.num <= Cardinality(used') + 1
    BY <1>0, <1>2, <2>6, <2>12 DEF Moved
  <2>16. Fine(r, revs', used', seq', bodies')
    BY <1>1, <1>2, <2>11, <2>12, <2>13, <2>14, <2>15, PromisingFine
  <2> QED
    BY <2>2, <2>6, <2>16, WritesKeeps
<1> QED
  BY <1>5, <1>6

\* It raises if a row failed.
LEMMA BulkDoneKeeps ==
    ASSUME RestInv, NEW c \in Clients, BulkDone(c)
    PROVE  RestInv'
<1> DEFINE me == cl[c]
<1>0. /\ me \in Calls /\ OpAt(me) /\ (me.quiet => Truth(me, revs, bodies))
  BY CallIs
<1>1. me.at = "bulk" /\ me.todo = {}
  BY DEF BulkDone, At
<1>2. me.op # "verify_docs_in_changes"
  BY <1>0, <1>1 DEF OpAt
<1>3. me.quiet /\ ~me.bad => KeptFor(me, About(me), revs, bodies)
  BY <1>0, <1>1 DEF Truth, KeptFor
<1>4. CASE me.bad
  BY <1>4, RaiseKeeps DEF BulkDone
<1>5. CASE ~me.bad
  <2>1. Return(c)
    BY <1>5 DEF BulkDone
  <2> QED
    BY <1>2, <1>3, <1>5, <2>1, ReturnKeeps
<1> QED
  BY <1>4, <1>5

\* verify_docs_deleted looks at one document after another, and passes again over all of
\* them when it saw one.
LEMMA LookKeeps ==
    ASSUME RestInv, NEW c \in Clients, LookAtDoc(c) \/ LookDone(c)
    PROVE  RestInv'
<1> DEFINE me == cl[c]
<1>0. /\ me \in Calls /\ OpAt(me) /\ Locals(me, revs, used) /\ used \in SUBSET Ids
      /\ (me.quiet => Truth(me, revs, bodies))
  BY CallIs
<1>1. me.at = "look"
  BY DEF LookAtDoc, LookDone, At
<1>2. /\ me.op = "verify_docs_deleted" /\ me.todo \subseteq DOMAIN me.args
      /\ DOMAIN me.args \subseteq Docs
      /\ ~me.ok /\ me.num <= Cardinality(used) + 1
  BY <1>0, <1>1, NoCallIs DEF OpAt, Locals, Calls, Arguments
<1>3. me.quiet /\ ~me.bad => KeptFor(me, About(me) \ me.todo, revs, bodies)
  BY <1>0, <1>1 DEF Truth
<1>4. CASE LookAtDoc(c)
  <2>1. PICK d \in me.todo :
           IF Tree(d) = {} THEN Raise(c)
           ELSE Reads(c, [me EXCEPT !.todo = @ \ {d}, !.bad = @ \/ Readable(d)])
    BY <1>4 DEF LookAtDoc
  <2> DEFINE b == me.bad \/ Readable(d)
             r == [me EXCEPT !.todo = @ \ {d}, !.bad = b]
  <2>2. SUFFICES ASSUME Reads(c, r) PROVE RestInv'
    BY <2>1, RaiseKeeps
  <2>3. b \in BOOLEAN /\ (~b => ~me.bad /\ LiveTips(revs, d) = {})
    BY Terms
  <2> HIDE DEF b
  <2>4. r \in Calls
    BY <1>0, <2>3 DEF Calls
  <2>5. /\ r.at = me.at /\ r.op = me.op /\ r.args = me.args /\ r.todo = me.todo \ {d}
        /\ r.num = me.num /\ r.ok = me.ok /\ r.bad = b /\ r.quiet = me.quiet
    BY <1>0 DEF Calls
  <2> HIDE DEF r
  <2>6. OpAt(r)
    BY <1>1, <1>2, <2>5 DEF OpAt
  <2>7. r.quiet => Truth(r, revs, bodies)
    <3> SUFFICES ASSUME r.quiet PROVE Truth(r, revs, bodies)
      OBVIOUS
    <3>1. ~b => KeptFor(r, About(r) \ r.todo, revs, bodies)
      <4> SUFFICES ASSUME ~b, NEW e \in About(r) \ r.todo
                   PROVE  Promise(r.op, r.args[e], revs, bodies, e)
        BY DEF KeptFor
      <4>1. CASE e = d
        BY <4>1, <1>2, <2>3, <2>5 DEF Promise
      <4>2. CASE e # d
        <5>1. e \in About(me) \ me.todo /\ me.quiet
          BY <4>2, <2>5 DEF About
        <5> QED
          BY <5>1, <1>3, <2>3, <2>5 DEF KeptFor
      <4> QED
        BY <4>1, <4>2
    <3> QED
      BY <1>1, <1>2, <2>3, <2>5, <3>1 DEF Truth
  <2>8. Fine(r, revs, used, seq, bodies)
    BY <1>0, <1>1, <1>2, <2>4, <2>5, <2>6, <2>7, PromisingFine
  <2> QED
    BY <2>2, <2>8, ReadsKeeps DEF r
<1>5. CASE LookDone(c)
  <2>0. me.todo = {}
    BY <1>5 DEF LookDone
  <2>1. CASE ~me.bad
    <3>1. KeptFor(me, About(me) \ me.todo, revs, bodies) => KeptFor(me, About(me), revs, bodies)
      BY <2>0 DEF KeptFor
    <3>2. Return(c)
      BY <2>1, <1>5 DEF LookDone
    <3> QED
      BY <1>2, <1>3, <2>1, <3>1, <3>2, ReturnKeeps
  <2>2. CASE me.bad
    <3> DEFINE r == [me EXCEPT !.todo = DOMAIN me.args, !.bad = FALSE]
    <3>1. Reads(c, r)
      BY <2>2, <1>5 DEF LookDone
    <3>2. r \in Calls
      BY <1>0, <1>2 DEF Calls
    <3>3. /\ r.at = me.at /\ r.op = me.op /\ r.args = me.args /\ r.todo = DOMAIN me.args
          /\ r.num = me.num /\ r.ok = me.ok /\ ~r.bad /\ r.quiet = me.quiet
      BY <1>0 DEF Calls
    <3> HIDE DEF r
    <3>4. OpAt(r)
      BY <1>1, <1>2, <3>3 DEF OpAt
    <3>5. Truth(r, revs, bodies)
      BY <1>1, <1>2, <3>3 DEF Truth, KeptFor, About
    <3>6. Fine(r, revs, used, seq, bodies)
      BY <1>0, <1>1, <1>2, <3>2, <3>3, <3>4, <3>5, PromisingFine
    <3> QED
      BY <3>1, <3>6, ReadsKeeps DEF r
  <2> QED
    BY <2>1, <2>2
<1> QED
  BY <1>4, <1>5

\* Compaction drops bodies of revisions that are not leaves: it breaks no promise.
LEMMA TruthCompacts ==
    ASSUME DatabaseOK, NEW B, B \subseteq bodies,
           \A d \in Docs : \A s \in Tips(revs, d) : s.id \in B,
           NEW m \in Calls, Truth(m, revs, bodies)
    PROVE  Truth(m, revs, B)
<1>1. ASSUME NEW d \in Docs, Compact(revs, bodies, d) PROVE Compact(revs, B, d)
  <2> SUFFICES ASSUME LiveTips(revs, d) # {} PROVE Compact(revs, B, d)
    BY DEF Compact
  <2> DEFINE w == Best(Tips(revs, d))
  <2>1. w \in Tips(revs, d)
    <3>1. \E s \in revs : s.doc = d
      BY DEF LiveTips, Tips
    <3> QED
      BY <3>1, WinnerWins DEF DatabaseOK
  <2>2. bodies \intersect (w.past \union {w.id}) = {w.id}
    BY <1>1 DEF Compact
  <2>3. w.id \in B
    BY <2>1
  <2>4. B \intersect (w.past \union {w.id}) = {w.id}
    BY <2>2, <2>3
  <2> QED
    BY <2>4 DEF Compact
<1>2. DOMAIN m.args \subseteq Docs
  BY NoCallIs DEF Calls, Arguments
<1>3. About(m) \subseteq Docs
  BY <1>2 DEF About
<1>4. ASSUME NEW d \in Docs, NEW i, Promise(m.op, i, revs, bodies, d)
      PROVE  Promise(m.op, i, revs, B, d)
  BY <1>1, <1>4 DEF Promise
<1>5. ASSUME NEW S, S \subseteq Docs, KeptFor(m, S, revs, bodies) PROVE KeptFor(m, S, revs, B)
  BY <1>4, <1>5 DEF KeptFor
<1>6. m.ok \/ m.at = "recheck" => KeptFor(m, About(m), revs, B)
  BY <1>3, <1>5 DEF Truth
<1>7. m.at \in {"get_conflicts", "add", "bulk", "look", "revs_info"} /\ ~m.bad =>
         KeptFor(m, About(m) \ m.todo, revs, B)
  <2>1. About(m) \ m.todo \subseteq Docs
    BY <1>3
  <2> QED
    BY <2>1, <1>5 DEF Truth
<1>8. m.at = "delete_conflict" =>
         /\ KeptFor(m, About(m) \ (m.todo \union {m.d}), revs, B)
         /\ LiveTips(revs, m.d) # {} /\ ConflictIds(revs, m.d) = m.pend
  <2>1. About(m) \ (m.todo \union {m.d}) \subseteq Docs
    BY <1>3
  <2> QED
    BY <2>1, <1>5 DEF Truth
<1> QED
  BY <1>6, <1>7, <1>8 DEF Truth

\* The compaction
LEMMA PostCompactKeeps ==
    ASSUME RestInv, NEW c \in Clients, PostCompact(c)
    PROVE  RestInv'
<1> DEFINE me == cl[c]
           r == [me EXCEPT !.at = "all_docs"]
           old == {i \in bodies : \A s \in revs : s.id = i => ~IsLeaf(s.doc, i)}
<1>0. /\ me \in Calls /\ OpAt(me) /\ Locals(me, revs, used) /\ used \in SUBSET Ids /\ DatabaseOK
  BY CallIs DEF RestInv
<1>1. me.at = "compact"
  BY DEF PostCompact, At
<1>2. me.op = "compact_database" /\ ~me.ok /\ ~me.bad /\ me.num <= Cardinality(used) + 1
  BY <1>0, <1>1 DEF OpAt, Locals
<1>3. PICK kept \in SUBSET old : bodies' = (bodies \ old) \union kept
  BY DEF PostCompact
<1>4. cl' = [cl EXCEPT ![c] = r] /\ revs' = revs /\ used' = used /\ seq' = seq
  BY DEF PostCompact, Goes
<1>5. bodies' \subseteq bodies
  BY <1>3
<1>6. \A d \in Docs : \A s \in Tips(revs, d) : s.id \in bodies'
  <2> SUFFICES ASSUME NEW d \in Docs, NEW s \in Tips(revs, d) PROVE s.id \in bodies'
    OBVIOUS
  <2>1. s \in revs /\ s.doc = d /\ s.id \in bodies
    BY <1>0 DEF DatabaseOK, Tips
  <2>2. IsLeaf(s.doc, s.id)
    BY <2>1, Terms
  <2>3. s.id \notin old
    BY <2>1, <2>2
  <2> QED
    BY <1>3, <2>1, <2>3
<1> HIDE DEF old
<1>7. DatabaseOK'
  <2>1. bodies' \subseteq used'
    BY <1>0, <1>4, <1>5 DEF DatabaseOK
  <2> QED
    BY <1>0, <1>4, <1>6, <2>1 DEF DatabaseOK
<1>8. r \in Calls
  BY <1>0 DEF Calls, Places
<1>9. /\ r.at = "all_docs" /\ r.op = me.op /\ r.num = me.num /\ r.ok = me.ok /\ r.bad = me.bad
  BY <1>0 DEF Calls
<1> HIDE DEF r
<1>10. OpAt(r)
  BY <1>2, <1>9 DEF OpAt
<1>11. Fine(r, revs', used', seq', bodies')
  BY <1>0, <1>2, <1>4, <1>8, <1>9, <1>10, PlainFine
<1>12. ASSUME NEW y \in Clients PROVE Fine(cl'[y], revs', used', seq', bodies')
  <2>1. CASE y = c
    <3>1. cl'[y] = r
      BY <2>1, <1>4 DEF RestInv
    <3> QED
      BY <3>1, <1>11
  <2>2. CASE y # c
    <3>1. cl'[y] = cl[y]
      BY <2>2, <1>4 DEF RestInv
    <3>2. Local(cl[y], revs, used, seq) /\ cl[y] \in Calls
          /\ (cl[y].quiet \/ cl[y].ok => Truth(cl[y], revs, bodies))
      BY DEF RestInv, Fine
    <3>3. cl[y].quiet \/ cl[y].ok => Truth(cl[y], revs, bodies')
      BY <1>0, <1>5, <1>6, <3>2, TruthCompacts
    <3> QED
      BY <1>4, <3>1, <3>2, <3>3 DEF Fine
  <2> QED
    BY <2>1, <2>2
<1>13. cl' \in [Clients -> Calls]
  BY <1>4, <1>8 DEF RestInv
<1> QED
  BY <1>7, <1>12, <1>13 DEF RestInv

\* The check of what is left, for the documents that can be read
LEMMA RevsInfoKeeps ==
    ASSUME RestInv, NEW c \in Clients, AllDocs(c) \/ RevsInfo(c)
    PROVE  RestInv'
<1> DEFINE me == cl[c]
<1>0. /\ me \in Calls /\ OpAt(me) /\ Locals(me, revs, used) /\ used \in SUBSET Ids
      /\ (me.quiet => Truth(me, revs, bodies)) /\ DatabaseOK
  BY CallIs DEF RestInv
<1>1. me.at \in {"all_docs", "revs_info"}
  BY DEF AllDocs, RevsInfo, At
<1>2. /\ me.op = "compact_database" /\ ~me.ok /\ ~me.bad /\ me.num <= Cardinality(used) + 1
  BY <1>0, <1>1 DEF OpAt, Locals
<1>3. CASE AllDocs(c)
  <2> DEFINE S == {d \in Docs : Readable(d)}
             r == [me EXCEPT !.at = "revs_info", !.todo = S, !.args = [d \in S |-> 0]]
  <2>1. Reads(c, r)
    BY <1>3 DEF AllDocs
  <2>2. S \subseteq Docs /\ [d \in S |-> 0] \in Arguments
    <3>1. S \in SUBSET Docs
      OBVIOUS
    <3> HIDE DEF S
    <3>2. [d \in S |-> 0] \in [S -> {0} \union Ids]
      OBVIOUS
    <3> QED
      BY <3>1, <3>2 DEF Arguments
  <2>3. \A d \in Docs \ S : Compact(revs, bodies, d)
    BY Terms DEF Compact
  <2> HIDE DEF S
  <2>4. r \in Calls
    BY <1>0, <2>2 DEF Calls, Places
  <2>5. /\ r.at = "revs_info" /\ r.op = me.op /\ r.todo = S
        /\ r.num = me.num /\ r.ok = me.ok /\ r.bad = me.bad /\ r.quiet = me.quiet
    BY <1>0 DEF Calls
  <2> HIDE DEF r
  <2>6. OpAt(r)
    BY <1>2, <2>5 DEF OpAt
  <2>7. KeptFor(r, About(r) \ r.todo, revs, bodies)
    BY <1>2, <2>3, <2>5 DEF KeptFor, About, Promise
  <2>8. Truth(r, revs, bodies)
    BY <1>2, <2>5, <2>7 DEF Truth
  <2>9. Fine(r, revs, used, seq, bodies)
    BY <1>0, <1>2, <2>4, <2>5, <2>6, <2>8, PromisingFine
  <2> QED
    BY <2>1, <2>9, ReadsKeeps DEF r
<1>4. CASE RevsInfo(c)
  <2>0. me.at = "revs_info"
    BY <1>4 DEF RevsInfo, At
  <2>0a. me.quiet => KeptFor(me, About(me) \ me.todo, revs, bodies)
    BY <1>0, <1>2, <2>0 DEF Truth
  <2>1. CASE me.todo = {} /\ Return(c)
    <3>1. me.quiet => KeptFor(me, About(me), revs, bodies)
      BY <2>0a, <2>1 DEF KeptFor
    <3> QED
      BY <1>2, <2>1, <3>1, ReturnKeeps
  <2>2. ASSUME NEW d \in me.todo,
               IF Readable(d) /\ Cardinality(Available(d)) # 1 THEN Raise(c)
               ELSE GetDoc(c, d, [me EXCEPT !.todo = @ \ {d}])
        PROVE  RestInv'
    <3> DEFINE r == [me EXCEPT !.todo = @ \ {d}]
    <3>1. SUFFICES ASSUME Readable(d), Cardinality(Available(d)) = 1, Reads(c, r) PROVE RestInv'
      BY <2>2, RaiseKeeps DEF GetDoc
    <3>2. Compact(revs, bodies, d)
      <4> DEFINE w == Best(Tips(revs, d))
                 A == bodies \intersect (w.past \union {w.id})
      <4>1. Winner(d) = w /\ w \in Tips(revs, d) /\ d \in Docs
        <5>1. d \in Docs
          BY <1>0 DEF Calls
        <5> QED
          BY <3>1, <5>1, ReadableHasTree, WinnerIs, Terms
      <4>2. A = Available(d)
        BY <4>1 DEF Available
      <4>3. w.id \in A
        BY <1>0, <4>1 DEF DatabaseOK
      <4>4. A \in SUBSET Ids
        BY <1>0 DEF DatabaseOK
      <4> HIDE DEF A
      <4>5. IsFiniteSet(A) /\ Cardinality(A) = 1
        BY <3>1, <4>2, <4>4, FewIds
      <4>6. \E y : A = {y}
        BY <4>5, FS_Singleton
      <4>7. A = {w.id}
        BY <4>3, <4>6
      <4> QED
        BY <4>7 DEF A, Compact
    <3>3. r \in Calls
      BY <1>0 DEF Calls
    <3>4. /\ r.at = me.at /\ r.op = me.op /\ r.args = me.args /\ r.todo = me.todo \ {d}
          /\ r.num = me.num /\ r.ok = me.ok /\ r.bad = me.bad /\ r.quiet = me.quiet
      BY <1>0 DEF Calls
    <3> HIDE DEF r
    <3>5. OpAt(r)
      BY <1>2, <2>0, <3>4 DEF OpAt
    <3>6. r.quiet => Truth(r, revs, bodies)
      <4> SUFFICES ASSUME r.quiet PROVE Truth(r, revs, bodies)
        OBVIOUS
      <4>1. KeptFor(r, About(r) \ r.todo, revs, bodies)
        <5> SUFFICES ASSUME NEW e \in About(r) \ r.todo
                     PROVE  Promise(r.op, r.args[e], revs, bodies, e)
          BY DEF KeptFor
        <5>1. CASE e = d
          BY <5>1, <1>2, <3>2, <3>4 DEF Promise
        <5>2. CASE e # d
          <6>1. e \in About(me) \ me.todo /\ me.quiet
            BY <5>2, <3>4 DEF About
          <6> QED
            BY <6>1, <2>0a, <3>4 DEF KeptFor
        <5> QED
          BY <5>1, <5>2
      <4> QED
        BY <1>2, <2>0, <3>4, <4>1 DEF Truth
    <3>7. Fine(r, revs, used, seq, bodies)
      BY <1>0, <1>2, <2>0, <3>3, <3>4, <3>5, <3>6, PromisingFine
    <3> QED
      BY <3>1, <3>7, ReadsKeeps DEF r
  <2> QED
    BY <1>4, <2>1, <2>2 DEF RevsInfo
<1> QED
  BY <1>3, <1>4

-----------------------------------------------------------------------------
(* The theorems                                                            *)

\* What the operations are called with
LEMMA ArgumentsAre ==
    /\ \A a \in NoRevs : /\ a \in Arguments /\ DOMAIN a \in (SUBSET Docs) \ {{}}
                         /\ \A d \in DOMAIN a : a[d] = 0
    /\ \A a \in AllRevs : /\ a \in Arguments /\ DOMAIN a \in (SUBSET Docs) \ {{}}
                          /\ \A d \in DOMAIN a : a[d] # 0
    /\ HasRevs \subseteq AllRevs
<1>1. ASSUME NEW a \in NoRevs
      PROVE  /\ a \in Arguments /\ DOMAIN a \in (SUBSET Docs) \ {{}}
             /\ \A d \in DOMAIN a : a[d] = 0
  <2>1. PICK S \in (SUBSET Docs) \ {{}} : a = [d \in S |-> 0]
    BY DEF NoRevs
  <2>2. a \in [S -> {0} \union Ids] /\ DOMAIN a = S
    BY <2>1
  <2> QED
    BY <2>1, <2>2 DEF Arguments
<1>2. ASSUME NEW a \in AllRevs
      PROVE  /\ a \in Arguments /\ DOMAIN a \in (SUBSET Docs) \ {{}}
             /\ \A d \in DOMAIN a : a[d] # 0
  <2>1. PICK S \in (SUBSET Docs) \ {{}} : a \in [S -> Ids]
    BY DEF AllRevs
  <2>2. a \in [S -> {0} \union Ids] /\ DOMAIN a = S /\ \A d \in S : a[d] # 0
    BY <2>1 DEF Ids
  <2> QED
    BY <2>1, <2>2 DEF Arguments
<1>3. HasRevs \subseteq AllRevs
  BY DEF HasRevs
<1> QED
  BY <1>1, <1>2, <1>3

\* The calls with several documents
LEMMA CallManyKeeps ==
    ASSUME RestInv, NEW c \in Clients,
           \/ CallDeleteDocs(c) \/ CallDeleteConflicts(c) \/ CallAddDocs(c) \/ CallAddBulk(c)
           \/ CallDeleteBulk(c) \/ CallPurgeDocs(c) \/ CallVerifyDeleted(c)
           \/ CallVerifyPresent(c) \/ CallGetBulkDocs(c) \/ CallVerifyChanges(c)
    PROVE  RestInv'
<1>0. \A a \in HasRevs : a \in AllRevs
  BY ArgumentsAre
<1>1. CASE CallDeleteDocs(c)
  <2>1. <<"delete_docs", "get_latest">> \in Starts
    BY DEF Starts
  <2> QED
    BY <1>1, <2>1, ArgumentsAre, CallKeeps DEF CallDeleteDocs
<1>2. CASE CallDeleteConflicts(c)
  <2>1. <<"delete_conflicts", "get_conflicts">> \in Starts
    BY DEF Starts
  <2> QED
    BY <1>2, <2>1, ArgumentsAre, CallKeeps DEF CallDeleteConflicts
<1>3. CASE CallAddDocs(c)
  <2>1. <<"add_docs", "add">> \in Starts
    BY DEF Starts
  <2> QED
    BY <1>3, <2>1, ArgumentsAre, CallKeeps DEF CallAddDocs
<1>4. CASE CallAddBulk(c)
  <2>1. <<"add_bulk_docs", "bulk">> \in Starts
    BY DEF Starts
  <2> QED
    BY <1>4, <2>1, ArgumentsAre, CallKeeps DEF CallAddBulk
<1>5. CASE CallDeleteBulk(c)
  <2>1. <<"delete_bulk_docs", "bulk">> \in Starts
    BY DEF Starts
  <2> QED
    BY <1>0, <1>5, <2>1, ArgumentsAre, CallKeeps DEF CallDeleteBulk
<1>6. CASE CallPurgeDocs(c)
  <2>1. <<"purge_docs", "purge">> \in Starts
    BY DEF Starts
  <2> QED
    BY <1>6, <2>1, ArgumentsAre, CallKeeps DEF CallPurgeDocs
<1>7. CASE CallVerifyDeleted(c)
  <2>1. <<"verify_docs_deleted", "look">> \in Starts
    BY DEF Starts
  <2> QED
    BY <1>7, <2>1, ArgumentsAre, CallKeeps DEF CallVerifyDeleted
<1>8. CASE CallVerifyPresent(c)
  <2>1. <<"verify_docs_present", "bulk_get">> \in Starts
    BY DEF Starts
  <2> QED
    BY <1>0, <1>8, <2>1, ArgumentsAre, CallKeeps DEF CallVerifyPresent
<1>9. CASE CallGetBulkDocs(c)
  <2>1. <<"get_bulk_docs", "bulk_get_all">> \in Starts
    BY DEF Starts
  <2> QED
    BY <1>9, <2>1, ArgumentsAre, CallKeeps DEF CallGetBulkDocs
<1>10. CASE CallVerifyChanges(c)
  <2>1. <<"verify_docs_in_changes", "changes">> \in Starts
    BY DEF Starts
  <2> QED
    BY <1>10, <2>1, ArgumentsAre, CallKeeps DEF CallVerifyChanges
<1> QED
  BY <1>1, <1>2, <1>3, <1>4, <1>5, <1>6, <1>7, <1>8, <1>9, <1>10

\* The invariant holds at the start.
LEMMA InitRest == Init => RestInv
<1> SUFFICES ASSUME Init PROVE RestInv
  OBVIOUS
<1>1. revs = {} /\ used = {} /\ bodies = {} /\ seq = [d \in Docs |-> 0]
      /\ cl = [c \in Clients |-> NoCall]
  BY DEF Init
<1>2. Cardinality(used) = 0
  BY <1>1, FS_EmptySet
<1>3. Grown(revs, used)
  BY <1>1 DEF Grown, Unique, Longer, Counted
<1>4. DatabaseOK
  BY <1>1, <1>2, <1>3 DEF DatabaseOK, Tips
<1>5. \A c \in Clients : cl[c] = NoCall /\ cl[c] \in Calls
  BY <1>1, NoCallIs
<1>6. used \in SUBSET Ids
  BY <1>1
<1>7. Fine(NoCall, revs, used, seq, bodies)
  BY <1>6, NoCallFine
<1>8. cl \in [Clients -> Calls]
  BY <1>1, NoCallIs
<1> QED
  BY <1>4, <1>5, <1>7, <1>8 DEF RestInv

\* Every step keeps it.
LEMMA NextRest == RestInv /\ [Next]_vars => RestInv'
<1> SUFFICES ASSUME RestInv, [Next]_vars PROVE RestInv'
  OBVIOUS
<1>1. CASE UNCHANGED vars
  <2>1. revs' = revs /\ used' = used /\ bodies' = bodies /\ seq' = seq /\ cl' = cl
    BY <1>1 DEF vars, database
  <2> QED
    BY <2>1 DEF RestInv, DatabaseOK
<1>2. ASSUME NEW c \in Clients, Writer(c) PROVE RestInv'
  BY <1>2, CallOneKeeps, CallManyKeeps, GetOneKeeps, PutOneKeeps, GetConflictsKeeps,
     DeleteConflictKeeps, RecheckKeeps, AddDocKeeps, BulkRowKeeps, BulkDoneKeeps,
     PurgeDocKeeps, PostCompactKeeps, RevsInfoKeeps DEF Writer
<1>3. ASSUME NEW c \in Clients, Verifier(c) PROVE RestInv'
  BY <1>3, CallOneKeeps, CallManyKeeps, LookKeeps, DecideKeeps, ChangesKeep DEF Verifier
<1>4. ASSUME NEW c \in Clients, RequestFails(c) PROVE RestInv'
  BY <1>4, DecideKeeps
<1> QED
  BY <1>1, <1>2, <1>3, <1>4 DEF Next

\* The revisions that are recorded are of the kind that the model says.
LEMMA RestTypes == RestInv => TypeOK
<1> SUFFICES ASSUME RestInv PROVE TypeOK
  OBVIOUS
<1>0. /\ used \in SUBSET Ids /\ Grown(revs, used) /\ bodies \subseteq used
      /\ seq \in [Docs -> 0..Cardinality(used)]
      /\ MaxRevs \in Nat /\ Cardinality(used) \in 0..MaxRevs
  BY FewIds, RestAssumption DEF RestInv, DatabaseOK, Grown
<1>1. revs \subseteq Revisions
  <2> SUFFICES ASSUME NEW r \in revs PROVE r \in Revisions
    OBVIOUS
  <2>1. RevOK(r, used)
    BY <1>0 DEF Grown
  <2>2. r.gen \in Ids
    BY <1>0, <2>1, ShortHistory DEF Ids
  <2>3. r.updates \in 0..MaxRevs
    BY <1>0, <2>1 DEF RevOK
  <2> QED
    BY <2>1, <2>2, <2>3 DEF RevOK, Revisions
<1>2. seq \in [Docs -> 0..MaxRevs]
  BY <1>0
<1>3. ASSUME NEW c \in Clients
      PROVE  /\ cl[c].op \in Operations \union {"none"}
             /\ cl[c].todo \subseteq Docs /\ cl[c].pend \subseteq Ids
             /\ cl[c].rev \in {0} \union Ids /\ cl[c].num \in 0..(MaxRevs + 1)
             /\ cl[c].since \in 0..MaxRevs
             /\ cl[c].quiet \in BOOLEAN /\ cl[c].ok \in BOOLEAN
  <2>1. cl[c] \in Calls /\ Locals(cl[c], revs, used)
    BY CallIs
  <2>2. cl[c].num \in Nat /\ cl[c].num <= Cardinality(used) + 1
    BY <2>1 DEF Calls, Locals
  <2>3. cl[c].num \in 0..(MaxRevs + 1)
    BY <1>0, <2>2
  <2> QED
    BY <2>1, <2>3 DEF Calls
<1> QED
  BY <1>0, <1>1, <1>2, <1>3 DEF TypeOK

\* A call that returned undisturbed has kept its promise.
LEMMA RestReturns == RestInv => ConflictsGone /\ BulkStored /\ Compacted /\ DeletedGone
<1> SUFFICES ASSUME RestInv PROVE ConflictsGone /\ BulkStored /\ Compacted /\ DeletedGone
  OBVIOUS
<1>1. ASSUME NEW c \in Clients, cl[c].ok, NEW d \in About(cl[c])
      PROVE  Promise(cl[c].op, cl[c].args[d], revs, bodies, d)
  <2>1. Truth(cl[c], revs, bodies)
    BY <1>1, CallIs
  <2> QED
    BY <1>1, <2>1 DEF Truth, KeptFor
<1>2. ConflictsGone
  <2> SUFFICES ASSUME NEW c \in Clients, cl[c].ok, cl[c].op = "delete_conflicts",
                      NEW d \in DOMAIN cl[c].args
               PROVE  Readable(d) /\ Conflicts(d) = {}
    BY DEF ConflictsGone, Ok
  <2>1. Promise("delete_conflicts", cl[c].args[d], revs, bodies, d)
    BY <1>1 DEF About
  <2> QED
    BY <2>1, Terms DEF Promise
<1>3. BulkStored
  <2> SUFFICES ASSUME NEW c \in Clients, NEW d \in DOMAIN cl[c].args, cl[c].ok
               PROVE  /\ cl[c].op \in {"add_docs", "add_bulk_docs"} => Readable(d) /\ Winner(d).by = "add"
                      /\ cl[c].op = "delete_bulk_docs" =>
                            \E r \in Leaves(d) : r.dead /\ r.parent = cl[c].args[d]
    BY DEF BulkStored, Ok
  <2>1. ASSUME cl[c].op \in {"add_docs", "add_bulk_docs"}
        PROVE  Readable(d) /\ Winner(d).by = "add"
    <3>1. Promise(cl[c].op, cl[c].args[d], revs, bodies, d)
      BY <1>1, <2>1 DEF About
    <3> QED
      BY <2>1, <3>1, Terms DEF Promise
  <2>2. ASSUME cl[c].op = "delete_bulk_docs"
        PROVE  \E r \in Leaves(d) : r.dead /\ r.parent = cl[c].args[d]
    <3>1. Promise("delete_bulk_docs", cl[c].args[d], revs, bodies, d)
      BY <1>1, <2>2 DEF About
    <3> QED
      BY <3>1, TipsAreLeaves DEF Promise
  <2> QED
    BY <2>1, <2>2
<1>4. Compacted
  <2> SUFFICES ASSUME NEW c \in Clients, cl[c].ok, cl[c].op = "compact_database",
                      NEW d \in Docs, Readable(d)
               PROVE  Available(d) = {Winner(d).id}
    BY DEF Compacted, Ok
  <2>1. Promise("compact_database", cl[c].args[d], revs, bodies, d)
    BY <1>1 DEF About
  <2>2. Compact(revs, bodies, d)
    BY <2>1 DEF Promise
  <2> QED
    BY <2>2, Terms DEF Compact, Available
<1>5. DeletedGone
  <2> SUFFICES ASSUME NEW c \in Clients, cl[c].ok, cl[c].op = "verify_docs_deleted",
                      NEW d \in DOMAIN cl[c].args
               PROVE  ~Readable(d)
    BY DEF DeletedGone, Ok
  <2>1. Promise("verify_docs_deleted", cl[c].args[d], revs, bodies, d)
    BY <1>1 DEF About
  <2> QED
    BY <2>1, Terms DEF Promise
<1> QED
  BY <1>2, <1>3, <1>4, <1>5

\* What the feed has shown and what it will show
LEMMA RestFollows == RestInv => ChangesFollowed
<1> SUFFICES ASSUME RestInv PROVE ChangesFollowed
  OBVIOUS
<1>1. ChangesVerified
  BY CallIs DEF ChangesVerified, Follows
<1>2. NothingSkipped
  <2> SUFFICES ASSUME NEW c \in Clients, cl[c].at = "changes", NEW d \in cl[c].todo,
                      Tree(d) # {}, Winner(d).id = cl[c].args[d]
               PROVE  seq[d] > cl[c].since
    BY DEF NothingSkipped, At
  <2>1. Follows(cl[c], revs, used, seq)
    BY CallIs
  <2>2. (\E r \in revs : r.doc = d) /\ Best(Tips(revs, d)).id = cl[c].args[d]
    BY Terms
  <2> QED
    BY <2>1, <2>2 DEF Follows
<1> QED
  BY <1>1, <1>2 DEF ChangesFollowed

\* The invariant of the document operations, for every behaviour of the clients and the
\* database.
THEOREM RestInvariant == Spec => []RestInv
BY InitRest, NextRest, PTL DEF Spec

\* update_doc loses no update: every revision it makes counts one update more than the one
\* it replaces, whatever other threads do between its GET and its PUTs.
THEOREM NoUpdateLost == Spec => []UpdatesCounted
<1>1. RestInv => UpdatesCounted
  BY DEF RestInv, DatabaseOK, Grown, Counted, UpdatesCounted
<1> QED
  BY <1>1, RestInvariant, PTL

\* verify_docs_in_changes crosses out only revisions that were stored, and never asks from
\* beyond a change that it waits for.
THEOREM FeedIsFollowed == Spec => []ChangesFollowed
BY RestFollows, RestInvariant, PTL

\* delete_conflicts, add_docs, add_bulk_docs, delete_bulk_docs, compact_database and
\* verify_docs_deleted return normally only when, undisturbed, they have done for all their
\* documents what they say.
THEOREM NormalReturnsTrue == Spec => []ReturnsTrue
<1>1. RestInv => ReturnsTrue
  BY RestTypes, RestReturns DEF ReturnsTrue
<1> QED
  BY <1>1, RestInvariant, PTL

===============================================================================
