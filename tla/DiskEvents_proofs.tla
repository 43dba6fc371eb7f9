--------------------------- MODULE DiskEvents_proofs ---------------------------
(***************************************************************************)
(* What DiskEvents guarantees for any roots, scans, retention, batch and   *)
(* page size.                                                              *)
(*                                                                         *)
(* First the operators: the greatest of a set of snapshots, the rank of an *)
(* alert, the rows a scan raises, the listing by number.  Then the tables, *)
(* and what the walk through the pages and the disk view know of them.     *)
(***************************************************************************)
EXTENDS DiskEvents, FiniteSetTheorems, FunctionTheorems, SequenceTheorems, TLAPS

-----------------------------------------------------------------------------
(***************************************************************************)
(* Sets of numbers and of things that have them.                           *)
(***************************************************************************)
LEMMA SmallestOf ==
  ASSUME NEW T, T \subseteq Nat, T # {}
  PROVE  \E n \in T : \A m \in T : n <= m
<1> DEFINE Less == {p \in Nat \X Nat : p[1] < p[2]}
<1>1. IsWellFoundedOn(Less, Nat)
  BY NatLessThanWellFounded DEF OpToRel
<1>2. PICK n \in T : \A m \in T : <<m, n>> \notin Less
  <2> HIDE DEF Less
  <2> QED BY <1>1, WFMin
<1>3. ASSUME NEW a \in Nat, NEW b \in Nat, a < b PROVE <<a, b>> \in Less
  BY <1>3, Zenon
<1> HIDE DEF Less
<1>4. \A m \in T : ~(m < n)
  BY <1>2, <1>3, Zenon
<1> QED BY <1>4

LEMMA MinOfTwo ==
  ASSUME NEW a \in Nat, NEW b \in Nat
  PROVE  Min({a, b}) \in {a, b} /\ Min({a, b}) <= a /\ Min({a, b}) <= b
<1>1. \E x \in {a, b} : \A y \in {a, b} : x <= y
  OBVIOUS
<1> QED BY <1>1 DEF Min

\* The latest of some snapshots is one of them.
LEMMA LatestIs ==
  ASSUME NEW S, S \subseteq Snap, S # {}
  PROVE  Latest(S) \in S /\ \A u \in S : u.at <= Latest(S).at
<1> DEFINE T == {n \in Nat : \E s \in S : n = MaxTime - s.at}
<1>1. \A s \in S : s.at \in Nat /\ MaxTime - s.at \in T
  BY BoundsAssumption DEF Snap, Time
<1>2. PICK n \in T : \A m \in T : n <= m
  <2>1. T # {} /\ T \subseteq Nat
    BY <1>1
  <2> HIDE DEF T
  <2> QED BY <2>1, SmallestOf
<1>3. PICK s \in S : n = MaxTime - s.at
  OBVIOUS
<1>4. \A u \in S : u.at <= s.at
  BY <1>1, <1>2, <1>3, BoundsAssumption
<1> QED BY <1>4 DEF Latest

(***************************************************************************)
(* Alerts and their ranks.                                                 *)
(***************************************************************************)
Change == [path: Nat, delta: Int]

LEMMA RankIs ==
  ASSUME NEW A, IsFiniteSet(A), A \subseteq Change
  PROVE  /\ \A a \in A : Rank(a, A) \in 1..Cardinality(A)
         /\ \A a, b \in A : Rank(a, A) = Rank(b, A) => a = b
<1> DEFINE Over(a) == {b \in A : Above(b, a)}
<1>1. \A a \in A : /\ IsFiniteSet(Over(a)) /\ Cardinality(Over(a)) \in Nat
                  /\ Cardinality(Over(a)) < Cardinality(A)
  <2> TAKE a \in A
  <2>1. a \notin Over(a) /\ Over(a) \subseteq A
    BY DEF Above, Change
  <2>2. Over(a) # A
    BY <2>1
  <2> HIDE DEF Over
  <2> QED BY <2>1, <2>2, FS_Subset, FS_CardinalityType
<1>2. ASSUME NEW a \in A, NEW b \in A, Above(a, b)
      PROVE  Cardinality(Over(a)) < Cardinality(Over(b))
  <2>1. Over(a) \subseteq Over(b) /\ a \in Over(b) /\ a \notin Over(a)
    BY <1>2 DEF Above, Change
  <2>2. IsFiniteSet(Over(b)) /\ Cardinality(Over(a)) \in Nat /\ Cardinality(Over(b)) \in Nat
    BY <1>1
  <2>3. Over(a) # Over(b)
    BY <2>1
  <2> HIDE DEF Over
  <2> QED BY <2>1, <2>2, <2>3, FS_Subset
<1>3. \A a, b \in A : a # b => Above(a, b) \/ Above(b, a)
  BY DEF Above, Change
<1>4. \A a \in A : Rank(a, A) = 1 + Cardinality(Over(a))
  BY DEF Rank
<1>5. Cardinality(A) \in Nat
  BY FS_CardinalityType
<1> HIDE DEF Over
<1>6. \A a \in A : Rank(a, A) \in 1..Cardinality(A)
  BY <1>1, <1>4, <1>5
<1>7. ASSUME NEW a \in A, NEW b \in A, Rank(a, A) = Rank(b, A) PROVE a = b
  BY <1>1, <1>2, <1>3, <1>4, <1>7
<1> QED BY <1>6, <1>7

\* Growth is stated of finitely many directories, each once.
LEMMA GrowthIs ==
  ASSUME NEW old, NEW new, new \in Snap, old \in Snap \/ ~old.content.complete
  PROVE  LET G == GrowthAlerts(old, new)
         IN  /\ IsFiniteSet(G) /\ G \subseteq Change
             /\ \A a, b \in G : a.path = b.path => a = b
             /\ \A a \in G : /\ old.at < new.at /\ Comparable(old.content, new.content)
                             /\ a.delta = SizeIn(new.content, a.path) - SizeIn(old.content, a.path)
                             /\ a.delta >= Threshold
<1> DEFINE G == GrowthAlerts(old, new)
<1>1. CASE ~(old.at < new.at /\ Comparable(old.content, new.content))
  BY <1>1, FS_EmptySet DEF GrowthAlerts
<1>2. CASE old.at < new.at /\ Comparable(old.content, new.content)
  <2> DEFINE D == DOMAIN old.content.bytes \union DOMAIN new.content.bytes
             C == Compare(old.content, new.content)
             row(p) == [path |-> p, delta |-> SizeIn(new.content, p) - SizeIn(old.content, p)]
  <2>1. old \in Snap /\ old.content \in Content /\ new.content \in Content
    BY <1>2 DEF Comparable, Snap
  <2>2. IsFiniteSet(D) /\ D \subseteq Nat
    BY <2>1, BoundsAssumption, FS_Union
  <2>3. \A c \in Content, p \in Nat : SizeIn(c, p) \in Nat
    BY BoundsAssumption DEF SizeIn
  <2>4. C = {row(p) : p \in D}
    BY DEF Compare
  <2>5. IsFiniteSet(C)
    <3> DEFINE f == [p \in D |-> row(p)]
    <3>1. f \in Surjection(D, C)
      BY <2>4 DEF Surjection
    <3> HIDE DEF f, D, C
    <3> QED BY <2>2, <3>1, FS_Surjection
  <2>6. G = {c \in C : c.delta >= Threshold}
    BY <1>2 DEF GrowthAlerts
  <2>7. IsFiniteSet(G)
    <3> HIDE DEF G, C
    <3> QED BY <2>5, <2>6, FS_Subset
  <2>8. C \subseteq Change
    BY <2>1, <2>2, <2>3, <2>4 DEF Change
  <2> HIDE DEF D
  <2> QED BY <1>2, <2>4, <2>6, <2>7, <2>8
<1> QED BY <1>1, <1>2

-----------------------------------------------------------------------------
(***************************************************************************)
(* The rows an upload adds.                                                *)
(***************************************************************************)
\* rows are alerts of snap, numbered on from the counter, each of its own
\* directory, none of a directory that has an alert for this scan already.
Fresh(rows, snap) ==
  /\ IsFiniteSet(rows)
  /\ \A e, f \in rows : e.id = f.id \/ e.path = f.path => e = f
  /\ \A e \in rows :
       /\ e \in Event /\ e.root = snap.root /\ e.to = snap.at /\ e.ack = 0
       /\ lastId < e.id /\ e.id <= lastId + Cardinality(rows)
       /\ \A f \in events : f.root = e.root /\ f.to = e.to => f.path # e.path
       /\ \E old \in snaps :
            /\ old.root = snap.root /\ old.at = e.from /\ e.from < e.to
            /\ Comparable(old.content, snap.content)
            /\ e.delta = SizeIn(snap.content, e.path) - SizeIn(old.content, e.path)
            /\ e.delta >= Threshold

LEMMA NewEventsAre ==
  ASSUME TypeOK, NEW snap \in Snap, NEW prev \in snaps \union {NoSnap},
         prev # NoSnap => prev.root = snap.root
  PROVE  Fresh(NewEvents(prev, snap), snap)
<1> DEFINE known == {e.path : e \in {f \in events : f.root = snap.root /\ f.to = snap.at}}
           G == GrowthAlerts(prev, snap)
           fresh == {a \in G : a.path \notin known}
           row(a) == [id |-> lastId + Rank(a, fresh), root |-> snap.root, path |-> a.path,
                      delta |-> a.delta, from |-> prev.at, to |-> snap.at, ack |-> 0]
           rows == NewEvents(prev, snap)
<1>0. SUFFICES Fresh(rows, snap)
  OBVIOUS
<1>1. /\ IsFiniteSet(G) /\ G \subseteq Change
      /\ \A a, b \in G : a.path = b.path => a = b
      /\ \A a \in G : /\ prev.at < snap.at /\ Comparable(prev.content, snap.content)
                      /\ a.delta = SizeIn(snap.content, a.path) - SizeIn(prev.content, a.path)
                      /\ a.delta >= Threshold
  <2>1. prev \in Snap \/ ~prev.content.complete
    BY DEF TypeOK, NoSnap, NoScan
  <2> QED BY <2>1, GrowthIs
<1>2. IsFiniteSet(fresh) /\ fresh \subseteq G /\ fresh \subseteq Change
  <2>1. fresh \subseteq G
    OBVIOUS
  <2> HIDE DEF fresh, G
  <2> QED BY <1>1, <2>1, FS_Subset
<1>3. /\ \A a \in fresh : Rank(a, fresh) \in 1..Cardinality(fresh)
      /\ \A a, b \in fresh : Rank(a, fresh) = Rank(b, fresh) => a = b
  <2> HIDE DEF fresh, G
  <2> QED BY <1>2, RankIs
<1>4. rows = {row(a) : a \in fresh}
  BY DEF NewEvents
<1>5. lastId \in Nat /\ Cardinality(fresh) \in Nat
  <2> HIDE DEF fresh
  <2> QED BY <1>2, FS_CardinalityType, BoundsAssumption DEF TypeOK
<1>6. \A a \in fresh : a.path \notin known
  OBVIOUS
<1> HIDE DEF fresh, G
<1>7. IsFiniteSet(rows) /\ Cardinality(rows) = Cardinality(fresh)
  <2> DEFINE f == [a \in fresh |-> row(a)]
  <2>1. f \in Bijection(fresh, rows)
    <3>1. \A a, b \in fresh : row(a) = row(b) => a = b
      BY <1>3, <1>5
    <3>2. f \in [fresh -> rows] /\ \A r \in rows : \E a \in fresh : f[a] = r
      BY <1>4
    <3> HIDE DEF rows, row
    <3>3. \A a, b \in fresh : f[a] = f[b] => a = b
      BY <3>1
    <3> HIDE DEF f
    <3> QED BY <3>2, <3>3 DEF Bijection, Injection, IsInjective, Surjection
  <2> HIDE DEF f, rows
  <2> QED BY <1>2, <2>1, FS_Bijection DEF ExistsBijection
<1>8. \A e, f \in rows : e.id = f.id \/ e.path = f.path => e = f
  BY <1>1, <1>2, <1>3, <1>4, <1>5
<1>9. ASSUME NEW a \in fresh
      PROVE  /\ row(a) \in Event /\ lastId < row(a).id
             /\ row(a).id <= lastId + Cardinality(rows)
             /\ prev \in snaps /\ prev.at < snap.at
             /\ Comparable(prev.content, snap.content)
  <2>1. Rank(a, fresh) \in 1..Cardinality(rows)
    BY <1>3, <1>7
  <2>2. prev \in snaps /\ prev.at < snap.at /\ Comparable(prev.content, snap.content)
    BY <1>1, <1>2 DEF NoSnap, NoScan, Comparable
  <2>3. prev \in Snap /\ a \in Change
    BY <1>2, <2>2 DEF TypeOK
  <2> HIDE DEF rows
  <2> QED BY <1>5, <1>7, <2>1, <2>2, <2>3 DEF Event, Snap, Change
<1>10. ASSUME NEW a \in fresh, NEW f \in events, f.root = snap.root, f.to = snap.at
       PROVE  f.path # a.path
  BY <1>6, <1>10
<1> HIDE DEF known
<1>11. ASSUME NEW e \in rows
       PROVE  /\ e \in Event /\ e.root = snap.root /\ e.to = snap.at /\ e.ack = 0
              /\ lastId < e.id /\ e.id <= lastId + Cardinality(rows)
              /\ \A f \in events : f.root = e.root /\ f.to = e.to => f.path # e.path
              /\ \E old \in snaps :
                   /\ old.root = snap.root /\ old.at = e.from /\ e.from < e.to
                   /\ Comparable(old.content, snap.content)
                   /\ e.delta = SizeIn(snap.content, e.path) - SizeIn(old.content, e.path)
                   /\ e.delta >= Threshold
  <2>1. PICK a \in fresh : e = row(a)
    BY <1>4
  <2>2. /\ e.id = row(a).id /\ e.root = snap.root /\ e.path = a.path /\ e.delta = a.delta
        /\ e.from = prev.at /\ e.to = snap.at /\ e.ack = 0
    BY <2>1
  <2>3. prev # NoSnap
    <3>1. NoSnap.at = 0
      BY DEF NoSnap
    <3>2. prev \in Snap
      BY <1>9 DEF TypeOK
    <3> QED BY <3>1, <3>2 DEF Snap, Time
  <2> HIDE DEF rows, row
  <2>4. \A f \in events : f.root = e.root /\ f.to = e.to => f.path # e.path
    BY <1>10, <2>2
  <2>5. /\ a.delta = SizeIn(snap.content, a.path) - SizeIn(prev.content, a.path)
        /\ a.delta >= Threshold
    BY <1>1, <1>2
  <2>6. /\ e \in Event /\ lastId < e.id /\ e.id <= lastId + Cardinality(rows)
        /\ prev \in snaps /\ prev.root = snap.root
        /\ e.from < e.to /\ Comparable(prev.content, snap.content)
    BY <1>9, <2>1, <2>2, <2>3
  <2> QED BY <2>2, <2>4, <2>5, <2>6
<1> HIDE DEF rows, row
<1> QED BY <1>7, <1>8, <1>11 DEF Fresh

-----------------------------------------------------------------------------
(***************************************************************************)
(* Listings by number, and the pages cut from them.                        *)
(***************************************************************************)
\* A listing has every alert of the set at its place.
LEMMA DescendingIs ==
  ASSUME NEW S, IsFiniteSet(S), S \subseteq Event, \A e, f \in S : e.id = f.id => e = f
  PROVE  /\ Cardinality(S) \in Nat
         /\ Descending(S) \in [1..Cardinality(S) -> S]
         /\ \A i, j \in 1..Cardinality(S) : i < j => Descending(S)[i].id > Descending(S)[j].id
         /\ \A e \in S : \E i \in 1..Cardinality(S) : Descending(S)[i] = e
<1> DEFINE N == Cardinality(S)
           Over(e) == {f \in S : f.id > e.id}
           rank == [e \in S |-> 1 + Cardinality(Over(e))]
           Falls(s) == \A i, j \in 1..N : i < j => s[i].id > s[j].id
<1>1. N \in Nat /\ IsFiniteSet(1..N) /\ Cardinality(1..N) = N
  <2>1. N \in Nat
    BY FS_CardinalityType
  <2> HIDE DEF N
  <2> QED BY <2>1, FS_Interval
<1>2. \A e \in S : e.id \in Nat
  BY DEF Event
<1>3. \A e \in S : /\ IsFiniteSet(Over(e)) /\ Cardinality(Over(e)) \in Nat
                  /\ Cardinality(Over(e)) < N
  <2> TAKE e \in S
  <2>1. e \notin Over(e) /\ Over(e) \subseteq S
    BY <1>2
  <2>2. Over(e) # S
    BY <2>1
  <2> HIDE DEF Over
  <2> QED BY <2>1, <2>2, FS_Subset, FS_CardinalityType
<1>4. ASSUME NEW e \in S, NEW f \in S, e.id > f.id
      PROVE  rank[e] < rank[f]
  <2>1. Over(e) \subseteq Over(f) /\ e \in Over(f) /\ e \notin Over(e)
    BY <1>2, <1>4
  <2>2. IsFiniteSet(Over(f)) /\ Cardinality(Over(e)) \in Nat /\ Cardinality(Over(f)) \in Nat
    BY <1>3
  <2>3. Over(e) # Over(f)
    BY <2>1
  <2> HIDE DEF Over
  <2>4. Cardinality(Over(e)) < Cardinality(Over(f))
    BY <2>1, <2>2, <2>3, FS_Subset
  <2> QED BY <2>2, <2>4
<1>5. rank \in [S -> 1..N]
  <2> HIDE DEF Over, N
  <2> QED BY <1>1, <1>3
<1>6. \A e, f \in S : rank[e] = rank[f] => e = f
  <2> SUFFICES ASSUME NEW e \in S, NEW f \in S, rank[e] = rank[f], e # f
               PROVE  FALSE
    OBVIOUS
  <2>1. e.id > f.id \/ f.id > e.id
    BY <1>2
  <2>2. rank[e] < rank[f] \/ rank[f] < rank[e]
    BY <1>4, <2>1
  <2>3. rank[e] \in Nat /\ rank[f] \in Nat
    BY <1>5
  <2> HIDE DEF rank
  <2> QED BY <2>2, <2>3
<1> HIDE DEF rank, Over, N
<1>7. rank \in Bijection(S, 1..N)
  <2>1. rank \in Injection(S, 1..N)
    BY <1>5, <1>6, Fun_IsInj
  <2>2. rank \in Surjection(S, 1..N)
    BY <1>1, <2>1, FS_Injection DEF N
  <2> QED BY <2>1, <2>2, Fun_IsBij
<1>8. \E s \in [1..N -> S] : Falls(s)
  <2> DEFINE s == Inverse(rank, S, 1..N)
  <2>1. s \in [1..N -> S] /\ \A e \in S : s[rank[e]] = e
    <3>1. s \in Bijection(1..N, S) /\ \A e \in S : s[rank[e]] = e
      BY <1>7, Fun_BijInverse
    <3> HIDE DEF s
    <3> QED BY <3>1 DEF Bijection, Injection
  <2>2. \A i \in 1..N : \E e \in S : rank[e] = i
    BY <1>7 DEF Bijection, Surjection
  <2> HIDE DEF s
  <2>3. ASSUME NEW i \in 1..N, NEW j \in 1..N, i < j
        PROVE  s[i].id > s[j].id
    <3>1. PICK e \in S : rank[e] = i
      BY <2>2
    <3>2. PICK f \in S : rank[f] = j
      BY <2>2
    <3>3. ~(f.id > e.id)
      BY <1>1, <1>4, <2>3, <3>1, <3>2
    <3>4. e # f
      BY <1>1, <2>3, <3>1, <3>2
    <3>5. e.id > f.id
      BY <1>2, <3>3, <3>4
    <3> QED BY <2>1, <3>1, <3>2, <3>5
  <2> QED BY <2>1, <2>3
<1> DEFINE d == Descending(S)
<1>9. d \in [1..N -> S] /\ Falls(d)
  <2>1. d = CHOOSE s \in [1..N -> S] : \A i, j \in DOMAIN s : i < j => s[i].id > s[j].id
    BY DEF Descending, N
  <2>2. \E s \in [1..N -> S] : \A i, j \in DOMAIN s : i < j => s[i].id > s[j].id
    BY <1>8
  <2> HIDE DEF d
  <2> QED BY <2>1, <2>2
<1> HIDE DEF d
<1>10. \A e \in S : \E i \in 1..N : d[i] = e
  <2>1. \A i, j \in 1..N : d[i] = d[j] => i = j
    <3> SUFFICES ASSUME NEW i \in 1..N, NEW j \in 1..N, d[i] = d[j], i # j
                 PROVE  FALSE
      OBVIOUS
    <3>1. i < j \/ j < i
      BY <1>1
    <3>2. d[i] \in S /\ d[j] \in S
      BY <1>9
    <3>3. d[i].id > d[j].id \/ d[j].id > d[i].id
      BY <1>9, <3>1
    <3> QED BY <1>2, <3>2, <3>3
  <2>2. d \in Injection(1..N, S)
    BY <1>9, <2>1, Fun_IsInj
  <2>3. d \in Surjection(1..N, S)
    BY <1>1, <2>2, FS_Injection DEF N
  <2> QED BY <2>3 DEF Surjection
<1> QED BY <1>1, <1>9, <1>10 DEF d, N

\* A page has the alerts from the cursor down to the next one, without a gap.
LEMMA PageIs ==
  ASSUME TypeOK, IsFiniteSet(events), NEW before \in Nat
  PROVE  LET p == PageBefore(before)
         IN  /\ p.page \in Seq(Event) /\ p.next \in Nat /\ p.next <= before
             /\ \A i \in 1..Len(p.page) :
                  p.page[i] \in events /\ p.page[i].id < before /\ p.next <= p.page[i].id
             /\ \A i, j \in 1..Len(p.page) : i < j => p.page[i].id > p.page[j].id
             /\ \A e \in events : e.id < before /\ p.next <= e.id =>
                  \E i \in 1..Len(p.page) : p.page[i] = e
<1> DEFINE S == {e \in events : e.id < before}
           N == Cardinality(S)
           d == Descending(S)
           m == Min({Page + 1, N})
           found == SubSeq(d, 1, m)
           k == Min({Page, m})
           page == SubSeq(found, 1, k)
           next == IF m > Page THEN page[Page].id ELSE 0
<1>1. IsFiniteSet(S) /\ S \subseteq Event /\ \A e, f \in S : e.id = f.id => e = f
  <2>1. S \subseteq events
    OBVIOUS
  <2>2. IsFiniteSet(S)
    <3> HIDE DEF S
    <3> QED BY <2>1, FS_Subset
  <2> QED BY <2>1, <2>2 DEF TypeOK
<1>2. \A e : e \in S <=> e \in events /\ e.id < before
  OBVIOUS
<1> HIDE DEF S
<1>3. /\ N \in Nat /\ d \in [1..N -> S]
      /\ \A i, j \in 1..N : i < j => d[i].id > d[j].id
      /\ \A e \in S : \E i \in 1..N : d[i] = e
  BY <1>1, DescendingIs
<1>4. Page \in Nat \ {0}
  BY BoundsAssumption
<1> HIDE DEF N, d
<1>5. m \in {Page + 1, N} /\ m <= Page + 1 /\ m <= N /\ m \in Nat
  BY <1>3, <1>4, MinOfTwo
<1> HIDE DEF m
<1>6. k \in {Page, m} /\ k <= Page /\ k <= m /\ k \in Nat
  BY <1>4, <1>5, MinOfTwo
<1> HIDE DEF k
<1>7. found \in Seq(Event) /\ Len(found) = m /\ \A i \in 1..m : found[i] = d[i]
  <2>1. \A i \in 1..m : d[i] \in Event
    BY <1>1, <1>3, <1>5
  <2>2. /\ SubSeq(d, 1, m) \in Seq(Event)
        /\ Len(SubSeq(d, 1, m)) = IF 1 <= m THEN m - 1 + 1 ELSE 0
        /\ \A i \in 1..(m - 1 + 1) : SubSeq(d, 1, m)[i] = d[1 + i - 1]
    BY <1>5, <2>1, SubSeqProperties
  <2> QED BY <1>5, <2>2
<1> HIDE DEF found
<1>8. page \in Seq(Event) /\ Len(page) = k /\ \A i \in 1..k : page[i] = d[i]
  <2>1. \A i \in 1..k : found[i] \in Event
    BY <1>1, <1>3, <1>5, <1>6, <1>7
  <2>2. /\ SubSeq(found, 1, k) \in Seq(Event)
        /\ Len(SubSeq(found, 1, k)) = IF 1 <= k THEN k - 1 + 1 ELSE 0
        /\ \A i \in 1..(k - 1 + 1) : SubSeq(found, 1, k)[i] = found[1 + i - 1]
    BY <1>6, <2>1, SubSeqProperties
  <2> QED BY <1>5, <1>6, <1>7, <2>2
<1> HIDE DEF page
<1>9. PageBefore(before) = [page |-> page, next |-> next]
  <2>1. N = Len(d)
    BY <1>3
  <2>2. found = Newest(S, Page + 1)
    BY <2>1 DEF Newest, found, m, d
  <2>3. PageBefore(before).page = SubSeq(found, 1, Min({Page, Len(found)}))
    BY <2>2 DEF PageBefore, S
  <2> QED BY <1>7, <2>2 DEF PageBefore, S, page, k
<1>10. \A i \in 1..k : page[i] \in S /\ page[i].id \in Nat \ {0}
  <2> TAKE i \in 1..k
  <2>1. i \in 1..N /\ page[i] = d[i]
    BY <1>3, <1>5, <1>6, <1>8
  <2>2. d[i] \in S
    BY <1>3, <2>1
  <2> QED BY <1>1, <2>1, <2>2 DEF Event
<1>11. \A i, j \in 1..k : i < j => page[i].id > page[j].id
  BY <1>3, <1>5, <1>6, <1>8
<1>12. next \in Nat /\ next <= before /\ \A i \in 1..k : next <= page[i].id
  <2>1. CASE m > Page
    <3>1. k = Page /\ next = page[Page].id
      BY <1>4, <1>5, <1>6, <2>1
    <3>2. page[Page].id \in Nat /\ page[Page].id < before
      BY <1>2, <1>4, <1>10, <3>1
    <3> QED BY <1>4, <1>10, <1>11, <3>1, <3>2
  <2>2. CASE ~(m > Page)
    BY <1>10, <2>2
  <2> QED BY <2>1, <2>2
<1>13. ASSUME NEW e \in S, next <= e.id
       PROVE  \E i \in 1..k : page[i] = e
  <2>1. PICK i \in 1..N : d[i] = e
    BY <1>3
  <2>2. i <= k
    <3>1. CASE m > Page
      <4>1. k = Page /\ next = d[Page].id /\ Page \in 1..N
        BY <1>3, <1>4, <1>5, <1>6, <1>8, <3>1
      <4>2. d[Page] \in S /\ d[Page].id \in Nat /\ e.id \in Nat
        BY <1>1, <1>3, <4>1 DEF Event
      <4>3. ~(Page < i)
        BY <1>3, <1>13, <2>1, <4>1, <4>2
      <4> QED BY <1>4, <4>1, <4>3
    <3>2. CASE ~(m > Page)
      BY <1>3, <1>4, <1>5, <1>6, <3>2
    <3> QED BY <3>1, <3>2
  <2> QED BY <1>6, <1>8, <2>1, <2>2
<1> HIDE DEF next
<1> QED BY <1>2, <1>8, <1>9, <1>10, <1>11, <1>12, <1>13

-----------------------------------------------------------------------------
(***************************************************************************)
(* What the actions do to the tables.                                      *)
(***************************************************************************)
LEMMA UploadIs ==
  ASSUME TypeOK, NEW root \in Root, NEW at \in Time, NEW c \in Content, Upload(root, at, c)
  PROVE  LET snap == [root |-> root, at |-> at, content |-> c]
             isNew == \A s \in snaps : s.root = root => s.at # at
         IN  \E rows :
               /\ Fresh(rows, snap)
               /\ rows # {} => isNew
               /\ snaps' = IF isNew THEN snaps \union {snap} ELSE snaps
               /\ events' = events \union rows
               /\ lastId' = lastId + Cardinality(rows)
<1> DEFINE snap == [root |-> root, at |-> at, content |-> c]
           ofRoot == OfRoot(snaps, root)
           isNew == \A s \in snaps : s.root = root => s.at # at
           previous == Latest(ofRoot)
           rows == IF isNew /\ previous.at < at THEN NewEvents(previous, snap) ELSE {}
<1>1. snap \in Snap /\ snap.root = root /\ snap.at = at
  BY DEF Snap
<1>2. previous \in snaps \union {NoSnap} /\ (previous # NoSnap => previous.root = root)
  <2>1. CASE ofRoot = {}
    BY <2>1 DEF Latest
  <2>2. CASE ofRoot # {}
    <3>1. ofRoot \subseteq snaps /\ ofRoot \subseteq Snap /\ \A s \in ofRoot : s.root = root
      BY DEF TypeOK, OfRoot
    <3> HIDE DEF ofRoot
    <3>2. previous \in ofRoot
      BY <2>2, <3>1, LatestIs
    <3> QED BY <3>1, <3>2
  <2> QED BY <2>1, <2>2
<1>3. /\ snaps' = IF isNew THEN snaps \union {snap} ELSE snaps
      /\ events' = events \union rows
      /\ lastId' = lastId + Cardinality(rows)
  BY <1>1 DEF Upload, SaveDiskEvents, OfRoot
<1> HIDE DEF snap, previous
<1>4. Fresh(NewEvents(previous, snap), snap)
  BY <1>1, <1>2, NewEventsAre
<1>5. Fresh(rows, snap) /\ (rows # {} => isNew)
  BY <1>4, FS_EmptySet DEF Fresh
<1> HIDE DEF rows
<1> QED BY <1>3, <1>5 DEF snap

\* A batch takes only rows of the table, and less than it could only if no
\* expired row stays.
LEMMA RemovableIs ==
  ASSUME NEW S, IsFiniteSet(S), NEW date, NEW D \in Removable(S, date)
  PROVE  /\ D \subseteq S
         /\ Cardinality(D) < Batch => \A x \in S \ D : ~(date[x] < Cutoff)
<1> DEFINE expired == {x \in S : date[x] < Cutoff}
<1>1. D \subseteq expired /\ Cardinality(D) = Min({Batch, Cardinality(expired)})
  BY DEF Removable
<1>2. IsFiniteSet(expired) /\ expired \subseteq S
  <2>1. expired \subseteq S
    OBVIOUS
  <2> HIDE DEF expired
  <2> QED BY <2>1, FS_Subset
<1>3. \A x \in S : x \in expired <=> date[x] < Cutoff
  OBVIOUS
<1> HIDE DEF expired
<1>4. Cardinality(expired) \in Nat /\ Batch \in Nat
  BY <1>2, FS_CardinalityType, BoundsAssumption
<1>5. Cardinality(D) < Batch => Cardinality(D) = Cardinality(expired)
  BY <1>1, <1>4, MinOfTwo
<1>6. Cardinality(D) < Batch => D = expired
  BY <1>1, <1>2, <1>5, FS_Subset
<1> QED BY <1>1, <1>2, <1>3, <1>6

\* An acknowledgement changes nothing but the acknowledgement.
LEMMA AcknowledgeIs ==
  ASSUME TypeOK, IsFiniteSet(events), NEW id \in 1..MaxId, Acknowledge(id)
  PROVE  /\ IsFiniteSet(events')
         /\ \A f \in events' : \E e \in events :
              f = e \/ (e.ack = 0 /\ f = [e EXCEPT !.ack = now])
<1> DEFINE Acked(e) == IF e.id = id /\ e.ack = 0 THEN [e EXCEPT !.ack = now] ELSE e
           acked == [e \in events |-> Acked(e)]
<1>1. events' = {Acked(e) : e \in events}
  BY DEF Acknowledge
<1>2. acked \in Surjection(events, events')
  <2>1. acked \in [events -> events'] /\ \A f \in events' : \E e \in events : acked[e] = f
    BY <1>1
  <2> HIDE DEF acked
  <2> QED BY <2>1, Fun_IsSurj
<1>3. IsFiniteSet(events')
  <2> HIDE DEF acked
  <2> QED BY <1>2, FS_Surjection
<1>4. \A f \in events' : \E e \in events :
        f = e \/ (e.ack = 0 /\ f = [e EXCEPT !.ack = now])
  BY <1>1
<1> QED BY <1>3, <1>4

-----------------------------------------------------------------------------
(***************************************************************************)
(* What the disk view reads.                                               *)
(***************************************************************************)
LEMMA DiskSnapshotsAre ==
  ASSUME TypeOK, NEW pair \in DiskSnapshots
  PROVE  pair \in Seq(Snap)
<1> DEFINE Earlier(s) == Before(OfRoot(snaps, s.root), s.at)
<1>1. CASE snaps = {}
  <2>1. pair = <<>>
    BY <1>1 DEF DiskSnapshots
  <2> QED BY <2>1, EmptySeq
<1>2. CASE snaps # {}
  <2>1. PICK s \in snaps :
          pair = IF Earlier(s) = {} THEN <<s>> ELSE <<s, Latest(Earlier(s))>>
    BY <1>2 DEF DiskSnapshots
  <2>2. Earlier(s) \subseteq Snap /\ s \in Snap
    BY DEF TypeOK, Before, OfRoot
  <2>3. Earlier(s) # {} => Latest(Earlier(s)) \in Snap
    <3> HIDE DEF Earlier
    <3> QED BY <2>2, LatestIs
  <2> HIDE DEF Earlier
  <2> QED BY <2>1, <2>2, <2>3
<1> QED BY <1>1, <1>2

\* The reference is the latest of the candidates that are stored.
LEMMA ReferenceIs ==
  ASSUME TypeOK, NEW current
  PROVE  LET found == Candidates(current, Before(snaps, current.at))
             reference == CompleteDiskReference(current)
         IN  \/ found = {} /\ reference = NoSnap
             \/ reference \in found /\ reference \in Snap /\ \A s \in found : s.at <= reference.at
<1> DEFINE found == Candidates(current, Before(snaps, current.at))
           reference == CompleteDiskReference(current)
<1>0. SUFFICES \/ found = {} /\ reference = NoSnap
               \/ reference \in found /\ reference \in Snap
                  /\ \A s \in found : s.at <= reference.at
  OBVIOUS
<1>1. found \subseteq Snap
  BY DEF TypeOK, Candidates, Before
<1>2. CompleteDiskReference(current) = Latest(found)
  BY DEF CompleteDiskReference
<1> HIDE DEF found
<1>3. CASE found = {}
  BY <1>2, <1>3 DEF Latest
<1>4. CASE found # {}
  BY <1>1, <1>2, <1>4, LatestIs
<1> QED BY <1>3, <1>4

-----------------------------------------------------------------------------
(***************************************************************************)
(* The tables: what is kept is what was scanned.                           *)
(***************************************************************************)
TablesInv ==
  /\ TypeOK
  /\ IsFiniteSet(snaps) /\ IsFiniteSet(events)
  /\ \A s \in snaps : scan[<<s.root, s.at>>] = s.content
  /\ AlertsAreReal /\ OneAlertPerScan

LEMMA TablesInit == Init => TablesInv
<1> SUFFICES ASSUME Init PROVE TablesInv
  OBVIOUS
<1> USE DEF Init
<1>1. NoWalk \in [before: Nat, shown: Seq(Event), start: SUBSET Event, done: BOOLEAN]
  BY EmptySeq DEF NoWalk
<1>2. NoView \in [pc: {"idle", "latest", "shown"}, pair: Seq(Snap),
                  reference: Snap \union {NoSnap}, candidates: SUBSET Snap]
  BY EmptySeq DEF NoView
<1>3. 1 \in Time /\ 0 \in 0..MaxId
  BY BoundsAssumption DEF Time
<1>4. scan \in [Root \X Time -> Content \union {NoScan}]
  OBVIOUS
<1>5. TypeOK
  BY <1>1, <1>2, <1>3, <1>4 DEF TypeOK
<1> QED BY <1>5, FS_EmptySet DEF TablesInv, AlertsAreReal, OneAlertPerScan

LEMMA TablesUpload ==
  ASSUME TablesInv, NEW root \in Root, NEW at \in Time, NEW c \in Content, Upload(root, at, c)
  PROVE  TablesInv'
<1> DEFINE snap == [root |-> root, at |-> at, content |-> c]
           isNew == \A s \in snaps : s.root = root => s.at # at
<1>1. PICK rows :
        /\ Fresh(rows, snap)
        /\ rows # {} => isNew
        /\ snaps' = IF isNew THEN snaps \union {snap} ELSE snaps
        /\ events' = events \union rows
        /\ lastId' = lastId + Cardinality(rows)
  BY UploadIs DEF TablesInv
<1>2. snap \in Snap /\ snap.root = root /\ snap.at = at /\ snap.content = c
  BY DEF Snap
<1>3. /\ UNCHANGED <<now, reader, view>> /\ swept' \in BOOLEAN /\ lastId' <= MaxId
      /\ scan[<<root, at>>] \in {NoScan, c} \/ ~isNew
      /\ scan' = [scan EXCEPT ![<<root, at>>] =
                    IF scan[<<root, at>>] = NoScan THEN c ELSE scan[<<root, at>>]]
  BY DEF Upload, TablesInv, TypeOK
<1> HIDE DEF snap
<1>4. TypeOK
  BY DEF TablesInv
<1>5. IsFiniteSet(snaps') /\ IsFiniteSet(events') /\ Cardinality(rows) \in Nat
  <2>1. IsFiniteSet(rows)
    BY <1>1 DEF Fresh
  <2>2. IsFiniteSet(snaps \union {snap})
    BY FS_AddElement DEF TablesInv
  <2>3. IsFiniteSet(events \union rows)
    BY <2>1, FS_Union DEF TablesInv
  <2> QED BY <1>1, <2>1, <2>2, <2>3, FS_CardinalityType DEF TablesInv
<1>6. /\ scan' \in [Root \X Time -> Content \union {NoScan}]
      /\ \A k \in Root \X Time : scan[k] # NoScan => scan'[k] = scan[k]
      /\ isNew => scan'[<<root, at>>] = c
  <2>1. <<root, at>> \in Root \X Time
    OBVIOUS
  <2>2. scan \in [Root \X Time -> Content \union {NoScan}]
    BY <1>4 DEF TypeOK
  <2> HIDE DEF isNew
  <2> QED BY <1>3, <2>1, <2>2
<1>7. \A k \in Content : k # NoScan
  BY BoundsAssumption DEF NoScan
<1>8. \A s \in snaps : s.root \in Root /\ s.at \in Time /\ s.content \in Content
  BY <1>4 DEF TypeOK, Snap
<1>9. \A s \in snaps' : scan'[<<s.root, s.at>>] = s.content
  <2> SUFFICES ASSUME NEW s \in snaps'
               PROVE  scan'[<<s.root, s.at>>] = s.content
    OBVIOUS
  <2>1. CASE s \in snaps
    <3>1. <<s.root, s.at>> \in Root \X Time /\ scan[<<s.root, s.at>>] = s.content
      BY <1>8, <2>1 DEF TablesInv
    <3> QED BY <1>6, <1>7, <1>8, <2>1, <3>1
  <2>2. CASE s \notin snaps
    BY <1>1, <1>2, <1>6, <2>2
  <2> QED BY <2>1, <2>2
<1>10. \A e \in rows :
         /\ e \in Event /\ e.root = root /\ e.to = at /\ e.ack = 0
         /\ lastId < e.id /\ e.id <= lastId + Cardinality(rows)
         /\ \A f \in events : f.root = e.root /\ f.to = e.to => f.path # e.path
         /\ \E old \in snaps :
              /\ old.root = root /\ old.at = e.from /\ e.from < e.to
              /\ Comparable(old.content, c)
              /\ e.delta = SizeIn(c, e.path) - SizeIn(old.content, e.path)
              /\ e.delta >= Threshold
  BY <1>1, <1>2 DEF Fresh
<1>11. TypeOK'
  <2>1. snaps' \subseteq Snap /\ \A s, u \in snaps' : s.root = u.root /\ s.at = u.at => s = u
    BY <1>1, <1>2, <1>4 DEF TypeOK
  <2>2. lastId' \in 0..MaxId
    BY <1>1, <1>3, <1>4, <1>5, BoundsAssumption DEF TypeOK
  <2>3. \A e \in events : e.id \in Nat /\ e.id <= lastId /\ e.ack <= now
    BY <1>4 DEF TypeOK, Event
  <2>4. \A e \in rows : e.id \in Nat /\ e.ack <= now
    BY <1>4, <1>10, BoundsAssumption DEF TypeOK, Event, Time
  <2>5. \A e, f \in rows : e.id = f.id => e = f
    BY <1>1 DEF Fresh
  <2>6. /\ events' \subseteq Event
        /\ \A e, f \in events' : e.id = f.id => e = f
        /\ \A e \in events' : e.id <= lastId' /\ e.ack <= now
    BY <1>1, <1>4, <1>5, <1>10, <2>3, <2>4, <2>5, BoundsAssumption DEF TypeOK
  <2> QED BY <1>3, <1>4, <1>6, <2>1, <2>2, <2>6 DEF TypeOK
<1>12. AlertsAreReal'
  <2> SUFFICES ASSUME NEW e \in events'
               PROVE  /\ e.from < e.to /\ Comparable(scan'[<<e.root, e.from>>], scan'[<<e.root, e.to>>])
                      /\ e.delta = SizeIn(scan'[<<e.root, e.to>>], e.path)
                                   - SizeIn(scan'[<<e.root, e.from>>], e.path)
                      /\ e.delta >= Threshold
    BY DEF AlertsAreReal
  <2>1. CASE e \in events
    <3>1. <<e.root, e.from>> \in Root \X Time /\ <<e.root, e.to>> \in Root \X Time
      BY <1>4, <2>1 DEF TypeOK, Event
    <3>2. Comparable(scan[<<e.root, e.from>>], scan[<<e.root, e.to>>])
      BY <2>1 DEF TablesInv, AlertsAreReal
    <3>3. scan[<<e.root, e.from>>] # NoScan /\ scan[<<e.root, e.to>>] # NoScan
      BY <3>2 DEF Comparable, NoScan
    <3>4. /\ scan'[<<e.root, e.from>>] = scan[<<e.root, e.from>>]
          /\ scan'[<<e.root, e.to>>] = scan[<<e.root, e.to>>]
      BY <1>6, <3>1, <3>3
    <3> QED BY <2>1, <3>4 DEF TablesInv, AlertsAreReal
  <2>2. CASE e \notin events
    <3>1. e \in rows /\ isNew
      BY <1>1, <2>2
    <3>2. PICK old \in snaps :
            /\ old.root = root /\ old.at = e.from /\ e.from < e.to
            /\ Comparable(old.content, c)
            /\ e.delta = SizeIn(c, e.path) - SizeIn(old.content, e.path)
            /\ e.delta >= Threshold
      BY <1>10, <3>1
    <3>3. old \in snaps'
      BY <1>1
    <3>4. scan'[<<root, e.from>>] = old.content
      BY <1>9, <3>2, <3>3
    <3> HIDE DEF isNew
    <3>5. scan'[<<root, at>>] = c /\ e.root = root /\ e.to = at
      BY <1>6, <1>10, <3>1
    <3> QED BY <3>2, <3>4, <3>5
  <2> QED BY <2>1, <2>2
<1>13. OneAlertPerScan'
  <2> SUFFICES ASSUME NEW e \in events', NEW f \in events',
                      e.root = f.root, e.path = f.path, e.to = f.to
               PROVE  e.id = f.id
    BY DEF OneAlertPerScan
  <2>1. CASE e \in events /\ f \in events
    BY <2>1 DEF TablesInv, OneAlertPerScan
  <2>2. CASE e \in rows /\ f \in rows
    BY <1>1, <2>2 DEF Fresh
  <2>3. ~(e \in rows /\ f \in events) /\ ~(e \in events /\ f \in rows)
    BY <1>10
  <2> QED BY <1>1, <2>1, <2>2, <2>3
<1> QED BY <1>5, <1>9, <1>11, <1>12, <1>13 DEF TablesInv

LEMMA TablesAcknowledge ==
  ASSUME TablesInv, NEW id \in 1..MaxId, Acknowledge(id)
  PROVE  TablesInv'
<1>1. TypeOK /\ now \in Nat
  BY BoundsAssumption DEF TablesInv, TypeOK, Time
<1>2. IsFiniteSet(events')
  BY <1>1, AcknowledgeIs DEF TablesInv
<1>3. \A f \in events' : \E e \in events :
        f = e \/ (e.ack = 0 /\ f = [e EXCEPT !.ack = now])
  BY <1>1, AcknowledgeIs DEF TablesInv
<1>4. UNCHANGED <<now, snaps, lastId, reader, view, swept, scan>>
  BY DEF Acknowledge
<1>5. ASSUME NEW e \in events
      PROVE  /\ [e EXCEPT !.ack = now] \in Event
             /\ [e EXCEPT !.ack = now].ack = now
             /\ LET f == [e EXCEPT !.ack = now] IN
                  /\ f.id = e.id /\ f.root = e.root /\ f.path = e.path /\ f.delta = e.delta
                  /\ f.from = e.from /\ f.to = e.to
  <2>1. e \in Event
    BY <1>1 DEF TypeOK
  <2> QED BY <1>1, <2>1 DEF Event
<1>6. \A f \in events' : \E e \in events :
        /\ f \in Event /\ f.ack <= now
        /\ f.id = e.id /\ f.root = e.root /\ f.path = e.path /\ f.delta = e.delta
        /\ f.from = e.from /\ f.to = e.to
  <2> TAKE f \in events'
  <2>1. PICK e \in events : f = e \/ (e.ack = 0 /\ f = [e EXCEPT !.ack = now])
    BY <1>3
  <2>2. CASE f = e
    BY <1>1, <2>2 DEF TypeOK
  <2>3. CASE f = [e EXCEPT !.ack = now]
    BY <1>1, <1>5, <2>3
  <2> QED BY <2>1, <2>2, <2>3
<1>7. \A e, f \in events' : e.id = f.id => e = f
  <2> SUFFICES ASSUME NEW e \in events', NEW f \in events', e.id = f.id
               PROVE  e = f
    OBVIOUS
  <2> DEFINE Acked(x) == IF x.id = id /\ x.ack = 0 THEN [x EXCEPT !.ack = now] ELSE x
  <2>1. \A x \in events : Acked(x).id = x.id
    BY <1>5
  <2>2. events' = {Acked(x) : x \in events}
    BY DEF Acknowledge
  <2> HIDE DEF Acked
  <2>3. PICK x \in events : e = Acked(x)
    BY <2>2
  <2>4. PICK y \in events : f = Acked(y)
    BY <2>2
  <2>5. x = y
    BY <1>1, <2>1, <2>3, <2>4 DEF TypeOK
  <2> QED BY <2>3, <2>4, <2>5
<1>8. TypeOK'
  <2>1. events' \subseteq Event /\ \A e \in events' : e.id <= lastId /\ e.ack <= now
    BY <1>1, <1>6 DEF TypeOK
  <2> QED BY <1>1, <1>4, <1>7, <2>1 DEF TypeOK
<1>9. AlertsAreReal'
  <2> SUFFICES ASSUME NEW f \in events'
               PROVE  /\ f.from < f.to /\ Comparable(scan[<<f.root, f.from>>], scan[<<f.root, f.to>>])
                      /\ f.delta = SizeIn(scan[<<f.root, f.to>>], f.path)
                                   - SizeIn(scan[<<f.root, f.from>>], f.path)
                      /\ f.delta >= Threshold
    BY <1>4 DEF AlertsAreReal
  <2>1. PICK e \in events : /\ f.root = e.root /\ f.path = e.path /\ f.delta = e.delta
                            /\ f.from = e.from /\ f.to = e.to
    BY <1>6
  <2> QED BY <2>1 DEF TablesInv, AlertsAreReal
<1>10. OneAlertPerScan'
  <2> SUFFICES ASSUME NEW e \in events', NEW f \in events',
                      e.root = f.root, e.path = f.path, e.to = f.to
               PROVE  e.id = f.id
    BY DEF OneAlertPerScan
  <2>1. PICK x \in events : e.id = x.id /\ e.root = x.root /\ e.path = x.path /\ e.to = x.to
    BY <1>6
  <2>2. PICK y \in events : f.id = y.id /\ f.root = y.root /\ f.path = y.path /\ f.to = y.to
    BY <1>6
  <2> QED BY <2>1, <2>2 DEF TablesInv, OneAlertPerScan
<1> QED BY <1>2, <1>4, <1>8, <1>9, <1>10 DEF TablesInv

LEMMA TablesCleanup == TablesInv /\ CleanupBatch => TablesInv'
<1> SUFFICES ASSUME TablesInv, CleanupBatch PROVE TablesInv'
  OBVIOUS
<1>1. snaps' \subseteq snaps /\ events' \subseteq events
  BY DEF CleanupBatch
<1>2. UNCHANGED <<now, lastId, reader, view, scan>> /\ swept' \in BOOLEAN
  BY DEF CleanupBatch, Exhausted
<1>3. IsFiniteSet(snaps') /\ IsFiniteSet(events')
  BY <1>1, FS_Subset DEF TablesInv
<1>4. TypeOK'
  BY <1>1, <1>2 DEF TablesInv, TypeOK
<1>5. AlertsAreReal' /\ OneAlertPerScan'
  BY <1>1, <1>2 DEF TablesInv, AlertsAreReal, OneAlertPerScan
<1> QED BY <1>1, <1>2, <1>3, <1>4, <1>5 DEF TablesInv

\* The readers leave the tables alone and keep to their types.
LEMMA TablesReaders ==
  ASSUME TablesInv, OpenEvents \/ NextPage \/ ReadLatest \/ ReadReference \/ Leave
  PROVE  TablesInv'
<1> DEFINE Walks == [before: Nat, shown: Seq(Event), start: SUBSET Event, done: BOOLEAN]
           Views == [pc: {"idle", "latest", "shown"}, pair: Seq(Snap),
                     reference: Snap \union {NoSnap}, candidates: SUBSET Snap]
<1>1. TypeOK /\ IsFiniteSet(events) /\ events \subseteq Event /\ snaps \subseteq Snap
  BY DEF TablesInv, TypeOK
<1>2. UNCHANGED <<now, snaps, events, lastId, swept, scan>>
  BY DEF OpenEvents, NextPage, ReadLatest, ReadReference, Leave
<1>3. reader \in Walks /\ view \in Views
  BY <1>1 DEF TypeOK
<1>4. ASSUME NEW before \in Nat, NEW shown \in Seq(Event), NEW start \in SUBSET Event,
             Turn(before, shown, start)
      PROVE  reader' \in Walks
  <2>1. PageBefore(before).page \in Seq(Event) /\ PageBefore(before).next \in Nat
    BY <1>1, PageIs
  <2>2. shown \o PageBefore(before).page \in Seq(Event)
    BY <2>1, ConcatProperties
  <2> QED BY <1>4, <2>1, <2>2 DEF Turn
<1>5. NoWalk \in Walks /\ NoView \in Views
  BY EmptySeq DEF NoWalk, NoView
<1>0. ASSUME reader' \in Walks, view' \in Views PROVE TablesInv'
  BY <1>0, <1>2 DEF TablesInv, TypeOK, AlertsAreReal, OneAlertPerScan
<1> HIDE DEF Walks, Views
<1>6. CASE OpenEvents
  <2>1. MaxId + 1 \in Nat /\ <<>> \in Seq(Event)
    BY EmptySeq, BoundsAssumption
  <2>2. Turn(MaxId + 1, <<>>, events) /\ UNCHANGED view
    BY <1>6 DEF OpenEvents
  <2>3. reader' \in Walks
    BY <1>1, <1>4, <2>1, <2>2
  <2> QED BY <1>0, <1>3, <2>2, <2>3
<1>7. CASE NextPage
  <2>1. Turn(reader.before, reader.shown, reader.start) /\ UNCHANGED view
    BY <1>7 DEF NextPage
  <2>2. reader.before \in Nat /\ reader.shown \in Seq(Event) /\ reader.start \in SUBSET Event
    BY <1>3 DEF Walks
  <2> QED BY <1>0, <1>3, <1>4, <2>1, <2>2
<1>8. CASE ReadLatest
  <2>1. PICK pair \in DiskSnapshots :
          LET partial == pair # <<>> /\ ~pair[1].content.complete IN
          view' = [NoView EXCEPT
            !.pc = IF partial THEN "latest" ELSE "shown", !.pair = pair,
            !.candidates = IF partial THEN Candidates(pair[1], Before(snaps, pair[1].at)) ELSE {}]
    BY <1>8 DEF ReadLatest
  <2>2. pair \in Seq(Snap)
    BY <1>1, DiskSnapshotsAre
  <2>3. Candidates(pair[1], Before(snaps, pair[1].at)) \subseteq Snap
    BY <1>1 DEF Candidates, Before
  <2>4. view' \in Views
    BY <1>5, <2>1, <2>2, <2>3 DEF Views
  <2> QED BY <1>0, <1>3, <1>8, <2>4 DEF ReadLatest
<1>9. CASE ReadReference
  <2>1. CompleteDiskReference(view.pair[1]) \in Snap \union {NoSnap}
    BY <1>1, ReferenceIs
  <2>2. view' \in Views
    BY <1>3, <1>9, <2>1 DEF ReadReference, Views
  <2> QED BY <1>0, <1>3, <1>9, <2>2 DEF ReadReference
<1>10. CASE Leave
  BY <1>0, <1>5, <1>10 DEF Leave
<1> QED BY <1>6, <1>7, <1>8, <1>9, <1>10

LEMMA TablesStep == TablesInv /\ [Next]_vars => TablesInv'
<1> SUFFICES ASSUME TablesInv, [Next]_vars PROVE TablesInv'
  OBVIOUS
<1>1. CASE Tick
  <2>0. now \in Time
    BY DEF TablesInv, TypeOK
  <2>1. /\ now' \in Time /\ now \in Nat /\ now' = now + 1 /\ swept' \in BOOLEAN
        /\ UNCHANGED <<snaps, events, lastId, reader, view, scan>>
    <3>1. MaxTime \in Nat /\ now \in 1..MaxTime
      BY <2>0, BoundsAssumption DEF Time
    <3>2. now' \in 1..MaxTime
      BY <1>1, <3>1 DEF Tick
    <3>3. now \in Nat
      BY <3>1
    <3>4. now' \in Time
      BY <3>2 DEF Time
    <3>5. swept' \in BOOLEAN
      BY <1>1, Zenon DEF Tick
    <3> QED BY <1>1, <3>3, <3>4, <3>5, Zenon DEF Tick
  <2>2. \A e \in events : e.ack \in Nat /\ e.ack <= now
    BY DEF TablesInv, TypeOK, Event
  <2>3. \A e \in events : e.ack <= now'
    BY <2>1, <2>2
  <2>4. TypeOK'
    BY <2>1, <2>3 DEF TablesInv, TypeOK
  <2> QED BY <2>1, <2>4 DEF TablesInv, AlertsAreReal, OneAlertPerScan
<1>2. CASE UNCHANGED vars
  BY <1>2 DEF vars, TablesInv, TypeOK, AlertsAreReal, OneAlertPerScan
<1>3. CASE OpenEvents \/ NextPage \/ ReadLatest \/ ReadReference \/ Leave
  BY <1>3, TablesReaders
<1> QED BY <1>1, <1>2, <1>3, TablesUpload, TablesAcknowledge, TablesCleanup DEF Next

-----------------------------------------------------------------------------
(***************************************************************************)
(* The walk through the pages: what was there when it began, is still      *)
(* there and lies on or above the cursor has been shown; nothing below the *)
(* cursor has; and no number that was seen is given out again.             *)
(***************************************************************************)
WalkInv ==
  /\ reader.done <=> reader.before = 0
  /\ \A i \in 1..Len(reader.shown) :
       reader.before <= reader.shown[i].id /\ reader.shown[i].id <= lastId
  /\ \A i, j \in 1..Len(reader.shown) : i < j => reader.shown[i].id > reader.shown[j].id
  /\ \A e \in reader.start : e.id <= lastId
  /\ \A e \in reader.start, f \in events :
       e.id = f.id /\ reader.before <= f.id =>
         \E i \in 1..Len(reader.shown) : reader.shown[i].id = e.id
  /\ \A i \in 1..Len(reader.shown), e \in events :
       e.id = reader.shown[i].id =>
         /\ e.root = reader.shown[i].root /\ e.path = reader.shown[i].path
         /\ e.to = reader.shown[i].to

\* Alerts come with new numbers, keep what they say, or go.
LEMMA WalkTables ==
  ASSUME TypeOK, WalkInv, UNCHANGED reader, lastId' \in Nat, lastId <= lastId',
         \A f \in events' :
           \/ f.id \in Nat /\ f.id > lastId
           \/ \E e \in events : f.id = e.id /\ f.root = e.root /\ f.path = e.path /\ f.to = e.to
  PROVE  WalkInv'
<1>1. /\ reader.shown \in Seq(Event) /\ reader.start \subseteq Event
      /\ lastId \in Nat /\ reader.before \in Nat
  BY BoundsAssumption DEF TypeOK
<1>2. \A i \in 1..Len(reader.shown) : reader.shown[i] \in Event /\ reader.shown[i].id \in Nat
  <2> TAKE i \in 1..Len(reader.shown)
  <2>1. reader.shown[i] \in Event
    BY <1>1, ElementOfSeq
  <2> QED BY <2>1 DEF Event
<1>3. \A e \in reader.start : e.id \in Nat /\ e.id <= lastId
  BY <1>1 DEF WalkInv, Event
<1>4. \A i \in 1..Len(reader.shown) :
        reader.before <= reader.shown[i].id /\ reader.shown[i].id <= lastId'
  BY <1>1, <1>2 DEF WalkInv
<1>5. \A e \in reader.start : e.id <= lastId'
  BY <1>1, <1>3
<1>6. ASSUME NEW e \in reader.start, NEW f \in events', e.id = f.id, reader.before <= f.id
      PROVE  \E i \in 1..Len(reader.shown) : reader.shown[i].id = e.id
  <2>1. PICK g \in events : f.id = g.id
    BY <1>1, <1>3, <1>6
  <2> QED BY <1>6, <2>1 DEF WalkInv
<1>7. ASSUME NEW i \in 1..Len(reader.shown), NEW f \in events', f.id = reader.shown[i].id
      PROVE  /\ f.root = reader.shown[i].root /\ f.path = reader.shown[i].path
             /\ f.to = reader.shown[i].to
  <2>1. reader.shown[i].id \in Nat /\ reader.shown[i].id <= lastId
    BY <1>2 DEF WalkInv
  <2>2. PICK e \in events : f.id = e.id /\ f.root = e.root /\ f.path = e.path /\ f.to = e.to
    BY <1>1, <1>7, <2>1
  <2>3. e.id = reader.shown[i].id
    BY <1>7, <2>2
  <2>4. /\ e.root = reader.shown[i].root /\ e.path = reader.shown[i].path
        /\ e.to = reader.shown[i].to
    BY <2>3, Zenon DEF WalkInv
  <2> QED BY <2>2, <2>4
<1>8. (reader.done <=> reader.before = 0)
      /\ \A i, j \in 1..Len(reader.shown) : i < j => reader.shown[i].id > reader.shown[j].id
  BY DEF WalkInv
<1> QED BY <1>4, <1>5, <1>6, <1>7, <1>8 DEF WalkInv

\* A page is added whose alerts lie between the cursor it was asked for and
\* the one it returns.
LEMMA WalkTurn ==
  ASSUME TypeOK, IsFiniteSet(events), UNCHANGED <<events, lastId>>,
         NEW before \in Nat, NEW shown \in Seq(Event), NEW start \in SUBSET Event,
         \A i \in 1..Len(shown) : before <= shown[i].id /\ shown[i].id <= lastId,
         \A i, j \in 1..Len(shown) : i < j => shown[i].id > shown[j].id,
         \A e \in start : e.id <= lastId,
         \A e \in start, f \in events :
           e.id = f.id /\ before <= f.id => \E i \in 1..Len(shown) : shown[i].id = e.id,
         \A i \in 1..Len(shown), e \in events :
           e.id = shown[i].id =>
             e.root = shown[i].root /\ e.path = shown[i].path /\ e.to = shown[i].to,
         Turn(before, shown, start)
  PROVE  WalkInv'
<1> DEFINE page == PageBefore(before).page
           next == PageBefore(before).next
           all == shown \o page
<1>1. /\ page \in Seq(Event) /\ next \in Nat /\ next <= before
      /\ \A i \in 1..Len(page) : page[i] \in events /\ page[i].id < before /\ next <= page[i].id
      /\ \A i, j \in 1..Len(page) : i < j => page[i].id > page[j].id
      /\ \A e \in events : e.id < before /\ next <= e.id =>
           \E i \in 1..Len(page) : page[i] = e
  BY PageIs
<1>2. /\ reader'.before = next /\ reader'.shown = all /\ reader'.start = start
      /\ reader'.done = (next = 0)
  BY DEF Turn
<1> HIDE DEF page, next
<1>3. /\ all \in Seq(Event) /\ Len(all) = Len(shown) + Len(page)
      /\ \A i \in 1..Len(all) : all[i] = IF i <= Len(shown) THEN shown[i] ELSE page[i - Len(shown)]
  BY <1>1, ConcatProperties
<1> HIDE DEF all
<1>4. Len(shown) \in Nat /\ Len(page) \in Nat
  BY <1>1, LenProperties
<1>5. \A e \in Event : e.id \in Nat \ {0}
  BY DEF Event
<1>6. events \subseteq Event /\ (\A e \in events : e.id <= lastId) /\ lastId \in Nat
      /\ \A e, f \in events : e.id = f.id => e = f
  BY BoundsAssumption DEF TypeOK
<1>7. \A i \in 1..Len(shown) : shown[i] \in Event
  BY ElementOfSeq
<1>8. \A i \in 1..Len(all) :
        \/ i \in 1..Len(shown) /\ all[i] = shown[i]
        \/ i - Len(shown) \in 1..Len(page) /\ all[i] = page[i - Len(shown)] /\ i > Len(shown)
  BY <1>3, <1>4
<1>9. \A i \in 1..Len(all) : all[i].id \in Nat /\ next <= all[i].id /\ all[i].id <= lastId
  <2> TAKE i \in 1..Len(all)
  <2>1. CASE i \in 1..Len(shown) /\ all[i] = shown[i]
    <3>1. shown[i].id \in Nat /\ before <= shown[i].id /\ shown[i].id <= lastId
      BY <1>5, <1>7, <2>1
    <3> QED BY <1>1, <2>1, <3>1
  <2>2. CASE i - Len(shown) \in 1..Len(page) /\ all[i] = page[i - Len(shown)]
    BY <1>1, <1>5, <1>6, <2>2
  <2> QED BY <1>8, <2>1, <2>2
<1>10. ASSUME NEW i \in 1..Len(all), NEW j \in 1..Len(all), i < j
       PROVE  all[i].id > all[j].id
  <2>1. CASE j \in 1..Len(shown) /\ all[j] = shown[j]
    <3>1. i \in 1..Len(shown) /\ all[i] = shown[i]
      BY <1>3, <1>4, <1>10, <2>1
    <3> QED BY <1>10, <2>1, <3>1
  <2>2. CASE j - Len(shown) \in 1..Len(page) /\ all[j] = page[j - Len(shown)]
    <3>1. CASE i \in 1..Len(shown) /\ all[i] = shown[i]
      <4>1. before <= all[i].id /\ all[j].id < before
        BY <1>1, <2>2, <3>1
      <4> QED BY <1>9, <4>1
    <3>2. CASE i - Len(shown) \in 1..Len(page) /\ all[i] = page[i - Len(shown)]
      <4>1. i - Len(shown) < j - Len(shown)
        BY <1>4, <1>10
      <4> QED BY <1>1, <2>2, <3>2, <4>1
    <3> QED BY <1>8, <3>1, <3>2
  <2> QED BY <1>8, <2>1, <2>2
<1>11. /\ \A i \in 1..Len(shown) : i \in 1..Len(all) /\ all[i] = shown[i]
       /\ \A i \in 1..Len(page) : i + Len(shown) \in 1..Len(all) /\ all[i + Len(shown)] = page[i]
  <2>1. \A i \in 1..Len(shown) : i \in 1..Len(all) /\ all[i] = shown[i]
    BY <1>3, <1>4
  <2>2. ASSUME NEW i \in 1..Len(page)
        PROVE  i + Len(shown) \in 1..Len(all) /\ all[i + Len(shown)] = page[i]
    <3>1. /\ i + Len(shown) \in 1..Len(all) /\ ~(i + Len(shown) <= Len(shown))
          /\ i + Len(shown) - Len(shown) = i
      BY <1>3, <1>4
    <3> QED BY <1>3, <3>1
  <2> QED BY <2>1, <2>2
<1>12. ASSUME NEW e \in start, NEW f \in events, e.id = f.id, next <= f.id
       PROVE  \E i \in 1..Len(all) : all[i].id = e.id
  <2>1. f.id \in Nat
    BY <1>5, <1>6
  <2>2. CASE before <= f.id
    BY <1>11, <1>12, <2>2
  <2>3. CASE f.id < before
    <3>1. PICK i \in 1..Len(page) : page[i] = f
      BY <1>1, <1>12, <2>3
    <3> QED BY <1>11, <1>12, <3>1
  <2> QED BY <2>1, <2>2, <2>3
<1>13. ASSUME NEW i \in 1..Len(all), NEW e \in events, e.id = all[i].id
       PROVE  e.root = all[i].root /\ e.path = all[i].path /\ e.to = all[i].to
  <2>1. CASE i \in 1..Len(shown) /\ all[i] = shown[i]
    BY <1>13, <2>1
  <2>2. CASE i - Len(shown) \in 1..Len(page) /\ all[i] = page[i - Len(shown)]
    <3>1. all[i] \in events
      BY <1>1, <2>2
    <3>2. e = all[i]
      BY <1>6, <1>13, <3>1
    <3> QED BY <3>2
  <2> QED BY <1>8, <2>1, <2>2
<1> QED BY <1>2, <1>9, <1>10, <1>12, <1>13 DEF WalkInv

LEMMA WalkInit == Init => WalkInv
<1> SUFFICES ASSUME Init PROVE WalkInv
  OBVIOUS
<1>1. /\ reader.before = 0 /\ reader.done = TRUE /\ reader.start = {}
      /\ reader.shown = <<>> /\ 1..Len(<<>>) = {}
  BY DEF Init, NoWalk
<1> QED BY <1>1 DEF WalkInv

LEMMA WalkStep == TablesInv /\ WalkInv /\ [Next]_vars => WalkInv'
<1> SUFFICES ASSUME TablesInv, WalkInv, [Next]_vars PROVE WalkInv'
  OBVIOUS
<1>1. /\ TypeOK /\ IsFiniteSet(events) /\ events \subseteq Event /\ lastId \in Nat
      /\ \A e \in events : e.id \in Nat /\ e.id <= lastId
  <2>1. TypeOK /\ IsFiniteSet(events)
    BY DEF TablesInv
  <2>2. events \subseteq Event /\ lastId \in Nat /\ \A e \in events : e.id <= lastId
    BY <2>1, BoundsAssumption DEF TypeOK
  <2>3. \A e \in Event : e.id \in Nat
    BY DEF Event
  <2> QED BY <2>1, <2>2, <2>3
<1>2. CASE Tick \/ ReadLatest \/ ReadReference \/ UNCHANGED vars
  <2>1. UNCHANGED <<events, lastId, reader>>
    BY <1>2 DEF Tick, ReadLatest, ReadReference, vars
  <2> QED BY <2>1 DEF WalkInv
<1>3. ASSUME NEW root \in Root, NEW at \in Time, NEW c \in Content, Upload(root, at, c)
      PROVE  WalkInv'
  <2>1. PICK rows :
          /\ Fresh(rows, [root |-> root, at |-> at, content |-> c])
          /\ events' = events \union rows
          /\ lastId' = lastId + Cardinality(rows)
    BY <1>1, <1>3, UploadIs
  <2>2. IsFiniteSet(rows) /\ \A e \in rows : e.id \in Nat /\ e.id > lastId
    BY <2>1 DEF Fresh, Event
  <2>3. Cardinality(rows) \in Nat
    BY <2>2, FS_CardinalityType
  <2>4. UNCHANGED reader
    BY <1>3 DEF Upload
  <2> QED BY <1>1, <2>1, <2>2, <2>3, <2>4, WalkTables
<1>4. ASSUME NEW id \in 1..MaxId, Acknowledge(id)
      PROVE  WalkInv'
  <2>1. \A f \in events' : \E e \in events : f = e \/ f = [e EXCEPT !.ack = now]
    BY <1>1, <1>4, AcknowledgeIs
  <2>2. \A e \in events : LET f == [e EXCEPT !.ack = now] IN
          f.id = e.id /\ f.root = e.root /\ f.path = e.path /\ f.to = e.to
    BY <1>1 DEF Event
  <2>3. \A f \in events' : \E e \in events :
          f.id = e.id /\ f.root = e.root /\ f.path = e.path /\ f.to = e.to
    BY <2>1, <2>2
  <2>4. UNCHANGED <<reader, lastId>>
    BY <1>4 DEF Acknowledge
  <2> QED BY <1>1, <2>3, <2>4, WalkTables
<1>5. CASE CleanupBatch
  <2>1. events' \subseteq events /\ UNCHANGED <<reader, lastId>>
    BY <1>5 DEF CleanupBatch
  <2> QED BY <1>1, <2>1, WalkTables
<1>6. CASE OpenEvents
  <2>1. Turn(MaxId + 1, <<>>, events) /\ UNCHANGED <<events, lastId>>
    BY <1>6 DEF OpenEvents
  <2>2. MaxId + 1 \in Nat /\ <<>> \in Seq(Event) /\ 1..Len(<<>>) = {}
    BY EmptySeq, BoundsAssumption
  <2>3. \A e \in events : ~(MaxId + 1 <= e.id)
    BY <1>1, BoundsAssumption DEF TypeOK
  <2> QED BY <1>1, <2>1, <2>2, <2>3, WalkTurn
<1>7. CASE NextPage
  <2>1. Turn(reader.before, reader.shown, reader.start) /\ UNCHANGED <<events, lastId>>
    BY <1>7 DEF NextPage
  <2>2. reader.before \in Nat /\ reader.shown \in Seq(Event) /\ reader.start \in SUBSET Event
    BY <1>1 DEF TypeOK
  <2> QED BY <1>1, <2>1, <2>2, WalkTurn DEF WalkInv
<1>8. CASE Leave
  <2>1. reader' = NoWalk
    BY <1>8 DEF Leave
  <2>2. /\ reader'.before = 0 /\ reader'.done = TRUE /\ reader'.start = {}
        /\ reader'.shown = <<>> /\ 1..Len(<<>>) = {}
    BY <2>1 DEF NoWalk
  <2> QED BY <2>2 DEF WalkInv
<1> QED BY <1>2, <1>3, <1>4, <1>5, <1>6, <1>7, <1>8 DEF Next

-----------------------------------------------------------------------------
(***************************************************************************)
(* The disk view: between its two queries it holds a partial scan, and     *)
(* only scans that came before it count.                                   *)
(***************************************************************************)
ViewInv ==
  /\ view.pc = "latest" =>
       /\ view.pair # <<>> /\ ~view.pair[1].content.complete
       /\ view.candidates \subseteq Candidates(view.pair[1], Before(Snap, view.pair[1].at))
  /\ ReferenceIsNearest

LEMMA ViewInit == Init => ViewInv
<1> SUFFICES ASSUME Init PROVE ViewInv
  OBVIOUS
<1>1. view.pc = "idle"
  BY DEF Init, NoView
<1> QED BY <1>1 DEF ViewInv, ReferenceIsNearest

LEMMA ViewStep == TypeOK /\ ViewInv /\ [Next]_vars => ViewInv'
<1> SUFFICES ASSUME TypeOK, ViewInv, [Next]_vars PROVE ViewInv'
  OBVIOUS
<1>1. /\ view \in [pc: {"idle", "latest", "shown"}, pair: Seq(Snap),
                   reference: Snap \union {NoSnap}, candidates: SUBSET Snap]
      /\ snaps \subseteq Snap
  BY DEF TypeOK
<1>2. CASE UNCHANGED view
  BY <1>2 DEF ViewInv, ReferenceIsNearest
<1>3. CASE ReadLatest
  <2>1. PICK pair \in DiskSnapshots :
          LET partial == pair # <<>> /\ ~pair[1].content.complete IN
          view' = [NoView EXCEPT
            !.pc = IF partial THEN "latest" ELSE "shown", !.pair = pair,
            !.candidates = IF partial THEN Candidates(pair[1], Before(snaps, pair[1].at)) ELSE {}]
    BY <1>3 DEF ReadLatest
  <2>2. CASE pair # <<>> /\ ~pair[1].content.complete
    <3>1. /\ view'.pc = "latest" /\ view'.pair = pair
          /\ view'.candidates = Candidates(pair[1], Before(snaps, pair[1].at))
      BY <2>1, <2>2 DEF NoView
    <3>2. Candidates(pair[1], Before(snaps, pair[1].at))
            \subseteq Candidates(pair[1], Before(Snap, pair[1].at))
      BY <1>1 DEF Candidates, Before
    <3> QED BY <2>2, <3>1, <3>2 DEF ViewInv, ReferenceIsNearest
  <2>3. CASE ~(pair # <<>> /\ ~pair[1].content.complete)
    <3>1. /\ view'.pc = "shown" /\ view'.pair = pair
          /\ view'.reference = NoSnap /\ view'.candidates = {}
      BY <2>1, <2>3 DEF NoView
    <3> QED BY <3>1 DEF ViewInv, ReferenceIsNearest
  <2> QED BY <2>2, <2>3
<1>4. CASE ReadReference
  <2> DEFINE current == view.pair[1]
             found == Candidates(current, Before(snaps, current.at))
             reference == CompleteDiskReference(current)
  <2>1. /\ view.pair # <<>> /\ ~current.content.complete
        /\ view.candidates \subseteq Candidates(current, Before(Snap, current.at))
    BY <1>4 DEF ReadReference, ViewInv
  <2>2. /\ view'.pc = "shown" /\ view'.pair = view.pair /\ view'.reference = reference
        /\ view'.candidates = view.candidates \intersect snaps
    BY <1>1, <1>4 DEF ReadReference
  <2>3. \/ found = {} /\ reference = NoSnap
        \/ reference \in found /\ \A s \in found : s.at <= reference.at
    BY ReferenceIs
  <2>4. view.candidates \intersect snaps \subseteq found
    BY <2>1 DEF Candidates, Before
  <2>5. /\ \A s \in found : /\ s.at < current.at
                            /\ Candidates(current, {s}) # {}
    BY DEF Candidates, Before
  <2> HIDE DEF found, reference
  <2>6. reference # NoSnap => reference.at < current.at /\ Candidates(current, {reference}) # {}
    BY <2>3, <2>5
  <2>7. \A s \in view'.candidates : s.at <= reference.at
    BY <2>2, <2>3, <2>4
  <2> HIDE DEF current
  <2>8. view'.pair[1] = current
    BY <2>2 DEF current
  <2> QED BY <2>1, <2>2, <2>6, <2>7, <2>8 DEF ViewInv, ReferenceIsNearest
<1>5. CASE Leave
  <2>1. view'.pc = "idle"
    BY <1>5 DEF Leave, NoView
  <2> QED BY <2>1 DEF ViewInv, ReferenceIsNearest
<1>6. CASE Tick \/ CleanupBatch \/ OpenEvents \/ NextPage \/ UNCHANGED vars
  BY <1>2, <1>6 DEF Tick, CleanupBatch, OpenEvents, NextPage, vars
<1>7. ASSUME NEW root \in Root, NEW at \in Time, NEW c \in Content, Upload(root, at, c)
      PROVE  ViewInv'
  BY <1>2, <1>7 DEF Upload
<1>8. ASSUME NEW id \in 1..MaxId, Acknowledge(id)
      PROVE  ViewInv'
  BY <1>2, <1>8 DEF Acknowledge
<1> QED BY <1>3, <1>4, <1>5, <1>6, <1>7, <1>8 DEF Next

-----------------------------------------------------------------------------
(***************************************************************************)
(* Retention.                                                              *)
(***************************************************************************)
LEMMA SweepStep == TablesInv /\ SweepIsThorough /\ [Next]_vars => SweepIsThorough'
<1> SUFFICES ASSUME TablesInv, SweepIsThorough, [Next]_vars, swept'
             PROVE  /\ \A s \in snaps' : s.at >= Cutoff'
                    /\ \A e \in events' : e.to >= Cutoff'
  BY DEF SweepIsThorough
<1>1. /\ TypeOK /\ IsFiniteSet(snaps) /\ IsFiniteSet(events) /\ Cutoff \in Int
      /\ \A s \in snaps : s.at \in Int
      /\ \A e \in events : e \in Event /\ e.to \in Int
  <2>1. TypeOK /\ IsFiniteSet(snaps) /\ IsFiniteSet(events)
    BY DEF TablesInv
  <2>2. now \in Time /\ snaps \subseteq Snap /\ events \subseteq Event
    BY <2>1 DEF TypeOK
  <2>3. \A t \in Time : t \in Int
    BY DEF Time
  <2>4. Cutoff \in Int
    BY <2>2, <2>3, BoundsAssumption DEF Cutoff
  <2> QED BY <2>1, <2>2, <2>3, <2>4 DEF Snap, Event
<1>2. ASSUME NEW root \in Root, NEW at \in Time, NEW c \in Content, Upload(root, at, c)
      PROVE  /\ \A s \in snaps' : s.at >= Cutoff'
             /\ \A e \in events' : e.to >= Cutoff'
  <2>1. swept /\ at >= Cutoff /\ Cutoff' = Cutoff
    BY <1>2 DEF Upload, Cutoff
  <2> DEFINE snap == [root |-> root, at |-> at, content |-> c]
  <2>2. PICK rows : /\ Fresh(rows, snap) /\ snaps' \subseteq snaps \union {snap}
                    /\ events' = events \union rows
    BY <1>1, <1>2, UploadIs
  <2>3. snap.at = at
    OBVIOUS
  <2>4. \A e \in rows : e.to = at
    BY <2>2 DEF Fresh
  <2> QED BY <2>1, <2>2, <2>3, <2>4 DEF SweepIsThorough
<1>3. ASSUME NEW id \in 1..MaxId, Acknowledge(id)
      PROVE  /\ \A s \in snaps' : s.at >= Cutoff'
             /\ \A e \in events' : e.to >= Cutoff'
  <2>1. \A f \in events' : \E e \in events : f = e \/ f = [e EXCEPT !.ack = now]
    BY <1>1, <1>3, AcknowledgeIs
  <2>2. \A e \in events : [e EXCEPT !.ack = now].to = e.to
    BY <1>1 DEF Event
  <2>3. \A f \in events' : \E e \in events : f.to = e.to
    BY <2>1, <2>2
  <2>4. UNCHANGED <<now, snaps, swept>>
    BY <1>3 DEF Acknowledge
  <2> QED BY <2>3, <2>4 DEF SweepIsThorough, Cutoff
<1>4. CASE CleanupBatch
  <2>1. PICK gone \in Removable(snaps, [s \in snaps |-> s.at]),
             dropped \in Removable(events, [e \in events |-> e.to]) :
          /\ snaps' = snaps \ gone /\ events' = events \ dropped
          /\ swept' = Exhausted(gone, dropped)
    BY <1>4 DEF CleanupBatch
  <2>2. Cardinality(gone) < Batch /\ Cardinality(dropped) < Batch /\ Cutoff' = Cutoff
    BY <1>4, <2>1 DEF Exhausted, CleanupBatch, Cutoff
  <2>3. \A s \in snaps \ gone : ~([t \in snaps |-> t.at][s] < Cutoff)
    BY <1>1, <2>2, RemovableIs
  <2>4. \A e \in events \ dropped : ~([t \in events |-> t.to][e] < Cutoff)
    BY <1>1, <2>2, RemovableIs
  <2> QED BY <1>1, <2>1, <2>2, <2>3, <2>4
<1>5. CASE OpenEvents \/ NextPage \/ ReadLatest \/ ReadReference \/ Leave \/ UNCHANGED vars
  <2>1. UNCHANGED <<now, snaps, events, swept>>
    BY <1>5 DEF OpenEvents, NextPage, ReadLatest, ReadReference, Leave, vars
  <2> QED BY <2>1 DEF SweepIsThorough, Cutoff
<1>6. CASE Tick
  BY <1>6 DEF Tick
<1> QED BY <1>2, <1>3, <1>4, <1>5, <1>6 DEF Next

-----------------------------------------------------------------------------
(***************************************************************************)
(* The theorems.                                                           *)
(***************************************************************************)
DiskInv == TablesInv /\ WalkInv /\ ViewInv /\ SweepIsThorough

\* The tables, the walk through the pages, the disk view and the sweeps fit
\* together in every reachable state (SaveDiskEvents, handleEvents,
\* handleDisk, the retention batches), whatever the order of their steps.
THEOREM DiskInvariant == Spec => []DiskInv
<1>1. Init => DiskInv
  BY TablesInit, WalkInit, ViewInit DEF DiskInv, Init, SweepIsThorough
<1>2. DiskInv /\ [Next]_vars => DiskInv'
  BY TablesStep, WalkStep, ViewStep, SweepStep DEF DiskInv, TablesInv
<1> QED BY <1>1, <1>2, PTL DEF Spec

\* Rows keep their types, and numbers and scan times stay unique in their
\* tables (migrations 0003 and 0005).
THEOREM TypeCorrect == Spec => []TypeOK
<1>1. DiskInv => TypeOK
  BY DEF DiskInv, TablesInv
<1> QED BY <1>1, DiskInvariant, PTL

\* Every alert states a growth that two complete scans of the same depth
\* showed, whatever was repeated, reordered or removed (GrowthAlerts and the
\* transaction of SaveDiskEvents).
THEOREM RealAlerts == Spec => []AlertsAreReal
<1>1. DiskInv => AlertsAreReal
  BY DEF DiskInv, TablesInv
<1> QED BY <1>1, DiskInvariant, PTL

\* No directory is reported twice for a scan (ON CONFLICT DO NOTHING, and
\* snapshots that are stored once).
THEOREM OneAlert == Spec => []OneAlertPerScan
<1>1. DiskInv => OneAlertPerScan
  BY DEF DiskInv, TablesInv
<1> QED BY <1>1, DiskInvariant, PTL

\* No step changes an alert that was emitted, but for its first
\* acknowledgement: new alerts have numbers above the counter, and retention
\* removes them whole.
THEOREM ImmutableAlerts == Spec => AlertsImmutable
<1>1. TablesInv /\ [Next]_vars =>
        [\A e \in events, f \in events' :
           e.id = f.id => f = e \/ (e.ack = 0 /\ f = [e EXCEPT !.ack = now])]_vars
  <2> SUFFICES ASSUME TablesInv, [Next]_vars, NEW e \in events, NEW f \in events', e.id = f.id
               PROVE  f = e \/ (e.ack = 0 /\ f = [e EXCEPT !.ack = now])
    OBVIOUS
  <2>1. /\ TypeOK /\ IsFiniteSet(events) /\ events \subseteq Event /\ lastId \in Nat
        /\ e.id \in Nat /\ e.id <= lastId
        /\ \A x, y \in events : x.id = y.id => x = y
    <3>1. TypeOK /\ IsFiniteSet(events)
      BY DEF TablesInv
    <3>2. /\ events \subseteq Event /\ lastId \in Nat /\ e.id <= lastId
          /\ \A x, y \in events : x.id = y.id => x = y
      BY <3>1, BoundsAssumption DEF TypeOK
    <3>3. e.id \in Nat
      BY <3>2 DEF Event
    <3> QED BY <3>1, <3>2, <3>3
  <2>2. CASE f \in events
    BY <2>1, <2>2
  <2>3. ASSUME NEW root \in Root, NEW at \in Time, NEW c \in Content, Upload(root, at, c)
        PROVE  f \in events
    <3>1. PICK rows : /\ Fresh(rows, [root |-> root, at |-> at, content |-> c])
                      /\ events' = events \union rows
      BY <2>1, <2>3, UploadIs
    <3>2. \A x \in rows : x.id \in Nat /\ x.id > lastId
      BY <3>1 DEF Fresh, Event
    <3> QED BY <2>1, <3>1, <3>2
  <2>4. ASSUME NEW id \in 1..MaxId, Acknowledge(id)
        PROVE  f = e \/ (e.ack = 0 /\ f = [e EXCEPT !.ack = now])
    <3>1. PICK x \in events : f = x \/ (x.ack = 0 /\ f = [x EXCEPT !.ack = now])
      BY <2>1, <2>4, AcknowledgeIs
    <3>2. [x EXCEPT !.ack = now].id = x.id
      BY <2>1 DEF Event
    <3>3. x = e
      BY <2>1, <3>1, <3>2
    <3> QED BY <3>1, <3>3
  <2>5. CASE CleanupBatch
    BY <2>5, <2>2 DEF CleanupBatch
  <2>6. CASE Tick \/ OpenEvents \/ NextPage \/ ReadLatest \/ ReadReference \/ Leave \/ UNCHANGED vars
    <3>1. events' = events
      BY <2>6 DEF Tick, OpenEvents, NextPage, ReadLatest, ReadReference, Leave, vars
    <3> QED BY <2>2, <3>1
  <2> QED BY <2>2, <2>3, <2>4, <2>5, <2>6 DEF Next
<1>2. DiskInv => TablesInv
  BY DEF DiskInv
<1> QED BY <1>1, <1>2, DiskInvariant, PTL DEF Spec, AlertsImmutable

\* A number that a page showed never means another alert (AUTOINCREMENT:
\* numbers of removed alerts are not given out again).
THEOREM StableIds == Spec => []ShownIdsStable
<1>1. DiskInv => ShownIdsStable
  <2> SUFFICES ASSUME DiskInv, NEW i \in DOMAIN reader.shown, NEW e \in events,
                      e.id = reader.shown[i].id
               PROVE  /\ e.root = reader.shown[i].root /\ e.path = reader.shown[i].path
                      /\ e.to = reader.shown[i].to
    BY DEF ShownIdsStable
  <2>1. i \in 1..Len(reader.shown)
    BY LenProperties DEF DiskInv, TablesInv, TypeOK
  <2> QED BY <2>1, Zenon DEF DiskInv, WalkInv
<1> QED BY <1>1, DiskInvariant, PTL

\* A walk through the pages shows each alert at most once, newest first, and
\* misses none that was there all the while (handleEvents' cursor).
THEOREM ExactWalk == Spec => []WalkIsExact
<1>1. DiskInv => WalkIsExact
  <2> SUFFICES ASSUME DiskInv PROVE WalkIsExact
    OBVIOUS
  <2>1. reader.shown \in Seq(Event) /\ events \subseteq Event /\ WalkInv
    BY DEF DiskInv, TablesInv, TypeOK
  <2>2. DOMAIN reader.shown = 1..Len(reader.shown)
    BY <2>1, LenProperties
  <2>3. ASSUME reader.done, NEW e \in reader.start, NEW f \in events, e.id = f.id
        PROVE  e.id \in Ids(Range(reader.shown))
    <3>1. reader.before = 0 /\ f.id \in Nat
      BY <2>1, <2>3 DEF WalkInv, Event
    <3>2. PICK i \in 1..Len(reader.shown) : reader.shown[i].id = e.id
      BY <2>1, <2>3, <3>1 DEF WalkInv
    <3>3. reader.shown[i] \in Range(reader.shown)
      BY <2>2 DEF Range
    <3> QED BY <3>2, <3>3 DEF Ids
  <2>4. reader.done => Ids(reader.start) \intersect Ids(events) \subseteq Ids(Range(reader.shown))
    BY <2>3 DEF Ids
  <2>5. \A i, j \in DOMAIN reader.shown : i < j => reader.shown[i].id > reader.shown[j].id
    BY <2>1, <2>2 DEF WalkInv
  <2> QED BY <2>4, <2>5 DEF WalkIsExact
<1> QED BY <1>1, DiskInvariant, PTL

\* The reference shown beside a partial scan is the nearest complete scan of
\* its scope that came before it (handleDisk's two queries).
THEOREM NearestReference == Spec => []ReferenceIsNearest
<1>1. DiskInv => ReferenceIsNearest
  BY DEF DiskInv, ViewInv
<1> QED BY <1>1, DiskInvariant, PTL

\* A sweep that ends leaves no expired row in either table (the batches of
\* CleanupDisk).
THEOREM ThoroughSweep == Spec => []SweepIsThorough
<1>1. DiskInv => SweepIsThorough
  BY DEF DiskInv
<1> QED BY <1>1, DiskInvariant, PTL
=============================================================================
