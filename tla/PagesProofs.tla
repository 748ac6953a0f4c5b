---------------------------- MODULE PagesProofs ----------------------------
(***************************************************************************)
(* That a command does to the library what the user meant by it, whatever  *)
(* the library holds and whoever else is at work on it, and that a         *)
(* reprocess is sent for the take its draft was started from.              *)
(*                                                                         *)
(* Neither is inductive.  For the first, the tables have to be sound       *)
(* (LibraryProofs), every command under way has to be one that can be, and *)
(* one that was given on an up-to-date listing has to fit the tables       *)
(* (ShelfInv).  The work is in the lists: what the page shows in order is  *)
(* what the server numbers, and what it takes for selected is what the     *)
(* server takes for the outermost of what was chosen.  For the second, the *)
(* open editor is of the selected take or of nothing (ConsoleInv).         *)
(***************************************************************************)
EXTENDS Pages, LibraryProofs, SequenceTheorems

-----------------------------------------------------------------------------
(* Lists in order *)

\* A list with every element of S once.
Enumerates(q, S) ==
  /\ q \in Seq(S) /\ q \in [1 .. Len(q) -> S] /\ Len(q) \in Nat
  /\ DOMAIN q = 1 .. Len(q)
  /\ \A i, k \in 1 .. Len(q) : q[i] = q[k] => i = k
  /\ Members(q) = S

\* The same, in order.
InOrder(r, q, S) ==
  /\ Enumerates(q, S)
  /\ \A i, k \in 1 .. Len(q) : i < k => Before(r, q[i], q[k])

LEMMA ItemsFinite ==
  ASSUME NEW S \in SUBSET Items
  PROVE  IsFiniteSet(S) /\ Cardinality(S) \in Nat
<1>1. IsFiniteSet(S)
  BY LibraryAssumption, FS_Subset
<1> QED
  BY <1>1, FS_CardinalityType

\* The copy that comes with the community modules.
LEMMA SameCardinality == \A S : Ext!Cardinality(S) = Cardinality(S)
BY DEF Ext!Cardinality, Cardinality

LEMMA InjectiveLists ==
  ASSUME NEW S \in SUBSET Items, NEW q \in [1 .. Cardinality(S) -> S],
         \A i, k \in 1 .. Cardinality(S) : q[i] = q[k] => i = k
  PROVE  Enumerates(q, S) /\ Len(q) = Cardinality(S)
<1> DEFINE n == Cardinality(S)
<1>1. n \in Nat /\ IsFiniteSet(S) /\ IsFiniteSet(1 .. n) /\ Cardinality(1 .. n) = n
  BY ItemsFinite, FS_Interval
<1>2. q \in Injection(1 .. n, S)
  BY DEF Injection, IsInjective
<1>3. q \in Surjection(1 .. n, S)
  BY <1>1, <1>2, FS_Injection
<1>4. Members(q) = S
  BY <1>3 DEF Surjection, Members
<1>5. q \in Seq(S) /\ Len(q) = n
  BY <1>1
<1> QED
  BY <1>1, <1>4, <1>5 DEF Enumerates

LEMMA OrderExists ==
  ASSUME NEW r \in [Items -> Row], NEW S \in SUBSET Items
  PROVE  \E q \in [1 .. Cardinality(S) -> S] :
           /\ \A i, k \in 1 .. Cardinality(S) : q[i] = q[k] => i = k
           /\ \A i, k \in 1 .. Cardinality(S) : i < k => Before(r, q[i], q[k])
<1> DEFINE n == Cardinality(S)
           ahead(x) == {y \in S : Before(r, y, x)}
           rank(x) == Cardinality(ahead(x))
           e == [x \in S |-> rank(x) + 1]
           q == [i \in 1 .. n |-> CHOOSE x \in S : rank(x) = i - 1]
<1>1. n \in Nat /\ IsFiniteSet(S)
  BY ItemsFinite
<1>2. ASSUME NEW x \in S
      PROVE  /\ rank(x) \in Nat /\ rank(x) < n
             /\ IsFiniteSet(ahead(x)) /\ x \notin ahead(x) /\ ahead(x) \subseteq S
  <2>1. x \notin ahead(x) /\ ahead(x) \in SUBSET S
    BY BeforeIsOrder
  <2> HIDE DEF ahead
  <2>2. IsFiniteSet(ahead(x)) /\ rank(x) \in Nat
    BY <2>1, ItemsFinite
  <2>3. rank(x) < n
    BY <1>1, <2>1, FewerElements
  <2> QED
    BY <2>1, <2>2, <2>3
<1>3. ASSUME NEW x \in S, NEW y \in S, Before(r, x, y)
      PROVE  rank(x) < rank(y)
  <2>1. ahead(x) \in SUBSET ahead(y) /\ x \in ahead(y)
    BY <1>3, BeforeIsOrder
  <2>2. x \notin ahead(x) /\ IsFiniteSet(ahead(y))
    BY <1>2
  <2> HIDE DEF ahead
  <2> QED
    BY <2>1, <2>2, FewerElements
<1>4. ASSUME NEW x \in S, NEW y \in S, rank(x) = rank(y)
      PROVE  x = y
  <2>1. rank(x) \in Nat
    BY <1>2
  <2> HIDE DEF rank
  <2> QED
    BY <1>3, <1>4, <2>1, BeforeIsOrder
<1> HIDE DEF ahead
<1>5. e \in Injection(S, 1 .. n)
  <2>1. e \in [S -> 1 .. n]
    BY <1>1, <1>2
  <2>2. \A x, y \in S : e[x] = e[y] => x = y
    BY <1>2, <1>4
  <2> HIDE DEF e
  <2> QED
    BY <2>1, <2>2 DEF Injection, IsInjective
<1>6. e \in Surjection(S, 1 .. n)
  <2>1. IsFiniteSet(1 .. n) /\ Cardinality(1 .. n) = n
    BY <1>1, FS_Interval
  <2> HIDE DEF e
  <2> QED
    BY <1>5, <2>1, FS_Injection
<1>7. \A i \in 1 .. n : \E x \in S : rank(x) = i - 1
  <2>1. \A i \in 1 .. n : \E x \in S : e[x] = i
    <3> HIDE DEF e
    <3> QED
      BY <1>6 DEF Surjection
  <2> QED
    BY <1>2, <2>1
<1>8. \A i \in 1 .. n : q[i] \in S /\ rank(q[i]) = i - 1
  BY <1>7
<1>9. q \in [1 .. n -> S]
  BY <1>8
<1> HIDE DEF q
<1>10. \A i, k \in 1 .. n : q[i] = q[k] => i = k
  BY <1>1, <1>8
<1>11. ASSUME NEW i \in 1 .. n, NEW k \in 1 .. n, i < k
       PROVE  Before(r, q[i], q[k])
  <2>1. q[i] # q[k] /\ q[i] \in Items /\ q[k] \in Items
    BY <1>1, <1>8, <1>10, <1>11
  <2>2. ~Before(r, q[k], q[i])
    BY <1>1, <1>3, <1>8, <1>11
  <2> QED
    BY <2>1, <2>2, BeforeIsOrder
<1> QED
  BY <1>9, <1>10, <1>11

LEMMA SortedInOrder ==
  ASSUME NEW r \in [Items -> Row], NEW S \in SUBSET Items
  PROVE  InOrder(r, Sorted(r, S), S)
<1> DEFINE n == Cardinality(S)
           ok(q) == \A i, k \in DOMAIN q : i < k => Before(r, q[i], q[k])
<1>1. Ext!SetToSeqs(S) = {f \in [1 .. n -> S] : \A i, k \in 1 .. n : i # k => f[i] # f[k]}
  BY SameCardinality DEF Ext!SetToSeqs
<1>2. \E q \in Ext!SetToSeqs(S) : ok(q)
  <2>1. PICK q \in [1 .. n -> S] :
          /\ \A i, k \in 1 .. n : q[i] = q[k] => i = k
          /\ \A i, k \in 1 .. n : i < k => Before(r, q[i], q[k])
    BY OrderExists
  <2> QED
    BY <1>1, <2>1
<1> DEFINE q == Sorted(r, S)
<1>3. q \in Ext!SetToSeqs(S) /\ ok(q)
  <2>1. q = CHOOSE f \in Ext!SetToSeqs(S) : ok(f)
    BY DEF Sorted
  <2> HIDE DEF ok, q
  <2> QED
    BY <1>2, <2>1
<1> HIDE DEF q
<1>4. /\ q \in [1 .. n -> S] /\ \A i, k \in 1 .. n : q[i] = q[k] => i = k
      /\ \A i, k \in 1 .. n : i < k => Before(r, q[i], q[k])
  BY <1>1, <1>3
<1>5. Enumerates(q, S) /\ Len(q) = n
  BY <1>4, InjectiveLists
<1>6. InOrder(r, q, S)
  BY <1>4, <1>5 DEF InOrder
<1> QED
  BY <1>6 DEF q


LEMMA RankInOrder ==
  ASSUME NEW r \in [Items -> Row], NEW K \in {Folders, Jobs}, NEW p,
         NEW kids, kids = Kids(r, K, p), NEW q, InOrder(r, q, kids), NEW i \in 1 .. Len(q)
  PROVE  Rank(r, q[i]) = i - 1
<1> DEFINE ahead == {y \in kids : Before(r, y, q[i])}
           f == [k \in 1 .. (i - 1) |-> q[k]]
<1>1. /\ q \in [1 .. Len(q) -> kids] /\ Len(q) \in Nat /\ Members(q) = kids
      /\ \A k, m \in 1 .. Len(q) : q[k] = q[m] => k = m
      /\ \A k, m \in 1 .. Len(q) : k < m => Before(r, q[k], q[m])
  BY DEF InOrder, Enumerates
<1>2. q[i] \in kids /\ kids \subseteq Items
  BY <1>1, Ids, KidsFinite
<1>3. Rank(r, q[i]) = Cardinality(ahead)
  <2>1. KindOf(q[i]) = K /\ r[q[i]].parent = p
    BY <1>2, Ids DEF Kids, KindOf
  <2> QED
    BY <2>1 DEF Rank
<1>4. f \in Surjection(1 .. (i - 1), ahead)
  <2>1. f \in [1 .. (i - 1) -> ahead]
    BY <1>1
  <2>2. ASSUME NEW y \in ahead
        PROVE  \E k \in 1 .. (i - 1) : f[k] = y
    <3>1. PICK k \in 1 .. Len(q) : q[k] = y
      BY <1>1 DEF Members
    <3>2. k < i
      BY <1>1, <1>2, <3>1, BeforeIsOrder
    <3> QED
      BY <3>1, <3>2
  <2> HIDE DEF f, ahead
  <2> QED
    BY <2>1, <2>2 DEF Surjection
<1>5. f \in Injection(1 .. (i - 1), ahead)
  <2>1. \A k, m \in 1 .. (i - 1) : f[k] = f[m] => k = m
    BY <1>1
  <2> HIDE DEF f, ahead
  <2> QED
    BY <1>4, <2>1 DEF Injection, IsInjective, Surjection
<1>6. IsFiniteSet(1 .. (i - 1)) /\ Cardinality(1 .. (i - 1)) = i - 1
  BY FS_Interval
<1> HIDE DEF f, ahead
<1> QED
  BY <1>3, <1>4, <1>5, <1>6, FS_Surjection

\* Where the i-th element was, when the a-th has been put in the b-th place.
Origin(i, a, b) ==
  IF i = b THEN a
  ELSE IF i < b THEN (IF i < a THEN i ELSE i + 1) ELSE (IF i <= a THEN i - 1 ELSE i)

Shifted(q, ids, a, b) == \A i \in 1 .. Len(ids) : q[i] = ids[Origin(i, a, b)]

LEMMA RemoveInsert ==
  ASSUME NEW S, NEW ids \in Seq(S), NEW a \in 1 .. Len(ids), NEW b \in 1 .. Len(ids),
         NEW v, v = Ext!InsertAt(Ext!RemoveAt(ids, a), b, ids[a])
  PROVE  /\ Len(Ext!RemoveAt(ids, a)) = Len(ids) - 1
         /\ v \in Seq(S) /\ Len(v) = Len(ids)
         /\ Shifted(v, ids, a, b)
<1>0. PICK x \in S : x = ids[a]
  BY LenProperties
<1> DEFINE n == Len(ids)
           s1 == SubSeq(ids, 1, a - 1)
           s2 == SubSeq(ids, a + 1, n)
           w == s1 \o s2
           t1 == SubSeq(w, 1, b - 1)
           t2 == SubSeq(w, b, n - 1)
           u == t1 \o <<x>>
           q == u \o t2
<1>1. n \in Nat /\ \A i \in 1 .. n : ids[i] \in S
  BY LenProperties
<1>2. /\ s1 \in Seq(S) /\ Len(s1) = a - 1
      /\ \A i \in 1 .. (a - 1) : s1[i] = ids[i]
  <2>1. /\ s1 \in Seq(S) /\ Len(s1) = IF 1 <= a - 1 THEN (a - 1) - 1 + 1 ELSE 0
        /\ \A i \in 1 .. ((a - 1) - 1 + 1) : s1[i] = ids[1 + i - 1]
    BY <1>1, SubSeqProperties
  <2> HIDE DEF s1
  <2> QED
    BY <1>1, <2>1
<1>3. /\ s2 \in Seq(S) /\ Len(s2) = n - a
      /\ \A i \in 1 .. (n - a) : s2[i] = ids[a + i]
  <2>1. /\ s2 \in Seq(S) /\ Len(s2) = IF a + 1 <= n THEN n - (a + 1) + 1 ELSE 0
        /\ \A i \in 1 .. (n - (a + 1) + 1) : s2[i] = ids[(a + 1) + i - 1]
    BY <1>1, SubSeqProperties
  <2> HIDE DEF s2
  <2> QED
    BY <1>1, <2>1
<1> HIDE DEF s1, s2
<1>4. /\ w \in Seq(S) /\ Len(w) = n - 1
      /\ \A i \in 1 .. (n - 1) : w[i] = ids[IF i < a THEN i ELSE i + 1]
  <2>1. /\ w \in Seq(S) /\ Len(w) = Len(s1) + Len(s2)
        /\ \A i \in 1 .. (Len(s1) + Len(s2)) :
             w[i] = IF i <= Len(s1) THEN s1[i] ELSE s2[i - Len(s1)]
    BY <1>2, <1>3, ConcatProperties
  <2> HIDE DEF w
  <2>2. Len(w) = n - 1
    BY <1>1, <1>2, <1>3, <2>1
  <2>3. ASSUME NEW i \in 1 .. (n - 1)
        PROVE  w[i] = ids[IF i < a THEN i ELSE i + 1]
    <3> i \in 1 .. (Len(s1) + Len(s2)) /\ i \in Nat /\ a \in Nat
      BY <1>1, <1>2, <1>3
    <3>0. w[i] = IF i <= a - 1 THEN s1[i] ELSE s2[i - (a - 1)]
      BY <1>2, <2>1
    <3>1. CASE i < a
      <4>1. i \in 1 .. (a - 1)
        BY <3>1
      <4> QED
        BY <1>2, <3>0, <3>1, <4>1
    <3>2. CASE i >= a
      <4>1. w[i] = s2[i - (a - 1)] /\ i - (a - 1) \in 1 .. (n - a)
        BY <1>1, <3>0, <3>2
      <4>2. a + (i - (a - 1)) = i + 1
        BY <1>1
      <4> QED
        BY <1>3, <3>2, <4>1, <4>2
    <3> QED
      BY <1>1, <3>1, <3>2
  <2> QED
    BY <2>1, <2>2, <2>3
<1>5. Ext!RemoveAt(ids, a) = w
  BY DEF Ext!RemoveAt, s1, s2
<1>6. Ext!InsertAt(w, b, x) = q
  BY <1>4 DEF Ext!InsertAt
<1> HIDE DEF w
<1>7. \A i \in 1 .. (n - 1) : w[i] \in S
  BY <1>4, LenProperties
<1>8. /\ t1 \in Seq(S) /\ Len(t1) = b - 1
      /\ \A i \in 1 .. (b - 1) : t1[i] = w[i]
  <2>1. /\ t1 \in Seq(S) /\ Len(t1) = IF 1 <= b - 1 THEN (b - 1) - 1 + 1 ELSE 0
        /\ \A i \in 1 .. ((b - 1) - 1 + 1) : t1[i] = w[1 + i - 1]
    BY <1>1, <1>7, SubSeqProperties
  <2> HIDE DEF t1
  <2> QED
    BY <1>1, <2>1
<1>9. /\ t2 \in Seq(S) /\ Len(t2) = n - b
      /\ \A i \in 1 .. (n - b) : t2[i] = w[b + i - 1]
  <2>1. /\ t2 \in Seq(S) /\ Len(t2) = IF b <= n - 1 THEN (n - 1) - b + 1 ELSE 0
        /\ \A i \in 1 .. ((n - 1) - b + 1) : t2[i] = w[b + i - 1]
    BY <1>1, <1>7, SubSeqProperties
  <2> HIDE DEF t2
  <2> QED
    BY <1>1, <2>1
<1> HIDE DEF t1, t2
<1>10. /\ u \in Seq(S) /\ Len(u) = b
       /\ \A i \in 1 .. b : u[i] = IF i < b THEN w[i] ELSE x
  <2>1. <<x>> \in Seq(S) /\ Len(<<x>>) = 1 /\ <<x>>[1] = x
    OBVIOUS
  <2>2. /\ u \in Seq(S) /\ Len(u) = Len(t1) + Len(<<x>>)
        /\ \A i \in 1 .. (Len(t1) + Len(<<x>>)) :
             u[i] = IF i <= Len(t1) THEN t1[i] ELSE <<x>>[i - Len(t1)]
    BY <1>8, <2>1, ConcatProperties
  <2> HIDE DEF u
  <2> QED
    BY <1>8, <2>1, <2>2
<1> HIDE DEF u
<1>11. /\ q \in Seq(S) /\ Len(q) = n
       /\ \A i \in 1 .. n : q[i] = IF i <= b THEN u[i] ELSE t2[i - b]
  <2>1. /\ q \in Seq(S) /\ Len(q) = Len(u) + Len(t2)
        /\ \A i \in 1 .. (Len(u) + Len(t2)) :
             q[i] = IF i <= Len(u) THEN u[i] ELSE t2[i - Len(u)]
    BY <1>9, <1>10, ConcatProperties
  <2> HIDE DEF q
  <2> QED
    BY <1>1, <1>9, <1>10, <2>1
<1> HIDE DEF q
<1>12. ASSUME NEW i \in 1 .. n
       PROVE  q[i] = ids[Origin(i, a, b)]
  <2>1. CASE i = b
    BY <1>0, <1>10, <1>11, <2>1 DEF Origin
  <2>2. CASE i < b
    BY <1>1, <1>4, <1>10, <1>11, <2>2 DEF Origin
  <2>3. CASE i > b
    <3>1. q[i] = w[i - 1]
      BY <1>1, <1>9, <1>11, <2>3
    <3> QED
      BY <1>1, <1>4, <2>3, <3>1 DEF Origin
  <2> QED
    BY <1>1, <2>1, <2>2, <2>3
<1> QED
  BY <1>0, <1>4, <1>5, <1>6, <1>11, <1>12 DEF Shifted


\* One element takes the b-th place, and the others keep their order: o[i] is
\* where the i-th element was.
Reordered(q, ids, b) ==
  \E o \in [1 .. Len(ids) -> 1 .. Len(ids)] :
    /\ \A i \in 1 .. Len(ids) : q[i] = ids[o[i]]
    /\ \A i, k \in 1 .. Len(ids) : i # b /\ k # b /\ i < k => o[i] < o[k]

LEMMA ReorderMoves ==
  ASSUME NEW S, NEW ids, Enumerates(ids, S),
         NEW a \in 1 .. Len(ids), NEW b \in 1 .. Len(ids), a # b,
         NEW v, v = ReorderIds(ids, ids[a], ids[b])
  PROVE  Enumerates(v, S) /\ Len(v) = Len(ids) /\ v[b] = ids[a] /\ Reordered(v, ids, b)
<1>1. /\ ids \in Seq(S) /\ Len(ids) \in Nat /\ DOMAIN ids = 1 .. Len(ids)
      /\ Members(ids) = S
      /\ \A i, k \in 1 .. Len(ids) : ids[i] = ids[k] => i = k
      /\ \A i \in 1 .. Len(ids) : ids[i] \in S
  BY DEF Enumerates
<1>0. PICK q : q = Ext!InsertAt(Ext!RemoveAt(ids, a), b, ids[a])
  OBVIOUS
<1> DEFINE n == Len(ids)
           at(y) == CHOOSE i \in DOMAIN ids : ids[i] = y
           o == [i \in 1 .. n |-> Origin(i, a, b)]
<1>2. \A i \in 1 .. n : at(ids[i]) = i
  BY <1>1
<1>3. /\ Len(Ext!RemoveAt(ids, a)) = n - 1
      /\ q \in Seq(S) /\ Len(q) = n
      /\ \A i \in 1 .. n : q[i] = ids[Origin(i, a, b)]
  <2>1. /\ Len(Ext!RemoveAt(ids, a)) = n - 1
        /\ q \in Seq(S) /\ Len(q) = n /\ Shifted(q, ids, a, b)
    <3>1. ids \in Seq(S)
      BY <1>1
    <3> HIDE DEF n
    <3>2. /\ Len(Ext!RemoveAt(ids, a)) = Len(ids) - 1
          /\ q \in Seq(S) /\ Len(q) = Len(ids) /\ Shifted(q, ids, a, b)
      BY <1>0, <3>1, RemoveInsert
    <3> QED
      BY <3>2 DEF n
  <2> QED
    BY <2>1 DEF Shifted
<1>4. ReorderIds(ids, ids[a], ids[b]) = q
  <2>1. /\ ids[a] \in Members(ids) /\ at(ids[a]) = a /\ at(ids[b]) = b
        /\ ~(b > Len(Ext!RemoveAt(ids, a)) + 1)
    BY <1>1, <1>2, <1>3
  <2> QED
    BY <1>0, <2>1 DEF ReorderIds
<1> HIDE DEF at
<1>5. /\ o \in [1 .. n -> 1 .. n] /\ o[b] = a
      /\ \A i, k \in 1 .. n : i # b /\ k # b /\ i < k => o[i] < o[k]
  BY <1>1 DEF Origin
<1>6. \A i \in 1 .. n : q[i] = ids[o[i]]
  BY <1>1, <1>3
<1>7. ASSUME NEW j \in 1 .. n
      PROVE  \E i \in 1 .. n : o[i] = j
  <2>1. CASE j = a
    BY <1>5, <2>1
  <2>2. CASE j < a /\ j < b
    BY <1>1, <2>2 DEF Origin
  <2>3. CASE j < a /\ j >= b
    <3>1. j + 1 \in 1 .. n /\ o[j + 1] = j
      BY <1>1, <2>3 DEF Origin
    <3> QED
      BY <3>1
  <2>4. CASE j > a /\ j <= b
    <3>1. j - 1 \in 1 .. n /\ o[j - 1] = j
      BY <1>1, <2>4 DEF Origin
    <3> QED
      BY <3>1
  <2>5. CASE j > a /\ j > b
    BY <1>1, <2>5 DEF Origin
  <2> QED
    BY <1>1, <2>1, <2>2, <2>3, <2>4, <2>5
<1>8. \A i, k \in 1 .. n : o[i] = o[k] => i = k
  BY <1>1 DEF Origin
<1> HIDE DEF o
<1>9. Enumerates(q, S)
  <2>1. q \in [1 .. n -> S] /\ DOMAIN q = 1 .. n
    BY <1>3, LenProperties
  <2>2. \A i, k \in 1 .. n : q[i] = q[k] => i = k
    BY <1>1, <1>5, <1>6, <1>8
  <2>3. Members(q) = S
    <3>1. Members(q) \subseteq S
      BY <2>1 DEF Members
    <3>2. ASSUME NEW y \in S PROVE y \in Members(q)
      <4>1. PICK j \in 1 .. n : ids[j] = y
        BY <1>1 DEF Members
      <4>2. PICK i \in 1 .. n : o[i] = j
        BY <1>7
      <4> QED
        BY <1>6, <2>1, <4>1, <4>2 DEF Members
    <3> QED
      BY <3>1, <3>2
  <2> QED
    BY <1>1, <1>3, <2>1, <2>2, <2>3 DEF Enumerates
<1>10. q[b] = ids[a]
  BY <1>3 DEF Origin
<1>11. Reordered(q, ids, b)
  BY <1>5, <1>6 DEF Reordered
<1> QED
  BY <1>3, <1>4, <1>9, <1>10, <1>11

-----------------------------------------------------------------------------
(* What a drop does to an order *)

LEMMA InOrderIff ==
  ASSUME NEW r \in [Items -> Row], NEW S \in SUBSET Items, NEW q, InOrder(r, q, S),
         NEW i \in 1 .. Len(q), NEW k \in 1 .. Len(q)
  PROVE  Before(r, q[i], q[k]) <=> i < k
<1>1. /\ q \in [1 .. Len(q) -> S] /\ Len(q) \in Nat
      /\ \A m, n \in 1 .. Len(q) : m < n => Before(r, q[m], q[n])
  BY DEF InOrder, Enumerates
<1>2. q[i] \in Items /\ q[k] \in Items
  BY <1>1
<1>3. CASE i < k
  BY <1>1, <1>3
<1>4. CASE k < i
  <2>1. Before(r, q[k], q[i])
    BY <1>1, <1>4
  <2>2. ~Before(r, q[i], q[k])
    BY <1>2, <2>1, BeforeIsOrder
  <2> QED
    BY <1>1, <1>4, <2>2
<1>5. CASE i = k
  BY <1>1, <1>2, <1>5, BeforeIsOrder
<1> QED
  BY <1>1, <1>3, <1>4, <1>5

\* Rows that were numbered in the order of a list are in that order.
LEMMA Numbered ==
  ASSUME NEW r, NEW q, NEW S, Enumerates(q, S),
         \A i \in 1 .. Len(q) : r[q[i]].position = i - 1
  PROVE  InOrder(r, q, S)
BY DEF Enumerates, InOrder, Before

NumberedBy(w, q) == \A i \in DOMAIN q : w[q[i]].position = i - 1
SameOrder(r, w, S) == \A y, z \in S : Before(w, y, z) <=> Before(r, y, z)

\* What a drop does to the siblings of the dropped row.
DropIn(r, kids, x, target, q) ==
  /\ kids \in SUBSET Items /\ x \in kids /\ target \in kids /\ x # target
  /\ q = ReorderIds(Sorted(r, kids), x, target)

LEMMA DropMembers ==
  ASSUME NEW r \in [Items -> Row], NEW kids, NEW x, NEW target, NEW q,
         DropIn(r, kids, x, target, q)
  PROVE  Members(q) = kids
<1>1. /\ kids \in SUBSET Items /\ x \in kids /\ target \in kids /\ x # target
      /\ q = ReorderIds(Sorted(r, kids), x, target)
  BY DEF DropIn
<1>2. PICK ids : ids = Sorted(r, kids) /\ InOrder(r, ids, kids)
  BY <1>1, SortedInOrder
<1>3. Enumerates(ids, kids) /\ Members(ids) = kids /\ DOMAIN ids = 1 .. Len(ids)
  BY <1>2 DEF InOrder, Enumerates
<1>4. PICK a \in 1 .. Len(ids) : ids[a] = x
  BY <1>1, <1>3 DEF Members
<1>5. PICK b \in 1 .. Len(ids) : ids[b] = target
  BY <1>1, <1>3 DEF Members
<1>6. a # b
  BY <1>1, <1>4, <1>5
<1>7. q = ReorderIds(ids, ids[a], ids[b])
  BY <1>1, <1>2, <1>4, <1>5
<1>8. Enumerates(q, kids)
  BY <1>3, <1>6, <1>7, ReorderMoves
<1> QED
  BY <1>8 DEF Enumerates

\* kids are the children of p in r, and in w, where they are numbered by q.
Refiled(r, w, K, p, kids, q) ==
  /\ kids = Kids(r, K, p)
  /\ kids = Kids(w, K, p) /\ NumberedBy(w, q)

LEMMA DropOrders ==
  ASSUME NEW r \in [Items -> Row], NEW w \in [Items -> Row],
         NEW K \in {Folders, Jobs}, NEW p, NEW kids, NEW x, NEW target, NEW q,
         DropIn(r, kids, x, target, q),
         Refiled(r, w, K, p, kids, q)
  PROVE  Rank(w, x) = Rank(r, target) /\ SameOrder(r, w, kids \ {x})
<1>1. /\ kids \in SUBSET Items /\ x \in kids /\ target \in kids /\ x # target
      /\ q = ReorderIds(Sorted(r, kids), x, target)
  BY DEF DropIn
<1>2. PICK ids : ids = Sorted(r, kids) /\ InOrder(r, ids, kids)
  BY <1>1, SortedInOrder
<1>3. /\ Enumerates(ids, kids) /\ Members(ids) = kids /\ DOMAIN ids = 1 .. Len(ids)
      /\ Len(ids) \in Nat
  BY <1>2 DEF InOrder, Enumerates
<1>4. PICK a \in 1 .. Len(ids) : ids[a] = x
  BY <1>1, <1>3 DEF Members
<1>5. PICK b \in 1 .. Len(ids) : ids[b] = target
  BY <1>1, <1>3 DEF Members
<1>6. a # b
  BY <1>1, <1>4, <1>5
<1>7. q = ReorderIds(ids, ids[a], ids[b])
  BY <1>1, <1>2, <1>4, <1>5
<1>8. Enumerates(q, kids) /\ Len(q) = Len(ids) /\ q[b] = x /\ Reordered(q, ids, b)
  <2>1. Enumerates(ids, kids)
    BY <1>3
  <2>2. Enumerates(q, kids) /\ Len(q) = Len(ids) /\ q[b] = ids[a] /\ Reordered(q, ids, b)
    BY <1>6, <1>7, <2>1, ReorderMoves
  <2> QED
    BY <1>4, <2>2
<1>9. Members(q) = kids /\ DOMAIN q = 1 .. Len(ids)
      /\ \A i, k \in 1 .. Len(ids) : q[i] = q[k] => i = k
  BY <1>8 DEF Enumerates
<1>10. Rank(r, ids[b]) = b - 1
  <2>1. kids = Kids(r, K, p)
    BY DEF Refiled
  <2> QED
    BY <1>2, <2>1, RankInOrder
<1>11. Rank(w, x) = Rank(r, target) /\ SameOrder(r, w, kids \ {x})
  <2>0. kids = Kids(w, K, p) /\ NumberedBy(w, q)
    BY DEF Refiled
  <2>1. InOrder(w, q, kids)
    BY <1>8, <1>9, <2>0, Numbered DEF NumberedBy
  <2>2. Rank(w, q[b]) = b - 1
    BY <1>8, <2>0, <2>1, RankInOrder
  <2>4. PICK o \in [1 .. Len(ids) -> 1 .. Len(ids)] :
           /\ \A i \in 1 .. Len(ids) : q[i] = ids[o[i]]
           /\ \A i, k \in 1 .. Len(ids) : i # b /\ k # b /\ i < k => o[i] < o[k]
    BY <1>8 DEF Reordered
  <2>5. ASSUME NEW y \in kids \ {x}, NEW z \in kids \ {x}
        PROVE  Before(w, y, z) <=> Before(r, y, z)
    <3>1. PICK i \in 1 .. Len(ids) : q[i] = y
      BY <1>9 DEF Members
    <3>2. PICK k \in 1 .. Len(ids) : q[k] = z
      BY <1>9 DEF Members
    <3>3. i # b /\ k # b
      BY <1>8, <3>1, <3>2
    <3>4. Before(w, y, z) <=> i < k
      BY <1>1, <1>8, <2>1, <3>1, <3>2, InOrderIff
    <3>5. o[i] \in 1 .. Len(ids) /\ o[k] \in 1 .. Len(ids) /\ y = ids[o[i]] /\ z = ids[o[k]]
      BY <2>4, <3>1, <3>2
    <3>6. Before(r, y, z) <=> o[i] < o[k]
      BY <1>1, <1>2, <3>5, InOrderIff
    <3>7. i < k <=> o[i] < o[k]
      <4>1. i < k => o[i] < o[k]
        BY <2>4, <3>3
      <4>2. k < i => o[k] < o[i]
        BY <2>4, <3>3
      <4>3. i = k => o[i] = o[k]
        OBVIOUS
      <4> QED
        BY <1>3, <3>5, <4>1, <4>2, <4>3
    <3> QED
      BY <3>4, <3>6, <3>7
  <2> QED
    BY <1>5, <1>8, <1>10, <2>2, <2>5 DEF SameOrder
<1> QED
  BY <1>11

\* A list that is sent back as it was changes no order.
LEMMA SameListSameOrder ==
  ASSUME NEW r \in [Items -> Row], NEW w \in [Items -> Row], NEW S \in SUBSET Items,
         NEW q, q = Sorted(r, S), NumberedBy(w, q)
  PROVE  SameOrder(r, w, S)
<1>1. InOrder(r, q, S)
  BY SortedInOrder
<1>2. Enumerates(q, S) /\ DOMAIN q = 1 .. Len(q) /\ Members(q) = S
  BY <1>1 DEF InOrder, Enumerates
<1>3. InOrder(w, q, S)
  BY <1>2, Numbered DEF NumberedBy
<1> SUFFICES ASSUME NEW y \in S, NEW z \in S PROVE Before(w, y, z) <=> Before(r, y, z)
  BY DEF SameOrder
<1>4. PICK i \in 1 .. Len(q) : q[i] = y
  BY <1>2 DEF Members
<1>5. PICK k \in 1 .. Len(q) : q[k] = z
  BY <1>2 DEF Members
<1> QED
  BY <1>1, <1>3, <1>4, <1>5, InOrderIff

-----------------------------------------------------------------------------
(* What a selection holds *)

\* selectionItems, as a set: the chosen rows that are shown, but for the jobs
\* inside a chosen folder.
Picked(r, S) ==
  LET F == Live(r) \cap S \cap Folders
  IN  F \cup ((Live(r) \cap S \cap Jobs) \ JobsInFolders(r, F))

\* A folder below a selected one is below one that no other contains.
LEMMA TopCovers ==
  ASSUME Grounded(rows), NEW M, NEW m \in M \cap Folders, NEW x \in Below(rows, m)
  PROVE  \E g \in TopFolders(M) : x \in Below(rows, g)
<1> DEFINE topped(y) == \E g \in TopFolders(M) : y \in Below(rows, g)
           S == {Root} \cup
                {y \in Items : (\E h \in M \cap Folders : y \in Below(rows, h)) => topped(y)}
<1>1. S \in SUBSET (Items \cup {Root}) /\ Root \in S
  OBVIOUS
<1>2. ASSUME NEW y \in Items, rows[y].parent \in S, NEW h \in M \cap Folders,
             y \in Below(rows, h)
      PROVE  topped(y)
  <2>1. y \in Folders
    BY <1>2, BelowSelf
  <2>2. ASSUME NEW k \in M \cap Folders, y \in Below(rows, k), y # k
        PROVE  topped(y)
    <3>1. rows[y].state = "live" /\ rows[y].parent \in Below(rows, k)
      BY <2>2, BelowInversion
    <3>2. rows[y].parent \in Folders /\ rows[y].parent # Root
      BY <3>1, BelowSelf, Ids
    <3>3. PICK g \in TopFolders(M) : rows[y].parent \in Below(rows, g)
      BY <1>2, <3>1, <3>2
    <3>4. g \in Folders
      BY DEF TopFolders
    <3> QED
      BY <2>1, <3>1, <3>3, <3>4, BelowStep
  <2>3. ASSUME \A k \in M \cap Folders : y \in Below(rows, k) => y = k
        PROVE  topped(y)
    <3>1. y \in TopFolders(M)
      BY <1>2, <2>3 DEF TopFolders
    <3> QED
      BY <2>1, <3>1, BelowSelf
  <2> QED
    BY <2>2, <2>3
<1>3. \A y \in Items : rows[y].parent \in S => y \in S
  BY <1>2
<1>4. Items \subseteq S
  <2> HIDE DEF S
  <2> QED
    BY <1>1, <1>3 DEF Grounded
<1>5. x \in Items /\ x # Root
  BY BelowSelf, Ids
<1> QED
  BY <1>4, <1>5

LEMMA PickedIs ==
  ASSUME NEW r, NEW S
  PROVE  /\ Picked(r, S) \subseteq Live(r) \cap S
         /\ Picked(r, S) \cap Folders = Live(r) \cap S \cap Folders
         /\ \A j \in Live(r) \cap S \cap Jobs :
              j \in Picked(r, S) <=>
                ~\E f \in Live(r) \cap S \cap Folders : r[j].parent \in Below(r, f)
<1>1. Live(r) \subseteq Items
  BY DEF Live
<1> QED
  BY <1>1, Ids DEF Picked, JobsInFolders

\* What is deleted with the picked rows is what is inside the chosen ones.
LEMMA TakenIsInside ==
  ASSUME Grounded(rows), NEW C, NEW y \in Live(rows)
  PROVE  (\E x \in TopItems(Picked(rows, C)) : y \in Bundle(x))
           <=> y \in Inside(C \cap Live(rows))
<1> DEFINE M == Picked(rows, C)
           S == C \cap Live(rows)
<1>0. y \in Items /\ rows[y].state = "live" /\ S \subseteq Items
  BY DEF Live
<1>1. ASSUME NEW x \in TopItems(M), y \in Bundle(x)
      PROVE  y \in Inside(S)
  <2>1. x \in S /\ x \in Items
    BY PickedIs, TopItemsSelected
  <2>2. CASE x \in Jobs
    BY <1>1, <2>1, <2>2 DEF Bundle, Inside
  <2>3. CASE x \in Folders
    <3>1. y \in Below(rows, x) \/ rows[y].parent \in Below(rows, x)
      BY <1>1, <2>3, Ids DEF Bundle
    <3>2. y = x \/ rows[y].parent \in Below(rows, x)
      BY <2>3, <3>1, BelowInversion
    <3> QED
      BY <2>1, <2>3, <3>2 DEF Inside
  <2> QED
    BY <2>1, <2>2, <2>3, Ids DEF Items
<1>2. ASSUME NEW f \in S \cap Folders, y \in Below(rows, f) \/ rows[y].parent \in Below(rows, f)
      PROVE  \E x \in TopItems(M) : y \in Bundle(x)
  <2>1. f \in M \cap Folders
    BY PickedIs
  <2>2. PICK h \in Below(rows, f) : h \in {y, rows[y].parent}
    BY <1>2
  <2>3. PICK g \in TopFolders(M) : h \in Below(rows, g)
    BY <2>1, TopCovers
  <2>4. g \in TopItems(M) /\ g \in Folders
    BY TopItemsSelected
  <2> QED
    BY <2>2, <2>3, <2>4, Ids DEF Bundle
<1>3. ASSUME y \in S \cap Jobs, ~\E f \in S \cap Folders : rows[y].parent \in Below(rows, f)
      PROVE  \E x \in TopItems(M) : y \in Bundle(x)
  <2>1. y \in M \cap Jobs
    BY <1>3, PickedIs
  <2>2. rows[y].parent \notin Covered(M)
    <3>1. \A f \in TopFolders(M) : f \in S \cap Folders
      BY PickedIs DEF TopFolders
    <3> QED
      BY <1>3, <3>1 DEF Covered
  <2>3. y \in TopItems(M)
    BY <2>1, <2>2 DEF TopItems
  <2> QED
    BY <2>1, <2>3 DEF Bundle
<1>4. ASSUME y \in Inside(S)
      PROVE  \E x \in TopItems(M) : y \in Bundle(x)
  <2>1. CASE \E f \in S \cap Folders : rows[y].parent \in Below(rows, f)
    BY <1>2, <2>1
  <2>2. CASE y \in S /\ y \in Folders
    BY <1>2, <2>2, BelowSelf
  <2>3. CASE y \in S /\ y \in Jobs
    BY <1>2, <1>3, <2>3
  <2> QED
    BY <1>0, <1>4, <2>1, <2>2, <2>3 DEF Inside, Items
<1> QED
  BY <1>1, <1>4

LEMMA TopIsOutermost ==
  ASSUME NEW C
  PROVE  TopItems(Picked(rows, C)) = Outermost(C \cap Live(rows))
<1> DEFINE M == Picked(rows, C)
           S == C \cap Live(rows)
<1>0. S \subseteq Items /\ \A x \in S : rows[x].state = "live"
  BY DEF Live
<1>1. M \subseteq S /\ M \cap Folders = S \cap Folders
  BY PickedIs
<1>2. ASSUME NEW x \in S \cap Folders
      PROVE  x \in TopItems(M) <=> x \in Outermost(S)
  <2>1. x \in TopItems(M) <=> \A g \in S \cap Folders : x # g => x \notin Below(rows, g)
    BY <1>1, TopItemsSelected DEF TopFolders
  <2>2. \A g \in S \cap Folders :
          x # g => (x \in Below(rows, g) <=> rows[x].parent \in Below(rows, g))
    BY <1>0, BelowStep, BelowInversion
  <2>3. x \in Outermost(S) <=>
          ~\E f \in (S \ {x}) \cap Folders : rows[x].parent \in Below(rows, f)
    BY <1>0 DEF Outermost, Inside, Live
  <2> QED
    BY <2>1, <2>2, <2>3
<1>3. ASSUME NEW x \in S \cap Jobs
      PROVE  x \in TopItems(M) <=> x \in Outermost(S)
  <2>1. x \in M <=> ~\E f \in S \cap Folders : rows[x].parent \in Below(rows, f)
    BY PickedIs
  <2>2. x \in TopItems(M) <=> x \in M
    <3>1. x \in TopItems(M) => x \in M
      BY TopItemsSelected
    <3>2. ASSUME x \in M PROVE x \in TopItems(M)
      <4>1. \A f \in TopFolders(M) : f \in S \cap Folders
        BY <1>1 DEF TopFolders
      <4>2. rows[x].parent \notin Covered(M)
        BY <2>1, <3>2, <4>1 DEF Covered
      <4> QED
        BY <3>2, <4>2 DEF TopItems
    <3> QED
      BY <3>1, <3>2
  <2>3. x \in Outermost(S) <=>
          ~\E f \in (S \ {x}) \cap Folders : rows[x].parent \in Below(rows, f)
    BY <1>0 DEF Outermost, Inside, Live
  <2>4. x \notin Folders
    BY <1>0, Ids
  <2> QED
    BY <2>1, <2>2, <2>3, <2>4
<1>4. TopItems(M) \subseteq S /\ Outermost(S) \subseteq S
  BY <1>1, TopItemsSelected DEF Outermost
<1> QED
  BY <1>0, <1>2, <1>3, <1>4 DEF Items

-----------------------------------------------------------------------------
(* The server does what is meant, command by command *)

LEMMA SoundRows ==
  ASSUME Sound(rows, trash)
  PROVE  /\ rows \in [Items -> Row] /\ trash \in [Items -> Places \cup {NoEntry}]
         /\ Marked(rows) /\ Grounded(rows)
         /\ \A x \in Items : /\ DOMAIN rows[x] = {"state", "parent", "position", "entry"}
                             /\ rows[x] \in Row
<1>1. /\ rows \in [Items -> Row] /\ trash \in [Items -> Places \cup {NoEntry}]
      /\ Marked(rows) /\ Grounded(rows)
  BY DEF Sound
<1> QED
  BY <1>1 DEF Row

LEMMA ReindexKeeps ==
  ASSUME NEW r, NEW A, NEW B, NEW x \in Items, {"state", "parent"} \subseteq DOMAIN r[x]
  PROVE  /\ Reindex(r, A, B)[x].state = r[x].state
         /\ Reindex(r, A, B)[x].parent = r[x].parent
BY DEF Reindex

LEMMA DeleteAsMeant ==
  ASSUME Sound(rows, trash), NEW c, c.op = "delete",
         Members(c.items) = Picked(rows, c.chosen), Delete(Members(c.items))
  PROVE  Meant(c)
<1> DEFINE S == c.chosen \cap Live(rows)
           M == Members(c.items)
           In(y) == \E x \in TopItems(M) : y \in Bundle(x)
           rootOf(y) == CHOOSE x \in TopItems(M) : y \in Bundle(x)
           v(y) == [rows[y] EXCEPT !.state = "trashed", !.entry = rootOf(y)]
<1>1. \A x \in Items : rows[x] \in Row
  BY SoundRows
<1>2. rows' = [y \in Items |-> IF In(y) THEN v(y) ELSE rows[y]]
  BY DEF Delete
<1>3. \A y \in Items : v(y).state = "trashed" /\ v(y).parent = rows[y].parent
  <2> HIDE DEF rootOf
  <2> QED
    BY <1>1 DEF Row
<1> HIDE DEF v
<1>4. \A y \in Live(rows) : In(y) <=> y \in Inside(S)
  BY SoundRows, TakenIsInside
<1> HIDE DEF In
<1>5. \A y \in Items : /\ rows'[y].state = IF In(y) THEN "trashed" ELSE rows[y].state
                       /\ rows'[y].parent = rows[y].parent
  BY <1>2, <1>3
<1>6. Live(rows') = Live(rows) \ Inside(S)
  BY <1>4, <1>5 DEF Live
<1>7. \A y \in Live(rows') \ {} : rows'[y].parent = rows[y].parent
  BY <1>5 DEF Live
<1> QED
  BY <1>6, <1>7 DEF Meant

LEMMA LiftAsMeant ==
  ASSUME Sound(rows, trash), NEW c, c.op = "lift", NEW f \in Folders,
         rows[f].state = "live", c.chosen = {f}, DeleteFolderOnly(f)
  PROVE  Meant(c)
<1> DEFINE p == rows[f].parent
           moved(x) == rows[x].state = "live" /\ rows[x].parent = f
           n(x) == NextPosition(rows, KindOf(x), p) + Rank(rows, x)
           lifted == [x \in Items |->
             IF x = f THEN [rows[f] EXCEPT !.state = "trashed", !.entry = f]
             ELSE IF moved(x) THEN [rows[x] EXCEPT !.parent = p, !.position = n(x)]
             ELSE rows[x]]
<1>1. \A x \in Items : rows[x] \in Row
  BY SoundRows
<1>2. rows' = Reindex(lifted, {p}, {p})
  BY DEF DeleteFolderOnly
<1> HIDE DEF n
<1>3. ASSUME NEW x \in Items
      PROVE  /\ DOMAIN lifted[x] = {"state", "parent", "position", "entry"}
             /\ lifted[x].state = IF x = f THEN "trashed" ELSE rows[x].state
             /\ x # f => lifted[x].parent = IF moved(x) THEN p ELSE rows[x].parent
  BY <1>1 DEF Row
<1> HIDE DEF lifted
<1>4. \A x \in Items : rows'[x].state = lifted[x].state /\ rows'[x].parent = lifted[x].parent
  BY <1>2, <1>3, ReindexKeeps
<1>5. c.chosen \cap Live(rows) = {f} /\ f \in Items
  BY Ids DEF Live
<1>6. Live(rows') = Live(rows) \ {f}
  BY <1>3, <1>4 DEF Live
<1>7. \A y \in Live(rows') :
        rows'[y].parent = IF rows[y].parent = f THEN rows[f].parent ELSE rows[y].parent
  BY <1>3, <1>4, <1>6 DEF Live
<1> QED
  BY <1>5, <1>6, <1>7 DEF Meant

LEMMA CreateAsMeant ==
  ASSUME Sound(rows, trash), NEW c, NEW z \in Items,
         c.op = "create folder" \/ c.op = "create job", Create(z, c.place)
  PROVE  Meant(c)
<1> DEFINE w == [state |-> "live", parent |-> c.place, entry |-> NoEntry,
                 position |-> NextPosition(rows, KindOf(z), c.place)]
<1>1. rows[z].state = "new" /\ rows' = [rows EXCEPT ![z] = w]
  BY DEF Create
<1>2. w.state = "live" /\ w.parent = c.place
  OBVIOUS
<1> HIDE DEF w
<1>3. \A x \in Items : rows'[x] = IF x = z THEN w ELSE rows[x]
  BY <1>1, SoundRows
<1>4. /\ Live(rows') = Live(rows) \cup {z} /\ z \notin Live(rows)
      /\ rows'[z].parent = c.place
      /\ \A y \in Live(rows') \ {z} : rows'[y].parent = rows[y].parent
  BY <1>1, <1>2, <1>3 DEF Live
<1> QED
  BY <1>4 DEF Meant

LEMMA RestoreAsMeant ==
  ASSUME Sound(rows, trash), NEW c, c.op = "restore", Members(c.items) = c.chosen,
         Restore(c.items)
  PROVE  Meant(c)
<1> DEFINE E == Members(c.items)
           fellows(x) == {y \in E \cap KindOf(x) : Target(E, y) = Target(E, x)}
           n(x) == NextPosition(rows, KindOf(x), Target(E, x)) + Offset(c.items, fellows(x), x)
           back == [x \in Items |->
             IF x \in E
             THEN [Revived(rows[x]) EXCEPT !.parent = Target(E, x), !.position = n(x)]
             ELSE IF rows[x].entry \in E THEN Revived(rows[x]) ELSE rows[x]]
           targets(K) == {Target(E, x) : x \in E \cap K}
<1>1. \A x \in Items : rows[x] \in Row
  BY SoundRows
<1>2. /\ rows' = Reindex(back, targets(Folders), targets(Jobs))
      /\ E \subseteq Entries /\ \A x \in E : rows[x].entry = x
  BY DEF Restore
<1> HIDE DEF n, E, targets
<1>3. ASSUME NEW x \in Items
      PROVE  /\ {"state", "parent"} \subseteq DOMAIN back[x]
             /\ back[x].state = IF x \in E \/ rows[x].entry \in E THEN "live" ELSE rows[x].state
  BY <1>1 DEF Row, Revived
<1> HIDE DEF back
<1>4. \A x \in Items : rows'[x].state = back[x].state
  BY <1>2, <1>3, ReindexKeeps
<1>5. Live(rows') = Live(rows) \cup {y \in Items : rows[y].entry \in E}
  BY <1>2, <1>3, <1>4 DEF Live, Entries
<1>6. c.chosen = E
  BY DEF E
<1> QED
  BY <1>5, <1>6 DEF Meant

LEMMA PurgeAsMeant ==
  ASSUME Sound(rows, trash), NEW c, c.op \in {"purge", "empty"}, Purge(c.chosen)
  PROVE  Meant(c)
<1> DEFINE E == c.chosen
<1>1. /\ E \subseteq Entries
      /\ rows' = [x \in Items |-> IF rows[x].entry \in E THEN NoRow("gone") ELSE rows[x]]
  BY DEF Purge
<1>2. NoRow("gone").state = "gone"
  BY DEF NoRow
<1>3. \A x \in Items : rows[x].entry \in E => rows[x].state = "trashed"
  BY <1>1, SoundRows, Ids DEF Marked, Entries
<1>4. {y \in Items : rows'[y].state = "gone" /\ rows[y].state # "gone"}
        = {y \in Items : rows[y].entry \in E}
  BY <1>1, <1>2, <1>3
<1> QED
  BY <1>4 DEF Meant

LEMMA MoveAsMeant ==
  ASSUME Sound(rows, trash), NEW c, c.op = "move", c.place \in Places,
         c.items \in Arrays(Items), Members(c.items) = Picked(rows, c.chosen),
         Move(c.items, c.place)
  PROVE  Meant(c)
<1> DEFINE S == c.chosen \cap Live(rows)
           p == c.place
           M == TopItems(Members(c.items))
           n(x) == NextPosition(rows, KindOf(x), p) + Offset(c.items, M \cap KindOf(x), x)
           v(x) == [rows[x] EXCEPT !.parent = p, !.position = n(x)]
           placed == [x \in Items |-> IF x \in M THEN v(x) ELSE rows[x]]
           sources(K) == {rows[x].parent : x \in M \cap K}
           A == {p} \cup sources(Folders)
           B == {p} \cup sources(Jobs)
<1>1. /\ rows \in [Items -> Row] /\ \A x \in Items : rows[x] \in Row
      /\ S \subseteq Items /\ \A x \in S : rows[x].state = "live"
  BY SoundRows DEF Live
<1>2. rows' = Reindex(placed, A, B)
  BY DEF Move
<1>3. M = Outermost(S) /\ M \subseteq S
  <2>1. M = Outermost(S)
    BY TopIsOutermost
  <2> QED
    BY <2>1 DEF Outermost
<1> HIDE DEF A, B, M, S
<1>4. ASSUME NEW x \in Items
      PROVE  /\ NextPosition(rows, KindOf(x), p) \in Nat
             /\ n(x) \in Nat /\ NextPosition(rows, KindOf(x), p) <= n(x)
             /\ \A y \in Kids(rows, KindOf(x), p) :
                  rows[y].position < NextPosition(rows, KindOf(x), p)
  <2>1. /\ NextPosition(rows, KindOf(x), p) \in Nat
        /\ \A y \in Kids(rows, KindOf(x), p) :
             rows[y].position < NextPosition(rows, KindOf(x), p)
    BY <1>1, NextPositionIsLast, Ids
  <2>2. Offset(c.items, M \cap KindOf(x), x) \in Nat
    BY ListMembers
  <2> QED
    BY <2>1, <2>2
<1> HIDE DEF n
<1>5. ASSUME NEW x \in Items
      PROVE  /\ placed[x] \in Row /\ placed[x].state = rows[x].state
             /\ placed[x].parent = IF x \in M THEN p ELSE rows[x].parent
             /\ x \in M => placed[x].position = n(x)
             /\ x \notin M => placed[x] = rows[x]
  <2>1. /\ v(x) \in Row /\ v(x).parent = p /\ v(x).state = rows[x].state
        /\ v(x).position = n(x)
    <3>1. rows[x] \in Row /\ n(x) \in Nat
      BY <1>1, <1>4
    <3> QED
      BY <3>1 DEF Row
  <2> HIDE DEF v
  <2> QED
    BY <1>1, <2>1
<1>6. placed \in [Items -> Row]
  <2>1. placed = [x \in Items |-> placed[x]]
    OBVIOUS
  <2> HIDE DEF placed
  <2> QED
    BY <1>5, <2>1
<1> HIDE DEF placed
<1>7. \A x \in Items : rows'[x].state = placed[x].state /\ rows'[x].parent = placed[x].parent
  BY <1>2, <1>6, ReindexNumbers DEF Alike
<1>8. Live(rows') = Live(rows)
  BY <1>5, <1>7 DEF Live
<1>9. \A y \in Live(rows') \ M : rows'[y].parent = rows[y].parent
  BY <1>5, <1>7 DEF Live
<1>10. ASSUME NEW x \in M
       PROVE  /\ rows'[x].parent = p
              /\ \A y \in Kids(rows, KindOf(x), p) \ S : Before(rows', y, x)
  <2>1. x \in Items /\ x \in S /\ placed[x].parent = p /\ placed[x].state = "live"
    BY <1>1, <1>3, <1>5
  <2>2. ASSUME NEW y \in Kids(rows, KindOf(x), p) \ S
        PROVE  Before(rows', y, x)
    <3>1. y \in Items /\ KindOf(y) = KindOf(x) /\ y \notin M
      BY <1>3, <2>1, Ids DEF Kids
    <3>2. placed[y] = rows[y] /\ rows[y].parent = p /\ rows[y].state = "live"
      BY <1>5, <3>1 DEF Kids
    <3>3. /\ rows[y].position < NextPosition(rows, KindOf(x), p)
          /\ NextPosition(rows, KindOf(x), p) <= n(x)
          /\ placed[x].position = n(x) /\ n(x) \in Nat
          /\ NextPosition(rows, KindOf(x), p) \in Nat
      BY <1>4, <1>5, <2>1
    <3>4. rows[y].position \in Nat
      BY <1>1, <3>1, RowFields
    <3>5. placed[y].position < placed[x].position
      BY <3>2, <3>3, <3>4
    <3>6. rows'[y].position < rows'[x].position
      BY <1>2, <1>6, <2>1, <3>1, <3>2, <3>5, ReindexOrders
    <3> QED
      BY <3>6 DEF Before
  <2> QED
    BY <1>7, <2>1, <2>2
<1>11. M = Outermost(c.chosen \cap Live(rows))
  BY <1>3 DEF S
<1> QED
  BY <1>8, <1>9, <1>10, <1>11 DEF Meant, S

LEMMA IdleAsMeant ==
  ASSUME NEW c, c.op \in {"move", "delete"}, c.items = <<>>,
         Members(c.items) = Picked(rows, c.chosen), rows' = rows
  PROVE  Meant(c)
<1> DEFINE S == c.chosen \cap Live(rows)
<1>1. Picked(rows, c.chosen) = {}
  BY DEF Members
<1>2. Live(rows) \cap c.chosen \cap Folders = {}
  BY <1>1, PickedIs
<1>3. S = {}
  BY <1>1, <1>2, PickedIs, Ids DEF Live, Items
<1>4. Inside(S) = {} /\ Outermost(S) = {}
  BY <1>3 DEF Inside, Outermost
<1> HIDE DEF S
<1>5. Live(rows') = Live(rows) /\ \A y \in Items : rows'[y].parent = rows[y].parent
  OBVIOUS
<1>6. c.op = "move" => Meant(c)
  BY <1>4, <1>5 DEF Meant, S, Live
<1>7. c.op = "delete" => Meant(c)
  BY <1>4, <1>5 DEF Meant, S, Live
<1> QED
  BY <1>6, <1>7

\* A drop of x on target, as the page sends it.
Dropped(c, x, target) ==
  LET listed(K) == Sorted(rows, Kids(rows, K, c.place))
      sent(K)   == IF target \in K THEN ReorderIds(listed(K), x, target) ELSE listed(K)
  IN  /\ c.chosen = {x} /\ c.at = target /\ x # target /\ KindOf(x) = KindOf(target)
      /\ target \in Kids(rows, Items, c.place) /\ IsPlace(c.place)
      /\ c.order.folders = sent(Folders) /\ c.order.jobs = sent(Jobs)

\* What the server makes of it.
Relisted(c) ==
  /\ Reorder(c.place)
  /\ \A s \in {c.order.folders, c.order.jobs} :
       \A i \in DOMAIN s : rows'[s[i]].position = i - 1

LEMMA ReorderAsMeant ==
  ASSUME Sound(rows, trash), NEW c, c.op = "reorder", c.place \in Places,
         NEW x \in Items, NEW target, Dropped(c, x, target), Accepts(c) => Relisted(c)
  PROVE  Meant(c)
<1> DEFINE p == c.place
           listed(K) == Sorted(rows, Kids(rows, K, p))
           sent(K) == IF target \in K THEN ReorderIds(listed(K), x, target) ELSE listed(K)
<1>1. /\ c.chosen = {x} /\ c.at = target /\ x # target /\ KindOf(x) = KindOf(target)
      /\ target \in Kids(rows, Items, p) /\ IsPlace(p)
      /\ c.order.folders = sent(Folders) /\ c.order.jobs = sent(Jobs)
  BY DEF Dropped
<1>2. CASE x \notin Kids(rows, Items, p)
  BY <1>1, <1>2 DEF Meant
<1>3. CASE x \in Kids(rows, Items, p)
  <2>1. PICK K \in {Folders, Jobs} : target \in K
    BY <1>1, Ids DEF Kids, Items
  <2>2. target \in Items /\ target \in Kids(rows, K, p) /\ x \in Kids(rows, K, p)
    BY <1>1, <1>3, <2>1, Ids DEF Kids
  <2>3. \A L \in {Folders, Jobs} : target \in L <=> L = K
    BY <2>1, <2>2, Ids
  <2>4. rows \in [Items -> Row]
    BY SoundRows
  <2>5. ASSUME NEW L \in {Folders, Jobs}
        PROVE  Members(sent(L)) = Kids(rows, L, p)
    <3>1. CASE L = K
      <4>1. sent(L) = ReorderIds(Sorted(rows, Kids(rows, K, p)), x, target)
        BY <2>1, <3>1
      <4>2. PICK q : q = sent(L)
        OBVIOUS
      <4>3. PICK kids : kids = Kids(rows, K, p)
        OBVIOUS
      <4>4. x \in kids /\ target \in kids /\ q = ReorderIds(Sorted(rows, kids), x, target)
        BY <2>2, <4>1, <4>2, <4>3
      <4>5. DropIn(rows, kids, x, target, q)
        BY <1>1, <4>3, <4>4, KidsFinite, Ids DEF DropIn
      <4>6. Members(q) = kids
        BY <2>4, <4>5, DropMembers
      <4> QED
        BY <3>1, <4>2, <4>3, <4>6
    <3>2. CASE L # K
      <4>1. sent(L) = Sorted(rows, Kids(rows, L, p))
        BY <2>3, <3>2
      <4>2. InOrder(rows, sent(L), Kids(rows, L, p))
        BY <2>4, <4>1, SortedInOrder, KidsFinite, Ids
      <4> QED
        BY <4>2 DEF InOrder, Enumerates
    <3> QED
      BY <3>1, <3>2
  <2>6. Accepts(c)
    BY <1>1, <2>5 DEF Accepts
  <2>7. /\ Reorder(p)
        /\ \A L \in {Folders, Jobs} : NumberedBy(rows', sent(L))
    BY <1>1, <2>6 DEF NumberedBy, Relisted
  <2>8. rows' \in [Items -> Row] /\ Alike(rows, rows')
    BY <2>7, ReorderSound DEF Sound
  <2>9. \A L \in {Folders, Jobs} : Kids(rows, L, p) = Kids(rows', L, p)
    BY <2>8, Ids DEF Kids, Alike
  <2>10. /\ Rank(rows', x) = Rank(rows, target)
         /\ SameOrder(rows, rows', Kids(rows, K, p) \ {x})
    <3>1. PICK q : q = ReorderIds(Sorted(rows, Kids(rows, K, p)), x, target)
      OBVIOUS
    <3>2. NumberedBy(rows', q)
      BY <2>1, <2>7, <3>1
    <3>3. PICK kids : kids = Kids(rows, K, p)
      OBVIOUS
    <3>4. kids = Kids(rows', K, p)
      BY <2>9, <3>3
    <3>5. /\ x \in kids /\ target \in kids /\ x # target
          /\ q = ReorderIds(Sorted(rows, kids), x, target)
      BY <1>1, <2>2, <3>1, <3>3
    <3>6. PICK w \in [Items -> Row] : w = rows'
      BY <2>8
    <3>7. DropIn(rows, kids, x, target, q) /\ Refiled(rows, w, K, p, kids, q)
      BY <3>2, <3>3, <3>4, <3>5, <3>6, KidsFinite, Ids DEF DropIn, Refiled
    <3>8. Rank(w, x) = Rank(rows, target) /\ SameOrder(rows, w, kids \ {x})
      BY <2>4, <3>6, <3>7, DropOrders
    <3> QED
      BY <3>3, <3>6, <3>8
  <2>11. ASSUME NEW L \in {Folders, Jobs}, L # K
         PROVE  SameOrder(rows, rows', Kids(rows, L, p))
    <3>1. PICK q : q = Sorted(rows, Kids(rows, L, p))
      OBVIOUS
    <3>2. NumberedBy(rows', q)
      BY <2>3, <2>7, <2>11, <3>1
    <3>3. Kids(rows, L, p) \in SUBSET Items
      BY KidsFinite, Ids
    <3> QED
      BY <2>4, <2>8, <3>1, <3>2, <3>3, SameListSameOrder
  <2>12. ASSUME NEW y \in Kids(rows, Items, p) \ {x}, NEW z \in Kids(rows, Items, p) \ {x},
                KindOf(y) = KindOf(z)
         PROVE  Before(rows', y, z) <=> Before(rows, y, z)
    <3>1. PICK L \in {Folders, Jobs} : y \in L
      BY Ids DEF Kids, Items
    <3>2. y \in Kids(rows, L, p) /\ z \in Kids(rows, L, p)
      BY <2>12, <3>1, Ids DEF Kids
    <3> QED
      BY <2>10, <2>11, <3>2 DEF SameOrder
  <2>13. c.chosen \cap Live(rows) \cap Kids(rows, Items, p) \subseteq {x}
    BY <1>1
  <2> QED
    BY <1>1, <2>10, <2>12, <2>13 DEF Meant
<1> QED
  BY <1>2, <1>3

-----------------------------------------------------------------------------
(* What the page sends *)

LEMMA JoinedMembers ==
  ASSUME NEW S, NEW a \in Seq(S), NEW b \in Seq(S)
  PROVE  a \o b \in Seq(S) /\ Members(a \o b) = Members(a) \cup Members(b)
<1>1. /\ a \o b \in Seq(S) /\ Len(a) \in Nat /\ Len(b) \in Nat
      /\ DOMAIN a = 1 .. Len(a) /\ DOMAIN b = 1 .. Len(b)
      /\ Len(a \o b) = Len(a) + Len(b) /\ DOMAIN (a \o b) = 1 .. (Len(a) + Len(b))
      /\ \A i \in 1 .. Len(a) + Len(b) :
           (a \o b)[i] = IF i <= Len(a) THEN a[i] ELSE b[i - Len(a)]
  BY ConcatProperties, LenProperties
<1>2. PICK w : w = a \o b
  OBVIOUS
<1>3. ASSUME NEW x \in Members(a) PROVE x \in Members(w)
  <2>1. PICK i \in 1 .. Len(a) : a[i] = x
    BY <1>1 DEF Members
  <2>2. i \in 1 .. (Len(a) + Len(b)) /\ w[i] = x
    BY <1>1, <1>2, <2>1
  <2> QED
    BY <1>1, <1>2, <2>2 DEF Members
<1>4. ASSUME NEW x \in Members(b) PROVE x \in Members(w)
  <2>1. PICK i \in 1 .. Len(b) : b[i] = x
    BY <1>1 DEF Members
  <2>2. /\ Len(a) + i \in 1 .. (Len(a) + Len(b)) /\ ~(Len(a) + i <= Len(a))
        /\ (Len(a) + i) - Len(a) = i
    BY <1>1
  <2>3. w[Len(a) + i] = x
    BY <1>1, <1>2, <2>1, <2>2
  <2> QED
    BY <1>1, <1>2, <2>2, <2>3 DEF Members
<1>5. ASSUME NEW x \in Members(w) PROVE x \in Members(a) \cup Members(b)
  <2>1. PICK i \in 1 .. (Len(a) + Len(b)) : w[i] = x
    BY <1>1, <1>2 DEF Members
  <2>2. CASE i <= Len(a)
    BY <1>1, <1>2, <2>1, <2>2 DEF Members
  <2>3. CASE ~(i <= Len(a))
    <3>1. i - Len(a) \in 1 .. Len(b) /\ b[i - Len(a)] = x
      BY <1>1, <1>2, <2>1, <2>3
    <3> QED
      BY <1>1, <3>1 DEF Members
  <2> QED
    BY <2>2, <2>3
<1> QED
  BY <1>1, <1>2, <1>3, <1>4, <1>5

\* A list of items, and what is in it.
ListOf(q, S) == q \in Seq(Items) /\ q \in Arrays(Items) /\ Members(q) = S

LEMMA SeqsAreArrays ==
  ASSUME NEW q \in Seq(Items)
  PROVE  q \in Arrays(Items)
BY LenProperties DEF Arrays

LEMMA SortedLists ==
  ASSUME NEW r \in [Items -> Row], NEW S \in SUBSET Items
  PROVE  ListOf(Sorted(r, S), S)
<1>1. Enumerates(Sorted(r, S), S)
  BY SortedInOrder DEF InOrder
<1>2. Sorted(r, S) \in Seq(Items)
  BY <1>1, SeqMonotonic DEF Enumerates
<1> QED
  BY <1>1, <1>2, SeqsAreArrays DEF ListOf, Enumerates

LEMMA JoinedLists ==
  ASSUME NEW a, NEW b, NEW S, NEW T, ListOf(a, S), ListOf(b, T)
  PROVE  ListOf(a \o b, S \cup T)
<1>1. a \in Seq(Items) /\ b \in Seq(Items) /\ Members(a) = S /\ Members(b) = T
  BY DEF ListOf
<1>2. a \o b \in Seq(Items) /\ Members(a \o b) = S \cup T
  BY <1>1, JoinedMembers
<1>3. a \o b \in Arrays(Items)
  BY <1>2, SeqsAreArrays
<1> QED
  BY <1>2, <1>3 DEF ListOf

LEMMA SingleList ==
  ASSUME NEW x \in Items
  PROVE  ListOf(<<x>>, {x})
<1>1. <<x>> \in Seq(Items) /\ Members(<<x>>) = {x}
  BY DEF Members
<1> QED
  BY <1>1, SeqsAreArrays DEF ListOf

LEMMA EmptyList == ListOf(<<>>, {})
<1>1. <<>> \in Seq(Items) /\ Members(<<>>) = {}
  BY DEF Members
<1> QED
  BY <1>1, SeqsAreArrays DEF ListOf

LEMMA SelectionList ==
  ASSUME NEW r \in [Items -> Row], NEW S
  PROVE  ListOf(SelectionItems(r, S), Picked(r, S))
<1> DEFINE F == Live(r) \cap S \cap Folders
           J == (Live(r) \cap S \cap Jobs) \ JobsInFolders(r, F)
<1>1. F \in SUBSET Items /\ J \in SUBSET Items
  BY DEF Live
<1>2. ListOf(Sorted(r, F), F) /\ ListOf(Sorted(r, J), J)
  BY <1>1, SortedLists
<1>3. ListOf(Sorted(r, F) \o Sorted(r, J), F \cup J)
  BY <1>2, JoinedLists
<1> QED
  BY <1>3 DEF SelectionItems, Picked

\* SetToSeq of the community modules.
LEMMA SetList ==
  ASSUME NEW S \in SUBSET Items
  PROVE  ListOf(Ext!SetToSeq(S), S)
<1> DEFINE n == Cardinality(S)
           q == Ext!SetToSeq(S)
<1>1. n \in Nat /\ IsFiniteSet(S)
  BY ItemsFinite
<1>2. PICK f : f \in Bijection(1 .. n, S)
  BY <1>1, FS_CardinalityType DEF ExistsBijection
<1>3. f \in [1 .. n -> S] /\ Ext!IsInjective(f)
  BY <1>2 DEF Bijection, Injection, IsInjective, Ext!IsInjective
<1>4. q = CHOOSE g \in [1 .. n -> S] : Ext!IsInjective(g)
  BY SameCardinality DEF Ext!SetToSeq
<1>5. q \in [1 .. n -> S] /\ Ext!IsInjective(q)
  BY <1>3, <1>4
<1> HIDE DEF q
<1>6. Enumerates(q, S)
  <2>1. \A i, k \in 1 .. n : q[i] = q[k] => i = k
    BY <1>5 DEF Ext!IsInjective
  <2> QED
    BY <1>5, <2>1, InjectiveLists
<1>7. q \in Seq(Items)
  BY <1>6, SeqMonotonic DEF Enumerates
<1> QED
  BY <1>6, <1>7, SeqsAreArrays DEF ListOf, Enumerates, q

\* Only live rows are listed.
LEMMA VisibleLive ==
  ASSUME NEW p, p.snap \in [Items -> Row]
  PROVE  Members(VisibleIds(p)) \subseteq Live(p.snap)
<1> DEFINE s == p.snap
           found == Live(s) \cap Found
           A == Kids(s, Folders, p.folder)
           B == Kids(s, Jobs, p.folder)
<1>1. /\ found \cap Folders \in SUBSET Items /\ found \cap Jobs \in SUBSET Items
      /\ A \in SUBSET Items /\ B \in SUBSET Items
      /\ A \subseteq Live(s) /\ B \subseteq Live(s) /\ found \subseteq Live(s)
  BY Ids DEF Live, Kids
<1> HIDE DEF A, B, found
<1>2. /\ ListOf(Sorted(s, found \cap Folders), found \cap Folders)
      /\ ListOf(Sorted(s, found \cap Jobs), found \cap Jobs)
      /\ ListOf(Sorted(s, A), A) /\ ListOf(Sorted(s, B), B)
  BY <1>1, SortedLists
<1>3. CASE p.filter = "none"
  <2>1. VisibleIds(p) = Sorted(s, A) \o Sorted(s, B)
    BY <1>3 DEF VisibleIds, FolderContents, A, B
  <2>2. ListOf(Sorted(s, A) \o Sorted(s, B), A \cup B)
    BY <1>2, JoinedLists
  <2> QED
    BY <1>1, <2>1, <2>2 DEF ListOf
<1>4. CASE p.filter = "query"
  <2>1. VisibleIds(p) = Sorted(s, found \cap Folders) \o Sorted(s, found \cap Jobs)
    BY <1>4 DEF VisibleIds, FilterLibrary, found
  <2>2. ListOf(Sorted(s, found \cap Folders) \o Sorted(s, found \cap Jobs),
               (found \cap Folders) \cup (found \cap Jobs))
    BY <1>2, JoinedLists
  <2> QED
    BY <1>1, <2>1, <2>2 DEF ListOf
<1>5. CASE p.filter \notin {"none", "query"}
  <2>1. VisibleIds(p) = <<>> \o Sorted(s, found \cap Jobs)
    BY <1>5 DEF VisibleIds, FilterLibrary, found
  <2>2. ListOf(<<>> \o Sorted(s, found \cap Jobs), {} \cup (found \cap Jobs))
    BY <1>2, EmptyList, JoinedLists
  <2> QED
    BY <1>1, <2>1, <2>2 DEF ListOf
<1> QED
  BY <1>3, <1>4, <1>5

-----------------------------------------------------------------------------
(* What the page is shown *)

LEMMA SnapshotAgrees ==
  ASSUME NEW r \in [Items -> Row]
  PROVE  /\ Snapshot(r) \in [Items -> Row]
         /\ Live(Snapshot(r)) = Live(r)
         /\ \A x \in Live(r) : Snapshot(r)[x] = r[x]
         /\ \A x \in Items : Snapshot(r)[x].state = "live" <=> r[x].state = "live"
<1>1. NoRow("gone") \in Row /\ NoRow("gone").state = "gone"
  BY Ids DEF NoRow, Row
<1>2. \A x \in Items : Snapshot(r)[x] = IF r[x].state = "live" THEN r[x] ELSE NoRow("gone")
  BY DEF Snapshot
<1>3. \A x \in Items : Snapshot(r)[x] \in Row
  BY <1>1, <1>2
<1>4. Snapshot(r) \in [Items -> Row]
  BY <1>3 DEF Snapshot
<1> QED
  BY <1>1, <1>2, <1>4 DEF Live

LEMMA BlankRows == Blank \in [Items -> Row]
BY Ids DEF Blank, NoRow, Row

LEMMA SnapshotTree ==
  ASSUME NEW r \in [Items -> Row], NEW s, s = Snapshot(r)
  PROVE  /\ \A K \in {Folders, Jobs, Items} : \A p : Kids(s, K, p) = Kids(r, K, p)
         /\ \A f : Below(s, f) = Below(r, f)
         /\ \A S : Picked(s, S) = Picked(r, S)
         /\ \A items : ExcludedTargets(s, items) = ExcludedTargets(r, items)
<1>1. /\ Live(s) = Live(r) /\ \A x \in Live(r) : s[x] = r[x]
      /\ \A x \in Items : s[x].state = "live" <=> r[x].state = "live"
  BY SnapshotAgrees
<1>2. \A x \in Items : r[x].state = "live" => s[x] = r[x]
  BY <1>1 DEF Live
<1>3. ASSUME NEW K \in {Folders, Jobs, Items}, NEW p
      PROVE  Kids(s, K, p) = Kids(r, K, p)
  <2>1. K \subseteq Items
    BY Ids
  <2> QED
    BY <1>1, <1>2, <2>1 DEF Kids
<1>4. ASSUME NEW f
      PROVE  Below(s, f) = Below(r, f)
  <2>1. \A S : (\A h \in Folders : s[h].state = "live" /\ s[h].parent \in S => h \in S)
                 <=> (\A h \in Folders : r[h].state = "live" /\ r[h].parent \in S => h \in S)
    BY <1>1, <1>2, Ids
  <2> QED
    BY <2>1 DEF Below
<1>5. ASSUME NEW S
      PROVE  Picked(s, S) = Picked(r, S)
  <2>1. \A F : JobsInFolders(s, F) = JobsInFolders(r, F)
    BY <1>1, <1>4 DEF JobsInFolders
  <2> QED
    BY <1>1, <2>1 DEF Picked
<1>6. \A items : ExcludedTargets(s, items) = ExcludedTargets(r, items)
  BY <1>4 DEF ExcludedTargets
<1> QED
  BY <1>3, <1>4, <1>5, <1>6

\* Siblings can be listed in order in one way only.
LEMMA OneOrder ==
  ASSUME NEW r \in [Items -> Row], NEW K \in {Folders, Jobs}, NEW p,
         NEW kids, kids = Kids(r, K, p), NEW q, InOrder(r, q, kids),
         NEW w, InOrder(r, w, kids)
  PROVE  q = w
<1>1. /\ q \in [1 .. Len(q) -> kids] /\ Len(q) \in Nat /\ Members(q) = kids
      /\ DOMAIN q = 1 .. Len(q)
  BY DEF InOrder, Enumerates
<1>2. /\ w \in [1 .. Len(w) -> kids] /\ Len(w) \in Nat /\ Members(w) = kids
      /\ DOMAIN w = 1 .. Len(w)
  BY DEF InOrder, Enumerates
<1>3. \A i \in 1 .. Len(q) : Rank(r, q[i]) = i - 1
  BY RankInOrder
<1>4. \A i \in 1 .. Len(w) : Rank(r, w[i]) = i - 1
  BY RankInOrder
<1>5. ASSUME NEW i \in 1 .. Len(q) PROVE i \in 1 .. Len(w) /\ w[i] = q[i]
  <2>1. q[i] \in Members(w)
    BY <1>1, <1>2
  <2>2. PICK k \in 1 .. Len(w) : w[k] = q[i]
    BY <1>2, <2>1 DEF Members
  <2>3. i - 1 = k - 1
    BY <1>3, <1>4, <2>2
  <2> QED
    BY <2>2, <2>3
<1>6. ASSUME NEW i \in 1 .. Len(w) PROVE i \in 1 .. Len(q)
  <2>1. w[i] \in Members(q)
    BY <1>1, <1>2
  <2>2. PICK k \in 1 .. Len(q) : q[k] = w[i]
    BY <1>1, <2>1 DEF Members
  <2>3. i - 1 = k - 1
    BY <1>3, <1>4, <2>2
  <2> QED
    BY <2>2, <2>3
<1>7. Len(q) = Len(w)
  <2>1. Len(q) > 0 => Len(q) <= Len(w)
    BY <1>1, <1>2, <1>5
  <2>2. Len(w) > 0 => Len(w) <= Len(q)
    BY <1>1, <1>2, <1>6
  <2>3. PICK m \in Nat, n \in Nat : m = Len(q) /\ n = Len(w)
    BY <1>1, <1>2
  <2> QED
    BY <2>1, <2>2, <2>3
<1> QED
  BY <1>5, <1>7, SeqEqual DEF InOrder, Enumerates

LEMMA SnapshotOrder ==
  ASSUME NEW r \in [Items -> Row], NEW s, s = Snapshot(r),
         NEW K \in {Folders, Jobs}, NEW p
  PROVE  Sorted(s, Kids(s, K, p)) = Sorted(r, Kids(r, K, p))
<1>1. PICK kids : kids = Kids(r, K, p)
  OBVIOUS
<1>2. kids \in SUBSET Items /\ \A x \in kids : x \in Live(r)
  BY <1>1, Ids DEF Kids, Live
<1>3. Kids(s, K, p) = kids
  BY <1>1, SnapshotTree
<1>4. s \in [Items -> Row] /\ \A x \in kids : s[x] = r[x]
  BY <1>2, SnapshotAgrees
<1>5. PICK q : q = Sorted(s, kids) /\ InOrder(s, q, kids)
  BY <1>2, <1>4, SortedInOrder
<1>6. PICK w : w = Sorted(r, kids) /\ InOrder(r, w, kids)
  BY <1>2, SortedInOrder
<1>7. InOrder(r, q, kids)
  <2>1. Enumerates(q, kids) /\ \A i \in 1 .. Len(q) : q[i] \in kids
    BY <1>5 DEF InOrder, Enumerates
  <2>2. \A i, k \in 1 .. Len(q) : i < k => Before(r, q[i], q[k])
    BY <1>4, <1>5, <2>1 DEF InOrder, Before
  <2> QED
    BY <2>1, <2>2 DEF InOrder
<1>8. q = w
  BY <1>1, <1>6, <1>7, OneOrder
<1> QED
  BY <1>1, <1>3, <1>5, <1>6, <1>8

-----------------------------------------------------------------------------
(* Commands *)

\* A command that can be under way: what the server relies on whatever the
\* tables have become since it was sent.
Proper(c) ==
  /\ c.op \in {"create folder", "create job", "reorder", "move", "delete", "lift", "mark",
               "restore", "purge", "empty"}
  /\ c.place \in Places
  /\ c.op \in {"move", "restore"} => c.items \in Arrays(Items)
  /\ c.op = "restore" => Members(c.items) = c.chosen
  /\ c.op = "lift" => \E f \in Folders : c.items = <<f>> /\ c.chosen = {f}

\* A command that fits the tables as they are.
Apt(c) ==
  /\ c.op \in {"create folder", "create job"} => IsPlace(c.place)
  /\ c.op \in {"move", "delete"} => Members(c.items) = Picked(rows, c.chosen)
  /\ c.op = "move" => /\ IsPlace(c.place)
                      /\ \A f \in Members(c.items) \cap Folders : c.place \notin Below(rows, f)
  /\ c.op = "lift" => Members(c.items) \subseteq Live(rows)
  /\ c.op = "reorder" => \E x, target \in Items : Dropped(c, x, target)
  /\ c.op = "empty" => c.chosen = Entries

LEMMA ArraysWithin ==
  ASSUME NEW s \in Arrays(Items), NEW S, Members(s) \subseteq S
  PROVE  s \in Arrays(S)
<1>1. PICK n \in Nat : s \in [1 .. n -> Items]
  BY DEF Arrays
<1>2. \A i \in 1 .. n : s[i] \in S
  BY <1>1 DEF Members
<1>3. s \in [1 .. n -> S]
  BY <1>1, <1>2
<1> QED
  BY <1>3 DEF Arrays

LEMMA PerformSound ==
  ASSUME Sound(rows, trash), NEW c, Proper(c), Accepts(c), ~Idle(c), Perform(c)
  PROVE  Sound(rows', trash')
<1>0. c.place \in Places
  BY DEF Proper
<1>1. CASE c.op = "create folder"
  <2>1. PICK f \in Folders : Create(f, c.place)
    BY <1>1 DEF Perform
  <2> QED
    BY <1>0, <2>1, CreateSound, Ids
<1>2. CASE c.op = "create job"
  <2>1. PICK f \in Jobs : Create(f, c.place)
    BY <1>2 DEF Perform
  <2> QED
    BY <1>0, <2>1, CreateSound, Ids
<1>3. CASE c.op = "reorder"
  <2>1. Reorder(c.place)
    BY <1>3 DEF Perform
  <2> QED
    BY <1>0, <2>1, ReorderSound
<1>4. CASE c.op = "move"
  <2>1. Move(c.items, c.place)
    BY <1>4 DEF Perform
  <2>2. c.items \in Arrays(Items) /\ Members(c.items) \subseteq Live(rows)
    BY <1>4 DEF Proper, Accepts
  <2>3. c.items \in Arrays(Live(rows))
    BY <2>2, ArraysWithin
  <2> QED
    BY <1>0, <2>1, <2>3, MoveSound
<1>5. CASE c.op = "delete"
  <2>1. Delete(Members(c.items)) /\ Members(c.items) \subseteq Live(rows)
    BY <1>5 DEF Perform, Accepts
  <2> QED
    BY <2>1, DeleteSound
<1>6. CASE c.op = "lift"
  <2>1. PICK f \in Folders : c.items = <<f>>
    BY <1>6 DEF Proper
  <2>2. DeleteFolderOnly(f)
    BY <1>6, <2>1 DEF Perform
  <2> QED
    BY <2>2, DeleteFolderOnlySound
<1>7. CASE c.op = "restore"
  <2>1. Restore(c.items)
    BY <1>7 DEF Perform
  <2>2. c.items \in Arrays(Items) /\ Members(c.items) \subseteq Entries
    BY <1>7 DEF Proper, Accepts
  <2>3. c.items \in Arrays(Entries)
    BY <2>2, ArraysWithin
  <2> QED
    BY <2>1, <2>3, RestoreSound
<1>8. CASE c.op = "purge"
  <2>1. Purge(c.chosen) /\ c.chosen \subseteq Entries
    BY <1>8 DEF Perform, Accepts
  <2> QED
    BY <2>1, PurgeSound
<1>9. CASE c.op = "empty"
  <2>1. Purge(Entries)
    BY <1>9 DEF Perform
  <2> QED
    BY <2>1, PurgeSound
<1>10. CASE c.op = "mark"
  BY <1>10 DEF Idle
<1> QED
  BY <1>1, <1>2, <1>3, <1>4, <1>5, <1>6, <1>7, <1>8, <1>9, <1>10 DEF Proper

\* What others do to the library.
LEMMA ElsewhereSound ==
  ASSUME Sound(rows, trash), Elsewhere
  PROVE  Sound(rows', trash')
<1>1. \A S : \A x \in S : <<x>> \in Arrays(S)
  BY DEF Arrays
<1>2. ASSUME NEW x \in Items, NEW p \in Places, Create(x, p)
      PROVE  Sound(rows', trash')
  BY <1>2, CreateSound
<1>3. ASSUME NEW x \in Live(rows), NEW p \in Places, Move(<<x>>, p)
      PROVE  Sound(rows', trash')
  BY <1>1, <1>3, MoveSound
<1>4. ASSUME NEW x \in Live(rows), Delete({x})
      PROVE  Sound(rows', trash')
  BY <1>4, DeleteSound
<1>5. ASSUME NEW x \in Entries, Restore(<<x>>)
      PROVE  Sound(rows', trash')
  BY <1>1, <1>5, RestoreSound
<1>6. \/ \E x \in Items, p \in Places : Create(x, p)
      \/ \E x \in Live(rows), p \in Places : Move(<<x>>, p)
      \/ \E x \in Live(rows) : Delete({x})
      \/ \E x \in Entries : Restore(<<x>>)
  BY DEF Elsewhere
<1> QED
  BY <1>2, <1>3, <1>4, <1>5, <1>6

LEMMA ServeAsMeant ==
  ASSUME Sound(rows, trash), NEW t, Proper(t.cmd), Apt(t.cmd), Serve(t)
  PROVE  Meant(t.cmd)
<1>0. PICK c : c = t.cmd
  OBVIOUS
<1>1. /\ Proper(c) /\ Apt(c) /\ c.place \in Places
      /\ \/ Accepts(c) /\ ~Idle(c) /\ Perform(c)
         \/ (Accepts(c) => Idle(c)) /\ rows' = rows /\ trash' = trash
  BY <1>0 DEF Serve, vars, Proper
<1>2. CASE c.op \in {"create folder", "create job"}
  <2>1. Accepts(c) /\ ~Idle(c)
    BY <1>1, <1>2 DEF Apt, Accepts, Idle
  <2>2. PICK z \in Items : Create(z, c.place)
    BY <1>1, <1>2, <2>1, Ids DEF Perform
  <2> QED
    BY <1>0, <1>2, <2>2, CreateAsMeant
<1>3. CASE c.op = "reorder"
  <2>1. PICK x \in Items, target \in Items : Dropped(c, x, target)
    BY <1>1, <1>3 DEF Apt
  <2>2. ~Idle(c)
    BY <1>3 DEF Idle
  <2>3. Accepts(c) => Relisted(c)
    BY <1>1, <1>3, <2>2 DEF Perform, Relisted
  <2> QED
    BY <1>0, <1>1, <1>3, <2>1, <2>3, ReorderAsMeant
<1>4. CASE c.op \in {"move", "delete"}
  <2>1. Members(c.items) = Picked(rows, c.chosen)
    BY <1>1, <1>4 DEF Apt
  <2>2. Accepts(c)
    <3>1. Members(c.items) \subseteq Live(rows)
      BY <2>1, PickedIs
    <3> QED
      BY <1>1, <1>4, <3>1 DEF Apt, Accepts
  <2>3. CASE c.items = <<>>
    <3>1. Idle(c)
      BY <1>4, <2>3 DEF Idle
    <3> QED
      BY <1>0, <1>1, <1>4, <2>1, <2>3, <3>1, IdleAsMeant
  <2>4. CASE c.items # <<>>
    <3>1. ~Idle(c)
      BY <1>4, <2>4 DEF Idle
    <3>2. Perform(c)
      BY <1>1, <2>2, <3>1
    <3>3. CASE c.op = "move"
      <4>1. Move(c.items, c.place) /\ c.items \in Arrays(Items)
        BY <1>1, <3>2, <3>3 DEF Perform, Proper
      <4> QED
        BY <1>0, <1>1, <2>1, <3>3, <4>1, MoveAsMeant
    <3>4. CASE c.op = "delete"
      <4>1. Delete(Members(c.items))
        BY <3>2, <3>4 DEF Perform
      <4> QED
        BY <1>0, <2>1, <3>4, <4>1, DeleteAsMeant
    <3> QED
      BY <1>4, <3>3, <3>4
  <2> QED
    BY <2>3, <2>4
<1>5. CASE c.op = "lift"
  <2>1. PICK f \in Folders : c.items = <<f>> /\ c.chosen = {f}
    BY <1>1, <1>5 DEF Proper
  <2>2. Members(c.items) = {f} /\ Members(c.items) \subseteq Live(rows)
    BY <1>1, <1>5, <2>1, SingleList, Ids DEF Apt, ListOf
  <2>3. Accepts(c) /\ ~Idle(c)
    BY <1>5, <2>2 DEF Accepts, Idle
  <2>4. DeleteFolderOnly(f) /\ rows[f].state = "live"
    BY <1>1, <1>5, <2>1, <2>2, <2>3 DEF Perform, Live
  <2> QED
    BY <1>0, <1>5, <2>1, <2>4, LiftAsMeant
<1>6. CASE c.op = "mark"
  BY <1>0, <1>1, <1>6 DEF Idle, Meant, Perform, vars
<1>7. CASE c.op = "restore"
  <2>1. Members(c.items) = c.chosen /\ ~Idle(c)
    BY <1>1, <1>7 DEF Proper, Idle
  <2>2. CASE c.chosen \subseteq Entries
    <3>1. Restore(c.items)
      BY <1>1, <1>7, <2>1, <2>2 DEF Accepts, Perform
    <3> QED
      BY <1>0, <1>7, <2>1, <3>1, RestoreAsMeant
  <2>3. CASE ~(c.chosen \subseteq Entries)
    BY <1>0, <1>7, <2>3 DEF Meant
  <2> QED
    BY <2>2, <2>3
<1>8. CASE c.op = "purge"
  <2>1. ~Idle(c)
    BY <1>8 DEF Idle
  <2>2. CASE c.chosen \subseteq Entries
    <3>1. Purge(c.chosen)
      BY <1>1, <1>8, <2>1, <2>2 DEF Accepts, Perform
    <3> QED
      BY <1>0, <1>8, <3>1, PurgeAsMeant
  <2>3. CASE ~(c.chosen \subseteq Entries)
    BY <1>0, <1>8, <2>3 DEF Meant
  <2> QED
    BY <2>2, <2>3
<1>9. CASE c.op = "empty"
  <2>1. Accepts(c) /\ c.chosen = Entries
    BY <1>1, <1>9 DEF Accepts, Apt
  <2>2. CASE Entries = {}
    <3>1. Idle(c)
      BY <1>9, <2>2 DEF Idle
    <3>2. rows' = rows
      BY <1>1, <2>1, <3>1
    <3> QED
      BY <1>0, <1>9, <2>1, <2>2, <3>2 DEF Meant
  <2>3. CASE Entries # {}
    <3>1. ~Idle(c)
      BY <1>9, <2>3 DEF Idle
    <3>2. Purge(c.chosen)
      BY <1>1, <1>9, <2>1, <3>1 DEF Perform
    <3> QED
      BY <1>0, <1>9, <3>2, PurgeAsMeant
  <2> QED
    BY <2>2, <2>3
<1> QED
  BY <1>0, <1>1, <1>2, <1>3, <1>4, <1>5, <1>6, <1>7, <1>8, <1>9 DEF Proper

-----------------------------------------------------------------------------
(* The invariant of the shelf *)

PageFields == {"on", "folder", "loading", "loaded", "snap", "bin", "selection", "anchor",
               "organize", "filter", "dialog", "drag", "timer"}
DialogFields == {"kind", "items", "excluded", "chosen", "busy", "current"}
TaskFields == {"id", "cmd", "step", "then", "mine", "fresh", "snap", "bin"}
HistFields == {"steps", "edits", "faults", "failed", "event", "news", "told"}

\* A request, which if it is a command is one that can be under way, and if the
\* page was up to date fits the tables as long as nothing has changed them.
Formed(t) ==
  /\ DOMAIN t = TaskFields /\ t.snap \in [Items -> Row]
  /\ t.step = "command" => Proper(t.cmd)

Aimed(t) == t.step = "command" /\ t.fresh => Apt(t.cmd)

\* What a dialog took when it was opened, as long as the listing is the same.
FairDialog(d, snap, bin) ==
  /\ DOMAIN d = DialogFields
  /\ d.kind = "move" => d.items \in Arrays(Items)
  /\ d.current /\ d.kind = "move" =>
       Members(d.items) = Picked(snap, d.chosen) /\ d.excluded = ExcludedTargets(snap, d.items)
  /\ d.current /\ d.kind = "empty" => d.chosen = bin

SanePage(p) ==
  /\ DOMAIN p = PageFields
  /\ p.folder \in Places /\ p.snap \in [Items -> Row] /\ p.drag \in Items \cup {NoEntry}
  /\ p.on = "library" /\ p.loaded => p.folder \in {Root} \cup Live(p.snap)
  /\ p.dialog.kind \in {"folder", "job", "move"} => p.on = "library" /\ p.loaded
  /\ p.dialog.kind \in {"purge", "empty"} => p.on = "trash"
  /\ FairDialog(p.dialog, p.snap, p.bin)

ShelfInv ==
  /\ Sound(rows, trash)
  /\ DOMAIN hist = HistFields /\ hist.faults \in Nat
  /\ SanePage(page)
  /\ \A t \in tasks : Formed(t) /\ Aimed(t)

\* Every command that waits still waits.
Stays == \A t \in tasks : t.step = "command" =>
           \E u \in tasks' : u.id = t.id /\ u.step = "command"

-----------------------------------------------------------------------------
(* Requests *)

LEMMA TaskChanges ==
  ASSUME NEW t, Formed(t), Aimed(t)
  PROVE  /\ Formed([t EXCEPT !.fresh = FALSE]) /\ Aimed([t EXCEPT !.fresh = FALSE])
         /\ [t EXCEPT !.fresh = FALSE].id = t.id /\ [t EXCEPT !.fresh = FALSE].step = t.step
         /\ ~[t EXCEPT !.fresh = FALSE].fresh
BY DEF Formed, Aimed, TaskFields

LEMMA TaskLeft ==
  ASSUME NEW t, Formed(t), Aimed(t)
  PROVE  /\ Formed([t EXCEPT !.mine = FALSE, !.then = "none"])
         /\ Aimed([t EXCEPT !.mine = FALSE, !.then = "none"])
         /\ [t EXCEPT !.mine = FALSE, !.then = "none"].id = t.id
         /\ [t EXCEPT !.mine = FALSE, !.then = "none"].step = t.step
BY DEF Formed, Aimed, TaskFields

LEMMA TaskRead ==
  ASSUME NEW t, Formed(t)
  PROVE  /\ \A b : /\ Formed([t EXCEPT !.step = "answer", !.bin = b])
                   /\ Aimed([t EXCEPT !.step = "answer", !.bin = b])
         /\ \A s \in [Items -> Row] : /\ Formed([t EXCEPT !.step = "answer", !.snap = s])
                                      /\ Aimed([t EXCEPT !.step = "answer", !.snap = s])
BY DEF Formed, Aimed, TaskFields

LEMMA TaskAnswered ==
  ASSUME NEW t, Formed(t), NEW step \in {"done", "refused"}, NEW u \in Answered(t, step)
  PROVE  Formed(u) /\ Aimed(u) /\ ~u.fresh
<1>1. u = [t EXCEPT !.step = step, !.fresh = FALSE, !.cmd = [NoCommand EXCEPT !.op = t.cmd.op]]
  BY DEF Answered
<1>2. u.step = step /\ u.fresh = FALSE /\ DOMAIN u = TaskFields /\ u.snap = t.snap
  BY <1>1 DEF Formed, TaskFields
<1> QED
  BY <1>2 DEF Formed, Aimed

LEMMA NewTask ==
  ASSUME NEW ts, NEW c, NEW step, NEW then, NEW fresh,
         step = "command" => Proper(c), step = "command" /\ fresh => Apt(c)
  PROVE  Formed(Task(ts, c, step, then, fresh)) /\ Aimed(Task(ts, c, step, then, fresh))
BY BlankRows DEF Formed, Aimed, Task, TaskFields

LEMMA RefreshTask ==
  ASSUME NEW ts, \A t \in ts : Formed(t) /\ Aimed(t)
  PROVE  ts \subseteq Refresh(ts) /\ \A t \in Refresh(ts) : Formed(t) /\ Aimed(t)
<1>1. /\ Formed(Task(ts, NoCommand, "done", "none", FALSE))
      /\ Aimed(Task(ts, NoCommand, "done", "none", FALSE))
  BY NewTask
<1> QED
  BY <1>1 DEF Refresh

LEMMA OutdatedTasks ==
  ASSUME NEW ts, \A t \in ts : Formed(t) /\ Aimed(t)
  PROVE  /\ \A u \in Outdated(ts) : Formed(u) /\ Aimed(u) /\ ~u.fresh
         /\ \A t \in ts : \E u \in Outdated(ts) : u.id = t.id /\ u.step = t.step
BY TaskChanges DEF Outdated

-----------------------------------------------------------------------------
(* Pages *)

LEMMA NoDialogFair == \A s, b : FairDialog(NoDialog, s, b)
BY DEF FairDialog, NoDialog, DialogFields

LEMMA FreshPage ==
  ASSUME NEW on, NEW f \in Places, NEW timer
  PROVE  SanePage(NoPage(on, f)) /\ SanePage([NoPage(on, f) EXCEPT !.timer = timer])
<1>1. FairDialog(NoDialog, Blank, {}) /\ NoDialog.kind = "none"
  BY NoDialogFair DEF NoDialog
<1> QED
  BY <1>1, BlankRows DEF SanePage, NoPage, PageFields

\* What has no bearing on the commands that a page sends.
LEMMA PageChanges ==
  ASSUME NEW p, SanePage(p)
  PROVE  /\ SanePage(Unselected(p))
         /\ SanePage([Unselected(p) EXCEPT !.organize = FALSE, !.drag = NoEntry])
         /\ SanePage([p EXCEPT !.organize = TRUE])
         /\ \A x : SanePage([p EXCEPT !.filter = x, !.drag = NoEntry])
         /\ \A x : SanePage([p EXCEPT !.selection = x])
         /\ \A x, y : SanePage([p EXCEPT !.selection = x, !.anchor = y])
         /\ \A x \in Items \cup {NoEntry} : SanePage([p EXCEPT !.drag = x])
         /\ \A x : SanePage([p EXCEPT !.timer = x])
<1>1. SanePage(Unselected(p))
  BY DEF SanePage, PageFields, Unselected
<1>2. SanePage([Unselected(p) EXCEPT !.organize = FALSE, !.drag = NoEntry])
  BY DEF SanePage, PageFields, Unselected
<1>3. SanePage([p EXCEPT !.organize = TRUE])
  BY DEF SanePage, PageFields
<1>4. \A x : SanePage([p EXCEPT !.filter = x, !.drag = NoEntry])
  BY DEF SanePage, PageFields
<1>5. \A x : SanePage([p EXCEPT !.selection = x])
  BY DEF SanePage, PageFields
<1>6. \A x, y : SanePage([p EXCEPT !.selection = x, !.anchor = y])
  BY DEF SanePage, PageFields
<1>7. \A x \in Items \cup {NoEntry} : SanePage([p EXCEPT !.drag = x])
  BY DEF SanePage, PageFields
<1>8. \A x : SanePage([p EXCEPT !.timer = x])
  BY DEF SanePage, PageFields
<1> QED
  BY <1>1, <1>2, <1>3, <1>4, <1>5, <1>6, <1>7, <1>8

LEMMA PageDialogs ==
  ASSUME NEW p, SanePage(p)
  PROVE  /\ SanePage([p EXCEPT !.dialog = NoDialog])
         /\ \A b : SanePage([p EXCEPT !.dialog.busy = b])
         /\ \A d : /\ FairDialog(d, p.snap, p.bin)
                   /\ d.kind \in {"folder", "job", "move"} => p.on = "library" /\ p.loaded
                   /\ d.kind \in {"purge", "empty"} => p.on = "trash"
                   => SanePage([p EXCEPT !.dialog = d])
<1>1. \A d : /\ FairDialog(d, p.snap, p.bin)
             /\ d.kind \in {"folder", "job", "move"} => p.on = "library" /\ p.loaded
             /\ d.kind \in {"purge", "empty"} => p.on = "trash"
             => SanePage([p EXCEPT !.dialog = d])
  BY DEF SanePage, PageFields
<1>2. SanePage([p EXCEPT !.dialog = NoDialog])
  BY <1>1, NoDialogFair DEF NoDialog
<1>3. ASSUME NEW b
      PROVE  SanePage([p EXCEPT !.dialog.busy = b])
  <2> DEFINE d == [p.dialog EXCEPT !.busy = b]
  <2>1. FairDialog(p.dialog, p.snap, p.bin) /\ DOMAIN p.dialog = DialogFields
    BY DEF SanePage, FairDialog
  <2>2. /\ d.kind = p.dialog.kind /\ d.current = p.dialog.current /\ DOMAIN d = DialogFields
        /\ d.items = p.dialog.items /\ d.excluded = p.dialog.excluded
        /\ d.chosen = p.dialog.chosen
    BY <2>1 DEF DialogFields
  <2>3. [p EXCEPT !.dialog.busy = b] = [p EXCEPT !.dialog = d]
    OBVIOUS
  <2> HIDE DEF d
  <2>4. FairDialog(d, p.snap, p.bin)
    BY <2>1, <2>2 DEF FairDialog
  <2> QED
    BY <1>1, <2>2, <2>3, <2>4 DEF SanePage
<1> QED
  BY <1>1, <1>2, <1>3

LEMMA FinishedPage ==
  ASSUME NEW p, SanePage(p), NEW t
  PROVE  SanePage(Finish(p, t))
BY PageChanges, PageDialogs DEF Finish

\* A listing that arrives, with the folder that is open in it.
LEMMA ArrivedPage ==
  ASSUME SanePage(page), NEW t, Formed(t),
         page.on = "library" => page.folder \in {Root} \cup Live(t.snap)
  PROVE  SanePage([page EXCEPT
           !.snap = t.snap, !.bin = t.bin, !.loaded = TRUE, !.loading = FALSE,
           !.dialog.current = page.dialog.kind = "none"
                                \/ (@ /\ t.snap = page.snap /\ t.bin = page.bin)])
<1> DEFINE cur == page.dialog.kind = "none"
                    \/ (page.dialog.current /\ t.snap = page.snap /\ t.bin = page.bin)
           d == [page.dialog EXCEPT !.current = cur]
           q == [page EXCEPT !.snap = t.snap, !.bin = t.bin, !.loaded = TRUE,
                             !.loading = FALSE, !.dialog = d]
<1>1. [page EXCEPT
           !.snap = t.snap, !.bin = t.bin, !.loaded = TRUE, !.loading = FALSE,
           !.dialog.current = page.dialog.kind = "none"
                                \/ (@ /\ t.snap = page.snap /\ t.bin = page.bin)] = q
  OBVIOUS
<1>2. FairDialog(page.dialog, page.snap, page.bin) /\ DOMAIN page.dialog = DialogFields
  BY DEF SanePage, FairDialog
<1>3. /\ d.kind = page.dialog.kind /\ d.current = cur /\ DOMAIN d = DialogFields
      /\ d.items = page.dialog.items /\ d.excluded = page.dialog.excluded
      /\ d.chosen = page.dialog.chosen
  BY <1>2 DEF DialogFields
<1>4. /\ DOMAIN q = PageFields /\ q.on = page.on /\ q.folder = page.folder /\ q.loaded = TRUE
      /\ q.snap = t.snap /\ q.bin = t.bin /\ q.dialog = d /\ q.drag = page.drag
  BY DEF SanePage, PageFields
<1> HIDE DEF d, q
<1>5. FairDialog(d, t.snap, t.bin)
  BY <1>2, <1>3 DEF FairDialog
<1>6. SanePage(q)
  BY <1>3, <1>4, <1>5 DEF SanePage, Formed
<1> QED
  BY <1>1, <1>6

\* A listing that does not arrive.
LEMMA FailedPage ==
  ASSUME SanePage(page)
  PROVE  SanePage([page EXCEPT !.loading = FALSE, !.loaded = @ \/ page.on = "trash"])
BY DEF SanePage, PageFields

-----------------------------------------------------------------------------
(* Steps *)

LEMMA AptSame ==
  ASSUME rows' = rows, trash' = trash, NEW c, Apt(c)
  PROVE  Apt(c)'
BY DEF Apt, IsPlace, Entries, Dropped

\* A step that leaves the tables alone.
LEMMA Quiet ==
  ASSUME ShelfInv, UNCHANGED vars, DOMAIN hist' = HistFields, hist'.faults \in Nat,
         SanePage(page'), \A t \in tasks' : Formed(t) /\ Aimed(t)
  PROVE  ShelfInv'
<1>1. rows' = rows /\ trash' = trash
  BY DEF vars
<1>2. ASSUME NEW t \in tasks'
      PROVE  Formed(t)' /\ Aimed(t)'
  <2>1. Formed(t) /\ Aimed(t)
    BY <1>2
  <2>2. Aimed(t)'
    BY <1>1, <2>1, AptSame DEF Aimed
  <2> QED
    BY <2>1, <2>2 DEF Formed
<1>3. SanePage(page)'
  BY DEF SanePage, FairDialog
<1>4. Sound(rows', trash')
  BY <1>1 DEF ShelfInv
<1> QED
  BY <1>2, <1>3, <1>4 DEF ShelfInv

\* A step that changes the tables, so that no request is up to date.
LEMMA Loud ==
  ASSUME Sound(rows', trash'), DOMAIN hist' = HistFields, hist'.faults \in Nat,
         SanePage(page'), \A t \in tasks' : Formed(t) /\ ~t.fresh
  PROVE  ShelfInv'
<1>1. ASSUME NEW t \in tasks'
      PROVE  Formed(t)' /\ Aimed(t)'
  BY <1>1 DEF Formed, Aimed
<1>2. SanePage(page)'
  BY DEF SanePage, FairDialog
<1> QED
  BY <1>1, <1>2 DEF ShelfInv

LEMMA HistSteps ==
  ASSUME DOMAIN hist = HistFields, hist.faults \in Nat, Step
  PROVE  DOMAIN hist' = HistFields /\ hist'.faults \in Nat
BY DEF HistFields, Step

LEMMA HistAnnounced ==
  ASSUME NEW h, DOMAIN h = HistFields, h.faults \in Nat
  PROVE  DOMAIN Announce(h) = HistFields /\ Announce(h).faults \in Nat
BY DEF HistFields, Announce

LEMMA ClickStep ==
  ASSUME ShelfInv, NEW p, SanePage(p), Click(p)
  PROVE  ShelfInv' /\ Stays
<1>1. /\ page' = p /\ tasks' = tasks /\ UNCHANGED vars
      /\ DOMAIN hist' = HistFields /\ hist'.faults \in Nat
  BY HistSteps DEF Click, Here, ShelfInv, vars
<1>2. \A t \in tasks' : Formed(t) /\ Aimed(t)
  BY <1>1 DEF ShelfInv
<1>3. Stays
  BY <1>1 DEF Stays
<1> QED
  BY <1>1, <1>2, <1>3, Quiet

LEMMA RunStep ==
  ASSUME ShelfInv, NEW c, NEW then, NEW p, SanePage(p), Run(c, then, p),
         Proper(c), Current => Apt(c)
  PROVE  ShelfInv' /\ Stays
<1>1. /\ page' = p /\ tasks' = tasks \cup {Task(tasks, c, "command", then, Current)}
      /\ UNCHANGED vars /\ DOMAIN hist' = HistFields /\ hist'.faults \in Nat
  BY HistSteps DEF Run, ShelfInv
<1>2. /\ Formed(Task(tasks, c, "command", then, Current))
      /\ Aimed(Task(tasks, c, "command", then, Current))
  BY NewTask
<1>3. \A t \in tasks' : Formed(t) /\ Aimed(t)
  BY <1>1, <1>2 DEF ShelfInv
<1>4. Stays
  BY <1>1 DEF Stays
<1> QED
  BY <1>1, <1>3, <1>4, Quiet

\* The commands of the page that is left are carried out all the same.
LEMMA EnterStep ==
  ASSUME ShelfInv, NEW on, NEW f \in Places, NEW ts \in SUBSET tasks, NEW v, Enter(on, f, ts, v),
         \A t \in tasks \ ts : t.step # "command"
  PROVE  ShelfInv' /\ Stays
<1> DEFINE left(t) == [t EXCEPT !.mine = FALSE, !.then = "none"]
           kept == {left(t) : t \in {u \in ts : u.step = "command"}}
<1>1. /\ UNCHANGED vars /\ tasks' = (IF on = "reader" THEN kept ELSE Refresh(kept))
      /\ \E timer : page' = [NoPage(on, f) EXCEPT !.timer = timer]
      /\ hist' = [hist EXCEPT !.steps = @ + v, !.news = {}, !.told = {}]
  BY DEF Enter
<1>2. DOMAIN hist' = HistFields /\ hist'.faults \in Nat
  BY <1>1 DEF ShelfInv, HistFields
<1>3. SanePage(page')
  <2>1. PICK timer : page' = [NoPage(on, f) EXCEPT !.timer = timer]
    BY <1>1
  <2>2. SanePage([NoPage(on, f) EXCEPT !.timer = timer])
    BY FreshPage
  <2> QED
    BY <2>1, <2>2
<1>4. \A t \in tasks : /\ Formed(left(t)) /\ Aimed(left(t))
                       /\ left(t).id = t.id /\ left(t).step = t.step
  BY TaskLeft DEF ShelfInv
<1> HIDE DEF left
<1>5. \A t \in kept : Formed(t) /\ Aimed(t)
  BY <1>4
<1>6. \A t \in tasks : t.step = "command" => left(t) \in kept
  OBVIOUS
<1> HIDE DEF kept
<1>7. kept \subseteq tasks' /\ \A t \in tasks' : Formed(t) /\ Aimed(t)
  BY <1>1, <1>5, RefreshTask
<1>8. Stays
  <2> SUFFICES ASSUME NEW t \in tasks, t.step = "command"
               PROVE  \E u \in tasks' : u.id = t.id /\ u.step = "command"
    BY DEF Stays
  <2>1. left(t) \in tasks'
    BY <1>6, <1>7
  <2> QED
    BY <1>4, <2>1
<1> QED
  BY <1>1, <1>2, <1>3, <1>7, <1>8, Quiet

-----------------------------------------------------------------------------
(* Answers *)

\* What is still under way after t was served.
StaysBut(s) == \A t \in tasks : t.step = "command" /\ t # s =>
                 \E u \in tasks' : u.id = t.id /\ u.step = "command"

LEMMA ServeStep ==
  ASSUME ShelfInv, NEW t \in tasks, Serve(t)
  PROVE  ShelfInv' /\ StaysBut(t)
<1>1. /\ Sound(rows, trash) /\ Formed(t) /\ Proper(t.cmd) /\ SanePage(page)
      /\ page' = page /\ hist' = Announce(hist)
      /\ \A u \in tasks : Formed(u) /\ Aimed(u)
  BY DEF ShelfInv, Serve, Formed
<1>2. DOMAIN hist' = HistFields /\ hist'.faults \in Nat
  BY <1>1, HistAnnounced DEF ShelfInv
<1>3. CASE /\ Accepts(t.cmd) /\ ~Idle(t.cmd) /\ Perform(t.cmd)
           /\ tasks' = Outdated(tasks \ {t}) \cup Answered(t, "done")
  <2>1. Sound(rows', trash')
    BY <1>1, <1>3, PerformSound
  <2>2. /\ \A u \in Outdated(tasks \ {t}) : Formed(u) /\ Aimed(u) /\ ~u.fresh
        /\ \A s \in tasks \ {t} : \E u \in Outdated(tasks \ {t}) : u.id = s.id /\ u.step = s.step
    BY <1>1, OutdatedTasks
  <2>3. \A u \in Answered(t, "done") : Formed(u) /\ Aimed(u) /\ ~u.fresh
    BY <1>1, TaskAnswered
  <2>4. \A u \in tasks' : Formed(u) /\ ~u.fresh
    BY <1>3, <2>2, <2>3
  <2>5. StaysBut(t)
    BY <1>3, <2>2 DEF StaysBut
  <2> QED
    BY <1>1, <1>2, <2>1, <2>4, <2>5, Loud
<1>4. ASSUME NEW step \in {"done", "refused"}, UNCHANGED vars,
             tasks' = (tasks \ {t}) \cup Answered(t, step)
      PROVE  ShelfInv' /\ StaysBut(t)
  <2>1. \A u \in Answered(t, step) : Formed(u) /\ Aimed(u) /\ ~u.fresh
    BY <1>1, TaskAnswered
  <2>2. \A u \in tasks' : Formed(u) /\ Aimed(u)
    BY <1>1, <1>4, <2>1
  <2>3. StaysBut(t)
    BY <1>4 DEF StaysBut
  <2> QED
    BY <1>1, <1>2, <1>4, <2>2, <2>3, Quiet
<1>5. \/ /\ Accepts(t.cmd) /\ ~Idle(t.cmd) /\ Perform(t.cmd)
         /\ tasks' = Outdated(tasks \ {t}) \cup Answered(t, "done")
      \/ UNCHANGED vars /\ tasks' = (tasks \ {t}) \cup Answered(t, "done")
      \/ UNCHANGED vars /\ tasks' = (tasks \ {t}) \cup Answered(t, "refused")
  BY DEF Serve
<1> QED
  BY <1>3, <1>4, <1>5

LEMMA ElsewhereStep ==
  ASSUME ShelfInv, Elsewhere
  PROVE  ShelfInv' /\ Stays
<1>1. /\ Sound(rows, trash) /\ SanePage(page) /\ page' = page
      /\ tasks' = Outdated(tasks) /\ hist' = Announce([hist EXCEPT !.edits = @ + 1])
      /\ \A u \in tasks : Formed(u) /\ Aimed(u)
  BY DEF ShelfInv, Elsewhere
<1>2. DOMAIN hist' = HistFields /\ hist'.faults \in Nat
  <2>1. /\ DOMAIN [hist EXCEPT !.edits = @ + 1] = HistFields
        /\ [hist EXCEPT !.edits = @ + 1].faults \in Nat
    BY DEF ShelfInv, HistFields
  <2> QED
    BY <1>1, <2>1, HistAnnounced
<1>3. Sound(rows', trash')
  BY <1>1, ElsewhereSound
<1>4. /\ \A u \in tasks' : Formed(u) /\ Aimed(u) /\ ~u.fresh
      /\ \A s \in tasks : \E u \in tasks' : u.id = s.id /\ u.step = s.step
  BY <1>1, OutdatedTasks
<1>5. Stays
  BY <1>4 DEF Stays
<1> QED
  BY <1>1, <1>2, <1>3, <1>4, <1>5, Loud

LEMMA ReadStep ==
  ASSUME ShelfInv, NEW t \in tasks, Read(t)
  PROVE  ShelfInv' /\ Stays
<1>1. /\ Sound(rows, trash) /\ SanePage(page) /\ Formed(t) /\ t.step = "done"
      /\ UNCHANGED vars /\ hist' = hist /\ \A u \in tasks : Formed(u) /\ Aimed(u)
  BY DEF ShelfInv, Read, vars
<1>2. Snapshot(rows) \in [Items -> Row]
  BY <1>1, SoundRows, SnapshotAgrees
<1>3. PICK u : tasks' = (tasks \ {t}) \cup {u} /\ Formed(u) /\ Aimed(u)
  <2>1. /\ Formed([t EXCEPT !.step = "answer", !.bin = Entries])
        /\ Aimed([t EXCEPT !.step = "answer", !.bin = Entries])
        /\ Formed([t EXCEPT !.step = "answer", !.snap = Snapshot(rows)])
        /\ Aimed([t EXCEPT !.step = "answer", !.snap = Snapshot(rows)])
    BY <1>1, <1>2, TaskRead
  <2> QED
    BY <2>1 DEF Read
<1>4. SanePage(page')
  BY <1>1, PageChanges DEF Read
<1>5. \A u2 \in tasks' : Formed(u2) /\ Aimed(u2)
  BY <1>1, <1>3
<1>6. Stays
  BY <1>1, <1>3 DEF Stays
<1> QED
  BY <1>1, <1>4, <1>5, <1>6, Quiet DEF ShelfInv

LEMMA ArriveStep ==
  ASSUME ShelfInv, NEW t \in tasks, Arrive(t)
  PROVE  ShelfInv' /\ Stays
<1> DEFINE q == [page EXCEPT
             !.snap = t.snap, !.bin = t.bin, !.loaded = TRUE, !.loading = FALSE,
             !.dialog.current = page.dialog.kind = "none"
                                  \/ (@ /\ t.snap = page.snap /\ t.bin = page.bin)]
           lost == page.on = "library" /\ page.folder \notin {Root} \cup Live(t.snap)
<1>1. /\ SanePage(page) /\ Formed(t) /\ t.step = "answer"
      /\ \A u \in tasks : Formed(u) /\ Aimed(u)
  BY DEF ShelfInv, Arrive
<1>2. CASE lost
  <2>1. Enter("library", Root, tasks \ {t}, 0)
    BY <1>2 DEF Arrive
  <2> QED
    BY <1>1, <2>1, EnterStep, Ids
<1>3. CASE ~lost
  <2>1. /\ page' = Finish(q, t) /\ tasks' = tasks \ {t} /\ UNCHANGED vars
        /\ hist' = [hist EXCEPT !.told = @ \ Live(t.snap)]
    BY <1>3 DEF Arrive
  <2>2. SanePage(q)
    BY <1>1, <1>3, ArrivedPage
  <2>3. SanePage(page')
    <3> HIDE DEF q
    <3> QED
      BY <2>1, <2>2, FinishedPage
  <2>4. DOMAIN hist' = HistFields /\ hist'.faults \in Nat
    BY <2>1 DEF ShelfInv, HistFields
  <2>5. \A u \in tasks' : Formed(u) /\ Aimed(u)
    BY <1>1, <2>1
  <2>6. Stays
    BY <1>1, <2>1 DEF Stays
  <2> HIDE DEF q
  <2> QED
    BY <2>1, <2>3, <2>4, <2>5, <2>6, Quiet
<1> QED
  BY <1>2, <1>3

LEMMA RefusedStep ==
  ASSUME ShelfInv, NEW t \in tasks, Refused(t)
  PROVE  ShelfInv' /\ Stays
<1>1. /\ SanePage(page) /\ t.step = "refused" /\ \A u \in tasks : Formed(u) /\ Aimed(u)
      /\ page' = Finish(page, t) /\ tasks' = tasks \ {t} /\ UNCHANGED vars /\ hist' = hist
  BY DEF ShelfInv, Refused, vars
<1>2. SanePage(page')
  BY <1>1, FinishedPage
<1>3. \A u \in tasks' : Formed(u) /\ Aimed(u)
  BY <1>1
<1>4. Stays
  BY <1>1 DEF Stays
<1> QED
  BY <1>1, <1>2, <1>3, <1>4, Quiet DEF ShelfInv

LEMMA FailsStep ==
  ASSUME ShelfInv, NEW t \in tasks, Fails(t)
  PROVE  ShelfInv' /\ hist'.faults # hist.faults
<1>1. /\ SanePage(page) /\ Formed(t) /\ UNCHANGED vars
      /\ \A u \in tasks : Formed(u) /\ Aimed(u)
      /\ hist' = [hist EXCEPT !.faults = @ + 1, !.failed = TRUE]
  BY DEF ShelfInv, Fails
<1>2. DOMAIN hist' = HistFields /\ hist'.faults \in Nat /\ hist'.faults # hist.faults
  BY <1>1 DEF ShelfInv, HistFields
<1>3. SanePage(page')
  <2> DEFINE q == [page EXCEPT !.loading = FALSE, !.loaded = @ \/ page.on = "trash"]
  <2>1. SanePage(q)
    BY <1>1, FailedPage
  <2>2. page' = page \/ page' = Finish(q, t)
    BY DEF Fails
  <2> HIDE DEF q
  <2> QED
    BY <1>1, <2>1, <2>2, FinishedPage
<1>4. \A u \in tasks' : Formed(u) /\ Aimed(u)
  <2>1. \A u \in Answered(t, "refused") : Formed(u) /\ Aimed(u)
    BY <1>1, TaskAnswered
  <2> QED
    BY <1>1, <2>1 DEF Fails
<1> QED
  BY <1>1, <1>2, <1>3, <1>4, Quiet

LEMMA EventStep ==
  ASSUME ShelfInv, (\E j \in Jobs : Deliver(j)) \/ JobEvent \/ TimerAges \/ TimerFires \/ Retry
  PROVE  ShelfInv' /\ Stays
<1>1. SanePage(page) /\ \A u \in tasks : Formed(u) /\ Aimed(u)
  BY DEF ShelfInv
<1>2. UNCHANGED vars
  BY DEF Deliver, JobEvent, TimerAges, TimerFires, Retry, Here, vars
<1>3. DOMAIN hist' = HistFields /\ hist'.faults \in Nat
  BY DEF ShelfInv, HistFields, Deliver, JobEvent, TimerAges, TimerFires, Retry
<1>4. SanePage(page')
  <2>1. \/ page' = page \/ page' = OnEvent(page)
        \/ page' = [page EXCEPT !.timer = "due"] \/ page' = [page EXCEPT !.timer = "off"]
    BY DEF Deliver, JobEvent, TimerAges, TimerFires, Retry
  <2>2. SanePage(OnEvent(page))
    BY <1>1, PageChanges DEF OnEvent
  <2>3. /\ SanePage([page EXCEPT !.timer = "due"])
        /\ SanePage([page EXCEPT !.timer = "off"])
    BY <1>1, PageChanges
  <2> QED
    BY <1>1, <2>1, <2>2, <2>3
<1>5. tasks' = tasks \/ tasks' = Refresh(tasks)
  BY DEF Deliver, JobEvent, TimerAges, TimerFires, Retry, Here
<1>6. tasks \subseteq tasks' /\ \A u \in tasks' : Formed(u) /\ Aimed(u)
  BY <1>1, <1>5, RefreshTask
<1>7. Stays
  BY <1>6 DEF Stays
<1> QED
  BY <1>2, <1>3, <1>4, <1>6, <1>7, Quiet

-----------------------------------------------------------------------------
(* What the user does on a page *)

LEMMA VisitStep ==
  ASSUME ShelfInv, NEW on, NEW f \in Places, Visit(on, f)
  PROVE  ShelfInv' /\ Stays
<1>1. Enter(on, f, tasks, 1)
  BY DEF Visit
<1> QED
  BY <1>1, EnterStep

LEMMA MovingStep ==
  ASSUME ShelfInv, \/ \E f \in Places : OpenFolder(f)
                   \/ \E j \in Jobs : OpenJob(j)
                   \/ OpenTrash \/ Back
  PROVE  ShelfInv' /\ Stays
<1>1. \E on : \E f \in Places : Visit(on, f)
  BY Ids DEF OpenFolder, OpenJob, OpenTrash, Back
<1> QED
  BY <1>1, VisitStep

LEMMA ChoosingStep ==
  ASSUME ShelfInv, \/ ToggleOrganize
                   \/ \E filter : SetFilter(filter)
                   \/ \E x, shift : ToggleSelected(x, shift)
                   \/ SelectAll
                   \/ \E x : ToggleEntry(x)
                   \/ \E x \in Items : DragStart(x)
                   \/ DragEnd
  PROVE  ShelfInv' /\ Stays
<1>1. SanePage(page)
  BY DEF ShelfInv
<1>2. \E p : SanePage(p) /\ Click(p)
  <2>1. CASE ToggleOrganize
    BY <1>1, <2>1, PageChanges DEF ToggleOrganize
  <2>2. ASSUME NEW filter, SetFilter(filter) PROVE \E p : SanePage(p) /\ Click(p)
    BY <1>1, <2>2, PageChanges DEF SetFilter
  <2>3. ASSUME NEW x, NEW shift, ToggleSelected(x, shift) PROVE \E p : SanePage(p) /\ Click(p)
    <3>1. \/ Click([page EXCEPT !.selection = RangeSelection(VisibleIds(page), page.anchor, x)])
          \/ Click([page EXCEPT !.selection = ToggleSelection(page.selection, x), !.anchor = x])
      BY <2>3 DEF ToggleSelected
    <3>2. /\ \A s : SanePage([page EXCEPT !.selection = s])
          /\ \A s, y : SanePage([page EXCEPT !.selection = s, !.anchor = y])
      BY <1>1, PageChanges
    <3> QED
      BY <3>1, <3>2
  <2>4. CASE SelectAll
    BY <1>1, <2>4, PageChanges DEF SelectAll
  <2>5. ASSUME NEW x, ToggleEntry(x) PROVE \E p : SanePage(p) /\ Click(p)
    <3>1. Click([page EXCEPT !.selection = ToggleSelection(page.selection, x)])
      BY <2>5 DEF ToggleEntry
    <3>2. \A s : SanePage([page EXCEPT !.selection = s])
      BY <1>1, PageChanges
    <3> QED
      BY <3>1, <3>2
  <2>6. ASSUME NEW x \in Items, DragStart(x) PROVE \E p : SanePage(p) /\ Click(p)
    BY <1>1, <2>6, PageChanges DEF DragStart
  <2>7. CASE DragEnd
    BY <1>1, <2>7, PageChanges DEF DragEnd
  <2> QED
    BY <2>1, <2>2, <2>3, <2>4, <2>5, <2>6, <2>7
<1> QED
  BY <1>2, ClickStep

\* A row by itself.
LEMMA PickedOne ==
  ASSUME NEW r, NEW x \in Live(r)
  PROVE  Picked(r, {x}) = {x}
<1>1. x \in Items
  BY DEF Live
<1>2. CASE x \in Folders
  BY <1>1, <1>2, Ids DEF Picked
<1>3. CASE x \in Jobs
  <2>1. Live(r) \cap {x} \cap Folders = {} /\ Live(r) \cap {x} \cap Jobs = {x}
    BY <1>1, <1>3, Ids
  <2>2. JobsInFolders(r, {}) = {}
    BY DEF JobsInFolders
  <2> QED
    BY <2>1, <2>2 DEF Picked
<1> QED
  BY <1>1, <1>2, <1>3, Ids

LEMMA MoveFair ==
  ASSUME SanePage(page), NEW items, NEW chosen,
         ListOf(items, Picked(page.snap, chosen)), page.on = "library", page.loaded
  PROVE  SanePage([page EXCEPT !.dialog = MoveOf(items, chosen)])
<1> DEFINE d == MoveOf(items, chosen)
<1>1. /\ DOMAIN d = DialogFields /\ d.kind = "move" /\ d.items = items /\ d.chosen = chosen
      /\ d.excluded = ExcludedTargets(page.snap, items)
  BY DEF MoveOf, NoDialog, DialogFields
<1> HIDE DEF d
<1>2. FairDialog(d, page.snap, page.bin)
  BY <1>1 DEF FairDialog, ListOf
<1>3. SanePage([page EXCEPT !.dialog = d])
  BY <1>1, <1>2, PageDialogs
<1> QED
  BY <1>3 DEF d

LEMMA DialogStep ==
  ASSUME ShelfInv, \/ \E x \in Items : OpenMove(x)
                   \/ BulkMove
                   \/ \E kind \in {"folder", "job"} : OpenPrompt(kind)
                   \/ OpenPurge \/ Cancel
  PROVE  ShelfInv' /\ Stays
<1>1. SanePage(page) /\ page.snap \in [Items -> Row]
  BY DEF ShelfInv, SanePage
<1>2. PICK d : OpenDialog(d) /\ SanePage([page EXCEPT !.dialog = d])
  <2>1. ASSUME NEW x \in Items, OpenMove(x)
        PROVE  \E d : OpenDialog(d) /\ SanePage([page EXCEPT !.dialog = d])
    <3>1. /\ page.on = "library" /\ page.loaded /\ x \in Live(page.snap)
          /\ OpenDialog(MoveOf(<<x>>, {x}))
      BY <1>1, <2>1, VisibleLive DEF OpenMove, Shows
    <3>2. ListOf(<<x>>, Picked(page.snap, {x}))
      BY <3>1, PickedOne, SingleList
    <3> QED
      BY <1>1, <3>1, <3>2, MoveFair
  <2>2. ASSUME BulkMove
        PROVE  \E d : OpenDialog(d) /\ SanePage([page EXCEPT !.dialog = d])
    <3>1. /\ page.on = "library" /\ page.loaded
          /\ OpenDialog(MoveOf(SelectionItems(page.snap, page.selection), page.selection))
      BY <2>2 DEF BulkMove, Shows
    <3>2. ListOf(SelectionItems(page.snap, page.selection), Picked(page.snap, page.selection))
      BY <1>1, SelectionList
    <3> QED
      BY <1>1, <3>1, <3>2, MoveFair
  <2>3. ASSUME NEW kind \in {"folder", "job"}, OpenPrompt(kind)
        PROVE  \E d : OpenDialog(d) /\ SanePage([page EXCEPT !.dialog = d])
    <3> DEFINE d == [NoDialog EXCEPT !.kind = kind]
    <3>1. page.on = "library" /\ page.loaded /\ OpenDialog(d)
      BY <2>3 DEF OpenPrompt, Shows
    <3>2. DOMAIN d = DialogFields /\ d.kind = kind
      BY DEF NoDialog, DialogFields
    <3> HIDE DEF d
    <3>3. FairDialog(d, page.snap, page.bin)
      BY <3>2 DEF FairDialog
    <3> QED
      BY <1>1, <3>1, <3>2, <3>3, PageDialogs
  <2>4. ASSUME OpenPurge
        PROVE  \E d : OpenDialog(d) /\ SanePage([page EXCEPT !.dialog = d])
    <3>1. PICK d : /\ OpenDialog(d) /\ DOMAIN d = DialogFields
                   /\ d.kind \in {"purge", "empty"} /\ (d.kind = "empty" => d.chosen = page.bin)
      <4> DEFINE d1 == [NoDialog EXCEPT !.kind = "purge", !.chosen = page.selection]
                 d2 == [NoDialog EXCEPT !.kind = "empty", !.chosen = page.bin]
      <4>1. DOMAIN d1 = DialogFields /\ d1.kind = "purge"
        BY DEF NoDialog, DialogFields
      <4>2. DOMAIN d2 = DialogFields /\ d2.kind = "empty" /\ d2.chosen = page.bin
        BY DEF NoDialog, DialogFields
      <4>3. OpenDialog(d1) \/ OpenDialog(d2)
        BY <2>4 DEF OpenPurge
      <4> HIDE DEF d1, d2
      <4> QED
        BY <4>1, <4>2, <4>3
    <3>2. page.on = "trash"
      BY <2>4 DEF OpenPurge, Shows
    <3>3. FairDialog(d, page.snap, page.bin)
      BY <3>1 DEF FairDialog
    <3> QED
      BY <1>1, <3>1, <3>2, <3>3, PageDialogs
  <2>5. ASSUME Cancel
        PROVE  \E d : OpenDialog(d) /\ SanePage([page EXCEPT !.dialog = d])
    BY <1>1, <2>5, PageDialogs DEF Cancel
  <2> QED
    BY <2>1, <2>2, <2>3, <2>4, <2>5
<1>3. Click([page EXCEPT !.dialog = d])
  BY <1>2 DEF OpenDialog
<1> QED
  BY <1>2, <1>3, ClickStep

-----------------------------------------------------------------------------
(* Commands *)

LEMMA CommandFields ==
  ASSUME NEW op, NEW items, NEW chosen
  PROVE  /\ Command(op, items, chosen).op = op /\ Command(op, items, chosen).items = items
         /\ Command(op, items, chosen).chosen = chosen
         /\ Command(op, items, chosen).place = Root
         /\ DOMAIN Command(op, items, chosen) = {"op", "items", "place", "chosen", "order", "at"}
BY DEF Command, NoCommand

\* What an up-to-date page shows of the library.
LEMMA CurrentLibrary ==
  ASSUME ShelfInv, Current, page.on = "library"
  PROVE  /\ page.dialog.current /\ page.snap = Snapshot(rows) /\ rows \in [Items -> Row]
         /\ Live(page.snap) = Live(rows)
         /\ \A S : Picked(page.snap, S) = Picked(rows, S)
         /\ \A items : ExcludedTargets(page.snap, items) = ExcludedTargets(rows, items)
         /\ page.loaded => IsPlace(page.folder)
<1>1. page.dialog.current /\ page.snap = Snapshot(rows)
  BY DEF Current
<1>2. rows \in [Items -> Row]
  BY SoundRows DEF ShelfInv
<1>3. /\ Live(page.snap) = Live(rows)
      /\ \A S : Picked(page.snap, S) = Picked(rows, S)
      /\ \A items : ExcludedTargets(page.snap, items) = ExcludedTargets(rows, items)
  BY <1>1, <1>2, SnapshotAgrees, SnapshotTree
<1>4. page.loaded => IsPlace(page.folder)
  BY <1>3 DEF ShelfInv, SanePage, IsPlace
<1> QED
  BY <1>1, <1>2, <1>3, <1>4

\* Delete and mark-read, of a row or of the selection.
LEMMA ItemsStep ==
  ASSUME ShelfInv, NEW op \in {"delete", "mark"}, NEW items, NEW chosen, NEW then, NEW p,
         page.on = "library", ListOf(items, Picked(page.snap, chosen)), SanePage(p),
         Run(Command(op, items, chosen), then, p)
  PROVE  ShelfInv' /\ Stays
<1> DEFINE c == Command(op, items, chosen)
<1>1. c.op = op /\ c.items = items /\ c.chosen = chosen /\ c.place = Root
  BY CommandFields
<1>2. Run(c, then, p)
  OBVIOUS
<1> HIDE DEF c
<1>3. Proper(c)
  BY <1>1, Ids DEF Proper
<1>4. Current => Apt(c)
  BY <1>1, CurrentLibrary DEF Apt, ListOf
<1> QED
  BY <1>2, <1>3, <1>4, RunStep

LEMMA RowStep ==
  ASSUME ShelfInv, NEW x \in Items, RowDelete(x) \/ RowMark(x)
  PROVE  ShelfInv' /\ Stays
<1>1. SanePage(page) /\ page.snap \in [Items -> Row]
  BY DEF ShelfInv, SanePage
<1>2. /\ page.on = "library" /\ x \in Live(page.snap)
      /\ \E op \in {"delete", "mark"} : Run(Command(op, <<x>>, {x}), "none", page)
  BY <1>1, VisibleLive DEF RowDelete, RowMark, Shows
<1>3. ListOf(<<x>>, Picked(page.snap, {x}))
  BY <1>2, PickedOne, SingleList
<1> QED
  BY <1>1, <1>2, <1>3, ItemsStep

LEMMA BulkStep ==
  ASSUME ShelfInv, BulkDelete \/ BulkRead
  PROVE  ShelfInv' /\ Stays
<1>1. SanePage(page) /\ page.snap \in [Items -> Row] /\ SanePage(Unselected(page))
  BY PageChanges DEF ShelfInv, SanePage
<1>2. PICK s : s = SelectionItems(page.snap, page.selection)
  OBVIOUS
<1>3. /\ page.on = "library"
      /\ \/ Run(Command("delete", s, page.selection), "none", Unselected(page))
         \/ Run(Command("mark", s, page.selection), "none", page)
  BY <1>2 DEF BulkDelete, BulkRead, Shows
<1>4. ListOf(s, Picked(page.snap, page.selection))
  BY <1>1, <1>2, SelectionList
<1> QED
  BY <1>1, <1>3, <1>4, ItemsStep

LEMMA LiftStep ==
  ASSUME ShelfInv, NEW f \in Folders, RowDeleteOnly(f)
  PROVE  ShelfInv' /\ Stays
<1> DEFINE c == Command("lift", <<f>>, {f})
<1>1. c.op = "lift" /\ c.items = <<f>> /\ c.chosen = {f} /\ c.place = Root
  BY CommandFields
<1>2. Run(c, "none", page) /\ page.on = "library" /\ f \in Members(VisibleIds(page))
  BY DEF RowDeleteOnly, Shows
<1> HIDE DEF c
<1>3. SanePage(page) /\ page.snap \in [Items -> Row]
  BY DEF ShelfInv, SanePage
<1>4. f \in Live(page.snap) /\ f \in Items
  BY <1>2, <1>3, VisibleLive, Ids
<1>5. Proper(c)
  BY <1>1, Ids DEF Proper
<1>6. Current => Apt(c)
  <2>1. Members(<<f>>) = {f}
    BY <1>4, SingleList DEF ListOf
  <2> QED
    BY <1>1, <1>2, <1>4, <2>1, CurrentLibrary DEF Apt
<1> QED
  BY <1>2, <1>3, <1>5, <1>6, RunStep

LEMMA SubmitMoveStep ==
  ASSUME ShelfInv, NEW p \in Places, SubmitMove(p)
  PROVE  ShelfInv' /\ Stays
<1> DEFINE d == page.dialog
           c == [Command("move", d.items, d.chosen) EXCEPT !.place = p]
<1>1. c.op = "move" /\ c.items = d.items /\ c.chosen = d.chosen /\ c.place = p
  <2>1. PICK e : e = Command("move", d.items, d.chosen)
    OBVIOUS
  <2>2. /\ e.op = "move" /\ e.items = d.items /\ e.chosen = d.chosen
        /\ DOMAIN e = {"op", "items", "place", "chosen", "order", "at"}
    BY <2>1, CommandFields
  <2>3. c = [e EXCEPT !.place = p]
    BY <2>1
  <2> HIDE DEF c
  <2> QED
    BY <2>2, <2>3
<1>2. /\ d.kind = "move" /\ p \in Destinations(page)
      /\ Run(c, "clear", [page EXCEPT !.dialog = NoDialog])
  BY DEF SubmitMove
<1> HIDE DEF c
<1>3. /\ SanePage(page) /\ page.on = "library" /\ FairDialog(d, page.snap, page.bin)
  BY <1>2 DEF ShelfInv, SanePage
<1>4. Proper(c)
  BY <1>1, <1>2, <1>3 DEF Proper, FairDialog
<1>5. ASSUME Current PROVE Apt(c)
  <2>1. /\ d.current /\ Live(page.snap) = Live(rows)
        /\ Picked(page.snap, d.chosen) = Picked(rows, d.chosen)
        /\ ExcludedTargets(page.snap, d.items) = ExcludedTargets(rows, d.items)
    BY <1>3, <1>5, CurrentLibrary
  <2>2. /\ Members(d.items) = Picked(rows, d.chosen)
        /\ d.excluded = ExcludedTargets(rows, d.items)
    BY <1>2, <1>3, <2>1 DEF FairDialog
  <2>3. p \in {Root} \cup ((Live(rows) \cap Folders) \ d.excluded)
    BY <1>2, <2>1 DEF Destinations
  <2>4. ASSUME NEW f \in Members(d.items) \cap Folders PROVE p \notin Below(rows, f)
    <3>1. Below(rows, f) \subseteq Folders /\ Root \notin Folders
      BY BelowSelf, Ids
    <3>2. Below(rows, f) \subseteq d.excluded
      BY <2>2 DEF ExcludedTargets
    <3> QED
      BY <2>3, <3>1, <3>2
  <2> QED
    BY <1>1, <2>2, <2>3, <2>4 DEF Apt, IsPlace
<1>6. SanePage([page EXCEPT !.dialog = NoDialog])
  BY <1>3, PageDialogs
<1> QED
  BY <1>2, <1>4, <1>5, <1>6, RunStep

LEMMA SubmitStep ==
  ASSUME ShelfInv, SubmitPrompt \/ SubmitJob
  PROVE  ShelfInv' /\ Stays
<1>1. PICK op : /\ Submit(op) /\ (op = "create folder" \/ op = "create job")
                /\ page.dialog.kind \in {"folder", "job"}
  BY DEF SubmitPrompt, SubmitJob
<1> DEFINE c == [Command(op, <<>>, {}) EXCEPT !.place = page.folder]
<1>2. c.op = op /\ c.place = page.folder
  <2>1. PICK e : e = Command(op, <<>>, {})
    OBVIOUS
  <2>2. e.op = op /\ DOMAIN e = {"op", "items", "place", "chosen", "order", "at"}
    BY <2>1, CommandFields
  <2>3. c = [e EXCEPT !.place = page.folder]
    BY <2>1
  <2> HIDE DEF c
  <2> QED
    BY <2>2, <2>3
<1>3. Run(c, "close", [page EXCEPT !.dialog.busy = TRUE])
  BY <1>1 DEF Submit
<1> HIDE DEF c
<1>4. SanePage(page) /\ page.on = "library" /\ page.loaded /\ page.folder \in Places
  BY <1>1 DEF ShelfInv, SanePage
<1>5. Proper(c)
  BY <1>1, <1>2, <1>4 DEF Proper
<1>6. Current => Apt(c)
  BY <1>1, <1>2, <1>4, CurrentLibrary DEF Apt
<1>7. SanePage([page EXCEPT !.dialog.busy = TRUE])
  BY <1>4, PageDialogs
<1> QED
  BY <1>3, <1>5, <1>6, <1>7, RunStep

LEMMA RestoreStep ==
  ASSUME ShelfInv, NEW S \in SUBSET Items, RestoreEntries(S)
  PROVE  ShelfInv' /\ Stays
<1>1. PICK q : q = Ext!SetToSeq(S) /\ ListOf(q, S)
  BY SetList
<1> DEFINE c == Command("restore", q, S)
<1>2. c.op = "restore" /\ c.items = q /\ c.chosen = S /\ c.place = Root
  BY CommandFields
<1>3. Run(c, "none", page)
  BY <1>1 DEF RestoreEntries
<1> HIDE DEF c
<1>4. Proper(c) /\ Apt(c)
  BY <1>1, <1>2, Ids DEF Proper, Apt, ListOf
<1>5. SanePage(page)
  BY DEF ShelfInv
<1> QED
  BY <1>3, <1>4, <1>5, RunStep

LEMMA SubmitPurgeStep ==
  ASSUME ShelfInv, SubmitPurge
  PROVE  ShelfInv' /\ Stays
<1> DEFINE d == page.dialog
           c == Command(d.kind, <<>>, d.chosen)
<1>1. c.op = d.kind /\ c.chosen = d.chosen /\ c.place = Root
  BY CommandFields
<1>2. Run(c, "none", [page EXCEPT !.dialog = NoDialog]) /\ d.kind \in {"purge", "empty"}
  BY DEF SubmitPurge
<1> HIDE DEF c
<1>3. SanePage(page) /\ page.on = "trash" /\ FairDialog(d, page.snap, page.bin)
  BY <1>2 DEF ShelfInv, SanePage
<1>4. Proper(c)
  BY <1>1, <1>2, Ids DEF Proper
<1>5. ASSUME Current PROVE Apt(c)
  <2>1. d.current /\ page.bin = Entries
    BY <1>3, <1>5 DEF Current
  <2>2. d.kind = "empty" => d.chosen = Entries
    BY <1>3, <2>1 DEF FairDialog
  <2> QED
    BY <1>1, <1>2, <2>2 DEF Apt
<1>6. SanePage([page EXCEPT !.dialog = NoDialog])
  BY <1>3, PageDialogs
<1> QED
  BY <1>2, <1>4, <1>5, <1>6, RunStep

LEMMA DropStep ==
  ASSUME ShelfInv, NEW target \in Items, Drop(target)
  PROVE  ShelfInv' /\ Stays
<1> DEFINE x == page.drag
           p == page.folder
           listed == FolderContents(page.snap, p)
           ids == IF target \in Folders THEN listed.folders ELSE listed.jobs
           order == IF target \in Folders
                    THEN [listed EXCEPT !.folders = ReorderIds(ids, x, target)]
                    ELSE [listed EXCEPT !.jobs = ReorderIds(ids, x, target)]
           c == [Command("reorder", <<>>, {x}) EXCEPT
                   !.place = p, !.order = order, !.at = target]
<1>1. /\ Run(c, "none", [page EXCEPT !.drag = NoEntry])
      /\ page.on = "library" /\ page.loaded
      /\ x \notin {NoEntry, target} /\ target \in Members(ids) /\ KindOf(x) = KindOf(target)
  BY DEF Drop, Shows, DropOn
<1>2. SanePage(page) /\ x \in Items /\ p \in Places /\ page.snap \in [Items -> Row]
  BY <1>1 DEF ShelfInv, SanePage
<1>3. c.op = "reorder" /\ c.chosen = {x} /\ c.place = p /\ c.order = order /\ c.at = target
  <2>1. PICK e : e = Command("reorder", <<>>, {x})
    OBVIOUS
  <2>2. /\ e.op = "reorder" /\ e.chosen = {x}
        /\ DOMAIN e = {"op", "items", "place", "chosen", "order", "at"}
    BY <2>1, CommandFields
  <2>3. c = [e EXCEPT !.place = p, !.order = order, !.at = target]
    BY <2>1
  <2> HIDE DEF c, order
  <2> QED
    BY <2>2, <2>3
<1> HIDE DEF c
<1>4. PICK a, b : /\ a = Sorted(page.snap, Kids(page.snap, Folders, p))
                  /\ b = Sorted(page.snap, Kids(page.snap, Jobs, p))
  OBVIOUS
<1>5. listed = [folders |-> a, jobs |-> b]
  BY <1>4 DEF FolderContents
<1>6. /\ ids = IF target \in Folders THEN a ELSE b
      /\ order.folders = IF target \in Folders THEN ReorderIds(a, x, target) ELSE a
      /\ order.jobs = IF target \in Folders THEN b ELSE ReorderIds(b, x, target)
  BY <1>5
<1> HIDE DEF listed, order, ids
<1>7. Proper(c)
  BY <1>2, <1>3 DEF Proper
<1>8. ASSUME Current PROVE Apt(c)
  <2>1. page.snap = Snapshot(rows) /\ rows \in [Items -> Row] /\ IsPlace(p)
    BY <1>1, <1>8, CurrentLibrary
  <2>2. a = Sorted(rows, Kids(rows, Folders, p)) /\ b = Sorted(rows, Kids(rows, Jobs, p))
    BY <1>4, <2>1, SnapshotOrder
  <2>3. target \in Kids(rows, Items, p)
    <3>1. Members(a) = Kids(rows, Folders, p) /\ Members(b) = Kids(rows, Jobs, p)
      <4>1. Kids(rows, Folders, p) \in SUBSET Items /\ Kids(rows, Jobs, p) \in SUBSET Items
        BY Ids DEF Kids
      <4> QED
        BY <2>1, <2>2, <4>1, SortedLists DEF ListOf
    <3> QED
      BY <1>1, <1>6, <3>1, Ids DEF Kids
  <2>4. target \in Jobs <=> target \notin Folders
    BY Ids
  <2>5. Dropped(c, x, target)
    BY <1>1, <1>3, <1>6, <2>1, <2>2, <2>3, <2>4 DEF Dropped
  <2> QED
    BY <1>2, <1>3, <2>5 DEF Apt
<1>9. SanePage([page EXCEPT !.drag = NoEntry])
  BY <1>2, PageChanges
<1> QED
  BY <1>1, <1>7, <1>8, <1>9, RunStep

-----------------------------------------------------------------------------
(* Every step *)

\* What one step does: whatever command does not wait any more was served,
\* unless a request failed.
Fulfils == \A t \in tasks : t.step = "command" =>
             \/ \E u \in tasks' : u.id = t.id /\ u.step = "command"
             \/ Serve(t)
             \/ hist'.faults # hist.faults

LEMMA ShelfStep ==
  ASSUME ShelfInv, ShelfNext
  PROVE  ShelfInv' /\ Fulfils
<1>1. Stays => Fulfils
  BY DEF Stays, Fulfils
<1>2. ASSUME NEW t \in tasks, Serve(t) PROVE ShelfInv' /\ Fulfils
  BY <1>2, ServeStep DEF StaysBut, Fulfils
<1>3. ASSUME NEW t \in tasks, Fails(t) PROVE ShelfInv' /\ Fulfils
  BY <1>3, FailsStep DEF Fulfils
<1>4. ASSUME NEW t \in tasks, Read(t) \/ Arrive(t) \/ Refused(t) PROVE ShelfInv' /\ Fulfils
  BY <1>1, <1>4, ReadStep, ArriveStep, RefusedStep
<1>5. CASE \/ \E f \in Places : OpenFolder(f)
           \/ \E j \in Jobs : OpenJob(j)
           \/ OpenTrash \/ Back
  BY <1>1, <1>5, MovingStep
<1>6. CASE \/ ToggleOrganize
           \/ \E filter : SetFilter(filter)
           \/ \E x, shift : ToggleSelected(x, shift)
           \/ SelectAll
           \/ \E x : ToggleEntry(x)
           \/ \E x \in Items : DragStart(x)
           \/ DragEnd
  BY <1>1, <1>6, ChoosingStep
<1>7. CASE \/ \E x \in Items : OpenMove(x)
           \/ BulkMove
           \/ \E kind \in {"folder", "job"} : OpenPrompt(kind)
           \/ OpenPurge \/ Cancel
  BY <1>1, <1>7, DialogStep
<1>8. CASE \/ \E x \in Items : Drop(x) \/ RowDelete(x) \/ RowMark(x)
           \/ \E f \in Folders : RowDeleteOnly(f)
           \/ BulkDelete \/ BulkRead
           \/ \E p \in Places : SubmitMove(p)
  BY <1>1, <1>8, DropStep, RowStep, LiftStep, BulkStep, SubmitMoveStep
<1>9. CASE \/ SubmitPrompt \/ SubmitJob
           \/ \E S \in SUBSET Items : RestoreEntries(S)
           \/ SubmitPurge
  BY <1>1, <1>9, SubmitStep, RestoreStep, SubmitPurgeStep
<1>10. CASE Elsewhere
  BY <1>1, <1>10, ElsewhereStep
<1>11. CASE (\E j \in Jobs : Deliver(j)) \/ JobEvent \/ TimerAges \/ TimerFires \/ Retry
  BY <1>1, <1>11, EventStep
<1> QED
  BY <1>2, <1>3, <1>4, <1>5, <1>6, <1>7, <1>8, <1>9, <1>10, <1>11 DEF ShelfNext, Answers

LEMMA StillStep ==
  ASSUME ShelfInv, UNCHANGED shelfVars
  PROVE  ShelfInv' /\ Stays
<1>1. UNCHANGED vars /\ page' = page /\ tasks' = tasks /\ hist' = hist
  BY DEF shelfVars, vars
<1> QED
  BY <1>1, Quiet DEF ShelfInv, Stays

LEMMA BegunSound ==
  ASSUME NEW s, Sound(s.rows, s.trash), s.faults \in Nat, Begun(s)
  PROVE  ShelfInv
<1>1. /\ rows = s.rows /\ trash = s.trash /\ page = NoPage(s.on, Root)
      /\ tasks = (IF s.on = "reader" THEN {} ELSE Refresh({}))
      /\ DOMAIN hist = HistFields /\ hist.faults = s.faults
  BY DEF Begun, HistFields
<1>2. SanePage(page)
  BY <1>1, FreshPage, Ids
<1>3. \A t \in Refresh({}) : Formed(t) /\ Aimed(t)
  BY RefreshTask
<1> QED
  BY <1>1, <1>2, <1>3 DEF ShelfInv

LEMMA BlankSound == Sound(Blank, [x \in Items |-> NoEntry])
<1>1. Blank \in [Items -> Row]
  BY BlankRows
<1>2. \A x \in Items : /\ Blank[x].state = "gone" /\ Blank[x].parent = Root
                       /\ Blank[x].entry = NoEntry
  BY DEF Blank, NoRow
<1>3. \A x \in Items : ~Placed(Blank, x)
  BY <1>2 DEF Placed
<1>4. Grounded(Blank)
  BY <1>2 DEF Grounded
<1>5. Marked(Blank) /\ Parented(Blank)
  BY <1>2 DEF Marked, Parented
<1>6. Recorded(Blank, [x \in Items |-> NoEntry])
  BY <1>2, Ids DEF Recorded
<1>7. Spread(Blank)
  BY <1>3 DEF Spread
<1> QED
  BY <1>1, <1>4, <1>5, <1>6, <1>7 DEF Sound

-----------------------------------------------------------------------------
(* The admin page *)

AskFields == {"id", "op", "step", "mine", "chunk", "draft", "tick", "config", "view",
              "recent", "after"}
ConFields == {"tab", "tick", "config", "form", "model", "q", "line"}
TabFields == {"view", "selected", "editing", "draft", "pending"}

\* A request whose draft, if it is a reprocess, is of the take it names.
Fair(a) ==
  /\ DOMAIN a = AskFields
  /\ a.op = "reprocess" => a.draft = a.chunk

\* A page whose open editor is of the selected take, or of none.
SaneTab(q) ==
  /\ DOMAIN q = TabFields
  /\ q.editing => q.selected \in {q.draft, NoKey}

Sane(c) == DOMAIN c = ConFields /\ SaneTab(c.q)

FairAsks == \A a \in asks : Fair(a)

ConsoleInv == Sane(con) /\ FairAsks

-----------------------------------------------------------------------------
(* Requests *)

LEMMA NewAskFair ==
  ASSUME NEW as, NEW op
  PROVE  /\ DOMAIN NewAsk(as, op) = AskFields
         /\ NewAsk(as, op).op = op
         /\ NewAsk(as, op).draft = NewAsk(as, op).chunk
         /\ Fair(NewAsk(as, op))
BY DEF NewAsk, AskFields, Fair

\* Nothing but the draft, the chunk and the kind of a request matters.
LEMMA ChangedFair ==
  ASSUME NEW a, Fair(a)
  PROVE  /\ \A x : Fair([a EXCEPT !.step = x])
         /\ \A x : Fair([a EXCEPT !.mine = x])
         /\ \A x : Fair([a EXCEPT !.recent = x])
         /\ \A x : Fair([a EXCEPT !.after = x])
         /\ \A x, y : Fair([[a EXCEPT !.view = x, !.recent = y] EXCEPT !.step = "answer"])
         /\ \A x, y : Fair([[a EXCEPT !.tick = x, !.config = y] EXCEPT !.step = "answer"])
         /\ \A x, y : Fair([a EXCEPT !.config = x, !.tick = y])
BY DEF Fair, AskFields

-----------------------------------------------------------------------------
(* The page *)

\* What the editor does not depend on.
LEMMA ChangedSane ==
  ASSUME NEW c, Sane(c)
  PROVE  /\ \A x : Sane([c EXCEPT !.tick = x])
         /\ \A x : Sane([c EXCEPT !.config = x])
         /\ \A x : Sane([c EXCEPT !.form = x])
         /\ \A x : Sane([c EXCEPT !.model = x])
         /\ \A x : Sane([c EXCEPT !.line = x])
         /\ \A x, y : Sane([c EXCEPT !.config = x, !.form = y])
         /\ \A x : SaneTab(x) => Sane([c EXCEPT !.q = x])
BY DEF Sane, ConFields

LEMMA TabSane ==
  ASSUME NEW q, SaneTab(q)
  PROVE  /\ SaneTab(NoQueue)
         /\ SaneTab(Unedited(q)) /\ ~Unedited(q).editing
         /\ \A k : SaneTab(Select(q, k))
         /\ SaneTab([q EXCEPT !.selected = NoKey])
         /\ SaneTab([q EXCEPT !.editing = TRUE, !.draft = q.selected])
         /\ \A x : SaneTab([q EXCEPT !.pending = x])
         /\ \A x : SaneTab([q EXCEPT !.view = x])
<1>1. SaneTab(NoQueue)
  BY DEF SaneTab, TabFields, NoQueue
<1>2. SaneTab(Unedited(q)) /\ ~Unedited(q).editing
  BY DEF SaneTab, TabFields, Unedited
<1>3. \A k : SaneTab(Select(q, k))
  BY DEF SaneTab, TabFields, Select, Unedited
<1>4. SaneTab([q EXCEPT !.selected = NoKey])
  BY DEF SaneTab, TabFields
<1>5. SaneTab([q EXCEPT !.editing = TRUE, !.draft = q.selected])
  BY DEF SaneTab, TabFields
<1>6. /\ \A x : SaneTab([q EXCEPT !.pending = x])
      /\ \A x : SaneTab([q EXCEPT !.view = x])
  BY DEF SaneTab, TabFields
<1> QED
  BY <1>1, <1>2, <1>3, <1>4, <1>5, <1>6

LEMMA EndedSane ==
  ASSUME NEW c, Sane(c), NEW op
  PROVE  Sane(Ended(c, op))
<1> DEFINE q == IF op = "reprocess" THEN Unedited(c.q) ELSE c.q
<1>1. SaneTab([q EXCEPT !.pending = FALSE])
  BY TabSane DEF Sane
<1>2. op # "none" => Ended(c, op) = [c EXCEPT !.q = [q EXCEPT !.pending = FALSE]]
  BY DEF Ended
<1>3. op = "none" => Ended(c, op) = c
  BY DEF Ended
<1>4. Sane([c EXCEPT !.q = [q EXCEPT !.pending = FALSE]])
  BY <1>1, ChangedSane
<1> QED
  BY <1>2, <1>3, <1>4

LEMMA TickKnown ==
  ASSUME NEW c, Sane(c), NEW t, NEW as, \A a \in as : Fair(a), WithTick(c, t, as)
  PROVE  ConsoleInv'
<1>1. Sane(con')
  BY ChangedSane DEF WithTick
<1>2. \A a \in asks' : Fair(a)
  <2>1. Fair(NewAsk(as, "load"))
    BY NewAskFair
  <2> QED
    BY <2>1 DEF WithTick
<1> QED
  BY <1>1, <1>2 DEF ConsoleInv, FairAsks, Fair, Sane, SaneTab

\* A step that keeps the page sane and the requests fair.
LEMMA KeptConsole ==
  ASSUME Sane(con'), \A a \in asks' : Fair(a)
  PROVE  ConsoleInv'
BY DEF ConsoleInv, FairAsks, Fair, Sane, SaneTab

-----------------------------------------------------------------------------
(* The server and the link *)

LEMMA ServerStep ==
  ASSUME ConsoleInv, Shift \/ Broadcast \/ Reconnect \/ TickArrives
  PROVE  ConsoleInv'
<1>1. Sane(con) /\ \A a \in asks : Fair(a)
  BY DEF ConsoleInv, FairAsks
<1>2. CASE Shift
  BY <1>1, <1>2, KeptConsole DEF Shift
<1>3. CASE Broadcast
  BY <1>1, <1>3, KeptConsole, ChangedSane DEF Broadcast
<1>4. CASE Reconnect
  <2>1. Sane(con')
    BY <1>1, <1>4, ChangedSane DEF Reconnect
  <2>2. Fair(NewAsk(asks, "sync"))
    BY NewAskFair
  <2>3. \A a \in asks' : Fair(a)
    BY <1>1, <1>4, <2>2 DEF Reconnect, Asked
  <2> QED
    BY <2>1, <2>3, KeptConsole
<1>5. CASE TickArrives
  <2> DEFINE old == {IF a.op = "load" THEN [a EXCEPT !.recent = FALSE] ELSE a : a \in asks}
  <2>1. \A a \in old : Fair(a)
    <3>1. \A a \in asks : Fair([a EXCEPT !.recent = FALSE])
      BY <1>1, ChangedFair
    <3> QED
      BY <1>1, <3>1
  <2>2. PICK t : \E as \in {old, asks} : WithTick([con EXCEPT !.line = NoTick], t, as)
    BY <1>5 DEF TickArrives
  <2>3. Sane([con EXCEPT !.line = NoTick])
    BY <1>1, ChangedSane
  <2> QED
    BY <1>1, <2>1, <2>2, <2>3, TickKnown
<1> QED
  BY <1>2, <1>3, <1>4, <1>5

LEMMA HandleStep ==
  ASSUME ConsoleInv, NEW a \in asks, Handle(a)
  PROVE  ConsoleInv'
<1>1. Sane(con) /\ Fair(a) /\ \A b \in asks : Fair(b)
  BY DEF ConsoleInv, FairAsks
<1>2. con' = con
  BY DEF Handle
<1>3. PICK b : Fair(b) /\ asks' = (asks \ {a}) \cup {b}
  <2> DEFINE Becomes(b) == asks' = (asks \ {a}) \cup {b}
  <2>1. \/ Becomes([[a EXCEPT !.view = View, !.recent = TRUE] EXCEPT !.step = "answer"])
        \/ Becomes([[a EXCEPT !.tick = Tick, !.config = queue.config] EXCEPT !.step = "answer"])
        \/ Becomes([a EXCEPT !.step = "answer"])
        \/ Becomes([a EXCEPT !.step = "refused"])
    BY DEF Handle
  <2>2. /\ Fair([[a EXCEPT !.view = View, !.recent = TRUE] EXCEPT !.step = "answer"])
        /\ Fair([[a EXCEPT !.tick = Tick, !.config = queue.config] EXCEPT !.step = "answer"])
        /\ Fair([a EXCEPT !.step = "answer"])
        /\ Fair([a EXCEPT !.step = "refused"])
    BY <1>1, ChangedFair
  <2> QED
    BY <2>1, <2>2
<1> QED
  BY <1>1, <1>2, <1>3, KeptConsole

LEMMA LostStep ==
  ASSUME ConsoleInv, NEW a \in asks, Lost(a)
  PROVE  ConsoleInv'
<1>1. Sane(con) /\ Fair(a) /\ \A b \in asks : Fair(b)
  BY DEF ConsoleInv, FairAsks
<1>2. Fair([a EXCEPT !.step = "refused"])
  BY <1>1, ChangedFair
<1>3. con' = con /\ \A b \in asks' : Fair(b)
  BY <1>1, <1>2 DEF Lost
<1> QED
  BY <1>1, <1>3, KeptConsole

-----------------------------------------------------------------------------
(* Answers *)

LEMMA AnswerStep ==
  ASSUME ConsoleInv, NEW a \in asks, Synced(a) \/ Loaded(a) \/ Saved(a) \/ ModelDone(a)
  PROVE  ConsoleInv'
<1>1. Sane(con) /\ \A b \in asks \ {a} : Fair(b)
  BY DEF ConsoleInv, FairAsks
<1>2. CASE Synced(a)
  <2>1. CASE a.step = "refused"
    BY <1>1, <1>2, <2>1, KeptConsole DEF Synced
  <2>2. CASE a.step # "refused"
    <3>1. WithTick(FormFilled([con EXCEPT !.config = a.config]), a.tick, asks \ {a})
      BY <1>2, <2>2 DEF Synced
    <3>2. Sane([con EXCEPT !.config = a.config])
      BY <1>1, ChangedSane
    <3>3. \A c : Sane(c) => Sane(FormFilled(c))
      BY ChangedSane DEF FormFilled
    <3> QED
      BY <1>1, <3>1, <3>2, <3>3, TickKnown
  <2> QED
    BY <2>1, <2>2
<1>3. CASE Loaded(a)
  <2>1. Sane([con EXCEPT !.q.view = a.view])
    <3>1. SaneTab([con.q EXCEPT !.view = a.view])
      BY <1>1, TabSane DEF Sane
    <3>2. [con EXCEPT !.q.view = a.view] = [con EXCEPT !.q = [con.q EXCEPT !.view = a.view]]
      OBVIOUS
    <3> QED
      BY <1>1, <3>1, <3>2, ChangedSane
  <2>2. PICK c \in {con, [con EXCEPT !.q.view = a.view]} : con' = Ended(c, a.after)
    BY <1>3 DEF Loaded
  <2>3. Sane(con')
    BY <1>1, <2>1, <2>2, EndedSane
  <2> QED
    BY <1>1, <1>3, <2>3, KeptConsole DEF Loaded
<1>4. CASE Saved(a)
  <2>1. CASE a.step = "refused"
    BY <1>1, <1>4, <2>1, KeptConsole DEF Saved
  <2>2. CASE a.step # "refused"
    <3>1. PICK x : WithTick([con EXCEPT !.config = a.config, !.form = x], a.tick, asks \ {a})
      BY <1>4, <2>2 DEF Saved
    <3> QED
      BY <1>1, <3>1, ChangedSane, TickKnown
  <2> QED
    BY <2>1, <2>2
<1>5. CASE ModelDone(a)
  BY <1>1, <1>5, ChangedSane, KeptConsole DEF ModelDone
<1> QED
  BY <1>2, <1>3, <1>4, <1>5

LEMMA ActedStep ==
  ASSUME ConsoleInv, NEW a \in asks, Acted(a)
  PROVE  ConsoleInv'
<1>1. Sane(con) /\ \A b \in asks \ {a} : Fair(b)
  BY DEF ConsoleInv, FairAsks
<1>2. CASE a.step = "answer" /\ a.mine
  <2>1. /\ asks' = (asks \ {a}) \cup {[NewAsk(asks, "load") EXCEPT !.after = a.op]}
        /\ con' = con
    BY <1>2 DEF Acted
  <2>2. Fair([NewAsk(asks, "load") EXCEPT !.after = a.op])
    BY NewAskFair, ChangedFair
  <2> QED
    BY <1>1, <2>1, <2>2, KeptConsole
<1>3. CASE ~(a.step = "answer" /\ a.mine)
  <2>1. asks' = asks \ {a} /\ con' \in {con, Ended(con, a.op)}
    BY <1>3 DEF Acted
  <2> QED
    BY <1>1, <2>1, EndedSane, KeptConsole
<1> QED
  BY <1>2, <1>3

-----------------------------------------------------------------------------
(* What the user does *)

LEMMA FormStep ==
  ASSUME ConsoleInv, \/ \E tab \in {"overview", "queue"} : OpenTab(tab)
               \/ EditForm \/ SaveForm \/ UseModel \/ RefreshQueue
  PROVE  ConsoleInv'
<1>1. Sane(con) /\ \A b \in asks : Fair(b)
  BY DEF ConsoleInv, FairAsks
<1>2. ASSUME NEW tab, OpenTab(tab) PROVE ConsoleInv'
  <2> DEFINE opened == [con EXCEPT !.tab = tab, !.q = NoQueue, !.form = NoForm, !.model = FALSE]
  <2>1. Sane(opened)
    <3>1. SaneTab(NoQueue)
      BY <1>1, TabSane DEF Sane
    <3> QED
      BY <1>1, <3>1 DEF Sane, ConFields
  <2>2. con' = FormFilled(opened)
    BY <1>2 DEF OpenTab
  <2> HIDE DEF opened
  <2>3. Sane(con')
    BY <2>1, <2>2, ChangedSane DEF FormFilled
  <2>4. \A b \in Closed(asks) : Fair(b)
    <3>1. \A b \in asks : Fair([b EXCEPT !.mine = FALSE])
      BY <1>1, ChangedFair
    <3> QED
      BY <3>1 DEF Closed
  <2>5. asks' = Closed(asks) \/ asks' = Closed(asks) \cup {NewAsk(asks, "load")}
    BY <1>2 DEF OpenTab
  <2> QED
    BY <2>3, <2>4, <2>5, NewAskFair, KeptConsole
<1>3. CASE EditForm
  BY <1>1, <1>3, ChangedSane, KeptConsole DEF EditForm
<1>4. CASE SaveForm
  <2>1. asks' = asks \cup {[NewAsk(asks, "save") EXCEPT !.config = con.form, !.tick = con.tick]}
    BY <1>4 DEF SaveForm
  <2>2. Fair([NewAsk(asks, "save") EXCEPT !.config = con.form, !.tick = con.tick])
    BY NewAskFair, ChangedFair
  <2> QED
    BY <1>1, <1>4, <2>1, <2>2, KeptConsole DEF SaveForm
<1>5. CASE UseModel
  <2>1. Sane(con')
    <3>1. con' = [con EXCEPT !.model = TRUE]
      BY <1>5 DEF UseModel
    <3> QED
      BY <1>1, <3>1, ChangedSane
  <2>2. Fair(NewAsk(asks, "model"))
    BY NewAskFair
  <2>3. \A b \in asks' : Fair(b)
    BY <1>1, <1>5, <2>2 DEF UseModel, Asked
  <2> QED
    BY <2>1, <2>3, KeptConsole
<1>6. CASE RefreshQueue
  <2>1. Fair(NewAsk(asks, "load"))
    BY NewAskFair
  <2> QED
    BY <1>1, <1>6, <2>1, KeptConsole DEF RefreshQueue, Asked
<1> QED
  BY <1>2, <1>3, <1>4, <1>5, <1>6

LEMMA EditorStep ==
  ASSUME ConsoleInv, \/ \E c \in Chunk : SelectChunk(c)
               \/ CloseSidebar \/ StartEditing \/ CancelEditing
  PROVE  ConsoleInv'
<1>1. Sane(con) /\ \A b \in asks : Fair(b)
  BY DEF ConsoleInv, FairAsks
<1>2. asks' = asks
  BY DEF SelectChunk, CloseSidebar, StartEditing, CancelEditing
<1>3. PICK q : SaneTab(q) /\ con' = [con EXCEPT !.q = q]
  <2>1. ASSUME NEW c \in Chunk, SelectChunk(c)
        PROVE  con' = [con EXCEPT !.q = Select(con.q, <<c, con.q.view.take[c]>>)]
    BY <2>1 DEF SelectChunk
  <2>2. CloseSidebar => con' = [con EXCEPT !.q = [con.q EXCEPT !.selected = NoKey]]
    BY DEF CloseSidebar
  <2>3. StartEditing => con' = [con EXCEPT !.q = [con.q EXCEPT !.editing = TRUE,
                                                           !.draft = con.q.selected]]
    BY <1>1 DEF StartEditing, Sane, ConFields
  <2>4. CancelEditing => con' = [con EXCEPT !.q = Unedited(con.q)]
    BY DEF CancelEditing
  <2>5. SaneTab(con.q)
    BY <1>1 DEF Sane
  <2> QED
    BY <2>1, <2>2, <2>3, <2>4, <2>5, TabSane
<1> QED
  BY <1>1, <1>2, <1>3, ChangedSane, KeptConsole

\* The sidebar is shown, so something is selected: what the draft is of.
LEMMA RunActionStep ==
  ASSUME ConsoleInv, NEW op, NEW take, RunAction(op, take), op = "reprocess" => con.q.editing
  PROVE  ConsoleInv'
<1>1. Sane(con) /\ \A b \in asks : Fair(b)
  BY DEF ConsoleInv, FairAsks
<1> DEFINE draft == IF op = "reprocess" THEN con.q.draft ELSE NoKey
           a == [NewAsk(asks, op) EXCEPT !.chunk = con.q.selected, !.draft = draft,
                                         !.config = take]
<1>2. con' = [con EXCEPT !.q.pending = TRUE] /\ asks' = asks \cup {a}
  BY DEF RunAction
<1>3. con.q.selected # NoKey
  BY DEF RunAction, Sidebar, Shown
<1>4. op = "reprocess" => con.q.selected = draft
  BY <1>1, <1>3 DEF Sane, SaneTab
<1>5. DOMAIN NewAsk(asks, op) = AskFields /\ NewAsk(asks, op).op = op
  BY NewAskFair
<1>6. Fair(a)
  <2> HIDE DEF draft
  <2> QED
    BY <1>4, <1>5 DEF Fair, AskFields
<1>7. Sane(con')
  <2>1. SaneTab([con.q EXCEPT !.pending = TRUE])
    BY <1>1, TabSane DEF Sane
  <2>2. con' = [con EXCEPT !.q = [con.q EXCEPT !.pending = TRUE]]
    BY <1>2
  <2> QED
    BY <1>1, <2>1, <2>2, ChangedSane
<1> QED
  BY <1>1, <1>2, <1>6, <1>7, KeptConsole

LEMMA UserMovesStep ==
  ASSUME ConsoleInv, UserMoves
  PROVE  ConsoleInv'
<1>1. CASE SubmitReprocess
  BY <1>1, RunActionStep DEF SubmitReprocess
<1>2. ASSUME NEW v, SetActive(v) PROVE ConsoleInv'
  BY <1>2, RunActionStep DEF SetActive
<1>3. CASE PauseResume
  <2>1. PICK op \in {"resume", "pause"} : RunAction(op, NoForm)
    BY <1>3 DEF PauseResume
  <2> QED
    BY <2>1, RunActionStep
<1> QED
  BY <1>1, <1>2, <1>3, FormStep, EditorStep DEF UserMoves

LEMMA ConsoleStep ==
  ASSUME ConsoleInv, ConsoleNext
  PROVE  ConsoleInv'
BY ServerStep, HandleStep, LostStep, AnswerStep, ActedStep, UserMovesStep
   DEF ConsoleNext, Answering

-----------------------------------------------------------------------------
(* Theorems *)

LEMMA ShelfInvariance == PagesSpec => []ShelfInv /\ [][Fulfils]_shelfVars
<1>1. PagesInit => ShelfInv
  <2>1. ASSUME ShelfInit PROVE ShelfInv
    BY <2>1, ShelfAssumption, BegunSound DEF ShelfInit
  <2>2. ASSUME NoShelf PROVE ShelfInv
    <3> DEFINE s == [rows |-> Blank, trash |-> [x \in Items |-> NoEntry], on |-> "reader",
                     steps |-> 0, faults |-> 0]
    <3>1. Sound(s.rows, s.trash) /\ s.faults \in Nat
      BY BlankSound
    <3>2. Begun(s)
      BY <2>2 DEF NoShelf
    <3> HIDE DEF s
    <3> QED
      BY <3>1, <3>2, BegunSound
  <2> QED
    BY <2>1, <2>2 DEF PagesInit
<1>2. ShelfInv /\ [PagesNext]_pagesVars => ShelfInv' /\ [Fulfils]_shelfVars
  <2>1. CASE UNCHANGED shelfVars
    BY <2>1, StillStep
  <2>2. CASE ShelfNext
    BY <2>2, ShelfStep
  <2> QED
    BY <2>1, <2>2 DEF PagesNext, pagesVars
<1> QED
  BY <1>1, <1>2, PTL DEF PagesSpec

\* A command given on a listing that is still what the server has does to the
\* tree what the page let the user mean by it.
THEOREM CommandsDoAsMeant == PagesSpec => ServedAsMeant
<1>1. ASSUME ShelfInv, [PagesNext]_pagesVars
      PROVE  [\A t \in tasks :
                t.fresh /\ IsServed(t) /\ hist'.faults = hist.faults => Meant(t.cmd)]_shelfVars
  <2>1. CASE UNCHANGED shelfVars
    BY <2>1
  <2>2. CASE ShelfNext
    <3>1. ASSUME NEW t \in tasks, t.fresh, IsServed(t), hist'.faults = hist.faults
          PROVE  Meant(t.cmd)
      <4>1. Serve(t) /\ t.step = "command"
        BY <2>2, <3>1, <1>1, ShelfStep DEF Fulfils, IsServed
      <4>2. Sound(rows, trash) /\ Proper(t.cmd) /\ Apt(t.cmd)
        BY <1>1, <3>1, <4>1 DEF ShelfInv, Formed, Aimed
      <4> QED
        BY <4>1, <4>2, ServeAsMeant
    <3> QED
      BY <3>1
  <2> QED
    BY <1>1, <2>1, <2>2 DEF PagesNext, pagesVars
<1>2. ShelfInv /\ [PagesNext]_pagesVars =>
        [\A t \in tasks :
           t.fresh /\ IsServed(t) /\ hist'.faults = hist.faults => Meant(t.cmd)]_shelfVars
  BY <1>1
<1> QED
  BY <1>2, ShelfInvariance, PTL DEF PagesSpec, ServedAsMeant

LEMMA OpenedFine ==
  ASSUME NEW o, o.tab \in {"overview", "queue", "closed"}, Opened(o)
  PROVE  ConsoleInv
<1>1. Sane(con)
  BY DEF Opened, Sane, ConFields, SaneTab, TabFields, NoQueue
<1>2. FairAsks
  <2>1. /\ Fair(NewAsk({}, "sync"))
        /\ Fair(NewAsk({NewAsk({}, "sync")}, "load"))
    BY NewAskFair
  <2>2. \/ asks = {} \/ asks = {NewAsk({}, "sync")}
        \/ asks = {NewAsk({}, "sync"), NewAsk({NewAsk({}, "sync")}, "load")}
    BY DEF Opened
  <2> QED
    BY <2>1, <2>2 DEF FairAsks
<1> QED
  BY <1>1, <1>2 DEF ConsoleInv

LEMMA ConsoleInvariance == PagesSpec => []ConsoleInv
<1>1. PagesInit => ConsoleInv
  BY ConsoleAssumption, OpenedFine DEF PagesInit, NoConsole, ConsoleInit
<1>2. ConsoleInv /\ [PagesNext]_pagesVars => ConsoleInv'
  <2>1. CASE UNCHANGED consoleVars
    BY <2>1 DEF consoleVars, ConsoleInv, Sane, SaneTab, FairAsks, Fair
  <2> QED
    BY <2>1, ConsoleStep DEF PagesNext, pagesVars
<1> QED
  BY <1>1, <1>2, PTL DEF PagesSpec

\* The text of one chunk is never sent for another, nor that of one take for
\* another take of the chunk.
THEOREM DraftsStayTheirs == PagesSpec => []DraftBelongs
<1>1. ConsoleInv => DraftBelongs
  BY DEF ConsoleInv, FairAsks, Fair, DraftBelongs
<1> QED
  BY <1>1, ConsoleInvariance, PTL
=============================================================================
