--------------------------- MODULE LibraryProofs ---------------------------
(***************************************************************************)
(* Theorems about Library, for any folders and jobs: the tree, the order   *)
(* of siblings and the trash stay sound whatever is moved, trashed,        *)
(* restored and purged.                                                    *)
(***************************************************************************)
EXTENDS Library, FiniteSetTheorems, WellFoundedInduction, TLAPS

\* A job that was hard deleted.
Removed(r, x) == x \in Jobs /\ r[x].state = "gone"

\* Entries and the rows they are for.
Named(r, t) ==
  \A x \in Items :
    /\ t[x] # NoEntry => r[x].entry = x \/ Removed(r, x)
    /\ r[x].state = "trashed" => t[r[x].entry] # NoEntry

\* The inductive invariant.
IInv ==
  /\ Sound(rows, trash)
  /\ Named(rows, trash)

-----------------------------------------------------------------------------
(* Ids *)

LEMMA Ids ==
  /\ Folders \subseteq Items /\ Jobs \subseteq Items /\ Folders \subseteq Places
  /\ Root \notin Items /\ NoEntry \notin Items /\ NoEntry # Root
  /\ Root \in Places /\ Places = Folders \cup {Root}
  /\ \A x \in Items : /\ x \in Folders <=> x \notin Jobs
                      /\ KindOf(x) = Folders \/ KindOf(x) = Jobs
                      /\ x \in KindOf(x) /\ KindOf(x) \subseteq Items
  /\ \A x, y \in Items : KindOf(x) = KindOf(y) <=> (x \in Folders <=> y \in Folders)
  /\ \A x, y \in Items : y \in KindOf(x) => KindOf(y) = KindOf(x)
BY LibraryAssumption DEF Items, Places, KindOf

-----------------------------------------------------------------------------
(* Subfolders *)

LEMMA BelowSelf ==
  ASSUME NEW r, NEW f \in Folders
  PROVE  f \in Below(r, f) /\ Below(r, f) \subseteq Folders
BY DEF Below

LEMMA BelowStep ==
  ASSUME NEW r, NEW f \in Folders, NEW h \in Folders,
         r[h].state = "live", r[h].parent \in Below(r, f)
  PROVE  h \in Below(r, f)
<1>1. ASSUME NEW S \in SUBSET Folders, f \in S,
             \A k \in Folders : r[k].state = "live" /\ r[k].parent \in S => k \in S
      PROVE  h \in S
  <2>1. r[h].parent \in S
    BY <1>1 DEF Below
  <2> QED
    BY <1>1, <2>1
<1> QED
  BY <1>1 DEF Below

\* Whatever is below f, and is not f, hangs on something below f.
LEMMA BelowInversion ==
  ASSUME NEW r, NEW f \in Folders, NEW g \in Below(r, f), g # f
  PROVE  r[g].state = "live" /\ r[g].parent \in Below(r, f)
<1> DEFINE B == Below(r, f)
           S == B \ {g}
<1>1. f \in S /\ S \in SUBSET Folders
  BY BelowSelf
<1>2. SUFFICES ASSUME ~(r[g].state = "live" /\ r[g].parent \in B)
               PROVE  FALSE
  OBVIOUS
<1>3. ASSUME NEW k \in Folders, r[k].state = "live", r[k].parent \in S
      PROVE  k \in S
  <2>1. k \in B
    BY <1>3, BelowStep
  <2> QED
    BY <1>2, <1>3, <2>1
<1>4. g \in S
  BY <1>1, <1>3 DEF Below
<1> QED
  BY <1>4

\* Two folders with a common subfolder contain one another.
LEMMA BelowLinear ==
  ASSUME NEW r, NEW f \in Folders, NEW g \in Folders, NEW h,
         h \in Below(r, f), h \in Below(r, g)
  PROVE  f \in Below(r, g) \/ g \in Below(r, f)
<1> SUFFICES ASSUME f \notin Below(r, g), g \notin Below(r, f)
             PROVE  FALSE
  OBVIOUS
<1> DEFINE S == Below(r, g) \ Below(r, f)
<1>1. g \in S /\ S \in SUBSET Folders
  BY BelowSelf
<1>2. ASSUME NEW k \in Folders, r[k].state = "live", r[k].parent \in S
      PROVE  k \in S
  <2>1. k \in Below(r, g)
    BY <1>2, BelowStep
  <2>2. k \notin Below(r, f)
    BY <1>2, <2>1, BelowInversion
  <2> QED
    BY <2>1, <2>2
<1>3. h \in S
  BY <1>1, <1>2 DEF Below
<1> QED
  BY <1>3

-----------------------------------------------------------------------------
(* Bundles *)

LEMMA TopItemsSelected ==
  ASSUME NEW S
  PROVE  /\ TopItems(S) \subseteq S /\ TopItems(S) \subseteq Items
         /\ TopFolders(S) \subseteq Folders
         /\ \A x \in TopItems(S) : x \in Folders => x \in TopFolders(S)
         /\ \A x \in TopFolders(S) : x \in TopItems(S)
BY Ids DEF TopItems, TopFolders

LEMMA BundleHasRoot ==
  ASSUME NEW x \in Live(rows)
  PROVE  x \in Bundle(x) /\ Bundle(x) \subseteq Live(rows)
BY BelowSelf, Ids DEF Bundle, Live

\* What is in a bundle and is not its root hangs on a folder of the bundle.
LEMMA BundleParent ==
  ASSUME Parented(rows), NEW x \in Live(rows), NEW y \in Bundle(x), y # x
  PROVE  /\ x \in Folders /\ rows[y].parent \in Folders
         /\ rows[y].parent \in Below(rows, x) /\ rows[y].parent \in Bundle(x)
<1>1. x \in Folders /\ y \in Live(rows)
  BY Ids DEF Bundle, Live
<1>2. rows[y].parent \in Below(rows, x)
  BY <1>1, BelowInversion DEF Bundle
<1>3. rows[y].parent \in Folders
  BY <1>1, <1>2, BelowSelf
<1>4. rows[y].parent \in Live(rows)
  BY <1>1, <1>3, Ids DEF Parented, Live
<1> QED
  BY <1>1, <1>2, <1>3, <1>4, Ids DEF Bundle

\* Whatever is live and hangs on a member of a bundle is in it.
LEMMA BundleChild ==
  ASSUME NEW x \in Live(rows), NEW y \in Live(rows), rows[y].parent \in Folders,
         rows[y].parent \in Bundle(x)
  PROVE  y \in Bundle(x)
<1>1. x \in Folders
  BY Ids DEF Bundle, Live
<1>2. rows[y].parent \in Below(rows, x)
  BY <1>1, BelowStep, Ids DEF Bundle, Live
<1> QED
  BY <1>1, <1>2, Ids DEF Bundle

\* No item is in two of the bundles of one deletion.
LEMMA BundlesApart ==
  ASSUME Parented(rows), NEW S \in SUBSET Live(rows),
         NEW x \in TopItems(S), NEW y \in TopItems(S), NEW z \in Bundle(x), z \in Bundle(y)
  PROVE  x = y
<1>0. x \in Live(rows) /\ y \in Live(rows) /\ S \subseteq Items
  BY TopItemsSelected DEF Live
<1>1. ASSUME NEW f \in TopItems(S), NEW g \in TopItems(S), f \in Jobs, z \in Bundle(f), z \in Bundle(g)
      PROVE  f = g
  <2>1. z = f
    BY <1>1 DEF Bundle
  <2>2. CASE g \in Jobs
    BY <1>1, <2>1, <2>2 DEF Bundle
  <2>3. CASE g \in Folders
    <3>1. g \in TopFolders(S) /\ g \in Live(rows) /\ f # g
      BY <1>1, <2>3, TopItemsSelected, Ids
    <3>2. rows[f].parent \in Below(rows, g)
      BY <1>1, <2>1, <3>1, BundleParent
    <3>3. rows[f].parent \in Covered(S)
      BY <3>1, <3>2 DEF Covered
    <3>4. f \notin TopFolders(S)
      BY <1>1, TopItemsSelected, Ids
    <3> QED
      BY <1>1, <3>3, <3>4 DEF TopItems
  <2> QED
    BY <1>1, <2>2, <2>3, TopItemsSelected, Ids
<1>2. CASE x \in Jobs \/ y \in Jobs
  BY <1>1, <1>2
<1>3. CASE x \in Folders /\ y \in Folders
  <2>1. \E h : h \in Below(rows, x) /\ h \in Below(rows, y)
    <3>1. CASE z = x \/ z = y
      BY <1>0, <1>3, <3>1, BelowSelf, BundleParent, BelowStep, Ids DEF Bundle, Live
    <3>2. CASE z # x /\ z # y
      BY <1>0, <3>2, BundleParent
    <3> QED
      BY <3>1, <3>2
  <2>2. x \in Below(rows, y) \/ y \in Below(rows, x)
    BY <1>3, <2>1, BelowLinear
  <2> QED
    BY <1>3, <2>2, TopItemsSelected DEF TopFolders
<1> QED
  BY <1>2, <1>3, TopItemsSelected, Ids

-----------------------------------------------------------------------------
(* Order *)

LEMMA RowFields ==
  ASSUME NEW r \in [Items -> Row], NEW x \in Items
  PROVE  /\ r[x] \in Row
         /\ r[x].state \in {"new", "live", "trashed", "gone"}
         /\ r[x].parent \in Places /\ r[x].position \in Nat
         /\ r[x].entry \in Items \cup {NoEntry}
<1>1. r[x] \in Row
  OBVIOUS
<1> QED
  BY <1>1 DEF Row

LEMMA BeforeIsOrder ==
  ASSUME NEW r \in [Items -> Row], NEW x \in Items, NEW y \in Items
  PROVE  /\ ~Before(r, x, x)
         /\ x # y => Before(r, x, y) \/ Before(r, y, x)
         /\ \A z \in Items : Before(r, x, y) /\ Before(r, y, z) => Before(r, x, z)
<1>1. \A z \in Items : r[z].position \in Nat
  BY RowFields
<1>2. \A z \in Items : Age[z] \in Nat
  BY LibraryAssumption
<1>3. x # y => Age[x] # Age[y]
  BY LibraryAssumption
<1> QED
  BY <1>1, <1>2, <1>3 DEF Before

LEMMA KidsFinite ==
  ASSUME NEW r, NEW K \in SUBSET Items, NEW p
  PROVE  /\ Kids(r, K, p) \subseteq Items
         /\ \A T \in SUBSET Kids(r, K, p) : IsFiniteSet(T) /\ Cardinality(T) \in Nat
<1>1. Kids(r, K, p) \subseteq Items
  BY DEF Kids
<1>2. ASSUME NEW T \in SUBSET Kids(r, K, p)
      PROVE  IsFiniteSet(T) /\ Cardinality(T) \in Nat
  <2>1. T \in SUBSET Items
    BY <1>1
  <2>2. IsFiniteSet(T)
    BY <2>1, LibraryAssumption, FS_Subset
  <2> QED
    BY <2>2, FS_CardinalityType
<1> QED
  BY <1>1, <1>2

\* A set with less in it has fewer elements.
LEMMA FewerElements ==
  ASSUME NEW T, IsFiniteSet(T), NEW S \in SUBSET T, NEW x \in T, x \notin S
  PROVE  Cardinality(S) < Cardinality(T)
<1>1. IsFiniteSet(S) /\ Cardinality(S) <= Cardinality(T) /\ Cardinality(S) # Cardinality(T)
  BY FS_Subset
<1>2. Cardinality(S) \in Nat /\ Cardinality(T) \in Nat
  BY <1>1, FS_CardinalityType
<1> QED
  BY <1>1, <1>2

\* Ranks list siblings in the order Before.
LEMMA RankOrders ==
  ASSUME NEW r \in [Items -> Row], NEW x \in Items, NEW y \in Items,
         r[x].state = "live", r[y].state = "live",
         KindOf(x) = KindOf(y), r[x].parent = r[y].parent
  PROVE  /\ Rank(r, x) \in Nat
         /\ Before(r, x, y) => Rank(r, x) < Rank(r, y)
         /\ x # y => Rank(r, x) # Rank(r, y)
<1> DEFINE K == Kids(r, KindOf(x), r[x].parent)
           Earlier(z) == {w \in K : Before(r, w, z)}
<1>1. /\ K \subseteq Items /\ x \in K /\ y \in K
      /\ \A z \in K : IsFiniteSet(Earlier(z)) /\ Cardinality(Earlier(z)) \in Nat
  <2>1. KindOf(x) \in SUBSET Items /\ x \in KindOf(x) /\ y \in KindOf(x)
    BY Ids
  <2>2. K \subseteq Items
    BY <2>1, KidsFinite
  <2>3. x \in K /\ y \in K
    BY <2>1 DEF Kids
  <2>4. \A z \in K : Earlier(z) \in SUBSET K
    OBVIOUS
  <2> HIDE DEF Earlier
  <2> QED
    BY <2>1, <2>2, <2>3, <2>4, KidsFinite
<1>2. Rank(r, x) = Cardinality(Earlier(x)) /\ Rank(r, y) = Cardinality(Earlier(y))
  BY DEF Rank
<1>3. ASSUME NEW a \in K, NEW b \in K, Before(r, a, b)
      PROVE  Cardinality(Earlier(a)) < Cardinality(Earlier(b))
  <2>1. a \in Earlier(b) /\ a \notin Earlier(a) /\ Earlier(a) \in SUBSET Earlier(b)
    BY <1>1, <1>3, BeforeIsOrder
  <2> HIDE DEF Earlier, K
  <2> QED
    BY <1>1, <2>1, FewerElements
<1>4. x # y => Before(r, x, y) \/ Before(r, y, x)
  BY BeforeIsOrder
<1> HIDE DEF Earlier, K
<1> QED
  BY <1>1, <1>2, <1>3, <1>4

\* A place's last child is the one with the fewest behind it.
LEMMA LastPosition ==
  ASSUME NEW r \in [Items -> Row], NEW K \in SUBSET Items, NEW p, Kids(r, K, p) # {}
  PROVE  \E x \in Kids(r, K, p) : \A y \in Kids(r, K, p) : r[y].position <= r[x].position
<1> DEFINE Q == Kids(r, K, p)
           Behind(x) == {y \in Q : r[x].position < r[y].position}
           T == {Cardinality(Behind(x)) : x \in Q}
<1>1. Q \subseteq Items /\ \A x \in Q : r[x].position \in Nat
  BY KidsFinite, RowFields
<1>2. \A x \in Q : IsFiniteSet(Behind(x)) /\ Cardinality(Behind(x)) \in Nat
  <2>1. \A x \in Q : Behind(x) \in SUBSET Q
    OBVIOUS
  <2> HIDE DEF Behind
  <2> QED
    BY <2>1, KidsFinite
<1>3. PICK n \in T : \A m \in T : ~(<<m, n>> \in OpToRel(<, Nat))
  <2>1. T \subseteq Nat /\ T # {}
    BY <1>2
  <2> HIDE DEF T
  <2> QED
    BY <2>1, NatLessThanWellFounded, WFMin
<1>4. PICK x \in Q : n = Cardinality(Behind(x))
  OBVIOUS
<1>5. ASSUME NEW y \in Q, ~(r[y].position <= r[x].position)
      PROVE  FALSE
  <2>1. y \in Behind(x) /\ y \notin Behind(y) /\ Behind(y) \in SUBSET Behind(x)
    BY <1>1, <1>5
  <2>2. Cardinality(Behind(y)) < Cardinality(Behind(x))
    <3> HIDE DEF Behind, Q
    <3> QED
      BY <1>2, <2>1, FewerElements
  <2>3. Cardinality(Behind(y)) \in T /\ Cardinality(Behind(y)) \in Nat
        /\ Cardinality(Behind(x)) \in Nat
    BY <1>2
  <2>4. <<Cardinality(Behind(y)), n>> \in OpToRel(<, Nat)
    <3> HIDE DEF Behind, T
    <3> QED
      BY <1>4, <2>2, <2>3 DEF OpToRel
  <2> QED
    BY <1>3, <2>3, <2>4
<1> HIDE DEF Q
<1> QED
  BY <1>5 DEF Q

LEMMA NextPositionIsLast ==
  ASSUME NEW r \in [Items -> Row], NEW K \in SUBSET Items, NEW p
  PROVE  /\ NextPosition(r, K, p) \in Nat
         /\ \A x \in Kids(r, K, p) : r[x].position < NextPosition(r, K, p)
<1> DEFINE used == {r[x].position : x \in Kids(r, K, p)}
<1>1. \A x \in Kids(r, K, p) : r[x].position \in Nat
  BY KidsFinite, RowFields
<1>2. CASE Kids(r, K, p) = {}
  BY <1>2 DEF NextPosition
<1>3. CASE Kids(r, K, p) # {}
  <2>1. used # {} /\ used \subseteq Nat
    BY <1>1, <1>3
  <2>2. \E n \in used : \A m \in used : m <= n
    BY <1>3, LastPosition
  <2> DEFINE n == CHOOSE n \in used : \A m \in used : m <= n
  <2>3. n \in used /\ \A m \in used : m <= n
    <3> HIDE DEF used
    <3> QED
      BY <2>2
  <2>4. NextPosition(r, K, p) = 1 + n
    BY <2>1 DEF NextPosition
  <2>5. \A x \in Kids(r, K, p) : r[x].position \in used
    OBVIOUS
  <2> HIDE DEF n, used
  <2> QED
    BY <1>1, <2>1, <2>3, <2>4, <2>5
<1> QED
  BY <1>2, <1>3

-----------------------------------------------------------------------------
(* Lists and re-indexing *)

\* Lists as requests carry them, of any length and with repetitions, too.
Arrays(S) == UNION {[1 .. n -> S] : n \in Nat}

LEMMA ListsAreArrays == \A S : Lists(S) \subseteq Arrays(S)
BY LibraryAssumption DEF Lists, Arrays

LEMMA ListMembers ==
  ASSUME NEW S, NEW s \in Arrays(S)
  PROVE  /\ Members(s) \subseteq S
         /\ \A M, x : Offset(s, M, x) \in Nat
<1>1. PICK n \in Nat : s \in [1 .. n -> S]
  BY DEF Arrays
<1>2. Members(s) \subseteq S
  BY <1>1 DEF Members
<1>3. ASSUME NEW M, NEW x
      PROVE  Offset(s, M, x) \in Nat
  <2> DEFINE I == {i \in DOMAIN s : s[i] \in M /\ \E k \in DOMAIN s : s[k] = x /\ i < k}
  <2>1. IsFiniteSet(1 .. n) /\ I \in SUBSET (1 .. n)
    BY <1>1, FS_Interval
  <2>2. IsFiniteSet(I)
    <3> HIDE DEF I
    <3> QED
      BY <2>1, FS_Subset
  <2>3. Cardinality(I) \in Nat
    <3> HIDE DEF I
    <3> QED
      BY <2>2, FS_CardinalityType
  <2> QED
    BY <2>3 DEF Offset
<1> QED
  BY <1>2, <1>3

\* Whether Reindex numbers x.
Listed(r, A, B, x) ==
  r[x].state = "live" /\ r[x].parent \in (IF x \in Folders THEN A ELSE B)

\* The same rows, but for the positions.
Alike(r, q) ==
  \A x \in Items : /\ q[x].state = r[x].state
                   /\ q[x].parent = r[x].parent
                   /\ q[x].entry = r[x].entry

LEMMA SetPosition ==
  ASSUME NEW w \in Row, NEW n \in Nat
  PROVE  LET v == [w EXCEPT !.position = n]
         IN  /\ v \in Row /\ v.position = n
             /\ v.state = w.state /\ v.parent = w.parent /\ v.entry = w.entry
BY DEF Row

LEMMA ReindexNumbers ==
  ASSUME NEW r \in [Items -> Row], NEW A, NEW B
  PROVE  LET q == Reindex(r, A, B)
         IN  /\ q \in [Items -> Row] /\ Alike(r, q)
             /\ \A x \in Items : /\ Listed(r, A, B, x) => q[x].position = Rank(r, x)
                                 /\ ~Listed(r, A, B, x) => q[x] = r[x]
<1> DEFINE q == Reindex(r, A, B)
           v(x) == [r[x] EXCEPT !.position = Rank(r, x)]
<1>1. q = [x \in Items |-> IF Listed(r, A, B, x) THEN v(x) ELSE r[x]]
  BY DEF Reindex, Listed
<1>2. ASSUME NEW x \in Items, Listed(r, A, B, x)
      PROVE  /\ v(x) \in Row /\ v(x).position = Rank(r, x)
             /\ v(x).state = r[x].state /\ v(x).parent = r[x].parent /\ v(x).entry = r[x].entry
  <2>1. r[x] \in Row /\ Rank(r, x) \in Nat
    BY <1>2, RankOrders, RowFields DEF Listed
  <2> QED
    BY <2>1, SetPosition
<1> HIDE DEF v, q
<1> QED
  BY <1>1, <1>2 DEF Alike, q

\* Re-indexing keeps the order of siblings and gives each its own position.
LEMMA ReindexOrders ==
  ASSUME NEW r \in [Items -> Row], NEW A, NEW B, NEW x \in Items, NEW y \in Items,
         r[x].state = "live", r[y].state = "live",
         KindOf(x) = KindOf(y), r[x].parent = r[y].parent
  PROVE  LET q == Reindex(r, A, B)
         IN  /\ Listed(r, A, B, x) /\ x # y => q[x].position # q[y].position
             /\ r[x].position < r[y].position => q[x].position < q[y].position
<1>1. Listed(r, A, B, x) <=> Listed(r, A, B, y)
  BY Ids DEF Listed
<1>2. CASE Listed(r, A, B, x)
  <2>1. r[x].position < r[y].position => Before(r, x, y)
    BY DEF Before
  <2> QED
    BY <1>1, <1>2, <2>1, ReindexNumbers, RankOrders
<1>3. CASE ~Listed(r, A, B, x)
  BY <1>1, <1>3, ReindexNumbers
<1> QED
  BY <1>2, <1>3

LEMMA AlikeSound ==
  ASSUME NEW r, NEW q, NEW t, Alike(r, q)
  PROVE  /\ Marked(r) => Marked(q)
         /\ r \in [Items -> Row] /\ Parented(r) => Parented(q)
         /\ Grounded(r) => Grounded(q)
         /\ Recorded(r, t) => Recorded(q, t)
         /\ \A x \in Items : Placed(r, x) <=> Placed(q, x)
<1>1. ASSUME r \in [Items -> Row], Parented(r)
      PROVE  Parented(q)
  <2> SUFFICES ASSUME NEW x \in Items
               PROVE  /\ q[x].state = "live" /\ q[x].parent # Root =>
                           q[x].parent \in Folders /\ q[q[x].parent].state = "live"
                      /\ q[x].state = "trashed" /\ q[x].entry # x =>
                           q[x].parent \in Folders /\ q[q[x].parent].entry = q[x].entry
                      /\ q[x].parent # Root => q[q[x].parent].state # "new"
    BY DEF Parented
  <2>1. r[x].parent # Root => r[x].parent \in Items
    BY <1>1, RowFields, Ids
  <2>2. q[x].state = r[x].state /\ q[x].parent = r[x].parent /\ q[x].entry = r[x].entry
    BY DEF Alike
  <2>3. r[x].parent # Root => q[r[x].parent].state = r[r[x].parent].state
                              /\ q[r[x].parent].entry = r[r[x].parent].entry
    BY <2>1 DEF Alike
  <2>4. r[x].parent \in Folders => r[x].parent # Root
    BY Ids
  <2> QED
    BY <1>1, <2>2, <2>3, <2>4 DEF Parented
<1> QED
  BY <1>1 DEF Alike, Marked, Grounded, Recorded, Placed

-----------------------------------------------------------------------------
(* Hanging rows elsewhere *)

LEMMA GroundedRaise ==
  ASSUME NEW r, NEW q, Grounded(r),
         \A x \in Items : q[x].parent = r[x].parent \/ q[x].parent = Root
  PROVE  Grounded(q)
<1> SUFFICES ASSUME NEW S \in SUBSET (Items \cup {Root}), Root \in S,
                    \A x \in Items : q[x].parent \in S => x \in S
             PROVE  Items \subseteq S
  BY DEF Grounded
<1>1. \A x \in Items : r[x].parent \in S => x \in S
  OBVIOUS
<1> QED
  BY <1>1 DEF Grounded

\* A row nothing hangs on may hang on any other.
LEMMA GroundedLeaf ==
  ASSUME NEW r, NEW q, Grounded(r), NEW z \in Items, NEW p \in Items \cup {Root}, p # z,
         \A x \in Items : r[x].parent # z,
         \A x \in Items \ {z} : q[x].parent = r[x].parent,
         q[z].parent = p
  PROVE  Grounded(q)
<1> SUFFICES ASSUME NEW S \in SUBSET (Items \cup {Root}), Root \in S,
                    \A x \in Items : q[x].parent \in S => x \in S
             PROVE  Items \subseteq S
  BY DEF Grounded
<1> DEFINE T == S \cup {z}
<1>1. ASSUME NEW x \in Items, r[x].parent \in T
      PROVE  x \in T
  <2>1. r[x].parent \in S
    BY <1>1
  <2> QED
    BY <2>1
<1>2. Items \subseteq T
  <2>1. T \in SUBSET (Items \cup {Root}) /\ Root \in T
    OBVIOUS
  <2> HIDE DEF T
  <2> QED
    BY <1>1, <2>1 DEF Grounded
<1> QED
  BY <1>2

\* Rows may hang on p unless p is among what hangs on them.
LEMMA GroundedMove ==
  ASSUME NEW r, NEW q, Grounded(r), NEW M \in SUBSET Items, NEW Q \in SUBSET Items,
         NEW p \in Items \cup {Root},
         M \subseteq Q, p \notin Q, \A x \in Items : r[x].parent \in Q => x \in Q,
         \A x \in Items : q[x].parent = IF x \in M THEN p ELSE r[x].parent
  PROVE  Grounded(q)
<1> SUFFICES ASSUME NEW S \in SUBSET (Items \cup {Root}), Root \in S,
                    \A x \in Items : q[x].parent \in S => x \in S
             PROVE  Items \subseteq S
  BY DEF Grounded
<1> DEFINE T == S \cup Q
<1>1. \A x \in Items : r[x].parent \in T => x \in T
  OBVIOUS
<1>2. Items \subseteq T
  BY <1>1 DEF Grounded
<1>3. p \in S
  BY <1>2
<1>4. \A x \in Items : r[x].parent \in S => x \in S
  BY <1>3
<1> QED
  BY <1>4 DEF Grounded

\* What hangs on f may be hung on what f hangs on.
LEMMA GroundedLift ==
  ASSUME NEW r, NEW q, Grounded(r), NEW f \in Items, NEW C \in SUBSET Items, f \notin C,
         r[f].parent \in Items \cup {Root},
         \A x \in C : r[x].parent = f,
         \A x \in Items : q[x].parent = IF x \in C THEN r[f].parent ELSE r[x].parent
  PROVE  Grounded(q)
<1> SUFFICES ASSUME NEW S \in SUBSET (Items \cup {Root}), Root \in S,
                    \A x \in Items : q[x].parent \in S => x \in S
             PROVE  Items \subseteq S
  BY DEF Grounded
<1>1. CASE r[f].parent \in S
  <2>1. \A x \in Items : r[x].parent \in S => x \in S
    BY <1>1
  <2> QED
    BY <2>1 DEF Grounded
<1>2. CASE r[f].parent \notin S
  <2> DEFINE T == S \ {f}
  <2>1. \A x \in Items : r[x].parent \in T => x \in T
    BY <1>2
  <2>2. Root \in T
    BY <1>2, Ids
  <2>3. Items \subseteq T
    BY <2>1, <2>2 DEF Grounded
  <2> QED
    BY <1>2, <2>3
<1> QED
  BY <1>1, <1>2

-----------------------------------------------------------------------------
(* Folders and jobs *)

LEMMA NewRow ==
  \A s \in {"new", "live", "trashed", "gone"} :
    /\ NoRow(s) \in Row /\ NoRow(s).state = s
    /\ NoRow(s).parent = Root /\ NoRow(s).entry = NoEntry
BY Ids DEF NoRow, Row

LEMMA InitSound == Init => IInv
<1> SUFFICES ASSUME Init PROVE IInv
  OBVIOUS
<1>1. /\ rows \in [Items -> Row] /\ trash \in [Items -> Places \cup {NoEntry}]
      /\ \A x \in Items : /\ rows[x].state = "new" /\ rows[x].parent = Root
                          /\ rows[x].entry = NoEntry /\ trash[x] = NoEntry
  BY NewRow DEF Init
<1>2. Grounded(rows)
  BY <1>1 DEF Grounded
<1>3. Marked(rows) /\ Parented(rows) /\ Recorded(rows, trash) /\ Spread(rows) /\ Named(rows, trash)
  BY <1>1, Ids DEF Marked, Parented, Recorded, Spread, Placed, Named
<1> QED
  BY <1>1, <1>2, <1>3 DEF IInv, Sound

LEMMA CreateSound ==
  ASSUME Sound(rows, trash), NEW z \in Items, NEW p \in Places, Create(z, p)
  PROVE  /\ Sound(rows', trash')
         /\ \A x \in Items : /\ rows[x].state # "new" => rows'[x] = rows[x]
                             /\ rows[x].entry = rows'[x].entry
                             /\ rows[x].state = "trashed" <=> rows'[x].state = "trashed"
<1> DEFINE w == [state |-> "live", parent |-> p, entry |-> NoEntry,
                 position |-> NextPosition(rows, KindOf(z), p)]
           q == [rows EXCEPT ![z] = w]
<1>1. /\ rows[z].state = "new" /\ rows' = q /\ trash' = trash
      /\ p = Root \/ (p \in Folders /\ rows[p].state = "live")
  BY Ids DEF Create, IsPlace, Live
<1>2. /\ rows \in [Items -> Row] /\ trash \in [Items -> Places \cup {NoEntry}]
      /\ Marked(rows) /\ Parented(rows) /\ Grounded(rows) /\ Recorded(rows, trash) /\ Spread(rows)
  BY DEF Sound
<1>3. /\ w \in Row /\ w.state = "live" /\ w.parent = p /\ w.entry = NoEntry
      /\ w.position = NextPosition(rows, KindOf(z), p)
  BY <1>2, NextPositionIsLast, Ids DEF Row
<1> HIDE DEF w
<1>4. /\ q \in [Items -> Row] /\ q[z] = w
      /\ \A x \in Items \ {z} : q[x] = rows[x]
  BY <1>2, <1>3
<1> HIDE DEF q
<1>5. \A x \in Items : rows[x].parent # z
  BY <1>1, <1>2, Ids DEF Parented
<1>6. rows[z].entry = NoEntry /\ p # z /\ p \in Items \cup {Root}
  BY <1>1, <1>2, Ids DEF Marked
<1>7. Marked(q) /\ Recorded(q, trash)
  BY <1>2, <1>3, <1>4, Ids DEF Marked, Recorded
<1>8. Parented(q)
  <2> SUFFICES ASSUME NEW x \in Items
               PROVE  /\ q[x].state = "live" /\ q[x].parent # Root =>
                           q[x].parent \in Folders /\ q[q[x].parent].state = "live"
                      /\ q[x].state = "trashed" /\ q[x].entry # x =>
                           q[x].parent \in Folders /\ q[q[x].parent].entry = q[x].entry
                      /\ q[x].parent # Root => q[q[x].parent].state # "new"
    BY DEF Parented
  <2>1. CASE x = z
    <3>1. q[x].state = "live" /\ q[x].parent = p
      BY <1>3, <1>4, <2>1
    <3>2. p # Root => p \in Folders /\ q[p].state = "live"
      BY <1>1, <1>4, <1>6, Ids
    <3> QED
      BY <3>1, <3>2
  <2>2. CASE x # z
    <3>1. rows[x].parent \in Items \cup {Root}
      BY <1>2, RowFields, Ids
    <3>2. q[x] = rows[x] /\ (rows[x].parent # Root => q[rows[x].parent] = rows[rows[x].parent])
      BY <1>4, <1>5, <2>2, <3>1
    <3>3. rows[x].parent \in Folders => rows[x].parent # Root
      BY Ids
    <3> QED
      BY <1>2, <3>2, <3>3 DEF Parented
  <2> QED
    BY <2>1, <2>2
<1>9. Grounded(q)
  BY <1>2, <1>3, <1>4, <1>5, <1>6, GroundedLeaf
<1>10. Spread(q)
  <2> SUFFICES ASSUME NEW x \in Items, NEW y \in Items, x # y, KindOf(x) = KindOf(y),
                      q[x].parent = q[y].parent, q[x].state = q[y].state,
                      Placed(q, x), Placed(q, y)
               PROVE  q[x].position # q[y].position
    BY DEF Spread
  <2>1. ASSUME NEW k \in Items, k # z, q[z].parent = q[k].parent, q[z].state = q[k].state,
               KindOf(z) = KindOf(k)
        PROVE  q[z].position # q[k].position
    <3>1. k \in Kids(rows, KindOf(z), p)
      BY <1>3, <1>4, <2>1, Ids DEF Kids
    <3>2. rows[k].position < NextPosition(rows, KindOf(z), p)
      BY <1>2, <3>1, NextPositionIsLast, Ids
    <3>3. rows[k].position \in Nat /\ NextPosition(rows, KindOf(z), p) \in Nat
      BY <1>2, NextPositionIsLast, RowFields, Ids
    <3> QED
      BY <1>3, <1>4, <2>1, <3>2, <3>3
  <2>2. CASE x = z \/ y = z
    BY <2>1, <2>2
  <2>3. CASE x # z /\ y # z
    BY <1>2, <1>4, <2>3 DEF Spread, Placed
  <2> QED
    BY <2>2, <2>3
<1>11. Sound(q, trash)
  BY <1>2, <1>4, <1>7, <1>8, <1>9, <1>10 DEF Sound
<1>12. \A x \in Items : /\ rows[x].state # "new" => q[x] = rows[x]
                        /\ rows[x].entry = q[x].entry
                        /\ rows[x].state = "trashed" <=> q[x].state = "trashed"
  BY <1>1, <1>3, <1>4, <1>6
<1> QED
  BY <1>1, <1>11, <1>12

LEMMA ReorderSound ==
  ASSUME Sound(rows, trash), NEW p \in Places, Reorder(p)
  PROVE  /\ Sound(rows', trash') /\ trash' = trash /\ Alike(rows, rows')
         /\ \A x \in Items :
              rows'[x].position # rows[x].position =>
                rows[x].state = "live" /\ rows[x].parent = p
<1>1. /\ rows \in [Items -> Row] /\ trash \in [Items -> Places \cup {NoEntry}]
      /\ Marked(rows) /\ Parented(rows) /\ Grounded(rows) /\ Recorded(rows, trash) /\ Spread(rows)
  BY DEF Sound
<1> DEFINE F == Kids(rows, Folders, p)
           J == Kids(rows, Jobs, p)
<1>2. PICK fo \in Orders(F), jo \in Orders(J) :
        rows' = [x \in Items |->
                  IF x \in DOMAIN fo THEN [rows[x] EXCEPT !.position = fo[x]]
                  ELSE IF x \in DOMAIN jo THEN [rows[x] EXCEPT !.position = jo[x]]
                  ELSE rows[x]]
  BY DEF Reorder
<1> DEFINE n(x) == IF x \in F THEN fo[x] ELSE jo[x]
           v(x) == [rows[x] EXCEPT !.position = n(x)]
           q == [x \in Items |-> IF x \in F \cup J THEN v(x) ELSE rows[x]]
<1>3. /\ DOMAIN fo = F /\ DOMAIN jo = J
      /\ \A x \in F : fo[x] \in Nat
      /\ \A x \in J : jo[x] \in Nat
      /\ \A x, y \in F : fo[x] = fo[y] => x = y
      /\ \A x, y \in J : jo[x] = jo[y] => x = y
  BY DEF Orders
<1>4. rows' = q /\ trash' = trash
  BY <1>2, <1>3 DEF Reorder
<1>5. \A x \in Items : /\ x \in F \cup J <=> rows[x].state = "live" /\ rows[x].parent = p
                       /\ x \in F <=> x \in F \cup J /\ x \in Folders
                       /\ x \in J <=> x \in F \cup J /\ x \in Jobs
  BY Ids DEF Kids
<1>6. \A x \in F \cup J : n(x) \in Nat
  BY <1>3
<1>7. \A x, y \in F \cup J : x # y /\ KindOf(x) = KindOf(y) => n(x) # n(y)
  <2>1. \A x \in F \cup J : x \in Items
    BY Ids DEF Kids
  <2> QED
    BY <1>3, <1>5, <2>1, Ids
<1> HIDE DEF n, F, J
<1>8. ASSUME NEW x \in Items
      PROVE  /\ q[x] \in Row /\ q[x].state = rows[x].state /\ q[x].parent = rows[x].parent
             /\ q[x].entry = rows[x].entry
             /\ q[x].position = IF x \in F \cup J THEN n(x) ELSE rows[x].position
  <2>1. rows[x] \in Row
    BY <1>1
  <2>2. CASE x \in F \cup J
    <3>1. /\ v(x) \in Row /\ v(x).position = n(x) /\ v(x).state = rows[x].state
          /\ v(x).parent = rows[x].parent /\ v(x).entry = rows[x].entry
      BY <1>6, <2>1, <2>2, SetPosition
    <3> HIDE DEF v
    <3> QED
      BY <2>2, <3>1
  <2>3. CASE x \notin F \cup J
    BY <2>1, <2>3
  <2> QED
    BY <2>2, <2>3
<1>9. q \in [Items -> Row] /\ Alike(rows, q)
  <2>1. q = [x \in Items |-> q[x]]
    OBVIOUS
  <2> HIDE DEF q
  <2> QED
    BY <1>8, <2>1 DEF Alike
<1> HIDE DEF q, v
<1>10. Spread(q)
  <2> SUFFICES ASSUME NEW x \in Items, NEW y \in Items, x # y, KindOf(x) = KindOf(y),
                      q[x].parent = q[y].parent, q[x].state = q[y].state,
                      Placed(q, x), Placed(q, y)
               PROVE  q[x].position # q[y].position
    BY DEF Spread
  <2>1. x \in F \cup J <=> y \in F \cup J
    BY <1>5, <1>8
  <2>2. CASE x \in F \cup J
    BY <1>7, <1>8, <2>1, <2>2
  <2>3. CASE x \notin F \cup J
    BY <1>1, <1>8, <2>1, <2>3 DEF Spread, Placed
  <2> QED
    BY <2>2, <2>3
<1>11. Sound(q, trash)
  BY <1>1, <1>9, <1>10, AlikeSound DEF Sound
<1>12. \A x \in Items : q[x].position # rows[x].position =>
                          rows[x].state = "live" /\ rows[x].parent = p
  BY <1>5, <1>8
<1> QED
  BY <1>4, <1>9, <1>11, <1>12

LEMMA MoveSound ==
  ASSUME Sound(rows, trash), NEW s \in Arrays(Live(rows)), NEW p \in Places, Move(s, p)
  PROVE  /\ Sound(rows', trash') /\ trash' = trash
         /\ \A x \in Items :
              /\ rows'[x].state = rows[x].state /\ rows'[x].entry = rows[x].entry
              /\ rows'[x].parent # rows[x].parent => x \in Members(s)
         /\ \A x, y \in Live(rows) \ Members(s) :
              /\ KindOf(x) = KindOf(y) /\ rows[x].parent = rows[y].parent
              /\ rows[x].position < rows[y].position
              => rows'[x].position < rows'[y].position
<1>1. /\ rows \in [Items -> Row] /\ trash \in [Items -> Places \cup {NoEntry}]
      /\ Marked(rows) /\ Parented(rows) /\ Grounded(rows) /\ Recorded(rows, trash) /\ Spread(rows)
  BY DEF Sound
<1> DEFINE M == TopItems(Members(s))
           n(x) == NextPosition(rows, KindOf(x), p) + Offset(s, M \cap KindOf(x), x)
           v(x) == [rows[x] EXCEPT !.parent = p, !.position = n(x)]
           placed == [x \in Items |-> IF x \in M THEN v(x) ELSE rows[x]]
           sources(K) == {rows[x].parent : x \in M \cap K}
           A == {p} \cup sources(Folders)
           B == {p} \cup sources(Jobs)
           q == Reindex(placed, A, B)
<1>2. /\ rows' = q /\ trash' = trash /\ IsPlace(p)
      /\ \A f \in Members(s) \cap Folders : p \notin Below(rows, f)
  BY DEF Move
<1>3. M \subseteq Members(s) /\ M \subseteq Items /\ Members(s) \subseteq Live(rows)
  BY ListMembers, TopItemsSelected
<1>4. p \in A /\ p \in B
  OBVIOUS
<1> HIDE DEF M, A, B
<1>5. \A x \in Items : n(x) \in Nat
  <2> SUFFICES ASSUME NEW x \in Items PROVE n(x) \in Nat
    OBVIOUS
  <2>1. NextPosition(rows, KindOf(x), p) \in Nat
    BY <1>1, NextPositionIsLast, Ids
  <2>2. Offset(s, M \cap KindOf(x), x) \in Nat
    BY ListMembers
  <2> QED
    BY <2>1, <2>2
<1> HIDE DEF n
<1>6. ASSUME NEW x \in Items
      PROVE  /\ placed[x] \in Row /\ placed[x].state = rows[x].state
             /\ placed[x].entry = rows[x].entry
             /\ placed[x].parent = IF x \in M THEN p ELSE rows[x].parent
             /\ x \notin M => placed[x] = rows[x]
  <2>1. /\ v(x) \in Row /\ v(x).parent = p /\ v(x).state = rows[x].state
        /\ v(x).entry = rows[x].entry
    <3>1. rows[x] \in Row /\ n(x) \in Nat
      BY <1>1, <1>5
    <3> QED
      BY <3>1 DEF Row
  <2> HIDE DEF v
  <2> QED
    BY <1>1, <2>1
<1>7. placed \in [Items -> Row]
  <2>1. placed = [x \in Items |-> placed[x]]
    OBVIOUS
  <2> HIDE DEF placed
  <2> QED
    BY <1>6, <2>1
<1> HIDE DEF placed, v
<1>8. Marked(placed)
  BY <1>1, <1>6 DEF Marked
<1>9. p \in Folders => rows[p].state = "live"
  BY <1>2, Ids DEF IsPlace, Live
<1>10. Parented(placed)
  <2> SUFFICES ASSUME NEW x \in Items
               PROVE  /\ placed[x].state = "live" /\ placed[x].parent # Root =>
                           placed[x].parent \in Folders /\ placed[placed[x].parent].state = "live"
                      /\ placed[x].state = "trashed" /\ placed[x].entry # x =>
                           placed[x].parent \in Folders /\ placed[placed[x].parent].entry = placed[x].entry
                      /\ placed[x].parent # Root => placed[placed[x].parent].state # "new"
    BY DEF Parented
  <2>1. CASE x \in M
    <3>1. placed[x].state = "live" /\ placed[x].parent = p
      BY <1>3, <1>6, <2>1 DEF Live
    <3>2. p # Root => p \in Folders /\ placed[p].state = "live"
      BY <1>6, <1>9, Ids
    <3> QED
      BY <3>1, <3>2
  <2>2. CASE x \notin M
    <3>1. rows[x].parent \in Items \cup {Root}
      BY <1>1, RowFields, Ids
    <3>2. /\ placed[x] = rows[x]
          /\ rows[x].parent # Root =>
               /\ placed[rows[x].parent].state = rows[rows[x].parent].state
               /\ placed[rows[x].parent].entry = rows[rows[x].parent].entry
      BY <1>6, <2>2, <3>1
    <3>3. rows[x].parent \in Folders => rows[x].parent # Root
      BY Ids
    <3> QED
      BY <1>1, <3>2, <3>3 DEF Parented
  <2> QED
    BY <2>1, <2>2
<1>11. Recorded(placed, trash)
  <2> SUFFICES ASSUME NEW x \in Items, placed[x].entry = x
               PROVE  trash[x] = placed[x].parent
    BY DEF Recorded
  <2>1. rows[x].entry = x /\ x \notin M
    BY <1>1, <1>3, <1>6, Ids DEF Marked, Live
  <2> QED
    BY <1>1, <1>6, <2>1 DEF Recorded
<1>12. Grounded(placed)
  <2> DEFINE R == {x \in Items : ~(x \in Folders /\ rows[x].state = "live")}
             Q == R \cup UNION {Below(rows, f) : f \in M \cap Folders}
  <2>1. Q \in SUBSET Items
    BY BelowSelf, Ids
  <2>2. M \subseteq Q
    BY <1>3, BelowSelf
  <2>3. p \notin Q
    BY <1>2, <1>3, <1>9, Ids
  <2>4. ASSUME NEW x \in Items, rows[x].parent \in Q
        PROVE  x \in Q
    <3>1. SUFFICES ASSUME x \in Folders, rows[x].state = "live"
                   PROVE  \E f \in M \cap Folders : x \in Below(rows, f)
      OBVIOUS
    <3>2. rows[x].parent \notin R
      BY <1>1, <2>1, <2>4, <3>1, Ids DEF Parented
    <3>3. PICK f \in M \cap Folders : rows[x].parent \in Below(rows, f)
      BY <2>4, <3>2
    <3> QED
      BY <3>1, <3>3, BelowStep
  <2>5. p \in Items \cup {Root} /\ M \in SUBSET Items
    BY <1>3, Ids
  <2>6. \A x \in Items : placed[x].parent = IF x \in M THEN p ELSE rows[x].parent
    BY <1>6
  <2> HIDE DEF Q
  <2> QED
    BY <1>1, <2>1, <2>2, <2>3, <2>4, <2>5, <2>6, GroundedMove
<1>13. /\ q \in [Items -> Row] /\ Alike(placed, q)
       /\ \A x \in Items : ~Listed(placed, A, B, x) => q[x] = placed[x]
  BY <1>7, ReindexNumbers
<1>14. \A x \in M : Listed(placed, A, B, x)
  BY <1>3, <1>4, <1>6 DEF Listed, Live
<1> HIDE DEF q
<1>15. Spread(q)
  <2> SUFFICES ASSUME NEW x \in Items, NEW y \in Items, x # y, KindOf(x) = KindOf(y),
                      q[x].parent = q[y].parent, q[x].state = q[y].state,
                      Placed(q, x), Placed(q, y)
               PROVE  q[x].position # q[y].position
    BY DEF Spread
  <2>1. /\ placed[x].parent = placed[y].parent /\ placed[x].state = placed[y].state
        /\ Placed(placed, x) /\ Placed(placed, y)
    BY <1>13, AlikeSound DEF Alike
  <2>2. CASE Listed(placed, A, B, x)
    BY <1>7, <2>1, <2>2, ReindexOrders, ZenonT(60) DEF Listed, q
  <2>3. CASE ~Listed(placed, A, B, x)
    <3>1. ~Listed(placed, A, B, y)
      BY <2>1, <2>3, Ids DEF Listed
    <3>2. x \notin M /\ y \notin M
      BY <1>14, <2>3, <3>1
    <3>3. placed[x] = rows[x] /\ placed[y] = rows[y]
      BY <1>6, <3>2
    <3>4. q[x] = rows[x] /\ q[y] = rows[y]
      BY <1>13, <2>3, <3>1, <3>3
    <3>5. Placed(rows, x) /\ Placed(rows, y) /\ rows[x].parent = rows[y].parent
          /\ rows[x].state = rows[y].state
      BY <2>1, <3>3 DEF Placed
    <3> QED
      BY <1>1, <3>4, <3>5 DEF Spread
  <2> QED
    BY <2>2, <2>3
<1>16. Sound(q, trash)
  BY <1>1, <1>7, <1>8, <1>10, <1>11, <1>12, <1>13, <1>15, AlikeSound DEF Sound
<1>17. \A x \in Items : /\ q[x].state = rows[x].state /\ q[x].entry = rows[x].entry
                        /\ q[x].parent # rows[x].parent => x \in Members(s)
  BY <1>3, <1>6, <1>13 DEF Alike
<1>18. ASSUME NEW x \in Live(rows) \ Members(s), NEW y \in Live(rows) \ Members(s),
              KindOf(x) = KindOf(y), rows[x].parent = rows[y].parent,
              rows[x].position < rows[y].position
       PROVE  q[x].position < q[y].position
  <2>1. /\ x \in Items /\ y \in Items /\ rows[x].state = "live" /\ rows[y].state = "live"
        /\ placed[x] = rows[x] /\ placed[y] = rows[y]
    BY <1>3, <1>6 DEF Live
  <2> QED
    BY <1>7, <1>18, <2>1, ReindexOrders DEF q
<1> QED
  BY <1>2, <1>16, <1>17, <1>18

-----------------------------------------------------------------------------
(* The trash *)

LEMMA DeleteSound ==
  ASSUME Sound(rows, trash), NEW S \in SUBSET Live(rows), Delete(S)
  PROVE  /\ Sound(rows', trash')
         /\ Named(rows, trash) => Named(rows', trash')
         /\ \A x \in Items :
              /\ rows[x].state = "trashed" => rows'[x] = rows[x]
              /\ rows'[x].parent = rows[x].parent /\ rows'[x].position = rows[x].position
<1>1. /\ rows \in [Items -> Row] /\ trash \in [Items -> Places \cup {NoEntry}]
      /\ Marked(rows) /\ Parented(rows) /\ Grounded(rows) /\ Recorded(rows, trash) /\ Spread(rows)
  BY DEF Sound
<1> DEFINE roots == TopItems(S)
           rootOf(y) == CHOOSE x \in roots : y \in Bundle(x)
           In(y) == \E x \in roots : y \in Bundle(x)
           v(y) == [rows[y] EXCEPT !.state = "trashed", !.entry = rootOf(y)]
           q == [y \in Items |-> IF In(y) THEN v(y) ELSE rows[y]]
           t == [x \in Items |-> IF x \in roots THEN rows[x].parent ELSE trash[x]]
<1>2. rows' = q /\ trash' = t
  BY DEF Delete
<1>3. /\ roots \subseteq Items /\ roots \subseteq Live(rows)
      /\ \A x \in roots : x \in Bundle(x) /\ Bundle(x) \subseteq Live(rows)
      /\ \A x, y \in roots : \A z \in Bundle(x) : z \in Bundle(y) => x = y
  <2>1. roots \subseteq Items /\ roots \subseteq Live(rows)
    BY TopItemsSelected
  <2>2. \A x, y \in roots : \A z \in Bundle(x) : z \in Bundle(y) => x = y
    BY <1>1, BundlesApart
  <2> QED
    BY <2>1, <2>2, BundleHasRoot
<1> HIDE DEF roots
<1>4. \A y : In(y) => /\ rootOf(y) \in roots /\ y \in Bundle(rootOf(y))
                      /\ \A x \in roots : y \in Bundle(x) => rootOf(y) = x
  BY <1>3
<1> HIDE DEF rootOf
<1>5. \A x \in roots : In(x) /\ rootOf(x) = x
  BY <1>3, <1>4
<1>6. \A y : In(y) => y \in Live(rows) /\ y \in Items
  BY <1>3, <1>4 DEF Live
<1>7. ASSUME NEW y, In(y), y # rootOf(y)
      PROVE  /\ rows[y].parent \in Folders /\ In(rows[y].parent)
             /\ rootOf(rows[y].parent) = rootOf(y)
  <2>1. rows[y].parent \in Folders /\ rows[y].parent \in Bundle(rootOf(y))
    BY <1>1, <1>3, <1>4, <1>7, BundleParent
  <2> QED
    BY <1>4, <1>7, <2>1
<1>8. ASSUME NEW y \in Live(rows), rows[y].parent \in Folders, In(rows[y].parent)
      PROVE  In(y)
  BY <1>3, <1>4, <1>8, BundleChild
<1> HIDE DEF In
<1>9. ASSUME NEW x \in Items
      PROVE  /\ q[x] \in Row /\ q[x].parent = rows[x].parent /\ q[x].position = rows[x].position
             /\ In(x) => q[x].state = "trashed" /\ q[x].entry = rootOf(x)
             /\ ~In(x) => q[x] = rows[x]
  <2>1. rows[x] \in Row
    BY <1>1
  <2>2. CASE In(x)
    <3>1. rootOf(x) \in Items
      BY <1>3, <1>4, <2>2 DEF In
    <3>2. /\ v(x) \in Row /\ v(x).state = "trashed" /\ v(x).entry = rootOf(x)
          /\ v(x).parent = rows[x].parent /\ v(x).position = rows[x].position
      BY <2>1, <3>1 DEF Row
    <3> HIDE DEF v
    <3> QED
      BY <2>2, <3>2
  <2>3. CASE ~In(x)
    BY <2>1, <2>3
  <2> QED
    BY <2>2, <2>3
<1>10. q \in [Items -> Row]
  <2>1. q = [x \in Items |-> q[x]]
    OBVIOUS
  <2> HIDE DEF q
  <2> QED
    BY <1>9, <2>1
<1>11. t \in [Items -> Places \cup {NoEntry}]
  BY <1>1, RowFields
<1>12. \A x \in Items : t[x] = IF x \in roots THEN rows[x].parent ELSE trash[x]
  OBVIOUS
<1> HIDE DEF q, v, t
<1>13. Marked(q)
  <2> SUFFICES ASSUME NEW x \in Items
               PROVE  q[x].state = "trashed" <=> q[x].entry # NoEntry
    BY DEF Marked
  <2>1. CASE In(x)
    <3>1. q[x].entry \in Items
      BY <1>3, <1>4, <1>9, <2>1
    <3> QED
      BY <1>9, <2>1, <3>1, Ids
  <2>2. CASE ~In(x)
    BY <1>1, <1>9, <2>2 DEF Marked
  <2> QED
    BY <2>1, <2>2
<1>14. Parented(q)
  <2> SUFFICES ASSUME NEW x \in Items
               PROVE  /\ q[x].state = "live" /\ q[x].parent # Root =>
                           q[x].parent \in Folders /\ q[q[x].parent].state = "live"
                      /\ q[x].state = "trashed" /\ q[x].entry # x =>
                           q[x].parent \in Folders /\ q[q[x].parent].entry = q[x].entry
                      /\ q[x].parent # Root => q[q[x].parent].state # "new"
    BY DEF Parented
  <2> DEFINE p == rows[x].parent
  <2>1. q[x].parent = p /\ p \in Items \cup {Root} /\ (p \in Folders => p \in Items /\ p # Root)
    BY <1>1, <1>9, RowFields, Ids
  <2>2. p # Root => q[p].state # "new"
    <3>1. p # Root => rows[p].state # "new"
      BY <1>1 DEF Parented
    <3> QED
      BY <1>9, <2>1, <3>1
  <2>3. ASSUME q[x].state = "live", p # Root
        PROVE  p \in Folders /\ q[p].state = "live"
    <3>1. ~In(x) /\ rows[x].state = "live" /\ x \in Live(rows)
      BY <1>9, <2>3 DEF Live
    <3>2. p \in Folders /\ rows[p].state = "live"
      BY <1>1, <2>3, <3>1 DEF Parented
    <3>3. ~In(p)
      BY <1>8, <3>1, <3>2
    <3> QED
      BY <1>9, <2>1, <3>2, <3>3
  <2>4. ASSUME q[x].state = "trashed", q[x].entry # x
        PROVE  p \in Folders /\ q[p].entry = q[x].entry
    <3>1. CASE In(x)
      BY <1>7, <1>9, <2>1, <2>4, <3>1
    <3>2. CASE ~In(x)
      <4>1. rows[x].state = "trashed" /\ rows[x].entry # x /\ q[x].entry = rows[x].entry
        BY <1>9, <2>4, <3>2
      <4>2. p \in Folders /\ rows[p].entry = rows[x].entry
        BY <1>1, <4>1 DEF Parented
      <4>3. rows[p].state = "trashed"
        BY <1>1, <2>1, <4>1, <4>2 DEF Marked
      <4>4. ~In(p)
        BY <1>6, <4>3 DEF Live
      <4> QED
        BY <1>9, <2>1, <4>1, <4>2, <4>4
    <3> QED
      BY <3>1, <3>2
  <2> HIDE DEF p
  <2> QED
    BY <2>1, <2>2, <2>3, <2>4
<1>15. Recorded(q, t)
  <2> SUFFICES ASSUME NEW x \in Items, q[x].entry = x
               PROVE  t[x] = q[x].parent
    BY DEF Recorded
  <2>1. CASE In(x)
    <3>1. x \in roots
      BY <1>4, <1>9, <2>1 DEF In
    <3> QED
      BY <1>9, <1>12, <3>1
  <2>2. CASE ~In(x)
    <3>1. rows[x].entry = x /\ x \notin roots
      BY <1>5, <1>9, <2>2
    <3> QED
      BY <1>1, <1>9, <1>12, <3>1 DEF Recorded
  <2> QED
    BY <2>1, <2>2
<1>16. Grounded(q)
  BY <1>1, <1>9, GroundedRaise
<1>17. Spread(q)
  <2> SUFFICES ASSUME NEW x \in Items, NEW y \in Items, x # y, KindOf(x) = KindOf(y),
                      q[x].parent = q[y].parent, q[x].state = q[y].state,
                      Placed(q, x), Placed(q, y)
               PROVE  q[x].position # q[y].position
    BY DEF Spread
  <2>1. CASE In(x) /\ In(y)
    <3>1. rows[x].state = "live" /\ rows[y].state = "live"
      BY <1>6, <2>1 DEF Live
    <3> QED
      BY <1>1, <1>9, <3>1 DEF Spread, Placed
  <2>2. CASE ~In(x) /\ ~In(y)
    BY <1>1, <1>9, <2>2 DEF Spread, Placed
  <2>3. ASSUME NEW a \in Items, NEW b \in Items, In(a), ~In(b), q[a].parent = q[b].parent,
               q[a].state = q[b].state, Placed(q, a), Placed(q, b)
        PROVE  FALSE
    <3> DEFINE p == rows[a].parent
    <3>1. /\ q[a].state = "trashed" /\ q[a].entry # a /\ q[b].state = "trashed"
          /\ q[a].entry = rootOf(a) /\ q[b] = rows[b] /\ rows[b].entry # b
      BY <1>9, <2>3 DEF Placed
    <3>2. In(p) /\ p \in Folders
      BY <1>7, <2>3, <3>1
    <3>3. rows[p].entry = rows[b].entry
      BY <1>1, <1>9, <2>3, <3>1 DEF Parented
    <3>4. rows[p].state = "trashed"
      BY <1>1, <3>1, <3>2, <3>3, Ids DEF Marked
    <3> QED
      BY <1>6, <3>2, <3>4 DEF Live
  <2> QED
    BY <2>1, <2>2, <2>3
<1>18. Sound(q, t)
  BY <1>10, <1>11, <1>13, <1>14, <1>15, <1>16, <1>17 DEF Sound
<1>19. ASSUME Named(rows, trash)
       PROVE  Named(q, t)
  <2> SUFFICES ASSUME NEW x \in Items
               PROVE  /\ t[x] # NoEntry => q[x].entry = x \/ Removed(q, x)
                      /\ q[x].state = "trashed" => t[q[x].entry] # NoEntry
    BY DEF Named
  <2>1. \A y \in roots : t[y] # NoEntry
    BY <1>1, <1>3, <1>12, RowFields, Ids
  <2>2. t[x] # NoEntry => q[x].entry = x \/ Removed(q, x)
    <3>1. CASE x \in roots
      BY <1>5, <1>9, <3>1
    <3>2. CASE x \notin roots
      <4>1. SUFFICES ASSUME trash[x] # NoEntry PROVE q[x].entry = x \/ Removed(q, x)
        BY <1>12, <3>2
      <4>2. rows[x].entry = x \/ Removed(rows, x)
        BY <1>19, <4>1 DEF Named
      <4>3. rows[x].state \in {"trashed", "gone"}
        BY <1>1, <4>2, Ids DEF Marked, Removed
      <4>4. ~In(x)
        BY <1>6, <4>3 DEF Live
      <4> QED
        BY <1>9, <4>2, <4>4 DEF Removed
    <3> QED
      BY <3>1, <3>2
  <2>3. ASSUME q[x].state = "trashed"
        PROVE  t[q[x].entry] # NoEntry
    <3>1. CASE In(x)
      BY <1>4, <1>9, <2>1, <3>1 DEF In
    <3>2. CASE ~In(x)
      <4>1. q[x] = rows[x] /\ rows[x].state = "trashed"
        BY <1>9, <2>3, <3>2
      <4>2. trash[rows[x].entry] # NoEntry /\ rows[x].entry \in Items
        BY <1>1, <1>19, <4>1, RowFields DEF Named, Marked
      <4> QED
        BY <1>12, <2>1, <4>1, <4>2
    <3> QED
      BY <3>1, <3>2
  <2> QED
    BY <2>2, <2>3
<1>20. \A x \in Items : /\ rows[x].state = "trashed" => q[x] = rows[x]
                        /\ q[x].parent = rows[x].parent /\ q[x].position = rows[x].position
  BY <1>6, <1>9 DEF Live
<1> QED
  BY <1>2, <1>18, <1>19, <1>20

LEMMA NotItsParent ==
  ASSUME NEW r, Grounded(r), NEW f \in Items
  PROVE  r[f].parent # f
<1> SUFFICES ASSUME r[f].parent = f PROVE FALSE
  OBVIOUS
<1> DEFINE S == (Items \cup {Root}) \ {f}
<1>1. Root \in S /\ \A x \in Items : r[x].parent \in S => x \in S
  BY Ids
<1>2. Items \subseteq S
  BY <1>1 DEF Grounded
<1> QED
  BY <1>2

LEMMA DeleteFolderOnlySound ==
  ASSUME Sound(rows, trash), NEW f \in Folders, DeleteFolderOnly(f)
  PROVE  /\ Sound(rows', trash')
         /\ Named(rows, trash) => Named(rows', trash')
         /\ \A x \in Items :
              rows[x].state = "trashed" =>
                /\ rows'[x].state = "trashed" /\ rows'[x].entry = rows[x].entry
                /\ rows'[x].parent = rows[x].parent
         /\ \A x, y \in Live(rows) :
              /\ KindOf(x) = KindOf(y) /\ rows[x].parent = rows[y].parent
              /\ rows'[x].state = "live" /\ rows'[y].state = "live"
              /\ rows'[x].parent = rows'[y].parent
              /\ rows[x].position < rows[y].position
              => rows'[x].position < rows'[y].position
<1>1. /\ rows \in [Items -> Row] /\ trash \in [Items -> Places \cup {NoEntry}]
      /\ Marked(rows) /\ Parented(rows) /\ Grounded(rows) /\ Recorded(rows, trash) /\ Spread(rows)
  BY DEF Sound
<1> DEFINE p == rows[f].parent
           moved(x) == rows[x].state = "live" /\ rows[x].parent = f
           n(x) == NextPosition(rows, KindOf(x), p) + Rank(rows, x)
           u == [rows[f] EXCEPT !.state = "trashed", !.entry = f]
           v(x) == [rows[x] EXCEPT !.parent = p, !.position = n(x)]
           lifted == [x \in Items |-> IF x = f THEN u ELSE IF moved(x) THEN v(x) ELSE rows[x]]
           q == Reindex(lifted, {p}, {p})
           t == [trash EXCEPT ![f] = p]
<1>2. rows[f].state = "live" /\ rows' = q /\ trash' = t
  BY DEF DeleteFolderOnly
<1>3. f \in Items /\ p # f /\ p \in Places /\ rows[f] \in Row /\ ~moved(f)
  BY <1>1, Ids, NotItsParent, RowFields
<1>4. /\ u \in Row /\ u.state = "trashed" /\ u.entry = f /\ u.parent = p
  BY <1>3 DEF Row
<1>5. \A x \in Items : /\ NextPosition(rows, KindOf(x), p) \in Nat
                       /\ moved(x) => Rank(rows, x) \in Nat /\ n(x) \in Nat
  BY <1>1, NextPositionIsLast, RankOrders, Ids, SMTT(60)
<1>6. ASSUME NEW x \in Items, moved(x)
      PROVE  /\ v(x) \in Row /\ v(x).parent = p /\ v(x).state = "live"
             /\ v(x).position = n(x) /\ v(x).entry = rows[x].entry
  <2>1. rows[x] \in Row /\ n(x) \in Nat
    BY <1>1, <1>5, <1>6
  <2> HIDE DEF n
  <2> QED
    BY <1>3, <1>6, <2>1 DEF Row
<1>7. ASSUME NEW x \in Items
      PROVE  /\ x = f => lifted[x] = u
             /\ moved(x) => lifted[x] = v(x)
             /\ x # f /\ ~moved(x) => lifted[x] = rows[x]
             /\ lifted[x] \in Row
  <2>1. rows[x] \in Row
    BY <1>1
  <2> HIDE DEF moved, u, v
  <2> QED
    BY <1>3, <1>4, <1>6, <2>1
<1>8. lifted \in [Items -> Row]
  <2>1. lifted = [x \in Items |-> lifted[x]]
    OBVIOUS
  <2> HIDE DEF lifted
  <2> QED
    BY <1>7, <2>1
<1>9. \A x \in Items : t[x] = IF x = f THEN p ELSE trash[x]
  BY <1>1
<1>10. t \in [Items -> Places \cup {NoEntry}]
  BY <1>1, <1>3
<1> HIDE DEF lifted, u, v, t, n
<1>11. Marked(lifted)
  <2> SUFFICES ASSUME NEW x \in Items
               PROVE  lifted[x].state = "trashed" <=> lifted[x].entry # NoEntry
    BY DEF Marked
  <2>1. CASE x = f
    BY <1>4, <1>7, <2>1, Ids
  <2>2. CASE x # f
    BY <1>1, <1>6, <1>7, <2>2 DEF Marked
  <2> QED
    BY <2>1, <2>2
<1>12. p \in Folders => rows[p].state = "live" /\ lifted[p].state = "live"
  BY <1>1, <1>2, <1>3, <1>6, <1>7, Ids DEF Parented
<1>13. Parented(lifted)
  <2> SUFFICES ASSUME NEW x \in Items
               PROVE  /\ lifted[x].state = "live" /\ lifted[x].parent # Root =>
                           lifted[x].parent \in Folders /\ lifted[lifted[x].parent].state = "live"
                      /\ lifted[x].state = "trashed" /\ lifted[x].entry # x =>
                           lifted[x].parent \in Folders /\ lifted[lifted[x].parent].entry = lifted[x].entry
                      /\ lifted[x].parent # Root => lifted[lifted[x].parent].state # "new"
    BY DEF Parented
  <2> DEFINE h == lifted[x].parent
  <2>1. h = p \/ (h = rows[x].parent /\ x # f /\ ~moved(x))
    BY <1>4, <1>6, <1>7
  <2>2. CASE h = p
    <3>1. h # Root => h \in Folders /\ lifted[h].state = "live"
      BY <1>3, <1>12, <2>2, Ids
    <3>2. lifted[x].state = "trashed" => lifted[x].entry = x \/ lifted[x] = rows[x]
      BY <1>4, <1>6, <1>7
    <3>3. ASSUME lifted[x] = rows[x], rows[x].state = "trashed", rows[x].entry # x
          PROVE  FALSE
      <4>1. p \in Folders /\ rows[p].entry = rows[x].entry
        BY <1>1, <2>2, <3>3 DEF Parented
      <4>2. rows[x].entry # NoEntry
        BY <1>1, <3>3 DEF Marked
      <4> QED
        BY <1>1, <1>12, <4>1, <4>2, Ids DEF Marked
    <3> HIDE DEF h
    <3> QED
      BY <3>1, <3>2, <3>3 DEF h
  <2>3. CASE h = rows[x].parent /\ x # f /\ ~moved(x)
    <3>1. lifted[x] = rows[x] /\ h \in Items \cup {Root}
      BY <1>1, <1>7, <2>3, RowFields, Ids
    <3>2. h # Root => lifted[h].state # "new"
      <4>1. h # Root => rows[h].state # "new"
        BY <1>1, <2>3 DEF Parented
      <4> QED
        BY <1>4, <1>6, <1>7, <3>1, <4>1
    <3>3. ASSUME rows[x].state = "live", h # Root
          PROVE  h \in Folders /\ lifted[h].state = "live"
      <4>1. h \in Folders /\ rows[h].state = "live" /\ h # f
        BY <1>1, <2>3, <3>3 DEF Parented
      <4> QED
        BY <1>6, <1>7, <4>1, Ids
    <3>4. ASSUME rows[x].state = "trashed", rows[x].entry # x
          PROVE  h \in Folders /\ lifted[h].entry = rows[x].entry
      <4>1. h \in Folders /\ rows[h].entry = rows[x].entry
        BY <1>1, <2>3, <3>4 DEF Parented
      <4>2. rows[h].state = "trashed"
        BY <1>1, <3>4, <4>1, Ids DEF Marked
      <4>3. h # f /\ ~moved(h) /\ h \in Items
        BY <1>2, <4>1, <4>2, Ids
      <4> QED
        BY <1>7, <4>1, <4>3
    <3> HIDE DEF h, moved
    <3> QED
      BY <3>1, <3>2, <3>3, <3>4 DEF h
  <2> QED
    BY <2>1, <2>2, <2>3
<1>14. Recorded(lifted, t)
  <2> SUFFICES ASSUME NEW x \in Items, lifted[x].entry = x
               PROVE  t[x] = lifted[x].parent
    BY DEF Recorded
  <2>1. CASE x = f
    BY <1>4, <1>7, <1>9, <2>1
  <2>2. CASE x # f
    <3>1. rows[x].entry = x
      BY <1>6, <1>7, <2>2
    <3>2. ~moved(x)
      BY <1>1, <3>1, Ids DEF Marked
    <3> QED
      BY <1>1, <1>7, <1>9, <2>2, <3>1, <3>2 DEF Recorded
  <2> QED
    BY <2>1, <2>2
<1>15. Grounded(lifted)
  <2> DEFINE C == {x \in Items : moved(x)}
  <2>1. f \notin C /\ C \in SUBSET Items /\ p \in Items \cup {Root}
        /\ \A x \in C : rows[x].parent = f
    BY <1>3, Ids
  <2>2. \A x \in Items : lifted[x].parent = IF x \in C THEN p ELSE rows[x].parent
    BY <1>4, <1>6, <1>7
  <2> HIDE DEF C
  <2> QED
    BY <1>1, <1>3, <2>1, <2>2, GroundedLift
<1>16. /\ q \in [Items -> Row] /\ Alike(lifted, q)
       /\ \A x \in Items : ~Listed(lifted, {p}, {p}, x) => q[x] = lifted[x]
  BY <1>8, ReindexNumbers
<1> HIDE DEF q
<1>17. Spread(q)
  <2> SUFFICES ASSUME NEW x \in Items, NEW y \in Items, x # y, KindOf(x) = KindOf(y),
                      q[x].parent = q[y].parent, q[x].state = q[y].state,
                      Placed(q, x), Placed(q, y)
               PROVE  q[x].position # q[y].position
    BY DEF Spread
  <2>1. /\ lifted[x].parent = lifted[y].parent /\ lifted[x].state = lifted[y].state
        /\ Placed(lifted, x) /\ Placed(lifted, y)
    BY <1>16, AlikeSound DEF Alike
  <2>2. CASE Listed(lifted, {p}, {p}, x)
    <3>1. lifted[x].state = "live" /\ lifted[y].state = "live"
      BY <2>1, <2>2 DEF Listed
    <3> QED
      BY <1>8, <2>1, <2>2, <3>1, ReindexOrders DEF q
  <2>3. CASE ~Listed(lifted, {p}, {p}, x)
    <3>1. ~Listed(lifted, {p}, {p}, y)
      BY <2>1, <2>3, Ids DEF Listed
    <3>2. x # f /\ y # f /\ ~moved(x) /\ ~moved(y)
      BY <1>4, <1>6, <1>7, <2>1, <2>3, <3>1 DEF Listed, Placed
    <3>3. lifted[x] = rows[x] /\ lifted[y] = rows[y]
      BY <1>7, <3>2
    <3>4. q[x] = rows[x] /\ q[y] = rows[y]
      BY <1>16, <2>3, <3>1, <3>3
    <3>5. Placed(rows, x) /\ Placed(rows, y) /\ rows[x].parent = rows[y].parent
          /\ rows[x].state = rows[y].state
      BY <2>1, <3>3 DEF Placed
    <3> QED
      BY <1>1, <3>4, <3>5 DEF Spread
  <2> QED
    BY <2>2, <2>3
<1>18. Sound(q, t)
  BY <1>8, <1>10, <1>11, <1>13, <1>14, <1>15, <1>16, <1>17, AlikeSound DEF Sound
<1>19. ASSUME Named(rows, trash)
       PROVE  Named(q, t)
  <2> SUFFICES ASSUME NEW x \in Items
               PROVE  /\ t[x] # NoEntry => q[x].entry = x \/ Removed(q, x)
                      /\ q[x].state = "trashed" => t[q[x].entry] # NoEntry
    BY DEF Named
  <2>1. q[x].entry = lifted[x].entry /\ q[x].state = lifted[x].state
    BY <1>16 DEF Alike
  <2>2. CASE x = f
    BY <1>3, <1>4, <1>7, <1>9, <2>1, <2>2, Ids
  <2>3. CASE x # f
    <3>1. lifted[x].entry = rows[x].entry /\ lifted[x].state = rows[x].state
      BY <1>6, <1>7, <2>3
    <3>2. t[x] # NoEntry => q[x].entry = x \/ Removed(q, x)
      BY <1>9, <1>19, <2>1, <2>3, <3>1 DEF Named, Removed
    <3>3. ASSUME rows[x].state = "trashed"
          PROVE  t[rows[x].entry] # NoEntry
      <4>1. rows[x].entry \in Items /\ trash[rows[x].entry] # NoEntry
        BY <1>1, <1>19, <3>3, RowFields DEF Named, Marked
      <4> QED
        BY <1>3, <1>9, <4>1, Ids
    <3> QED
      BY <2>1, <3>1, <3>2, <3>3
  <2> QED
    BY <2>2, <2>3
<1>20. ASSUME NEW x \in Items, rows[x].state = "trashed"
       PROVE  /\ q[x].state = "trashed" /\ q[x].entry = rows[x].entry
              /\ q[x].parent = rows[x].parent
  BY <1>2, <1>7, <1>16, <1>20 DEF Alike
<1>21. ASSUME NEW x \in Live(rows), NEW y \in Live(rows), KindOf(x) = KindOf(y),
              rows[x].parent = rows[y].parent, q[x].state = "live", q[y].state = "live",
              q[x].parent = q[y].parent, rows[x].position < rows[y].position
       PROVE  q[x].position < q[y].position
  <2>1. /\ x \in Items /\ y \in Items /\ rows[x].state = "live" /\ rows[y].state = "live"
        /\ x # f /\ y # f
        /\ lifted[x].state = "live" /\ lifted[y].state = "live"
        /\ lifted[x].parent = lifted[y].parent
    BY <1>4, <1>7, <1>16, <1>21 DEF Live, Alike
  <2>2. lifted[x].position < lifted[y].position
    <3>1. CASE rows[x].parent = f
      <4>1. moved(x) /\ moved(y)
        BY <1>21, <2>1, <3>1
      <4>2. Rank(rows, x) < Rank(rows, y)
        BY <1>1, <1>21, <2>1, RankOrders DEF Before
      <4>3. n(x) < n(y)
        BY <1>5, <1>21, <2>1, <4>1, <4>2 DEF n
      <4> QED
        BY <1>6, <1>7, <2>1, <4>1, <4>3
    <3>2. CASE rows[x].parent # f
      BY <1>7, <1>21, <2>1, <3>2
    <3> QED
      BY <3>1, <3>2
  <2> QED
    BY <1>8, <1>21, <2>1, <2>2, ReindexOrders DEF q
<1> QED
  BY <1>2, <1>18, <1>19, <1>20, <1>21

LEMMA RestoreSound ==
  ASSUME Sound(rows, trash), NEW s \in Arrays(Entries), Restore(s)
  PROVE  /\ Sound(rows', trash')
         /\ Named(rows, trash) => Named(rows', trash')
         /\ \A x \in Items :
              /\ rows[x].state = "trashed" /\ rows[x].entry \in Members(s) =>
                   /\ rows'[x].state = "live" /\ rows'[x].entry = NoEntry
                   /\ rows[x].entry # x => rows'[x].parent = rows[x].parent
              /\ rows[x].state = "trashed" /\ rows[x].entry \notin Members(s) =>
                   rows'[x] = rows[x]
         /\ \A x, y \in Live(rows) :
              /\ KindOf(x) = KindOf(y) /\ rows[x].parent = rows[y].parent
              /\ rows[x].position < rows[y].position
              => rows'[x].position < rows'[y].position
<1>1. /\ rows \in [Items -> Row] /\ trash \in [Items -> Places \cup {NoEntry}]
      /\ Marked(rows) /\ Parented(rows) /\ Grounded(rows) /\ Recorded(rows, trash) /\ Spread(rows)
  BY DEF Sound
<1> DEFINE E == Members(s)
           In(x) == rows[x].entry \in E
           fellows(x) == {y \in E \cap KindOf(x) : Target(E, y) = Target(E, x)}
           n(x) == NextPosition(rows, KindOf(x), Target(E, x)) + Offset(s, fellows(x), x)
           v(x) == [Revived(rows[x]) EXCEPT !.parent = Target(E, x), !.position = n(x)]
           back == [x \in Items |-> IF x \in E THEN v(x)
                      ELSE IF In(x) THEN Revived(rows[x]) ELSE rows[x]]
           targets(K) == {Target(E, x) : x \in E \cap K}
           A == targets(Folders)
           B == targets(Jobs)
           q == Reindex(back, A, B)
           t == [x \in Items |-> IF x \in E THEN NoEntry ELSE trash[x]]
<1>2. /\ rows' = q /\ trash' = t
      /\ \A x \in E : rows[x].entry = x
  BY DEF Restore
<1>3. E \subseteq Entries /\ E \subseteq Items
  BY ListMembers DEF Entries
<1>4. \A x \in E : Target(E, x) \in (IF x \in Folders THEN A ELSE B)
  BY <1>3, Ids
<1> HIDE DEF E, A, B
<1>5. \A x \in Items : /\ x \in E => In(x)
                       /\ In(x) => rows[x].state = "trashed" /\ (x \notin E => rows[x].entry # x)
  <2> SUFFICES ASSUME NEW x \in Items
               PROVE  /\ x \in E => In(x)
                      /\ In(x) => rows[x].state = "trashed"
                      /\ In(x) => (x \notin E => rows[x].entry # x)
    OBVIOUS
  <2>1. x \in E => In(x)
    BY <1>2
  <2>2. In(x) => rows[x].state = "trashed"
    BY <1>1, <1>3, Ids DEF Marked
  <2> QED
    BY <2>1, <2>2
<1>6. ASSUME NEW x \in E
      PROVE  /\ Target(E, x) \in Places
             /\ Target(E, x) = rows[x].parent \/ Target(E, x) = Root
             /\ Target(E, x) # Root =>
                  /\ Target(E, x) \in Folders
                  /\ rows[Target(E, x)].state = "live" \/ In(Target(E, x))
  <2>1. trash[x] \in Places \cup {NoEntry} /\ trash[x] = rows[x].parent
    BY <1>1, <1>2, <1>3 DEF Recorded
  <2> QED
    BY <2>1, Ids DEF Target, Live
<1>7. \A x \in E : n(x) \in Nat
  <2> SUFFICES ASSUME NEW x \in E PROVE n(x) \in Nat
    OBVIOUS
  <2>1. NextPosition(rows, KindOf(x), Target(E, x)) \in Nat
    BY <1>1, <1>3, NextPositionIsLast, Ids
  <2>2. Offset(s, fellows(x), x) \in Nat
    BY ListMembers
  <2> QED
    BY <2>1, <2>2
<1> HIDE DEF n
<1>8. ASSUME NEW x \in Items
      PROVE  /\ back[x] \in Row
             /\ x \in E => back[x].parent = Target(E, x)
             /\ x \notin E => /\ back[x].parent = rows[x].parent
                              /\ back[x].position = rows[x].position
             /\ In(x) => back[x].state = "live" /\ back[x].entry = NoEntry
             /\ ~In(x) => back[x] = rows[x]
  <2>1. rows[x] \in Row
    BY <1>1
  <2>2. /\ Revived(rows[x]) \in Row /\ Revived(rows[x]).state = "live"
        /\ Revived(rows[x]).entry = NoEntry /\ Revived(rows[x]).parent = rows[x].parent
        /\ Revived(rows[x]).position = rows[x].position
    BY <2>1 DEF Revived, Row
  <2>3. CASE x \in E
    <3>1. Target(E, x) \in Places /\ n(x) \in Nat
      BY <1>6, <1>7, <2>3
    <3>2. /\ v(x) \in Row /\ v(x).state = "live" /\ v(x).entry = NoEntry
          /\ v(x).parent = Target(E, x)
      BY <2>2, <3>1 DEF Row
    <3> HIDE DEF v
    <3> QED
      BY <1>5, <2>3, <3>2
  <2>4. CASE x \notin E
    BY <2>1, <2>2, <2>4
  <2> QED
    BY <2>3, <2>4
<1>9. back \in [Items -> Row]
  <2>1. back = [x \in Items |-> back[x]]
    OBVIOUS
  <2> HIDE DEF back
  <2> QED
    BY <1>8, <2>1
<1>10. \A x \in Items : t[x] = IF x \in E THEN NoEntry ELSE trash[x]
  OBVIOUS
<1>11. t \in [Items -> Places \cup {NoEntry}]
  BY <1>1
<1> HIDE DEF back, v, t
<1>12. Marked(back)
  BY <1>1, <1>8 DEF Marked
<1>13. \A x \in Items : rows[x].state = "live" => ~In(x)
  BY <1>5
<1>14. Parented(back)
  <2> SUFFICES ASSUME NEW x \in Items
               PROVE  /\ back[x].state = "live" /\ back[x].parent # Root =>
                           back[x].parent \in Folders /\ back[back[x].parent].state = "live"
                      /\ back[x].state = "trashed" /\ back[x].entry # x =>
                           back[x].parent \in Folders /\ back[back[x].parent].entry = back[x].entry
                      /\ back[x].parent # Root => back[back[x].parent].state # "new"
    BY DEF Parented
  <2> DEFINE h == back[x].parent
  <2>1. CASE x \in E
    <3>1. back[x].state = "live"
      BY <1>5, <1>8, <2>1
    <3>2. h # Root => h \in Folders /\ back[h].state = "live"
      BY <1>6, <1>8, <1>13, <2>1, Ids
    <3> QED
      BY <3>1, <3>2
  <2>2. CASE x \notin E
    <3>1. h = rows[x].parent /\ h \in Items \cup {Root}
      BY <1>1, <1>8, <2>2, RowFields, Ids
    <3>2. h # Root => back[h].state # "new"
      <4>1. h # Root => rows[h].state # "new"
        BY <1>1, <3>1 DEF Parented
      <4> QED
        BY <1>8, <3>1, <4>1
    <3>3. ASSUME back[x].state = "live", h # Root
          PROVE  h \in Folders /\ back[h].state = "live"
      <4>1. CASE In(x)
        <5>1. rows[x].state = "trashed" /\ rows[x].entry # x
          BY <1>5, <2>2, <4>1
        <5>2. h \in Folders /\ rows[h].entry = rows[x].entry
          BY <1>1, <3>1, <5>1 DEF Parented
        <5> QED
          BY <1>8, <4>1, <5>2, Ids
      <4>2. CASE ~In(x)
        <5>1. h \in Folders /\ rows[h].state = "live"
          BY <1>1, <1>8, <3>1, <3>3, <4>2 DEF Parented
        <5> QED
          BY <1>8, <1>13, <5>1, Ids
      <4> QED
        BY <4>1, <4>2
    <3>4. ASSUME back[x].state = "trashed", back[x].entry # x
          PROVE  h \in Folders /\ back[h].entry = back[x].entry
      <4>1. ~In(x) /\ back[x] = rows[x]
        BY <1>8, <3>4
      <4>2. h \in Folders /\ rows[h].entry = rows[x].entry
        BY <1>1, <3>1, <3>4, <4>1 DEF Parented
      <4> QED
        BY <1>8, <4>1, <4>2, Ids
    <3> HIDE DEF h
    <3> QED
      BY <3>2, <3>3, <3>4 DEF h
  <2> QED
    BY <2>1, <2>2
<1>15. Recorded(back, t)
  <2> SUFFICES ASSUME NEW x \in Items, back[x].entry = x
               PROVE  t[x] = back[x].parent
    BY DEF Recorded
  <2>1. ~In(x) /\ back[x] = rows[x] /\ x \notin E
    BY <1>5, <1>8, Ids
  <2> QED
    BY <1>1, <1>10, <2>1 DEF Recorded
<1>16. Grounded(back)
  <2>1. \A x \in Items : back[x].parent = rows[x].parent \/ back[x].parent = Root
    BY <1>6, <1>8
  <2> QED
    BY <1>1, <2>1, GroundedRaise
<1>17. /\ q \in [Items -> Row] /\ Alike(back, q)
       /\ \A x \in Items : ~Listed(back, A, B, x) => q[x] = back[x]
  BY <1>9, ReindexNumbers
<1>18. \A x \in E : Listed(back, A, B, x)
  BY <1>3, <1>4, <1>5, <1>8 DEF Listed
<1> HIDE DEF q
<1>19. Spread(q)
  <2> SUFFICES ASSUME NEW x \in Items, NEW y \in Items, x # y, KindOf(x) = KindOf(y),
                      q[x].parent = q[y].parent, q[x].state = q[y].state,
                      Placed(q, x), Placed(q, y)
               PROVE  q[x].position # q[y].position
    BY DEF Spread
  <2>1. /\ back[x].parent = back[y].parent /\ back[x].state = back[y].state
        /\ Placed(back, x) /\ Placed(back, y)
    BY <1>17, AlikeSound DEF Alike
  <2>2. CASE Listed(back, A, B, x)
    <3>1. back[x].state = "live" /\ back[y].state = "live"
      BY <2>1, <2>2 DEF Listed
    <3> QED
      BY <1>9, <2>1, <2>2, <3>1, ReindexOrders DEF q
  <2>3. CASE ~Listed(back, A, B, x)
    <3>1. ~Listed(back, A, B, y)
      BY <2>1, <2>3, Ids DEF Listed
    <3>2. x \notin E /\ y \notin E
      BY <1>18, <2>3, <3>1
    <3>3. /\ rows[x].parent = rows[y].parent
          /\ q[x].position = rows[x].position /\ q[y].position = rows[y].position
      BY <1>8, <1>17, <2>1, <2>3, <3>1, <3>2
    <3>4. ASSUME NEW a \in Items, NEW b \in Items, In(a), ~In(b), a \notin E,
                 rows[a].parent = rows[b].parent, back[b].state = "live"
          PROVE  FALSE
      <4> DEFINE h == rows[a].parent
      <4>1. rows[a].state = "trashed" /\ rows[a].entry # a /\ rows[b].state = "live"
        BY <1>5, <1>8, <3>4
      <4>2. h \in Folders /\ rows[h].entry = rows[a].entry
        BY <1>1, <4>1 DEF Parented
      <4>3. rows[h].state = "live"
        BY <1>1, <3>4, <4>1, <4>2, Ids DEF Parented
      <4> QED
        BY <1>5, <3>4, <4>2, <4>3, Ids
    <3>5. In(x) <=> In(y)
      BY <1>8, <2>1, <3>2, <3>3, <3>4
    <3>6. CASE In(x) /\ In(y)
      <4>1. /\ rows[x].state = "trashed" /\ rows[x].entry # x
            /\ rows[y].state = "trashed" /\ rows[y].entry # y
        BY <1>5, <3>2, <3>6
      <4> QED
        BY <1>1, <3>3, <4>1 DEF Spread, Placed
    <3>7. CASE ~In(x) /\ ~In(y)
      <4>1. back[x] = rows[x] /\ back[y] = rows[y]
        BY <1>8, <3>7
      <4> QED
        BY <1>1, <2>1, <3>3, <4>1 DEF Spread, Placed
    <3> QED
      BY <3>5, <3>6, <3>7
  <2> QED
    BY <2>2, <2>3
<1>20. Sound(q, t)
  BY <1>9, <1>11, <1>12, <1>14, <1>15, <1>16, <1>17, <1>19, AlikeSound DEF Sound
<1>21. ASSUME Named(rows, trash)
       PROVE  Named(q, t)
  <2> SUFFICES ASSUME NEW x \in Items
               PROVE  /\ t[x] # NoEntry => q[x].entry = x \/ Removed(q, x)
                      /\ q[x].state = "trashed" => t[q[x].entry] # NoEntry
    BY DEF Named
  <2>1. q[x].entry = back[x].entry /\ q[x].state = back[x].state
    BY <1>17 DEF Alike
  <2>2. ASSUME t[x] # NoEntry
        PROVE  q[x].entry = x \/ Removed(q, x)
    <3>1. x \notin E /\ trash[x] # NoEntry
      BY <1>10, <2>2
    <3>2. CASE rows[x].entry = x
      BY <1>8, <2>1, <3>1, <3>2
    <3>3. CASE Removed(rows, x)
      <4>1. ~In(x)
        BY <1>5, <3>3 DEF Removed
      <4> QED
        BY <1>8, <2>1, <3>3, <4>1 DEF Removed
    <3> QED
      BY <1>21, <3>1, <3>2, <3>3 DEF Named
  <2>3. ASSUME q[x].state = "trashed"
        PROVE  t[q[x].entry] # NoEntry
    <3>1. ~In(x) /\ back[x] = rows[x] /\ rows[x].state = "trashed"
      BY <1>8, <2>1, <2>3
    <3>2. rows[x].entry \in Items /\ trash[rows[x].entry] # NoEntry
      BY <1>1, <1>21, <3>1, RowFields DEF Named, Marked
    <3> QED
      BY <1>10, <2>1, <3>1, <3>2
  <2> QED
    BY <2>2, <2>3
<1>22. ASSUME NEW x \in Items, rows[x].state = "trashed"
       PROVE  /\ In(x) => /\ q[x].state = "live" /\ q[x].entry = NoEntry
                          /\ rows[x].entry # x => q[x].parent = rows[x].parent
              /\ ~In(x) => q[x] = rows[x]
  <2>1. In(x) => /\ q[x].state = "live" /\ q[x].entry = NoEntry
                 /\ rows[x].entry # x => q[x].parent = rows[x].parent
    BY <1>2, <1>8, <1>17 DEF Alike
  <2>2. ~In(x) => ~Listed(back, A, B, x)
    BY <1>8, <1>22 DEF Listed
  <2> QED
    BY <1>8, <1>17, <2>1, <2>2
<1>23. ASSUME NEW x \in Live(rows), NEW y \in Live(rows), KindOf(x) = KindOf(y),
              rows[x].parent = rows[y].parent, rows[x].position < rows[y].position
       PROVE  q[x].position < q[y].position
  <2>1. /\ x \in Items /\ y \in Items /\ rows[x].state = "live" /\ rows[y].state = "live"
        /\ back[x] = rows[x] /\ back[y] = rows[y]
    BY <1>8, <1>13 DEF Live
  <2> QED
    BY <1>9, <1>23, <2>1, ReindexOrders DEF q
<1> QED
  BY <1>2, <1>20, <1>21, <1>22, <1>23 DEF E

\* Rows that disappear together with what hangs on them.
LEMMA RemoveSound ==
  ASSUME Sound(rows, trash), NEW G \in SUBSET Items, NEW t \in [Items -> Places \cup {NoEntry}],
         \A x \in Items \ G : rows[x].parent \in G =>
           ~(rows[x].state = "live" \/ (rows[x].state = "trashed" /\ rows[x].entry # x)),
         \A x \in Items \ G : rows[x].entry = x => t[x] = trash[x]
  PROVE  LET q == [x \in Items |-> IF x \in G THEN NoRow("gone") ELSE rows[x]]
         IN  Sound(q, t)
<1> DEFINE q == [x \in Items |-> IF x \in G THEN NoRow("gone") ELSE rows[x]]
<1>1. /\ rows \in [Items -> Row] /\ trash \in [Items -> Places \cup {NoEntry}]
      /\ Marked(rows) /\ Parented(rows) /\ Grounded(rows) /\ Recorded(rows, trash) /\ Spread(rows)
  BY DEF Sound
<1>2. \A x \in Items : /\ x \in G => /\ q[x].state = "gone" /\ q[x].parent = Root
                                     /\ q[x].entry = NoEntry
                       /\ x \notin G => q[x] = rows[x]
                       /\ q[x] \in Row
  BY <1>1, NewRow
<1>3. q \in [Items -> Row]
  BY <1>1, NewRow
<1> HIDE DEF q
<1>4. Marked(q) /\ Recorded(q, t)
  BY <1>1, <1>2, Ids DEF Marked, Recorded
<1>5. Parented(q)
  <2> SUFFICES ASSUME NEW x \in Items
               PROVE  /\ q[x].state = "live" /\ q[x].parent # Root =>
                           q[x].parent \in Folders /\ q[q[x].parent].state = "live"
                      /\ q[x].state = "trashed" /\ q[x].entry # x =>
                           q[x].parent \in Folders /\ q[q[x].parent].entry = q[x].entry
                      /\ q[x].parent # Root => q[q[x].parent].state # "new"
    BY DEF Parented
  <2> DEFINE h == rows[x].parent
  <2>1. CASE x \in G
    BY <1>2, <2>1
  <2>2. CASE x \notin G
    <3>1. q[x] = rows[x] /\ h \in Items \cup {Root} /\ (h \in Folders => h \in Items /\ h # Root)
      BY <1>1, <1>2, <2>2, RowFields, Ids
    <3>2. h # Root => q[h].state # "new"
      <4>1. h # Root => rows[h].state # "new"
        BY <1>1 DEF Parented
      <4> QED
        BY <1>2, <3>1, <4>1
    <3>3. ASSUME rows[x].state = "live", h # Root
          PROVE  h \in Folders /\ q[h].state = "live"
      BY <1>1, <1>2, <2>2, <3>1, <3>3 DEF Parented
    <3>4. ASSUME rows[x].state = "trashed", rows[x].entry # x
          PROVE  h \in Folders /\ q[h].entry = rows[x].entry
      BY <1>1, <1>2, <2>2, <3>1, <3>4 DEF Parented
    <3> HIDE DEF h
    <3> QED
      BY <3>1, <3>2, <3>3, <3>4 DEF h
  <2> QED
    BY <2>1, <2>2
<1>6. Grounded(q)
  <2>1. \A x \in Items : q[x].parent = rows[x].parent \/ q[x].parent = Root
    BY <1>2
  <2> QED
    BY <1>1, <2>1, GroundedRaise
<1>7. Spread(q)
  BY <1>1, <1>2 DEF Spread, Placed
<1> QED
  BY <1>3, <1>4, <1>5, <1>6, <1>7 DEF Sound, q

LEMMA PurgeSound ==
  ASSUME Sound(rows, trash), NEW E \in SUBSET Entries, Purge(E)
  PROVE  /\ Sound(rows', trash')
         /\ Named(rows, trash) => Named(rows', trash')
         /\ \A x \in Items :
              /\ rows[x].entry \in E => rows'[x].state = "gone" /\ rows'[x].entry = NoEntry
              /\ rows[x].entry \notin E => rows'[x] = rows[x]
<1>1. /\ rows \in [Items -> Row] /\ trash \in [Items -> Places \cup {NoEntry}]
      /\ Marked(rows) /\ Parented(rows) /\ Grounded(rows) /\ Recorded(rows, trash) /\ Spread(rows)
  BY DEF Sound
<1> DEFINE G == {x \in Items : rows[x].entry \in E}
           q == [x \in Items |-> IF x \in G THEN NoRow("gone") ELSE rows[x]]
           t == [x \in Items |-> IF x \in E THEN NoEntry ELSE trash[x]]
<1>2. rows' = q /\ trash' = t
  BY DEF Purge
<1>3. E \subseteq Items
  BY DEF Entries
<1>4. t \in [Items -> Places \cup {NoEntry}] /\ G \in SUBSET Items
  BY <1>1
<1>5. ASSUME NEW x \in Items \ G, rows[x].parent \in G
      PROVE  ~(rows[x].state = "live" \/ (rows[x].state = "trashed" /\ rows[x].entry # x))
  <2>1. rows[x].parent # Root /\ rows[rows[x].parent].entry \in E
    BY <1>5, Ids
  <2>2. rows[rows[x].parent].state = "trashed"
    BY <1>1, <1>3, <1>5, <2>1, Ids DEF Marked
  <2> QED
    BY <1>1, <1>5, <2>1, <2>2 DEF Parented
<1>6. \A x \in Items \ G : rows[x].entry = x => t[x] = trash[x]
  OBVIOUS
<1>7. Sound(q, t)
  <2> HIDE DEF G, t
  <2> QED
    BY <1>4, <1>5, <1>6, RemoveSound
<1>8. \A x \in Items : /\ rows[x].entry \in E => q[x].state = "gone" /\ q[x].entry = NoEntry
                       /\ rows[x].entry \notin E => q[x] = rows[x]
  BY NewRow
<1>9. ASSUME Named(rows, trash)
      PROVE  Named(q, t)
  <2> SUFFICES ASSUME NEW x \in Items
               PROVE  /\ t[x] # NoEntry => q[x].entry = x \/ Removed(q, x)
                      /\ q[x].state = "trashed" => t[q[x].entry] # NoEntry
    BY DEF Named
  <2>1. ASSUME t[x] # NoEntry
        PROVE  q[x].entry = x \/ Removed(q, x)
    <3>1. x \notin E /\ (rows[x].entry = x \/ Removed(rows, x))
      BY <1>9, <2>1 DEF Named
    <3>2. CASE rows[x].entry = x
      BY <1>8, <3>1, <3>2
    <3>3. CASE Removed(rows, x)
      BY <1>8, <3>3 DEF Removed
    <3> QED
      BY <3>1, <3>2, <3>3
  <2>2. ASSUME q[x].state = "trashed"
        PROVE  t[q[x].entry] # NoEntry
    <3>1. rows[x].entry \notin E /\ q[x] = rows[x] /\ rows[x].state = "trashed"
      BY <1>8, <2>2
    <3>2. rows[x].entry \in Items /\ trash[rows[x].entry] # NoEntry
      BY <1>1, <1>9, <3>1, RowFields DEF Named, Marked
    <3> QED
      BY <3>1, <3>2
  <2> QED
    BY <2>1, <2>2
<1> QED
  BY <1>2, <1>7, <1>8, <1>9

LEMMA DeleteJobSound ==
  ASSUME Sound(rows, trash), NEW j \in Jobs, DeleteJob(j)
  PROVE  /\ Sound(rows', trash')
         /\ Named(rows, trash) => Named(rows', trash')
         /\ rows'[j].state = "gone" /\ \A x \in Items \ {j} : rows'[x] = rows[x]
<1>1. /\ rows \in [Items -> Row] /\ trash \in [Items -> Places \cup {NoEntry}]
      /\ Marked(rows) /\ Parented(rows)
  BY DEF Sound
<1> DEFINE q == [x \in Items |-> IF x \in {j} THEN NoRow("gone") ELSE rows[x]]
<1>2. rows' = q /\ trash' = trash
  BY <1>1 DEF DeleteJob
<1>3. \A x \in Items : rows[x].parent # j
  BY <1>1, RowFields, Ids
<1>4. Sound(q, trash)
  <2>1. {j} \in SUBSET Items
    BY Ids
  <2> QED
    BY <1>1, <1>3, <2>1, RemoveSound
<1>5. q[j].state = "gone" /\ q[j].entry = NoEntry /\ \A x \in Items \ {j} : q[x] = rows[x]
  BY NewRow, Ids
<1>6. ASSUME Named(rows, trash)
      PROVE  Named(q, trash)
  <2>1. Removed(q, j)
    BY <1>5 DEF Removed
  <2> HIDE DEF q
  <2> QED
    BY <1>5, <1>6, <2>1 DEF Named, Removed
<1> QED
  BY <1>2, <1>4, <1>5, <1>6

-----------------------------------------------------------------------------
(* Theorems *)

LEMMA StepSound == IInv /\ [Next]_vars => IInv'
<1> SUFFICES ASSUME IInv, [Next]_vars PROVE Sound(rows', trash') /\ Named(rows', trash')
  BY DEF IInv
<1>1. Sound(rows, trash) /\ Named(rows, trash)
  BY DEF IInv
<1>2. /\ rows \in [Items -> Row] /\ Marked(rows)
      /\ \A x \in Items : rows[x].entry \in Items \cup {NoEntry}
  BY <1>1, RowFields DEF Sound
<1>3. CASE UNCHANGED vars
  BY <1>1, <1>3 DEF vars
<1>4. ASSUME NEW x \in Items, NEW p \in Places, Create(x, p)
      PROVE  Sound(rows', trash') /\ (Named(rows, trash) => Named(rows', trash'))
  <2>1. /\ Sound(rows', trash') /\ trash' = trash
        /\ \A y \in Items : /\ rows'[y].entry = rows[y].entry
                            /\ rows[y].state = "gone" => rows'[y].state = "gone"
                            /\ rows[y].state = "trashed" <=> rows'[y].state = "trashed"
    BY <1>1, <1>4, CreateSound DEF Create
  <2> QED
    BY <2>1 DEF Named, Removed
<1>5. ASSUME NEW p \in Places, Reorder(p)
      PROVE  Sound(rows', trash') /\ (Named(rows, trash) => Named(rows', trash'))
  <2>1. Sound(rows', trash') /\ trash' = trash /\ Alike(rows, rows')
    BY <1>1, <1>5, ReorderSound
  <2> QED
    BY <2>1 DEF Named, Removed, Alike
<1>6. ASSUME NEW s \in Lists(Live(rows)), NEW p \in Places, Move(s, p)
      PROVE  Sound(rows', trash') /\ (Named(rows, trash) => Named(rows', trash'))
  <2>1. /\ Sound(rows', trash') /\ trash' = trash
        /\ \A x \in Items : rows'[x].state = rows[x].state /\ rows'[x].entry = rows[x].entry
    BY <1>1, <1>6, MoveSound, ListsAreArrays
  <2> QED
    BY <2>1 DEF Named, Removed
<1>7. ASSUME NEW j \in Jobs, DeleteJob(j)
      PROVE  Sound(rows', trash') /\ Named(rows', trash')
  BY <1>1, <1>7, DeleteJobSound
<1> QED
  BY <1>1, <1>3, <1>4, <1>5, <1>6, <1>7, DeleteSound, DeleteFolderOnlySound, RestoreSound,
     PurgeSound, ListsAreArrays DEF Next

\* What is live is reached through live folders.
LEMMA SoundIsRooted == IInv => RootedTree
<1> SUFFICES ASSUME IInv, NEW S \in SUBSET (Items \cup {Root}), Root \in S,
                    \A x \in Items : rows[x].state = "live" /\ rows[x].parent \in S => x \in S
             PROVE  Live(rows) \subseteq S
  BY DEF RootedTree
<1>1. rows \in [Items -> Row] /\ Parented(rows) /\ Grounded(rows)
  BY DEF IInv, Sound
<1> DEFINE T == S \cup {x \in Items : rows[x].state # "live"}
<1>2. ASSUME NEW x \in Items, rows[x].parent \in T
      PROVE  x \in T
  <2>1. SUFFICES ASSUME rows[x].state = "live", rows[x].parent \notin S PROVE FALSE
    OBVIOUS
  <2>2. rows[x].parent \in Items /\ rows[rows[x].parent].state # "live"
    BY <1>2, <2>1
  <2> QED
    BY <1>1, <2>1, <2>2, Ids DEF Parented
<1>3. Items \subseteq T
  <2>1. T \in SUBSET (Items \cup {Root}) /\ Root \in T
    OBVIOUS
  <2> HIDE DEF T
  <2> QED
    BY <1>1, <1>2, <2>1 DEF Grounded
<1> QED
  BY <1>3 DEF Live

\* A removed job is the root of nothing: what is under an entry hangs, in the
\* end, on the root.
LEMMA RootIsThere ==
  ASSUME Sound(rows, trash), NEW x \in Items, NEW y \in Items, rows[y].entry = x
  PROVE  rows[x].entry = x
<1>1. SUFFICES ASSUME rows[x].entry # x PROVE FALSE
  OBVIOUS
<1>2. /\ rows \in [Items -> Row] /\ Marked(rows) /\ Parented(rows) /\ Grounded(rows)
  BY DEF Sound
<1> DEFINE S == (Items \cup {Root}) \ {z \in Items : rows[z].entry = x}
<1>3. ASSUME NEW z \in Items, rows[z].parent \in S
      PROVE  z \in S
  <2>1. SUFFICES ASSUME rows[z].entry = x PROVE FALSE
    OBVIOUS
  <2>2. z # x /\ rows[z].state = "trashed"
    BY <1>1, <1>2, <2>1, Ids DEF Marked
  <2>3. rows[z].parent \in Folders /\ rows[rows[z].parent].entry = x
    BY <1>2, <2>1, <2>2 DEF Parented
  <2> QED
    BY <1>3, <2>3, Ids
<1>4. Items \subseteq S
  <2>1. S \in SUBSET (Items \cup {Root}) /\ Root \in S
    BY Ids
  <2> HIDE DEF S
  <2> QED
    BY <1>2, <1>3, <2>1 DEF Grounded
<1> QED
  BY <1>4

LEMMA SoundConsequences ==
  IInv => TypeOK /\ DistinctPositions /\ EntriesIntact
<1> SUFFICES ASSUME IInv
             PROVE  TypeOK /\ DistinctPositions /\ EntriesIntact
  OBVIOUS
<1>1. /\ Sound(rows, trash) /\ Named(rows, trash)
      /\ rows \in [Items -> Row] /\ trash \in [Items -> Places \cup {NoEntry}]
      /\ Marked(rows) /\ Parented(rows) /\ Spread(rows)
  BY DEF IInv, Sound
<1>2. TypeOK
  BY <1>1 DEF TypeOK, Marked
<1>3. DistinctPositions
  BY <1>1 DEF DistinctPositions, Spread, Placed, Live
<1>4. EntriesIntact
  <2>1. ASSUME NEW x \in Entries
        PROVE  \/ rows[x].entry = x
               \/ /\ x \in Jobs /\ rows[x].state = "gone"
                  /\ \A y \in Items : rows[y].entry # x
    <3>1. x \in Items /\ (rows[x].entry = x \/ Removed(rows, x))
      BY <1>1 DEF Named, Entries
    <3> QED
      BY <1>1, <3>1, RootIsThere DEF Removed
  <2>2. ASSUME NEW x \in Items, rows[x].state = "trashed"
        PROVE  /\ rows[x].entry \in Entries
               /\ x = rows[x].entry \/ (/\ rows[x].parent \in Folders
                                        /\ rows[rows[x].parent].entry = rows[x].entry)
    <3>1. rows[x].entry \in Items /\ trash[rows[x].entry] # NoEntry
      BY <1>1, <2>2, RowFields DEF Named, Marked
    <3> QED
      BY <1>1, <2>2, <3>1 DEF Parented, Entries
  <2> QED
    BY <2>1, <2>2 DEF EntriesIntact
<1> QED
  BY <1>2, <1>3, <1>4

LEMMA Invariance == Spec => []IInv
<1>1. Init => IInv
  BY InitSound
<1>2. IInv /\ [Next]_vars => IInv'
  BY StepSound
<1> QED
  BY <1>1, <1>2, PTL DEF Spec

\* Both tables keep their types; only trashed rows belong to an entry.
THEOREM TypeCorrect == Spec => []TypeOK
BY Invariance, SoundConsequences, PTL

\* Every live item can be reached from the root of the library: moving,
\* trashing and restoring never close a circle or leave a folder hanging on one
\* that is not there, even when trashed jobs are hard deleted.
THEOREM TreeStaysRooted == Spec => []RootedTree
BY Invariance, SoundIsRooted, PTL

\* Siblings of one kind never share a position.
THEOREM PositionsStayDistinct == Spec => []DistinctPositions
BY Invariance, SoundConsequences, PTL

\* Everything trashed belongs to an entry whose root is there, so that it can be
\* restored; the only entry without a root is that of a job that was hard deleted
\* from the trash, and it holds nothing.
THEOREM EntriesStayIntact == Spec => []EntriesIntact
BY Invariance, SoundConsequences, PTL

-----------------------------------------------------------------------------
(* Steps *)

\* No item of a bundle holds the root of the bundle.
LEMMA RootHangsOutside ==
  ASSUME Sound(rows, trash), NEW x \in Items, rows[x].entry = x
  PROVE  \A y \in Items : rows[y].entry = x => rows[x].parent # y
<1> SUFFICES ASSUME NEW y \in Items, rows[y].entry = x, rows[x].parent = y
             PROVE  FALSE
  OBVIOUS
<1>1. /\ rows \in [Items -> Row] /\ Marked(rows) /\ Parented(rows) /\ Grounded(rows)
  BY DEF Sound
<1> DEFINE S == (Items \cup {Root}) \ {z \in Items : rows[z].entry = x}
<1>2. ASSUME NEW z \in Items, rows[z].parent \in S
      PROVE  z \in S
  <2>1. SUFFICES ASSUME rows[z].entry = x PROVE FALSE
    OBVIOUS
  <2>2. z # x /\ rows[z].state = "trashed"
    BY <1>1, <1>2, <2>1, Ids DEF Marked
  <2>3. rows[z].parent \in Folders /\ rows[rows[z].parent].entry = x
    BY <1>1, <2>1, <2>2 DEF Parented
  <2> QED
    BY <1>2, <2>3, Ids
<1>3. Items \subseteq S
  <2>1. S \in SUBSET (Items \cup {Root}) /\ Root \in S
    BY Ids
  <2> HIDE DEF S
  <2> QED
    BY <1>1, <1>2, <2>1 DEF Grounded
<1> QED
  BY <1>3

\* What was trashed together comes back or is purged together, and inside a
\* restored folder everything is where it was, whatever happens in between: only
\* a hard deletion takes something out of a bundle, the job it names.
THEOREM BundlesStayWhole == Spec => BundleStaysWhole
<1> DEFINE Kept(x, y) ==
             \/ /\ rows'[x].entry = rows'[y].entry
                /\ rows'[x].state = rows'[y].state
                /\ rows[x].parent = y /\ rows'[x].state = "live" => rows'[x].parent = y
             \/ \E j \in Jobs \cap {x, y} : DeleteJob(j)
<1>1. IInv /\ [Next]_vars =>
        [\A x, y \in Items :
           rows[x].entry # NoEntry /\ rows[x].entry = rows[y].entry =>
             \/ /\ rows'[x].entry = rows'[y].entry
                /\ rows'[x].state = rows'[y].state
                /\ rows[x].parent = y /\ rows'[x].state = "live" => rows'[x].parent = y
             \/ \E j \in Jobs \cap {x, y} : DeleteJob(j)]_vars
  <2> SUFFICES ASSUME IInv, Next, NEW x \in Items, NEW y \in Items,
                      rows[x].entry # NoEntry, rows[x].entry = rows[y].entry
               PROVE  Kept(x, y)
    BY DEF vars
  <2>1. /\ Sound(rows, trash)
        /\ rows[x].state = "trashed" /\ rows[y].state = "trashed"
    BY DEF IInv, Sound, Marked
  <2>2. ASSUME \A z \in Items : rows[z].state = "trashed" =>
                 /\ rows'[z].state = "trashed" /\ rows'[z].entry = rows[z].entry
        PROVE  Kept(x, y)
    BY <2>1, <2>2
  <2>3. ASSUME NEW z \in Items, NEW p \in Places, Create(z, p)
        PROVE  Kept(x, y)
    BY <2>1, <2>3, CreateSound
  <2>4. ASSUME NEW p \in Places, Reorder(p)
        PROVE  Kept(x, y)
    BY <2>1, <2>2, <2>4, ReorderSound DEF Alike
  <2>5. ASSUME NEW s \in Lists(Live(rows)), NEW p \in Places, Move(s, p)
        PROVE  Kept(x, y)
    BY <2>1, <2>2, <2>5, MoveSound, ListsAreArrays
  <2>6. ASSUME NEW S \in SUBSET Live(rows), Delete(S)
        PROVE  Kept(x, y)
    BY <2>1, <2>2, <2>6, DeleteSound
  <2>7. ASSUME NEW f \in Folders, DeleteFolderOnly(f)
        PROVE  Kept(x, y)
    BY <2>1, <2>2, <2>7, DeleteFolderOnlySound
  <2>8. ASSUME NEW s \in Lists(Entries), Restore(s)
        PROVE  Kept(x, y)
    <3>1. CASE rows[x].entry \in Members(s)
      <4>1. /\ rows'[x].state = "live" /\ rows'[x].entry = NoEntry
            /\ rows'[y].state = "live" /\ rows'[y].entry = NoEntry
            /\ rows[x].entry # x => rows'[x].parent = rows[x].parent
        BY <2>1, <2>8, <3>1, RestoreSound, ListsAreArrays
      <4>2. rows[x].entry = x => rows[x].parent # y
        BY <2>1, RootHangsOutside
      <4> QED
        BY <4>1, <4>2
    <3>2. CASE rows[x].entry \notin Members(s)
      <4>1. rows'[x] = rows[x] /\ rows'[y] = rows[y]
        BY <2>1, <2>8, <3>2, RestoreSound, ListsAreArrays
      <4> QED
        BY <2>1, <4>1
    <3> QED
      BY <3>1, <3>2
  <2>9. ASSUME NEW E \in SUBSET Entries, Purge(E)
        PROVE  Kept(x, y)
    <3>1. CASE rows[x].entry \in E
      BY <2>1, <2>9, <3>1, PurgeSound
    <3>2. CASE rows[x].entry \notin E
      BY <2>1, <2>9, <3>2, PurgeSound
    <3> QED
      BY <3>1, <3>2
  <2>10. ASSUME NEW j \in Jobs, DeleteJob(j)
         PROVE  Kept(x, y)
    <3>1. CASE x # j /\ y # j
      <4>1. rows'[x] = rows[x] /\ rows'[y] = rows[y]
        BY <2>1, <2>10, <3>1, DeleteJobSound
      <4> QED
        BY <2>1, <4>1
    <3>2. CASE j \in {x, y}
      BY <2>10, <3>2
    <3> QED
      BY <3>1, <3>2
  <2> HIDE DEF Kept
  <2> QED
    BY <2>3, <2>4, <2>5, <2>6, <2>7, <2>8, <2>9, <2>10 DEF Next
<1> QED
  BY <1>1, Invariance, PTL DEF Spec, BundleStaysWhole

\* Two siblings change order only by a reorder of their folder or by a move
\* that names one of them.
THEOREM OrderStaysKept == Spec => OrderKept
<1> DEFINE Same(x, y) == rows'[x].position < rows'[y].position
<1>1. IInv /\ [Next]_vars =>
        [\A x, y \in Live(rows) :
           /\ KindOf(x) = KindOf(y) /\ rows[x].parent = rows[y].parent
           /\ rows'[x].state = "live" /\ rows'[y].state = "live"
           /\ rows'[x].parent = rows'[y].parent
           /\ rows[x].position < rows[y].position
           => \/ rows'[x].position < rows'[y].position
              \/ Reorder(rows[x].parent)
              \/ \E s \in Lists(Live(rows)), p \in Places :
                   Members(s) \cap {x, y} # {} /\ Move(s, p)]_vars
  <2> SUFFICES ASSUME IInv, Next, NEW x \in Live(rows), NEW y \in Live(rows),
                      KindOf(x) = KindOf(y), rows[x].parent = rows[y].parent,
                      rows'[x].state = "live", rows'[y].state = "live",
                      rows'[x].parent = rows'[y].parent,
                      rows[x].position < rows[y].position,
                      ~Reorder(rows[x].parent),
                      ~\E s \in Lists(Live(rows)), p \in Places :
                         Members(s) \cap {x, y} # {} /\ Move(s, p)
               PROVE  Same(x, y)
    BY DEF vars
  <2>1. /\ Sound(rows, trash) /\ x \in Items /\ y \in Items
        /\ rows[x].state = "live" /\ rows[y].state = "live"
    BY DEF IInv, Live
  <2>2. ASSUME rows'[x].position = rows[x].position, rows'[y].position = rows[y].position
        PROVE  Same(x, y)
    BY <2>2
  <2>3. ASSUME NEW z \in Items, NEW p \in Places, Create(z, p)
        PROVE  Same(x, y)
    BY <2>1, <2>2, <2>3, CreateSound
  <2>4. ASSUME NEW p \in Places, Reorder(p)
        PROVE  Same(x, y)
    <3>1. rows[x].parent # p
      BY <2>4
    <3> QED
      BY <2>1, <2>2, <2>4, <3>1, ReorderSound
  <2>5. ASSUME NEW s \in Lists(Live(rows)), NEW p \in Places, Move(s, p)
        PROVE  Same(x, y)
    <3>1. x \notin Members(s) /\ y \notin Members(s)
      BY <2>5
    <3> QED
      BY <2>1, <2>5, <3>1, MoveSound, ListsAreArrays
  <2>6. ASSUME NEW S \in SUBSET Live(rows), Delete(S)
        PROVE  Same(x, y)
    BY <2>1, <2>2, <2>6, DeleteSound
  <2>7. ASSUME NEW f \in Folders, DeleteFolderOnly(f)
        PROVE  Same(x, y)
    BY <2>1, <2>7, DeleteFolderOnlySound
  <2>8. ASSUME NEW s \in Lists(Entries), Restore(s)
        PROVE  Same(x, y)
    BY <2>1, <2>8, RestoreSound, ListsAreArrays
  <2>9. ASSUME NEW E \in SUBSET Entries, Purge(E)
        PROVE  Same(x, y)
    <3>1. rows'[x] = rows[x] /\ rows'[y] = rows[y]
      BY <2>1, <2>9, PurgeSound
    <3> QED
      BY <2>2, <3>1
  <2>10. ASSUME NEW j \in Jobs, DeleteJob(j)
         PROVE  Same(x, y)
    <3>1. x # j /\ y # j
      BY <2>1, <2>10, DeleteJobSound
    <3>2. rows'[x] = rows[x] /\ rows'[y] = rows[y]
      BY <2>1, <2>10, <3>1, DeleteJobSound
    <3> QED
      BY <2>2, <3>2
  <2> HIDE DEF Same
  <2> QED
    BY <2>3, <2>4, <2>5, <2>6, <2>7, <2>8, <2>9, <2>10 DEF Next
<1> QED
  BY <1>1, Invariance, PTL DEF Spec, OrderKept
=============================================================================
