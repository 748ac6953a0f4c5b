--------------------------- MODULE ConveyorProofs ---------------------------
(***************************************************************************)
(* Proofs about what the reader computes from its chunks (Timeline) and    *)
(* about the two controls that seek by it (Conveyor).                      *)
(*                                                                         *)
(* The loops of Timeline are recursive functions, and a sum of durations   *)
(* is a fold.  What they compute for every input is proved by induction    *)
(* written out: a least index, distance or size where the claim fails is   *)
(* refuted by the one below it (LeastNatural).  That the function which    *)
(* TLA+ chooses satisfies its equation is proved first, the same way or    *)
(* from a function that does.                                              *)
(***************************************************************************)
EXTENDS Conveyor, FiniteSetTheorems, WellFoundedInduction, TLAPS

\* The form in which induction is used here.
LEMMA LeastNatural ==
  ASSUME NEW T, T \subseteq Nat, T # {}
  PROVE  \E x \in T : \A y \in T : x <= y
<1>1. PICK x \in T : \A y \in T : ~(<<y, x>> \in OpToRel(<, Nat))
  BY NatLessThanWellFounded, WFMin
<1>2. \A y \in T : ~(y < x)
  BY <1>1 DEF OpToRel
<1> QED
  BY <1>2

LEMMA GreatestNatural ==
  ASSUME NEW n \in Nat, NEW T, T \subseteq 0 .. n, T # {}
  PROVE  \E x \in T : \A y \in T : y <= x
<1> DEFINE R == {n - x : x \in T}
<1>1. R \subseteq Nat /\ R # {}
  <2>1. \A x \in T : n - x \in Nat
    OBVIOUS
  <2> QED
    BY <2>1
<1>2. PICK m \in R : \A y \in R : m <= y
  BY <1>1, LeastNatural
<1>3. PICK x \in T : m = n - x
  OBVIOUS
<1>4. ASSUME NEW y \in T PROVE y <= x
  <2>1. n - y \in R
    OBVIOUS
  <2>2. n - x <= n - y /\ x \in Int /\ y \in Int
    BY <1>2, <1>3, <2>1
  <2> QED
    BY <2>2
<1> QED
  BY <1>4

-----------------------------------------------------------------------------
(* Slots and positions *)

\* The first of l .. h that is h or not in T.
First(l, h, T) == CHOOSE j \in l .. h : (j = h \/ j \notin T) /\ \A k \in l .. j - 1 : k \in T

LEMMA FirstFacts ==
  ASSUME NEW l \in Int, NEW h \in Int, l <= h, NEW T
  PROVE  /\ First(l, h, T) \in l .. h
         /\ First(l, h, T) = h \/ First(l, h, T) \notin T
         /\ \A k \in l .. First(l, h, T) - 1 : k \in T
<1> DEFINE R == {j - l : j \in {i \in l .. h : i = h \/ i \notin T}}
<1>1. R \subseteq Nat /\ R # {}
  <2>1. h - l \in R
    OBVIOUS
  <2>2. \A j \in l .. h : j - l \in Nat
    OBVIOUS
  <2> QED
    BY <2>1, <2>2
<1>2. PICK m \in R : \A y \in R : m <= y
  BY <1>1, LeastNatural
<1>3. PICK j \in l .. h : m = j - l /\ (j = h \/ j \notin T)
  OBVIOUS
<1>4. ASSUME NEW k \in l .. j - 1 PROVE k \in T
  <2>1. k \in l .. h /\ k < j
    OBVIOUS
  <2>2. ASSUME k \notin T PROVE FALSE
    <3>1. k - l \in R
      BY <2>1, <2>2
    <3> HIDE DEF R
    <3>2. m <= k - l
      BY <1>2, <3>1
    <3> QED
      BY <1>3, <2>1, <3>2
  <2> QED
    BY <2>2
<1>5. \E i \in l .. h : (i = h \/ i \notin T) /\ \A k \in l .. i - 1 : k \in T
  BY <1>3, <1>4
<1> QED
  BY <1>5 DEF First

\* A slot that ends a run of T is the first not in it.
LEMMA FirstIs ==
  ASSUME NEW l \in Int, NEW h \in Int, l <= h, NEW T, NEW j \in l .. h,
         j = h \/ j \notin T, \A k \in l .. j - 1 : k \in T
  PROVE  First(l, h, T) = j
<1> DEFINE f == First(l, h, T)
<1>1. /\ f \in l .. h /\ (f = h \/ f \notin T) /\ \A k \in l .. f - 1 : k \in T
  BY FirstFacts
<1> HIDE DEF f
<1>2. CASE f < j
  BY <1>1, <1>2
<1>3. CASE j < f
  BY <1>1, <1>3
<1> QED
  BY <1>1, <1>2, <1>3 DEF f

\* The binary search finds it, when no slot that is before comes after one that is
\* not: by induction on the slots that are left.
LEMMA SearchFacts ==
  ASSUME NEW lo \in Int, NEW hi \in Int, lo <= hi, NEW T,
         \A i \in lo .. hi, k \in lo .. hi : i \in T /\ k <= i => k \in T
  PROVE  LowerBound(lo, hi, T) = First(lo, hi, T)
<1> DEFINE D == (lo .. hi) \X (lo .. hi)
           Mid(p) == (p[1] + p[2]) \div 2
           Body(f, p) == IF p[1] >= p[2] THEN p[1]
                         ELSE IF Mid(p) \in T THEN f[<<Mid(p) + 1, p[2]>>] ELSE f[<<p[1], Mid(p)>>]
           at == CHOOSE f : f = [p \in D |-> Body(f, p)]
           V(l, h) == IF l >= h THEN l ELSE First(l, h, T)
           g == [p \in D |-> V(p[1], p[2])]
<1>1. LowerBound(lo, hi, T) = at[<<lo, hi>>]
  BY DEF LowerBound
<1>2. ASSUME NEW l \in lo .. hi, NEW h \in lo .. hi, l < h
      PROVE  LET m == (l + h) \div 2
             IN  /\ m \in lo .. hi /\ m + 1 \in lo .. hi /\ l <= m /\ m < h
                 /\ m \in T => V(l, h) = V(m + 1, h)
                 /\ m \notin T => V(l, h) = V(l, m)
  <2> DEFINE m == (l + h) \div 2
             f == First(l, h, T)
  <2>1. m \in lo .. hi /\ m + 1 \in lo .. hi /\ l <= m /\ m < h /\ m \in Int
    BY <1>2
  <2>2. /\ f \in l .. h /\ (f = h \/ f \notin T) /\ \A k \in l .. f - 1 : k \in T
    BY <1>2, FirstFacts
  <2>3. V(l, h) = f
    BY <1>2
  <2> HIDE DEF m, f
  <2>4. CASE m \in T
    <3>1. ASSUME NEW k \in l .. m PROVE k \in T
      BY <2>1, <2>4
    <3>2. f > m
      BY <2>1, <2>2, <3>1
    <3>3. CASE m + 1 < h
      <4>1. f \in m + 1 .. h /\ \A k \in m + 1 .. f - 1 : k \in T
        BY <2>1, <2>2, <3>2
      <4>2. First(m + 1, h, T) = f
        BY <2>1, <2>2, <3>3, <4>1, FirstIs
      <4> QED
        BY <2>1, <2>3, <2>4, <3>3, <4>2 DEF m
    <3>4. CASE m + 1 >= h
      BY <2>1, <2>2, <2>3, <2>4, <3>2, <3>4 DEF m
    <3> QED
      BY <2>1, <3>3, <3>4
  <2>5. CASE m \notin T
    <3>1. f <= m
      BY <2>1, <2>2, <2>5
    <3>2. CASE l < m
      <4>1. f \in l .. m /\ (f = m \/ f \notin T)
        BY <2>1, <2>2, <3>1
      <4>2. First(l, m, T) = f
        BY <2>1, <2>2, <3>2, <4>1, FirstIs
      <4> QED
        BY <2>1, <2>3, <2>5, <3>2, <4>2 DEF m
    <3>3. CASE l >= m
      BY <2>1, <2>2, <2>3, <2>5, <3>1, <3>3 DEF m
    <3> QED
      BY <2>1, <3>2, <3>3
  <2> QED
    BY <2>1, <2>4, <2>5 DEF m
<1> HIDE DEF V
<1>3. ASSUME NEW p \in D PROVE g[p] = Body(g, p)
  <2>1. PICK l \in lo .. hi, h \in lo .. hi : p = <<l, h>>
    OBVIOUS
  <2>2. g[p] = V(l, h)
    BY <2>1
  <2>3. CASE l >= h
    BY <2>1, <2>2, <2>3 DEF V
  <2>4. CASE l < h
    <3>1. /\ Mid(p) \in lo .. hi /\ Mid(p) + 1 \in lo .. hi
          /\ Mid(p) \in T => V(l, h) = V(Mid(p) + 1, h)
          /\ Mid(p) \notin T => V(l, h) = V(l, Mid(p))
      BY <1>2, <2>1, <2>4
    <3> HIDE DEF Mid
    <3>2. g[<<Mid(p) + 1, h>>] = V(Mid(p) + 1, h) /\ g[<<l, Mid(p)>>] = V(l, Mid(p))
      BY <3>1
    <3>3. Body(g, p) = IF Mid(p) \in T THEN g[<<Mid(p) + 1, h>>] ELSE g[<<l, Mid(p)>>]
      BY <2>1, <2>4
    <3> HIDE DEF g, Body
    <3> QED
      BY <2>2, <3>1, <3>2, <3>3
  <2> QED
    BY <2>3, <2>4
<1>4. g = [p \in D |-> Body(g, p)]
  <2> HIDE DEF Body
  <2> QED
    BY <1>3
<1>5. at = [p \in D |-> Body(at, p)]
  <2> HIDE DEF Body, g
  <2> QED
    BY <1>4
<1>6. ASSUME NEW p \in D PROVE at[p] = Body(at, p)
  <2> HIDE DEF Body, at
  <2> QED
    BY <1>5
<1> HIDE DEF at, g
<1> DEFINE Bad == {k \in Nat : \E l \in lo .. hi, h \in lo .. hi :
                                 k = (IF l >= h THEN 0 ELSE h - l) /\ at[<<l, h>>] # V(l, h)}
<1>7. ASSUME Bad # {} PROVE FALSE
  <2>1. PICK k \in Bad : \A m \in Bad : k <= m
    BY <1>7, LeastNatural
  <2>2. PICK l \in lo .. hi, h \in lo .. hi :
          k = (IF l >= h THEN 0 ELSE h - l) /\ at[<<l, h>>] # V(l, h)
    BY <2>1
  <2> DEFINE p == <<l, h>>
             m == Mid(p)
  <2>3. p \in D /\ p[1] = l /\ p[2] = h
    OBVIOUS
  <2>4. at[p] = Body(at, p)
    BY <1>6, <2>3
  <2>5. l < h
    <3>1. CASE l >= h
      BY <2>2, <2>4, <3>1 DEF V
    <3> QED
      BY <3>1
  <2>6. /\ m \in lo .. hi /\ m + 1 \in lo .. hi /\ l <= m /\ m < h
        /\ m \in T => V(l, h) = V(m + 1, h)
        /\ m \notin T => V(l, h) = V(l, m)
    BY <1>2, <2>5
  <2>7. at[p] = IF m \in T THEN at[<<m + 1, h>>] ELSE at[<<l, m>>]
    BY <2>4, <2>5
  <2> HIDE DEF m
  <2>8. at[<<m + 1, h>>] = V(m + 1, h)
    <3> DEFINE j == IF m + 1 >= h THEN 0 ELSE h - (m + 1)
    <3>1. j \in Nat /\ j < k
      BY <2>2, <2>5, <2>6
    <3>2. j \notin Bad
      <4> HIDE DEF Bad, j
      <4>1. k \in Nat
        BY <2>1 DEF Bad
      <4> QED
        BY <2>1, <3>1, <4>1
    <3> QED
      BY <2>6, <3>1, <3>2
  <2>9. at[<<l, m>>] = V(l, m)
    <3> DEFINE j == IF l >= m THEN 0 ELSE m - l
    <3>1. j \in Nat /\ j < k
      BY <2>2, <2>5, <2>6
    <3>2. j \notin Bad
      <4> HIDE DEF Bad, j
      <4>1. k \in Nat
        BY <2>1 DEF Bad
      <4> QED
        BY <2>1, <3>1, <4>1
    <3> QED
      BY <2>6, <3>1, <3>2
  <2> QED
    BY <2>2, <2>6, <2>7, <2>8, <2>9
<1>8. at[<<lo, hi>>] = V(lo, hi)
  <2> DEFINE j == IF lo >= hi THEN 0 ELSE hi - lo
  <2>1. j \in Nat
    OBVIOUS
  <2>2. j \notin Bad
    BY <1>7
  <2> QED
    BY <2>1, <2>2
<1>9. V(lo, hi) = First(lo, hi, T)
  <2>1. CASE lo = hi
    <3>1. First(lo, hi, T) \in lo .. hi
      BY FirstFacts
    <3> QED
      BY <2>1, <3>1 DEF V
  <2>2. CASE lo # hi
    BY <2>2 DEF V
  <2> QED
    BY <2>1, <2>2
<1> QED
  BY <1>1, <1>8, <1>9

\* buildCumulativeStartTimes: the slots follow one another.
LEMMA StartFacts ==
  ASSUME NEW n \in Nat, NEW len \in [0 .. n - 1 -> Nat]
  PROVE  LET start == RunningStart(len, n)
         IN  /\ start \in [0 .. n -> Nat] /\ start[0] = 0
             /\ \A i \in 0 .. n - 1 : start[i + 1] = start[i] + len[i]
             /\ \A i, j \in 0 .. n : i <= j => start[i] <= start[j]
<1> DEFINE Body(f, i) == IF i = 0 THEN 0 ELSE f[i - 1] + len[i - 1]
           Runs(f, k) == f \in [0 .. k -> Nat] /\ \A i \in 0 .. k : f[i] = Body(f, i)
           start == CHOOSE f : f = [i \in 0 .. n |-> Body(f, i)]
           Bad == {k \in Nat : k <= n /\ ~\E f : Runs(f, k)}
<1>1. RunningStart(len, n) = start
  BY DEF RunningStart
<1>2. ASSUME Bad # {} PROVE FALSE
  <2>1. PICK k \in Bad : \A m \in Bad : k <= m
    BY <1>2, LeastNatural
  <2>2. k \in Nat /\ k <= n /\ ~\E f : Runs(f, k)
    BY <2>1
  <2>3. CASE k = 0
    <3> DEFINE f == [i \in 0 .. 0 |-> 0]
    <3>1. f \in [0 .. 0 -> Nat] /\ \A i \in 0 .. 0 : i = 0 /\ f[i] = 0
      OBVIOUS
    <3> HIDE DEF f
    <3>2. Runs(f, 0)
      BY <3>1
    <3> QED
      BY <2>2, <2>3, <3>2
  <2>4. CASE k # 0
    <3>1. k - 1 \in Nat /\ k - 1 <= n
      BY <2>2, <2>4
    <3>2. k - 1 \notin Bad
      <4> HIDE DEF Bad
      <4> QED
        BY <2>1, <2>2, <3>1
    <3>3. PICK h : Runs(h, k - 1)
      BY <3>1, <3>2
    <3> DEFINE f == [i \in 0 .. k |-> Body(h, i)]
    <3>4. ASSUME NEW i \in 0 .. k
          PROVE  f[i] \in Nat /\ f[i] = Body(h, i) /\ (i < k => f[i] = h[i])
      <4>1. i # 0 => h[i - 1] \in Nat /\ len[i - 1] \in Nat
        <5>1. i # 0 => i - 1 \in 0 .. k - 1 /\ i - 1 \in 0 .. n - 1
          BY <2>2
        <5> QED
          BY <3>3, <5>1
      <4>2. i < k => h[i] = Body(h, i)
        <5>1. i < k => i \in 0 .. k - 1
          BY <2>2
        <5> QED
          BY <3>3, <5>1
      <4> QED
        BY <4>1, <4>2
    <3>5. ASSUME NEW i \in 0 .. k PROVE f[i] = Body(f, i)
      <4>1. i # 0 => i - 1 \in 0 .. k /\ i - 1 < k
        BY <2>2
      <4>2. i # 0 => f[i - 1] = h[i - 1]
        BY <3>4, <4>1
      <4>3. f[i] = Body(h, i)
        BY <3>4
      <4> HIDE DEF f
      <4> QED
        BY <4>2, <4>3
    <3>6. f \in [0 .. k -> Nat]
      <4>1. \A i \in 0 .. k : Body(h, i) \in Nat
        BY <3>4
      <4> HIDE DEF Body
      <4> QED
        BY <4>1
    <3>7. Runs(f, k)
      <4> HIDE DEF f, Body
      <4> QED
        BY <3>5, <3>6
    <3> QED
      BY <2>2, <3>7
  <2> QED
    BY <2>3, <2>4
<1>3. PICK f : Runs(f, n)
  <2>1. n \notin Bad
    <3> HIDE DEF Bad
    <3> QED
      BY <1>2
  <2> HIDE DEF Runs
  <2> QED
    BY <2>1
<1>4. f = [i \in 0 .. n |-> Body(f, i)]
  <2> HIDE DEF Body
  <2> QED
    BY <1>3
<1>5. start = [i \in 0 .. n |-> Body(start, i)]
  <2> HIDE DEF Body
  <2> QED
    BY <1>4
<1>6. ASSUME NEW i \in 0 .. n PROVE start[i] = Body(start, i)
  <2> HIDE DEF Body, start
  <2> QED
    BY <1>5
<1> HIDE DEF start
<1>7. start[0] = 0
  BY <1>6
<1>8. ASSUME NEW i \in 0 .. n - 1 PROVE start[i + 1] = start[i] + len[i]
  <2>1. i + 1 \in 0 .. n /\ i + 1 # 0 /\ (i + 1) - 1 = i
    OBVIOUS
  <2> QED
    BY <1>6, <2>1
<1> DEFINE Worse == {k \in Nat : k <= n /\ start[k] \notin Nat}
<1>9. ASSUME Worse # {} PROVE FALSE
  <2>1. PICK k \in Worse : \A m \in Worse : k <= m
    BY <1>9, LeastNatural
  <2>2. k \in Nat /\ k <= n /\ start[k] \notin Nat
    BY <2>1
  <2>3. k # 0
    BY <1>7, <2>2
  <2>4. k - 1 \in Nat /\ k - 1 \in 0 .. n - 1 /\ (k - 1) + 1 = k /\ k - 1 < k
    BY <2>2, <2>3
  <2>5. k - 1 \notin Worse
    <3> HIDE DEF Worse
    <3> QED
      BY <2>1, <2>2, <2>4
  <2>6. start[k - 1] \in Nat /\ len[k - 1] \in Nat /\ start[k] = start[k - 1] + len[k - 1]
    BY <1>8, <2>2, <2>4, <2>5
  <2> QED
    BY <2>2, <2>6
<1>10. \A i \in 0 .. n : start[i] \in Nat
  BY <1>9
<1>11. start \in [0 .. n -> Nat]
  <2> HIDE DEF Body
  <2>1. start = [i \in 0 .. n |-> start[i]]
    BY <1>5
  <2> QED
    BY <1>10, <2>1
<1> DEFINE Down == {k \in Nat : \E i \in 0 .. n : i + k <= n /\ start[i] > start[i + k]}
<1>12. ASSUME Down # {} PROVE FALSE
  <2>1. PICK k \in Down : \A m \in Down : k <= m
    BY <1>12, LeastNatural
  <2>2. PICK i \in 0 .. n : i + k <= n /\ start[i] > start[i + k]
    BY <2>1
  <2>3. k \in Nat /\ k # 0
    BY <1>10, <2>1, <2>2
  <2>4. k - 1 \in Nat /\ i + (k - 1) <= n /\ k - 1 < k
    BY <2>2, <2>3
  <2>5. k - 1 \notin Down
    <3> HIDE DEF Down
    <3> QED
      BY <2>1, <2>3, <2>4
  <2>6. i + (k - 1) \in 0 .. n - 1 /\ (i + (k - 1)) + 1 = i + k
    BY <2>2, <2>3
  <2>7. start[i + k] = start[i + (k - 1)] + len[i + (k - 1)] /\ len[i + (k - 1)] \in Nat
    BY <1>8, <2>6
  <2>8. /\ start[i] \in Nat /\ start[i + (k - 1)] \in Nat
        /\ start[i] <= start[i + (k - 1)]
    BY <1>10, <2>4, <2>5, <2>6
  <2> QED
    BY <2>2, <2>7, <2>8
<1>13. ASSUME NEW i \in 0 .. n, NEW j \in 0 .. n, i <= j PROVE start[i] <= start[j]
  <2>1. j - i \in Nat /\ i + (j - i) = j
    BY <1>13
  <2>2. j - i \notin Down
    <3> HIDE DEF Down
    <3> QED
      BY <1>12
  <2>3. ~(start[i] > start[i + (j - i)])
    BY <2>1, <2>2
  <2> QED
    BY <1>10, <2>1, <2>3
<1> QED
  BY <1>1, <1>7, <1>8, <1>11, <1>13

\* The scan stops at the first slot that has not begun.
LEMMA ScanFacts ==
  ASSUME NEW n \in Nat, NEW start \in [0 .. n -> Int], NEW s \in Int
  PROVE  ScanIndex(start, n, s)
           = Greater(0, First(0, n, {i \in 0 .. n : start[i] <= s}) - 1)
<1> DEFINE T == {i \in 0 .. n : start[i] <= s}
           F(i) == First(i, n, T)
           Body(f, i) == IF i = n \/ s < start[i] THEN Greater(0, i - 1) ELSE f[i + 1]
           at == CHOOSE f : f = [i \in 0 .. n |-> Body(f, i)]
           g == [i \in 0 .. n |-> Greater(0, F(i) - 1)]
<1>1. ScanIndex(start, n, s) = at[0]
  BY DEF ScanIndex
<1>2. ASSUME NEW i \in 0 .. n
      PROVE  /\ i = n \/ s < start[i] => F(i) = i
             /\ ~(i = n \/ s < start[i]) => i + 1 \in 0 .. n /\ F(i) = F(i + 1)
  <2>1. CASE i = n \/ s < start[i]
    <3>1. i \in i .. n /\ (i = n \/ i \notin T) /\ \A k \in i .. i - 1 : k \in T
      BY <2>1
    <3> HIDE DEF T
    <3> QED
      BY <2>1, <3>1, FirstIs
  <2>2. CASE ~(i = n \/ s < start[i])
    <3>1. i + 1 \in 0 .. n /\ i \in T /\ i + 1 <= n /\ i <= n
      BY <2>2
    <3> HIDE DEF T
    <3> DEFINE f == First(i + 1, n, T)
    <3>2. f \in i + 1 .. n /\ (f = n \/ f \notin T) /\ \A k \in i + 1 .. f - 1 : k \in T
      BY <3>1, FirstFacts
    <3> HIDE DEF f
    <3>3. f \in i .. n /\ \A k \in i .. f - 1 : k \in T
      BY <3>1, <3>2
    <3>4. First(i, n, T) = f
      BY <3>1, <3>2, <3>3, FirstIs
    <3> QED
      BY <2>2, <3>1, <3>4 DEF f
  <2> QED
    BY <2>1, <2>2
<1> HIDE DEF F
<1>3. ASSUME NEW i \in 0 .. n PROVE g[i] = Body(g, i)
  BY <1>2
<1>4. g = [i \in 0 .. n |-> Body(g, i)]
  <2> HIDE DEF Body
  <2> QED
    BY <1>3
<1>5. at = [i \in 0 .. n |-> Body(at, i)]
  <2> HIDE DEF Body, g
  <2> QED
    BY <1>4
<1>6. ASSUME NEW i \in 0 .. n PROVE at[i] = Body(at, i)
  <2> HIDE DEF Body, at
  <2> QED
    BY <1>5
<1> HIDE DEF at
<1> DEFINE Bad == {k \in Nat : k <= n /\ at[n - k] # g[n - k]}
<1>7. ASSUME Bad # {} PROVE FALSE
  <2>1. PICK k \in Bad : \A m \in Bad : k <= m
    BY <1>7, LeastNatural
  <2> DEFINE i == n - k
  <2>2. k \in Nat /\ k <= n /\ at[i] # g[i] /\ i \in 0 .. n
    BY <2>1
  <2>3. at[i] = Body(at, i) /\ g[i] = Body(g, i)
    BY <1>3, <1>6, <2>2
  <2>4. ~(i = n \/ s < start[i])
    BY <2>2, <2>3
  <2>5. k - 1 \in Nat /\ k - 1 <= n /\ n - (k - 1) = i + 1
    BY <2>2, <2>4
  <2>6. k - 1 \notin Bad
    <3> HIDE DEF Bad
    <3> QED
      BY <2>1, <2>2, <2>5
  <2>7. at[i + 1] = g[i + 1]
    <3> HIDE DEF g
    <3> QED
      BY <2>5, <2>6
  <2> HIDE DEF g
  <2> QED
    BY <2>2, <2>3, <2>4, <2>7
<1>8. at[0] = g[0]
  <2>1. n \notin Bad
    <3> HIDE DEF Bad
    <3> QED
      BY <1>7
  <2>2. n - n = 0
    OBVIOUS
  <2> HIDE DEF g
  <2> QED
    BY <2>1, <2>2
<1>9. g[0] = Greater(0, F(0) - 1)
  OBVIOUS
<1> QED
  BY <1>1, <1>8, <1>9 DEF F

\* The slots that have begun come first.
LEMMA BegunSlots ==
  ASSUME NEW n \in Nat, NEW len \in [0 .. n - 1 -> Nat], NEW s \in Int
  PROVE  LET start == RunningStart(len, n)
             begun == {i \in 0 .. n - 1 : start[i] <= s}
         IN  begun = 0 .. First(0, n, begun) - 1 /\ First(0, n, begun) \in 0 .. n
<1> DEFINE start == RunningStart(len, n)
           begun == {i \in 0 .. n - 1 : start[i] <= s}
           f == First(0, n, begun)
<1>1. /\ start \in [0 .. n -> Nat]
      /\ \A i, j \in 0 .. n : i <= j => start[i] <= start[j]
  BY StartFacts
<1> HIDE DEF start
<1>2. f \in 0 .. n /\ (f = n \/ f \notin begun) /\ \A k \in 0 .. f - 1 : k \in begun
  <2> HIDE DEF begun
  <2> QED
    BY FirstFacts
<1> HIDE DEF f
<1>3. ASSUME NEW k \in begun PROVE k \in 0 .. f - 1
  <2>1. k \in 0 .. n - 1 /\ start[k] <= s
    OBVIOUS
  <2>2. ASSUME k >= f PROVE FALSE
    <3>1. f \in 0 .. n - 1 /\ start[f] <= start[k] /\ start[f] \in Nat /\ start[k] \in Nat
      BY <1>1, <1>2, <2>1, <2>2
    <3>2. f \in begun /\ f # n
      BY <2>1, <3>1
    <3> HIDE DEF begun
    <3> QED
      BY <1>2, <3>2
  <2> QED
    BY <1>2, <2>1, <2>2
<1>4. begun = 0 .. f - 1
  <2> HIDE DEF begun
  <2> QED
    BY <1>2, <1>3
<1> QED
  BY <1>2, <1>4 DEF f, start

\* The search of the conveyor finds the last of them.
LEMMA SearchLast ==
  ASSUME NEW n \in Nat, NEW len \in [0 .. n - 1 -> Nat], NEW s \in Int
  PROVE  LET start == RunningStart(len, n)
             begun == {i \in 0 .. n - 1 : start[i] <= s}
         IN  SearchIndex(start, n, s) = Greater(0, First(0, n, begun) - 1)
<1> DEFINE start == RunningStart(len, n)
           begun == {i \in 0 .. n - 1 : start[i] <= s}
           f == First(0, n, begun)
<1>1. begun = 0 .. f - 1 /\ f \in 0 .. n
  BY BegunSlots
<1>2. SearchIndex(start, n, s) = Greater(0, LowerBound(0, n, begun) - 1)
  BY DEF SearchIndex
<1> HIDE DEF start, begun
<1>3. \A i \in 0 .. n, k \in 0 .. n : i \in begun /\ k <= i => k \in begun
  <2> HIDE DEF f
  <2> QED
    BY <1>1
<1>4. LowerBound(0, n, begun) = f
  BY <1>3, SearchFacts
<1> QED
  BY <1>2, <1>4 DEF start, begun

\* slotIndexAtSeconds of the timeline, which scans, and that of the conveyor, which
\* searches, find the same slot: the last that has begun, however many are empty.
THEOREM SlotIndexesAgree ==
  ASSUME NEW n \in Nat, NEW len \in [0 .. n - 1 -> Nat], NEW s \in Int
  PROVE  LET start == RunningStart(len, n)
             begun == {i \in 0 .. n - 1 : start[i] <= s}
             index == SearchIndex(start, n, s)
         IN  /\ ScanIndex(start, n, s) = index
             /\ begun = {} => index = 0
             /\ begun # {} => index \in begun /\ \A k \in begun : k <= index
<1> DEFINE start == RunningStart(len, n)
           begun == {i \in 0 .. n - 1 : start[i] <= s}
           f == First(0, n, begun)
           scanned == {i \in 0 .. n : start[i] <= s}
<1>0. \A i \in 0 .. n - 1 : len[i] \in Nat
  OBVIOUS
<1>1. start \in [0 .. n -> Nat]
  BY <1>0, StartFacts
<1>2. begun = 0 .. f - 1 /\ f \in 0 .. n
  <2> HIDE DEF start, f
  <2>1. LET strt == RunningStart(len, n)
            bgn  == {i \in 0 .. n - 1 : strt[i] <= s}
        IN  bgn = 0 .. First(0, n, bgn) - 1 /\ First(0, n, bgn) \in 0 .. n
    BY <1>0, BegunSlots
  <2> QED
    BY <2>1 DEF start, f
<1>3. SearchIndex(start, n, s) = Greater(0, f - 1)
  BY <1>0, SearchLast
<1>4. ScanIndex(start, n, s) = Greater(0, First(0, n, scanned) - 1)
  <2> HIDE DEF start
  <2>1. start \in [0 .. n -> Int]
    BY <1>1
  <2> QED
    BY <2>1, ScanFacts
<1> HIDE DEF start
<1>5. First(0, n, scanned) = f
  <2>1. \A k \in 0 .. f - 1 : k \in scanned
    <3> HIDE DEF f
    <3> QED
      BY <1>2
  <2>2. f = n \/ f \notin scanned
    <3>1. f = n \/ f \notin begun
      <4> HIDE DEF begun
      <4> QED
        BY FirstFacts
    <3> HIDE DEF f
    <3> QED
      BY <1>2, <3>1
  <2> HIDE DEF f, scanned
  <2> QED
    BY <1>2, <2>1, <2>2, FirstIs
<1> HIDE DEF f, begun
<1>6. /\ begun = {} => Greater(0, f - 1) = 0
      /\ begun # {} => Greater(0, f - 1) \in begun /\ \A k \in begun : k <= Greater(0, f - 1)
  BY <1>2 DEF Greater
<1> QED
  BY <1>3, <1>4, <1>5, <1>6 DEF start, begun

\* visibleSlotIndexes: the two searches keep the slots that overlap the window and
\* no other, so that the strip draws no gap and nothing that is out of view.
THEOREM VisibleSlotsOverlap ==
  ASSUME NEW n \in Nat, NEW len \in [0 .. n - 1 -> Nat], NEW from \in Int, NEW to \in Int
  PROVE  LET start == RunningStart(len, n)
         IN  VisibleSlots(start, len, n, from, to)
               = {i \in 0 .. n - 1 : start[i] < to /\ start[i] + len[i] > from}
<1> DEFINE start == RunningStart(len, n)
           over  == {i \in 0 .. n - 1 : start[i] + len[i] <= from}
           ahead == {i \in 0 .. n - 1 : start[i] < to}
           first == LowerBound(0, n, over)
           last  == LowerBound(first, n, ahead)
<1>1. /\ start \in [0 .. n -> Nat]
      /\ \A i \in 0 .. n - 1 : start[i + 1] = start[i] + len[i] /\ i + 1 \in 0 .. n
      /\ \A i, j \in 0 .. n : i <= j => start[i] <= start[j]
  <2>1. \A i \in 0 .. n - 1 : len[i] \in Nat /\ i + 1 \in 0 .. n
    OBVIOUS
  <2> QED
    BY <2>1, StartFacts
<1>2. VisibleSlots(start, len, n, from, to) = first .. last - 1
  BY DEF VisibleSlots
<1> HIDE DEF start
<1>3. ASSUME NEW i \in 0 .. n, NEW k \in 0 .. n, i \in over, k <= i PROVE k \in over
  <2>1. i \in 0 .. n - 1 /\ k \in 0 .. n - 1 /\ start[i + 1] <= from
    BY <1>1, <1>3
  <2>2. start[k + 1] <= start[i + 1] /\ start[k + 1] \in Nat /\ start[i + 1] \in Nat
    BY <1>1, <1>3, <2>1
  <2>3. start[k] + len[k] <= from
    BY <1>1, <2>1, <2>2
  <2> QED
    BY <2>1, <2>3
<1>4. /\ first \in 0 .. n /\ (first = n \/ first \notin over)
      /\ \A k \in 0 .. first - 1 : k \in over
  <2> HIDE DEF over
  <2>1. first = First(0, n, over)
    BY <1>3, SearchFacts
  <2> HIDE DEF first
  <2> QED
    BY <2>1, FirstFacts
<1> HIDE DEF first
<1>5. ASSUME NEW i \in 0 .. n, NEW k \in 0 .. n, i \in ahead, k <= i PROVE k \in ahead
  <2>1. i \in 0 .. n - 1 /\ k \in 0 .. n - 1 /\ start[i] < to
    BY <1>5
  <2>2. start[k] <= start[i] /\ start[k] \in Nat /\ start[i] \in Nat
    BY <1>1, <1>5, <2>1
  <2> QED
    BY <2>1, <2>2
<1>6. /\ last \in first .. n /\ (last = n \/ last \notin ahead)
      /\ \A k \in first .. last - 1 : k \in ahead
  <2> HIDE DEF ahead
  <2>1. first \in Int /\ n \in Int /\ first <= n
    BY <1>4
  <2>2. \A i \in first .. n, k \in first .. n : i \in ahead /\ k <= i => k \in ahead
    BY <1>4, <1>5
  <2>3. last = First(first, n, ahead)
    BY <2>1, <2>2, SearchFacts
  <2> HIDE DEF last
  <2> QED
    BY <2>1, <2>3, FirstFacts
<1> HIDE DEF last
<1>7. ASSUME NEW i \in first .. last - 1
      PROVE  i \in 0 .. n - 1 /\ start[i] < to /\ start[i] + len[i] > from
  <2>1. i \in 0 .. n - 1 /\ i \in 0 .. n /\ i \in ahead /\ first \in 0 .. n - 1
    BY <1>4, <1>6
  <2>2. i \notin over
    <3>1. first \notin over
      BY <1>4, <2>1
    <3> HIDE DEF over
    <3> QED
      BY <1>3, <1>4, <2>1, <3>1
  <2>3. start[i] \in Nat /\ len[i] \in Nat
    BY <1>1, <2>1
  <2> QED
    BY <2>1, <2>2, <2>3
<1>8. ASSUME NEW i \in 0 .. n - 1, start[i] < to, start[i] + len[i] > from
      PROVE  i \in first .. last - 1
  <2>1. i \in ahead /\ i \notin over /\ i \in 0 .. n
    <3>1. start[i] \in Nat /\ len[i] \in Nat
      BY <1>1
    <3> QED
      BY <1>8, <3>1
  <2> HIDE DEF ahead, over
  <2>2. i >= first
    BY <1>4, <2>1
  <2>3. i < last
    <3>1. ASSUME i >= last PROVE FALSE
      <4>1. last \in 0 .. n /\ last # n
        BY <1>4, <1>6, <3>1
      <4>2. last \in ahead
        BY <1>5, <2>1, <3>1, <4>1
      <4> QED
        BY <1>6, <4>1, <4>2
    <3> QED
      BY <1>4, <1>6, <3>1
  <2> QED
    BY <1>4, <1>6, <2>2, <2>3
<1>9. first .. last - 1 = {i \in 0 .. n - 1 : start[i] < to /\ start[i] + len[i] > from}
  BY <1>7, <1>8
<1> QED
  BY <1>2, <1>9 DEF start

\* What is left of the time after the chunks that are over.
LEMMA ProgressFacts ==
  ASSUME NEW n \in Nat, NEW len \in [0 .. n - 1 -> Nat], NEW s \in Int
  PROVE  LET start == RunningStart(len, n)
             over(t) == {k \in 0 .. n - 1 : start[k + 1] <= t}
             at == Greater(0, s)
             p == ActiveChunkProgress(len, n, s)
         IN  /\ p.active = First(0, n, over(at))
             /\ p.fill = at - start[First(0, n, over(at))]
<1> DEFINE start == RunningStart(len, n)
           over(t) == {k \in 0 .. n - 1 : start[k + 1] <= t}
           top == Greater(0, s)
           D == (0 .. n) \X (0 .. top)
           Body(f, p) == IF p[1] = n \/ p[2] < len[p[1]] THEN [active |-> p[1], fill |-> p[2]]
                         ELSE f[<<p[1] + 1, p[2] - len[p[1]]>>]
           at == CHOOSE f : f = [p \in D |-> Body(f, p)]
           Sol(i, t) == [active |-> First(i, n, over(t)), fill |-> t - start[First(i, n, over(t))]]
           V(i, left) == Sol(i, start[i] + left)
           g == [p \in D |-> V(p[1], p[2])]
<1>1. /\ start \in [0 .. n -> Nat] /\ start[0] = 0
      /\ \A i \in 0 .. n - 1 : start[i + 1] = start[i] + len[i]
  BY StartFacts
<1>2. ActiveChunkProgress(len, n, s) = at[<<0, top>>]
  BY DEF ActiveChunkProgress
<1>3. top \in Nat
  BY DEF Greater
<1> HIDE DEF start, top
<1>4. ASSUME NEW i \in 0 .. n, NEW left \in 0 .. top, i = n \/ left < len[i]
      PROVE  V(i, left) = [active |-> i, fill |-> left]
  <2> DEFINE T == over(start[i] + left)
  <2>1. start[i] \in Nat /\ left \in Nat
    BY <1>1, <1>3
  <2>2. i = n \/ i \notin T
    <3>1. i # n => i \in 0 .. n - 1
      OBVIOUS
    <3> QED
      BY <1>1, <1>4, <2>1, <3>1
  <2> HIDE DEF T
  <2>3. First(i, n, T) = i
    <3>1. i \in i .. n /\ i \in Int /\ n \in Int /\ i <= n /\ \A k \in i .. i - 1 : k \in T
      OBVIOUS
    <3> QED
      BY <2>2, <3>1, FirstIs
  <2>4. V(i, left) = [active |-> First(i, n, T), fill |-> (start[i] + left) - start[First(i, n, T)]]
    BY DEF T
  <2> HIDE DEF V
  <2> QED
    BY <2>1, <2>3, <2>4
<1>5. ASSUME NEW i \in 0 .. n, NEW left \in 0 .. top, ~(i = n \/ left < len[i])
      PROVE  /\ i + 1 \in 0 .. n /\ left - len[i] \in 0 .. top /\ i # n
             /\ V(i, left) = V(i + 1, left - len[i])
  <2> DEFINE t == start[i] + left
             T == over(t)
             j == First(i + 1, n, T)
  <2>1. /\ i \in 0 .. n - 1 /\ i + 1 \in 0 .. n /\ i # n /\ len[i] \in Nat /\ left \in Nat
        /\ start[i] \in Nat /\ left >= len[i] /\ start[i + 1] = start[i] + len[i]
        /\ i <= n /\ i + 1 <= n /\ i \in Int /\ i + 1 \in Int /\ n \in Int
    BY <1>1, <1>3, <1>5
  <2>2. left - len[i] \in 0 .. top
    BY <1>3, <2>1
  <2>3. start[i + 1] + (left - len[i]) = t /\ i \in T
    BY <2>1
  <2> HIDE DEF T
  <2>4. j \in i + 1 .. n /\ (j = n \/ j \notin T) /\ \A k \in i + 1 .. j - 1 : k \in T
    BY <2>1, FirstFacts
  <2> HIDE DEF j
  <2>5. j \in i .. n /\ \A k \in i .. j - 1 : k \in T
    BY <2>1, <2>3, <2>4
  <2>6. First(i, n, T) = j
    BY <2>1, <2>4, <2>5, FirstIs
  <2>7. V(i, left) = [active |-> First(i, n, T), fill |-> t - start[First(i, n, T)]]
    BY DEF T
  <2>8. V(i + 1, left - len[i])
          = [active |-> First(i + 1, n, T), fill |-> t - start[First(i + 1, n, T)]]
    BY <2>3 DEF T
  <2>9. V(i, left) = V(i + 1, left - len[i])
    <3> HIDE DEF V, t
    <3> QED
      BY <2>6, <2>7, <2>8 DEF j
  <2> HIDE DEF V
  <2> QED
    BY <2>1, <2>2, <2>9
<1> HIDE DEF V
<1>6. ASSUME NEW p \in D PROVE g[p] = Body(g, p)
  <2>1. PICK i \in 0 .. n, left \in 0 .. top : p = <<i, left>>
    OBVIOUS
  <2>2. g[p] = V(i, left)
    BY <2>1
  <2>3. CASE i = n \/ left < len[i]
    <3>1. Body(g, p) = [active |-> i, fill |-> left]
      BY <2>1, <2>3
    <3> HIDE DEF g, Body
    <3> QED
      BY <1>4, <2>2, <2>3, <3>1
  <2>4. CASE ~(i = n \/ left < len[i])
    <3>1. i + 1 \in 0 .. n /\ left - len[i] \in 0 .. top /\ V(i, left) = V(i + 1, left - len[i])
      BY <1>5, <2>4
    <3>2. g[<<i + 1, left - len[i]>>] = V(i + 1, left - len[i])
      BY <3>1
    <3>3. Body(g, p) = g[<<i + 1, left - len[i]>>]
      BY <2>1, <2>4
    <3> HIDE DEF g, Body
    <3> QED
      BY <2>2, <3>1, <3>2, <3>3
  <2> QED
    BY <2>3, <2>4
<1>7. g = [p \in D |-> Body(g, p)]
  <2> HIDE DEF Body
  <2> QED
    BY <1>6
<1>8. at = [p \in D |-> Body(at, p)]
  <2> HIDE DEF Body, g
  <2> QED
    BY <1>7
<1>9. ASSUME NEW p \in D PROVE at[p] = Body(at, p)
  <2> HIDE DEF Body, at
  <2> QED
    BY <1>8
<1> HIDE DEF at, g
<1> DEFINE Bad == {k \in Nat : k <= n /\ \E left \in 0 .. top : at[<<n - k, left>>] # V(n - k, left)}
<1>10. ASSUME Bad # {} PROVE FALSE
  <2>1. PICK k \in Bad : \A m \in Bad : k <= m
    BY <1>10, LeastNatural
  <2> DEFINE i == n - k
  <2>2. k \in Nat /\ k <= n /\ i \in 0 .. n
    BY <2>1
  <2>3. PICK left \in 0 .. top : at[<<i, left>>] # V(i, left)
    BY <2>1
  <2>4. at[<<i, left>>] = IF i = n \/ left < len[i] THEN [active |-> i, fill |-> left]
                          ELSE at[<<i + 1, left - len[i]>>]
    <3> HIDE DEF i
    <3>1. <<i, left>> \in D
      BY <2>2
    <3> QED
      BY <1>9, <3>1
  <2> HIDE DEF i
  <2>5. ~(i = n \/ left < len[i])
    BY <1>4, <2>2, <2>3, <2>4
  <2>6. i + 1 \in 0 .. n /\ left - len[i] \in 0 .. top /\ V(i, left) = V(i + 1, left - len[i]) /\ i # n
    BY <1>5, <2>2, <2>5
  <2>7. k - 1 \in Nat /\ k - 1 <= n /\ n - (k - 1) = i + 1
    BY <2>2, <2>6 DEF i
  <2>8. k - 1 \notin Bad
    <3> HIDE DEF Bad
    <3> QED
      BY <2>1, <2>2, <2>7
  <2>9. at[<<i + 1, left - len[i]>>] = V(i + 1, left - len[i])
    BY <2>6, <2>7, <2>8
  <2> QED
    BY <2>3, <2>4, <2>5, <2>6, <2>9
<1>11. at[<<0, top>>] = V(0, top)
  <2>1. n \notin Bad
    <3> HIDE DEF Bad
    <3> QED
      BY <1>10
  <2>2. n - n = 0 /\ top \in 0 .. top
    BY <1>3
  <2> QED
    BY <2>1, <2>2, SMTT(60)
<1>12. V(0, top) = Sol(0, top)
  <2>1. start[0] + top = top
    BY <1>1, <1>3
  <2> HIDE DEF Sol
  <2> QED
    BY <2>1 DEF V
<1>13. ActiveChunkProgress(len, n, s) = Sol(0, top)
  BY <1>2, <1>11, <1>12
<1> QED
  BY <1>13 DEF start, top

\* deriveActiveChunkProgress, which subtracts the durations one by one, highlights in
\* the text the chunk whose slot the bars show the playhead in, filled to the same
\* point, and every chunk once the playhead has passed the last one.
THEOREM HighlightIsAtPlayhead ==
  ASSUME NEW n \in Nat, NEW len \in [0 .. n - 1 -> Nat], NEW s \in Nat
  PROVE  LET start == RunningStart(len, n)
             p == ActiveChunkProgress(len, n, s)
         IN  /\ s < start[n] => /\ p.active = SearchIndex(start, n, s)
                                /\ start[p.active] + p.fill = s /\ p.fill \in 0 .. len[p.active]
             /\ s >= start[n] => p.active = n
<1> DEFINE start == RunningStart(len, n)
           over  == {k \in 0 .. n - 1 : start[k + 1] <= s}
           begun == {k \in 0 .. n - 1 : start[k] <= s}
           p == ActiveChunkProgress(len, n, s)
           j == First(0, n, over)
           f == First(0, n, begun)
<1>0. s \in Int
  OBVIOUS
<1>1. /\ start \in [0 .. n -> Nat] /\ start[0] = 0
      /\ \A i \in 0 .. n - 1 : start[i + 1] = start[i] + len[i]
      /\ \A i, k \in 0 .. n : i <= k => start[i] <= start[k]
  BY StartFacts
<1>2. p.active = j /\ p.fill = s - start[j]
  <2>1. Greater(0, s) = s
    BY DEF Greater
  <2>3. LET strt == RunningStart(len, n)
            ovr(t) == {k \in 0 .. n - 1 : strt[k + 1] <= t}
            at == Greater(0, s)
            q == ActiveChunkProgress(len, n, s)
        IN  /\ q.active = First(0, n, ovr(at))
            /\ q.fill = at - strt[First(0, n, ovr(at))]
    BY <1>0, ProgressFacts
  <2> QED
    BY <2>1, <2>3
<1>3. SearchIndex(start, n, s) = Greater(0, f - 1)
  BY <1>0, SearchLast
<1>4. begun = 0 .. f - 1 /\ f \in 0 .. n
  BY <1>0, BegunSlots
<1> HIDE DEF start, p
<1>5. j \in 0 .. n /\ (j = n \/ j \notin over) /\ \A k \in 0 .. j - 1 : k \in over
  <2> HIDE DEF over
  <2> QED
    BY FirstFacts
<1> HIDE DEF j, f
<1>6. CASE s < start[n]
  <2>1. j < n
    <3>1. ASSUME j = n PROVE FALSE
      <4>1. n # 0
        BY <1>1, <1>6
      <4>2. n - 1 \in 0 .. j - 1 /\ (n - 1) + 1 = n
        BY <3>1, <4>1
      <4>3. start[n] <= s
        BY <1>5, <4>2
      <4> QED
        BY <1>1, <1>6, <4>3
    <3> QED
      BY <1>5, <3>1
  <2>2. start[j + 1] > s /\ start[j] \in Nat /\ start[j + 1] = start[j] + len[j] /\ len[j] \in Nat
    <3>1. j \in 0 .. n - 1 /\ j + 1 \in 0 .. n
      BY <1>5, <2>1
    <3> QED
      BY <1>1, <1>5, <2>1, <3>1
  <2>3. start[j] <= s
    <3>1. CASE j = 0
      BY <1>1, <3>1
    <3>2. CASE j # 0
      <4>1. j - 1 \in 0 .. j - 1 /\ (j - 1) + 1 = j
        BY <1>5, <3>2
      <4> QED
        BY <1>5, <4>1
    <3> QED
      BY <3>1, <3>2
  <2>4. j \in begun
    BY <1>5, <2>1, <2>3
  <2>5. j + 1 \notin begun
    <3>1. j + 1 \in 0 .. n - 1 => start[j + 1] \in Nat
      BY <1>1
    <3> QED
      BY <2>2, <3>1
  <2> HIDE DEF begun
  <2>6. f = j + 1
    BY <1>4, <1>5, <2>4, <2>5
  <2>7. Greater(0, f - 1) = j
    BY <1>5, <2>6 DEF Greater
  <2>8. p.fill \in 0 .. len[p.active] /\ start[p.active] + p.fill = s
    BY <1>2, <2>2, <2>3
  <2> QED
    BY <1>1, <1>2, <1>3, <1>6, <2>7, <2>8 DEF start, p
<1>7. CASE s >= start[n]
  <2>1. j = n
    <3>1. ASSUME j # n PROVE FALSE
      <4>1. j \in 0 .. n - 1 /\ j + 1 \in 0 .. n /\ n \in 0 .. n /\ j + 1 <= n
        BY <1>5, <3>1
      <4>2. start[j + 1] <= start[n] /\ start[j + 1] \in Nat /\ start[n] \in Nat
        BY <1>1, <4>1
      <4>3. j \in over
        BY <1>7, <4>1, <4>2
      <4> HIDE DEF over
      <4> QED
        BY <1>5, <3>1, <4>3
    <3> QED
      BY <3>1
  <2>2. start[n] \in Nat
    BY <1>1
  <2> QED
    BY <1>2, <1>7, <2>1, <2>2 DEF start, p
<1> QED
  <2>1. start[n] \in Nat
    BY <1>1
  <2> QED
    BY <1>6, <1>7, <2>1 DEF start

-----------------------------------------------------------------------------
(* Peaks *)

\* The bars share out the peaks: none is left over, and each bar has one at least.
LEMMA Division ==
  ASSUME NEW size \in Nat, size > 0, NEW target \in Nat, target > 0, NEW bar \in 1 .. target
  PROVE  LET from == ((bar - 1) * size) \div target
             next == (bar * size) \div target
             to   == Greater(from + 1, next)
         IN  /\ from \in 0 .. size - 1 /\ to \in from + 1 .. size
             /\ next \in Nat /\ next <= to
             /\ bar = 1 => from = 0
             /\ bar = target => next = size
<1>1. ASSUME NEW a \in Nat, NEW b \in Nat, a <= b PROVE a * size <= b * size
  BY <1>1
<1>2. ASSUME NEW a \in Nat PROVE a * size \in Nat
  OBVIOUS
<1>3. ASSUME NEW x \in Nat
      PROVE  /\ x \div target \in Nat
             /\ (x \div target) * target <= x /\ x < (x \div target) * target + target
  OBVIOUS
<1>4. ASSUME NEW x \in Nat, x <= (target - 1) * size PROVE x \div target \in 0 .. size - 1
  <2> DEFINE q == x \div target
  <2>1. q \in Nat /\ q * target <= x
    BY <1>3
  <2> HIDE DEF q
  <2>2. ASSUME q >= size PROVE FALSE
    <3>1. size * target <= q * target
      BY <2>1, <2>2
    <3>2. (target - 1) * size = size * target - size
      OBVIOUS
    <3> QED
      BY <1>4, <2>1, <3>1, <3>2
  <2> QED
    BY <2>1, <2>2 DEF q
<1>5. ASSUME NEW x \in Nat, x <= target * size PROVE x \div target \in 0 .. size
  <2> DEFINE q == x \div target
  <2>1. q \in Nat /\ q * target <= x
    BY <1>3
  <2> HIDE DEF q
  <2>2. ASSUME q >= size + 1 PROVE FALSE
    <3>1. (size + 1) * target <= q * target
      BY <2>1, <2>2
    <3>2. (size + 1) * target = target * size + target
      OBVIOUS
    <3> QED
      BY <1>5, <2>1, <3>1, <3>2
  <2> QED
    BY <2>1, <2>2 DEF q
<1>6. (target * size) \div target = size
  <2> DEFINE x == target * size
             q == x \div target
  <2>1. x \in Nat
    BY <1>2
  <2>2. q \in 0 .. size
    BY <1>5, <2>1
  <2>3. x < q * target + target /\ q \in Nat
    BY <1>3, <2>1
  <2> HIDE DEF q
  <2>4. ASSUME q <= size - 1 PROVE FALSE
    <3>1. (q + 1) * target <= size * target
      BY <2>3, <2>4
    <3>2. (q + 1) * target = q * target + target
      BY <2>3
    <3> QED
      BY <2>3, <3>1, <3>2
  <2> QED
    BY <2>2, <2>4 DEF q
<1>7. 0 \div target = 0
  OBVIOUS
<1> DEFINE from == ((bar - 1) * size) \div target
           next == (bar * size) \div target
<1>8. from \in 0 .. size - 1
  <2>1. bar - 1 \in Nat /\ bar - 1 <= target - 1 /\ target - 1 \in Nat
    OBVIOUS
  <2>2. (bar - 1) * size \in Nat /\ (bar - 1) * size <= (target - 1) * size
    BY <1>1, <1>2, <2>1
  <2> QED
    BY <1>4, <2>2
<1>9. next \in 0 .. size
  <2>1. bar \in Nat /\ bar <= target
    OBVIOUS
  <2>2. bar * size \in Nat /\ bar * size <= target * size
    BY <1>1, <1>2, <2>1
  <2> QED
    BY <1>5, <2>2
<1>10. bar = 1 => from = 0
  <2>1. bar = 1 => (bar - 1) * size = 0
    OBVIOUS
  <2> QED
    BY <1>7, <2>1
<1>11. bar = target => next = size
  BY <1>6
<1> HIDE DEF from, next
<1>12. Greater(from + 1, next) \in from + 1 .. size /\ next <= Greater(from + 1, next) /\ next \in Nat
  BY <1>8, <1>9 DEF Greater
<1> QED
  BY <1>8, <1>10, <1>11, <1>12 DEF from, next

\* What the loop of maxPool has found so far: nothing below its last index is higher.
IsPeak(data, i, to, v) ==
  /\ v \in Nat /\ \A k \in i .. to - 1 : data[k + 1] <= v
  /\ v = 0 \/ \E k \in i .. to - 1 : v = data[k + 1]

\* The loop finds the peak: by induction on how far it is from its end.
LEMMA PeakFacts ==
  ASSUME NEW from \in Nat, NEW to \in Nat, from < to, NEW data,
         \A k \in from .. to - 1 : data[k + 1] \in Nat
  PROVE  LET at[i \in from .. to] == IF i = to THEN 0 ELSE Greater(data[i + 1], at[i + 1])
         IN  IsPeak(data, from, to, at[from])
<1> DEFINE Body(f, i) == IF i = to THEN 0 ELSE Greater(data[i + 1], f[i + 1])
           at == CHOOSE f : f = [i \in from .. to |-> Body(f, i)]
           Top(i) == CHOOSE v : IsPeak(data, i, to, v)
           g == [i \in from .. to |-> Top(i)]
<1>1. ASSUME NEW i \in from .. to, NEW v, NEW w, IsPeak(data, i, to, v), IsPeak(data, i, to, w)
      PROVE  v = w
  <2>1. v \in Nat /\ w \in Nat
    BY <1>1 DEF IsPeak
  <2>2. v <= w
    <3>1. CASE v = 0
      BY <2>1, <3>1
    <3>2. CASE v # 0
      BY <1>1, <3>2 DEF IsPeak
    <3> QED
      BY <3>1, <3>2
  <2>3. w <= v
    <3>1. CASE w = 0
      BY <2>1, <3>1
    <3>2. CASE w # 0
      BY <1>1, <3>2 DEF IsPeak
    <3> QED
      BY <3>1, <3>2
  <2> QED
    BY <2>1, <2>2, <2>3
<1>2. IsPeak(data, to, to, 0)
  BY DEF IsPeak
<1>3. ASSUME NEW i \in from .. to - 1, NEW v, IsPeak(data, i + 1, to, v)
      PROVE  IsPeak(data, i, to, Greater(data[i + 1], v))
  <2> DEFINE d == data[i + 1]
  <2>1. d \in Nat /\ v \in Nat
    BY <1>3 DEF IsPeak
  <2>2. Greater(d, v) \in Nat /\ Greater(d, v) >= d /\ Greater(d, v) >= v
    BY <2>1 DEF Greater
  <2>3. ASSUME NEW k \in i .. to - 1 PROVE data[k + 1] <= Greater(d, v)
    <3>1. CASE k = i
      BY <2>2, <3>1
    <3>2. CASE k # i
      <4>1. k \in i + 1 .. to - 1 /\ k \in from .. to - 1
        BY <3>2
      <4>2. data[k + 1] <= v /\ data[k + 1] \in Nat
        BY <1>3, <4>1 DEF IsPeak
      <4> HIDE DEF d
      <4> QED
        BY <2>1, <2>2, <4>2
    <3> QED
      BY <3>1, <3>2
  <2>4. Greater(d, v) = 0 \/ \E k \in i .. to - 1 : Greater(d, v) = data[k + 1]
    <3>1. CASE Greater(d, v) = d
      <4>1. i \in i .. to - 1
        OBVIOUS
      <4> QED
        BY <3>1, <4>1
    <3>2. CASE Greater(d, v) = v
      <4>1. \A k \in i + 1 .. to - 1 : k \in i .. to - 1
        OBVIOUS
      <4>2. v = 0 \/ \E k \in i + 1 .. to - 1 : v = data[k + 1]
        BY <1>3 DEF IsPeak
      <4> QED
        BY <3>2, <4>1, <4>2
    <3> QED
      BY <2>1, <3>1, <3>2 DEF Greater
  <2> QED
    BY <2>2, <2>3, <2>4 DEF IsPeak
<1> DEFINE Bad == {k \in Nat : k <= to - from /\ ~\E v : IsPeak(data, to - k, to, v)}
<1>4. ASSUME Bad # {} PROVE FALSE
  <2>1. PICK k \in Bad : \A m \in Bad : k <= m
    BY <1>4, LeastNatural
  <2>2. k \in Nat /\ k <= to - from /\ ~\E v : IsPeak(data, to - k, to, v)
    BY <2>1
  <2>3. k # 0
    <3>1. to - 0 = to
      OBVIOUS
    <3> QED
      BY <1>2, <2>2, <3>1
  <2>4. k - 1 \in Nat /\ k - 1 <= to - from /\ to - (k - 1) = (to - k) + 1 /\ to - k \in from .. to - 1
    BY <2>2, <2>3
  <2>5. k - 1 \notin Bad
    <3> HIDE DEF Bad
    <3> QED
      BY <2>1, <2>2, <2>4
  <2>6. PICK v : IsPeak(data, (to - k) + 1, to, v)
    BY <2>4, <2>5
  <2> QED
    BY <1>3, <2>2, <2>4, <2>6
<1>5. ASSUME NEW i \in from .. to PROVE IsPeak(data, i, to, Top(i))
  <2>1. to - i \in Nat /\ to - i <= to - from /\ to - (to - i) = i
    OBVIOUS
  <2>2. to - i \notin Bad
    <3> HIDE DEF Bad
    <3> QED
      BY <1>4
  <2>3. \E v : IsPeak(data, i, to, v)
    BY <2>1, <2>2
  <2> QED
    BY <2>3
<1> HIDE DEF Top
<1>6. ASSUME NEW i \in from .. to PROVE g[i] = Body(g, i)
  <2>1. CASE i = to
    BY <1>1, <1>2, <1>5, <2>1
  <2>2. CASE i # to
    <3>1. i \in from .. to - 1 /\ i + 1 \in from .. to
      BY <2>2
    <3>2. IsPeak(data, i, to, Greater(data[i + 1], Top(i + 1)))
      BY <1>3, <1>5, <3>1
    <3>3. Top(i) = Greater(data[i + 1], Top(i + 1))
      BY <1>1, <1>5, <3>2
    <3> QED
      BY <2>2, <3>1, <3>3
  <2> QED
    BY <2>1, <2>2
<1>7. g = [i \in from .. to |-> Body(g, i)]
  <2> HIDE DEF Body
  <2> QED
    BY <1>6
<1>8. at = [i \in from .. to |-> Body(at, i)]
  <2> HIDE DEF Body, g
  <2> QED
    BY <1>7
<1>9. ASSUME NEW i \in from .. to PROVE at[i] = Body(at, i)
  <2> HIDE DEF Body, at
  <2> QED
    BY <1>8
<1> HIDE DEF at, g
<1> DEFINE Worse == {k \in Nat : k <= to - from /\ ~IsPeak(data, to - k, to, at[to - k])}
<1>10. ASSUME Worse # {} PROVE FALSE
  <2>1. PICK k \in Worse : \A m \in Worse : k <= m
    BY <1>10, LeastNatural
  <2> DEFINE i == to - k
  <2>2. k \in Nat /\ k <= to - from /\ ~IsPeak(data, i, to, at[i]) /\ i \in from .. to
    BY <2>1
  <2>3. at[i] = Body(at, i)
    BY <1>9, <2>2
  <2> HIDE DEF i
  <2>4. i # to
    BY <1>2, <2>2, <2>3
  <2>5. k - 1 \in Nat /\ k - 1 <= to - from /\ to - (k - 1) = i + 1 /\ i \in from .. to - 1
    BY <2>2, <2>4 DEF i
  <2>6. k - 1 \notin Worse
    <3> HIDE DEF Worse
    <3> QED
      BY <2>1, <2>2, <2>5
  <2>7. IsPeak(data, i + 1, to, at[i + 1])
    BY <2>5, <2>6
  <2> QED
    BY <1>3, <2>2, <2>3, <2>4, <2>5, <2>7
<1>11. IsPeak(data, from, to, at[from])
  <2>1. to - from \notin Worse
    <3> HIDE DEF Worse
    <3> QED
      BY <1>10
  <2>2. to - from \in Nat /\ to - (to - from) = from
    OBVIOUS
  <2> QED
    BY <2>1, <2>2
<1> QED
  BY <1>11 DEF at

\* maxPool: however few bars there are room for, every bar shows a peak of the
\* audio, and no peak is lost: some bar is as high.
THEOREM PeaksSurvivePooling ==
  ASSUME NEW data \in Seq(Nat), data # <<>>, NEW target \in Nat, target > 0
  PROVE  LET bars == MaxPool(data, target)
         IN  /\ \A bar \in 1 .. target : \E i \in DOMAIN data : bars[bar] = data[i]
             /\ \A i \in DOMAIN data : \E bar \in 1 .. target : bars[bar] >= data[i]
<1> DEFINE size == Len(data)
           from(bar) == ((bar - 1) * size) \div target
           next(bar) == (bar * size) \div target
           to(bar) == Greater(from(bar) + 1, next(bar))
           bars == MaxPool(data, target)
<1>1. size \in Nat /\ size > 0 /\ DOMAIN data = 1 .. size
  OBVIOUS
<1>2. \A i \in 1 .. size : data[i] \in Nat
  OBVIOUS
<1> HIDE DEF size
<1>3. ASSUME NEW bar \in 1 .. target
      PROVE  /\ from(bar) \in 0 .. size - 1 /\ to(bar) \in from(bar) + 1 .. size
             /\ next(bar) \in Nat /\ next(bar) <= to(bar)
             /\ bar = 1 => from(bar) = 0
             /\ bar = target => next(bar) = size
  BY <1>1, Division
<1>4. ASSUME NEW bar \in 1 .. target
      PROVE  IsPeak(data, from(bar), to(bar), bars[bar])
  <2> DEFINE f == from(bar)
             t == to(bar)
             at == CHOOSE h : h = [i \in f .. t |-> IF i = t THEN 0 ELSE Greater(data[i + 1], h[i + 1])]
  <2>1. bars[bar] = at[f]
    BY <1>1 DEF MaxPool, size
  <2>2. f \in Nat /\ t \in Nat /\ f < t /\ f \in 0 .. size - 1 /\ t \in f + 1 .. size
    BY <1>1, <1>3
  <2> HIDE DEF f, t
  <2>3. \A k \in f .. t - 1 : data[k + 1] \in Nat
    BY <1>1, <1>2, <2>2
  <2>4. IsPeak(data, f, t, at[f])
    BY <2>2, <2>3, PeakFacts
  <2> QED
    BY <2>1, <2>4 DEF f, t
<1>7. \A bar \in 1 .. target : bar # 1 => from(bar) = next(bar - 1) /\ bar - 1 \in 1 .. target
  OBVIOUS
<1> HIDE DEF from, to, next
<1>5. ASSUME NEW bar \in 1 .. target PROVE \E i \in DOMAIN data : bars[bar] = data[i]
  <2> DEFINE f == from(bar)
             t == to(bar)
             v == bars[bar]
  <2>1. f \in 0 .. size - 1 /\ t \in f + 1 .. size /\ IsPeak(data, f, t, v)
    BY <1>3, <1>4
  <2> HIDE DEF f, t, v
  <2>2. CASE \E k \in f .. t - 1 : v = data[k + 1]
    <3>1. PICK k \in f .. t - 1 : v = data[k + 1]
      BY <2>2
    <3>2. k + 1 \in 1 .. size
      BY <1>1, <2>1
    <3> QED
      BY <1>1, <3>1, <3>2 DEF v
  <2>3. CASE v = 0
    <3>1. f \in f .. t - 1 /\ f + 1 \in 1 .. size
      BY <1>1, <2>1
    <3>2. data[f + 1] <= 0 /\ data[f + 1] \in Nat
      BY <1>2, <2>1, <2>3, <3>1 DEF IsPeak
    <3>3. data[f + 1] = v
      BY <2>3, <3>2
    <3> QED
      BY <1>1, <3>1, <3>3 DEF v
  <2> QED
    BY <2>1, <2>2, <2>3 DEF IsPeak
<1>6. ASSUME NEW i \in DOMAIN data PROVE \E bar \in 1 .. target : bars[bar] >= data[i]
  <2> DEFINE T == {bar \in 1 .. target : i - 1 < next(bar)}
  <2>1. i \in 1 .. size
    BY <1>1
  <2>2. target \in T
    <3>1. target \in 1 .. target
      OBVIOUS
    <3> QED
      BY <1>1, <1>3, <2>1, <3>1
  <2>3. PICK bar \in T : \A b \in T : bar <= b
    <3>1. T \subseteq Nat /\ T # {}
      BY <2>2
    <3> HIDE DEF T
    <3> QED
      BY <3>1, LeastNatural
  <2>4. bar \in 1 .. target /\ i - 1 < next(bar)
    BY <2>3
  <2>5. from(bar) <= i - 1
    <3>1. CASE bar = 1
      BY <1>3, <2>1, <2>4, <3>1
    <3>2. CASE bar # 1
      <4>1. from(bar) = next(bar - 1) /\ bar - 1 \in 1 .. target /\ bar - 1 < bar
        BY <1>7, <2>4, <3>2
      <4>2. bar - 1 \notin T
        <5> HIDE DEF T
        <5> QED
          BY <2>3, <2>4, <4>1
      <4>3. ~(i - 1 < next(bar - 1)) /\ next(bar - 1) \in Nat
        BY <1>3, <4>1, <4>2
      <4> QED
        BY <2>1, <4>1, <4>3
    <3> QED
      BY <3>1, <3>2
  <2>6. i - 1 \in from(bar) .. to(bar) - 1
    <3>1. from(bar) \in Nat /\ to(bar) \in Nat /\ next(bar) \in Nat /\ next(bar) <= to(bar)
      BY <1>1, <1>3, <2>4
    <3> QED
      BY <2>1, <2>4, <2>5, <3>1
  <2>7. IsPeak(data, from(bar), to(bar), bars[bar])
    BY <1>4, <2>4
  <2>8. data[(i - 1) + 1] <= bars[bar] /\ (i - 1) + 1 = i
    BY <2>1, <2>6, <2>7 DEF IsPeak
  <2>9. bars[bar] >= data[i]
    <3> HIDE DEF bars
    <3> QED
      BY <2>8
  <2> QED
    BY <2>4, <2>9
<1> QED
  BY <1>5, <1>6

-----------------------------------------------------------------------------
(* Text *)

\* The blocks of a text; a block ends after what it hides.
Blocks == [kind : {"chunk", "upcoming"}, from : Nat, to : Nat, hidden : Nat]

EndOf(blocks, i) == IF i = 0 THEN 0 ELSE blocks[i].to + blocks[i].hidden

\* Blocks without a gap between them, the last of which ends at the cursor.
Contiguous(blocks, cursor) ==
  /\ blocks \in Seq(Blocks) /\ cursor \in Nat
  /\ \A i \in 1 .. Len(blocks) : blocks[i].from = EndOf(blocks, i - 1)
  /\ EndOf(blocks, Len(blocks)) = cursor

\* A block from the cursor on leaves no gap.
LEMMA OneMore ==
  ASSUME NEW blocks, NEW cursor, Contiguous(blocks, cursor),
         NEW kind \in {"chunk", "upcoming"}, NEW to \in Nat, NEW hidden \in Nat
  PROVE  Contiguous(Append(blocks, Block(kind, cursor, to, hidden)), to + hidden)
<1> DEFINE b == Block(kind, cursor, to, hidden)
           n == Len(blocks)
           s == Append(blocks, b)
<1>1. blocks \in Seq(Blocks) /\ cursor \in Nat /\ n \in Nat
  BY DEF Contiguous
<1>2. b \in Blocks /\ b.from = cursor /\ b.to = to /\ b.hidden = hidden
  BY <1>1 DEF Block, Blocks
<1> HIDE DEF b
<1>3. /\ s \in Seq(Blocks) /\ Len(s) = n + 1 /\ s[n + 1] = b
      /\ \A i \in 1 .. n : s[i] = blocks[i]
  BY <1>1, <1>2
<1> HIDE DEF s
<1>4. \A i \in 0 .. n : EndOf(s, i) = EndOf(blocks, i)
  BY <1>3 DEF EndOf
<1>5. EndOf(s, n + 1) = to + hidden
  <2>1. n + 1 # 0
    BY <1>1
  <2> QED
    BY <1>2, <1>3, <2>1 DEF EndOf
<1>6. ASSUME NEW i \in 1 .. Len(s) PROVE s[i].from = EndOf(s, i - 1)
  <2>1. i - 1 \in 0 .. n
    BY <1>1, <1>3
  <2>2. CASE i = n + 1
    <3>1. EndOf(s, n) = cursor /\ (n + 1) - 1 = n
      BY <1>1, <1>4 DEF Contiguous
    <3> QED
      BY <1>2, <1>3, <2>2, <3>1
  <2>3. CASE i # n + 1
    <3>1. i \in 1 .. n
      BY <1>1, <1>3, <2>3
    <3>2. s[i].from = EndOf(blocks, i - 1)
      BY <1>3, <3>1 DEF Contiguous
    <3> QED
      BY <1>4, <2>1, <3>2
  <2> QED
    BY <2>2, <2>3
<1> QED
  BY <1>3, <1>5, <1>6 DEF Contiguous, s, b

\* The blocks of the planned chunks are contiguous: by induction on the chunks.
LEMMA PlannedFacts ==
  ASSUME NEW length \in Nat, NEW planned \in Seq([from : 0 .. length, to : 0 .. length])
  PROVE  LET p == PlannedBlocks(planned)
         IN  Contiguous(p.blocks, p.cursor) /\ p.cursor \in 0 .. length
<1> DEFINE n == Len(planned)
           Step(prev, c) ==
             LET cursor == prev.cursor
                 start  == Greater(cursor, c.from)
                 end    == Greater(start, c.to)
                 gap    == IF start > cursor THEN <<Block("upcoming", cursor, start, 0)>> ELSE <<>>
             IN  [blocks |-> prev.blocks \o gap \o <<Block("chunk", start, end, 0)>>,
                  cursor |-> end]
           None == [blocks |-> <<>>, cursor |-> 0]
           Body(f, i) == IF i = 0 THEN None ELSE Step(f[i - 1], planned[i])
           at == CHOOSE f : f = [i \in 0 .. n |-> Body(f, i)]
           Fine(p) == Contiguous(p.blocks, p.cursor) /\ p.cursor \in 0 .. length
           Runs(f, k) == f = [i \in 0 .. k |-> Body(f, i)]
<1>0. n \in Nat /\ \A i \in 1 .. n : planned[i].from \in 0 .. length /\ planned[i].to \in 0 .. length
  <2>1. n \in Nat
    OBVIOUS
  <2>2. ASSUME NEW i \in 1 .. n PROVE planned[i] \in [from : 0 .. length, to : 0 .. length]
    <3> DEFINE T == [from : 0 .. length, to : 0 .. length]
    <3>1. planned \in Seq(T)
      OBVIOUS
    <3> HIDE DEF T
    <3>2. planned[i] \in T
      BY <2>2, <3>1
    <3> QED
      BY <3>2 DEF T
  <2> QED
    BY <2>1, <2>2
<1>1. PlannedBlocks(planned) = at[n]
  BY DEF PlannedBlocks
<1>2. ASSUME NEW p, Fine(p), NEW c, c.from \in 0 .. length, c.to \in 0 .. length PROVE Fine(Step(p, c))
  <2> DEFINE cursor == p.cursor
             start  == Greater(cursor, c.from)
             end    == Greater(start, c.to)
             gap    == IF start > cursor THEN <<Block("upcoming", cursor, start, 0)>> ELSE <<>>
             lead   == p.blocks \o gap
  <2>1. /\ cursor \in 0 .. length /\ start \in 0 .. length /\ end \in 0 .. length
        /\ start >= cursor /\ p.blocks \in Seq(Blocks)
    BY <1>2 DEF Greater, Contiguous
  <2>7. cursor \in Nat /\ start \in Nat /\ end \in Nat
    BY <2>1
  <2>2. Step(p, c) = [blocks |-> lead \o <<Block("chunk", start, end, 0)>>, cursor |-> end]
    OBVIOUS
  <2> HIDE DEF cursor, start, end, Step
  <2>3. Contiguous(lead, start)
    <3>1. CASE start > cursor
      <4> DEFINE b == Block("upcoming", cursor, start, 0)
      <4>3. lead = p.blocks \o <<b>>
        BY <3>1
      <4> HIDE DEF b, lead
      <4>1. lead = Append(p.blocks, b)
        BY <2>1, <4>3
      <4>2. Contiguous(Append(p.blocks, Block("upcoming", cursor, start, 0)), start + 0)
        <5>1. Contiguous(p.blocks, cursor) /\ 0 \in Nat /\ "upcoming" \in {"chunk", "upcoming"}
          BY <1>2 DEF cursor
        <5> QED
          BY <2>7, <5>1, OneMore
      <4> QED
        BY <2>7, <4>1, <4>2 DEF b
    <3>2. CASE start = cursor
      <4>1. ~(start > cursor)
        BY <2>1, <3>2
      <4>2. lead = p.blocks
        <5>1. lead = p.blocks \o <<>>
          BY <4>1
        <5> HIDE DEF lead
        <5> QED
          BY <2>1, <5>1
      <4> QED
        BY <1>2, <3>2, <4>2 DEF cursor
    <3> QED
      BY <2>1, <3>1, <3>2
  <2> HIDE DEF lead
  <2>4. Contiguous(Append(lead, Block("chunk", start, end, 0)), end + 0)
    <3>1. 0 \in Nat /\ "chunk" \in {"chunk", "upcoming"}
      OBVIOUS
    <3> QED
      BY <2>3, <2>7, <3>1, OneMore
  <2>5. lead \o <<Block("chunk", start, end, 0)>> = Append(lead, Block("chunk", start, end, 0))
    <3>1. lead \in Seq(Blocks)
      BY <2>3 DEF Contiguous
    <3> QED
      BY <3>1
  <2>6. end + 0 = end
    BY <2>7
  <2> QED
    <3> DEFINE b == lead \o <<Block("chunk", start, end, 0)>>
    <3>1. Contiguous(b, end)
      BY <2>4, <2>5, <2>6
    <3> HIDE DEF b
    <3>2. Step(p, c).blocks = b /\ Step(p, c).cursor = end
      BY <2>2 DEF b
    <3> QED
      BY <2>1, <3>1, <3>2
<1> HIDE DEF Step
<1>3. Fine(None)
  BY DEF Contiguous, EndOf
<1> HIDE DEF None, Fine
<1> DEFINE Bad == {k \in Nat : ~\E f : Runs(f, k)}
<1>4. ASSUME Bad # {} PROVE FALSE
  <2>1. PICK k \in Bad : \A m \in Bad : k <= m
    BY <1>4, LeastNatural
  <2>2. k \in Nat /\ ~\E f : Runs(f, k)
    BY <2>1
  <2>3. CASE k = 0
    <3> DEFINE f == [i \in 0 .. 0 |-> None]
    <3>1. f = [i \in 0 .. 0 |-> Body(f, i)]
      OBVIOUS
    <3> QED
      BY <2>2, <2>3, <3>1
  <2>4. CASE k # 0
    <3>1. k - 1 \in Nat
      BY <2>2, <2>4
    <3>2. k - 1 \notin Bad
      <4> HIDE DEF Bad
      <4> QED
        BY <2>1, <2>2, <3>1
    <3>3. PICK h : Runs(h, k - 1)
      <4> HIDE DEF Runs
      <4> QED
        BY <3>1, <3>2
    <3> DEFINE f == [i \in 0 .. k |-> Body(h, i)]
    <3>4. ASSUME NEW i \in 0 .. k - 1 PROVE h[i] = Body(h, i)
      <4> HIDE DEF Body
      <4> QED
        BY <3>3
    <3>5. ASSUME NEW i \in 0 .. k PROVE Body(f, i) = Body(h, i)
      <4>1. CASE i = 0
        BY <4>1
      <4>2. CASE i # 0
        <5>1. i - 1 \in 0 .. k - 1 /\ i - 1 \in 0 .. k
          BY <2>2, <4>2
        <5>2. f[i - 1] = Body(h, i - 1)
          <6> HIDE DEF Body
          <6> QED
            BY <5>1
        <5>3. h[i - 1] = Body(h, i - 1)
          BY <3>4, <5>1
        <5>4. f[i - 1] = h[i - 1]
          BY <5>2, <5>3
        <5> HIDE DEF f
        <5> QED
          BY <4>2, <5>4
      <4> QED
        BY <4>1, <4>2
    <3>6. Runs(f, k)
      <4>1. f = [i \in 0 .. k |-> Body(h, i)]
        OBVIOUS
      <4> HIDE DEF f, Body
      <4> QED
        BY <3>5, <4>1
    <3> QED
      BY <2>2, <3>6
  <2> QED
    BY <2>3, <2>4
<1>5. PICK f : Runs(f, n)
  <2>1. n \notin Bad
    <3> HIDE DEF Bad
    <3> QED
      BY <1>4
  <2> HIDE DEF Runs
  <2> QED
    BY <1>0, <2>1
<1>6. at = [i \in 0 .. n |-> Body(at, i)]
  <2> HIDE DEF Body
  <2> QED
    BY <1>5
<1>7. ASSUME NEW i \in 0 .. n PROVE at[i] = Body(at, i)
  <2> HIDE DEF Body, at
  <2> QED
    BY <1>6
<1> HIDE DEF at
<1> DEFINE Worse == {k \in Nat : k <= n /\ ~Fine(at[k])}
<1>8. ASSUME Worse # {} PROVE FALSE
  <2>1. PICK k \in Worse : \A m \in Worse : k <= m
    BY <1>8, LeastNatural
  <2>2. k \in 0 .. n /\ k \in Nat /\ ~Fine(at[k])
    BY <1>0, <2>1
  <2>3. k # 0
    BY <1>3, <1>7, <2>2
  <2>4. k - 1 \in Nat /\ k - 1 <= n /\ k \in 1 .. n
    BY <1>0, <2>2, <2>3
  <2>5. k - 1 \notin Worse
    <3> HIDE DEF Worse
    <3> QED
      BY <2>1, <2>2, <2>4
  <2>6. Fine(at[k - 1])
    BY <2>4, <2>5
  <2>7. at[k] = Step(at[k - 1], planned[k])
    BY <1>7, <2>2, <2>3
  <2>8. planned[k].from \in 0 .. length /\ planned[k].to \in 0 .. length
    BY <1>0, <2>4
  <2> QED
    BY <1>2, <2>2, <2>6, <2>7, <2>8
<1>9. Fine(at[n])
  <2>1. n \notin Worse
    <3> HIDE DEF Worse
    <3> QED
      BY <1>8
  <2> QED
    BY <1>0, <2>1
<1> QED
  BY <1>1, <1>9 DEF Fine, Contiguous

\* buildReaderTextSegments: the blocks of a text are shown one after the other, none
\* of it twice and none left out but what the last one says that it hides, wherever
\* the offsets of the plan lie: they may overlap, leave gaps or run backwards.
THEOREM TextStaysWhole ==
  ASSUME NEW length \in Nat, NEW planned \in Seq([from : 0 .. length, to : 0 .. length]),
         NEW full \in Nat, NEW preview \in Nat, preview <= full
  PROVE  LET blocks == ReaderTextSegments(planned, length, full, preview)
         IN  /\ \A i \in 1 .. Len(blocks) : blocks[i].from = EndOf(blocks, i - 1)
             /\ EndOf(blocks, Len(blocks)) = length
<1> DEFINE p == PlannedBlocks(planned)
           left == length - p.cursor
           shown == IF left <= full THEN left ELSE preview
           blocks == ReaderTextSegments(planned, length, full, preview)
<1>1. Contiguous(p.blocks, p.cursor) /\ p.cursor \in 0 .. length
  BY PlannedFacts
<1>2. blocks = IF left <= 0 THEN p.blocks
               ELSE Append(p.blocks, Block("upcoming", p.cursor, p.cursor + shown, left - shown))
  BY DEF ReaderTextSegments
<1> HIDE DEF p, blocks
<1>3. CASE left <= 0
  <2>1. p.cursor = length
    BY <1>1, <1>3
  <2> QED
    BY <1>1, <1>2, <1>3, <2>1 DEF Contiguous, blocks
<1>4. CASE ~(left <= 0)
  <2>1. left \in Nat /\ shown \in Nat /\ left - shown \in Nat /\ p.cursor + shown \in Nat
        /\ (p.cursor + shown) + (left - shown) = length
    BY <1>1, <1>4
  <2> HIDE DEF left, shown
  <2>2. Contiguous(blocks, (p.cursor + shown) + (left - shown))
    <3>1. "upcoming" \in {"chunk", "upcoming"}
      OBVIOUS
    <3>2. blocks = Append(p.blocks, Block("upcoming", p.cursor, p.cursor + shown, left - shown))
      BY <1>2, <1>4
    <3> QED
      BY <1>1, <2>1, <3>1, <3>2, OneMore
  <2> QED
    BY <2>1, <2>2 DEF Contiguous, blocks
<1> QED
  BY <1>3, <1>4

-----------------------------------------------------------------------------
(* The look of a slot.  playheadForSlot may stand for the playhead: the slots are
   memoized on what it returns, so that a tick of playback redraws one slot. *)

\* A slot the playhead is not inside gets one and the same value, wherever the
\* playhead moves on its side of the slot: the slot is not redrawn.
THEOREM ClampIsConstant ==
  ASSUME NEW start \in Int, NEW length \in Nat, NEW p \in Int, NEW q \in Int,
         \/ p <= start /\ q <= start
         \/ p > start /\ q > start /\ p >= start + length /\ q >= start + length
  PROVE  PlayheadForSlot(p, start, length) = PlayheadForSlot(q, start, length)
<1>1. CASE p <= start /\ q <= start
  BY <1>1 DEF PlayheadForSlot
<1>2. CASE p > start /\ q > start /\ p >= start + length /\ q >= start + length
  BY <1>2 DEF PlayheadForSlot
<1> QED BY <1>1, <1>2

\* Every bar of the slot is filled as the true playhead would fill it.
THEOREM ClampKeepsFill ==
  ASSUME NEW start \in Int, NEW length \in Nat, NEW p \in Int, NEW rendered \in Int,
         NEW from \in Int, NEW to \in Int,
         start <= from, from < to, to <= start + length
  PROVE  BarFillFraction(PlayheadForSlot(p, start, length), from, to, rendered)
         = BarFillFraction(p, from, to, rendered)
<1>1. CASE p <= start
  BY <1>1 DEF PlayheadForSlot, BarFillFraction
<1>2. CASE p > start /\ p >= start + length
  BY <1>2 DEF PlayheadForSlot, BarFillFraction
<1>3. CASE p > start /\ p < start + length
  BY <1>3 DEF PlayheadForSlot
<1> QED BY <1>1, <1>2, <1>3

\* A played slot recedes for the clamped playhead when it does for the true one,
\* and besides only while that rests on its very end, where the clamp, which adds
\* the epsilon, has left the slot already.
THEOREM ClampKeepsDimming ==
  ASSUME NEW start \in Int, NEW length \in Nat, NEW p \in Int, NEW state
  PROVE  IsSlotDimmed(state, start, length, PlayheadForSlot(p, start, length))
         <=> \/ IsSlotDimmed(state, start, length, p)
             \/ state = "played" /\ p = start + length /\ length > 0
<1>1. CASE p <= start
  BY <1>1 DEF PlayheadForSlot, IsSlotDimmed
<1>2. CASE p > start /\ p >= start + length
  BY <1>2 DEF PlayheadForSlot, IsSlotDimmed
<1>3. CASE p > start /\ p < start + length
  BY <1>3 DEF PlayheadForSlot, IsSlotDimmed
<1> QED BY <1>1, <1>2, <1>3

-----------------------------------------------------------------------------
(* Sums *)

\* The fold of SumOf as a function on sets, and the same on the small ones.
Added(f, g, s) ==
  IF s = {} THEN 0 ELSE f[CHOOSE x \in s : TRUE] + g[s \ {CHOOSE x \in s : TRUE}]
Small(S, k) == {s \in SUBSET S : Cardinality(s) <= k}
Adds(f, g, S, k) ==
  /\ g \in [Small(S, k) -> Nat]
  /\ \A s \in Small(S, k) : g[s] = Added(f, g, s)

\* SumOf is what the fold of the library is defined by.
LEMMA FoldAdds ==
  ASSUME NEW f, NEW S
  PROVE  SumOf(f, S) = (CHOOSE g : g = [s \in SUBSET S |-> Added(f, g, s)])[S]
BY DEF SumOf, FoldFunctionOnSet, MapThenFoldSet, Added

\* The set that the fold goes on with is smaller by one.
LEMMA OneLess ==
  ASSUME NEW S, IsFiniteSet(S), NEW s \in SUBSET S, s # {}
  PROVE  /\ (CHOOSE x \in s : TRUE) \in s
         /\ s \ {CHOOSE x \in s : TRUE} \in SUBSET S
         /\ IsFiniteSet(s) /\ Cardinality(s) \in Nat
         /\ Cardinality(s \ {CHOOSE x \in s : TRUE}) = Cardinality(s) - 1
         /\ Cardinality(s) - 1 \in Nat
<1> DEFINE c == CHOOSE x \in s : TRUE
<1>1. c \in s
  OBVIOUS
<1>2. IsFiniteSet(s) /\ Cardinality(s) \in Nat
  BY FS_Subset, FS_CardinalityType
<1>3. IsFiniteSet(s \ {c}) /\ Cardinality(s \ {c}) = Cardinality(s) - 1
  BY <1>1, <1>2, FS_RemoveElement
<1>4. Cardinality(s \ {c}) \in Nat
  BY <1>3, FS_CardinalityType
<1> HIDE DEF c
<1> QED
  BY <1>1, <1>2, <1>3, <1>4 DEF c

\* The sums of small sets exist: by induction on the size.
LEMMA PartialSums ==
  ASSUME NEW S, IsFiniteSet(S), NEW f, \A x \in S : f[x] \in Nat, NEW n \in Nat
  PROVE  \E g : Adds(f, g, S, n)
<1> DEFINE Bad == {k \in Nat : ~\E g : Adds(f, g, S, k)}
<1>1. ASSUME Bad # {} PROVE FALSE
  <2>1. PICK k \in Bad : \A m \in Bad : k <= m
    BY <1>1, LeastNatural
  <2>2. CASE k = 0
    <3> DEFINE g == [s \in Small(S, 0) |-> 0]
    <3>1. ASSUME NEW s \in Small(S, 0) PROVE s = {}
      <4>1. IsFiniteSet(s) /\ Cardinality(s) \in Nat /\ Cardinality(s) <= 0
        BY FS_Subset, FS_CardinalityType DEF Small
      <4> QED
        BY <4>1, FS_EmptySet
    <3>2. g \in [Small(S, 0) -> Nat] /\ \A s \in Small(S, 0) : g[s] = 0
      OBVIOUS
    <3>3. Adds(f, g, S, 0)
      BY <3>1, <3>2 DEF Adds, Added
    <3> QED
      BY <2>1, <2>2, <3>3
  <2>3. CASE k # 0
    <3>1. k - 1 \in Nat /\ k - 1 \notin Bad
      BY <2>1, <2>3
    <3>2. PICK h : Adds(f, h, S, k - 1)
      BY <3>1
    <3> DEFINE g == [s \in Small(S, k) |-> Added(f, h, s)]
    <3>3. ASSUME NEW s \in Small(S, k), s # {}
          PROVE  /\ s \ {CHOOSE x \in s : TRUE} \in Small(S, k - 1)
                 /\ (CHOOSE x \in s : TRUE) \in S
      BY <2>1, <3>3, OneLess DEF Small
    <3>4. ASSUME NEW s \in Small(S, k - 1) PROVE s \in Small(S, k) /\ g[s] = h[s]
      <4>1. s \in SUBSET S /\ Cardinality(s) <= k - 1
        BY DEF Small
      <4>2. IsFiniteSet(s) /\ Cardinality(s) \in Nat
        BY <4>1, FS_Subset, FS_CardinalityType
      <4>3. s \in Small(S, k)
        BY <2>1, <4>1, <4>2 DEF Small
      <4>4. h[s] = Added(f, h, s)
        BY <3>2 DEF Adds
      <4> QED
        BY <4>3, <4>4
    <3>5. ASSUME NEW s \in Small(S, k) PROVE g[s] \in Nat /\ g[s] = Added(f, g, s)
      <4>1. g[s] = Added(f, h, s)
        OBVIOUS
      <4>2. CASE s = {}
        BY <4>1, <4>2 DEF Added
      <4>3. CASE s # {}
        <5> DEFINE c == CHOOSE x \in s : TRUE
        <5>1. s \ {c} \in Small(S, k - 1) /\ c \in S
          BY <3>3, <4>3
        <5>2. g[s \ {c}] = h[s \ {c}] /\ h[s \ {c}] \in Nat
          BY <3>2, <3>4, <5>1 DEF Adds
        <5>3. f[c] \in Nat
          BY <5>1
        <5>4. Added(f, h, s) = f[c] + h[s \ {c}] /\ Added(f, g, s) = f[c] + g[s \ {c}]
          BY <4>3 DEF Added
        <5> HIDE DEF c, g
        <5> QED
          BY <4>1, <5>2, <5>3, <5>4
      <4> QED
        BY <4>2, <4>3
    <3>6. g \in [Small(S, k) -> Nat]
      <4>1. \A s \in Small(S, k) : Added(f, h, s) \in Nat
        BY <3>5
      <4> QED
        BY <4>1
    <3>7. Adds(f, g, S, k)
      <4> HIDE DEF g
      <4> QED
        BY <3>5, <3>6 DEF Adds
    <3> QED
      BY <2>1, <3>7
  <2> QED
    BY <2>2, <2>3
<1> QED
  BY <1>1

\* A sum of naturals is one: by induction on the size of the set.
LEMMA SumIsNat ==
  ASSUME NEW S, IsFiniteSet(S), NEW f, \A x \in S : f[x] \in Nat
  PROVE  SumOf(f, S) \in Nat
<1> DEFINE n == Cardinality(S)
           g == CHOOSE h : h = [s \in SUBSET S |-> Added(f, h, s)]
<1>1. n \in Nat
  BY FS_CardinalityType
<1>2. Small(S, n) = SUBSET S
  BY FS_Subset DEF Small
<1>3. PICK h : Adds(f, h, S, n)
  BY <1>1, PartialSums
<1>4. h = [s \in SUBSET S |-> Added(f, h, s)]
  BY <1>2, <1>3 DEF Adds
<1>5. g = [s \in SUBSET S |-> Added(f, g, s)]
  BY <1>4
<1> HIDE DEF g, n
<1> DEFINE Bad == {k \in Nat : \E s \in SUBSET S : Cardinality(s) = k /\ g[s] \notin Nat}
<1>6. ASSUME Bad # {} PROVE FALSE
  <2>1. PICK k \in Bad : \A m \in Bad : k <= m
    BY <1>6, LeastNatural
  <2>2. PICK s \in SUBSET S : Cardinality(s) = k /\ g[s] \notin Nat
    BY <2>1
  <2>3. g[s] = Added(f, g, s)
    BY <1>5
  <2>4. s # {}
    BY <2>2, <2>3 DEF Added
  <2> DEFINE c == CHOOSE x \in s : TRUE
  <2>5. /\ c \in S /\ s \ {c} \in SUBSET S
        /\ Cardinality(s \ {c}) = k - 1 /\ k - 1 \in Nat
    BY <2>2, <2>4, OneLess
  <2>6. g[s \ {c}] \in Nat
    BY <2>1, <2>5
  <2>7. f[c] \in Nat
    BY <2>5
  <2>8. Added(f, g, s) = f[c] + g[s \ {c}]
    BY <2>4 DEF Added
  <2> HIDE DEF c
  <2> QED
    BY <2>2, <2>3, <2>6, <2>7, <2>8
<1>7. g[S] \in Nat
  <2>1. S \in SUBSET S /\ Cardinality(S) \in Nat
    BY FS_CardinalityType
  <2> QED
    BY <1>6, <2>1
<1>8. SumOf(f, S) = g[S]
  BY FoldAdds DEF g
<1> QED
  BY <1>7, <1>8

-----------------------------------------------------------------------------
(* The types of the conveyor *)

ChunksOK ==
  chunks \in [Slot -> [status : {"planned", "written", "failed"}, length : Nat, take : Nat]]
PlayerOK == player \in [anchor : Slot, override : Int, time : Int]
ScrubOK ==
  scrub \in [held : BOOLEAN, at : Int, suppress : Slot \cup {-1}, click : Slot \cup {-1},
             scrubbed : BOOLEAN]
HistOK ==
  hist \in [changes : Nat, presses : Nat, misses : Nat, owed : BOOLEAN,
            sought : [by : {"none", "strip", "timeline", "press", "click"}, n : 0 .. 1]]
Gesture ==
  {NoGesture}
  \cup [phase : {"dragging"}, base : Int, offset : Int, from : Int, x : Int]
  \cup [phase : {"coasting"}, base : Int, offset : Int, speed : Int]
  \cup [phase : {"settling"}, base : Int, offset : Int, target : Int, speed : Int, allows : BOOLEAN]
StripOK == strip \in [gesture : Gesture, shown : Int, motion : {"animated", "reduced"}]

TypeOK == ChunksOK /\ PlayerOK /\ ScrubOK /\ HistOK /\ StripOK

LEMMA Slots ==
  /\ N \in Nat /\ N >= 1 /\ Slot = 0 .. N - 1 /\ IsFiniteSet(Slot) /\ 0 \in Slot
  /\ \A S \in SUBSET Slot : IsFiniteSet(S)
<1>1. N \in Nat /\ N >= 1 /\ Slot = 0 .. N - 1
  BY WaveformsAssumption DEF Slot
<1>2. IsFiniteSet(0 .. N - 1)
  BY <1>1, FS_Interval
<1>3. \A S \in SUBSET Slot : IsFiniteSet(S)
  BY <1>1, <1>2, FS_Subset
<1>4. 0 \in 0 .. N - 1
  BY <1>1
<1> QED
  BY <1>1, <1>2, <1>3, <1>4

\* Whatever the chunks, the layout is one of whole seconds, and the strip is as long
\* as the audio at least.
LEMMA Layout ==
  ASSUME ChunksOK, player.anchor \in Slot
  PROVE  /\ TotalSeconds \in Nat /\ RenderedRun \in Nat /\ AnchorOffset \in Nat
         /\ MaxSeekSeconds \in Nat /\ MaxVisualSeconds \in Nat
         /\ MaxSeekSeconds <= MaxVisualSeconds /\ TotalSeconds <= MaxVisualSeconds
         /\ \A i \in Slot : StartTime(i) \in Nat
<1>1. \A i \in Slot : Drawn[i] \in Nat /\ Audio[i] \in Nat
  <2>1. \A i \in Slot : chunks[i].length \in Nat
    BY DEF ChunksOK
  <2>2. Default \in Nat
    BY ConveyorAssumption
  <2> QED
    BY <2>1, <2>2 DEF Drawn, Audio
<1>2. \A S \in SUBSET Slot : SumOf(Drawn, S) \in Nat /\ SumOf(Audio, S) \in Nat
  BY <1>1, Slots, SumIsNat
<1>3. \A i \in Slot : 0 .. i - 1 \in SUBSET Slot
  BY Slots
<1>4. TotalSeconds \in Nat /\ RenderedRun \in Nat /\ AnchorOffset \in Nat
  <2>1. TotalSeconds \in Nat
    BY <1>2 DEF TotalSeconds
  <2>2. AnchorOffset \in Nat
    BY <1>2, <1>3 DEF AnchorOffset
  <2>3. RenderedRun \in Nat
    BY <1>2 DEF RenderedRun
  <2> QED
    BY <2>1, <2>2, <2>3
<1>5. \A i \in Slot : StartTime(i) \in Nat
  BY <1>2, <1>3 DEF StartTime
<1>6. MaxSeekSeconds \in Nat
  BY <1>4 DEF MaxSeekSeconds
<1>7. /\ MaxVisualSeconds \in Nat
      /\ MaxSeekSeconds <= MaxVisualSeconds /\ TotalSeconds <= MaxVisualSeconds
  BY <1>4, <1>6 DEF MaxVisualSeconds, Greater
<1> QED
  BY <1>4, <1>5, <1>6, <1>7

\* slotIndexAtSeconds finds a slot.
LEMMA SlotIndex ==
  ASSUME ChunksOK, player.anchor \in Slot, NEW s \in Int
  PROVE  /\ SlotIndexAtSeconds(s) \in Slot
         /\ SlotIndexAtSeconds(s) = 0 \/ StartTime(SlotIndexAtSeconds(s)) <= s
<1> DEFINE T == {i \in Slot : i = 0 \/ StartTime(i) <= s}
<1>1. T \subseteq 0 .. N - 1 /\ T # {} /\ N - 1 \in Nat
  BY Slots
<1>2. PICK i \in T : \A k \in T : k <= i
  BY <1>1, GreatestNatural
<1>3. ASSUME NEW k \in Slot, k > i PROVE StartTime(k) > s
  <2>1. k \notin T
    BY <1>1, <1>2, <1>3
  <2> QED
    BY <2>1, Layout
<1>4. \E j \in Slot : /\ j = 0 \/ StartTime(j) <= s
                      /\ \A k \in Slot : k > j => StartTime(k) > s
  BY <1>2, <1>3
<1> QED
  BY <1>4 DEF SlotIndexAtSeconds

LEMMA Clamped ==
  ASSUME NEW s \in Int, NEW max \in Nat
  PROVE  /\ ClampSeconds(s, max) \in 0 .. max
         /\ s >= 0 => ClampSeconds(s, max) = Lesser(s, max)
BY DEF ClampSeconds, Lesser, Greater

\* A target is one of the strip.
LEMMA TargetInside ==
  ASSUME NEW base \in Int, NEW offset \in Int, NEW limit \in Nat
  PROVE  TargetOf(base, offset, limit) \in Int /\ base + TargetOf(base, offset, limit) >= 0
<1>1. ClampSeconds(base + offset, limit) \in 0 .. limit
  BY Clamped
<1> QED
  BY <1>1 DEF TargetOf

-----------------------------------------------------------------------------
\* Gestures that were released.
Moved(g) == g.phase \in {"coasting", "settling"}

\* The spring may overshoot the strip; what it settles at is not before its start.
GestureOK(g) == g \in Gesture /\ (g.phase = "settling" => g.base + g.target >= 0)

\* A seek is owed by a strip that moves by itself, a strip that settles shows where
\* its gesture is, and the click of a scrub is on the slot that is suppressed.
Coherent ==
  /\ GestureOK(strip.gesture)
  /\ Moved(strip.gesture) => hist.owed
  /\ strip.gesture.phase = "settling" => strip.shown = Center(strip.gesture)
  /\ scrub.scrubbed => scrub.click # -1 /\ scrub.click = scrub.suppress

IInv == TypeOK /\ Coherent

\* What the gesture of a phase has.
LEMMA Phases ==
  ASSUME NEW g \in Gesture
  PROVE  /\ g.phase \in {"none", "dragging", "coasting", "settling"}
         /\ g.phase = "none" => g = NoGesture
         /\ g.phase # "none" => g.base \in Int /\ g.offset \in Int
         /\ g.phase = "dragging" => g.from \in Int /\ g.x \in Int
         /\ g.phase = "coasting" => g.speed \in Int
         /\ g.phase = "settling" => g.target \in Int /\ g.speed \in Int /\ g.allows \in BOOLEAN
         /\ g = NoGesture => g.phase = "none"
<1>1. CASE g = NoGesture
  BY <1>1 DEF NoGesture
<1>2. CASE g \in [phase : {"dragging"}, base : Int, offset : Int, from : Int, x : Int]
  BY <1>2 DEF NoGesture
<1>3. CASE g \in [phase : {"coasting"}, base : Int, offset : Int, speed : Int]
  BY <1>3 DEF NoGesture
<1>4. CASE g \in [phase : {"settling"}, base : Int, offset : Int, target : Int, speed : Int,
                  allows : BOOLEAN]
  BY <1>4 DEF NoGesture
<1> QED
  BY <1>1, <1>2, <1>3, <1>4 DEF Gesture

LEMMA Settled ==
  ASSUME NEW base \in Int, NEW offset \in Int, NEW target \in Int, NEW speed \in Int,
         NEW allows \in BOOLEAN, base + target >= 0
  PROVE  LET h == Settling(base, offset, target, speed, allows)
         IN  GestureOK(h) /\ h.phase = "settling"
<1> DEFINE h == Settling(base, offset, target, speed, allows)
<1>1. /\ h \in [phase : {"settling"}, base : Int, offset : Int, target : Int, speed : Int,
                allows : BOOLEAN]
      /\ h.base = base /\ h.target = target /\ h.phase = "settling"
  BY DEF Settling
<1> QED
  BY <1>1 DEF GestureOK, Gesture

LEMMA DragFacts ==
  ASSUME NEW base \in Int, NEW x \in Int
  PROVE  LET h == Dragging(base, x)
         IN  GestureOK(h) /\ h.phase = "dragging" /\ Center(h) \in Int
<1> DEFINE h == Dragging(base, x)
<1>1. /\ h \in [phase : {"dragging"}, base : Int, offset : Int, from : Int, x : Int]
      /\ h.phase = "dragging" /\ h.base = base /\ h.offset = 0
  BY DEF Dragging
<1> QED
  BY <1>1 DEF GestureOK, Gesture, Center

LEMMA CenterIsInt ==
  ASSUME NEW g \in Gesture, g.phase # "none"
  PROVE  Center(g) \in Int
BY Phases DEF Center

LEMMA UpdateFacts ==
  ASSUME ChunksOK, player.anchor \in Slot,
         NEW g \in Gesture, g.phase = "dragging", NEW x \in Int
  PROVE  LET h == UpdateDrag(g, x)
         IN  GestureOK(h) /\ h.phase = "dragging"
<1> DEFINE o == ClampSeconds(g.base - (x - g.from), MaxVisualSeconds) - g.base
           h == [g EXCEPT !.x = x, !.offset = o]
<1>1. g \in [phase : {"dragging"}, base : Int, offset : Int, from : Int, x : Int]
  BY DEF Gesture, NoGesture
<1>2. o \in Int
  <2>1. MaxVisualSeconds \in Nat /\ g.base - (x - g.from) \in Int /\ g.base \in Int
    BY <1>1, Layout
  <2>2. ClampSeconds(g.base - (x - g.from), MaxVisualSeconds) \in 0 .. MaxVisualSeconds
    BY <2>1, Clamped
  <2> QED
    BY <2>1, <2>2
<1> HIDE DEF o
<1>3. h \in [phase : {"dragging"}, base : Int, offset : Int, from : Int, x : Int]
      /\ h.phase = "dragging"
  BY <1>1, <1>2
<1>4. UpdateDrag(g, x) = h
  BY DEF UpdateDrag, o
<1> QED
  BY <1>3, <1>4 DEF GestureOK, Gesture

LEMMA ReleaseFacts ==
  ASSUME ChunksOK, player.anchor \in Slot,
         NEW g \in Gesture, g.phase = "dragging", NEW v \in Int
  PROVE  /\ GestureOK(EndTap(g)) /\ EndTap(g).phase = "settling"
         /\ GestureOK(EndDrop(g)) /\ EndDrop(g).phase = "settling"
         /\ GestureOK(EndFlick(g, v)) /\ EndFlick(g, v).phase = "coasting"
<1>1. g.base \in Int /\ g.offset \in Int /\ g.x \in Int
  BY Phases
<1>2. MaxVisualSeconds \in Nat /\ MaxSeekSeconds \in Nat
  BY Layout
<1>3. GestureOK(EndTap(g)) /\ EndTap(g).phase = "settling"
  <2> DEFINE allows == IsRendered(SlotIndexAtSeconds(g.base + g.x))
             offset == TargetOf(g.base, g.x, MaxVisualSeconds)
             limit  == IF allows THEN MaxVisualSeconds ELSE MaxSeekSeconds
             target == TargetOf(g.base, offset, limit)
             shown  == IF strip.motion = "reduced" THEN target ELSE offset
  <2>1. allows \in BOOLEAN
    BY DEF IsRendered
  <2>2. offset \in Int
    BY <1>1, <1>2, TargetInside
  <2>3. limit \in Nat
    BY <1>2
  <2>4. target \in Int /\ g.base + target >= 0
    <3> HIDE DEF offset, limit
    <3> QED
      BY <1>1, <2>2, <2>3, TargetInside
  <2>5. EndTap(g) = Settling(g.base, shown, target, 0, allows)
    BY DEF EndTap
  <2>6. shown \in Int
    <3> HIDE DEF offset, target
    <3> QED
      BY <2>2, <2>4
  <2> HIDE DEF allows, offset, limit, target, shown
  <2> QED
    BY <1>1, <2>1, <2>4, <2>5, <2>6, Settled
<1>4. GestureOK(EndDrop(g)) /\ EndDrop(g).phase = "settling"
  <2> DEFINE target == TargetOf(g.base, g.offset, MaxSeekSeconds)
             fixed  == FALSE
             shown  == IF strip.motion = "reduced" THEN target ELSE g.offset
  <2>1. target \in Int /\ g.base + target >= 0
    BY <1>1, <1>2, TargetInside
  <2>2. shown \in Int
    <3> HIDE DEF target
    <3> QED
      BY <1>1, <2>1
  <2>3. EndDrop(g) = Settling(g.base, shown, target, 0, fixed)
    BY DEF EndDrop
  <2>5. fixed \in BOOLEAN /\ 0 \in Int
    OBVIOUS
  <2> HIDE DEF target, shown, fixed
  <2>4. /\ GestureOK(Settling(g.base, shown, target, 0, fixed))
        /\ Settling(g.base, shown, target, 0, fixed).phase = "settling"
    BY <1>1, <2>1, <2>2, <2>5, Settled
  <2> QED
    BY <2>3, <2>4
<1>5. GestureOK(EndFlick(g, v)) /\ EndFlick(g, v).phase = "coasting"
  BY <1>1 DEF EndFlick, GestureOK, Gesture
<1> QED
  BY <1>3, <1>4, <1>5

LEMMA AdvanceFacts ==
  ASSUME ChunksOK, player.anchor \in Slot, NEW g \in Gesture, GestureOK(g), Moved(g)
  PROVE  GestureOK(Advance(g)) /\ Moved(Advance(g))
<1>1. g.base \in Int /\ g.offset \in Int /\ g.speed \in Int
  BY Phases DEF Moved
<1>2. MaxSeekSeconds \in Nat
  BY Layout
<1>3. CASE g.phase = "coasting"
  <2> DEFINE free   == g.offset + g.speed
             offset == TargetOf(g.base, free, MaxSeekSeconds)
             speed  == IF offset # free THEN 0 ELSE Slower(g.speed)
             rest   == IF offset # free THEN 0 ELSE g.speed
  <2>1. offset \in Int /\ g.base + offset >= 0
    <3>1. free \in Int
      BY <1>1
    <3> HIDE DEF free
    <3> QED
      BY <1>1, <1>2, <3>1, TargetInside
  <2>2. speed \in Int /\ rest \in Int
    <3> HIDE DEF offset
    <3> QED
      BY <1>1, <2>1 DEF Slower
  <2>3. Advance(g) = IF speed # 0 THEN [g EXCEPT !.offset = offset, !.speed = speed]
                     ELSE Settling(g.base, offset, offset, rest, FALSE)
    BY <1>3 DEF Advance, Coast
  <2>4. g \in [phase : {"coasting"}, base : Int, offset : Int, speed : Int]
    BY <1>3 DEF Gesture, NoGesture
  <2> HIDE DEF free, offset, speed, rest
  <2>5. CASE speed # 0
    <3> DEFINE h == [g EXCEPT !.offset = offset, !.speed = speed]
    <3>1. h \in [phase : {"coasting"}, base : Int, offset : Int, speed : Int]
          /\ h.phase = "coasting"
      BY <2>1, <2>2, <2>4
    <3>2. Advance(g) = h
      BY <2>3, <2>5
    <3> HIDE DEF h
    <3> QED
      BY <3>1, <3>2 DEF GestureOK, Gesture, Moved
  <2>6. CASE speed = 0
    <3>1. Advance(g) = Settling(g.base, offset, offset, rest, FALSE)
      BY <2>3, <2>6
    <3>2. LET h == Settling(g.base, offset, offset, rest, FALSE)
          IN  GestureOK(h) /\ h.phase = "settling"
      BY <1>1, <2>1, <2>2, Settled, ZenonT(60)
    <3> QED
      BY <3>1, <3>2 DEF Moved
  <2> QED
    BY <2>5, <2>6
<1>4. CASE g.phase = "settling"
  <2>1. g \in [phase : {"settling"}, base : Int, offset : Int, target : Int, speed : Int,
               allows : BOOLEAN]
    BY <1>4 DEF Gesture, NoGesture
  <2>2. Advance(g) = Spring(g)
    BY <1>4 DEF Advance
  <2>3. g.base + g.target >= 0
    BY <1>4 DEF GestureOK
  <2>4. PICK o \in Int, w \in Int : Spring(g) = [g EXCEPT !.offset = o, !.speed = w]
    <3>1. CASE g.speed = 2
      <4>1. Spring(g) = [g EXCEPT !.offset = g.target, !.speed = 0]
        BY <3>1 DEF Spring
      <4>2. g.target \in Int /\ 0 \in Int
        BY <2>1
      <4> QED
        BY <4>1, <4>2
    <3>2. CASE g.speed # 2
      <4> DEFINE side == IF g.offset # g.target THEN g.target - g.offset ELSE g.speed
                 p == g.target + (IF side > 0 THEN 1 ELSE -1)
      <4>1. p \in Int
        BY <2>1
      <4>2. Spring(g) = [g EXCEPT !.offset = p, !.speed = 2]
        BY <3>2 DEF Spring
      <4> HIDE DEF p
      <4>3. 2 \in Int
        OBVIOUS
      <4> QED
        BY <4>1, <4>2, <4>3
    <3> QED
      BY <3>1, <3>2
  <2> DEFINE h == [g EXCEPT !.offset = o, !.speed = w]
  <2>5. /\ h \in [phase : {"settling"}, base : Int, offset : Int, target : Int, speed : Int,
                  allows : BOOLEAN]
        /\ h.phase = "settling" /\ h.base = g.base /\ h.target = g.target
    BY <2>1
  <2>6. Advance(g) = h
    BY <2>2, <2>4
  <2> HIDE DEF h
  <2> QED
    BY <2>3, <2>5, <2>6 DEF GestureOK, Gesture, Moved
<1> QED
  BY <1>3, <1>4 DEF Moved

-----------------------------------------------------------------------------
\* The idle strip shows a whole second.
LEMMA ShowsInt ==
  ASSUME TypeOK
  PROVE  SmoothedPlayhead \in Int
<1>1. /\ player.anchor \in Slot /\ player.override \in Int /\ player.time \in Int
  BY DEF TypeOK, PlayerOK
<1>2. PlayheadSeconds \in Int
  BY <1>1, Layout DEF PlayheadSeconds, TypeOK
<1>3. StartTime(SlotIndexAtSeconds(PlayheadSeconds)) \in Int
  BY <1>1, <1>2, Layout, SlotIndex DEF TypeOK
<1>4. IdleCenter \in Int
  BY <1>2, <1>3 DEF IdleCenter
<1> QED
  BY <1>1, <1>4, Layout, Clamped DEF SmoothedPlayhead, TypeOK

\* What a change of the chunks leaves alone.
Kept == UNCHANGED <<player, strip, scrub>> /\ UNCHANGED hist

\* A step of the strip that shows what its gesture says.
LEMMA WithFacts ==
  ASSUME IInv, NEW g, GestureOK(g), g.phase # "none",
         strip' = With(g), UNCHANGED <<chunks, player, scrub>>,
         HistOK', Moved(g) => hist'.owed
  PROVE  IInv'
<1>1. g \in Gesture /\ Center(g) \in Int
  BY CenterIsInt DEF GestureOK
<1>2. strip' = [strip EXCEPT !.gesture = g, !.shown = Center(g)]
  BY DEF With
<1>3. strip \in [gesture : Gesture, shown : Int, motion : {"animated", "reduced"}]
  BY DEF IInv, TypeOK, StripOK
<1>4. /\ strip' \in [gesture : Gesture, shown : Int, motion : {"animated", "reduced"}]
      /\ strip'.gesture = g /\ strip'.shown = Center(g)
  BY <1>1, <1>2, <1>3
<1>5. StripOK'
  BY <1>4 DEF StripOK
<1>6. ChunksOK' /\ PlayerOK' /\ ScrubOK'
  BY DEF IInv, TypeOK, ChunksOK, PlayerOK, ScrubOK
<1>7. Coherent'
  BY <1>4 DEF IInv, Coherent
<1> QED
  BY <1>5, <1>6, <1>7 DEF IInv, TypeOK

\* A seek, with who asked for it.
LEMMA SeekFacts ==
  ASSUME HistOK, PlayerOK, NEW by \in {"strip", "timeline", "click"}, NEW i \in Slot,
         NEW s \in Int, Seek(by, i, s)
  PROVE  /\ PlayerOK' /\ HistOK' /\ player'.override = s
         /\ hist'.sought.by = by /\ hist'.owed = (hist.owed /\ by # "strip")
<1>1. player' \in [anchor : Slot, override : Int, time : Int] /\ player'.override = s
  BY DEF PlayerOK, Seek
<1>2. hist.sought.n \in 0 .. 1 /\ hist.owed \in BOOLEAN
  BY DEF HistOK
<1> DEFINE last == [by |-> by, n |-> 1 - hist.sought.n]
           owed == hist.owed /\ by # "strip"
<1>3. last \in [by : {"none", "strip", "timeline", "press", "click"}, n : 0 .. 1]
  BY <1>2
<1>4. owed \in BOOLEAN
  BY <1>2
<1>5. hist' = [hist EXCEPT !.owed = owed, !.sought = last]
  BY DEF Seek
<1>6. last.by = by
  OBVIOUS
<1> HIDE DEF last, owed
<1>7. HistOK' /\ hist'.sought = last /\ hist'.owed = owed
  BY <1>3, <1>4, <1>5 DEF HistOK
<1> QED
  BY <1>1, <1>6, <1>7 DEF PlayerOK, owed

-----------------------------------------------------------------------------
\* What CommitAimed says of a step.
Aimed ==
  hist'.sought \notin {hist.sought, NoSeek} =>
       CASE hist'.sought.by = "strip" ->
              /\ hist.owed /\ strip.gesture.phase = "settling"
              /\ player'.override = Lesser(strip.shown, IF strip.gesture.allows THEN MaxVisualSeconds
                                                         ELSE MaxSeekSeconds)
         [] hist'.sought.by = "click" -> ~scrub.scrubbed
         [] OTHER -> TRUE

\* The invariant holds to begin with.
LEMMA StartsCoherent == Init => IInv
<1> SUFFICES ASSUME Init PROVE IInv
  OBVIOUS
<1>1. PICK s \in Starts :
        /\ chunks = s.chunks
        /\ strip = [gesture |-> NoGesture, shown |-> 0, motion |-> s.motion]
        /\ scrub = [held |-> FALSE, at |-> 0, suppress |-> -1, click |-> -1, scrubbed |-> FALSE]
        /\ player = [anchor |-> 0, override |-> -1, time |-> 0]
        /\ hist = [changes |-> s.changes, presses |-> s.presses, misses |-> s.misses,
                   owed |-> FALSE, sought |-> NoSeek]
  BY DEF Init
<1>2. ChunksOK /\ s.motion \in {"animated", "reduced"}
      /\ {s.changes, s.presses, s.misses} \subseteq Nat
  BY <1>1, ConveyorAssumption DEF ChunksOK
<1>3. NoGesture \in Gesture /\ NoGesture.phase = "none"
  BY DEF Gesture, NoGesture
<1>4. StripOK
  BY <1>1, <1>2, <1>3 DEF StripOK
<1>5. ScrubOK /\ ~scrub.scrubbed
  BY <1>1 DEF ScrubOK
<1>6. PlayerOK
  BY <1>1, Slots DEF PlayerOK
<1>7. HistOK
  <2>1. NoSeek \in [by : {"none", "strip", "timeline", "press", "click"}, n : 0 .. 1]
    BY DEF NoSeek
  <2> HIDE DEF NoSeek
  <2> QED
    BY <1>1, <1>2, <2>1 DEF HistOK
<1>8. strip.gesture = NoGesture
  BY <1>1
<1>9. Coherent
  BY <1>3, <1>5, <1>8 DEF Coherent, GestureOK, Moved
<1> QED
  BY <1>2, <1>4, <1>5, <1>6, <1>7, <1>9 DEF IInv, TypeOK

\* A step that leaves the strip alone keeps the invariant when the scrub does.
LEMMA Quietly ==
  ASSUME IInv, ChunksOK', PlayerOK', ScrubOK', HistOK', UNCHANGED strip,
         hist'.owed = hist.owed,
         scrub'.scrubbed => scrub'.click # -1 /\ scrub'.click = scrub'.suppress
  PROVE  IInv'
BY DEF IInv, TypeOK, Coherent, StripOK

\* A step that does not seek aims well.
LEMMA SameSeek ==
  ASSUME hist'.sought = hist.sought
  PROVE  Aimed
BY DEF Aimed

LEMMA StillSteps ==
  ASSUME IInv, UNCHANGED conveyorVars
  PROVE  IInv' /\ Aimed
<1>1. ChunksOK' /\ PlayerOK' /\ ScrubOK' /\ HistOK'
  BY DEF conveyorVars, IInv, TypeOK, ChunksOK, PlayerOK, ScrubOK, HistOK
<1>2. IInv'
  BY <1>1, Quietly DEF conveyorVars, IInv, Coherent
<1> QED
  BY <1>2, SameSeek DEF conveyorVars

\* What changes the chunks changes neither the strip nor the player.
LEMMA ShowFacts ==
  ASSUME ChunksOK, NEW i \in Slot, ChunkChanges(i)
  PROVE  ChunksOK'
<1> DEFINE C == [status : {"planned", "written", "failed"}, length : Nat, take : Nat]
<1>1. chunks \in [Slot -> C]
  BY DEF ChunksOK
<1>2. \A k \in Slot : chunks[k].take \in Nat /\ chunks[k].take + 1 \in Nat
  BY <1>1
<1>3. Lengths \subseteq Nat
  BY WaveformsAssumption
<1>4. CASE \E c \in Rendered(chunks[i]) : Show([chunks EXCEPT ![i] = c])
  <2>1. PICK c \in Rendered(chunks[i]) : chunks' = [chunks EXCEPT ![i] = c]
    BY <1>4 DEF Show
  <2>2. c \in C
    BY <1>2, <1>3 DEF Rendered, Chunk
  <2> HIDE DEF C
  <2> QED
    BY <1>1, <2>1, <2>2 DEF ChunksOK, C
<1>5. CASE Show([chunks EXCEPT ![i] = Chunk("planned", 0, @.take + 1)])
  <2> DEFINE c == Chunk("planned", 0, chunks[i].take + 1)
  <2>1. chunks' = [chunks EXCEPT ![i] = c]
    BY <1>5 DEF Show
  <2>2. c \in C
    BY <1>2 DEF Chunk
  <2> HIDE DEF C, c
  <2> QED
    BY <1>1, <2>1, <2>2 DEF ChunksOK, C
<1>6. CASE \E l \in Lengths :
             Show([k \in Slot |-> IF k = i THEN Chunk("written", l, chunks[i].take + 1)
                                  ELSE [chunks[k] EXCEPT !.take = @ + 1]])
  <2>1. PICK l \in Lengths :
          chunks' = [k \in Slot |-> IF k = i THEN Chunk("written", l, chunks[i].take + 1)
                                    ELSE [chunks[k] EXCEPT !.take = @ + 1]]
    BY <1>6 DEF Show
  <2>2. Chunk("written", l, chunks[i].take + 1) \in C
    BY <1>2, <1>3 DEF Chunk
  <2>3. ASSUME NEW k \in Slot PROVE [chunks[k] EXCEPT !.take = @ + 1] \in C
    BY <1>1, <1>2
  <2> HIDE DEF C
  <2> QED
    BY <2>1, <2>2, <2>3 DEF ChunksOK, C
<1> QED
  BY <1>4, <1>5, <1>6 DEF ChunkChanges

LEMMA CountFacts ==
  ASSUME HistOK
  PROVE  /\ hist.changes + 1 \in Nat /\ hist.presses + 1 \in Nat /\ hist.misses + 1 \in Nat
         /\ hist.owed \in BOOLEAN /\ hist.sought.n \in 0 .. 1
BY DEF HistOK

LEMMA ChangeSteps ==
  ASSUME IInv, Change
  PROVE  IInv' /\ Aimed
<1>1. PICK i \in Slot : ChunkChanges(i)
  BY DEF Change
<1>2. ChunksOK'
  BY <1>1, ShowFacts DEF IInv, TypeOK
<1>3. hist' = [hist EXCEPT !.changes = @ + 1] /\ UNCHANGED <<strip, scrub, player>>
  BY DEF Change
<1>4. HistOK' /\ hist'.owed = hist.owed /\ hist'.sought = hist.sought
  BY <1>3 DEF IInv, TypeOK, HistOK
<1>5. PlayerOK' /\ ScrubOK'
  BY <1>3 DEF IInv, TypeOK, PlayerOK, ScrubOK
<1>6. IInv'
  BY <1>2, <1>3, <1>4, <1>5, Quietly DEF IInv, Coherent
<1> QED
  BY <1>4, <1>6, SameSeek

LEMMA HookSteps ==
  ASSUME IInv, Hook
  PROVE  IInv' /\ Aimed
<1>1. UNCHANGED <<chunks, strip, scrub, player, hist>>
  BY DEF Hook, HookRuns, Reconcile, NextFetch, FetchDone
<1>2. ChunksOK' /\ PlayerOK' /\ ScrubOK' /\ HistOK'
  BY <1>1 DEF IInv, TypeOK, ChunksOK, PlayerOK, ScrubOK, HistOK
<1>3. IInv'
  BY <1>1, <1>2, Quietly DEF IInv, Coherent
<1> QED
  BY <1>1, <1>3, SameSeek

LEMMA MissSteps ==
  ASSUME IInv, Miss
  PROVE  IInv' /\ Aimed
<1>1. /\ UNCHANGED <<chunks, strip, scrub, player>>
      /\ hist' = [hist EXCEPT !.misses = @ + 1]
  BY DEF Miss, FetchDone
<1>2. HistOK' /\ hist'.owed = hist.owed /\ hist'.sought = hist.sought
  BY <1>1 DEF IInv, TypeOK, HistOK
<1>3. ChunksOK' /\ PlayerOK' /\ ScrubOK'
  BY <1>1 DEF IInv, TypeOK, ChunksOK, PlayerOK, ScrubOK
<1>4. IInv'
  BY <1>1, <1>2, <1>3, Quietly DEF IInv, Coherent
<1> QED
  BY <1>2, <1>4, SameSeek

LEMMA LandsSteps ==
  ASSUME IInv, Lands
  PROVE  IInv' /\ Aimed
<1>1. /\ UNCHANGED <<chunks, strip, scrub>>
      /\ hist' = [hist EXCEPT !.sought = NoSeek]
  BY DEF Lands
<1>2. /\ player \in [anchor : Slot, override : Int, time : Int]
      /\ AnchorOffset \in Nat /\ RenderedRun \in Nat
  BY Layout DEF IInv, TypeOK, PlayerOK
<1> DEFINE at == ClampSeconds(player.override - AnchorOffset, RenderedRun)
<1>3. at \in Int
  BY <1>2, Clamped
<1> DEFINE none == -1
<1>4. player' = [player EXCEPT !.override = none, !.time = at]
  BY DEF Lands
<1>9. none \in Int
  OBVIOUS
<1> HIDE DEF at, none
<1>5. PlayerOK'
  BY <1>2, <1>3, <1>4, <1>9 DEF PlayerOK
<1>6. HistOK' /\ hist'.owed = hist.owed /\ hist'.sought = NoSeek
  BY <1>1 DEF IInv, TypeOK, HistOK, NoSeek
<1>7. ChunksOK' /\ ScrubOK'
  BY <1>1 DEF IInv, TypeOK, ChunksOK, ScrubOK
<1>8. IInv'
  BY <1>1, <1>5, <1>6, <1>7, Quietly DEF IInv, Coherent
<1> QED
  BY <1>6, <1>8 DEF Aimed

LEMMA PlaysSteps ==
  ASSUME IInv, Plays
  PROVE  IInv' /\ Aimed
<1>1. /\ UNCHANGED <<chunks, strip, scrub, hist>>
      /\ player' = [player EXCEPT !.time = @ + 1]
  BY DEF Plays
<1>2. PlayerOK'
  BY <1>1 DEF IInv, TypeOK, PlayerOK
<1>3. ChunksOK' /\ ScrubOK' /\ HistOK'
  BY <1>1 DEF IInv, TypeOK, ChunksOK, ScrubOK, HistOK
<1>4. IInv'
  BY <1>1, <1>2, <1>3, Quietly DEF IInv, Coherent
<1> QED
  BY <1>1, <1>4, SameSeek

-----------------------------------------------------------------------------
(* The strip *)

LEMMA ReleasedFacts ==
  ASSUME IInv, NEW x \in Int,
         strip' = [strip EXCEPT !.gesture = NoGesture, !.shown = x],
         UNCHANGED <<chunks, scrub>>, PlayerOK', HistOK'
  PROVE  IInv'
<1>1. NoGesture \in Gesture /\ NoGesture.phase = "none"
  BY DEF Gesture, NoGesture
<1> HIDE DEF NoGesture
<1>2. StripOK' /\ strip'.gesture = NoGesture
  BY <1>1 DEF IInv, TypeOK, StripOK
<1>3. ChunksOK' /\ ScrubOK'
  BY DEF IInv, TypeOK, ChunksOK, ScrubOK
<1>4. Coherent'
  BY <1>1, <1>2 DEF IInv, Coherent, GestureOK, Moved
<1> QED
  BY <1>2, <1>3, <1>4 DEF IInv, TypeOK

LEMMA DrawIdleSteps ==
  ASSUME IInv, DrawIdle
  PROVE  IInv' /\ Aimed
<1>1. /\ UNCHANGED <<chunks, scrub, player, hist>>
      /\ strip.gesture = NoGesture
      /\ strip' = [strip EXCEPT !.shown = SmoothedPlayhead]
  BY DEF DrawIdle
<1>2. SmoothedPlayhead \in Int
  BY ShowsInt DEF IInv
<1>3. strip' = [strip EXCEPT !.gesture = NoGesture, !.shown = SmoothedPlayhead]
  <2>1. strip \in [gesture : Gesture, shown : Int, motion : {"animated", "reduced"}]
    BY DEF IInv, TypeOK, StripOK
  <2> HIDE DEF NoGesture
  <2> QED
    BY <1>1, <2>1
<1>4. PlayerOK' /\ HistOK'
  BY <1>1 DEF IInv, TypeOK, PlayerOK, HistOK
<1>5. IInv'
  BY <1>1, <1>2, <1>3, <1>4, ReleasedFacts
<1> QED
  BY <1>1, <1>5, SameSeek

LEMMA PointerDownSteps ==
  ASSUME IInv, NEW x \in -Reach .. Reach, PointerDown(x)
  PROVE  IInv' /\ Aimed
<1>1. /\ UNCHANGED <<chunks, scrub, player>>
      /\ strip' = With(Dragging(strip.shown, x))
      /\ hist' = [hist EXCEPT !.presses = @ + 1, !.owed = FALSE]
  BY DEF PointerDown
<1>2. HistOK' /\ hist'.sought = hist.sought
  <2> DEFINE o == FALSE
             p == hist.presses + 1
  <2>1. o \in BOOLEAN /\ p \in Nat
    BY CountFacts DEF IInv, TypeOK
  <2>2. hist' = [hist EXCEPT !.presses = p, !.owed = o]
    BY <1>1
  <2> HIDE DEF o, p
  <2> QED
    BY <2>1, <2>2 DEF IInv, TypeOK, HistOK
<1>3. strip.shown \in Int /\ x \in Int
  BY ConveyorAssumption DEF IInv, TypeOK, StripOK
<1>4. LET h == Dragging(strip.shown, x) IN GestureOK(h) /\ h.phase = "dragging"
  BY <1>3, DragFacts
<1>5. IInv'
  BY <1>1, <1>2, <1>4, WithFacts DEF Moved
<1> QED
  BY <1>2, <1>5, SameSeek

LEMMA PointerMoveSteps ==
  ASSUME IInv, NEW x \in -Reach .. Reach, PointerMove(x)
  PROVE  IInv' /\ Aimed
<1>1. /\ UNCHANGED <<chunks, scrub, player, hist>>
      /\ strip' = With(UpdateDrag(strip.gesture, x))
      /\ strip.gesture.phase = "dragging"
  BY DEF PointerMove
<1>2. HistOK'
  BY <1>1 DEF IInv, TypeOK, HistOK
<1>3. strip.gesture \in Gesture /\ x \in Int /\ player.anchor \in Slot /\ ChunksOK
  BY ConveyorAssumption DEF IInv, TypeOK, StripOK, PlayerOK
<1>4. LET h == UpdateDrag(strip.gesture, x) IN GestureOK(h) /\ h.phase = "dragging"
  BY <1>1, <1>3, UpdateFacts
<1>5. IInv'
  BY <1>1, <1>2, <1>4, WithFacts DEF Moved
<1> QED
  BY <1>1, <1>5, SameSeek

LEMMA PointerUpSteps ==
  ASSUME IInv, PointerUp
  PROVE  IInv' /\ Aimed
<1> DEFINE g == strip.gesture
<1>1. /\ UNCHANGED <<chunks, scrub, player>>
      /\ hist' = [hist EXCEPT !.owed = TRUE]
      /\ g.phase = "dragging"
  BY DEF PointerUp
<1>2. HistOK' /\ hist'.sought = hist.sought /\ hist'.owed = TRUE
  BY <1>1 DEF IInv, TypeOK, HistOK
<1>3. g \in Gesture /\ player.anchor \in Slot /\ ChunksOK
  BY DEF IInv, TypeOK, StripOK, PlayerOK
<1>4. PICK h : /\ h = EndTap(g) \/ h = EndDrop(g) \/ \E v \in StripSpeeds : h = EndFlick(g, v)
               /\ strip' = With(h)
  BY DEF PointerUp
<1>5. \A v \in StripSpeeds : v \in Int
  BY DEF StripSpeeds
<1> HIDE DEF g
<1>6. GestureOK(h) /\ h.phase # "none"
  <2>1. CASE h = EndTap(g) \/ h = EndDrop(g)
    <3>1. 0 \in Int
      OBVIOUS
    <3> QED
      BY <1>1, <1>3, <2>1, <3>1, ReleaseFacts
  <2>2. CASE \E v \in StripSpeeds : h = EndFlick(g, v)
    <3>1. PICK v \in Int : h = EndFlick(g, v)
      BY <1>5, <2>2
    <3> QED
      BY <1>1, <1>3, <3>1, ReleaseFacts
  <2> QED
    BY <1>4, <2>1, <2>2
<1>7. IInv'
  BY <1>1, <1>2, <1>4, <1>6, WithFacts
<1> QED
  BY <1>2, <1>7, SameSeek

LEMMA PointerCancelSteps ==
  ASSUME IInv, PointerCancel
  PROVE  IInv' /\ Aimed
<1>1. /\ UNCHANGED <<chunks, scrub, player, hist>>
      /\ strip' = [strip EXCEPT !.gesture = NoGesture]
  BY DEF PointerCancel
<1>2. strip \in [gesture : Gesture, shown : Int, motion : {"animated", "reduced"}]
  BY DEF IInv, TypeOK, StripOK
<1>3. strip' = [strip EXCEPT !.gesture = NoGesture, !.shown = strip.shown] /\ strip.shown \in Int
  <2> HIDE DEF NoGesture
  <2> QED
    BY <1>1, <1>2
<1>4. PlayerOK' /\ HistOK'
  BY <1>1 DEF IInv, TypeOK, PlayerOK, HistOK
<1>5. IInv'
  BY <1>1, <1>3, <1>4, ReleasedFacts
<1> QED
  BY <1>1, <1>5, SameSeek

\* At rest the strip shows the target, and what is sought is that within bounds.
LEMMA FrameSteps ==
  ASSUME IInv, Frame
  PROVE  IInv' /\ Aimed
<1> DEFINE g == strip.gesture
<1>1. UNCHANGED <<chunks, scrub>> /\ g.phase \in {"coasting", "settling"}
  BY DEF Frame
<1>2. g \in Gesture /\ GestureOK(g) /\ player.anchor \in Slot /\ ChunksOK
  BY DEF IInv, TypeOK, StripOK, PlayerOK, Coherent
<1>3. hist.owed
  BY <1>1 DEF IInv, Coherent, Moved
<1>4. CASE strip' = With(Advance(g)) /\ UNCHANGED <<player, hist>>
  <2> HIDE DEF g
  <2>1. GestureOK(Advance(g)) /\ Moved(Advance(g))
    BY <1>1, <1>2, AdvanceFacts DEF Moved
  <2>2. HistOK'
    BY <1>4 DEF IInv, TypeOK, HistOK
  <2>3. IInv'
    BY <1>1, <1>3, <1>4, <2>1, <2>2, WithFacts DEF Moved
  <2> QED
    BY <1>4, <2>3, SameSeek
<1>5. CASE g.phase = "settling" /\ AtRest(g) /\ CommitSeek(RestSeconds(g))
  <2> DEFINE limit == IF g.allows THEN MaxVisualSeconds ELSE MaxSeekSeconds
             rest  == RestSeconds(g)
             at    == ClampSeconds(rest, MaxVisualSeconds)
  <2>1. /\ g.base \in Int /\ g.target \in Int /\ g.base + g.target >= 0
        /\ strip.shown = g.base + g.target /\ strip.shown \in Int
    <3>1. g.base \in Int /\ g.offset \in Int /\ g.target \in Int
      BY <1>2, <1>5, Phases
    <3>2. g.base + g.target >= 0
      BY <1>2, <1>5 DEF GestureOK
    <3>3. strip.shown = g.base + g.offset
      BY <1>5 DEF IInv, Coherent, Center
    <3>4. g.offset = g.target
      BY <1>5 DEF AtRest
    <3> HIDE DEF g
    <3> QED
      BY <3>1, <3>2, <3>3, <3>4
  <2>2. /\ limit \in Nat /\ limit <= MaxVisualSeconds /\ MaxVisualSeconds \in Nat
    <3>1. /\ MaxVisualSeconds \in Nat /\ MaxSeekSeconds \in Nat
          /\ MaxSeekSeconds <= MaxVisualSeconds
      BY <1>2, Layout
    <3> QED
      BY <3>1
  <2>3. rest = Lesser(strip.shown, limit) /\ rest \in 0 .. limit
    <3>1. rest = ClampSeconds(g.base + g.target, limit)
      BY DEF RestSeconds
    <3> HIDE DEF limit, rest, g
    <3> QED
      BY <2>1, <2>2, <3>1, Clamped
  <2>4. at = rest
    <3>1. rest \in Int /\ rest >= 0 /\ rest <= MaxVisualSeconds
      <4> HIDE DEF rest, limit
      <4> QED
        BY <2>2, <2>3
    <3> HIDE DEF rest
    <3> QED
      BY <2>2, <3>1 DEF ClampSeconds, Lesser, Greater
  <2>5. at \in Int
    <3> HIDE DEF rest, limit, at
    <3> QED
      BY <2>2, <2>3, <2>4
  <2>6. /\ Seek("strip", SlotIndexAtSeconds(at), at)
        /\ strip' = [strip EXCEPT !.gesture = NoGesture]
    BY <1>5 DEF CommitSeek
  <2> HIDE DEF limit, rest, at
  <2>7. SlotIndexAtSeconds(at) \in Slot
    BY <1>2, <2>5, SlotIndex
  <2>8. /\ PlayerOK' /\ HistOK' /\ player'.override = at
        /\ hist'.sought.by = "strip"
    BY <2>5, <2>6, <2>7, SeekFacts DEF IInv, TypeOK
  <2>9. strip' = [strip EXCEPT !.gesture = NoGesture, !.shown = strip.shown]
    <3>1. strip \in [gesture : Gesture, shown : Int, motion : {"animated", "reduced"}]
      BY DEF IInv, TypeOK, StripOK
    <3> HIDE DEF NoGesture, g
    <3> QED
      BY <2>6, <3>1
  <2>10. IInv'
    BY <1>1, <2>1, <2>8, <2>9, ReleasedFacts
  <2>11. Aimed
    <3>1. player'.override = Lesser(strip.shown, IF strip.gesture.allows THEN MaxVisualSeconds
                                                  ELSE MaxSeekSeconds)
      BY <2>3, <2>4, <2>8 DEF limit
    <3> QED
      BY <1>3, <1>5, <2>8, <3>1 DEF Aimed
  <2> QED
    BY <2>10, <2>11
<1> QED
  BY <1>4, <1>5 DEF Frame

-----------------------------------------------------------------------------
(* The timeline *)

LEMMA ScrubDownSteps ==
  ASSUME IInv, NEW s \in TimelinePositions, ScrubDown(s)
  PROVE  IInv' /\ Aimed
<1> DEFINE i == SlotIndexAtSeconds(s)
<1>1. UNCHANGED <<chunks, strip>> /\ scrub.click = -1
  BY DEF ScrubDown, MayPress
<1>2. ChunksOK /\ PlayerOK /\ ScrubOK /\ HistOK /\ player.anchor \in Slot
  BY DEF IInv, TypeOK, PlayerOK
<1>3. s \in Int /\ i \in Slot /\ StartTime(i) \in Int
  BY <1>2, Layout, SlotIndex DEF TimelinePositions
<1>4. ~scrub.scrubbed
  BY <1>1 DEF IInv, Coherent
<1>5. ChunksOK'
  BY <1>1, <1>2 DEF ChunksOK
<1>6. CASE /\ player' = [player EXCEPT !.anchor = i, !.override = StartTime(i)]
           /\ hist' = [hist EXCEPT !.presses = @ + 1, !.sought = [by |-> "press", n |-> 1 - @.n]]
           /\ scrub' = [scrub EXCEPT !.click = i]
  <2> DEFINE at   == StartTime(i)
             last == [by |-> "press", n |-> 1 - hist.sought.n]
             p    == hist.presses + 1
  <2>1. /\ player' = [player EXCEPT !.anchor = i, !.override = at]
        /\ hist' = [hist EXCEPT !.presses = p, !.sought = last]
    BY <1>6
  <2>2. /\ last \in [by : {"none", "strip", "timeline", "press", "click"}, n : 0 .. 1]
        /\ p \in Nat /\ last.by = "press"
    BY <1>2, CountFacts
  <2>3. at \in Int
    BY <1>3
  <2> HIDE DEF i, at, last, p
  <2>4. PlayerOK'
    BY <1>2, <1>3, <2>1, <2>3 DEF PlayerOK
  <2>5. HistOK' /\ hist'.owed = hist.owed /\ hist'.sought = last
    BY <1>2, <2>1, <2>2 DEF HistOK
  <2>6. ScrubOK' /\ scrub'.scrubbed = scrub.scrubbed
    BY <1>2, <1>3, <1>6 DEF ScrubOK
  <2>7. IInv'
    BY <1>1, <1>4, <1>5, <2>4, <2>5, <2>6, Quietly
  <2> QED
    BY <2>2, <2>5, <2>7 DEF Aimed
<1>7. CASE /\ hist' = [hist EXCEPT !.presses = @ + 1]
           /\ scrub' = [scrub EXCEPT !.held = TRUE, !.at = s, !.suppress = i]
           /\ UNCHANGED player
  <2> DEFINE yes == TRUE
  <2>1. scrub' = [scrub EXCEPT !.held = yes, !.at = s, !.suppress = i] /\ yes \in BOOLEAN
    BY <1>7
  <2> HIDE DEF i, yes
  <2>2. ScrubOK' /\ scrub'.scrubbed = scrub.scrubbed
    BY <1>2, <1>3, <2>1 DEF ScrubOK
  <2>3. HistOK' /\ hist'.owed = hist.owed /\ hist'.sought = hist.sought
    BY <1>2, <1>7 DEF HistOK
  <2>4. PlayerOK'
    BY <1>2, <1>7 DEF PlayerOK
  <2>5. IInv'
    BY <1>1, <1>4, <1>5, <2>2, <2>3, <2>4, Quietly
  <2> QED
    BY <2>3, <2>5, SameSeek
<1> QED
  BY <1>6, <1>7 DEF ScrubDown

LEMMA ScrubMoveSteps ==
  ASSUME IInv, NEW s \in TimelinePositions, ScrubMove(s)
  PROVE  IInv' /\ Aimed
<1>1. UNCHANGED <<chunks, strip, player, hist>> /\ scrub' = [scrub EXCEPT !.at = s]
  BY DEF ScrubMove
<1>2. s \in Int
  BY Layout DEF TimelinePositions, IInv, TypeOK, PlayerOK
<1>3. /\ ScrubOK' /\ scrub'.scrubbed = scrub.scrubbed
      /\ scrub'.click = scrub.click /\ scrub'.suppress = scrub.suppress
  BY <1>1, <1>2 DEF IInv, TypeOK, ScrubOK
<1>4. ChunksOK' /\ PlayerOK' /\ HistOK'
  BY <1>1 DEF IInv, TypeOK, ChunksOK, PlayerOK, HistOK
<1>5. IInv'
  BY <1>1, <1>3, <1>4, Quietly DEF IInv, Coherent
<1> QED
  BY <1>1, <1>5, SameSeek

LEMMA ScrubUpSteps ==
  ASSUME IInv, ScrubUp
  PROVE  IInv' /\ Aimed
<1> DEFINE at == Lesser(scrub.at, TotalSeconds)
           no == FALSE
           late == scrub.suppress # -1
<1>1. /\ UNCHANGED <<chunks, strip>>
      /\ Seek("timeline", SlotIndexAtSeconds(at), at)
      /\ scrub' = [scrub EXCEPT !.held = no, !.at = 0, !.click = scrub.suppress,
                                !.scrubbed = late]
  BY DEF ScrubUp
<1>2. ChunksOK /\ PlayerOK /\ ScrubOK /\ HistOK /\ player.anchor \in Slot
  BY DEF IInv, TypeOK, PlayerOK
<1>3. at \in Int
  BY <1>2, Layout DEF Lesser, ScrubOK
<1>4. no \in BOOLEAN /\ late \in BOOLEAN /\ (late <=> scrub.suppress # -1)
  OBVIOUS
<1> HIDE DEF at, no, late
<1>5. SlotIndexAtSeconds(at) \in Slot
  BY <1>2, <1>3, SlotIndex
<1>6. /\ PlayerOK' /\ HistOK' /\ hist'.sought.by = "timeline"
      /\ hist'.owed = (hist.owed /\ "timeline" # "strip")
  BY <1>1, <1>2, <1>3, <1>5, SeekFacts
<1>7. hist'.owed = hist.owed
  BY <1>2, <1>6, CountFacts
<1>8. /\ ScrubOK' /\ scrub'.scrubbed = late
      /\ scrub'.click = scrub.suppress /\ scrub'.suppress = scrub.suppress
  <2>1. scrub.suppress \in Slot \cup {-1} /\ 0 \in Int
    BY <1>2 DEF ScrubOK
  <2>2. /\ scrub'.scrubbed = late
        /\ scrub'.click = scrub.suppress /\ scrub'.suppress = scrub.suppress
    BY <1>1, <1>2 DEF ScrubOK
  <2>3. ScrubOK'
    BY <1>1, <1>2, <1>4, <2>1 DEF ScrubOK
  <2> QED
    BY <2>2, <2>3
<1>9. ChunksOK'
  BY <1>1, <1>2 DEF ChunksOK
<1>10. IInv'
  BY <1>1, <1>4, <1>6, <1>7, <1>8, <1>9, Quietly
<1> QED
  BY <1>6, <1>10 DEF Aimed

LEMMA ScrubCancelSteps ==
  ASSUME IInv, ScrubCancel
  PROVE  IInv' /\ Aimed
<1> DEFINE no == FALSE
<1>1. /\ UNCHANGED <<chunks, strip, player, hist>>
      /\ scrub' = [scrub EXCEPT !.held = no, !.at = 0] /\ no \in BOOLEAN
  BY DEF ScrubCancel
<1> HIDE DEF no
<1>2. /\ ScrubOK' /\ scrub'.scrubbed = scrub.scrubbed
      /\ scrub'.click = scrub.click /\ scrub'.suppress = scrub.suppress
  <2>1. scrub'.scrubbed = scrub.scrubbed
        /\ scrub'.click = scrub.click /\ scrub'.suppress = scrub.suppress
    BY <1>1 DEF IInv, TypeOK, ScrubOK
  <2>2. ScrubOK'
    <3>1. 0 \in Int
      OBVIOUS
    <3> QED
      BY <1>1, <3>1 DEF IInv, TypeOK, ScrubOK
  <2> QED
    BY <2>1, <2>2
<1>3. ChunksOK' /\ PlayerOK' /\ HistOK'
  BY <1>1 DEF IInv, TypeOK, ChunksOK, PlayerOK, HistOK
<1>4. IInv'
  BY <1>1, <1>2, <1>3, Quietly DEF IInv, Coherent
<1> QED
  BY <1>1, <1>4, SameSeek

\* The click of a scrub finds its slot suppressed.
LEMMA ActivateSteps ==
  ASSUME IInv, NEW i \in Slot, scrub.click \in {-1, i}, Activate(i)
  PROVE  IInv' /\ Aimed
<1>1. UNCHANGED <<chunks, strip>>
  BY DEF Activate
<1>2. ChunksOK /\ PlayerOK /\ ScrubOK /\ HistOK /\ player.anchor \in Slot
  BY DEF IInv, TypeOK, PlayerOK
<1>3. ChunksOK'
  BY <1>1, <1>2 DEF ChunksOK
<1> DEFINE no == FALSE
           off == -1
<1>4. no \in BOOLEAN /\ off \in Slot \cup {-1} /\ ~no
  OBVIOUS
<1>5. CASE /\ scrub' = [scrub EXCEPT !.suppress = -1, !.click = -1, !.scrubbed = FALSE]
           /\ UNCHANGED <<player, hist>>
  <2>1. scrub' = [scrub EXCEPT !.suppress = off, !.click = off, !.scrubbed = no]
    BY <1>5
  <2> HIDE DEF no, off
  <2>2. ScrubOK' /\ ~scrub'.scrubbed
    BY <1>2, <1>4, <2>1 DEF ScrubOK
  <2>3. PlayerOK' /\ HistOK'
    BY <1>2, <1>5 DEF PlayerOK, HistOK
  <2>4. IInv'
    BY <1>1, <1>3, <1>5, <2>2, <2>3, Quietly
  <2> QED
    BY <1>5, <2>4, SameSeek
<1>6. CASE /\ scrub.suppress # i
           /\ scrub' = [scrub EXCEPT !.click = -1, !.scrubbed = FALSE]
           /\ IF chunks[i].status = "failed" THEN UNCHANGED <<player, hist>>
              ELSE Seek("click", i, StartTime(i))
  <2>1. scrub' = [scrub EXCEPT !.click = off, !.scrubbed = no]
    BY <1>6
  <2> HIDE DEF no, off
  <2>2. ScrubOK' /\ ~scrub'.scrubbed
    BY <1>2, <1>4, <2>1 DEF ScrubOK
  <2>3. ~scrub.scrubbed
    <3>1. scrub.suppress # i /\ i # -1
      BY <1>6, Slots
    <3> QED
      BY <3>1 DEF IInv, Coherent
  <2>4. CASE UNCHANGED <<player, hist>>
    <3>1. PlayerOK' /\ HistOK'
      BY <1>2, <2>4 DEF PlayerOK, HistOK
    <3>2. IInv'
      BY <1>1, <1>3, <2>2, <2>4, <3>1, Quietly
    <3> QED
      BY <2>4, <3>2, SameSeek
  <2>5. CASE Seek("click", i, StartTime(i))
    <3>1. StartTime(i) \in Int
      BY <1>2, Layout
    <3>2. /\ PlayerOK' /\ HistOK' /\ hist'.sought.by = "click"
          /\ hist'.owed = (hist.owed /\ "click" # "strip")
      BY <1>2, <2>5, <3>1, SeekFacts
    <3>3. hist'.owed = hist.owed
      BY <1>2, <3>2, CountFacts
    <3>4. IInv'
      BY <1>1, <1>3, <2>2, <3>2, <3>3, Quietly
    <3> QED
      BY <2>3, <3>2, <3>4 DEF Aimed
  <2> QED
    BY <1>6, <2>4, <2>5
<1> QED
  BY <1>5, <1>6 DEF Activate

\* Every step keeps the invariant, and from it a seek is aimed.
LEMMA StepsAim ==
  ASSUME IInv, Next
  PROVE  IInv' /\ Aimed
<1>1. CASE Change \/ Hook \/ Miss \/ Lands \/ Plays \/ DrawIdle
  BY <1>1, ChangeSteps, HookSteps, MissSteps, LandsSteps, PlaysSteps, DrawIdleSteps
<1>2. CASE \E x \in -Reach .. Reach : PointerDown(x) \/ PointerMove(x)
  BY <1>2, PointerDownSteps, PointerMoveSteps
<1>3. CASE PointerUp \/ PointerCancel \/ Frame
  BY <1>3, PointerUpSteps, PointerCancelSteps, FrameSteps
<1>4. CASE \E s \in TimelinePositions : ScrubDown(s) \/ ScrubMove(s)
  BY <1>4, ScrubDownSteps, ScrubMoveSteps
<1>5. CASE ScrubUp \/ ScrubCancel
  BY <1>5, ScrubUpSteps, ScrubCancelSteps
<1>6. CASE Click
  <2>1. scrub.click \in Slot
    BY <1>6 DEF Click, IInv, TypeOK, ScrubOK
  <2> QED
    BY <1>6, <2>1, ActivateSteps DEF Click
<1>7. CASE \E i \in Slot : Key(i)
  <2>1. PICK i \in Slot : Activate(i) /\ scrub.click = -1
    BY <1>7 DEF Key, MayPress
  <2> QED
    BY <2>1, ActivateSteps
<1> QED
  BY <1>1, <1>2, <1>3, <1>4, <1>5, <1>6, <1>7 DEF Next

\* The invariant holds always.
LEMMA IInvHolds == Spec => []IInv
<1>1. IInv /\ [Next]_conveyorVars => IInv'
  BY StepsAim, StillSteps
<1> QED
  BY <1>1, StartsCoherent, PTL DEF Spec

\* commitSeek and handleActivate: a press on the strip seeks once at most, after its
\* release, to where the strip rests within the bounds of that moment, whatever the
\* chunks became while it was dragged, coasted and settled; and the click that the
\* browser sends after a scrub does not seek again.
THEOREM CommitsStayAimed == Spec => CommitAimed
<1>1. IInv /\ [Next]_conveyorVars => [Aimed]_conveyorVars
  BY StepsAim
<1>2. Spec => [][Aimed]_conveyorVars
  BY <1>1, IInvHolds, PTL DEF Spec
<1> QED
  BY <1>2, PTL DEF CommitAimed, Aimed
=============================================================================
