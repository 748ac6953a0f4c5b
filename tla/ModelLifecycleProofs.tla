------------------------ MODULE ModelLifecycleProofs ------------------------
(***************************************************************************)
(* Theorems about ModelLifecycle, for any models and any number of admin   *)
(* requests: nobody waits for a call that is gone, the state shown is one  *)
(* somebody works on, and the manager and the provider agree.              *)
(***************************************************************************)
EXTENDS ModelLifecycle, SequenceTheorems, TLAPS

PCs == {"idle", "probing", "packaging", "announcing", "dead"} \cup Suspended

\* Where a caller waits for a call of this kind.
At(kind) == IF kind = "load" THEN "loading" ELSE IF kind = "unload" THEN "unloading"
            ELSE IF kind = "synth" THEN "synth" ELSE "clearing"

\* The callers of a list of calls or answers, and that no two share one.
Owners(s) == {s[i].who : i \in 1 .. Len(s)}
Once(s)   == \A i, k \in 1 .. Len(s) : s[i].who = s[k].who => i = k

\* A call is what its caller, at p and wanting w, is suspended for.
Matches(call, p, w) ==
  call.who # Nobody => /\ p[call.who] = At(call.kind)
                       /\ call.kind = "load" => call.model = w[call.who]

\* Queue q (its head running if st), abandoned calls zs, answers d and the
\* callers fit together: each suspended caller has one call or one answer.
Wired(q, st, zs, d, p, w) ==
  /\ q \in Seq(Call) /\ d \in Seq(Answer) /\ zs \subseteq Call
  /\ st \in BOOLEAN /\ (st => q # <<>>)
  /\ p \in [Callers -> PCs] /\ w \in [Callers -> Models]
  /\ \A call \in ToSet(q) \cup zs : Matches(call, p, w)
  /\ Once(q) /\ Once(d)
  /\ \A y, z \in zs : y.who = z.who /\ y.who # Nobody => y = z
  /\ Nobody \in Owners(q) => st /\ q[1].who = Nobody
  /\ Owners(q) \cap Owners(d) = {}
  /\ \A z \in zs : z.who # Nobody => z.who \notin Owners(q) \cup Owners(d)
  /\ \A c \in Callers :
       p[c] \in Suspended <=> \/ c \in Owners(q) \cup Owners(d)
                              \/ \E z \in zs : z.who = c

-----------------------------------------------------------------------------
(* Lists *)

LEMMA AppendList ==
  ASSUME NEW S, NEW s \in Seq(S), NEW x \in S
  PROVE  /\ Append(s, x) \in Seq(S) /\ ToSet(Append(s, x)) = ToSet(s) \cup {x}
         /\ Owners(Append(s, x)) = Owners(s) \cup {x.who}
         /\ Once(s) /\ x.who \notin Owners(s) => Once(Append(s, x))
         /\ Append(s, x) # <<>> /\ (s # <<>> => Append(s, x)[1] = s[1])
<1> DEFINE t == Append(s, x)
<1>1. /\ t \in Seq(S) /\ Len(t) = Len(s) + 1 /\ Len(s) \in Nat
      /\ \A i \in 1 .. Len(s) : t[i] = s[i]
      /\ t[Len(s) + 1] = x
      /\ DOMAIN t = 1 .. Len(t) /\ DOMAIN s = 1 .. Len(s)
  OBVIOUS
<1>2. t # <<>> /\ (s # <<>> => Len(s) > 0)
  BY <1>1
<1> HIDE DEF t
<1>3. ToSet(t) = ToSet(s) \cup {x}
  BY <1>1 DEF ToSet
<1>4. Owners(t) = Owners(s) \cup {x.who}
  BY <1>1 DEF Owners
<1>5. Once(s) /\ x.who \notin Owners(s) => Once(t)
  BY <1>1 DEF Owners, Once
<1> QED
  BY <1>1, <1>2, <1>3, <1>4, <1>5 DEF t

LEMMA TailList ==
  ASSUME NEW S, NEW s \in Seq(S), s # <<>>
  PROVE  /\ Head(s) = s[1] /\ s[1] \in S /\ s[1] \in ToSet(s) /\ s[1].who \in Owners(s)
         /\ Tail(s) \in Seq(S) /\ ToSet(Tail(s)) \subseteq ToSet(s)
         /\ Once(s) => Once(Tail(s)) /\ Owners(Tail(s)) = Owners(s) \ {s[1].who}
<1> DEFINE t == Tail(s)
<1>1. /\ t \in Seq(S) /\ Len(s) = Len(t) + 1 /\ Len(t) \in Nat /\ Head(s) = s[1] /\ s[1] \in S
      /\ \A i \in 1 .. Len(t) : t[i] = s[i + 1]
      /\ DOMAIN t = 1 .. Len(t) /\ DOMAIN s = 1 .. Len(s)
  OBVIOUS
<1> HIDE DEF t
<1>2. ToSet(t) \subseteq ToSet(s) /\ s[1] \in ToSet(s) /\ s[1].who \in Owners(s)
  BY <1>1 DEF ToSet, Owners
<1>3. ASSUME Once(s)
      PROVE  Once(t) /\ Owners(t) = Owners(s) \ {s[1].who}
  <2>1. Once(t)
    BY <1>1, <1>3 DEF Once
  <2>2. Owners(t) \subseteq Owners(s) \ {s[1].who}
    BY <1>1, <1>3 DEF Once, Owners
  <2>3. ASSUME NEW i \in 1 .. Len(s), s[i].who # s[1].who
        PROVE  s[i].who \in Owners(t)
    <3>1. i - 1 \in 1 .. Len(t) /\ t[i - 1] = s[i]
      BY <1>1, <2>3
    <3> QED
      BY <3>1 DEF Owners
  <2> QED
    BY <2>1, <2>2, <2>3 DEF Owners
<1> QED
  BY <1>1, <1>2, <1>3 DEF t

LEMMA JoinLists ==
  ASSUME NEW S, NEW s \in Seq(S), NEW t \in Seq(S)
  PROVE  /\ s \o t \in Seq(S) /\ ToSet(s \o t) = ToSet(s) \cup ToSet(t)
         /\ Owners(s \o t) = Owners(s) \cup Owners(t)
         /\ Once(s) /\ Once(t) /\ Owners(s) \cap Owners(t) = {} => Once(s \o t)
<1> DEFINE u == s \o t
<1>1. /\ u \in Seq(S) /\ Len(u) = Len(s) + Len(t) /\ Len(s) \in Nat /\ Len(t) \in Nat
      /\ \A i \in 1 .. Len(s) : u[i] = s[i]
      /\ \A i \in 1 .. Len(t) : u[Len(s) + i] = t[i]
      /\ DOMAIN t = 1 .. Len(t) /\ DOMAIN s = 1 .. Len(s) /\ DOMAIN u = 1 .. Len(u)
  OBVIOUS
<1> HIDE DEF u
<1>2. \A i \in 1 .. Len(u) : i \in 1 .. Len(s) \/ (i - Len(s) \in 1 .. Len(t) /\ u[i] = t[i - Len(s)])
  <2> TAKE i \in 1 .. Len(u)
  <2>1. CASE i > Len(s)
    <3>1. i - Len(s) \in 1 .. Len(t) /\ Len(s) + (i - Len(s)) = i
      BY <1>1, <2>1
    <3> QED
      BY <1>1, <3>1
  <2> QED
    BY <1>1, <2>1
<1>3. \A i \in 1 .. Len(t) : Len(s) + i \in 1 .. Len(u)
  BY <1>1
<1>4. ToSet(u) = ToSet(s) \cup ToSet(t)
  <2>1. ToSet(u) \subseteq ToSet(s) \cup ToSet(t)
    BY <1>1, <1>2 DEF ToSet
  <2>2. ToSet(s) \subseteq ToSet(u)
    BY <1>1 DEF ToSet
  <2>3. ToSet(t) \subseteq ToSet(u)
    BY <1>1, <1>3 DEF ToSet
  <2> QED
    BY <2>1, <2>2, <2>3
<1>5. Owners(u) = Owners(s) \cup Owners(t)
  <2>1. Owners(u) \subseteq Owners(s) \cup Owners(t)
    BY <1>1, <1>2, ZenonT(60) DEF Owners
  <2>2. Owners(s) \subseteq Owners(u)
    BY <1>1 DEF Owners
  <2>3. Owners(t) \subseteq Owners(u)
    BY <1>1, <1>3 DEF Owners
  <2> QED
    BY <2>1, <2>2, <2>3
<1>6. ASSUME Once(s), Once(t), Owners(s) \cap Owners(t) = {}
      PROVE  Once(u)
  <2> SUFFICES ASSUME NEW i \in 1 .. Len(u), NEW k \in 1 .. Len(u), u[i].who = u[k].who
               PROVE  i = k
    BY DEF Once
  <2>1. CASE i \in 1 .. Len(s) /\ k \in 1 .. Len(s)
    BY <1>1, <1>6, <2>1 DEF Once
  <2>2. CASE i \notin 1 .. Len(s) /\ k \notin 1 .. Len(s)
    BY <1>1, <1>2, <1>6, <2>2 DEF Once
  <2>3. ASSUME NEW a \in 1 .. Len(s), NEW b \in 1 .. Len(u), b \notin 1 .. Len(s), u[a].who = u[b].who
        PROVE  FALSE
    <3>1. u[a].who \in Owners(s) /\ u[b].who \in Owners(t)
      BY <1>1, <1>2, <2>3 DEF Owners
    <3> QED
      BY <1>6, <2>3, <3>1
  <2> QED
    BY <2>1, <2>2, <2>3
<1> QED
  BY <1>1, <1>4, <1>5, <1>6 DEF u

\* The positions that Without keeps.
LEMMA WithoutKeeps ==
  ASSUME NEW S, NEW s \in Seq(S), NEW c, c \in Owners(s)
  PROVE  \E j \in 1 .. Len(s) :
           /\ s[j].who = c
           /\ Without(s, c) \in Seq(S) /\ Len(Without(s, c)) = Len(s) - 1
           /\ \A i \in 1 .. (Len(s) - 1) :
                Without(s, c)[i] = IF i < j THEN s[i] ELSE s[i + 1]
<1>1. DOMAIN s = 1 .. Len(s) /\ Len(s) \in Nat
  OBVIOUS
<1>2. \E i \in DOMAIN s : s[i].who = c
  BY <1>1 DEF Owners
<1> DEFINE j == CHOOSE i \in DOMAIN s : s[i].who = c
           u == SubSeq(s, 1, j - 1)
           v == SubSeq(s, j + 1, Len(s))
<1>3. j \in 1 .. Len(s) /\ s[j].who = c
  BY <1>1, <1>2
<1>4. Without(s, c) = u \o v
  BY <1>2 DEF Without, RemoveAt
<1> HIDE DEF j
<1>5. /\ u \in Seq(S) /\ v \in Seq(S) /\ Len(u) = j - 1 /\ Len(v) = Len(s) - j
      /\ \A i \in 1 .. (j - 1) : u[i] = s[i]
      /\ \A i \in 1 .. (Len(s) - j) : v[i] = s[j + i]
  <2>1. /\ u \in Seq(S) /\ Len(u) = IF 1 <= j - 1 THEN (j - 1) - 1 + 1 ELSE 0
        /\ \A i \in 1 .. (j - 1) - 1 + 1 : u[i] = s[1 + i - 1]
    BY <1>1, <1>3, SubSeqProperties
  <2>2. /\ v \in Seq(S) /\ Len(v) = IF j + 1 <= Len(s) THEN Len(s) - (j + 1) + 1 ELSE 0
        /\ \A i \in 1 .. Len(s) - (j + 1) + 1 : v[i] = s[(j + 1) + i - 1]
    BY <1>1, <1>3, SubSeqProperties
  <2>3. j \in Int /\ 1 <= j /\ j <= Len(s)
    BY <1>1, <1>3
  <2> HIDE DEF u, v
  <2>4. /\ u \in Seq(S) /\ Len(u) = j - 1
        /\ \A i \in 1 .. (j - 1) : u[i] = s[i]
    BY <2>1, <2>3
  <2>5. v \in Seq(S) /\ Len(v) = Len(s) - j
    <3>1. CASE j + 1 <= Len(s)
      <4>1. Len(v) = Len(s) - (j + 1) + 1
        BY <2>2, <3>1
      <4>2. Len(s) - (j + 1) + 1 = Len(s) - j
        BY <1>1, <2>3
      <4> QED
        BY <2>2, <4>1, <4>2
    <3>2. CASE ~(j + 1 <= Len(s))
      <4>1. Len(v) = 0
        BY <2>2, <3>2
      <4>2. Len(s) \in Int
        BY <1>1
      <4>3. j \in Int /\ j <= Len(s)
        BY <2>3
      <4>4. ~(j + 1 <= Len(s))
        BY <3>2
      <4>5. j = Len(s)
        BY <4>2, <4>3, <4>4
      <4>6. Len(s) - j = 0
        BY <4>2, <4>5
      <4> QED
        BY <2>2, <4>1, <4>6
    <3> QED
      BY <3>1, <3>2
  <2>6. ASSUME NEW i \in 1 .. (Len(s) - j)
        PROVE  v[i] = s[j + i]
    <3>1. i \in 1 .. Len(s) - (j + 1) + 1 /\ (j + 1) + i - 1 = j + i
      BY <1>1, <2>3
    <3> QED
      BY <2>2, <3>1
  <2> QED
    BY <2>4, <2>5, <2>6
<1> HIDE DEF u, v
<1>6. u \o v \in Seq(S) /\ Len(u \o v) = Len(s) - 1
  <2>1. u \o v \in Seq(S) /\ Len(u \o v) = Len(u) + Len(v)
    BY <1>5, ConcatProperties
  <2> QED
    BY <1>1, <1>3, <1>5, <2>1
<1>7. ASSUME NEW i \in 1 .. (Len(s) - 1)
      PROVE  (u \o v)[i] = IF i < j THEN s[i] ELSE s[i + 1]
  <2>1. CASE i < j
    BY <1>1, <1>3, <1>5, <2>1
  <2>2. CASE ~(i < j)
    <3>1. i - Len(u) \in 1 .. (Len(s) - j) /\ j + (i - Len(u)) = i + 1
      BY <1>1, <1>3, <1>5, <2>2
    <3>2. (u \o v)[i] = v[i - Len(u)]
      BY <1>1, <1>3, <1>5, <2>2
    <3> QED
      BY <1>5, <2>2, <3>1, <3>2
  <2> QED
    BY <2>1, <2>2
<1> QED
  BY <1>3, <1>4, <1>6, <1>7

LEMMA WithoutList ==
  ASSUME NEW S, NEW s \in Seq(S), NEW c, Once(s)
  PROVE  /\ Without(s, c) \in Seq(S) /\ ToSet(Without(s, c)) \subseteq ToSet(s)
         /\ Once(Without(s, c)) /\ Owners(Without(s, c)) = Owners(s) \ {c}
<1>1. DOMAIN s = 1 .. Len(s) /\ Len(s) \in Nat
  OBVIOUS
<1>2. CASE c \notin Owners(s)
  <2>1. Without(s, c) = s
    BY <1>1, <1>2 DEF Without, Owners
  <2> QED
    BY <1>2, <2>1
<1>3. CASE c \in Owners(s)
  <2> DEFINE t == Without(s, c)
  <2>1. PICK j \in 1 .. Len(s) :
           /\ s[j].who = c /\ t \in Seq(S) /\ Len(t) = Len(s) - 1
           /\ \A i \in 1 .. (Len(s) - 1) : t[i] = IF i < j THEN s[i] ELSE s[i + 1]
    BY <1>3, WithoutKeeps
  <2>2. DOMAIN t = 1 .. (Len(s) - 1)
    BY <2>1
  <2> HIDE DEF t
  <2>3. \A i \in 1 .. (Len(s) - 1) : \E k \in 1 .. Len(s) : k # j /\ t[i] = s[k]
    BY <1>1, <2>1
  <2>4. ASSUME NEW i \in 1 .. Len(s), i # j
        PROVE  \E k \in 1 .. (Len(s) - 1) : t[k] = s[i]
    <3>1. CASE i < j
      <4>1. i \in 1 .. (Len(s) - 1) /\ t[i] = s[i]
        BY <1>1, <2>1, <3>1
      <4> QED
        BY <4>1
    <3>2. CASE ~(i < j)
      <4>1. i - 1 \in 1 .. (Len(s) - 1) /\ ~(i - 1 < j) /\ (i - 1) + 1 = i
        BY <1>1, <2>1, <2>4, <3>2
      <4>2. t[i - 1] = s[i]
        BY <2>1, <4>1
      <4> QED
        BY <4>1, <4>2
    <3> QED
      BY <3>1, <3>2
  <2>5. ToSet(t) \subseteq ToSet(s)
    BY <1>1, <2>2, <2>3 DEF ToSet
  <2>6. Owners(t) = Owners(s) \ {c}
    <3>1. \A k \in 1 .. Len(s) : k # j => s[k].who # c
      BY <2>1 DEF Once
    <3>2. Owners(t) \subseteq Owners(s) \ {c}
      BY <2>1, <2>3, <3>1 DEF Owners
    <3>3. Owners(s) \ {c} \subseteq Owners(t)
      BY <2>1, <2>4 DEF Owners
    <3> QED
      BY <3>2, <3>3
  <2>7. Once(t)
    <3> SUFFICES ASSUME NEW a \in 1 .. (Len(s) - 1), NEW b \in 1 .. (Len(s) - 1), t[a].who = t[b].who
                 PROVE  a = b
      BY <2>1 DEF Once
    <3> DEFINE m(i) == IF i < j THEN i ELSE i + 1
    <3>1. m(a) \in 1 .. Len(s) /\ m(b) \in 1 .. Len(s) /\ t[a] = s[m(a)] /\ t[b] = s[m(b)]
      BY <1>1, <2>1
    <3>2. m(a) = m(b)
      <4> HIDE DEF m
      <4> QED
        BY <3>1 DEF Once
    <3> QED
      BY <1>1, <3>2
  <2> QED
    BY <2>1, <2>5, <2>6, <2>7 DEF t
<1> QED
  BY <1>2, <1>3

-----------------------------------------------------------------------------
(* How calls, answers and callers stay wired *)

LEMMA Kinds ==
  /\ \A kind : At(kind) \in Suspended /\ At(kind) \in PCs
  /\ Suspended \subseteq PCs /\ "idle" \in PCs \ Suspended /\ "probing" \in PCs \ Suspended
  /\ "packaging" \in PCs \ Suspended /\ "announcing" \in PCs \ Suspended
  /\ "dead" \in PCs \ Suspended
  /\ At("load") = "loading" /\ At("unload") = "unloading" /\ At("synth") = "synth"
  /\ At("clear") = "clearing"
  /\ Tick \in Callers /\ Nobody \notin Callers /\ Admins \subseteq Callers
BY LifecycleAssumption DEF At, PCs, Suspended, Callers

LEMMA Parties ==
  /\ \A q \in Seq(Call) : Owners(q) \subseteq Callers \cup {Nobody}
  /\ \A d \in Seq(Answer) : Owners(d) \subseteq Callers
  /\ \A call \in Call : call.who \in Callers \cup {Nobody} /\ call.model \in Models
                        /\ call.kind \in {"load", "unload", "synth", "clear"}
<1>1. \A call \in Call : call.who \in Callers \cup {Nobody} /\ call.model \in Models
                         /\ call.kind \in {"load", "unload", "synth", "clear"}
  BY DEF Call
<1>2. ASSUME NEW q \in Seq(Call) PROVE Owners(q) \subseteq Callers \cup {Nobody}
  <2>1. \A i \in 1 .. Len(q) : q[i] \in Call
    OBVIOUS
  <2> QED
    BY <1>1, <2>1 DEF Owners
<1>3. ASSUME NEW d \in Seq(Answer) PROVE Owners(d) \subseteq Callers
  <2>1. \A i \in 1 .. Len(d) : d[i] \in Answer
    OBVIOUS
  <2>2. \A a \in Answer : a.who \in Callers
    BY DEF Answer
  <2> QED
    BY <2>1, <2>2 DEF Owners
<1> QED
  BY <1>1, <1>2, <1>3

\* A caller that is not suspended has neither a call nor an answer.
LEMMA NotAwaited ==
  ASSUME NEW q, NEW st, NEW zs, NEW d, NEW p, NEW w, Wired(q, st, zs, d, p, w),
         NEW c \in Callers, p[c] \notin Suspended
  PROVE  /\ c \notin Owners(q) \cup Owners(d)
         /\ \A z \in zs : z.who # c
         /\ \A call \in ToSet(q) \cup zs : call.who # c
<1>1. c \notin Owners(q) \cup Owners(d) /\ \A z \in zs : z.who # c
  BY DEF Wired
<1>2. \A call \in ToSet(q) : call.who \in Owners(q)
  BY DEF Wired, ToSet, Owners
<1> QED
  BY <1>1, <1>2

\* c, not suspended, goes on to another place of that sort.
LEMMA WiredGoesOn ==
  ASSUME NEW q, NEW st, NEW zs, NEW d, NEW p, NEW w, Wired(q, st, zs, d, p, w),
         NEW c \in Callers, p[c] \notin Suspended, NEW at \in PCs \ Suspended, NEW m \in Models
  PROVE  /\ Wired(q, st, zs, d, [p EXCEPT ![c] = at], w)
         /\ Wired(q, st, zs, d, [p EXCEPT ![c] = at], [w EXCEPT ![c] = m])
<1> DEFINE p2 == [p EXCEPT ![c] = at]
           w2 == [w EXCEPT ![c] = m]
<1>1. /\ p2 \in [Callers -> PCs] /\ w2 \in [Callers -> Models]
      /\ p2[c] \notin Suspended
      /\ \A x \in Callers \ {c} : p2[x] = p[x] /\ w2[x] = w[x]
  BY DEF Wired
<1> HIDE DEF p2, w2
<1>2. \A call \in ToSet(q) \cup zs : call.who \in Callers \cup {Nobody}
  BY Parties DEF Wired, ToSet
<1>3. \A call \in ToSet(q) \cup zs : Matches(call, p2, w) /\ Matches(call, p2, w2)
  <2> SUFFICES ASSUME NEW call \in ToSet(q) \cup zs
               PROVE  Matches(call, p2, w) /\ Matches(call, p2, w2)
    OBVIOUS
  <2>1. call.who # c
    BY NotAwaited
  <2>2. Matches(call, p, w)
    BY DEF Wired
  <2> QED
    BY <1>1, <1>2, <2>1, <2>2 DEF Matches
<1>4. \A x \in Callers : p2[x] \in Suspended <=> p[x] \in Suspended
  BY <1>1
<1> QED
  BY <1>1, <1>3, <1>4 DEF Wired, p2, w2

\* c hands the thread a call.
LEMMA WiredSubmits ==
  ASSUME NEW q, NEW st, NEW zs, NEW d, NEW p, NEW w, Wired(q, st, zs, d, p, w),
         NEW c \in Callers, p[c] \notin Suspended,
         NEW kind \in {"load", "unload", "synth", "clear"}, NEW m \in Models,
         NEW w2 \in [Callers -> Models],
         \A x \in Callers \ {c} : w2[x] = w[x],
         kind = "load" => w2[c] = m
  PROVE  Wired(Append(q, [who |-> c, kind |-> kind, model |-> m]), st, zs, d,
               [p EXCEPT ![c] = At(kind)], w2)
<1> DEFINE call == [who |-> c, kind |-> kind, model |-> m]
           p2 == [p EXCEPT ![c] = At(kind)]
           q2 == Append(q, call)
<1>1. /\ p2 \in [Callers -> PCs] /\ p2[c] = At(kind) /\ p2[c] \in Suspended
      /\ \A x \in Callers \ {c} : p2[x] = p[x]
  BY Kinds DEF Wired
<1>2. call \in Call /\ call.who = c /\ call.kind = kind /\ call.model = m
  BY DEF Call
<1> HIDE DEF call, p2
<1>3. c \notin Owners(q) \cup Owners(d) /\ \A z \in zs : z.who # c
  BY NotAwaited
<1>4. /\ q2 \in Seq(Call) /\ ToSet(q2) = ToSet(q) \cup {call} /\ Owners(q2) = Owners(q) \cup {c}
      /\ Once(q2) /\ (q # <<>> => q2[1] = q[1]) /\ q2 # <<>>
  BY <1>2, <1>3, AppendList DEF Wired
<1> HIDE DEF q2
<1>5. \A a \in ToSet(q2) \cup zs : Matches(a, p2, w2)
  <2> SUFFICES ASSUME NEW a \in ToSet(q2) \cup zs PROVE Matches(a, p2, w2)
    OBVIOUS
  <2>1. CASE a = call
    BY <1>1, <1>2, <2>1 DEF Matches
  <2>2. CASE a # call
    <3>1. a \in ToSet(q) \cup zs /\ a.who # c
      BY <1>4, <2>2, NotAwaited
    <3>2. a.who \in Callers \cup {Nobody} /\ Matches(a, p, w)
      BY <3>1, Parties DEF Wired, ToSet
    <3> QED
      BY <1>1, <3>1, <3>2 DEF Matches
  <2> QED
    BY <2>1, <2>2
<1>6. \A x \in Callers :
        p2[x] \in Suspended <=> \/ x \in Owners(q2) \cup Owners(d)
                                \/ \E z \in zs : z.who = x
  BY <1>1, <1>3, <1>4 DEF Wired
<1>7. Nobody \in Owners(q2) => st /\ q2[1].who = Nobody
  BY <1>4, Kinds DEF Wired
<1>8. /\ Owners(q2) \cap Owners(d) = {}
      /\ \A z \in zs : z.who # Nobody => z.who \notin Owners(q2) \cup Owners(d)
  BY <1>3, <1>4 DEF Wired
<1> QED
  BY <1>1, <1>4, <1>5, <1>6, <1>7, <1>8 DEF Wired, p2, q2, call

\* The loop resumes c with the first answer.
LEMMA WiredResumes ==
  ASSUME NEW q, NEW st, NEW zs, NEW d, NEW p, NEW w, Wired(q, st, zs, d, p, w),
         NEW c \in Callers, d # <<>>, Head(d).who = c, NEW at \in PCs \ Suspended
  PROVE  /\ Wired(q, st, zs, Tail(d), [p EXCEPT ![c] = at], w)
         /\ \A i \in 1 .. Len(Tail(d)) : Tail(d)[i].who # c
<1> DEFINE p2 == [p EXCEPT ![c] = at]
           d2 == Tail(d)
<1>1. /\ p2 \in [Callers -> PCs] /\ p2[c] \notin Suspended
      /\ \A x \in Callers \ {c} : p2[x] = p[x]
  BY DEF Wired
<1>2. /\ d2 \in Seq(Answer) /\ Once(d2) /\ Owners(d2) = Owners(d) \ {c} /\ c \in Owners(d)
  BY TailList DEF Wired
<1> HIDE DEF p2, d2
<1>3. c \notin Owners(q) /\ \A z \in zs : z.who # c
  BY <1>2, Kinds DEF Wired
<1>4. \A a \in ToSet(q) \cup zs : Matches(a, p2, w)
  <2> SUFFICES ASSUME NEW a \in ToSet(q) \cup zs PROVE Matches(a, p2, w)
    OBVIOUS
  <2>1. a.who \in Callers \cup {Nobody} /\ Matches(a, p, w)
    BY Parties DEF Wired, ToSet
  <2>2. a.who # c
    BY <1>3 DEF Wired, ToSet, Owners
  <2> QED
    BY <1>1, <2>1, <2>2 DEF Matches
<1>5. \A x \in Callers :
        p2[x] \in Suspended <=> \/ x \in Owners(q) \cup Owners(d2)
                                \/ \E z \in zs : z.who = x
  BY <1>1, <1>2, <1>3 DEF Wired
<1>6. \A i \in 1 .. Len(d2) : d2[i].who # c
  BY <1>2 DEF Owners
<1> QED
  BY <1>1, <1>2, <1>4, <1>5, <1>6 DEF Wired, p2, d2

\* A call ends, and its caller, if there is one, has an answer.
LEMMA WiredAnswers ==
  ASSUME NEW q, NEW st, NEW zs, NEW d, NEW p, NEW w, Wired(q, st, zs, d, p, w),
         q # <<>>, st, NEW result \in {"ok", "vram", "oom", "error", "cancelled"}
  PROVE  Wired(Tail(q), FALSE, zs,
               IF Head(q).who = Nobody THEN d
               ELSE Append(d, [who |-> Head(q).who, result |-> result]), p, w)
<1> DEFINE c == q[1].who
           a == [who |-> c, result |-> result]
           q2 == Tail(q)
           d2 == IF c = Nobody THEN d ELSE Append(d, a)
<1>1. /\ Head(q) = q[1] /\ q[1] \in Call /\ q[1] \in ToSet(q) /\ c \in Owners(q)
      /\ q2 \in Seq(Call) /\ ToSet(q2) \subseteq ToSet(q) /\ Once(q2)
      /\ Owners(q2) = Owners(q) \ {c}
  BY TailList DEF Wired
<1>2. c \in Callers \cup {Nobody} /\ c \notin Owners(d)
  BY <1>1, Parties DEF Wired
<1>3. c # Nobody => a \in Answer /\ a.who = c
  BY <1>2 DEF Answer
<1> HIDE DEF a
<1>4. /\ d2 \in Seq(Answer) /\ Once(d2) /\ Owners(d2) = Owners(d) \cup ({c} \ {Nobody})
  <2>1. CASE c = Nobody
    BY <2>1 DEF Wired
  <2>2. CASE c # Nobody
    <3>1. d2 = Append(d, a)
      BY <2>2
    <3> QED
      BY <1>2, <1>3, <2>2, <3>1, AppendList DEF Wired
  <2> QED
    BY <2>1, <2>2
<1> HIDE DEF d2, q2, c
<1>5. Nobody \notin Owners(q2)
  BY <1>1 DEF Wired, c
<1>6. Owners(q2) \cap Owners(d2) = {}
  BY <1>1, <1>4 DEF Wired
<1>7. \A z \in zs : z.who # Nobody => z.who \notin Owners(q2) \cup Owners(d2)
  BY <1>1, <1>4 DEF Wired
<1>8. \A x \in Callers :
        p[x] \in Suspended <=> \/ x \in Owners(q2) \cup Owners(d2)
                               \/ \E z \in zs : z.who = x
  BY <1>1, <1>4, Kinds DEF Wired
<1>9. Wired(q2, FALSE, zs, d2, p, w)
  BY <1>1, <1>4, <1>5, <1>6, <1>7, <1>8 DEF Wired
<1> QED
  BY <1>1, <1>9 DEF c, d2, a, q2

\* A call on a replaced executor ends.
LEMMA WiredZombie ==
  ASSUME NEW q, NEW st, NEW zs, NEW d, NEW p, NEW w, Wired(q, st, zs, d, p, w),
         NEW z \in zs, NEW result \in {"ok", "vram", "oom", "error", "cancelled"},
         NEW zs2, zs2 = zs \ {z} \/ (z.who = Nobody /\ zs2 = zs)
  PROVE  Wired(q, st, zs2,
               IF z.who = Nobody THEN d
               ELSE Append(d, [who |-> z.who, result |-> result]), p, w)
<1> DEFINE c == z.who
           a == [who |-> c, result |-> result]
           d2 == IF c = Nobody THEN d ELSE Append(d, a)
<1>1. c \in Callers \cup {Nobody} /\ zs2 \subseteq zs
  BY Parties DEF Wired
<1>2. c # Nobody => a \in Answer /\ a.who = c /\ c \notin Owners(q) \cup Owners(d)
  BY <1>1 DEF Answer, Wired
<1> HIDE DEF a
<1>3. /\ d2 \in Seq(Answer) /\ Once(d2) /\ Owners(d2) = Owners(d) \cup ({c} \ {Nobody})
  <2>1. CASE c = Nobody
    BY <2>1 DEF Wired
  <2>2. CASE c # Nobody
    <3>1. d2 = Append(d, a)
      BY <2>2
    <3> QED
      BY <1>2, <2>2, <3>1, AppendList DEF Wired
  <2> QED
    BY <2>1, <2>2
<1> HIDE DEF d2
<1>4. Owners(q) \cap Owners(d2) = {}
  BY <1>2, <1>3 DEF Wired
<1>5. ASSUME NEW y \in zs2, y.who # Nobody
      PROVE  y.who \notin Owners(q) \cup Owners(d2)
  <2>1. y.who # c
    BY <1>1, <1>5 DEF Wired
  <2> QED
    BY <1>1, <1>3, <1>5, <2>1 DEF Wired
<1>6. \A x \in Callers :
        p[x] \in Suspended <=> \/ x \in Owners(q) \cup Owners(d2)
                               \/ \E y \in zs2 : y.who = x
  <2> TAKE x \in Callers
  <2>1. CASE x = c
    BY <1>1, <1>3, <2>1, Kinds DEF Wired
  <2>2. CASE x # c
    <3>1. (\E y \in zs : y.who = x) <=> (\E y \in zs2 : y.who = x)
      BY <2>2
    <3> QED
      BY <1>3, <2>2, <3>1 DEF Wired
  <2> QED
    BY <2>1, <2>2
<1>7. Wired(q, st, zs2, d2, p, w)
  BY <1>1, <1>3, <1>4, <1>5, <1>6 DEF Wired
<1> QED
  BY <1>7 DEF d2, a

LEMMA CancelledList ==
  ASSUME Wired(queue, started, zombies, done, pc, want)
  PROVE  /\ Cancelled \in Seq(Answer) /\ Once(Cancelled)
         /\ Owners(Cancelled) =
              Owners(queue) \ (IF started THEN {queue[1].who} ELSE {})
         /\ \A a \in ToSet(Cancelled) : a.result = "cancelled"
<1> DEFINE queued == IF started THEN Tail(queue) ELSE queue
<1>1. /\ queued \in Seq(Call) /\ Once(queued)
      /\ Owners(queued) = Owners(queue) \ (IF started THEN {queue[1].who} ELSE {})
  <2>1. CASE started
    BY <2>1, TailList DEF Wired
  <2>2. CASE ~started
    BY <2>2 DEF Wired
  <2> QED
    BY <2>1, <2>2
<1>2. Cancelled = [i \in 1 .. Len(queued) |-> [who |-> queued[i].who, result |-> "cancelled"]]
  BY DEF Cancelled
<1>3. Owners(queued) \subseteq Callers
  <2>1. Nobody \notin Owners(queued)
    BY <1>1 DEF Wired
  <2> QED
    BY <1>1, <2>1, Parties
<1> HIDE DEF queued
<1>4. Len(queued) \in Nat
  BY <1>1
<1>5. ASSUME NEW i \in 1 .. Len(queued)
      PROVE  /\ Cancelled[i] \in Answer /\ Cancelled[i].who = queued[i].who
             /\ Cancelled[i].result = "cancelled"
  <2>1. queued[i].who \in Callers
    BY <1>3 DEF Owners
  <2> QED
    BY <1>2, <2>1 DEF Answer
<1>6. /\ Cancelled \in Seq(Answer) /\ Len(Cancelled) = Len(queued)
      /\ DOMAIN Cancelled = 1 .. Len(queued)
  BY <1>2, <1>4, <1>5, IsASeq, LenProperties
<1> QED
  BY <1>1, <1>5, <1>6, SMTT(60) DEF Once, Owners, ToSet

\* The executor is replaced.
LEMMA WiredReset ==
  ASSUME Wired(queue, started, zombies, done, pc, want)
  PROVE  Wired(<<>>, FALSE, zombies \cup Abandoned, done \o Cancelled, pc, want)
<1> DEFINE zs == zombies \cup Abandoned
           d2 == done \o Cancelled
<1>1. /\ d2 \in Seq(Answer) /\ Once(d2) /\ Owners(d2) = Owners(done) \cup Owners(Cancelled)
      /\ Owners(Cancelled) \subseteq Owners(queue)
  <2>1. Owners(done) \cap Owners(Cancelled) = {} /\ Owners(Cancelled) \subseteq Owners(queue)
    BY CancelledList DEF Wired
  <2> QED
    BY <2>1, CancelledList, JoinLists DEF Wired
<1>2. started => /\ Head(queue) = queue[1] /\ queue[1] \in Call
                 /\ queue[1] \in ToSet(queue) /\ queue[1].who \in Owners(queue)
  BY TailList DEF Wired
<1>3. /\ \A z \in Abandoned : started /\ z = queue[1]
      /\ started /\ queue[1].who # Nobody => queue[1] \in Abandoned
  BY <1>2 DEF Abandoned
<1> HIDE DEF d2
<1>4. zs \subseteq Call /\ \A call \in zs : Matches(call, pc, want)
  BY <1>2, <1>3 DEF Wired
<1>5. ASSUME NEW y \in zs, NEW z \in zs, y.who = z.who, y.who # Nobody
      PROVE  y = z
  <2>1. \A x \in Abandoned : x.who \in Owners(queue)
    BY <1>2, <1>3
  <2> QED
    BY <1>3, <1>5, <2>1 DEF Wired
<1>6. ASSUME NEW z \in zs, z.who # Nobody
      PROVE  z.who \notin Owners(d2)
  <2>1. CASE z \in zombies
    BY <1>1, <1>6, <2>1 DEF Wired
  <2>2. CASE z \in Abandoned
    <3>1. started /\ z.who = queue[1].who /\ z.who \in Owners(queue)
      BY <1>2, <1>3, <2>2
    <3>2. z.who \notin Owners(Cancelled)
      BY <3>1, CancelledList
    <3> QED
      BY <1>1, <3>1, <3>2 DEF Wired
  <2> QED
    BY <2>1, <2>2
<1>7. ASSUME NEW x \in Callers
      PROVE  pc[x] \in Suspended <=> x \in Owners(d2) \/ \E z \in zs : z.who = x
  <2>1. x \in Owners(queue) <=> \/ x \in Owners(Cancelled)
                                \/ \E z \in Abandoned : z.who = x
    BY <1>2, <1>3, CancelledList, Kinds
  <2> QED
    BY <1>1, <2>1 DEF Wired
<1>8. Owners(<<>>) = {} /\ ToSet(<<>>) = {} /\ Once(<<>>) /\ <<>> \in Seq(Call)
  BY DEF Owners, ToSet, Once
<1> HIDE DEF zs
<1>9. Wired(<<>>, FALSE, zs, d2, pc, want)
  BY <1>1, <1>4, <1>5, <1>6, <1>7, <1>8 DEF Wired
<1> QED
  BY <1>9 DEF zs, d2

\* A caller gives up: what is queued for it is withdrawn, what runs is orphaned.
LEMMA WiredTimesOut ==
  ASSUME Wired(queue, started, zombies, done, pc, want), NEW c \in Callers
  PROVE  LET orphan(call) == IF call.who = c THEN [call EXCEPT !.who = Nobody] ELSE call
             running == IF started THEN <<orphan(Head(queue))>> ELSE <<>>
             waiting == IF started THEN Tail(queue) ELSE queue
         IN  Wired(running \o Without(waiting, c), started, {orphan(z) : z \in zombies},
                   Without(done, c), [pc EXCEPT ![c] = "idle"], want)
<1> DEFINE orphan(call) == IF call.who = c THEN [call EXCEPT !.who = Nobody] ELSE call
           running == IF started THEN <<orphan(Head(queue))>> ELSE <<>>
           waiting == IF started THEN Tail(queue) ELSE queue
           q2 == running \o Without(waiting, c)
           zs == {orphan(z) : z \in zombies}
           d2 == Without(done, c)
           p2 == [pc EXCEPT ![c] = "idle"]
<1>1. /\ p2 \in [Callers -> PCs] /\ p2[c] \notin Suspended
      /\ \A x \in Callers \ {c} : p2[x] = pc[x]
  BY Kinds DEF Wired
<1>2. d2 \in Seq(Answer) /\ Once(d2) /\ Owners(d2) = Owners(done) \ {c}
  BY WithoutList DEF Wired
<1>3. ASSUME NEW call \in Call
      PROVE  /\ orphan(call) \in Call
             /\ orphan(call).who = IF call.who = c THEN Nobody ELSE call.who
             /\ call.who # c => orphan(call) = call
  BY <1>3 DEF Call
<1> HIDE DEF orphan, p2, d2
<1>4. /\ waiting \in Seq(Call) /\ ToSet(waiting) \subseteq ToSet(queue) /\ Once(waiting)
      /\ Owners(waiting) = Owners(queue) \ (IF started THEN {queue[1].who} ELSE {})
      /\ Nobody \notin Owners(waiting)
      /\ started => /\ Head(queue) = queue[1] /\ queue[1] \in Call
                    /\ queue[1] \in ToSet(queue) /\ queue[1].who \in Owners(queue)
  <2>1. CASE started
    BY <2>1, TailList DEF Wired
  <2>2. CASE ~started
    BY <2>2 DEF Wired
  <2> QED
    BY <2>1, <2>2
<1> HIDE DEF waiting
<1> DEFINE rest == Without(waiting, c)
<1>5. /\ rest \in Seq(Call) /\ ToSet(rest) \subseteq ToSet(queue) /\ Once(rest)
      /\ Owners(rest) = Owners(waiting) \ {c}
  BY <1>4, WithoutList
<1> HIDE DEF rest
<1>6. /\ running \in Seq(Call) /\ Once(running)
      /\ started => /\ ToSet(running) = {orphan(queue[1])}
                    /\ Owners(running) = {orphan(queue[1]).who}
                    /\ Len(running) = 1 /\ running[1] = orphan(queue[1])
      /\ ~started => ToSet(running) = {} /\ Owners(running) = {} /\ running = <<>>
  <2>1. CASE started
    <3> DEFINE o == orphan(queue[1])
    <3>1. o \in Call /\ running = <<o>>
      BY <1>3, <1>4, <2>1
    <3> HIDE DEF o, running
    <3>2. running \in Seq(Call) /\ Len(running) = 1 /\ running[1] = o /\ DOMAIN running = 1 .. 1
      BY <3>1
    <3>3. ToSet(running) = {o} /\ Owners(running) = {o.who} /\ Once(running)
      BY <3>2 DEF ToSet, Owners, Once
    <3> QED
      BY <2>1, <3>2, <3>3 DEF o
  <2>2. CASE ~started
    BY <2>2 DEF ToSet, Owners, Once
  <2> QED
    BY <2>1, <2>2
<1> HIDE DEF running
<1>7. /\ q2 \in Seq(Call) /\ ToSet(q2) = ToSet(running) \cup ToSet(rest)
      /\ Owners(q2) = Owners(running) \cup Owners(rest) /\ Once(q2)
      /\ started => q2 # <<>> /\ q2[1] = orphan(queue[1])
  <2>1. Owners(running) \cap Owners(rest) = {}
    <3>1. CASE started
      <4>1. orphan(queue[1]).who \in {queue[1].who, Nobody}
        BY <1>3, <1>4, <3>1
      <4> QED
        BY <1>4, <1>5, <1>6, <3>1, <4>1
    <3>2. CASE ~started
      BY <1>6, <3>2
    <3> QED
      BY <3>1, <3>2
  <2>2. /\ q2 \in Seq(Call) /\ ToSet(q2) = ToSet(running) \cup ToSet(rest)
        /\ Owners(q2) = Owners(running) \cup Owners(rest) /\ Once(q2)
    BY <1>5, <1>6, <2>1, JoinLists DEF rest
  <2>3. started => q2 # <<>> /\ q2[1] = orphan(queue[1])
    <3>1. /\ Len(q2) = Len(running) + Len(rest) /\ Len(rest) \in Nat
          /\ \A i \in 1 .. Len(running) + Len(rest) : q2[i] =
               IF i <= Len(running) THEN running[i] ELSE rest[i - Len(running)]
      BY <1>5, <1>6, ConcatProperties DEF rest
    <3> HIDE DEF q2
    <3>2. CASE started
      <4>1. Len(running) = 1 /\ running[1] = orphan(queue[1])
        BY <1>6, <3>2
      <4>2. Len(rest) \in Nat
        BY <3>1
      <4>3. 1 \in 1 .. Len(running) + Len(rest) /\ 1 <= Len(running) /\ Len(running) + Len(rest) > 0
        BY <4>1, <4>2
      <4>4. Len(q2) = Len(running) + Len(rest)
        BY <3>1
      <4>5. q2 # <<>>
        BY <4>3, <4>4
      <4>6. q2[1] = running[1]
        BY <3>1, <4>3
      <4> QED
        BY <4>1, <4>5, <4>6
    <3> QED
      BY <3>2
  <2> QED
    BY <2>2, <2>3
<1> HIDE DEF q2
<1>8. /\ Owners(q2) \subseteq Callers \cup {Nobody}
      /\ \A x \in Callers : x \in Owners(q2) <=> x \in Owners(queue) /\ x # c
      /\ Nobody \in Owners(q2) => started /\ q2[1].who = Nobody
  <2>1. CASE started
    <3>1. orphan(queue[1]).who = IF queue[1].who = c THEN Nobody ELSE queue[1].who
      BY <1>3, <1>4, <2>1
    <3>2. Owners(q2) = {orphan(queue[1]).who} \cup (Owners(waiting) \ {c})
      BY <1>5, <1>6, <1>7, <2>1
    <3> QED
      BY <1>4, <1>7, <2>1, <3>1, <3>2, Parties, Kinds
  <2>2. CASE ~started
    BY <1>4, <1>5, <1>6, <1>7, <2>2, Parties
  <2> QED
    BY <2>1, <2>2
<1>9. ASSUME NEW a \in ToSet(q2)
      PROVE  Matches(a, p2, want)
  <2>1. CASE a \in ToSet(rest)
    <3>1. a.who \in Owners(rest)
      BY <1>5, <2>1 DEF ToSet, Owners
    <3>2. a.who # c /\ a.who \in Callers \cup {Nobody} /\ Matches(a, pc, want)
      BY <1>4, <1>5, <2>1, <3>1, Parties DEF Wired
    <3> QED
      BY <1>1, <3>2 DEF Matches
  <2>2. CASE started /\ a = orphan(queue[1])
    <3>1. CASE queue[1].who = c
      BY <1>3, <1>4, <2>2, <3>1 DEF Matches
    <3>2. CASE queue[1].who # c
      <4>1. a = queue[1] /\ a.who \in Callers \cup {Nobody} /\ Matches(a, pc, want)
        BY <1>3, <1>4, <2>2, <3>2, Parties DEF Wired
      <4> QED
        BY <1>1, <3>2, <4>1 DEF Matches
    <3> QED
      BY <3>1, <3>2
  <2> QED
    BY <1>6, <1>7, <2>1, <2>2
<1>10. ASSUME NEW y \in zs
       PROVE  /\ y \in Call /\ Matches(y, p2, want)
              /\ y.who # Nobody => y.who # c /\ y \in zombies
  <2>1. PICK z \in zombies : y = orphan(z)
    OBVIOUS
  <2>2. z \in Call /\ z.who \in Callers \cup {Nobody} /\ Matches(z, pc, want)
    BY Parties DEF Wired
  <2>3. CASE z.who = c
    BY <1>3, <2>1, <2>2, <2>3 DEF Matches
  <2>4. CASE z.who # c
    <3>1. y = z
      BY <1>3, <2>1, <2>2, <2>4
    <3> QED
      BY <1>1, <2>2, <2>4, <3>1 DEF Matches
  <2> QED
    BY <2>3, <2>4
<1>11. ASSUME NEW z \in zombies, z.who # c
       PROVE  z \in zs
  <2>1. z = orphan(z)
    BY <1>3, <1>11 DEF Wired
  <2> QED
    BY <2>1
<1> HIDE DEF zs
<1>12. Owners(q2) \cap Owners(d2) = {}
  BY <1>2, <1>8, Parties DEF Wired
<1>13. \A z \in zs : z.who # Nobody => z.who \notin Owners(q2) \cup Owners(d2)
  BY <1>2, <1>8, <1>10, Parties DEF Wired
<1>14. ASSUME NEW x \in Callers
       PROVE  p2[x] \in Suspended <=> \/ x \in Owners(q2) \cup Owners(d2)
                                      \/ \E z \in zs : z.who = x
  <2>1. CASE x = c
    BY <1>1, <1>2, <1>8, <1>10, <2>1, Kinds
  <2>2. CASE x # c
    <3>1. (\E z \in zs : z.who = x) <=> (\E z \in zombies : z.who = x)
      BY <1>10, <1>11, <2>2, Kinds
    <3> QED
      BY <1>1, <1>2, <1>8, <2>2, <3>1 DEF Wired
  <2> QED
    BY <2>1, <2>2
<1>15. \A y, z \in zs : y.who = z.who /\ y.who # Nobody => y = z
  BY <1>10 DEF Wired
<1>16. Wired(q2, started, zs, d2, p2, want)
  BY <1>1, <1>2, <1>7, <1>8, <1>9, <1>10, <1>12, <1>13, <1>14, <1>15 DEF Wired
<1> QED
  BY <1>16 DEF q2, zs, d2, p2, rest, waiting, running, orphan

-----------------------------------------------------------------------------
(* What the callers are still to hear of the model in memory *)

\* The answer of a load or an unload, which changed the model in memory.
News(d, p, i) ==
  d[i].result # "cancelled" /\ p[d[i].who] \in {"loading", "unloading"}

\* What the manager will take to be loaded on hearing it.
Told(d, p, w, i) ==
  IF d[i].result = "ok" /\ p[d[i].who] = "loading" THEN w[d[i].who] ELSE NoModel

\* A load is running, here or on a replaced executor.
Loading(q, st, zs) == (st /\ q[1].kind = "load") \/ \E z \in zs : z.kind = "load"

\* Once the answers d have been heard, the manager, which now believes in ld,
\* takes the model h for loaded: the last news says so, or there is none.
Settled(ld, h, d, p, w) ==
  /\ (\A i \in 1 .. Len(d) : ~News(d, p, i)) => ld = h
  /\ \A i \in 1 .. Len(d) :
       News(d, p, i) /\ (\A k \in 1 .. Len(d) : k > i => ~News(d, p, k))
       => Told(d, p, w, i) = h

\* Callers that have no answer move on; the belief stays, or becomes the truth.
LEMMA SettledElsewhere ==
  ASSUME NEW ld, NEW h, NEW d, NEW p, NEW w, Settled(ld, h, d, p, w),
         NEW ld2 \in {ld, h}, NEW p2, NEW w2,
         \A i \in 1 .. Len(d) : p2[d[i].who] = p[d[i].who] /\ w2[d[i].who] = w[d[i].who]
  PROVE  Settled(ld2, h, d, p2, w2)
<1>1. \A i \in 1 .. Len(d) : /\ News(d, p2, i) <=> News(d, p, i)
                             /\ Told(d, p2, w2, i) = Told(d, p, w, i)
  BY DEF News, Told
<1> QED
  BY <1>1 DEF Settled

\* The first answer is heard.
LEMMA SettledHears ==
  ASSUME NEW ld, NEW h, NEW d \in Seq(Answer), NEW p, NEW w, Settled(ld, h, d, p, w),
         d # <<>>, NEW ld2, ld2 = IF News(d, p, 1) THEN Told(d, p, w, 1) ELSE ld, NEW p2,
         \A i \in 1 .. Len(Tail(d)) : p2[Tail(d)[i].who] = p[Tail(d)[i].who]
  PROVE  Settled(ld2, h, Tail(d), p2, w)
<1> DEFINE t == Tail(d)
<1>1. /\ Len(t) \in Nat /\ Len(d) = Len(t) + 1
      /\ \A i \in 1 .. Len(t) : t[i] = d[i + 1] /\ i + 1 \in 1 .. Len(d)
  OBVIOUS
<1>2. \A i \in 1 .. Len(t) : p2[t[i].who] = p[t[i].who]
  OBVIOUS
<1> HIDE DEF t
<1>3. \A i \in 1 .. Len(t) : /\ News(t, p2, i) <=> News(d, p, i + 1)
                             /\ Told(t, p2, w, i) = Told(d, p, w, i + 1)
  BY <1>1, <1>2 DEF News, Told
<1>4. \A k \in 1 .. Len(d) : k > 1 => k - 1 \in 1 .. Len(t) /\ (k - 1) + 1 = k
  BY <1>1
<1>5. 1 \in 1 .. Len(d)
  BY <1>1
<1>6. ASSUME \A i \in 1 .. Len(t) : ~News(t, p2, i)
      PROVE  ld2 = h
  <2>1. ASSUME NEW k \in 1 .. Len(d), k > 1 PROVE ~News(d, p, k)
    <3>1. k - 1 \in 1 .. Len(t) /\ (k - 1) + 1 = k
      BY <1>4, <2>1
    <3>2. ~News(t, p2, k - 1) /\ (News(t, p2, k - 1) <=> News(d, p, (k - 1) + 1))
      BY <1>3, <1>6, <3>1
    <3> QED
      BY <3>1, <3>2
  <2>2. CASE News(d, p, 1)
    BY <1>5, <2>1, <2>2 DEF Settled
  <2>3. CASE ~News(d, p, 1)
    <3>1. \A k \in 1 .. Len(d) : ~News(d, p, k)
      BY <1>1, <2>1, <2>3
    <3> QED
      BY <2>3, <3>1 DEF Settled
  <2> QED
    BY <2>2, <2>3
<1>7. ASSUME NEW i \in 1 .. Len(t), News(t, p2, i),
             \A k \in 1 .. Len(t) : k > i => ~News(t, p2, k)
      PROVE  Told(t, p2, w, i) = h
  <2>1. ASSUME NEW k \in 1 .. Len(d), k > i + 1 PROVE ~News(d, p, k)
    <3>1. k - 1 \in 1 .. Len(t) /\ k - 1 > i /\ (k - 1) + 1 = k
      BY <1>1, <2>1
    <3>2. ~News(t, p2, k - 1)
      BY <1>7, <3>1
    <3> QED
      BY <1>3, <3>1, <3>2
  <2> QED
    BY <1>1, <1>3, <1>7, <2>1 DEF Settled
<1> QED
  BY <1>6, <1>7 DEF Settled, t

\* An answer that is news, and says what is now in memory, is the last one.
LEMMA SettledTold ==
  ASSUME NEW ld, NEW h, NEW d \in Seq(Answer), NEW p, NEW w, NEW a \in Answer,
         a.result # "cancelled", p[a.who] \in {"loading", "unloading"},
         h = IF a.result = "ok" /\ p[a.who] = "loading" THEN w[a.who] ELSE NoModel
  PROVE  Settled(ld, h, Append(d, a), p, w)
<1> DEFINE t == Append(d, a)
           n == Len(d) + 1
<1>1. Len(t) = n /\ t[n] = a /\ n \in 1 .. Len(t) /\ Len(d) \in Nat
  OBVIOUS
<1> HIDE DEF t, n
<1>2. News(t, p, n) /\ Told(t, p, w, n) = h
  BY <1>1 DEF News, Told
<1>3. \A i \in 1 .. Len(t) : i # n => n > i
  BY <1>1
<1> QED
  BY <1>1, <1>2, <1>3 DEF Settled, t

\* Any other answer changes nothing.
LEMMA SettledNoise ==
  ASSUME NEW ld, NEW h, NEW d \in Seq(Answer), NEW p, NEW w, Settled(ld, h, d, p, w),
         NEW a \in Answer, p[a.who] \notin {"loading", "unloading"}
  PROVE  Settled(ld, h, Append(d, a), p, w)
<1> DEFINE t == Append(d, a)
           n == Len(d) + 1
<1>1. /\ Len(t) = n /\ t[n] = a /\ Len(d) \in Nat
      /\ \A i \in 1 .. Len(d) : t[i] = d[i] /\ i \in 1 .. Len(t)
      /\ \A i \in 1 .. Len(t) : i \in 1 .. Len(d) \/ i = n
  OBVIOUS
<1> HIDE DEF t, n
<1>2. ~News(t, p, n)
  BY <1>1 DEF News
<1>3. \A i \in 1 .. Len(d) : /\ News(t, p, i) <=> News(d, p, i)
                             /\ Told(t, p, w, i) = Told(d, p, w, i)
  BY <1>1 DEF News, Told
<1>4. ASSUME \A i \in 1 .. Len(t) : ~News(t, p, i)
      PROVE  ld = h
  BY <1>1, <1>3, <1>4 DEF Settled
<1>5. ASSUME NEW i \in 1 .. Len(t), News(t, p, i),
             \A k \in 1 .. Len(t) : k > i => ~News(t, p, k)
      PROVE  Told(t, p, w, i) = h
  <2>1. i \in 1 .. Len(d)
    BY <1>1, <1>2, <1>5
  <2>2. \A k \in 1 .. Len(d) : k > i => ~News(d, p, k)
    BY <1>1, <1>3, <1>5
  <2> QED
    BY <1>3, <1>5, <2>1, <2>2 DEF Settled
<1> QED
  BY <1>4, <1>5 DEF Settled, t

\* A reset leaves nothing in memory and the manager knows it; what is still to
\* be heard are cancellations, and loads that failed.
LEMMA SettledReset ==
  ASSUME NEW d \in Seq(Answer), NEW e \in Seq(Answer), NEW p, NEW w,
         \A a \in ToSet(e) : a.result = "cancelled",
         ~\E a \in ToSet(d) : p[a.who] = "loading" /\ a.result = "ok"
  PROVE  Settled(NoModel, NoModel, d \o e, p, w)
<1> DEFINE t == d \o e
<1>1. /\ Len(t) = Len(d) + Len(e) /\ Len(d) \in Nat /\ Len(e) \in Nat
      /\ DOMAIN t = 1 .. Len(t)
      /\ ToSet(t) = ToSet(d) \cup ToSet(e)
  BY JoinLists
<1> HIDE DEF t
<1>2. \A i \in 1 .. Len(t) : t[i] \in ToSet(d) \cup ToSet(e)
  BY <1>1 DEF ToSet
<1>3. \A i \in 1 .. Len(t) : News(t, p, i) => Told(t, p, w, i) = NoModel
  BY <1>2 DEF News, Told
<1> QED
  BY <1>3 DEF Settled, t

\* An answer that is thrown away was no news.
LEMMA SettledWithout ==
  ASSUME NEW ld, NEW h, NEW d \in Seq(Answer), NEW p, NEW w, Settled(ld, h, d, p, w), Once(d),
         NEW c, c \in Owners(d) => p[c] \notin {"loading", "unloading"},
         NEW p2, \A x \in Callers \ {c} : p2[x] = p[x]
  PROVE  Settled(ld, h, Without(d, c), p2, w)
<1>1. DOMAIN d = 1 .. Len(d) /\ Len(d) \in Nat /\ \A i \in 1 .. Len(d) : d[i].who \in Callers
  <2>1. \A a \in Answer : a.who \in Callers
    BY DEF Answer
  <2> QED
    BY <2>1
<1>2. CASE c \notin Owners(d)
  <2>1. Without(d, c) = d /\ \A i \in 1 .. Len(d) : d[i].who # c
    BY <1>1, <1>2 DEF Without, Owners
  <2>2. \A i \in 1 .. Len(d) : p2[d[i].who] = p[d[i].who] /\ w[d[i].who] = w[d[i].who]
    BY <1>1, <2>1
  <2> QED
    BY <2>1, <2>2, SettledElsewhere
<1>3. CASE c \in Owners(d)
  <2> DEFINE t == Without(d, c)
             m(i, j) == IF i < j THEN i ELSE i + 1
  <2>1. PICK j \in 1 .. Len(d) :
           /\ d[j].who = c /\ t \in Seq(Answer) /\ Len(t) = Len(d) - 1
           /\ \A i \in 1 .. (Len(d) - 1) : t[i] = IF i < j THEN d[i] ELSE d[i + 1]
    BY <1>3, WithoutKeeps
  <2> HIDE DEF t
  <2>2. \A k \in 1 .. Len(d) : k # j => d[k].who # c
    BY <2>1 DEF Once
  <2>3. \A i \in 1 .. Len(t) : m(i, j) \in 1 .. Len(d) /\ m(i, j) # j /\ t[i] = d[m(i, j)]
    BY <1>1, <2>1
  <2>4. ASSUME NEW k \in 1 .. Len(d), k # j
        PROVE  \E i \in 1 .. Len(t) : k = m(i, j)
    <3>1. CASE k < j
      <4>1. k \in 1 .. Len(t) /\ k = m(k, j)
        BY <1>1, <2>1, <3>1
      <4> QED
        BY <4>1
    <3>2. CASE ~(k < j)
      <4>1. k - 1 \in 1 .. Len(t) /\ ~(k - 1 < j) /\ k = (k - 1) + 1
        BY <1>1, <2>1, <2>4, <3>2
      <4>2. k = m(k - 1, j)
        BY <4>1
      <4> QED
        BY <4>1, <4>2
    <3> QED
      BY <3>1, <3>2
  <2>5. \A i, n \in 1 .. Len(t) : m(n, j) > m(i, j) => n > i
    BY <1>1, <2>1
  <2> HIDE DEF m
  <2>6. ASSUME NEW i \in 1 .. Len(t)
        PROVE  /\ News(t, p2, i) <=> News(d, p, m(i, j))
               /\ Told(t, p2, w, i) = Told(d, p, w, m(i, j))
    <3>1. t[i] = d[m(i, j)] /\ p2[t[i].who] = p[d[m(i, j)].who]
      BY <1>1, <2>2, <2>3
    <3> QED
      BY <3>1 DEF News, Told
  <2>7. ~News(d, p, j)
    BY <1>3, <2>1 DEF News
  <2>8. ASSUME \A i \in 1 .. Len(t) : ~News(t, p2, i)
        PROVE  ld = h
    <3>1. ASSUME NEW k \in 1 .. Len(d) PROVE ~News(d, p, k)
      <4>1. CASE k = j
        BY <2>7, <4>1
      <4>2. CASE k # j
        <5>1. PICK i \in 1 .. Len(t) : k = m(i, j)
          BY <2>4, <4>2
        <5> QED
          BY <2>6, <2>8, <5>1
      <4> QED
        BY <4>1, <4>2
    <3> QED
      BY <3>1 DEF Settled
  <2>9. ASSUME NEW i \in 1 .. Len(t), News(t, p2, i),
               \A n \in 1 .. Len(t) : n > i => ~News(t, p2, n)
        PROVE  Told(t, p2, w, i) = h
    <3>1. ASSUME NEW k \in 1 .. Len(d), k > m(i, j) PROVE ~News(d, p, k)
      <4>1. CASE k = j
        BY <2>7, <4>1
      <4>2. CASE k # j
        <5>1. PICK n \in 1 .. Len(t) : k = m(n, j)
          BY <2>4, <4>2
        <5>2. ~News(t, p2, n)
          BY <2>5, <2>9, <3>1, <5>1
        <5> QED
          BY <2>6, <5>1, <5>2
      <4> QED
        BY <4>1, <4>2
    <3> QED
      BY <2>3, <2>6, <2>9, <3>1 DEF Settled
  <2> QED
    BY <2>8, <2>9 DEF Settled, t
<1> QED
  BY <1>2, <1>3

-----------------------------------------------------------------------------
(* The invariant *)

WiredNow == Wired(queue, started, zombies, done, pc, want)

\* The remaining types.
Types ==
  /\ state \in ModelStates /\ loaded \in Models \cup {NoModel}
  /\ held \in Models \cup {NoModel} /\ used \in Models \cup {NoModel}
  /\ work \in BOOLEAN /\ size \in 0 .. MaxSize /\ missed \in BOOLEAN

\* Somebody waits at this place, and will not be told it was cancelled.
Awaited(at, p, d) ==
  \E c \in Callers :
    p[c] = at /\ \A i \in 1 .. Len(d) : d[i].who = c => d[i].result # "cancelled"

Honest(s, p, d) ==
  /\ s = "loading"  => Awaited("loading", p, d)
  /\ s = "evicting" => Awaited("unloading", p, d)
  /\ s = "busy"     => p[Tick] \in InBatch

\* A state that tells whether a model is resident agrees with its id.
Believed(s, ld) ==
  /\ s \in {"unloaded", "not_enough_vram"} => ld = NoModel
  /\ s \in {"warm_idle", "busy"} => ld # NoModel

Agreed ==
  ~missed /\ ~Loading(queue, started, zombies) => Settled(loaded, held, done, pc, want)

IInv == WiredNow /\ Types /\ Honest(state, pc, done) /\ Believed(state, loaded) /\ Agreed

LEMMA InitIInv == Init => IInv
<1> SUFFICES ASSUME Init PROVE IInv
  OBVIOUS
<1>1. Owners(<<>>) = {} /\ ToSet(<<>>) = {} /\ Once(<<>>) /\ Len(<<>>) = 0
  BY DEF Owners, ToSet, Once
<1>2. \A c \in Callers : pc[c] = "idle" /\ pc[c] \notin Suspended
  BY DEF Init, Suspended
<1>3. pc \in [Callers -> PCs] /\ want \in [Callers -> Models]
  BY LifecycleAssumption, Kinds DEF Init
<1>4. WiredNow
  <2>1. queue = <<>> /\ zombies = {} /\ done = <<>> /\ started = FALSE
    BY DEF Init
  <2>2. <<>> \in Seq(Call) /\ <<>> \in Seq(Answer)
    OBVIOUS
  <2>3. Wired(<<>>, FALSE, {}, <<>>, pc, want)
    BY <1>1, <1>2, <1>3, <2>2 DEF Wired
  <2> QED
    BY <2>1, <2>3 DEF WiredNow
<1>5. Types
  <2>1. 0 \in 0 .. MaxSize
    BY LifecycleAssumption
  <2> QED
    BY <2>1 DEF Init, Types, ModelStates
<1>6. Honest(state, pc, done) /\ Believed(state, loaded)
  BY DEF Init, Honest, Believed
<1>7. Agreed
  BY <1>1 DEF Init, Agreed, Settled
<1> QED
  BY <1>4, <1>5, <1>6, <1>7 DEF IInv

\* The actions, one by one.
LEMMA Actions ==
  ASSUME Next
  PROVE  \/ Probe \/ Blocked \/ Dispatch \/ Synthesize \/ NotLoaded
         \/ SynthSucceeds \/ SynthOutOfMemory \/ Retry \/ BatchFails \/ BatchEnds
         \/ LoadLacksVRAMTooLong \/ RecoverReset \/ AdminReset \/ SetDevice
         \/ (\E c \in Callers : /\ pc[c] \in {"idle", "probing"} /\ Unload(c)
                                /\ (c = Tick \/ "evict" \in AdminOps))
         \/ (\E a \in Admins : Warm(a))
         \/ (\E c \in Callers : LoadSucceeds(c))
         \/ (\E c \in Callers : LoadLacksVRAM(c))
         \/ (\E c \in Callers : LoadErrs(c))
         \/ (\E c \in Callers : UnloadReturns(c))
         \/ (\E c \in Callers : IsCancelled(c))
         \/ (\E c \in Callers : TimesOut(c))
         \/ ThreadStarts \/ ThreadFinishes \/ ZombieFinishes \/ WorkChanges
<1>1. RecoverUnload \/ IdleUnload => pc[Tick] \in {"idle", "probing"} /\ Unload(Tick)
  BY DEF RecoverUnload, IdleUnload
<1>2. ASSUME NEW a \in Admins, Evict(a)
      PROVE  \E c \in Callers : /\ pc[c] \in {"idle", "probing"} /\ Unload(c)
                              /\ (c = Tick \/ "evict" \in AdminOps)
  BY <1>2, Kinds DEF Evict
<1> QED
  BY <1>1, <1>2, Kinds DEF Next, TickStep, Admin, Caller

\* The results the thread can give.
LEMMA Results ==
  ASSUME NEW call \in Call, NEW o \in Outcomes(call), Types
  PROVE  /\ o[1] \in {"ok", "vram", "oom", "error"} /\ o[2] \in Models \cup {NoModel}
         /\ call.kind = "load" /\ o[1] = "ok" => o[2] = call.model
         /\ call.kind = "unload" => o[1] = "ok" /\ o[2] = NoModel
         /\ call.kind \in {"synth", "clear"} => o[2] = held
BY DEF Outcomes, Call, Types

LEMMA WiredStep ==
  ASSUME IInv, Next
  PROVE  Wired(queue', started', zombies', done', pc', want')
<1>1. Wired(queue, started, zombies, done, pc, want)
  BY DEF IInv, WiredNow
<1>2. Types
  BY DEF IInv
<1>3. want \in [Callers -> Models] /\ done \in Seq(Answer) /\ queue \in Seq(Call) /\ zombies \subseteq Call
  BY <1>1 DEF Wired
<1> USE Kinds, LifecycleAssumption
<1>4. ASSUME NEW c \in Callers, pc[c] \notin Suspended, NEW m \in Models, EnsureLoaded(c, m)
      PROVE  Wired(queue', started', zombies', done', pc', want')
  <2>1. CASE Resident(c, m) /\ queue' = queue
    BY <1>1, <1>4, <2>1, WiredGoesOn DEF EnsureLoaded, Resident
  <2>2. CASE Submit(c, "load", m, "loading")
    <3>1. want' \in [Callers -> Models] /\ want'[c] = m /\ \A x \in Callers \ {c} : want'[x] = want[x]
      BY <1>3, <1>4 DEF EnsureLoaded
    <3> QED
      BY <1>1, <1>4, <2>2, <3>1, WiredSubmits DEF EnsureLoaded, Submit
  <2> QED
    BY <1>4, <2>1, <2>2 DEF EnsureLoaded
<1>5. CASE Probe \/ Blocked \/ NotLoaded \/ BatchEnds
  <2>1. pc[Tick] \notin Suspended
    BY <1>5 DEF Probe, Blocked, NotLoaded, BatchEnds, Suspended
  <2>2. \A at \in PCs \ Suspended :
          Wired(queue, started, zombies, done, [pc EXCEPT ![Tick] = at], want)
    BY <1>1, <1>3, <2>1, WiredGoesOn
  <2>3. CASE Probe
    BY <2>2, <2>3 DEF Probe, executor, ask
  <2>4. CASE Blocked
    BY <2>2, <2>4 DEF Blocked, executor, ask
  <2>5. CASE NotLoaded
    BY <2>2, <2>5 DEF NotLoaded, executor, ask
  <2>6. CASE BatchEnds
    BY <2>2, <2>6 DEF BatchEnds, executor, ask
  <2> QED
    BY <1>5, <2>3, <2>4, <2>5, <2>6
<1>6. CASE Dispatch \/ \E a \in Admins : Warm(a)
  BY <1>4, <1>6 DEF Dispatch, Warm, Suspended
<1>7. CASE Synthesize
  BY <1>1, <1>3, <1>7, WiredSubmits DEF Synthesize, Submit, ask, Suspended
<1>8. ASSUME NEW c \in Callers, pc[c] \in {"idle", "probing"}, Unload(c)
      PROVE  Wired(queue', started', zombies', done', pc', want')
  BY <1>1, <1>3, <1>8, WiredSubmits DEF Unload, Submit, ask, Suspended
<1>9. ASSUME NEW c \in Callers, NEW at, NEW result, Resumed(c, at, result)
      PROVE  done # <<>> /\ Head(done).who = c /\ Head(done).result = result
             /\ done' = Tail(done)
             /\ \A next \in PCs \ Suspended :
                  Wired(queue, started, zombies, done', [pc EXCEPT ![c] = next], want)
  <2>1. done # <<>> /\ Head(done).who = c /\ Head(done).result = result /\ done' = Tail(done)
    BY <1>9 DEF Resumed
  <2> QED
    BY <1>1, <2>1, WiredResumes
<1>10. CASE SynthSucceeds \/ Retry \/ BatchFails
  <2>1. CASE SynthSucceeds
    BY <1>9, <2>1 DEF SynthSucceeds, executor, ask
  <2>2. CASE Retry
    BY <1>9, <2>2 DEF Retry, executor, ask
  <2>3. CASE BatchFails
    BY <1>9, <2>3 DEF BatchFails, executor, ask
  <2> QED
    BY <1>10, <2>1, <2>2, <2>3
<1>11. ASSUME NEW c \in Callers, LoadSucceeds(c) \/ LoadLacksVRAM(c) \/ LoadErrs(c)
                                 \/ UnloadReturns(c) \/ IsCancelled(c)
       PROVE  Wired(queue', started', zombies', done', pc', want')
  <2>1. CASE IsCancelled(c)
    BY <1>9, <2>1 DEF IsCancelled, executor, ask
  <2>2. CASE LoadSucceeds(c)
    BY <1>9, <2>2 DEF LoadSucceeds, Resident, executor, ask
  <2>3. CASE LoadLacksVRAM(c)
    BY <1>9, <2>3 DEF LoadLacksVRAM, executor, ask
  <2>4. CASE LoadErrs(c)
    BY <1>9, <2>4 DEF LoadErrs, executor, ask
  <2>5. CASE UnloadReturns(c)
    BY <1>9, <2>5 DEF UnloadReturns, executor, ask
  <2> QED
    BY <1>11, <2>1, <2>2, <2>3, <2>4, <2>5
<1>12. ASSUME SynthOutOfMemory \/ LoadLacksVRAMTooLong
       PROVE  Wired(queue', started', zombies', done', pc', want')
  <2> DEFINE p == [pc EXCEPT ![Tick] = "idle"]
  <2>1. Wired(queue, started, zombies, done', p, want)
    BY <1>9, <1>12 DEF SynthOutOfMemory, LoadLacksVRAMTooLong
  <2>2. /\ p[Tick] \notin Suspended
        /\ [p EXCEPT ![Tick] = "clearing"] = [pc EXCEPT ![Tick] = "clearing"]
        /\ [p EXCEPT ![Tick] = "unloading"] = [pc EXCEPT ![Tick] = "unloading"]
    BY <1>1 DEF Wired
  <2> HIDE DEF p
  <2>3. CASE SynthOutOfMemory
    BY <1>3, <2>1, <2>2, <2>3, WiredSubmits DEF SynthOutOfMemory, Submit, ask
  <2>4. CASE LoadLacksVRAMTooLong
    BY <1>3, <2>1, <2>2, <2>4, WiredSubmits DEF LoadLacksVRAMTooLong, Submit, ask
  <2> QED
    BY <1>12, <2>3, <2>4
<1>13. CASE RecoverReset \/ AdminReset
  BY <1>1, <1>13, WiredReset DEF RecoverReset, AdminReset, Reset, ask
<1>14. ASSUME NEW c \in Callers, TimesOut(c)
       PROVE  Wired(queue', started', zombies', done', pc', want')
  BY <1>1, <1>14, WiredTimesOut DEF TimesOut
<1>15. CASE ThreadStarts
  BY <1>1, <1>15 DEF ThreadStarts, ask, Wired
<1>16. CASE ThreadFinishes
  <2>1. queue # <<>> /\ started /\ Head(queue) \in Call
    BY <1>1, <1>3, <1>16 DEF ThreadFinishes, Wired
  <2>2. PICK o \in Outcomes(Head(queue)) : Finish(Head(queue), o[1], o[2])
    BY <1>16 DEF ThreadFinishes
  <2>3. o[1] \in {"ok", "vram", "oom", "error", "cancelled"}
    BY <1>2, <2>1, <2>2, Results
  <2> QED
    BY <1>1, <1>16, <2>1, <2>2, <2>3, WiredAnswers DEF ThreadFinishes, Finish, ask
<1>17. CASE ZombieFinishes
  <2>1. PICK z \in zombies :
          /\ \E o \in Outcomes(z) : Finish(z, o[1], o[2])
          /\ zombies' = zombies \ {z} \/ (z.who = Nobody /\ zombies' = zombies)
    BY <1>17 DEF ZombieFinishes
  <2>2. PICK o \in Outcomes(z) : Finish(z, o[1], o[2])
    BY <2>1
  <2>3. o[1] \in {"ok", "vram", "oom", "error", "cancelled"}
    BY <1>2, <1>3, <2>2, Results
  <2> QED
    <3>1. /\ queue' = queue /\ started' = started /\ pc' = pc /\ want' = want
          /\ done' = IF z.who = Nobody THEN done
                     ELSE Append(done, [who |-> z.who, result |-> o[1]])
      BY <1>17, <2>2 DEF ZombieFinishes, Finish, executor, ask
    <3>2. \A result \in {"ok", "vram", "oom", "error", "cancelled"} :
            \A zs2 : zs2 = zombies \ {z} \/ (z.who = Nobody /\ zs2 = zombies) =>
              Wired(queue, started, zs2,
                    IF z.who = Nobody THEN done
                    ELSE Append(done, [who |-> z.who, result |-> result]), pc, want)
      BY <1>1, WiredZombie
    <3> QED
      BY <2>1, <2>3, <3>1, <3>2
<1>18. CASE SetDevice \/ WorkChanges
  <2>1. /\ queue' = queue /\ started' = started /\ zombies' = zombies /\ done' = done
        /\ pc' = pc /\ want' = want
    BY <1>18 DEF SetDevice, WorkChanges, executor, ask
  <2> QED
    BY <1>1, <2>1
<1> QED
  BY <1>5, <1>6, <1>7, <1>8, <1>10, <1>11, <1>12, <1>13, <1>14, <1>15, <1>16, <1>17, <1>18,
     Actions

LEMMA TypesStep ==
  ASSUME IInv, Next
  PROVE  Types'
<1>1. /\ want \in [Callers -> Models] /\ done \in Seq(Answer) /\ queue \in Seq(Call)
      /\ zombies \subseteq Call /\ (started => queue # <<>>)
  BY DEF IInv, WiredNow, Wired
<1>2. /\ state \in ModelStates /\ loaded \in Models \cup {NoModel}
      /\ held \in Models \cup {NoModel} /\ used \in Models \cup {NoModel}
      /\ work \in BOOLEAN /\ size \in 0 .. MaxSize /\ missed \in BOOLEAN
  BY DEF IInv, Types
<1>3. \A s \in ModelStates : MarkIdle(s) \in ModelStates
  BY DEF MarkIdle, ModelStates
<1>4. {"unloaded", "loading", "warm_idle", "busy", "evicting", "not_enough_vram", "error"} = ModelStates
  BY DEF ModelStates
<1> USE Kinds, LifecycleAssumption
<1>5. ASSUME NEW c \in Callers, NEW m \in Models, Resident(c, m)
      PROVE  state' \in ModelStates /\ loaded' \in Models
  BY <1>2, <1>4, <1>5 DEF Resident
<1>6. ASSUME NEW c \in Callers, NEW m \in Models, EnsureLoaded(c, m), size' \in 0 .. MaxSize
      PROVE  Types'
  <2>1. state' \in ModelStates /\ loaded' \in Models \cup {NoModel}
    BY <1>2, <1>4, <1>5, <1>6 DEF EnsureLoaded
  <2>2. held' = held /\ used' = used /\ work' = work /\ missed' = missed
    BY <1>6 DEF EnsureLoaded
  <2> QED
    BY <1>2, <1>6, <2>1, <2>2 DEF Types
<1>7. CASE Dispatch
  <2>1. size' \in 0 .. MaxSize
    BY <1>7 DEF Dispatch
  <2> QED
    BY <1>6, <1>7, <2>1 DEF Dispatch
<1>8. CASE \E a \in Admins : Warm(a)
  BY <1>2, <1>6, <1>8 DEF Warm
<1>9. CASE Probe \/ Blocked \/ Synthesize \/ SynthSucceeds \/ SynthOutOfMemory
  BY <1>2, <1>9 DEF Probe, Blocked, Synthesize, SynthSucceeds, SynthOutOfMemory,
                    manager, executor, ask, Types
<1>10. CASE NotLoaded \/ BatchFails \/ BatchEnds
  BY <1>2, <1>3, <1>10 DEF NotLoaded, BatchFails, BatchEnds, executor, ask, Types
<1>11. CASE Retry
  <2>1. size \div 2 \in 0 .. MaxSize
    BY <1>2
  <2> QED
    BY <1>2, <1>11, <2>1 DEF Retry, manager, executor, Types
<1>12. CASE LoadLacksVRAMTooLong
  BY <1>2, <1>4, <1>12 DEF LoadLacksVRAMTooLong, ask, Types
<1>13. CASE RecoverReset \/ AdminReset
  <2>1. Overtaken \in BOOLEAN
    BY DEF Overtaken
  <2>2. /\ state' = "unloaded" /\ loaded' = NoModel /\ held' = NoModel /\ used' = NoModel
        /\ missed' = Overtaken /\ work' = work /\ size' = size
    BY <1>13 DEF RecoverReset, AdminReset, Reset, ask
  <2> QED
    BY <1>2, <1>4, <2>1, <2>2 DEF Types
<1>14. CASE SetDevice \/ \E c \in Callers : Unload(c)
  BY <1>2, <1>4, <1>14 DEF SetDevice, Unload, executor, ask, Types
<1>15. ASSUME NEW c \in Callers,
              LoadSucceeds(c) \/ LoadLacksVRAM(c) \/ LoadErrs(c) \/ UnloadReturns(c)
       PROVE  Types'
  <2>1. state' \in ModelStates /\ loaded' \in Models \cup {NoModel}
    BY <1>1, <1>4, <1>5, <1>15 DEF LoadSucceeds, LoadLacksVRAM, LoadErrs, UnloadReturns
  <2>2. held' = held /\ used' = used /\ work' = work /\ missed' = missed /\ size' = size
    BY <1>15 DEF LoadSucceeds, LoadLacksVRAM, LoadErrs, UnloadReturns, executor, ask
  <2> QED
    BY <1>2, <2>1, <2>2 DEF Types
<1>16. ASSUME NEW c \in Callers, IsCancelled(c)
       PROVE  Types'
  BY <1>2, <1>3, <1>16 DEF IsCancelled, executor, ask, Types
<1>17. ASSUME NEW c \in Callers, TimesOut(c)
       PROVE  Types'
  <2>1. state' \in ModelStates
    BY <1>3, <1>4, <1>17 DEF TimesOut
  <2>2. /\ missed' \in BOOLEAN
        /\ loaded' = loaded /\ held' = held /\ used' = used /\ work' = work /\ size' = size
    BY <1>2, <1>17 DEF TimesOut
  <2> QED
    BY <1>2, <2>1, <2>2 DEF Types
<1>18. CASE ThreadStarts
  BY <1>2, <1>18 DEF ThreadStarts, manager, ask, Types
<1>19. ASSUME NEW call \in Call, NEW o \in Outcomes(call), Finish(call, o[1], o[2])
       PROVE  held' \in Models \cup {NoModel} /\ missed' \in BOOLEAN
  <2>1. o[2] \in Models \cup {NoModel}
    BY Results DEF IInv
  <2> QED
    BY <1>2, <1>19, <2>1, Parties DEF Finish
<1>20. CASE ThreadFinishes
  <2>1. Head(queue) \in Call
    BY <1>1, <1>20 DEF ThreadFinishes
  <2>2. held' \in Models \cup {NoModel} /\ missed' \in BOOLEAN
    BY <1>19, <1>20, <2>1 DEF ThreadFinishes
  <2> QED
    BY <1>2, <1>20, <2>2 DEF ThreadFinishes, manager, ask, Types
<1>21. CASE ZombieFinishes
  <2>1. held' \in Models \cup {NoModel} /\ missed' \in BOOLEAN
    BY <1>1, <1>19, <1>21 DEF ZombieFinishes
  <2> QED
    BY <1>2, <1>21, <2>1 DEF ZombieFinishes, manager, executor, ask, Types
<1>22. CASE WorkChanges
  BY <1>2, <1>22 DEF WorkChanges, manager, executor, Types
<1> QED
  BY <1>7, <1>8, <1>9, <1>10, <1>11, <1>12, <1>13, <1>14, <1>15, <1>16, <1>17, <1>18, <1>20,
     <1>21, <1>22, Actions

\* The state never claims a model, or the lack of one, against the model's id.
LEMMA BelievedStep ==
  ASSUME IInv, Next
  PROVE  Believed(state', loaded')
<1>1. Believed(state, loaded) /\ want \in [Callers -> Models]
  BY DEF IInv, WiredNow, Wired
<1>2. \A s : Believed(MarkIdle(s), loaded)
  BY DEF MarkIdle, Believed
<1>3. Believed("error", loaded) /\ Believed("loading", loaded) /\ Believed("evicting", loaded)
  BY DEF Believed
<1>4. Believed("unloaded", NoModel) /\ Believed("not_enough_vram", NoModel)
      /\ Believed("error", NoModel) /\ Believed("evicting", NoModel)
  BY DEF Believed
<1>5. ASSUME NEW c \in Callers, NEW m \in Models, Resident(c, m)
      PROVE  Believed(state', loaded')
  BY <1>5, LifecycleAssumption DEF Resident, Believed
<1>6. CASE Dispatch \/ \E a \in Admins : Warm(a)
  BY <1>3, <1>5, <1>6, Kinds, LifecycleAssumption DEF Dispatch, Warm, EnsureLoaded
<1>7. CASE \/ Probe \/ Blocked \/ Synthesize \/ SynthSucceeds \/ SynthOutOfMemory \/ Retry
           \/ ThreadStarts \/ ThreadFinishes \/ ZombieFinishes \/ WorkChanges
  <2>1. state' = state /\ loaded' = loaded
    BY <1>7 DEF Probe, Blocked, Synthesize, SynthSucceeds, SynthOutOfMemory, Retry,
                ThreadStarts, ThreadFinishes, ZombieFinishes, WorkChanges, manager
  <2> QED
    BY <1>1, <2>1
<1>8. CASE NotLoaded \/ BatchFails \/ BatchEnds
  <2>1. state' = MarkIdle(state) /\ loaded' = loaded
    BY <1>8 DEF NotLoaded, BatchFails, BatchEnds
  <2> QED
    BY <1>2, <1>3, <2>1
<1>9. CASE \/ LoadLacksVRAMTooLong \/ RecoverReset \/ AdminReset
           \/ \E c \in Callers : LoadLacksVRAM(c) \/ LoadErrs(c) \/ UnloadReturns(c)
  BY <1>4, <1>9 DEF LoadLacksVRAMTooLong, RecoverReset, AdminReset, Reset, LoadLacksVRAM,
                    LoadErrs, UnloadReturns
<1>10. CASE SetDevice
  BY <1>1, <1>10 DEF SetDevice, Believed
<1>11. CASE \E c \in Callers : Unload(c)
  BY <1>3, <1>11 DEF Unload
<1>12. CASE \E c \in Callers : LoadSucceeds(c)
  BY <1>1, <1>5, <1>12 DEF LoadSucceeds
<1>13. ASSUME NEW c \in Callers, IsCancelled(c)
       PROVE  Believed(state', loaded')
  BY <1>1, <1>2, <1>3, <1>13 DEF IsCancelled
<1>14. ASSUME NEW c \in Callers, TimesOut(c)
       PROVE  Believed(state', loaded')
  BY <1>3, <1>14 DEF TimesOut, MarkIdle
<1> QED
  BY <1>6, <1>7, <1>8, <1>9, <1>10, <1>11, <1>12, <1>13, <1>14, Actions

\* Whoever is awaited still is when c moves, was at another place or was told
\* it was cancelled, and no cancellation is added.
LEMMA StillAwaited ==
  ASSUME NEW at, NEW p, NEW d \in Seq(Answer), NEW p2, NEW c,
         \A x \in Callers \ {c} : p2[x] = p[x],
         p[c] # at \/ p2[c] = at \/ \E i \in 1 .. Len(d) : d[i].who = c /\ d[i].result = "cancelled",
         Awaited(at, p, d)
  PROVE  /\ Awaited(at, p2, d)
         /\ d # <<>> => Awaited(at, p2, Tail(d))
         /\ \A a \in Answer : a.result # "cancelled" => Awaited(at, p2, Append(d, a))
<1>1. PICK x \in Callers :
        p[x] = at /\ \A i \in 1 .. Len(d) : d[i].who = x => d[i].result # "cancelled"
  BY DEF Awaited
<1>2. p2[x] = at
  BY <1>1
<1>3. ASSUME d # <<>>
      PROVE  Awaited(at, p2, Tail(d))
  <2> DEFINE t == Tail(d)
  <2>1. \A i \in 1 .. Len(t) : t[i] = d[i + 1] /\ i + 1 \in 1 .. Len(d)
    BY <1>3
  <2> HIDE DEF t
  <2>2. Awaited(at, p2, t)
    BY <1>1, <1>2, <2>1 DEF Awaited
  <2> QED
    BY <2>2 DEF t
<1>4. ASSUME NEW a \in Answer, a.result # "cancelled"
      PROVE  Awaited(at, p2, Append(d, a))
  <2> DEFINE t == Append(d, a)
  <2>1. \A i \in 1 .. Len(t) : (i \in 1 .. Len(d) /\ t[i] = d[i]) \/ t[i] = a
    OBVIOUS
  <2> HIDE DEF t
  <2>2. Awaited(at, p2, t)
    BY <1>1, <1>2, <1>4, <2>1 DEF Awaited
  <2> QED
    BY <2>2 DEF t
<1> QED
  BY <1>1, <1>2, <1>3, <1>4 DEF Awaited

LEMMA HonestStep ==
  ASSUME IInv, Next
  PROVE  Honest(state', pc', done')
<1>1. /\ Wired(queue, started, zombies, done, pc, want) /\ Types
      /\ pc \in [Callers -> PCs] /\ done \in Seq(Answer) /\ want \in [Callers -> Models]
      /\ queue \in Seq(Call) /\ zombies \subseteq Call /\ (started => queue # <<>>)
  BY DEF IInv, WiredNow, Wired
<1>2. /\ state = "loading"  => Awaited("loading", pc, done)
      /\ state = "evicting" => Awaited("unloading", pc, done)
      /\ state = "busy"     => pc[Tick] \in InBatch
  BY DEF IInv, Honest
<1>3. \A s, p, d : s \notin {"loading", "evicting", "busy"} => Honest(s, p, d)
  BY DEF Honest
<1>4. \A s : MarkIdle(s) \notin {"loading", "evicting", "busy"}
  BY DEF MarkIdle
<1>5. InBatch \cap {"idle", "probing", "dead", "loading", "unloading"} = {}
      /\ {"announcing", "synth", "clearing", "packaging"} = InBatch
  BY DEF InBatch
<1> USE Kinds
\* The tick moves between places where it awaits neither a load nor an unload.
<1>6. ASSUME state' = state, pc[Tick] \notin {"loading", "unloading"},
             \A x \in Callers \ {Tick} : pc'[x] = pc[x],
             pc[Tick] \in InBatch => pc'[Tick] \in InBatch,
             done' = done \/ (done # <<>> /\ done' = Tail(done))
      PROVE  Honest(state', pc', done')
  <2>1. ASSUME NEW at \in {"loading", "unloading"}, Awaited(at, pc, done)
        PROVE  Awaited(at, pc', done')
    <3>1. /\ Awaited(at, pc', done)
          /\ done # <<>> => Awaited(at, pc', Tail(done))
      BY <1>1, <1>6, <2>1, StillAwaited
    <3> QED
      BY <1>6, <3>1
  <2> QED
    BY <1>2, <1>6, <2>1 DEF Honest
<1>7. CASE Probe \/ Blocked \/ Synthesize
  <2>1. /\ state' = state /\ done' = done
        /\ pc[Tick] \in {"idle", "probing", "announcing"}
        /\ \A x \in Callers \ {Tick} : pc'[x] = pc[x]
        /\ pc[Tick] = "announcing" => pc'[Tick] = "synth"
    BY <1>1, <1>7 DEF Probe, Blocked, Synthesize, Submit, manager
  <2>2. pc[Tick] \notin {"loading", "unloading"}
    BY <2>1
  <2>3. pc[Tick] \in InBatch => pc'[Tick] \in InBatch
    BY <1>5, <2>1
  <2> QED
    BY <1>6, <2>1, <2>2, <2>3
<1>8. CASE SynthSucceeds \/ Retry
  BY <1>1, <1>5, <1>6, <1>8 DEF SynthSucceeds, Retry, Resumed, manager
<1>9. CASE SynthOutOfMemory
  BY <1>1, <1>5, <1>6, <1>9 DEF SynthOutOfMemory, Resumed, Submit, manager
<1>10. CASE NotLoaded \/ BatchFails \/ BatchEnds
  BY <1>3, <1>4, <1>10 DEF NotLoaded, BatchFails, BatchEnds
<1>11. CASE \/ RecoverReset \/ AdminReset \/ SetDevice
            \/ \E c \in Callers : LoadLacksVRAM(c) \/ LoadErrs(c) \/ UnloadReturns(c)
  BY <1>3, <1>11 DEF RecoverReset, AdminReset, Reset, SetDevice, LoadLacksVRAM, LoadErrs,
                     UnloadReturns
<1>12. ASSUME NEW c \in Callers, NEW m \in Models, Resident(c, m), c # Tick
       PROVE  Honest(state', pc', done')
  <2>1. state' = "warm_idle" \/ (state' = "busy" /\ state = "busy" /\ pc'[Tick] = pc[Tick])
    BY <1>1, <1>12 DEF Resident
  <2> QED
    BY <1>2, <1>3, <2>1 DEF Honest
<1>13. ASSUME NEW m \in Models, Resident(Tick, m)
       PROVE  Honest(state', pc', done')
  BY <1>1, <1>5, <1>13 DEF Resident, Honest
\* A call of a caller that was not waiting is not among the answers.
<1>14. ASSUME NEW c \in Callers, NEW at \in {"loading", "unloading"}, pc[c] \notin Suspended,
              pc' = [pc EXCEPT ![c] = at], done' = done
       PROVE  Awaited(at, pc', done')
  <2>1. c \notin Owners(done) /\ pc'[c] = at
    BY <1>1, <1>14, NotAwaited
  <2> QED
    BY <1>14, <2>1 DEF Awaited, Owners
<1>15. ASSUME NEW c \in Callers, NEW m \in Models, pc[c] \notin Suspended, EnsureLoaded(c, m)
       PROVE  Honest(state', pc', done')
  <2>1. CASE Resident(c, m)
    BY <1>12, <1>13, <2>1
  <2>2. CASE state' = "loading" /\ Submit(c, "load", m, "loading")
    <3>1. Awaited("loading", pc', done')
      BY <1>14, <1>15, <2>2 DEF EnsureLoaded, Submit
    <3> QED
      BY <2>2, <3>1 DEF Honest
  <2> QED
    BY <1>15, <2>1, <2>2 DEF EnsureLoaded
<1>16. CASE Dispatch \/ \E a \in Admins : Warm(a)
  BY <1>15, <1>16, LifecycleAssumption DEF Dispatch, Warm, Suspended
<1>17. ASSUME NEW c \in Callers, pc[c] \in {"idle", "probing"}, Unload(c)
       PROVE  Honest(state', pc', done')
  <2>1. Awaited("unloading", pc', done')
    BY <1>14, <1>17 DEF Unload, Submit, Suspended
  <2> QED
    BY <1>17, <2>1 DEF Unload, Honest
<1>18. CASE LoadLacksVRAMTooLong
  <2>1. /\ state' = "evicting" /\ pc' = [pc EXCEPT ![Tick] = "unloading"]
        /\ done # <<>> /\ Head(done).who = Tick /\ done' = Tail(done)
    BY <1>18 DEF LoadLacksVRAMTooLong, Resumed, Submit
  <2>2. \A i \in 1 .. Len(Tail(done)) : Tail(done)[i].who # Tick
    BY <1>1, <2>1, WiredResumes
  <2>3. Awaited("unloading", pc', done')
    BY <1>1, <2>1, <2>2 DEF Awaited
  <2> QED
    BY <2>1, <2>3 DEF Honest
<1>19. ASSUME NEW c \in Callers, LoadSucceeds(c)
       PROVE  Honest(state', pc', done')
  BY <1>1, <1>12, <1>13, <1>19 DEF LoadSucceeds
<1>20. ASSUME NEW c \in Callers, IsCancelled(c)
       PROVE  Honest(state', pc', done')
  <2>1. /\ done # <<>> /\ done' = Tail(done) /\ pc[c] \in Suspended
        /\ Head(done).who = c /\ Head(done).result = "cancelled"
        /\ \A x \in Callers \ {c} : pc'[x] = pc[x]
    BY <1>1, <1>20 DEF IsCancelled, Resumed
  <2>2. \E i \in 1 .. Len(done) : done[i].who = c /\ done[i].result = "cancelled"
    <3>1. 1 \in 1 .. Len(done) /\ Head(done) = done[1]
      BY <1>1, <2>1
    <3> QED
      BY <2>1, <3>1
  <2>3. ASSUME NEW at, Awaited(at, pc, done)
        PROVE  Awaited(at, pc', done')
    <3>1. Awaited(at, pc', Tail(done))
      BY <1>1, <2>1, <2>2, <2>3, StillAwaited
    <3> QED
      BY <2>1, <3>1
  <2>4. CASE pc[c] \in {"synth", "clearing"}
    BY <1>3, <1>4, <1>20, <2>4 DEF IsCancelled
  <2>5. CASE pc[c] \notin {"synth", "clearing"}
    <3>1. state = "loading" => Awaited("loading", pc', done')
      BY <1>2, <2>3
    <3>2. state = "evicting" => Awaited("unloading", pc', done')
      BY <1>2, <2>3
    <3>3. state = "busy" => pc'[Tick] \in InBatch
      BY <1>2, <1>5, <2>1, <2>5 DEF Suspended
    <3> QED
      BY <1>20, <2>5, <3>1, <3>2, <3>3 DEF IsCancelled, Honest
  <2> QED
    BY <2>4, <2>5
<1>21. ASSUME NEW c \in Callers, TimesOut(c)
       PROVE  Honest(state', pc', done')
  BY <1>3, <1>4, <1>21 DEF TimesOut
<1>22. CASE ThreadStarts \/ WorkChanges
  BY <1>2, <1>22 DEF ThreadStarts, WorkChanges, manager, Honest
<1>23. ASSUME NEW call \in Call, NEW o \in Outcomes(call), Finish(call, o[1], o[2]),
              state' = state, pc' = pc
       PROVE  Honest(state', pc', done')
  <2> DEFINE a == [who |-> call.who, result |-> o[1]]
  <2>1. done' = done \/ (a \in Answer /\ a.result # "cancelled" /\ done' = Append(done, a))
    <3>1. o[1] \in {"ok", "vram", "oom", "error"}
      BY <1>1, Results
    <3>2. CASE call.who = Nobody
      BY <1>23, <3>2 DEF Finish
    <3>3. CASE call.who # Nobody
      BY <1>23, <3>1, <3>3, Parties DEF Finish, Answer
    <3> QED
      BY <3>2, <3>3
  <2> HIDE DEF a
  <2>2. ASSUME NEW at, Awaited(at, pc, done)
        PROVE  Awaited(at, pc', done')
    <3>1. CASE done' = done
      BY <1>23, <2>2, <3>1
    <3>2. CASE a \in Answer /\ a.result # "cancelled" /\ done' = Append(done, a)
      <4>1. Awaited(at, pc, Append(done, a))
        BY <1>1, <2>2, <3>2, StillAwaited
      <4> QED
        BY <1>23, <3>2, <4>1
    <3> QED
      BY <2>1, <3>1, <3>2
  <2> QED
    BY <1>2, <1>23, <2>2 DEF Honest
<1>24. CASE ThreadFinishes
  <2>1. Head(queue) \in Call
    BY <1>1, <1>24 DEF ThreadFinishes
  <2> QED
    BY <1>23, <1>24, <2>1 DEF ThreadFinishes, manager
<1>25. CASE ZombieFinishes
  BY <1>1, <1>23, <1>25 DEF ZombieFinishes, manager
<1> QED
  BY <1>7, <1>8, <1>9, <1>10, <1>11, <1>16, <1>17, <1>18, <1>19, <1>20, <1>21, <1>22, <1>24,
     <1>25, Actions

LEMMA AgreedStep ==
  ASSUME IInv, Next, ~missed', ~Loading(queue', started', zombies')
  PROVE  Settled(loaded', held', done', pc', want')
<1>1. /\ Wired(queue, started, zombies, done, pc, want) /\ Types
      /\ pc \in [Callers -> PCs] /\ done \in Seq(Answer) /\ want \in [Callers -> Models]
      /\ queue \in Seq(Call) /\ zombies \subseteq Call /\ (started => queue # <<>>)
      /\ Once(done)
  BY DEF IInv, WiredNow, Wired
<1>2. ~missed /\ ~Loading(queue, started, zombies) => Settled(loaded, held, done, pc, want)
  BY DEF IInv, Agreed
<1>3. \A i \in 1 .. Len(done) : done[i] \in Answer /\ done[i].who \in Owners(done) \cap Callers
  <2>1. \A i \in 1 .. Len(done) : done[i] \in Answer
    BY <1>1
  <2> QED
    BY <2>1 DEF Owners, Answer
<1> USE Kinds
\* A caller without an answer moves on.
<1>4. ASSUME NEW c \in Callers, pc[c] \notin Suspended,
             \A x \in Callers \ {c} : pc'[x] = pc[x] /\ want'[x] = want[x],
             done' = done, held' = held, missed' = missed, started' = started,
             zombies' = zombies, started => queue'[1] = queue[1], loaded' \in {loaded, held}
      PROVE  Settled(loaded', held', done', pc', want')
  <2>1. Settled(loaded, held, done, pc, want)
    BY <1>2, <1>4 DEF Loading
  <2>2. c \notin Owners(done)
    BY <1>1, <1>4, NotAwaited
  <2>3. \A i \in 1 .. Len(done) : /\ pc'[done[i].who] = pc[done[i].who]
                                  /\ want'[done[i].who] = want[done[i].who]
    BY <1>3, <1>4, <2>2
  <2>4. Settled(loaded', held, done, pc', want')
    BY <1>4, <2>1, <2>3, SettledElsewhere
  <2> QED
    BY <1>4, <2>4
\* The first answer is heard by its caller.
<1>5. ASSUME NEW c \in Callers, done # <<>>, Head(done).who = c, done' = Tail(done),
             \A x \in Callers \ {c} : pc'[x] = pc[x], want' = want,
             held' = held, missed' = missed, started' = started,
             zombies' = zombies, started => queue'[1] = queue[1],
             loaded' = IF News(done, pc, 1) THEN Told(done, pc, want, 1) ELSE loaded
      PROVE  Settled(loaded', held', done', pc', want')
  <2>1. Settled(loaded, held, done, pc, want)
    BY <1>2, <1>5 DEF Loading
  <2>2. /\ Tail(done) \in Seq(Answer)
        /\ \A i \in 1 .. Len(Tail(done)) : Tail(done)[i].who # c
    <3>1. Tail(done) \in Seq(Answer) /\ Owners(Tail(done)) = Owners(done) \ {done[1].who}
          /\ Head(done) = done[1]
      BY <1>1, <1>5, TailList
    <3> QED
      BY <1>5, <3>1 DEF Owners
  <2>3. \A i \in 1 .. Len(Tail(done)) : pc'[Tail(done)[i].who] = pc[Tail(done)[i].who]
    <3>1. \A i \in 1 .. Len(Tail(done)) : Tail(done)[i] \in Answer
      BY <2>2
    <3> QED
      BY <1>5, <2>2, <3>1 DEF Answer
  <2>4. \A ld2, p2 :
          /\ ld2 = IF News(done, pc, 1) THEN Told(done, pc, want, 1) ELSE loaded
          /\ \A i \in 1 .. Len(Tail(done)) : p2[Tail(done)[i].who] = pc[Tail(done)[i].who]
          => Settled(ld2, held, Tail(done), p2, want)
    BY <1>1, <1>5, <2>1, SettledHears, ZenonT(60)
  <2>5. Settled(loaded', held, Tail(done), pc', want)
    BY <1>5, <2>3, <2>4
  <2> QED
    BY <1>5, <2>5
\* Nothing that matters to the belief changes.
<1>6. ASSUME loaded' = loaded, held' = held, missed' = missed, done' = done, pc' = pc,
             want' = want, ~Loading(queue, started, zombies)
      PROVE  Settled(loaded', held', done', pc', want')
  BY <1>2, <1>6
<1>7. CASE Probe \/ Blocked \/ NotLoaded \/ BatchEnds
  <2>1. /\ pc[Tick] \notin Suspended
        /\ \A x \in Callers \ {Tick} : pc'[x] = pc[x] /\ want'[x] = want[x]
        /\ done' = done /\ held' = held /\ missed' = missed /\ started' = started
        /\ zombies' = zombies /\ queue' = queue /\ loaded' = loaded
    BY <1>1, <1>7 DEF Probe, Blocked, NotLoaded, BatchEnds, manager, executor, ask, Suspended
  <2> QED
    BY <1>4, <2>1
<1>8. ASSUME NEW c \in Callers, NEW kind, NEW m, NEW at, Submit(c, kind, m, at)
      PROVE  /\ \A x \in Callers \ {c} : pc'[x] = pc[x]
             /\ started => queue'[1] = queue[1]
  BY <1>1, <1>8 DEF Submit
<1>9. CASE Synthesize
  <2>1. /\ pc[Tick] \notin Suspended
        /\ \A x \in Callers \ {Tick} : pc'[x] = pc[x] /\ want'[x] = want[x]
        /\ started => queue'[1] = queue[1]
    BY <1>8, <1>9 DEF Synthesize, ask, Suspended
  <2> QED
    BY <1>4, <1>9, <2>1 DEF Synthesize, manager
<1>10. ASSUME NEW c \in Callers, pc[c] \in {"idle", "probing"}, Unload(c)
       PROVE  Settled(loaded', held', done', pc', want')
  <2>1. /\ pc[c] \notin Suspended
        /\ \A x \in Callers \ {c} : pc'[x] = pc[x] /\ want'[x] = want[x]
        /\ started => queue'[1] = queue[1]
    BY <1>8, <1>10 DEF Unload, ask, Suspended
  <2> QED
    BY <1>4, <1>10, <2>1 DEF Unload
<1>11. ASSUME NEW c \in Callers, NEW m \in Models, pc[c] \notin Suspended, EnsureLoaded(c, m)
       PROVE  Settled(loaded', held', done', pc', want')
  <2>1. \A x \in Callers \ {c} : pc'[x] = pc[x] /\ want'[x] = want[x]
    BY <1>1, <1>8, <1>11 DEF EnsureLoaded, Resident
  <2>2. started => queue'[1] = queue[1]
    BY <1>8, <1>11 DEF EnsureLoaded
  <2>3. loaded' \in {loaded, held}
    BY <1>11 DEF EnsureLoaded, Resident
  <2> QED
    BY <1>4, <1>11, <2>1, <2>2, <2>3 DEF EnsureLoaded
<1>12. CASE Dispatch \/ \E a \in Admins : Warm(a)
  BY <1>11, <1>12, LifecycleAssumption DEF Dispatch, Warm, Suspended
<1>13. ASSUME NEW c \in Callers, NEW at, NEW result, Resumed(c, at, result)
       PROVE  /\ done # <<>> /\ Head(done).who = c /\ done' = Tail(done)
              /\ News(done, pc, 1) <=> result # "cancelled" /\ at \in {"loading", "unloading"}
              /\ Told(done, pc, want, 1) =
                   IF result = "ok" /\ at = "loading" THEN want[c] ELSE NoModel
  <2>1. /\ done # <<>> /\ Head(done) = done[1] /\ done[1].who = c /\ done[1].result = result
        /\ pc[c] = at /\ done' = Tail(done)
    BY <1>1, <1>13 DEF Resumed
  <2> QED
    BY <2>1 DEF News, Told
<1>14. CASE SynthSucceeds \/ Retry \/ BatchFails
  <2>1. PICK at \in {"synth", "clearing"}, result \in {"ok", "error"} : Resumed(Tick, at, result)
    BY <1>14 DEF SynthSucceeds, Retry, BatchFails
  <2>2. /\ \A x \in Callers \ {Tick} : pc'[x] = pc[x]
        /\ want' = want /\ held' = held /\ missed' = missed /\ started' = started
        /\ zombies' = zombies /\ queue' = queue /\ loaded' = loaded
    BY <1>1, <1>14 DEF SynthSucceeds, Retry, BatchFails, manager, executor, ask
  <2> QED
    BY <1>5, <1>13, <2>1, <2>2
<1>15. CASE SynthOutOfMemory
  <2>1. /\ \A x \in Callers \ {Tick} : pc'[x] = pc[x]
        /\ started => queue'[1] = queue[1]
    BY <1>8, <1>15 DEF SynthOutOfMemory
  <2>2. /\ want' = want /\ held' = held /\ missed' = missed /\ started' = started
        /\ zombies' = zombies /\ loaded' = loaded /\ Resumed(Tick, "synth", "oom")
    BY <1>15 DEF SynthOutOfMemory, manager, ask
  <2> QED
    BY <1>5, <1>13, <2>1, <2>2
<1>16. CASE LoadLacksVRAMTooLong
  <2>1. /\ \A x \in Callers \ {Tick} : pc'[x] = pc[x]
        /\ started => queue'[1] = queue[1]
    BY <1>8, <1>16 DEF LoadLacksVRAMTooLong
  <2>2. /\ want' = want /\ held' = held /\ missed' = missed /\ started' = started
        /\ zombies' = zombies /\ loaded' = NoModel /\ Resumed(Tick, "loading", "vram")
    BY <1>16 DEF LoadLacksVRAMTooLong, ask
  <2> QED
    BY <1>5, <1>13, <2>1, <2>2
<1>17. ASSUME NEW c \in Callers, LoadSucceeds(c) \/ LoadLacksVRAM(c) \/ LoadErrs(c)
                                 \/ UnloadReturns(c)
       PROVE  Settled(loaded', held', done', pc', want')
  <2>1. /\ \A x \in Callers \ {c} : pc'[x] = pc[x]
        /\ want' = want /\ held' = held /\ missed' = missed /\ started' = started
        /\ zombies' = zombies /\ queue' = queue
    BY <1>1, <1>17 DEF LoadSucceeds, Resident, LoadLacksVRAM, LoadErrs, UnloadReturns,
                       executor, ask
  <2>2. \/ Resumed(c, "loading", "ok") /\ loaded' = want[c]
        \/ Resumed(c, "loading", "vram") /\ loaded' = NoModel
        \/ Resumed(c, "loading", "error") /\ loaded' = NoModel
        \/ Resumed(c, "unloading", "ok") /\ loaded' = NoModel
    BY <1>17 DEF LoadSucceeds, Resident, LoadLacksVRAM, LoadErrs, UnloadReturns
  <2> QED
    BY <1>5, <1>13, <2>1, <2>2
<1>18. ASSUME NEW c \in Callers, IsCancelled(c)
       PROVE  Settled(loaded', held', done', pc', want')
  <2>1. /\ \A x \in Callers \ {c} : pc'[x] = pc[x]
        /\ want' = want /\ held' = held /\ missed' = missed /\ started' = started
        /\ zombies' = zombies /\ queue' = queue /\ loaded' = loaded
    BY <1>1, <1>18 DEF IsCancelled, executor, ask
  <2>2. PICK at \in Suspended : Resumed(c, at, "cancelled")
    BY <1>18 DEF IsCancelled
  <2> QED
    BY <1>5, <1>13, <2>1, <2>2
<1>19. CASE RecoverReset \/ AdminReset
  <2>1. /\ ~Overtaken /\ loaded' = NoModel /\ held' = NoModel /\ done' = done \o Cancelled
        /\ pc' = pc /\ want' = want
    BY <1>19 DEF RecoverReset, AdminReset, Reset, ask
  <2>2. ~\E a \in ToSet(done) : pc[a.who] = "loading" /\ a.result = "ok"
    BY <2>1 DEF Overtaken
  <2>3. Settled(NoModel, NoModel, done \o Cancelled, pc, want)
    BY <1>1, <2>2, CancelledList, SettledReset
  <2> QED
    BY <2>1, <2>3
<1>20. CASE SetDevice \/ WorkChanges
  BY <1>6, <1>20 DEF SetDevice, WorkChanges, manager, executor, ask
<1>21. CASE ThreadStarts
  <2>1. /\ loaded' = loaded /\ missed' = missed /\ done' = done /\ pc' = pc /\ want' = want
        /\ queue' = queue /\ zombies' = zombies /\ started' /\ ~started
        /\ Head(queue) = queue[1]
    BY <1>1, <1>21 DEF ThreadStarts, manager, ask
  <2>2. Head(queue).kind # "load" /\ ~Loading(queue, started, zombies)
    BY <2>1 DEF Loading
  <2> QED
    BY <1>6, <1>21, <2>1, <2>2 DEF ThreadStarts
<1>22. ASSUME NEW c \in Callers, TimesOut(c)
       PROVE  Settled(loaded', held', done', pc', want')
  <2>1. /\ loaded' = loaded /\ held' = held /\ want' = want /\ started' = started
        /\ done' = Without(done, c) /\ \A x \in Callers \ {c} : pc'[x] = pc[x]
        /\ pc[c] \in {"loading", "synth", "clearing"}
        /\ ~missed /\ ~\E a \in ToSet(done) : a.who = c /\ pc[c] = "loading"
    BY <1>1, <1>22 DEF TimesOut
  <2> DEFINE orphan(call) == IF call.who = c THEN [call EXCEPT !.who = Nobody] ELSE call
             rest == Without(IF started THEN Tail(queue) ELSE queue, c)
  <2>2. /\ queue' = (IF started THEN <<orphan(Head(queue))>> ELSE <<>>) \o rest
        /\ zombies' = {orphan(z) : z \in zombies}
    BY <1>22 DEF TimesOut
  <2>3. \A call \in Call : orphan(call).kind = call.kind
    BY DEF Call
  <2>4. started => queue'[1].kind = queue[1].kind
    <3>1. SUFFICES ASSUME started PROVE queue'[1].kind = queue[1].kind
      OBVIOUS
    <3>2. Head(queue) = queue[1] /\ queue[1] \in Call
      BY <1>1, <3>1
    <3>3. rest \in Seq(Call)
      <4>1. Tail(queue) \in Seq(Call) /\ Once(Tail(queue))
        BY <1>1, <3>1, TailList DEF Wired
      <4> QED
        BY <3>1, <4>1, WithoutList
    <3> HIDE DEF rest
    <3>4. queue' = <<orphan(queue[1])>> \o rest
      BY <2>2, <3>1, <3>2
    <3> DEFINE o == orphan(queue[1])
    <3> HIDE DEF o
    <3>5. (<<o>> \o rest)[1] = o
      BY <3>3
    <3> QED
      BY <2>3, <3>2, <3>4, <3>5 DEF o
  <2>5. \A z \in zombies : \E y \in zombies' : y.kind = z.kind
    BY <1>1, <2>2, <2>3
  <2>6. ~Loading(queue, started, zombies)
    BY <2>1, <2>4, <2>5 DEF Loading
  <2>7. c \in Owners(done) => pc[c] \notin {"loading", "unloading"}
    BY <1>1, <2>1 DEF Owners, ToSet
  <2>8. Settled(loaded, held, Without(done, c), pc', want)
    BY <1>1, <1>2, <2>1, <2>6, <2>7, SettledWithout
  <2> QED
    BY <2>1, <2>8
\* A call ends: a load or an unload is news, whose caller will be told; a
\* synthesis or a cleared cache is not.
<1>23. ASSUME NEW call \in Call, NEW o \in Outcomes(call), Finish(call, o[1], o[2]),
              Matches(call, pc, want), loaded' = loaded, pc' = pc, want' = want,
              call.kind \in {"load", "unload"} \/ ~Loading(queue, started, zombies)
       PROVE  Settled(loaded', held', done', pc', want')
  <2> DEFINE a == [who |-> call.who, result |-> o[1]]
  <2>1. /\ o[1] \in {"ok", "vram", "oom", "error"}
        /\ call.kind = "load" /\ o[1] = "ok" => o[2] = call.model
        /\ call.kind = "unload" => o[1] = "ok" /\ o[2] = NoModel
        /\ call.kind \in {"synth", "clear"} => o[2] = held
    BY <1>1, Results
  <2>2. /\ held' = o[2]
        /\ call.who = Nobody => done' = done
        /\ call.who # Nobody => done' = Append(done, a)
        /\ call.kind \in {"load", "unload"} =>
             call.who # Nobody /\ (o[1] = "ok" \/ o[2] = NoModel)
        /\ call.kind \notin {"load", "unload"} => missed' = missed
    BY <1>23 DEF Finish
  <2>3. /\ call.who \in Callers \cup {Nobody} /\ call.kind \in {"load", "unload", "synth", "clear"}
        /\ call.who # Nobody => /\ pc[call.who] = At(call.kind)
                                /\ call.kind = "load" => call.model = want[call.who]
    BY <1>23, Parties DEF Matches
  <2>4. call.who # Nobody => a \in Answer /\ a.who = call.who /\ a.result = o[1]
    BY <2>1, <2>3 DEF Answer
  <2> HIDE DEF a
  <2>5. CASE call.kind \in {"load", "unload"}
    <3>1. /\ a \in Answer /\ a.result # "cancelled" /\ pc[a.who] \in {"loading", "unloading"}
          /\ done' = Append(done, a)
      BY <2>1, <2>2, <2>3, <2>4, <2>5
    <3>2. held' = IF a.result = "ok" /\ pc[a.who] = "loading" THEN want[a.who] ELSE NoModel
      <4>1. pc[a.who] = "loading" <=> call.kind = "load"
        BY <2>2, <2>3, <2>4, <2>5
      <4> QED
        BY <2>1, <2>2, <2>3, <2>4, <2>5, <4>1
    <3>3. Settled(loaded, held', Append(done, a), pc, want)
      BY <1>1, <3>1, <3>2, SettledTold
    <3> QED
      BY <1>23, <3>1, <3>3
  <2>6. CASE call.kind \in {"synth", "clear"}
    <3>1. held' = held /\ Settled(loaded, held, done, pc, want)
      BY <1>2, <1>23, <2>1, <2>2, <2>6
    <3>2. CASE call.who = Nobody
      BY <1>23, <2>2, <3>1, <3>2
    <3>3. CASE call.who # Nobody
      <4>1. a \in Answer /\ pc[a.who] \notin {"loading", "unloading"}
        BY <2>3, <2>4, <2>6, <3>3
      <4>2. Settled(loaded, held, Append(done, a), pc, want)
        BY <1>1, <3>1, <4>1, SettledNoise
      <4> QED
        BY <1>23, <2>2, <3>1, <3>3, <4>2
    <3> QED
      BY <3>2, <3>3
  <2> QED
    BY <2>3, <2>5, <2>6
<1>24. CASE ThreadFinishes
  <2>1. /\ Head(queue) = queue[1] /\ Head(queue) \in Call /\ Matches(Head(queue), pc, want)
        /\ started
    BY <1>1, <1>24, TailList DEF ThreadFinishes, Wired
  <2>2. PICK o \in Outcomes(Head(queue)) : Finish(Head(queue), o[1], o[2])
    BY <1>24 DEF ThreadFinishes
  <2>3. loaded' = loaded /\ pc' = pc /\ want' = want /\ zombies' = zombies
    BY <1>24 DEF ThreadFinishes, manager, ask
  <2>4. Head(queue).kind \in {"load", "unload"} \/ ~Loading(queue, started, zombies)
    BY <2>1, <2>3 DEF Loading
  <2> QED
    BY <1>23, <2>1, <2>2, <2>3, <2>4
<1>25. CASE ZombieFinishes
  <2>1. PICK z \in zombies :
          /\ \E o \in Outcomes(z) : Finish(z, o[1], o[2])
          /\ zombies' = zombies \ {z} \/ (z.who = Nobody /\ zombies' = zombies)
    BY <1>25 DEF ZombieFinishes
  <2>2. PICK o \in Outcomes(z) : Finish(z, o[1], o[2])
    BY <2>1
  <2>3. /\ loaded' = loaded /\ pc' = pc /\ want' = want /\ queue' = queue /\ started' = started
    BY <1>25 DEF ZombieFinishes, manager, executor, ask
  <2>4. z.kind \in {"load", "unload"} \/ ~Loading(queue, started, zombies)
    BY <2>1, <2>3 DEF Loading
  <2>5. z \in Call /\ Matches(z, pc, want)
    BY <1>1 DEF Wired
  <2> QED
    BY <1>23, <2>2, <2>3, <2>4, <2>5
<1> QED
  BY <1>7, <1>9, <1>10, <1>12, <1>14, <1>15, <1>16, <1>17, <1>18, <1>19, <1>20, <1>21, <1>22,
     <1>24, <1>25, Actions

-----------------------------------------------------------------------------
(* The theorems *)

LEMMA Invariance == Spec => []IInv
<1>1. ASSUME IInv, [Next]_vars
      PROVE  IInv'
  <2>1. CASE Next
    <3>1. WiredNow'
      BY <1>1, <2>1, WiredStep DEF WiredNow
    <3>2. Types' /\ Honest(state', pc', done') /\ Believed(state', loaded')
      BY <1>1, <2>1, TypesStep, HonestStep, BelievedStep
    <3>3. Agreed'
      BY <1>1, <2>1, AgreedStep DEF Agreed
    <3> QED
      BY <3>1, <3>2, <3>3 DEF IInv
  <2>2. CASE UNCHANGED vars
    BY <1>1, <2>2 DEF vars, manager, executor, ask, IInv, WiredNow, Types, Agreed
  <2> QED
    BY <1>1, <2>1, <2>2
<1> QED
  BY <1>1, InitIInv, PTL DEF Spec

\* Every variable of the manager, the provider and the thread has its type, and
\* the thread never runs a call it was not given (_call_in_worker).
THEOREM TypeCorrect == Spec => []TypeOK
<1> DEFINE M == meddled \in BOOLEAN
<1>1. IInv /\ M => TypeOK
  BY DEF IInv, WiredNow, Wired, Types, TypeOK, PCs
<1>2. Init => M
  BY DEF Init
<1>3. ASSUME M, Next
      PROVE  M'
  <2>1. CASE \E c \in Callers : \/ Unload(c)
                                \/ LoadSucceeds(c) \/ LoadLacksVRAM(c) \/ LoadErrs(c)
                                \/ UnloadReturns(c) \/ IsCancelled(c) \/ TimesOut(c)
    BY <1>3, <2>1 DEF Unload, LoadSucceeds, LoadLacksVRAM, LoadErrs, UnloadReturns,
                      IsCancelled, TimesOut
  <2>2. CASE Dispatch \/ \E a \in Admins : Warm(a)
    BY <1>3, <2>2 DEF Dispatch, Warm, EnsureLoaded
  <2>3. CASE \/ Probe \/ Blocked \/ Synthesize \/ NotLoaded \/ SynthSucceeds
             \/ SynthOutOfMemory \/ Retry \/ BatchFails \/ BatchEnds
             \/ LoadLacksVRAMTooLong \/ SetDevice
    BY <1>3, <2>3 DEF Probe, Blocked, Synthesize, NotLoaded, SynthSucceeds,
         SynthOutOfMemory, Retry, BatchFails, BatchEnds, LoadLacksVRAMTooLong, SetDevice
  <2>4. CASE ThreadStarts
    BY <2>4 DEF ThreadStarts
  <2>5. CASE \/ ThreadFinishes \/ ZombieFinishes \/ WorkChanges \/ RecoverReset
             \/ AdminReset
    BY <1>3, <2>5 DEF ThreadFinishes, ZombieFinishes, WorkChanges, RecoverReset,
                      AdminReset, Reset
  <2> QED
    BY <1>3, <2>1, <2>2, <2>3, <2>4, <2>5, Actions
<1>4. M /\ UNCHANGED vars => M'
  BY DEF vars
<1> QED
  BY <1>1, <1>2, <1>3, <1>4, Invariance, PTL DEF Spec

\* Whoever is suspended on the worker thread has a call that is queued, running
\* or answered, and nobody else has: however timeouts, resets (cancel_futures)
\* and abandoned threads interleave.
THEOREM NoCallIsLost == Spec => []NoLostCall
<1>1. ASSUME IInv
      PROVE  NoLostCall
  <2>1. Wired(queue, started, zombies, done, pc, want)
    BY <1>1 DEF IInv, WiredNow
  <2>2. {call.who : call \in ToSet(queue)} = Owners(queue)
    BY <2>1 DEF Wired, ToSet, Owners
  <2>3. {a.who : a \in ToSet(done)} = Owners(done)
    BY <2>1 DEF Wired, ToSet, Owners
  <2>4. Promised = Owners(queue) \cup {z.who : z \in zombies} \cup Owners(done)
    BY <2>2, <2>3 DEF Promised, Calls
  <2> QED
    BY <2>1, <2>4 DEF NoLostCall, Wired
<1> QED
  BY <1>1, Invariance, PTL

\* LOADING, EVICTING and BUSY are shown only while somebody awaits a load, an
\* unload, or has a batch (ensure_loaded, unload, mark_busy and mark_idle).
THEOREM StateStaysHonest == Spec => []StateIsHonest
<1>1. IInv => StateIsHonest
  BY DEF IInv, Honest, Awaited, StateIsHonest
<1> QED
  BY <1>1, Invariance, PTL

\* At rest the manager's model is the provider's, unless a call whose caller had
\* given up was the last to change it (load_model, unload_model, reset_provider).
THEOREM ManagerStaysAgreed == Spec => []ManagerAgrees
<1>1. ASSUME IInv, Quiet, ~missed, state \in {"unloaded", "warm_idle"}
      PROVE  loaded = held /\ (state = "unloaded" <=> loaded = NoModel)
  <2>1. ~started
    BY <1>1 DEF IInv, WiredNow, Wired, Quiet
  <2>2. ~Loading(queue, started, zombies) /\ Len(done) = 0
    BY <1>1, <2>1 DEF Quiet, Loading
  <2>3. Settled(loaded, held, done, pc, want)
    BY <1>1, <2>2 DEF IInv, Agreed
  <2>4. loaded = held
    BY <2>2, <2>3 DEF Settled
  <2> QED
    BY <1>1, <2>4 DEF IInv, Believed
<1>2. IInv => ManagerAgrees
  BY <1>1 DEF ManagerAgrees
<1> QED
  BY <1>2, Invariance, PTL

-----------------------------------------------------------------------------
(* The stuck thread *)

\* Until an admin meddles with the call the thread is at, nobody but the tick
\* uses the model, and when the caller of that call has given up the breaker is
\* tripped or the tick cannot dispatch.
OnlyTick ==
  started /\ ~meddled =>
    /\ \A a \in Admins : pc[a] = "idle"
    /\ queue[1].who = Nobody =>
         \/ state = "error" /\ pc[Tick] = "idle"
         \/ pc[Tick] = "dead"
         \/ pc[Tick] = "unloading" /\ Tick \in Owners(queue)

\* Nothing but a new call of the thread ends what an admin did.
LEMMA Unmeddled ==
  ASSUME Next, ~ThreadStarts, started', ~meddled'
  PROVE  /\ started /\ ~meddled
         /\ \A c \in Callers : Unload(c) => c = Tick
         /\ ~\E a \in Admins : Warm(a)
<1>1. ASSUME NEW c \in Callers, Unload(c)
      PROVE  c = Tick /\ started /\ ~meddled
  BY <1>1 DEF Unload
<1>2. ASSUME NEW a \in Admins, Warm(a)
      PROVE  FALSE
  BY <1>2, LifecycleAssumption DEF Warm, EnsureLoaded
<1>3. CASE \/ Probe \/ Blocked \/ Synthesize \/ NotLoaded \/ SynthSucceeds
           \/ SynthOutOfMemory \/ Retry \/ BatchFails \/ BatchEnds
           \/ LoadLacksVRAMTooLong \/ SetDevice \/ ZombieFinishes \/ WorkChanges
           \/ \E c \in Callers : LoadSucceeds(c) \/ LoadLacksVRAM(c) \/ LoadErrs(c)
                                 \/ UnloadReturns(c) \/ IsCancelled(c) \/ TimesOut(c)
  <2>1. started' = started /\ meddled' = meddled
    BY <1>3 DEF Probe, Blocked, Synthesize, NotLoaded, SynthSucceeds, SynthOutOfMemory,
                Retry, BatchFails, BatchEnds, LoadLacksVRAMTooLong, SetDevice,
                ZombieFinishes, WorkChanges, LoadSucceeds, LoadLacksVRAM, LoadErrs,
                UnloadReturns, IsCancelled, TimesOut, executor
  <2> QED
    BY <1>1, <1>2, <2>1
<1>4. CASE Dispatch
  <2>1. started' = started /\ (meddled => meddled')
    BY <1>4 DEF Dispatch, EnsureLoaded
  <2> QED
    BY <1>1, <1>2, <2>1
<1>5. ~(RecoverReset \/ AdminReset \/ ThreadFinishes)
  BY DEF RecoverReset, AdminReset, Reset, ThreadFinishes
<1> QED
  BY <1>1, <1>2, <1>3, <1>4, <1>5, Actions

LEMMA OnlyTickStep ==
  ASSUME IInv, OnlyTick, Next
  PROVE  OnlyTick'
<1>a. /\ Wired(queue, started, zombies, done, pc, want)
      /\ pc \in [Callers -> PCs] /\ done \in Seq(Answer) /\ queue \in Seq(Call)
      /\ (started => queue # <<>>) /\ Owners(queue) \cap Owners(done) = {}
  BY DEF IInv, WiredNow, Wired
\* What the thread begins has a caller; with no admin at work it is the tick.
<1>b. CASE ThreadStarts
  <2>1. /\ queue' = queue /\ pc' = pc /\ queue # <<>> /\ ~started
        /\ ~meddled' => \A a \in Admins : pc[a] = "idle"
    BY <1>b DEF ThreadStarts
  <2>2. queue[1].who # Nobody
    BY <1>a, <2>1, TailList DEF Wired
  <2> QED
    BY <2>1, <2>2 DEF OnlyTick
<1> SUFFICES ASSUME ~ThreadStarts, started', ~meddled'
             PROVE  OnlyTick'
  BY <1>b DEF OnlyTick
<1>1. /\ Wired(queue, started, zombies, done, pc, want)
      /\ pc \in [Callers -> PCs] /\ done \in Seq(Answer) /\ queue \in Seq(Call)
      /\ (started => queue # <<>>) /\ Owners(queue) \cap Owners(done) = {}
  BY <1>a
<1>c. started /\ ~meddled
  BY Unmeddled
<1>2. \A a \in Admins : pc[a] = "idle"
  BY <1>c DEF OnlyTick
<1>3. started /\ queue[1].who = Nobody =>
        \/ state = "error" /\ pc[Tick] = "idle"
        \/ pc[Tick] = "dead"
        \/ pc[Tick] = "unloading" /\ Tick \in Owners(queue)
  BY <1>c DEF OnlyTick
<1>4. \A c \in Callers : c = Tick \/ pc[c] = "idle"
  BY <1>2 DEF Callers
<1>5. Tick \notin Admins /\ Tick # Nobody
  BY LifecycleAssumption
<1> USE Kinds, <1>5
\* The tick was at a place where the thread cannot be stuck, and stays so.
<1>6. ASSUME pc[Tick] \notin {"idle", "dead", "unloading"},
             \A a \in Admins : pc'[a] = pc[a], started' = started,
             started => queue'[1] = queue[1]
      PROVE  OnlyTick'
  BY <1>2, <1>3, <1>6 DEF OnlyTick
<1>7. ASSUME NEW kind, NEW m, NEW at, Submit(Tick, kind, m, at)
      PROVE  /\ \A a \in Admins : pc'[a] = pc[a]
             /\ started => queue'[1] = queue[1]
             /\ Tick \in Owners(queue')
  <2> DEFINE call == [who |-> Tick, kind |-> kind, model |-> m]
  <2>1. /\ queue' = Append(queue, call) /\ pc' = [pc EXCEPT ![Tick] = at] /\ call.who = Tick
    BY <1>7 DEF Submit
  <2> HIDE DEF call
  <2>2. Len(queue') = Len(queue) + 1 /\ queue'[Len(queue) + 1] = call /\ Len(queue) \in Nat
        /\ started => queue'[1] = queue[1]
    BY <1>1, <2>1
  <2>3. Tick \in Owners(queue')
    BY <2>1, <2>2 DEF Owners
  <2> QED
    BY <1>1, <2>1, <2>2, <2>3
<1>8. CASE Blocked \/ NotLoaded \/ BatchEnds \/ SynthSucceeds \/ Retry \/ BatchFails
  <2>1. pc[Tick] \in {"probing", "announcing", "packaging", "synth", "clearing"}
    BY <1>8 DEF Blocked, NotLoaded, BatchEnds, SynthSucceeds, Retry, BatchFails, Resumed
  <2>2. queue' = queue /\ started' = started /\ \A a \in Admins : pc'[a] = pc[a]
    BY <1>1, <1>8 DEF Blocked, NotLoaded, BatchEnds, SynthSucceeds, Retry, BatchFails, executor
  <2> QED
    BY <1>6, <2>1, <2>2
<1>9. CASE Synthesize \/ SynthOutOfMemory \/ LoadLacksVRAMTooLong
  <2>1. pc[Tick] \in {"announcing", "synth", "loading"} /\ started' = started
    BY <1>9 DEF Synthesize, SynthOutOfMemory, LoadLacksVRAMTooLong, Resumed
  <2>2. (\A a \in Admins : pc'[a] = pc[a]) /\ (started => queue'[1] = queue[1])
    BY <1>7, <1>9 DEF Synthesize, SynthOutOfMemory, LoadLacksVRAMTooLong
  <2> QED
    BY <1>6, <2>1, <2>2
<1>10. CASE Dispatch
  <2>1. pc[Tick] = "probing" /\ started' = started
    BY <1>10 DEF Dispatch, EnsureLoaded
  <2>2. (\A a \in Admins : pc'[a] = pc[a]) /\ (started => queue'[1] = queue[1])
    BY <1>1, <1>7, <1>10 DEF Dispatch, EnsureLoaded, Resident
  <2> QED
    BY <1>6, <2>1, <2>2
<1>11. CASE Probe
  <2>1. /\ queue' = queue /\ started' = started /\ \A a \in Admins : pc'[a] = pc[a]
        /\ pc[Tick] = "idle" /\ state # "error"
    BY <1>1, <1>11 DEF Probe, executor
  <2> QED
    BY <1>2, <1>3, <2>1 DEF OnlyTick
<1>12. ASSUME NEW c \in Callers, pc[c] \in {"idle", "probing"}, Unload(c)
       PROVE  OnlyTick'
  <2>0. c = Tick
    BY <1>12, Unmeddled
  <2>1. /\ \A a \in Admins : pc'[a] = pc[a]
        /\ Tick \in Owners(queue') /\ pc'[Tick] = "unloading"
    BY <1>1, <1>7, <1>12, <2>0 DEF Unload, Submit
  <2> QED
    BY <1>2, <2>1 DEF OnlyTick
<1>13. CASE RecoverReset \/ AdminReset
  BY <1>2, <1>13 DEF RecoverReset, AdminReset, Reset, OnlyTick
<1>14. CASE SetDevice \/ ZombieFinishes \/ WorkChanges
  <2>1. queue' = queue /\ started' = started /\ pc' = pc /\ (state # "error" \/ state' = state)
    BY <1>14 DEF SetDevice, ZombieFinishes, WorkChanges, manager, executor
  <2> QED
    BY <1>2, <1>3, <2>1 DEF OnlyTick
\* Only the tick is ever resumed; if it waits for a queued call it has no answer.
<1>15. ASSUME NEW c \in Callers, LoadSucceeds(c) \/ LoadLacksVRAM(c) \/ LoadErrs(c)
                                 \/ UnloadReturns(c) \/ IsCancelled(c)
       PROVE  OnlyTick'
  <2>1. /\ pc[c] \in Suspended /\ done # <<>> /\ Head(done).who = c
        /\ queue' = queue /\ started' = started /\ \A x \in Callers \ {c} : pc'[x] = pc[x]
    <3> DEFINE P == /\ pc[c] \in Suspended /\ done # <<>> /\ Head(done).who = c
                    /\ queue' = queue /\ started' = started
                    /\ \A x \in Callers \ {c} : pc'[x] = pc[x]
    <3>0. ASSUME NEW at, NEW result, Resumed(c, at, result)
          PROVE  pc[c] = at /\ done # <<>> /\ Head(done).who = c
      BY <3>0 DEF Resumed
    <3>1. CASE LoadSucceeds(c)
      <4>1. Resumed(c, "loading", "ok") /\ queue' = queue /\ started' = started
        BY <3>1 DEF LoadSucceeds, executor
      <4>2. \A x \in Callers \ {c} : pc'[x] = pc[x]
        BY <1>1, <3>1 DEF LoadSucceeds, Resident
      <4> QED
        BY <3>0, <4>1, <4>2 DEF Suspended
    <3>2. CASE LoadLacksVRAM(c)
      <4>1. Resumed(c, "loading", "vram") /\ queue' = queue /\ started' = started
        BY <3>2 DEF LoadLacksVRAM, executor
      <4>2. \A x \in Callers \ {c} : pc'[x] = pc[x]
        BY <1>1, <3>2 DEF LoadLacksVRAM
      <4> QED
        BY <3>0, <4>1, <4>2 DEF Suspended
    <3>3. CASE LoadErrs(c)
      <4>1. Resumed(c, "loading", "error") /\ queue' = queue /\ started' = started
        BY <3>3 DEF LoadErrs, executor
      <4>2. \A x \in Callers \ {c} : pc'[x] = pc[x]
        BY <1>1, <3>3 DEF LoadErrs
      <4> QED
        BY <3>0, <4>1, <4>2 DEF Suspended
    <3>4. CASE UnloadReturns(c)
      <4>1. Resumed(c, "unloading", "ok") /\ queue' = queue /\ started' = started
        BY <3>4 DEF UnloadReturns, executor
      <4>2. \A x \in Callers \ {c} : pc'[x] = pc[x]
        BY <1>1, <3>4 DEF UnloadReturns
      <4> QED
        BY <3>0, <4>1, <4>2 DEF Suspended
    <3>5. CASE IsCancelled(c)
      <4>1. PICK at \in Suspended : Resumed(c, at, "cancelled")
        BY <3>5 DEF IsCancelled
      <4>2. /\ queue' = queue /\ started' = started
            /\ \A x \in Callers \ {c} : pc'[x] = pc[x]
        BY <1>1, <3>5 DEF IsCancelled, executor
      <4> QED
        BY <3>0, <4>1, <4>2
    <3> HIDE DEF P
    <3>6. P
      BY <1>15, <3>1, <3>2, <3>3, <3>4, <3>5 DEF P
    <3> QED
      BY <3>6 DEF P
  <2>2. c = Tick /\ c \in Owners(done)
    <3>1. c \in Owners(done)
      BY <1>1, <2>1, TailList
    <3> QED
      BY <1>4, <2>1, <3>1
  <2>3. ~(started /\ queue[1].who = Nobody)
    BY <1>1, <1>3, <2>1, <2>2
  <2> QED
    BY <1>2, <2>1, <2>2, <2>3 DEF OnlyTick
<1>16. ASSUME NEW c \in Callers, TimesOut(c)
       PROVE  OnlyTick'
  <2>1. c = Tick /\ state' = "error" /\ pc'[c] = "idle" /\ \A x \in Callers \ {c} : pc'[x] = pc[x]
    BY <1>1, <1>4, <1>16 DEF TimesOut, MarkIdle
  <2> QED
    BY <1>2, <2>1 DEF OnlyTick
<1>18. CASE ThreadFinishes
  BY <1>2, <1>18 DEF ThreadFinishes, OnlyTick
<1>19. ~\E a \in Admins : Warm(a)
  BY Unmeddled
<1> QED
  BY <1>8, <1>9, <1>10, <1>11, <1>12, <1>13, <1>14, <1>15, <1>16, <1>18, <1>19, Actions

\* The tick hands the thread neither a load nor a synthesis while it is stuck in
\* a call that timed out (_dispatch_tick: "the worker thread may still be stuck.
\* Do not dispatch into it"), unless an admin's warm or evict got in the way of
\* that very call; a reset and a fresh call put the breaker in charge again.
THEOREM StuckThreadIsSpared == Spec => SpareStuckThread
<1> DEFINE Spares == TickDispatches => ~Stuck \/ meddled
<1>1. Init => OnlyTick
  BY DEF Init, OnlyTick
<1>2. IInv /\ OnlyTick /\ [Next]_vars => OnlyTick'
  <2>1. IInv /\ OnlyTick /\ Next => OnlyTick'
    BY OnlyTickStep
  <2>2. OnlyTick /\ UNCHANGED vars => OnlyTick'
    BY DEF OnlyTick, vars, executor
  <2> QED
    BY <2>1, <2>2
<1>3. ASSUME IInv, IInv', OnlyTick, Next
      PROVE  Spares
  <2>1. /\ Wired(queue, started, zombies, done, pc, want) /\ queue \in Seq(Call)
        /\ pc \in [Callers -> PCs]
        /\ (started => queue # <<>>)
    BY <1>3 DEF IInv, WiredNow, Wired
  <2>2. Wired(queue', started', zombies', done', pc', want') /\ queue' \in Seq(Call)
    BY <1>3 DEF IInv, WiredNow, Wired
  <2>3. SUFFICES ASSUME Len(queue') > Len(queue), Last(queue').who = Tick,
                        Last(queue').kind \in {"load", "synth"},
                        started, queue[1].who = Nobody, ~meddled
                 PROVE  FALSE
    <3>1. started => Head(queue) = queue[1]
      BY <2>1
    <3> QED
      BY <3>1 DEF TickDispatches, Stuck
  <2>4. Tick \in Owners(queue') /\ queue' # queue
    <3>1. Len(queue') \in Nat /\ Len(queue) \in Nat
      BY <2>1, <2>2
    <3>2. Len(queue') \in 1 .. Len(queue')
      BY <2>3, <3>1
    <3>3. queue' # queue
      BY <2>3, <3>1
    <3> QED
      BY <2>3, <3>2, <3>3 DEF Last, Owners
  <2>5. pc'[Tick] \in Suspended
    BY <2>2, <2>4, Kinds DEF Wired
  <2>6. pc[Tick] \in {"idle", "dead", "unloading"}
    BY <1>3, <2>3 DEF OnlyTick
  <2>7. ASSUME NEW c \in Callers, Unload(c)
        PROVE  FALSE
    <3> DEFINE call == [who |-> c, kind |-> "unload", model |-> DefaultModel]
    <3>1. queue' = Append(queue, call) /\ call.kind = "unload"
      BY <2>7 DEF Unload, Submit
    <3> HIDE DEF call
    <3>2. Last(queue') = call
      BY <2>1, <3>1 DEF Last
    <3> QED
      BY <2>3, <3>1, <3>2
  <2>8. CASE \/ Probe \/ Blocked \/ NotLoaded \/ SynthSucceeds \/ Retry \/ BatchFails \/ BatchEnds
             \/ SetDevice \/ ThreadStarts \/ ZombieFinishes \/ WorkChanges
             \/ \E c \in Callers : LoadSucceeds(c) \/ LoadLacksVRAM(c) \/ LoadErrs(c)
                                   \/ UnloadReturns(c) \/ IsCancelled(c)
    <3>1. queue' = queue
      BY <2>8 DEF Probe, Blocked, NotLoaded, SynthSucceeds, Retry, BatchFails, BatchEnds,
                  SetDevice, ThreadStarts, ZombieFinishes, WorkChanges, LoadSucceeds,
                  LoadLacksVRAM, LoadErrs, UnloadReturns, IsCancelled, executor
    <3> QED
      BY <2>4, <3>1
  <2>9. CASE Dispatch \/ Synthesize \/ SynthOutOfMemory \/ LoadLacksVRAMTooLong
    BY <2>6, <2>9 DEF Dispatch, Synthesize, SynthOutOfMemory, LoadLacksVRAMTooLong, Resumed
  <2>10. CASE RecoverReset \/ AdminReset
    <3>1. queue' = <<>>
      BY <2>10 DEF RecoverReset, AdminReset, Reset
    <3> QED
      BY <2>4, <3>1 DEF Owners
  <2>11. ASSUME NEW c \in Callers, TimesOut(c)
         PROVE  FALSE
    <3>1. pc[c] \in {"loading", "synth", "clearing"} /\ pc'[c] = "idle"
      BY <2>1, <2>11 DEF TimesOut
    <3>2. c = Tick
      BY <1>3, <2>3, <3>1 DEF OnlyTick, Callers
    <3> QED
      BY <2>5, <3>1, <3>2, Kinds
  <2>12. CASE ThreadFinishes
    <3>1. queue' = Tail(queue) /\ queue # <<>>
      BY <2>1, <2>3, <2>12 DEF ThreadFinishes
    <3>2. Len(Tail(queue)) < Len(queue)
      BY <2>1, <3>1
    <3>3. Len(Tail(queue)) \in Nat /\ Len(queue) \in Nat
      BY <2>1, <3>1
    <3> QED
      BY <2>3, <3>1, <3>2, <3>3
  <2>13. ASSUME NEW a \in Admins, Warm(a)
         PROVE  FALSE
    <3> DEFINE call == [who |-> a, kind |-> "load", model |-> DefaultModel]
    <3>1. call.who = a /\ a # Tick /\ a \in Callers
      BY LifecycleAssumption DEF Callers
    <3>2. queue' = queue \/ queue' = Append(queue, call)
      BY <2>13 DEF Warm, EnsureLoaded, Submit
    <3> HIDE DEF call
    <3>3. queue' = Append(queue, call) => Last(queue') = call
      BY <2>1 DEF Last
    <3> QED
      BY <2>3, <2>4, <3>1, <3>2, <3>3
  <2> QED
    BY <1>3, <2>7, <2>8, <2>9, <2>10, <2>11, <2>12, <2>13, Actions
<1>4. IInv /\ IInv' /\ OnlyTick /\ [Next]_vars => [Spares]_vars
  BY <1>3
<1>5. Spec => []OnlyTick
  BY <1>1, <1>2, Invariance, PTL DEF Spec
<1> QED
  BY <1>4, <1>5, Invariance, PTL DEF Spec, SpareStuckThread
=============================================================================
