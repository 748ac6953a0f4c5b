------------------------ MODULE PlayerSessionProofs ------------------------
(***************************************************************************)
(* Theorems about PlayerSession, for any number of jobs of any lengths.    *)
(*                                                                         *)
(* The operators come first, in the order of the model: what each of them  *)
(* leaves alone and what it may not do.  Gentle(u, v) says that nothing    *)
(* between u and v starts the audio; CommitFacts sums up the effects of a  *)
(* commit.  Then two inductive invariants, one lemma per action each:      *)
(*   - Coherent and Quieted (types, what a loaded page knows, and that     *)
(*     after a pause no play event is queued), for PauseHolds;             *)
(*   - Followed and Awaited (the stream is the one the store asks for, a   *)
(*     pending seek is still ahead of it and aimed at the start of a       *)
(*     stream, and an opened job is unheard until something is played),    *)
(*     for AdvanceEarned.                                                  *)
(***************************************************************************)
EXTENDS PlayerSession, FiniteSetTheorems, WellFoundedInduction, NaturalsInduction, TLAPS

-----------------------------------------------------------------------------
(* Numbers *)

LEMMA LeastNatural ==
  ASSUME NEW T, T \subseteq Nat, T # {}
  PROVE  \E x \in T : \A y \in T : x <= y
<1>1. PICK x \in T : \A y \in T : ~(<<y, x>> \in OpToRel(<, Nat))
  BY NatLessThanWellFounded, WFMin
<1>2. \A y \in T : ~(y < x)
  BY <1>1 DEF OpToRel
<1> QED
  BY <1>2

LEMMA GreatestNatural ==
  ASSUME NEW n \in Nat, NEW T, T \subseteq 0 .. n, T # {}
  PROVE  \E x \in T : \A y \in T : y <= x
<1> DEFINE R == {n - x : x \in T}
<1>1. R \subseteq Nat /\ R # {}
  <2>1. \A x \in T : n - x \in Nat
    OBVIOUS
  <2> QED
    BY <2>1
<1>2. PICK m \in R : \A y \in R : m <= y
  BY <1>1, LeastNatural
<1>3. PICK x \in T : m = n - x
  OBVIOUS
<1>4. ASSUME NEW y \in T PROVE y <= x
  <2>1. n - y \in R
    OBVIOUS
  <2>2. n - x <= n - y /\ x \in Int /\ y \in Int
    BY <1>2, <1>3, <2>1
  <2> QED
    BY <2>2
<1> QED
  BY <1>4

LEMMA JobNumbers ==
  /\ Cardinality(Jobs) \in Nat /\ Cardinality(Jobs) >= 1
  /\ Jobs = 1 .. Cardinality(Jobs)
  /\ \A j \in Jobs : Length[j] \in Nat /\ Length[j] >= 1
  /\ 1 \in Jobs /\ NoJob \notin Jobs
<1>1. Cardinality(Jobs) \in Nat /\ Jobs = 1 .. Cardinality(Jobs) /\ Jobs # {}
  BY SessionAssumption, FS_CardinalityType
<1>2. \A j \in Jobs : Length[j] \in Nat /\ Length[j] >= 1
  BY SessionAssumption
<1>3. Cardinality(Jobs) >= 1
  <2> DEFINE n == Cardinality(Jobs)
  <2>1. n \in Nat /\ Jobs = 1 .. n /\ Jobs # {}
    BY <1>1
  <2> HIDE DEF n
  <2>2. n >= 1
    BY <2>1
  <2> QED
    BY <2>2 DEF n
<1> QED
  <2> DEFINE n == Cardinality(Jobs)
  <2>1. n \in Nat /\ Jobs = 1 .. n /\ n >= 1
    BY <1>1, <1>3
  <2> HIDE DEF n
  <2>2. 1 \in Jobs /\ NoJob \notin Jobs
    BY <2>1 DEF NoJob
  <2> QED
    BY <1>1, <1>2, <1>3, <2>2

\* There is a longest job: the least number of first jobs without one would do
\* with the longest of those before its last.
LEMMA LongestJob ==
  /\ Longest \in Nat /\ Longest >= 1
  /\ \A j \in Jobs : Length[j] <= Longest
<1> DEFINE n == Cardinality(Jobs)
           HasLongest(m) == \E j \in 1 .. m : \A k \in 1 .. m : Length[k] <= Length[j]
           B == {m \in 1 .. n : ~HasLongest(m)}
<1>1. n \in Nat /\ n >= 1 /\ Jobs = 1 .. n
  BY JobNumbers
<1>2. \A j \in 1 .. n : Length[j] \in Nat /\ Length[j] >= 1
  BY JobNumbers
<1> HIDE DEF n
<1>3. B = {}
  <2> SUFFICES ASSUME B # {} PROVE FALSE
    OBVIOUS
  <2>0. B \subseteq 1 .. n /\ B \subseteq Nat
    BY <1>1, SMTT(60)
  <2>1. PICK m \in B : \A k \in B : m <= k
    <3> HIDE DEF B
    <3> QED
      BY <2>0, LeastNatural
  <2>m. m \in 1 .. n /\ m \in Nat /\ ~HasLongest(m)
    BY <2>0
  <2>2. m # 1
    <3>1. HasLongest(1)
      BY <1>1, <1>2, SMTT(60)
    <3> QED
      BY <3>1
  <2>3. m - 1 \in 1 .. n /\ m - 1 \notin B
    <3> HIDE DEF HasLongest, B
    <3> QED
      BY <2>0, <2>1, <2>m, <2>2, <1>1
  <2>4. PICK j \in 1 .. (m - 1) : \A k \in 1 .. (m - 1) : Length[k] <= Length[j]
    BY <2>3
  <2>5. CASE Length[m] <= Length[j]
    <3>1. j \in 1 .. m /\ \A k \in 1 .. m : Length[k] <= Length[j]
      <4>1. \A k \in 1 .. m : k = m \/ k \in 1 .. (m - 1)
        BY <2>m
      <4>2. j \in 1 .. m
        BY <2>m, <2>4
      <4> QED
        BY <4>1, <4>2, <2>4, <2>5
    <3> QED
      BY <3>1, <2>m
  <2>6. CASE ~(Length[m] <= Length[j])
    <3>1. m \in 1 .. n /\ j \in 1 .. n /\ 1 .. (m - 1) \subseteq 1 .. n
      BY <2>m, <2>4, <1>1
    <3>2. Length[m] \in Nat /\ Length[j] \in Nat
      BY <1>2, <3>1
    <3>3. \A k \in 1 .. m : Length[k] <= Length[m]
      <4> TAKE k \in 1 .. m
      <4>1. CASE k = m
        BY <4>1, <3>2
      <4>2. CASE k # m
        <5>1. k \in 1 .. (m - 1) /\ k \in 1 .. n
          BY <4>2, <3>1
        <5>2. Length[k] <= Length[j] /\ Length[k] \in Nat
          BY <5>1, <2>4, <1>2
        <5> QED
          BY <5>2, <3>2, <2>6
      <4> QED
        BY <4>1, <4>2
    <3>4. m \in 1 .. m
      BY <3>1
    <3> QED
      BY <3>3, <3>4, <2>m
  <2> QED
    BY <2>5, <2>6
<1>4. PICK j \in 1 .. n : \A k \in 1 .. n : Length[k] <= Length[j]
  <2>1. n \in 1 .. n
    BY <1>1
  <2>2. HasLongest(n)
    BY <2>1, <1>3
  <2> QED
    BY <2>2
<1>5. \E x \in {Length[i] : i \in Jobs} : \A k \in Jobs : Length[k] <= x
  BY <1>1, <1>4
<1>6. Longest \in {Length[i] : i \in Jobs} /\ \A k \in Jobs : Length[k] <= Longest
  BY <1>5 DEF Longest
<1> QED
  BY <1>1, <1>2, <1>6

LEMMA Chunks ==
  /\ Chunk = 0 .. (Longest - 1) /\ Chunk \subseteq Nat /\ 0 \in Chunk
  /\ IsFiniteSet(Chunk) /\ Cardinality(Chunk) = Longest
  /\ Longest \in Nat
  /\ NoManifest = -1 /\ NoSeek = -1
<1>1. Longest \in Nat /\ Longest >= 1
  BY LongestJob
<1>2. IsFiniteSet(Chunk) /\ Cardinality(Chunk) = Longest
  <2>1. 0 \in Int /\ Longest - 1 \in Int
    BY <1>1
  <2>2. IsFiniteSet(0 .. (Longest - 1))
        /\ Cardinality(0 .. (Longest - 1)) = IF 0 > Longest - 1 THEN 0 ELSE (Longest - 1) - 0 + 1
    BY <2>1, FS_Interval
  <2> HIDE DEF Longest
  <2> QED
    BY <1>1, <2>2 DEF Chunk
<1> QED
  BY <1>1, <1>2 DEF Chunk, NoManifest, NoSeek

LEMMA CountsOfChunks ==
  ASSUME NEW S \in SUBSET Chunk
  PROVE  IsFiniteSet(S) /\ Cardinality(S) \in 0 .. Longest
<1>1. IsFiniteSet(S) /\ Cardinality(S) <= Cardinality(Chunk)
  BY Chunks, FS_Subset
<1>2. Cardinality(S) \in Nat
  BY <1>1, FS_CardinalityType
<1> QED
  BY <1>1, <1>2, Chunks

-----------------------------------------------------------------------------
(* What a list of chunk states amounts to *)

Known == [Chunk -> Status]

LEMMA Counted ==
  ASSUME NEW known \in Known, NEW a \in Chunk
  PROVE  /\ Duration(known) \in 0 .. Longest /\ Before(known, a) \in 0 .. Longest
         /\ RunLength(known, a) \in 0 .. Longest /\ Terminal(known) \in BOOLEAN
<1>1. Written(known) \in SUBSET Chunk /\ {d \in Written(known) : d < a} \in SUBSET Chunk
  BY DEF Written
<1>2. {c \in Chunk : c >= a /\ \A d \in a .. c : known[d] = "written"} \in SUBSET Chunk
  OBVIOUS
<1>3. Duration(known) \in 0 .. Longest /\ Before(known, a) \in 0 .. Longest
  BY <1>1, CountsOfChunks DEF Duration, Before
<1>4. RunLength(known, a) \in 0 .. Longest
  BY <1>2, CountsOfChunks DEF RunLength
<1> QED
  BY <1>3, <1>4 DEF Terminal

\* There is a chunk at every position of a job that has a chunk.
LEMMA ChunkAtPosition ==
  ASSUME NEW known \in Known, NEW position \in Nat, known[0] # "none"
  PROVE  LET c == ChunkAt(known, position)
         IN  /\ c \in Chunk /\ known[c] # "none" /\ Before(known, c) <= position
             /\ \A d \in Chunk : known[d] # "none" /\ Before(known, d) <= position => d <= c
<1> DEFINE T == {c \in Chunk : known[c] # "none" /\ Before(known, c) <= position}
<1>1. T \subseteq 0 .. Longest /\ 0 \in T
  <2>1. {d \in Written(known) : d < 0} = {}
    BY Chunks DEF Written
  <2>2. Before(known, 0) = 0
    BY <2>1, FS_EmptySet DEF Before
  <2> QED
    BY <2>2, Chunks
<1>2. PICK c \in T : \A d \in T : d <= c
  <2> HIDE DEF T
  <2> QED
    BY <1>1, Chunks, GreatestNatural
<1>3. c \in Chunk /\ known[c] # "none" /\ Before(known, c) <= position
      /\ \A d \in Chunk : known[d] # "none" /\ Before(known, d) <= position => d <= c
  BY <1>2
<1> QED
  BY <1>3 DEF ChunkAt

-----------------------------------------------------------------------------
(* Queued events *)

Queued(u) == {u.events[i] : i \in DOMAIN u.events}

LEMMA QueuedAppend ==
  ASSUME NEW s \in Seq(MediaEvent), NEW e \in MediaEvent
  PROVE  /\ Append(s, e) \in Seq(MediaEvent) /\ Append(s, e) # <<>>
         /\ {Append(s, e)[i] : i \in DOMAIN Append(s, e)} = {s[i] : i \in DOMAIN s} \cup {e}
<1>1. \A i \in 1 .. Len(s) : Append(s, e)[i] = s[i]
  OBVIOUS
<1>2. DOMAIN Append(s, e) = 1 .. (Len(s) + 1) /\ DOMAIN s = 1 .. Len(s) /\ Len(s) \in Nat
      /\ Append(s, e)[Len(s) + 1] = e
  OBVIOUS
<1>3. {Append(s, e)[i] : i \in DOMAIN Append(s, e)} \subseteq {s[i] : i \in DOMAIN s} \cup {e}
  <2>1. ASSUME NEW i \in 1 .. (Len(s) + 1)
        PROVE  Append(s, e)[i] \in {s[k] : k \in DOMAIN s} \cup {e}
    <3>1. CASE i = Len(s) + 1
      BY <3>1, <1>2
    <3>2. CASE i # Len(s) + 1
      <4>1. i \in 1 .. Len(s)
        BY <3>2, <1>2
      <4> QED
        BY <4>1, <1>1, <1>2
    <3> QED
      BY <3>1, <3>2
  <2> QED
    BY <2>1, <1>2
<1>4. {s[i] : i \in DOMAIN s} \cup {e} \subseteq {Append(s, e)[i] : i \in DOMAIN Append(s, e)}
  <2>1. \A i \in 1 .. Len(s) : i \in 1 .. (Len(s) + 1) /\ Append(s, e)[i] = s[i]
    BY <1>1, <1>2
  <2>2. Len(s) + 1 \in 1 .. (Len(s) + 1)
    BY <1>2
  <2> QED
    BY <1>2, <2>1, <2>2
<1>5. Append(s, e) \in Seq(MediaEvent) /\ Append(s, e) # <<>>
  <2>1. Append(s, e) \in Seq(MediaEvent) /\ Len(Append(s, e)) = Len(s) + 1 /\ Len(s) \in Nat
    OBVIOUS
  <2>2. Len(<<>>) = 0
    OBVIOUS
  <2> QED
    BY <2>1, <2>2
<1> QED
  BY <1>3, <1>4, <1>5

LEMMA QueuedTail ==
  ASSUME NEW s \in Seq(MediaEvent), s # <<>>
  PROVE  /\ Tail(s) \in Seq(MediaEvent) /\ Head(s) \in {s[i] : i \in DOMAIN s}
         /\ Head(s) \in MediaEvent
         /\ {Tail(s)[i] : i \in DOMAIN Tail(s)} \subseteq {s[i] : i \in DOMAIN s}
<1>1. Len(s) \in Nat /\ Len(s) >= 1 /\ DOMAIN s = 1 .. Len(s)
  OBVIOUS
<1>2. Tail(s) \in Seq(MediaEvent) /\ DOMAIN Tail(s) = 1 .. (Len(s) - 1)
      /\ \A i \in 1 .. (Len(s) - 1) : Tail(s)[i] = s[i + 1]
  OBVIOUS
<1>3. Head(s) = s[1] /\ s[1] \in MediaEvent
  OBVIOUS
<1>4. \A i \in 1 .. (Len(s) - 1) : i + 1 \in 1 .. Len(s)
  BY <1>1
<1> QED
  BY <1>1, <1>2, <1>3, <1>4

LEMMA QueuedJoin ==
  ASSUME NEW s \in Seq(MediaEvent), NEW t \in Seq(MediaEvent)
  PROVE  /\ s \o t \in Seq(MediaEvent)
         /\ \A e : e \in {(s \o t)[i] : i \in DOMAIN (s \o t)} =>
                      e \in {s[i] : i \in DOMAIN s} \/ e \in {t[i] : i \in DOMAIN t}
<1>1. /\ Len(s) \in Nat /\ Len(t) \in Nat /\ DOMAIN s = 1 .. Len(s) /\ DOMAIN t = 1 .. Len(t)
      /\ s \o t \in Seq(MediaEvent) /\ DOMAIN (s \o t) = 1 .. (Len(s) + Len(t))
  OBVIOUS
<1>2. \A i \in 1 .. (Len(s) + Len(t)) :
        (s \o t)[i] = IF i <= Len(s) THEN s[i] ELSE t[i - Len(s)]
  OBVIOUS
<1>3. ASSUME NEW i \in 1 .. (Len(s) + Len(t))
      PROVE  (s \o t)[i] \in {s[k] : k \in DOMAIN s} \/ (s \o t)[i] \in {t[k] : k \in DOMAIN t}
  <2>1. CASE i <= Len(s)
    <3>1. i \in DOMAIN s
      BY <2>1, <1>1
    <3> QED
      BY <3>1, <2>1, <1>2
  <2>2. CASE ~(i <= Len(s))
    <3>1. i - Len(s) \in DOMAIN t
      BY <2>2, <1>1
    <3> QED
      BY <3>1, <2>2, <1>2
  <2> QED
    BY <2>1, <2>2
<1> QED
  BY <1>1, <1>3

-----------------------------------------------------------------------------
(* The element and the hook *)

\* What concerns the stream and its playhead is the same.
SameStream(u, v) ==
  /\ v.hook.open = u.hook.open /\ v.hook.key = u.hook.key
  /\ v.hook.buf = u.hook.buf /\ v.hook.time = u.hook.time

\* Nothing starts the audio or asks for it.
Gentle(u, v) ==
  /\ u.hook.paused => v.hook.paused /\ v.events \in {u.events, <<>>}
  /\ v.store.intent => u.store.intent
  /\ "play" \in Queued(v) => "play" \in Queued(u)
  /\ "ended" \in Queued(v) => "ended" \in Queued(u)

LEMMA GentleTransitive ==
  ASSUME NEW u, NEW v, NEW w, Gentle(u, v), Gentle(v, w),
         u.hook.paused \in BOOLEAN, v.hook.paused \in BOOLEAN
  PROVE  Gentle(u, w)
BY DEF Gentle

LEMMA PauseFacts ==
  ASSUME NEW u \in UI
  PROVE  /\ Pause(u) \in UI /\ Gentle(u, Pause(u)) /\ SameStream(u, Pause(u))
         /\ Pause(u).page = u.page /\ Pause(u).store = u.store
         /\ Pause(u).pend = u.pend /\ Pause(u).gesture = u.gesture
         /\ Pause(u).hook.paused
         /\ Pause(u).hook = [u.hook EXCEPT !.paused = TRUE]
         /\ u.hook.paused => Pause(u) = u
<1>1. CASE u.hook.paused
  <2>1. Pause(u) = u
    BY <1>1 DEF Pause
  <2>2. u.hook = [u.hook EXCEPT !.paused = TRUE]
    BY <1>1 DEF UI, Hook
  <2> QED
    BY <1>1, <2>1, <2>2 DEF Gentle, SameStream
<1>2. CASE ~u.hook.paused
  <2> DEFINE v == [u EXCEPT !.hook.paused = TRUE, !.events = Append(@, "pause")]
  <2>1. Pause(u) = v
    BY <1>2 DEF Pause
  <2>2. /\ v.page = u.page /\ v.store = u.store /\ v.pend = u.pend /\ v.gesture = u.gesture
        /\ v.hook = [u.hook EXCEPT !.paused = TRUE] /\ v.events = Append(u.events, "pause")
    BY DEF UI
  <2>3. v.events \in Seq(MediaEvent) /\ Queued(v) = Queued(u) \cup {"pause"}
    <3>1. u.events \in Seq(MediaEvent) /\ "pause" \in MediaEvent
      BY DEF UI, MediaEvent
    <3>2. v.events = Append(u.events, "pause")
      BY <2>2
    <3> DEFINE s == u.events
               t == v.events
    <3>3. s \in Seq(MediaEvent) /\ t = Append(s, "pause")
      BY <3>1, <3>2
    <3> HIDE DEF s, t, v
    <3>4. t \in Seq(MediaEvent) /\ {t[i] : i \in DOMAIN t} = {s[i] : i \in DOMAIN s} \cup {"pause"}
      BY <3>1, <3>3, QueuedAppend
    <3> QED
      BY <3>4 DEF s, t, Queued
  <2>4. v \in UI
    BY <2>3 DEF UI, Hook
  <2>5. /\ v.hook.paused /\ v.hook.open = u.hook.open /\ v.hook.key = u.hook.key
        /\ v.hook.buf = u.hook.buf /\ v.hook.time = u.hook.time
    BY <2>2 DEF UI, Hook
  <2> HIDE DEF v
  <2> QED
    BY <1>2, <2>1, <2>2, <2>3, <2>4, <2>5 DEF Gentle, SameStream
<1>3. u.hook.paused \in BOOLEAN
  BY DEF UI, Hook
<1> QED
  BY <1>1, <1>2, <1>3

LEMMA PlayFacts ==
  ASSUME NEW u \in UI
  PROVE  /\ Play(u) \in UI /\ SameStream(u, Play(u))
         /\ Play(u).page = u.page /\ Play(u).store = u.store
         /\ Play(u).pend = u.pend /\ Play(u).gesture = u.gesture
         /\ Play(u).hook.snap = u.hook.snap /\ Play(u).hook.ended = u.hook.ended
         /\ Play(u).hook.playing = u.hook.playing
         /\ "ended" \in Queued(Play(u)) => "ended" \in Queued(u)
<1>1. CASE ~u.hook.paused
  BY <1>1 DEF Play, SameStream
<1>2. CASE u.hook.paused
  <2> DEFINE news == <<"play", IF u.hook.time < u.hook.buf THEN "playing" ELSE "waiting">>
             v == [u EXCEPT !.hook.paused = FALSE, !.hook.blocked = FALSE,
                            !.events = @ \o news]
  <2>1. Play(u) = v
    BY <1>2 DEF Play
  <2>2. /\ v.page = u.page /\ v.store = u.store /\ v.pend = u.pend /\ v.gesture = u.gesture
        /\ v.events = u.events \o news
    BY DEF UI
  <2>3. /\ v.hook.open = u.hook.open /\ v.hook.key = u.hook.key
        /\ v.hook.buf = u.hook.buf /\ v.hook.time = u.hook.time
        /\ v.hook.snap = u.hook.snap /\ v.hook.ended = u.hook.ended
        /\ v.hook.playing = u.hook.playing
    BY DEF UI, Hook
  <2>4. v.events \in Seq(MediaEvent) /\ ("ended" \in Queued(v) => "ended" \in Queued(u))
    <3> DEFINE s == u.events
               t == v.events
    <3>1. s \in Seq(MediaEvent) /\ t = s \o news
      BY <2>2 DEF UI
    <3>2. news \in Seq(MediaEvent) /\ "ended" \notin {news[i] : i \in DOMAIN news}
      BY DEF MediaEvent
    <3> HIDE DEF s, t, v, news
    <3>3. t \in Seq(MediaEvent)
          /\ ("ended" \in {t[i] : i \in DOMAIN t} => "ended" \in {s[i] : i \in DOMAIN s})
      BY <3>1, <3>2, QueuedJoin
    <3> QED
      BY <3>3 DEF s, t, Queued
  <2>5. v \in UI
    BY <2>4 DEF UI, Hook
  <2> HIDE DEF v
  <2> QED
    BY <2>1, <2>2, <2>3, <2>4, <2>5 DEF SameStream
<1>3. u.hook.paused \in BOOLEAN
  BY DEF UI, Hook
<1> QED
  BY <1>1, <1>2, <1>3

\* The stop of a finished job at the end of its audio.
Ending(u) ==
  /\ u.store.seek = NoSeek /\ u.store.intent /\ u.store.terminal
  /\ Rendered(u) > 0 /\ u.hook.buf >= Rendered(u)
  /\ u.hook.time > 0 /\ u.hook.time >= u.hook.buf

LEMMA UpdateFacts ==
  ASSUME NEW u \in UI, NEW force \in BOOLEAN
  PROVE  LET v == Update(u, force)
         IN  /\ v \in UI /\ Gentle(u, v) /\ SameStream(u, v)
             /\ v.page = u.page /\ v.store = u.store
             /\ v.pend = u.pend /\ v.gesture = u.gesture
             /\ v.hook.snap = [time |-> u.hook.time, buf |-> u.hook.buf,
                               paused |-> u.hook.paused]
             /\ v.hook.ended => u.hook.ended \/ Ending(u)
             /\ u.hook.paused /\ (force \/ ~u.hook.playing) => ~v.hook.playing
             /\ u.hook.paused => v.events = u.events
<1> DEFINE h == u.hook
           now == [time |-> h.time, buf |-> h.buf, paused |-> h.paused]
           advanced == now.time > h.snap.time
           terminalEnded ==
             /\ u.store.seek = NoSeek /\ u.store.intent /\ u.store.terminal
             /\ Rendered(u) > 0 /\ now.buf >= Rendered(u)
             /\ now.time > 0 /\ now.time >= now.buf /\ ~advanced
           boundary == StoppedAtBoundary(u, now)
           e == [Pause(u) EXCEPT !.hook.snap = now, !.hook.playing = FALSE,
                                 !.hook.waiting = FALSE, !.hook.ended = TRUE]
           w == [u EXCEPT !.hook.snap = now,
                          !.hook.playing = ~now.paused /\ ~boundary /\ (advanced \/ @),
                          !.hook.waiting = boundary \/ (~now.paused /\ ~advanced /\ @)]
<1>1. Update(u, force) = IF terminalEnded THEN e
                         ELSE IF ~force /\ now = h.snap THEN u ELSE w
  BY DEF Update
<1>t. now \in [time : 0 .. Longest, buf : 0 .. Longest, paused : BOOLEAN]
      /\ now.paused = h.paused /\ h.paused \in BOOLEAN /\ h.playing \in BOOLEAN
  BY DEF UI, Hook
<1>2. CASE terminalEnded
  <2>1. Update(u, force) = e
    BY <1>1, <1>2
  <2>2. /\ Pause(u) \in UI /\ Gentle(u, Pause(u)) /\ SameStream(u, Pause(u))
        /\ Pause(u).page = u.page /\ Pause(u).store = u.store
        /\ Pause(u).pend = u.pend /\ Pause(u).gesture = u.gesture
        /\ Pause(u).hook.paused /\ (u.hook.paused => Pause(u) = u)
    BY PauseFacts
  <2> DEFINE p == Pause(u)
             x == [p EXCEPT !.hook.snap = now, !.hook.playing = FALSE,
                            !.hook.waiting = FALSE, !.hook.ended = TRUE]
  <2>3. /\ x \in UI /\ SameStream(p, x) /\ x.page = p.page /\ x.store = p.store
        /\ x.pend = p.pend /\ x.gesture = p.gesture /\ x.events = p.events
        /\ x.hook.paused = p.hook.paused /\ x.hook.snap = now
        /\ ~x.hook.playing
    <3>1. p \in UI
      BY <2>2
    <3> HIDE DEF now, p
    <3>2. /\ x.page = p.page /\ x.store = p.store
          /\ x.pend = p.pend /\ x.gesture = p.gesture /\ x.events = p.events
      BY <3>1 DEF UI
    <3>3. /\ x.hook.open = p.hook.open /\ x.hook.key = p.hook.key
          /\ x.hook.buf = p.hook.buf /\ x.hook.time = p.hook.time
          /\ x.hook.paused = p.hook.paused /\ x.hook.snap = now
          /\ ~x.hook.playing
      BY <3>1 DEF UI, Hook
    <3>4. x \in UI
      BY <3>1, <1>t DEF UI, Hook
    <3> QED
      BY <3>2, <3>3, <3>4 DEF SameStream
  <2>4. /\ e \in UI /\ SameStream(Pause(u), e) /\ e.page = u.page /\ e.store = u.store
        /\ e.pend = u.pend /\ e.gesture = u.gesture /\ e.events = Pause(u).events
        /\ e.hook.paused = Pause(u).hook.paused /\ e.hook.snap = now /\ ~e.hook.playing
    BY <2>2, <2>3
  <2>5. Ending(u)
    BY <1>2 DEF Ending
  <2> HIDE DEF e, terminalEnded
  <2>6. Gentle(u, e)
    BY <2>2, <2>4 DEF Gentle, Queued
  <2> QED
    BY <2>1, <2>2, <2>4, <2>5, <2>6 DEF SameStream
<1>3. CASE ~terminalEnded /\ ~force /\ now = h.snap
  <2>1. Update(u, force) = u
    BY <1>1, <1>3
  <2> QED
    BY <2>1, <1>3 DEF Gentle, SameStream
<1>4. CASE ~terminalEnded /\ ~(~force /\ now = h.snap)
  <2>1. Update(u, force) = w
    BY <1>1, <1>4
  <2>b. boundary \in BOOLEAN /\ advanced \in BOOLEAN
    BY DEF StoppedAtBoundary
  <2> HIDE DEF now, boundary, advanced, terminalEnded
  <2>2. /\ w.page = u.page /\ w.store = u.store /\ w.pend = u.pend /\ w.gesture = u.gesture
        /\ w.events = u.events
    BY DEF UI
  <2>3. /\ w.hook.open = u.hook.open /\ w.hook.key = u.hook.key
        /\ w.hook.buf = u.hook.buf /\ w.hook.time = u.hook.time
        /\ w.hook.snap = now /\ w.hook.ended = u.hook.ended
        /\ w.hook.playing = (~now.paused /\ ~boundary /\ (advanced \/ u.hook.playing))
        /\ w.hook.paused = u.hook.paused
    BY DEF UI, Hook
  <2>4. w \in UI
    BY <1>t, <2>b DEF UI, Hook
  <2>5. Gentle(u, w)
    BY <2>2, <2>3 DEF Gentle, Queued
  <2> HIDE DEF w
  <2> QED
    BY <1>t, <2>1, <2>2, <2>3, <2>4, <2>5 DEF SameStream, now
<1> QED
  BY <1>2, <1>3, <1>4

\* The element holds nothing, and nothing of it is heard of any more.
Emptied(u) ==
  /\ u.hook.buf = 0 /\ u.hook.time = 0 /\ u.hook.paused /\ ~u.hook.ended
  /\ u.events = <<>>

LEMMA NothingQueued ==
  ASSUME NEW v, v.events = <<>>
  PROVE  Queued(v) = {}
<1>1. DOMAIN <<>> = {}
  OBVIOUS
<1> QED
  BY <1>1 DEF Queued

LEMMA TearDownFacts ==
  ASSUME NEW u \in UI
  PROVE  LET v == TearDown(u)
         IN  /\ v \in UI /\ Gentle(u, v) /\ Emptied(v) /\ ~v.hook.open
             /\ v.page = u.page /\ v.store = u.store
             /\ v.pend = u.pend /\ v.gesture = u.gesture
<1> DEFINE v == TearDown(u)
<1>1. /\ v.page = u.page /\ v.store = u.store /\ v.pend = u.pend /\ v.gesture = u.gesture
      /\ v.events = <<>>
  BY DEF TearDown, UI
<1>2. /\ ~v.hook.open /\ v.hook.buf = 0 /\ v.hook.time = 0 /\ v.hook.paused
      /\ ~v.hook.ended
  BY DEF TearDown, UI, Hook
<1>3. v \in UI
  <2>1. 0 \in 0 .. Longest /\ <<>> \in Seq(MediaEvent)
    BY Chunks
  <2> HIDE DEF Longest
  <2> QED
    BY <2>1 DEF TearDown, UI, Hook
<1> HIDE DEF v
<1>4. Queued(v) = {}
  BY <1>1, NothingQueued
<1> QED
  BY <1>1, <1>2, <1>3, <1>4 DEF Gentle, Emptied, v

LEMMA OpenStreamFacts ==
  ASSUME NEW u \in UI
  PROVE  LET v == OpenStream(u)
         IN  /\ v \in UI /\ Gentle(u, v) /\ Emptied(v)
             /\ v.hook.open /\ v.hook.key = <<u.store.job, u.store.anchor>>
             /\ v.page = u.page /\ v.store = u.store
             /\ v.pend = u.pend /\ v.gesture = u.gesture
<1> DEFINE t == TearDown(u)
           v == [t EXCEPT !.hook = [@ EXCEPT !.open = TRUE,
                                   !.key = <<u.store.job, u.store.anchor>>,
                                   !.snap = [time |-> 0, buf |-> 0, paused |-> TRUE],
                                   !.playing = FALSE, !.waiting = FALSE]]
<1>0. OpenStream(u) = v
  BY DEF OpenStream
<1>1. /\ t \in UI /\ Gentle(u, t) /\ Emptied(t)
      /\ t.page = u.page /\ t.store = u.store /\ t.pend = u.pend /\ t.gesture = u.gesture
  BY TearDownFacts
<1> HIDE DEF t
<1>2. /\ v.page = u.page /\ v.store = u.store /\ v.pend = u.pend /\ v.gesture = u.gesture
      /\ v.events = t.events
  BY <1>1 DEF UI
<1>3. /\ v.hook.open /\ v.hook.key = <<u.store.job, u.store.anchor>>
      /\ v.hook.buf = t.hook.buf /\ v.hook.time = t.hook.time
      /\ v.hook.paused = t.hook.paused /\ v.hook.ended = t.hook.ended
  BY <1>1 DEF UI, Hook
<1>4. v \in UI
  <2>1. 0 \in 0 .. Longest
    BY Chunks
  <2>2. <<u.store.job, u.store.anchor>> \in (Jobs \cup {NoJob}) \X Chunk
    BY DEF UI, Store
  <2> HIDE DEF Longest
  <2> QED
    BY <1>1, <2>1, <2>2 DEF UI, Hook
<1> HIDE DEF v
<1>5. Queued(v) = {}
  BY <1>1, <1>2, NothingQueued DEF Emptied
<1> QED
  BY <1>0, <1>1, <1>2, <1>3, <1>4, <1>5 DEF Gentle, Emptied

\* The stream does not fit the store: it is emptied or opened again.
Reopens(u) ==
  IF u.store.chunks = NoManifest THEN u.hook.open
  ELSE ~(u.hook.open /\ u.hook.key = <<u.store.job, u.store.anchor>>)

LEMMA StreamFacts ==
  ASSUME NEW u \in UI
  PROVE  LET v == Stream(u)
         IN  /\ v \in UI /\ Gentle(u, v)
             /\ v.page = u.page /\ v.store = u.store
             /\ v.pend = u.pend /\ v.gesture = u.gesture
             /\ v.hook.open <=> u.store.chunks # NoManifest
             /\ v.hook.open => v.hook.key = <<u.store.job, u.store.anchor>>
             /\ IF Reopens(u) THEN Emptied(v) ELSE v = u
<1>b. u.hook.open \in BOOLEAN
  BY DEF UI, Hook
<1>1. CASE u.store.chunks = NoManifest /\ u.hook.open
  <2>1. Stream(u) = TearDown(u)
    BY <1>1 DEF Stream
  <2> QED
    BY <1>1, <2>1, TearDownFacts DEF Reopens
<1>2. CASE u.store.chunks # NoManifest
           /\ ~(u.hook.open /\ u.hook.key = <<u.store.job, u.store.anchor>>)
  <2>1. Stream(u) = OpenStream(u)
    BY <1>2 DEF Stream
  <2> QED
    BY <1>2, <2>1, OpenStreamFacts DEF Reopens
<1>3. CASE ~Reopens(u)
  <2>1. Stream(u) = u
    BY <1>3 DEF Stream, Reopens
  <2> QED
    BY <1>3, <1>b, <2>1 DEF Reopens, Gentle
<1> QED
  BY <1>1, <1>2, <1>3 DEF Reopens

LEMMA SetSourceFacts ==
  ASSUME NEW u \in UI
  PROVE  LET v == SetSource(u)
             p == u.page
         IN  /\ v \in UI /\ Gentle(u, v)
             /\ v.page = u.page /\ v.hook = u.hook /\ v.events = u.events
             /\ v.pend = u.pend /\ v.gesture = u.gesture
             /\ v.store.job = u.store.job /\ v.store.terminal = u.store.terminal
             /\ v.store.anchor = u.store.anchor /\ v.store.seek = u.store.seek
             /\ v.store.intent = u.store.intent
             /\ p.job = NoJob => v = u
             /\ p.job # NoJob =>
                  /\ v.store.chunks = (IF p.loaded THEN RunLength(p.known, u.store.anchor)
                                       ELSE NoManifest)
                  /\ v.store.offset = Before(p.known, u.store.anchor)
<1>1. CASE u.page.job = NoJob
  BY <1>1 DEF SetSource, Gentle
<1>2. CASE u.page.job # NoJob
  <2> DEFINE v == SetSource(u)
             n == IF u.page.loaded THEN RunLength(u.page.known, u.store.anchor) ELSE NoManifest
             b == Before(u.page.known, u.store.anchor)
             d == Duration(u.page.known)
  <2>1. n \in {NoManifest} \cup 0 .. Longest /\ b \in 0 .. Longest /\ d \in 0 .. Longest
    <3>1. u.page.known \in Known /\ u.store.anchor \in Chunk
      BY DEF UI, Page, Store, Known
    <3>2. RunLength(u.page.known, u.store.anchor) \in 0 .. Longest /\ b \in 0 .. Longest
          /\ d \in 0 .. Longest
      BY <3>1, Counted
    <3> QED
      BY <3>2
  <2>2. v = [u EXCEPT !.store.chunks = n, !.store.offset = b, !.store.duration = d]
    BY <1>2 DEF SetSource
  <2> HIDE DEF n, b, d, v
  <2>3. /\ v.page = u.page /\ v.hook = u.hook /\ v.events = u.events
        /\ v.pend = u.pend /\ v.gesture = u.gesture
    BY <2>2 DEF UI
  <2>4. /\ v.store.job = u.store.job /\ v.store.terminal = u.store.terminal
        /\ v.store.anchor = u.store.anchor /\ v.store.seek = u.store.seek
        /\ v.store.intent = u.store.intent
        /\ v.store.chunks = n /\ v.store.offset = b
    BY <2>2 DEF UI, Store
  <2>5. v \in UI
    BY <2>1, <2>2 DEF UI, Store
  <2>6. Gentle(u, v)
    BY <2>3, <2>4 DEF Gentle, Queued
  <2> QED
    BY <1>2, <2>3, <2>4, <2>5, <2>6 DEF v, n, b
<1> QED
  BY <1>1, <1>2

LEMMA OpenPageFacts ==
  ASSUME NEW u \in UI, NEW j \in Jobs, NEW play \in BOOLEAN
  PROVE  LET v == OpenPage(u, j, play)
         IN  /\ v \in UI /\ Gentle(u, v)
             /\ v.page.job = j /\ ~v.page.loaded
             /\ v.store.job = u.store.job /\ v.store.terminal = u.store.terminal
             /\ v.store.anchor = u.store.anchor /\ v.store.seek = u.store.seek
             /\ v.store.chunks = NoManifest /\ ~v.hook.open
             /\ u.hook.open => Emptied(v)
             /\ ~u.hook.open => v.hook = u.hook /\ v.events = u.events
<1> DEFINE w == [u EXCEPT !.page = [job |-> j, loaded |-> FALSE, play |-> play,
                                    known |-> Unknown]]
           s == SetSource(w)
<1>1. w \in UI /\ Unknown \in Known
  BY DEF UI, Page, Unknown, Known, Status
<1>2. /\ w.store = u.store /\ w.hook = u.hook /\ w.events = u.events
      /\ w.page.job = j /\ ~w.page.loaded
  BY DEF UI
<1>3. Gentle(u, w)
  BY <1>2 DEF Gentle, Queued
<1> HIDE DEF w
<1>4. j # NoJob
  BY JobNumbers
<1>5. /\ s \in UI /\ Gentle(w, s) /\ s.page = w.page /\ s.hook = w.hook /\ s.events = w.events
      /\ s.store.job = w.store.job /\ s.store.terminal = w.store.terminal
      /\ s.store.anchor = w.store.anchor /\ s.store.seek = w.store.seek
      /\ s.store.chunks = NoManifest
  BY <1>1, <1>2, <1>4, SetSourceFacts
<1>6. OpenPage(u, j, play) = Stream(s)
  BY DEF OpenPage, w
<1> HIDE DEF s
<1>7. LET v == Stream(s)
      IN  /\ v \in UI /\ Gentle(s, v) /\ v.page = s.page /\ v.store = s.store
          /\ ~v.hook.open
          /\ IF s.hook.open THEN Emptied(v) ELSE v = s
  BY <1>5, StreamFacts DEF Reopens
<1> DEFINE v == Stream(s)
<1> HIDE DEF v
<1>8. Gentle(u, v)
  <2>1. \A x \in UI : x.hook.paused \in BOOLEAN
    BY DEF UI, Hook
  <2>2. Gentle(u, s)
    BY <2>1, <1>1, <1>3, <1>5, GentleTransitive
  <2> QED
    BY <2>1, <2>2, <1>5, <1>7, GentleTransitive DEF v
<1> QED
  BY <1>2, <1>5, <1>6, <1>7, <1>8 DEF v

LEMMA OpenJobFacts ==
  ASSUME NEW u \in UI
  PROVE  LET v == OpenJob(u)
         IN  /\ v \in UI /\ Gentle(u, v)
             /\ v.page = u.page /\ v.hook = u.hook /\ v.events = u.events
             /\ v.pend = u.pend /\ v.gesture = u.gesture
             /\ v.store.job = u.page.job /\ v.store.terminal = Terminal(u.page.known)
             /\ IF u.store.job = u.page.job
                THEN /\ v.store.anchor = u.store.anchor /\ v.store.seek = u.store.seek
                     /\ v.store.chunks = u.store.chunks /\ v.store.offset = u.store.offset
                     /\ v.store.intent = u.store.intent
                ELSE v.store.anchor = 0 /\ v.store.seek = NoSeek
<1> DEFINE t == Terminal(u.page.known)
           v == OpenJob(u)
<1>t. t \in BOOLEAN
  BY DEF Terminal
<1>1. CASE u.store.job = u.page.job
  <2>1. v = [u EXCEPT !.store.terminal = t]
    BY <1>1 DEF OpenJob
  <2> HIDE DEF t, v
  <2>2. /\ v.page = u.page /\ v.hook = u.hook /\ v.events = u.events
        /\ v.pend = u.pend /\ v.gesture = u.gesture
    BY <2>1 DEF UI
  <2>3. /\ v.store.job = u.store.job /\ v.store.terminal = t
        /\ v.store.anchor = u.store.anchor /\ v.store.seek = u.store.seek
        /\ v.store.chunks = u.store.chunks /\ v.store.offset = u.store.offset
        /\ v.store.intent = u.store.intent
    BY <2>1 DEF UI, Store
  <2>4. v \in UI
    BY <1>t, <2>1 DEF UI, Store
  <2> QED
    BY <1>1, <2>2, <2>3, <2>4 DEF Gentle, Queued, t, v
<1>2. CASE u.store.job # u.page.job
  <2> DEFINE i == u.store.job = NoJob /\ u.store.intent
             s == [job |-> u.page.job, terminal |-> t, chunks |-> NoManifest, anchor |-> 0,
                   offset |-> 0, duration |-> 0, seek |-> NoSeek, intent |-> i]
  <2>1. v = [u EXCEPT !.store = s]
    BY <1>2 DEF OpenJob
  <2>2. s \in Store
    <3>1. u.page.job \in Jobs \cup {NoJob} /\ 0 \in Chunk /\ 0 \in 0 .. Longest
      BY Chunks DEF UI, Page
    <3>2. i \in BOOLEAN
      BY DEF UI, Store
    <3> HIDE DEF t, i
    <3> QED
      BY <1>t, <3>1, <3>2 DEF Store
  <2>3. /\ s.job = u.page.job /\ s.terminal = t /\ s.anchor = 0 /\ s.seek = NoSeek
        /\ s.intent = i
    OBVIOUS
  <2> HIDE DEF s, t, v
  <2>4. /\ v.page = u.page /\ v.hook = u.hook /\ v.events = u.events /\ v.store = s
        /\ v.pend = u.pend /\ v.gesture = u.gesture
    BY <2>1 DEF UI
  <2>5. v \in UI
    BY <2>1, <2>2 DEF UI
  <2> QED
    BY <1>2, <2>3, <2>4, <2>5 DEF Gentle, Queued, t, v
<1> QED
  BY <1>1, <1>2

LEMMA CollectHeardFacts ==
  ASSUME NEW u \in UI
  PROVE  LET v == CollectHeard(u)
         IN  /\ v \in UI /\ v.page = u.page /\ v.store = u.store /\ v.hook = u.hook
             /\ v.events = u.events /\ v.gesture = u.gesture
<1>1. ChunksPlayed(u) \in SUBSET Chunk
  BY DEF ChunksPlayed
<1> QED
  BY <1>1 DEF CollectHeard, UI

LEMMA PlaceFacts ==
  ASSUME NEW u \in UI, NEW t \in 0 .. Longest
  PROVE  LET v == Place(u, t)
         IN  /\ v \in UI /\ Gentle(u, v)
             /\ v.page = u.page /\ v.store = u.store /\ v.gesture = u.gesture
             /\ v.pend = u.pend
             /\ v.hook.open = u.hook.open /\ v.hook.key = u.hook.key
             /\ v.hook.buf = u.hook.buf /\ v.hook.time = t
             /\ v.hook.snap.time = t /\ v.hook.snap.buf = u.hook.buf
             /\ v.hook.ended => u.store.seek = NoSeek /\ t > 0
             /\ u.hook.paused => ~v.hook.playing /\ v.events = u.events
<1> DEFINE h == u.hook
           news == IF h.paused THEN <<>>
                   ELSE IF t = h.buf THEN <<"waiting">>
                   ELSE IF h.time = h.buf THEN <<"playing">> ELSE <<>>
           w == [u EXCEPT !.hook.time = t, !.hook.ended = FALSE, !.events = @ \o news]
<1>0. Place(u, t) = Update(w, TRUE)
  BY DEF Place
<1>1. /\ w.page = u.page /\ w.store = u.store /\ w.pend = u.pend /\ w.gesture = u.gesture
      /\ w.events = u.events \o news
  BY DEF UI
<1>2. /\ w.hook.open = u.hook.open /\ w.hook.key = u.hook.key
      /\ w.hook.buf = u.hook.buf /\ w.hook.time = t /\ ~w.hook.ended
      /\ w.hook.paused = u.hook.paused
  BY DEF UI, Hook
<1>3. /\ w.events \in Seq(MediaEvent)
      /\ (u.hook.paused => w.events = u.events)
      /\ ("ended" \in Queued(w) => "ended" \in Queued(u))
      /\ ("play" \in Queued(w) => "play" \in Queued(u))
  <2> DEFINE s == u.events
             r == w.events
  <2>1. s \in Seq(MediaEvent) /\ r = s \o news
    BY <1>1 DEF UI
  <2>2. news \in Seq(MediaEvent) /\ (u.hook.paused => news = <<>>)
    <3>1. \A e \in MediaEvent : <<e>> \in Seq(MediaEvent)
      OBVIOUS
    <3>2. <<>> \in Seq(MediaEvent) /\ "waiting" \in MediaEvent /\ "playing" \in MediaEvent
      BY DEF MediaEvent
    <3>3. news \in {<<>>, <<"waiting">>, <<"playing">>}
      OBVIOUS
    <3> QED
      BY <3>1, <3>2, <3>3
  <2>3. "ended" \notin {news[i] : i \in DOMAIN news} /\ "play" \notin {news[i] : i \in DOMAIN news}
    OBVIOUS
  <2> HIDE DEF s, r, w, news
  <2>4. /\ r \in Seq(MediaEvent)
        /\ ("ended" \in {r[i] : i \in DOMAIN r} => "ended" \in {s[i] : i \in DOMAIN s})
        /\ ("play" \in {r[i] : i \in DOMAIN r} => "play" \in {s[i] : i \in DOMAIN s})
    BY <2>1, <2>2, <2>3, QueuedJoin
  <2>5. u.hook.paused => r = s
    BY <2>1, <2>2
  <2> QED
    BY <2>4, <2>5 DEF s, r, Queued
<1>4. w \in UI
  BY <1>3 DEF UI, Hook
<1>5. Gentle(u, w)
  BY <1>1, <1>2, <1>3 DEF Gentle
<1> HIDE DEF w
<1> DEFINE v == Update(w, TRUE)
<1>6. /\ v \in UI /\ Gentle(w, v) /\ SameStream(w, v)
      /\ v.page = w.page /\ v.store = w.store
      /\ v.pend = w.pend /\ v.gesture = w.gesture
      /\ v.hook.snap = [time |-> w.hook.time, buf |-> w.hook.buf,
                        paused |-> w.hook.paused]
      /\ v.hook.ended => w.hook.ended \/ Ending(w)
      /\ w.hook.paused => ~v.hook.playing
      /\ w.hook.paused => v.events = w.events
  BY <1>4, UpdateFacts
<1> HIDE DEF v
<1>7. \A x \in UI : x.hook.paused \in BOOLEAN
  BY DEF UI, Hook
<1>8. Gentle(u, v)
  BY <1>4, <1>5, <1>6, <1>7, GentleTransitive
<1>9. v.hook.snap.time = t /\ v.hook.snap.buf = u.hook.buf
  BY <1>2, <1>6
<1>10. v.hook.ended => u.store.seek = NoSeek /\ t > 0
  BY <1>1, <1>2, <1>6 DEF Ending
<1> QED
  BY <1>0, <1>1, <1>2, <1>3, <1>6, <1>8, <1>9, <1>10 DEF v, SameStream

LEMMA StreamTimeRange ==
  ASSUME NEW u \in UI, u.store.seek # NoSeek
  PROVE  StreamTime(u, u.store.seek) \in Nat
<1>1. u.store.seek \in Nat /\ u.store.offset \in Nat
  BY Chunks DEF UI, Store
<1> QED
  BY <1>1 DEF StreamTime

\* The pending seek can be applied.
Fires(u) ==
  /\ u.store.seek # NoSeek /\ Primed(u)
  /\ StreamTime(u, u.store.seek) <= u.hook.snap.buf

LEMMA ApplySeekFacts ==
  ASSUME NEW u \in UI
  PROVE  LET v == ApplySeek(u)
         IN  /\ v \in UI /\ Gentle(u, v)
             /\ v.page = u.page /\ v.gesture = u.gesture
             /\ v.store.job = u.store.job /\ v.store.terminal = u.store.terminal
             /\ v.store.anchor = u.store.anchor /\ v.store.chunks = u.store.chunks
             /\ v.store.offset = u.store.offset /\ v.store.intent = u.store.intent
             /\ v.hook.open = u.hook.open /\ v.hook.key = u.hook.key
             /\ v.hook.buf = u.hook.buf
             /\ ~Fires(u) => v = u
             /\ Fires(u) => /\ v.store.seek = NoSeek
                            /\ v.hook.time = StreamTime(u, u.store.seek)
                            /\ v.hook.snap.time = v.hook.time
                            /\ v.hook.snap.buf = u.hook.buf
                            /\ ~v.hook.ended
                            /\ u.hook.paused => ~v.hook.playing /\ v.events = u.events
<1> DEFINE t == StreamTime(u, u.store.seek)
<1>1. CASE ~Fires(u)
  <2>1. ApplySeek(u) = u
    <3>1. CASE u.store.seek = NoSeek \/ ~Primed(u)
      BY <3>1 DEF ApplySeek
    <3>2. CASE u.store.seek # NoSeek /\ Primed(u)
      <4>1. t \in Nat /\ u.hook.snap.buf \in Nat
        BY <3>2, StreamTimeRange, Chunks DEF UI, Hook
      <4>2. t > u.hook.snap.buf
        BY <1>1, <3>2, <4>1 DEF Fires
      <4> QED
        BY <4>2 DEF ApplySeek
    <3> QED
      BY <3>1, <3>2
  <2> QED
    BY <1>1, <2>1 DEF Gentle
<1>2. CASE Fires(u)
  <2>1. t \in Nat /\ u.hook.snap.buf \in 0 .. Longest /\ t <= u.hook.snap.buf
    BY <1>2, StreamTimeRange DEF UI, Hook, Fires
  <2>2. t \in 0 .. Longest
    BY <2>1, Chunks
  <2> DEFINE w == Place(u, t)
             v == [w EXCEPT !.store.seek = NoSeek]
  <2>3. ApplySeek(u) = v
    BY <1>2, <2>1 DEF ApplySeek, Fires
  <2>4. /\ w \in UI /\ Gentle(u, w)
        /\ w.page = u.page /\ w.store = u.store /\ w.gesture = u.gesture
        /\ w.hook.open = u.hook.open /\ w.hook.key = u.hook.key
        /\ w.hook.buf = u.hook.buf /\ w.hook.time = t
        /\ w.hook.snap.time = t /\ w.hook.snap.buf = u.hook.buf
        /\ w.hook.ended => u.store.seek = NoSeek /\ t > 0
        /\ u.hook.paused => ~w.hook.playing /\ w.events = u.events
    BY <2>2, PlaceFacts
  <2> HIDE DEF w
  <2>5. v.page = w.page /\ v.hook = w.hook /\ v.events = w.events /\ v.gesture = w.gesture
    BY <2>4 DEF UI
  <2>6. /\ v.store.job = w.store.job /\ v.store.terminal = w.store.terminal
        /\ v.store.anchor = w.store.anchor /\ v.store.chunks = w.store.chunks
        /\ v.store.offset = w.store.offset /\ v.store.intent = w.store.intent
        /\ v.store.seek = NoSeek
    BY <2>4 DEF UI, Store
  <2>7. v \in UI
    BY <2>4 DEF UI, Store
  <2> HIDE DEF v
  <2>8. Gentle(u, v)
    BY <2>4, <2>5, <2>6 DEF Gentle, Queued
  <2>9. u.store.seek # NoSeek
    BY <1>2 DEF Fires
  <2> QED
    BY <1>2, <2>3, <2>4, <2>5, <2>6, <2>7, <2>8, <2>9
<1> QED
  BY <1>1, <1>2

LEMMA MarkStalledFacts ==
  ASSUME NEW u \in UI
  PROVE  LET v == MarkStalled(u)
         IN  /\ v \in UI /\ v.page = u.page /\ v.store = u.store
             /\ v.events = u.events /\ v.gesture = u.gesture /\ SameStream(u, v)
             /\ v.hook.paused = u.hook.paused /\ v.hook.snap = u.hook.snap
             /\ v.hook.playing = u.hook.playing /\ v.hook.ended = u.hook.ended
<1> DEFINE w == /\ u.store.intent /\ ~u.store.terminal /\ Primed(u) /\ Rendered(u) > 0
                /\ u.hook.snap.time >= Rendered(u) /\ u.hook.snap.buf <= u.hook.snap.time
           v == MarkStalled(u)
<1>1. w \in BOOLEAN
  OBVIOUS
<1>2. v = [u EXCEPT !.hook.waiting = @ \/ w]
  BY DEF MarkStalled
<1> HIDE DEF w, v
<1>3. v.page = u.page /\ v.store = u.store /\ v.events = u.events /\ v.gesture = u.gesture
  BY <1>2 DEF UI
<1>4. /\ v.hook.open = u.hook.open /\ v.hook.key = u.hook.key
      /\ v.hook.buf = u.hook.buf /\ v.hook.time = u.hook.time
      /\ v.hook.paused = u.hook.paused /\ v.hook.snap = u.hook.snap
      /\ v.hook.playing = u.hook.playing /\ v.hook.ended = u.hook.ended
  BY <1>2 DEF UI, Hook
<1>5. v \in UI
  BY <1>1, <1>2 DEF UI, Hook
<1> QED
  BY <1>3, <1>4, <1>5 DEF v, SameStream

\* A finished job whose playhead rests at the end.
Finished(u) ==
  /\ u.store.terminal /\ ~u.hook.playing /\ Rendered(u) > 0
  /\ u.hook.snap.time >= Rendered(u)

LEMMA ClearAtEndFacts ==
  ASSUME NEW u \in UI
  PROVE  LET v == ClearAtEnd(u)
         IN  /\ v \in UI /\ v.page = u.page /\ v.hook = u.hook
             /\ v.events = u.events /\ v.gesture = u.gesture
             /\ v.store.job = u.store.job /\ v.store.terminal = u.store.terminal
             /\ v.store.anchor = u.store.anchor /\ v.store.chunks = u.store.chunks
             /\ v.store.offset = u.store.offset /\ v.store.seek = u.store.seek
             /\ v.store.intent => u.store.intent /\ ~Finished(u)
<1> DEFINE v == ClearAtEnd(u)
<1>1. Finished(u) \in BOOLEAN
  BY DEF Finished
<1>2. v = [u EXCEPT !.store.intent = @ /\ ~Finished(u)]
  BY DEF ClearAtEnd, Finished
<1> HIDE DEF v
<1>3. v.page = u.page /\ v.hook = u.hook /\ v.events = u.events /\ v.gesture = u.gesture
  BY <1>2 DEF UI
<1>4. /\ v.store.job = u.store.job /\ v.store.terminal = u.store.terminal
      /\ v.store.anchor = u.store.anchor /\ v.store.chunks = u.store.chunks
      /\ v.store.offset = u.store.offset /\ v.store.seek = u.store.seek
      /\ v.store.intent = (u.store.intent /\ ~Finished(u))
  BY <1>2 DEF UI, Store
<1>5. v \in UI
  BY <1>1, <1>2 DEF UI, Store
<1> QED
  BY <1>3, <1>4, <1>5 DEF v

LEMMA TurnsTerminalFacts ==
  ASSUME NEW u \in UI, NEW v \in UI
  PROVE  LET w == TurnsTerminal(u, v)
         IN  /\ w \in UI /\ Gentle(v, w) /\ SameStream(v, w)
             /\ w.page = v.page /\ w.store = v.store /\ w.gesture = v.gesture
             /\ w.hook.snap.time \in {v.hook.snap.time, v.hook.time}
             /\ w.hook.snap.buf \in {v.hook.snap.buf, v.hook.buf}
             /\ w.hook.ended => \/ v.hook.ended
                                \/ v.store.terminal /\ ~u.store.terminal /\ Ending(v)
             /\ v.hook.paused => w.events = v.events
             /\ v.hook.paused /\ ~v.hook.playing => ~w.hook.playing
             /\ u.store.terminal => w = v
<1> DEFINE w == TurnsTerminal(u, v)
<1>1. CASE ~(v.store.terminal /\ ~u.store.terminal)
  <2>1. w = v
    BY <1>1 DEF TurnsTerminal
  <2> QED
    BY <2>1 DEF Gentle, SameStream
<1>2. CASE v.store.terminal /\ ~u.store.terminal
  <2> DEFINE x == [v EXCEPT !.hook.waiting = FALSE]
  <2>1. w = Update(x, TRUE)
    BY <1>2 DEF TurnsTerminal
  <2>2. /\ x.page = v.page /\ x.store = v.store /\ x.events = v.events
        /\ x.gesture = v.gesture
    BY DEF UI
  <2>3. /\ x.hook.open = v.hook.open /\ x.hook.key = v.hook.key
        /\ x.hook.buf = v.hook.buf /\ x.hook.time = v.hook.time
        /\ x.hook.paused = v.hook.paused /\ x.hook.ended = v.hook.ended
        /\ x.hook.playing = v.hook.playing
    BY DEF UI, Hook
  <2>4. x \in UI
    BY DEF UI, Hook
  <2> HIDE DEF x, w
  <2>5. /\ w \in UI /\ Gentle(x, w) /\ SameStream(x, w)
        /\ w.page = x.page /\ w.store = x.store /\ w.gesture = x.gesture
        /\ w.hook.snap = [time |-> x.hook.time, buf |-> x.hook.buf, paused |-> x.hook.paused]
        /\ w.hook.ended => x.hook.ended \/ Ending(x)
        /\ x.hook.paused /\ ~x.hook.playing => ~w.hook.playing
        /\ x.hook.paused => w.events = x.events
    BY <2>1, <2>4, UpdateFacts
  <2>6. w.hook.snap.time = x.hook.time /\ w.hook.snap.buf = x.hook.buf
    BY <2>5
  <2>7. Gentle(v, w)
    BY <2>2, <2>3, <2>5 DEF Gentle, Queued
  <2>8. Ending(x) <=> Ending(v)
    BY <2>2, <2>3 DEF Ending, Rendered
  <2> QED
    BY <1>2, <2>2, <2>3, <2>5, <2>6, <2>7, <2>8 DEF SameStream, w
<1> QED
  BY <1>1, <1>2

\* The commit without the page it may open.
Effects(u, v) ==
  LET b == TurnsTerminal(u, Stream(SetSource(v)))
      m == MarkStalled(ApplySeek(b))
      c == ClearAtEnd(IF HeardInputs(m) # HeardInputs(u) THEN CollectHeard(m) ELSE m)
  IN  [c EXCEPT !.hook.due = @ \/ ResumeInputs(c) # ResumeInputs(u)]

LEMMA EffectsFacts ==
  ASSUME NEW u \in UI, NEW v \in UI
  PROVE  LET s == SetSource(v)
             a == Stream(s)
             b == TurnsTerminal(u, a)
             d == Effects(u, v)
         IN  /\ d \in UI /\ b \in UI /\ Gentle(v, d) /\ d.page = v.page
             /\ d.gesture = v.gesture
             /\ d.store.job = v.store.job /\ d.store.terminal = v.store.terminal
             /\ d.store.anchor = v.store.anchor
             /\ d.store.chunks = s.store.chunks /\ d.store.offset = s.store.offset
             /\ d.hook.open = a.hook.open /\ d.hook.key = a.hook.key
             /\ d.hook.buf = a.hook.buf
             /\ d.store.intent => v.store.intent /\ ~Finished(d)
             /\ b.store = s.store /\ SameStream(a, b)
             /\ b.hook.snap.buf \in {a.hook.snap.buf, a.hook.buf}
             /\ ~Fires(b) =>
                  /\ d.store.seek = v.store.seek /\ d.hook.time = a.hook.time
                  /\ d.hook.snap.buf = b.hook.snap.buf
                  /\ d.hook.snap.time \in {a.hook.snap.time, a.hook.time}
                  /\ d.hook.ended => \/ a.hook.ended
                                     \/ v.store.terminal /\ ~u.store.terminal /\ Ending(a)
                  /\ a.hook.paused => d.events = a.events /\ d.hook.paused
                  /\ a.hook.paused /\ ~a.hook.playing => ~d.hook.playing
             /\ Fires(b) =>
                  /\ d.store.seek = NoSeek
                  /\ d.hook.time = StreamTime(s, v.store.seek)
                  /\ d.hook.snap.time = d.hook.time /\ d.hook.snap.buf = a.hook.buf
                  /\ ~d.hook.ended
                  /\ a.hook.paused => ~d.hook.playing /\ d.events = a.events /\ d.hook.paused
<1> DEFINE s == SetSource(v)
           a == Stream(s)
           b == TurnsTerminal(u, a)
           k == ApplySeek(b)
           m == MarkStalled(k)
           x == IF HeardInputs(m) # HeardInputs(u) THEN CollectHeard(m) ELSE m
           c == ClearAtEnd(x)
           due == c.hook.due \/ ResumeInputs(c) # ResumeInputs(u)
           d == [c EXCEPT !.hook.due = @ \/ ResumeInputs(c) # ResumeInputs(u)]
<1>0. Effects(u, v) = d
  BY DEF Effects
<1>p. \A y \in UI : y.hook.paused \in BOOLEAN /\ y.hook.due \in BOOLEAN
  BY DEF UI, Hook
<1>1. /\ s \in UI /\ Gentle(v, s) /\ s.page = v.page /\ s.hook = v.hook /\ s.events = v.events
      /\ s.gesture = v.gesture
      /\ s.store.job = v.store.job /\ s.store.terminal = v.store.terminal
      /\ s.store.anchor = v.store.anchor /\ s.store.seek = v.store.seek
      /\ s.store.intent = v.store.intent
  BY SetSourceFacts
<1> HIDE DEF s
<1>2. a \in UI /\ Gentle(s, a) /\ a.page = s.page /\ a.store = s.store /\ a.gesture = s.gesture
  BY <1>1, StreamFacts
<1> HIDE DEF a
<1>3. /\ b \in UI /\ Gentle(a, b) /\ SameStream(a, b)
      /\ b.page = a.page /\ b.store = a.store /\ b.gesture = a.gesture
      /\ b.hook.snap.time \in {a.hook.snap.time, a.hook.time}
      /\ b.hook.snap.buf \in {a.hook.snap.buf, a.hook.buf}
      /\ b.hook.ended => \/ a.hook.ended
                         \/ a.store.terminal /\ ~u.store.terminal /\ Ending(a)
      /\ a.hook.paused => b.events = a.events
      /\ a.hook.paused /\ ~a.hook.playing => ~b.hook.playing
  BY <1>2, TurnsTerminalFacts, SMTT(60)
<1> HIDE DEF b
<1>4. /\ k \in UI /\ Gentle(b, k)
      /\ k.page = b.page /\ k.gesture = b.gesture
      /\ k.store.job = b.store.job /\ k.store.terminal = b.store.terminal
      /\ k.store.anchor = b.store.anchor /\ k.store.chunks = b.store.chunks
      /\ k.store.offset = b.store.offset /\ k.store.intent = b.store.intent
      /\ k.hook.open = b.hook.open /\ k.hook.key = b.hook.key
      /\ k.hook.buf = b.hook.buf
      /\ ~Fires(b) => k = b
      /\ Fires(b) => /\ k.store.seek = NoSeek
                     /\ k.hook.time = StreamTime(b, b.store.seek)
                     /\ k.hook.snap.time = k.hook.time
                     /\ k.hook.snap.buf = b.hook.buf
                     /\ ~k.hook.ended
                     /\ b.hook.paused => ~k.hook.playing /\ k.events = b.events
  BY <1>3, ApplySeekFacts
<1> HIDE DEF k
<1>5. /\ m \in UI /\ m.page = k.page /\ m.store = k.store
      /\ m.events = k.events /\ m.gesture = k.gesture /\ SameStream(k, m)
      /\ m.hook.paused = k.hook.paused /\ m.hook.snap = k.hook.snap
      /\ m.hook.playing = k.hook.playing /\ m.hook.ended = k.hook.ended
  BY <1>4, MarkStalledFacts
<1> HIDE DEF m
<1>6. /\ x \in UI /\ x.page = m.page /\ x.store = m.store /\ x.hook = m.hook
      /\ x.events = m.events /\ x.gesture = m.gesture
  BY <1>5, CollectHeardFacts
<1> HIDE DEF x
<1>7. /\ c \in UI /\ c.page = x.page /\ c.hook = x.hook
      /\ c.events = x.events /\ c.gesture = x.gesture
      /\ c.store.job = x.store.job /\ c.store.terminal = x.store.terminal
      /\ c.store.anchor = x.store.anchor /\ c.store.chunks = x.store.chunks
      /\ c.store.offset = x.store.offset /\ c.store.seek = x.store.seek
      /\ c.store.intent => x.store.intent /\ ~Finished(x)
  BY <1>6, ClearAtEndFacts
<1> HIDE DEF c
<1>8. due \in BOOLEAN
  BY <1>7, <1>p
<1>d. d = [c EXCEPT !.hook.due = due]
  OBVIOUS
<1> HIDE DEF due, d
<1>9. d.page = c.page /\ d.store = c.store /\ d.events = c.events /\ d.gesture = c.gesture
  BY <1>7, <1>d DEF UI
<1>10. /\ d.hook.open = c.hook.open /\ d.hook.key = c.hook.key
       /\ d.hook.buf = c.hook.buf /\ d.hook.time = c.hook.time
       /\ d.hook.paused = c.hook.paused /\ d.hook.snap = c.hook.snap
       /\ d.hook.playing = c.hook.playing /\ d.hook.ended = c.hook.ended
  BY <1>7, <1>d DEF UI, Hook
<1>11. d \in UI
  BY <1>7, <1>8, <1>d DEF UI, Hook
<1>12. Gentle(k, d)
  BY <1>5, <1>6, <1>7, <1>9, <1>10 DEF Gentle, Queued
<1>13. Gentle(v, d)
  <2>1. Gentle(v, a)
    BY <1>1, <1>2, <1>p, GentleTransitive
  <2>2. Gentle(v, b)
    BY <2>1, <1>2, <1>3, <1>p, GentleTransitive
  <2>3. Gentle(v, k)
    BY <2>2, <1>3, <1>4, <1>p, GentleTransitive
  <2> QED
    BY <2>3, <1>4, <1>11, <1>12, <1>p, GentleTransitive
<1>14. Finished(x) <=> Finished(d)
  BY <1>7, <1>9, <1>10 DEF Finished, Rendered
<1>15. d.store.intent => v.store.intent /\ ~Finished(d)
  BY <1>14, <1>9, <1>7, <1>6, <1>5, <1>4, <1>3, <1>2, <1>1
<1>16. /\ d.page = v.page /\ d.gesture = v.gesture
       /\ d.store.job = v.store.job /\ d.store.terminal = v.store.terminal
       /\ d.store.anchor = v.store.anchor
       /\ d.store.chunks = s.store.chunks /\ d.store.offset = s.store.offset
       /\ d.hook.open = a.hook.open /\ d.hook.key = a.hook.key
       /\ d.hook.buf = a.hook.buf
       /\ b.store = s.store
  BY <1>10, <1>9, <1>7, <1>6, <1>5, <1>4, <1>3, <1>2, <1>1 DEF SameStream
<1>17. /\ d.store.seek = k.store.seek /\ d.hook.time = k.hook.time
       /\ d.hook.snap = k.hook.snap /\ d.hook.ended = k.hook.ended
       /\ d.hook.paused = k.hook.paused /\ d.hook.playing = k.hook.playing
       /\ d.events = k.events
  BY <1>10, <1>9, <1>7, <1>6, <1>5 DEF SameStream
<1>g. a.hook.paused => b.hook.paused /\ k.hook.paused
  BY <1>3, <1>4 DEF Gentle
<1>18. ASSUME ~Fires(b)
       PROVE  /\ d.store.seek = v.store.seek /\ d.hook.time = a.hook.time
              /\ d.hook.snap.buf = b.hook.snap.buf
              /\ d.hook.snap.time \in {a.hook.snap.time, a.hook.time}
              /\ d.hook.ended => \/ a.hook.ended
                                 \/ v.store.terminal /\ ~u.store.terminal /\ Ending(a)
              /\ a.hook.paused => d.events = a.events /\ d.hook.paused
              /\ a.hook.paused /\ ~a.hook.playing => ~d.hook.playing
  BY <1>18, <1>17, <1>g, <1>4, <1>3, <1>2, <1>1 DEF SameStream
<1>19. ASSUME Fires(b)
       PROVE  /\ d.store.seek = NoSeek
              /\ d.hook.time = StreamTime(s, v.store.seek)
              /\ d.hook.snap.time = d.hook.time /\ d.hook.snap.buf = a.hook.buf
              /\ ~d.hook.ended
              /\ a.hook.paused => ~d.hook.playing /\ d.events = a.events /\ d.hook.paused
  <2>1. StreamTime(b, b.store.seek) = StreamTime(s, v.store.seek)
    BY <1>1, <1>16 DEF StreamTime
  <2> QED
    BY <1>19, <2>1, <1>17, <1>g, <1>4, <1>3, <1>2, <1>1 DEF SameStream
<1> QED
  BY <1>0, <1>3, <1>11, <1>13, <1>15, <1>16, <1>18, <1>19 DEF s, a, b

LEMMA NextJobIsJob ==
  ASSUME NEW u
  PROVE  NextJob(u) \in Jobs \cup {NoJob}
BY DEF NextJob

\* The end of a stream opens the page of the next job.
LEMMA CommitFacts ==
  ASSUME NEW u \in UI, NEW v \in UI
  PROVE  LET d == Effects(u, v)
             w == Commit(u, v)
         IN  /\ w \in UI /\ Gentle(v, w)
             /\ \/ w = d /\ (d.hook.ended => u.hook.ended \/ NextJob(d) = NoJob)
                \/ /\ d.hook.ended /\ ~u.hook.ended
                   /\ \E j \in Jobs : w = OpenPage(d, j, TRUE)
<1> DEFINE d == Effects(u, v)
           w == Commit(u, v)
<1>1. w = IF d.hook.ended /\ ~u.hook.ended /\ NextJob(d) # NoJob
          THEN OpenPage(d, NextJob(d), TRUE) ELSE d
  BY DEF Commit, Effects
<1>2. d \in UI /\ Gentle(v, d)
  BY EffectsFacts
<1> HIDE DEF d, w
<1>3. CASE d.hook.ended /\ ~u.hook.ended /\ NextJob(d) # NoJob
  <2>1. NextJob(d) \in Jobs
    BY <1>3, NextJobIsJob
  <2>2. w = OpenPage(d, NextJob(d), TRUE)
    BY <1>1, <1>3
  <2>3. w \in UI /\ Gentle(d, w)
    BY <1>2, <2>1, <2>2, OpenPageFacts
  <2>4. \A x \in UI : x.hook.paused \in BOOLEAN
    BY DEF UI, Hook
  <2>5. Gentle(v, w)
    BY <1>2, <2>3, <2>4, GentleTransitive
  <2> QED
    BY <1>3, <2>1, <2>2, <2>3, <2>5 DEF d, w
<1>4. CASE ~(d.hook.ended /\ ~u.hook.ended /\ NextJob(d) # NoJob)
  <2>1. w = d
    BY <1>1, <1>4
  <2> QED
    BY <1>2, <1>4, <2>1 DEF d, w
<1> QED
  BY <1>3, <1>4

LEMMA AttemptsFacts ==
  ASSUME NEW u \in UI, NEW v \in Attempts(u)
  PROVE  /\ v \in UI /\ SameStream(u, v)
         /\ v.page = u.page /\ v.store = u.store
         /\ v.hook.snap.buf \in {u.hook.snap.buf, u.hook.buf}
         /\ v.hook.ended => u.hook.ended \/ Ending(u)
         /\ "ended" \in Queued(v) => "ended" \in Queued(u)
         /\ ~(Primed(u) /\ BufferedAhead(u)) => v = Update(u, TRUE)
<1>1. CASE ~(Primed(u) /\ BufferedAhead(u))
  <2>1. v = Update(u, TRUE)
    BY <1>1 DEF Attempts
  <2> DEFINE w == Update(u, TRUE)
  <2>2. /\ w \in UI /\ Gentle(u, w) /\ SameStream(u, w)
        /\ w.page = u.page /\ w.store = u.store
        /\ w.hook.snap = [time |-> u.hook.time, buf |-> u.hook.buf, paused |-> u.hook.paused]
        /\ w.hook.ended => u.hook.ended \/ Ending(u)
    BY UpdateFacts
  <2> HIDE DEF w
  <2>3. w.hook.snap.buf = u.hook.buf
    BY <2>2
  <2> QED
    BY <2>1, <2>2, <2>3 DEF w, Gentle
<1>2. CASE Primed(u) /\ BufferedAhead(u)
  <2> DEFINE x == [u EXCEPT !.hook.blocked = FALSE]
             y == [u EXCEPT !.hook.blocked = TRUE]
  <2>1. v = Play(x) \/ v = y
    BY <1>2 DEF Attempts
  <2>2. /\ x.page = u.page /\ x.store = u.store /\ x.events = u.events
        /\ y.page = u.page /\ y.store = u.store /\ y.events = u.events
    BY DEF UI
  <2>3. /\ x.hook.open = u.hook.open /\ x.hook.key = u.hook.key
        /\ x.hook.buf = u.hook.buf /\ x.hook.time = u.hook.time
        /\ x.hook.snap = u.hook.snap /\ x.hook.ended = u.hook.ended
    BY DEF UI, Hook
  <2>4. /\ y.hook.open = u.hook.open /\ y.hook.key = u.hook.key
        /\ y.hook.buf = u.hook.buf /\ y.hook.time = u.hook.time
        /\ y.hook.snap = u.hook.snap /\ y.hook.ended = u.hook.ended
    BY DEF UI, Hook
  <2>5. x \in UI /\ y \in UI
    BY DEF UI, Hook
  <2> HIDE DEF x, y
  <2>6. /\ Play(x) \in UI /\ SameStream(x, Play(x))
        /\ Play(x).page = x.page /\ Play(x).store = x.store
        /\ Play(x).hook.snap = x.hook.snap /\ Play(x).hook.ended = x.hook.ended
        /\ "ended" \in Queued(Play(x)) => "ended" \in Queued(x)
    BY <2>5, PlayFacts
  <2>7. CASE v = Play(x)
    BY <1>2, <2>7, <2>2, <2>3, <2>5, <2>6 DEF SameStream, Queued
  <2>8. CASE v = y
    BY <1>2, <2>8, <2>2, <2>4, <2>5 DEF SameStream, Queued
  <2> QED
    BY <2>1, <2>7, <2>8
<1> QED
  BY <1>1, <1>2

LEMMA PlaysFacts ==
  ASSUME NEW u \in UI, NEW v \in Plays(u)
  PROVE  /\ v \in UI /\ SameStream(u, v) /\ v.page = u.page
         /\ v.store.job = u.store.job /\ v.store.terminal = u.store.terminal
         /\ v.store.anchor = u.store.anchor /\ v.store.chunks = u.store.chunks
         /\ v.store.offset = u.store.offset /\ v.store.seek = u.store.seek
         /\ v.hook.snap.buf \in {u.hook.snap.buf, u.hook.buf}
         /\ v.hook.ended => u.hook.ended \/ u.hook.time > 0
         /\ "ended" \in Queued(v) => "ended" \in Queued(u)
         /\ u.hook.buf = 0 /\ u.hook.paused => v.hook.paused /\ v.events = u.events
<1> DEFINE w == [u EXCEPT !.store.intent = TRUE]
<1>1. w.page = u.page /\ w.hook = u.hook /\ w.events = u.events
  BY DEF UI
<1>2. /\ w.store.job = u.store.job /\ w.store.terminal = u.store.terminal
      /\ w.store.anchor = u.store.anchor /\ w.store.chunks = u.store.chunks
      /\ w.store.offset = u.store.offset /\ w.store.seek = u.store.seek
  BY DEF UI, Store
<1>3. w \in UI
  BY DEF UI, Store
<1>4. v = w \/ v \in Attempts(w)
  BY DEF Plays
<1> HIDE DEF w
<1>5. CASE v = w
  BY <1>5, <1>1, <1>2, <1>3 DEF SameStream, Queued
<1>6. CASE v \in Attempts(w)
  <2>1. /\ v \in UI /\ SameStream(w, v) /\ v.page = w.page /\ v.store = w.store
        /\ v.hook.snap.buf \in {w.hook.snap.buf, w.hook.buf}
        /\ v.hook.ended => w.hook.ended \/ Ending(w)
        /\ "ended" \in Queued(v) => "ended" \in Queued(w)
        /\ ~(Primed(w) /\ BufferedAhead(w)) => v = Update(w, TRUE)
    BY <1>3, <1>6, AttemptsFacts
  <2>2. u.hook.buf = 0 /\ u.hook.paused => v.hook.paused /\ v.events = u.events
    <3> HAVE u.hook.buf = 0 /\ u.hook.paused
    <3>1. ~Primed(w)
      BY <1>1 DEF Primed
    <3>2. Gentle(w, Update(w, TRUE)) /\ (w.hook.paused => Update(w, TRUE).events = w.events)
      BY <1>3, UpdateFacts
    <3> QED
      BY <2>1, <3>1, <3>2, <1>1 DEF Gentle
  <2> QED
    BY <1>1, <1>2, <2>1, <2>2 DEF SameStream, Queued, Ending
<1> QED
  BY <1>4, <1>5, <1>6

-----------------------------------------------------------------------------
(* What every state is like: types, and what the page knows of its job *)

\* A list of chunk states is of job j: it has the chunks of j and no other.
Fits(known, j) == \A c \in Chunk : known[c] = "none" <=> c >= Length[j]

PageOK(u) ==
  u.page.loaded => /\ u.page.job \in Jobs /\ u.store.job = u.page.job
                   /\ Fits(u.page.known, u.page.job)

\* The audio rests and nothing is about to start it.
Quiet(u) == u.hook.paused /\ ~u.store.intent /\ "play" \notin Queued(u)

History == [clicks : Nat, asked : {"none", "play", "pause"},
            overrun : BOOLEAN, earned : BOOLEAN]

Coherent ==
  /\ TypeOK /\ hist \in History
  /\ \A j \in Jobs : Fits(srv.status[j], j)
  /\ PageOK(ui)

Quieted == hist.asked = "pause" /\ ~hist.overrun => Quiet(ui)

LEMMA GentleKeepsQuiet ==
  ASSUME NEW u, NEW v, Gentle(u, v), Quiet(u)
  PROVE  Quiet(v)
BY DEF Gentle, Quiet

LEMMA CommitKeepsPage ==
  ASSUME NEW u \in UI, NEW v \in UI, PageOK(v)
  PROVE  PageOK(Commit(u, v))
<1> DEFINE d == Effects(u, v)
           w == Commit(u, v)
<1>1. d \in UI /\ d.page = v.page /\ d.store.job = v.store.job
  BY EffectsFacts
<1>2. w = d \/ \E j \in Jobs : w = OpenPage(d, j, TRUE)
  BY CommitFacts
<1> HIDE DEF d, w
<1>3. CASE w = d
  BY <1>3, <1>1 DEF PageOK, w
<1>4. ASSUME NEW j \in Jobs, w = OpenPage(d, j, TRUE) PROVE PageOK(w)
  <2>1. ~w.page.loaded
    BY <1>1, <1>4, OpenPageFacts
  <2> QED
    BY <2>1 DEF PageOK
<1> QED
  BY <1>2, <1>3, <1>4 DEF w

LEMMA FittingStart ==
  ASSUME NEW known \in Known, NEW j \in Jobs, Fits(known, j)
  PROVE  known[0] # "none"
<1>1. ~(0 >= Length[j])
  BY JobNumbers
<1> QED
  BY <1>1, Chunks DEF Fits

\* What the answer a page waited for makes of the player.
Placed ==
  LET j == ui.page.job
      known == srv.status[j]
      place == ResumePosition(known, srv.saved[j])
      opened == OpenJob([ui EXCEPT !.page = [@ EXCEPT !.loaded = TRUE, !.known = known,
                                                      !.play = FALSE]])
  IN  IF place = 0 THEN [opened EXCEPT !.store.anchor = ui.store.anchor]
      ELSE [opened EXCEPT !.store.anchor = ChunkAt(known, place), !.store.seek = place]

LEMMA PlacedFacts ==
  ASSUME Coherent, CanLoad
  PROVE  LET j == ui.page.job
             known == srv.status[j]
             place == ResumePosition(known, srv.saved[j])
         IN  /\ j \in Jobs /\ known \in Known /\ Fits(known, j) /\ place \in Nat
             /\ Placed \in UI /\ PageOK(Placed) /\ Gentle(ui, Placed)
             /\ Placed.hook = ui.hook /\ Placed.events = ui.events
             /\ Placed.page.loaded /\ Placed.page.job = j /\ Placed.page.known = known
             /\ Placed.store.job = j /\ Placed.store.terminal = Terminal(known)
             /\ place = 0 => /\ Placed.store.anchor = ui.store.anchor
                             /\ Placed.store.seek = (IF ui.store.job = j THEN ui.store.seek
                                                     ELSE NoSeek)
             /\ place # 0 => /\ Placed.store.anchor = ChunkAt(known, place)
                             /\ Placed.store.seek = place
<1> DEFINE j == ui.page.job
           known == srv.status[j]
           place == ResumePosition(known, srv.saved[j])
           u == [ui EXCEPT !.page = [@ EXCEPT !.loaded = TRUE, !.known = known,
                                              !.play = FALSE]]
           opened == OpenJob(u)
           near == [opened EXCEPT !.store.anchor = ui.store.anchor]
           far == [opened EXCEPT !.store.anchor = ChunkAt(known, place), !.store.seek = place]
<1>1. ui \in UI /\ j \in Jobs /\ known \in Known /\ Fits(known, j)
      /\ srv.saved[j] \in 0 .. 2 * Longest
  BY DEF Coherent, TypeOK, UI, Page, CanLoad, Known
<1>2. place \in 0 .. 2 * Longest /\ place \in Nat /\ known[0] # "none"
  <2>1. Longest \in Nat
    BY Chunks
  <2>2. known[0] # "none"
    BY <1>1, FittingStart
  <2> QED
    BY <1>1, <2>1, <2>2 DEF ResumePosition
<1>3. ChunkAt(known, place) \in Chunk
  BY <1>1, <1>2, ChunkAtPosition
<1>4. Placed = IF place = 0 THEN near ELSE far
  BY DEF Placed
<1> HIDE DEF known, place
<1>5. /\ u.hook = ui.hook /\ u.events = ui.events /\ u.store = ui.store
      /\ u.page.loaded /\ u.page.job = j /\ u.page.known = known
  BY <1>1 DEF UI, Page
<1>6. u \in UI
  BY <1>1 DEF UI, Page, Known
<1>7. Gentle(ui, u)
  BY <1>5 DEF Gentle, Queued
<1> HIDE DEF u
<1>8. /\ opened \in UI /\ Gentle(u, opened)
      /\ opened.page = u.page /\ opened.hook = u.hook /\ opened.events = u.events
      /\ opened.store.job = j /\ opened.store.terminal = Terminal(known)
      /\ opened.store.seek = (IF ui.store.job = j THEN ui.store.seek ELSE NoSeek)
  BY <1>5, <1>6, OpenJobFacts
<1> HIDE DEF opened
<1>9. Gentle(ui, opened)
  BY <1>1, <1>5, <1>7, <1>8 DEF Gentle
<1>10. CASE place = 0
  <2>1. /\ near.page = opened.page /\ near.hook = opened.hook /\ near.events = opened.events
    BY <1>8 DEF UI
  <2>2. /\ near.store.job = j /\ near.store.terminal = Terminal(known)
        /\ near.store.anchor = ui.store.anchor /\ near.store.seek = opened.store.seek
        /\ near.store.intent = opened.store.intent
    BY <1>8 DEF UI, Store
  <2>3. near \in UI
    BY <1>1, <1>8 DEF UI, Store
  <2> HIDE DEF near
  <2>4. Placed = near
    BY <1>4, <1>10
  <2>5. Gentle(ui, near)
    BY <1>9, <2>1, <2>2 DEF Gentle, Queued
  <2>6. PageOK(near)
    BY <1>1, <1>5, <1>8, <2>1, <2>2 DEF PageOK
  <2> QED
    BY <1>1, <1>2, <1>5, <1>8, <1>10, <2>1, <2>2, <2>3, <2>4, <2>5, <2>6 DEF known, place
<1>11. CASE place # 0
  <2>1. /\ far.page = opened.page /\ far.hook = opened.hook /\ far.events = opened.events
    BY <1>8 DEF UI
  <2>2. /\ far.store.job = j /\ far.store.terminal = Terminal(known)
        /\ far.store.anchor = ChunkAt(known, place) /\ far.store.seek = place
        /\ far.store.intent = opened.store.intent
    BY <1>8 DEF UI, Store
  <2>3. far \in UI
    BY <1>2, <1>3, <1>8 DEF UI, Store
  <2> HIDE DEF far
  <2>4. Placed = far
    BY <1>4, <1>11
  <2>5. Gentle(ui, far)
    BY <1>9, <2>1, <2>2 DEF Gentle, Queued
  <2>6. PageOK(far)
    BY <1>1, <1>5, <1>8, <2>1, <2>2 DEF PageOK
  <2> QED
    BY <1>1, <1>2, <1>5, <1>8, <1>11, <2>1, <2>2, <2>3, <2>4, <2>5, <2>6 DEF known, place
<1> QED
  BY <1>10, <1>11

LEMMA SyncedFacts ==
  ASSUME Coherent, NEW u \in UI, u.page = ui.page, u.store = ui.store, ui.page.loaded
  PROVE  LET v == Synced(u)
             j == ui.page.job
         IN  /\ v \in UI /\ PageOK(v) /\ Gentle(u, v)
             /\ v.hook = u.hook /\ v.events = u.events
             /\ v.page.loaded /\ v.page.job = j /\ v.page.known = srv.status[j]
             /\ v.store.job = j /\ v.store.terminal = Terminal(srv.status[j])
             /\ v.store.seek = u.store.seek
             /\ v.store.anchor = IF srv.status[j][u.store.anchor] = "none" THEN 0
                                 ELSE u.store.anchor
<1> DEFINE j == ui.page.job
           known == srv.status[j]
           w == [u EXCEPT !.page.known = known]
           o == OpenJob(w)
           a == IF o.page.known[o.store.anchor] = "none" THEN 0 ELSE o.store.anchor
           v == Synced(u)
<1>1. j \in Jobs /\ u.store.job = j /\ known \in Known /\ Fits(known, j) /\ u.page.job = j
      /\ u.page.loaded
  BY DEF Coherent, TypeOK, PageOK, Known
<1>2. v = [o EXCEPT !.store.anchor = a]
  BY DEF Synced
<1> HIDE DEF known, v
<1>3. /\ w.hook = u.hook /\ w.events = u.events /\ w.store = u.store
      /\ w.page.loaded /\ w.page.job = j /\ w.page.known = known
  BY <1>1 DEF UI, Page
<1>4. w \in UI
  BY <1>1 DEF UI, Page, Known
<1>5. Gentle(u, w)
  BY <1>3 DEF Gentle, Queued
<1> HIDE DEF w
<1>6. /\ o \in UI /\ Gentle(w, o)
      /\ o.page = w.page /\ o.hook = w.hook /\ o.events = w.events
      /\ o.store.job = j /\ o.store.terminal = Terminal(known)
      /\ o.store.anchor = w.store.anchor /\ o.store.seek = w.store.seek
  BY <1>1, <1>3, <1>4, OpenJobFacts
<1> HIDE DEF o
<1>7. Gentle(u, o)
  BY <1>3, <1>5, <1>6 DEF Gentle
<1>8. a = (IF known[u.store.anchor] = "none" THEN 0 ELSE u.store.anchor) /\ a \in Chunk
  BY <1>3, <1>6, Chunks DEF UI, Store
<1> HIDE DEF a
<1>9. v.page = o.page /\ v.hook = o.hook /\ v.events = o.events
  BY <1>2, <1>6 DEF UI
<1>10. /\ v.store.job = o.store.job /\ v.store.terminal = o.store.terminal
       /\ v.store.anchor = a /\ v.store.seek = o.store.seek
       /\ v.store.intent = o.store.intent
  BY <1>2, <1>6 DEF UI, Store
<1>11. v \in UI
  BY <1>2, <1>6, <1>8, ZenonT(60) DEF UI, Store
<1>12. Gentle(u, v)
  BY <1>7, <1>9, <1>10 DEF Gentle, Queued
<1>13. PageOK(v)
  BY <1>1, <1>3, <1>6, <1>9, <1>10 DEF PageOK
<1> QED
  BY <1>1, <1>3, <1>6, <1>8, <1>9, <1>10, <1>11, <1>12, <1>13 DEF known, v

-----------------------------------------------------------------------------
(* Every step keeps it so *)

LEMMA InitCoherent ==
  ASSUME Init
  PROVE  Coherent /\ Quieted
<1>1. PICK full \in {Jobs} \cup {{j} : j \in Jobs}, done \in {Jobs, {}} :
        /\ srv = [status |-> [j \in Jobs |-> [c \in Chunk |->
                    IF c >= Length[j] THEN "none"
                    ELSE IF j \in full THEN "written" ELSE "pending"]],
                  saved  |-> [j \in Jobs |-> IF j \in done THEN Length[j] ELSE 0]]
        /\ ui = Arrived(IF full = Jobs THEN 1 ELSE NoJob)
  BY DEF Init
<1> DEFINE j0 == IF full = Jobs THEN 1 ELSE NoJob
<1>2. j0 \in Jobs \cup {NoJob}
  BY JobNumbers
<1> HIDE DEF j0
<1>3. ui = Arrived(j0)
  BY <1>1 DEF j0
<1>4. srv \in [status : [Jobs -> [Chunk -> Status]], saved : [Jobs -> 0 .. 2 * Longest]]
  <2>1. \A j \in Jobs : Length[j] \in 0 .. 2 * Longest /\ 0 \in 0 .. 2 * Longest
    BY JobNumbers, LongestJob
  <2> HIDE DEF Longest
  <2> QED
    BY <1>1, <2>1 DEF Status
<1>5. ui \in UI
  <2>1. 0 \in Chunk /\ 0 \in 0 .. Longest
    BY Chunks
  <2>2. ui.page \in Page
    <3>1. Unknown \in [Chunk -> Status]
      BY DEF Unknown, Status
    <3> QED
      BY <1>2, <1>3, <3>1 DEF Arrived, Page
  <2>3. ui.store \in Store
    BY <1>3, <2>1 DEF Arrived, Store
  <2>4. ui.hook \in Hook
    BY <1>3, <2>1 DEF Arrived, Hook
  <2>5. /\ ui = [page |-> ui.page, store |-> ui.store, hook |-> ui.hook, events |-> <<>>,
                 pend |-> {}, gesture |-> FALSE]
    BY <1>3 DEF Arrived
  <2>6. <<>> \in Seq(MediaEvent)
    OBVIOUS
  <2>7. \A p \in Page, s \in Store, h \in Hook :
          [page |-> p, store |-> s, hook |-> h, events |-> <<>>, pend |-> {},
           gesture |-> FALSE] \in UI
    BY <2>6 DEF UI
  <2> QED
    BY <2>2, <2>3, <2>4, <2>5, <2>7
<1>6. \A j \in Jobs : Fits(srv.status[j], j)
  BY <1>1 DEF Fits
<1>7. PageOK(ui)
  BY <1>3 DEF Arrived, PageOK
<1>8. hist \in History /\ hist.asked = "none" /\ calls = {}
  BY DEF Init, History
<1> QED
  BY <1>4, <1>5, <1>6, <1>7, <1>8 DEF Coherent, Quieted, TypeOK

LEMMA RenderKeeps ==
  ASSUME Coherent, Quieted, NEW j \in Jobs, Render(j)
  PROVE  Coherent' /\ Quieted'
<1>1. PICK c \in Chunk, outcome \in {"written", "failed"} :
        srv.status[j][c] = "pending" /\ srv' = [srv EXCEPT !.status[j][c] = outcome]
  BY DEF Render
<1>2. srv \in [status : [Jobs -> [Chunk -> Status]], saved : [Jobs -> 0 .. 2 * Longest]]
  BY DEF Coherent, TypeOK
<1>3. /\ srv'.saved = srv.saved
      /\ srv'.status = [srv.status EXCEPT ![j] = [@ EXCEPT ![c] = outcome]]
      /\ srv' \in [status : [Jobs -> [Chunk -> Status]], saved : [Jobs -> 0 .. 2 * Longest]]
  BY <1>1, <1>2 DEF Status
<1>4. \A k \in Jobs, d \in Chunk :
        srv'.status[k][d] = IF k = j /\ d = c THEN outcome ELSE srv.status[k][d]
  BY <1>2, <1>3
<1>5. \A k \in Jobs : Fits(srv'.status[k], k)
  BY <1>1, <1>4 DEF Coherent, Fits
<1> QED
  BY <1>3, <1>5 DEF Render, Coherent, TypeOK, Quieted

LEMMA LoadPageKeeps ==
  ASSUME Coherent, Quieted, LoadPage
  PROVE  Coherent' /\ Quieted'
<1>1. /\ CanLoad
      /\ \E v \in IF ui.page.play THEN Plays(Placed) ELSE {Placed} : ui' = Commit(ui, v)
      /\ calls' = IF ui.page.play THEN Activates(Placed, "play") ELSE calls
      /\ hist' = [hist EXCEPT !.earned = FALSE,
                              !.asked = IF ui.page.play THEN "play" ELSE @,
                              !.overrun = @ /\ ~ui.page.play]
      /\ srv' = srv
  BY DEF LoadPage, Placed
<1>2. /\ Placed \in UI /\ PageOK(Placed) /\ Gentle(ui, Placed)
      /\ Placed.store.job \in Jobs /\ Placed.page.loaded
  BY <1>1, PlacedFacts
<1>3. PICK v \in IF ui.page.play THEN Plays(Placed) ELSE {Placed} : ui' = Commit(ui, v)
  BY <1>1
<1>4. v \in UI /\ PageOK(v) /\ (~ui.page.play => v = Placed)
  <2>1. CASE ui.page.play
    <3>1. v \in UI /\ v.page = Placed.page /\ v.store.job = Placed.store.job
      BY <1>2, <1>3, <2>1, PlaysFacts
    <3> QED
      BY <1>2, <2>1, <3>1 DEF PageOK
  <2>2. CASE ~ui.page.play
    BY <1>2, <1>3, <2>2
  <2> QED
    BY <2>1, <2>2
<1>5. ui \in UI /\ hist \in History /\ ui.page.play \in BOOLEAN
  BY DEF Coherent, TypeOK, UI, Page
<1>6. ui' \in UI /\ PageOK(ui') /\ Gentle(v, ui')
  BY <1>3, <1>4, <1>5, CommitFacts, CommitKeepsPage
<1>7. calls' \subseteq ActivateCall
  BY <1>1, <1>2 DEF Activates, ActivateCall, Coherent, TypeOK
<1>8. /\ hist' \in History
      /\ hist'.asked = (IF ui.page.play THEN "play" ELSE hist.asked)
      /\ hist'.overrun = (hist.overrun /\ ~ui.page.play)
  BY <1>1, <1>5 DEF History
<1>9. Quieted'
  <2> SUFFICES ASSUME hist'.asked = "pause", ~hist'.overrun PROVE Quiet(ui')
    BY DEF Quieted
  <2>1. ~ui.page.play /\ hist.asked = "pause" /\ ~hist.overrun
    BY <1>5, <1>8
  <2>2. Quiet(Placed)
    BY <2>1, <1>2, GentleKeepsQuiet DEF Quieted
  <2> QED
    BY <1>4, <1>6, <2>1, <2>2, GentleKeepsQuiet
<1> QED
  BY <1>1, <1>6, <1>7, <1>8, <1>9 DEF Coherent, TypeOK

\* A step of the page that commits v, from which the audio is not started.
LEMMA GentleCommit ==
  ASSUME Coherent, Quieted, NEW v \in UI, PageOK(v), Quiet(ui) => Quiet(v),
         ui' = Commit(ui, v), srv' = srv, calls' \subseteq ActivateCall,
         hist' \in History, hist'.asked = hist.asked, hist'.overrun = hist.overrun
  PROVE  Coherent' /\ Quieted'
<1>1. ui \in UI
  BY DEF Coherent, TypeOK
<1>2. ui' \in UI /\ PageOK(ui') /\ Gentle(v, ui')
  BY <1>1, CommitFacts, CommitKeepsPage
<1>3. Quieted'
  BY <1>2, GentleKeepsQuiet DEF Quieted
<1> QED
  BY <1>2, <1>3 DEF Coherent, TypeOK

\* A step after which the listener is not held to have paused.
LEMMA PlayingCommit ==
  ASSUME Coherent, NEW u \in UI, NEW v \in UI, PageOK(v),
         ui' = Commit(u, v), srv' = srv, calls' \subseteq ActivateCall,
         hist' \in History, hist'.asked # "pause" \/ hist'.overrun
  PROVE  Coherent' /\ Quieted'
<1>1. ui' \in UI /\ PageOK(ui')
  BY CommitFacts, CommitKeepsPage
<1> QED
  BY <1>1 DEF Coherent, TypeOK, Quieted

LEMMA ClickedFacts ==
  ASSUME hist \in History
  PROVE  /\ Clicked(hist) \in History
         /\ Clicked(hist).asked = hist.asked /\ Clicked(hist).overrun = hist.overrun
         /\ Clicked(hist).earned = hist.earned /\ Clicked(hist).clicks = hist.clicks + 1
BY DEF Clicked, History

LEMMA SyncPageKeeps ==
  ASSUME Coherent, Quieted, SyncPage
  PROVE  Coherent' /\ Quieted'
<1>1. ui \in UI /\ ui.page.loaded /\ hist \in History
  BY DEF SyncPage, CanSync, Coherent, TypeOK
<1>2. Synced(ui) \in UI /\ PageOK(Synced(ui)) /\ Gentle(ui, Synced(ui))
  BY <1>1, SyncedFacts
<1>3. Quiet(ui) => Quiet(Synced(ui))
  BY <1>2, GentleKeepsQuiet
<1> QED
  BY <1>1, <1>2, <1>3, GentleCommit DEF SyncPage, Coherent, TypeOK

LEMMA NavigateKeeps ==
  ASSUME Coherent, Quieted, Navigate
  PROVE  Coherent' /\ Quieted'
<1>1. PICK j \in (Jobs \cup {NoJob}) \ {ui.page.job}, play \in BOOLEAN :
        /\ j = NoJob => ~play
        /\ ui' = IF j = NoJob
                 THEN [ui EXCEPT !.page = [job |-> j, loaded |-> FALSE, play |-> FALSE,
                                           known |-> Unknown]]
                 ELSE Commit(ui, OpenPage(ui, j, play))
  BY DEF Navigate
<1>2. /\ ui \in UI /\ hist \in History /\ hist' = Clicked(hist) /\ srv' = srv /\ calls' = calls
      /\ calls \subseteq ActivateCall
  BY DEF Navigate, Coherent, TypeOK
<1>3. hist' \in History /\ hist'.asked = hist.asked /\ hist'.overrun = hist.overrun
  BY <1>2, ClickedFacts
<1>4. CASE j = NoJob
  <2> DEFINE v == [ui EXCEPT !.page = [job |-> j, loaded |-> FALSE, play |-> FALSE,
                                       known |-> Unknown]]
  <2>1. ui' = v
    BY <1>1, <1>4
  <2>2. v.store = ui.store /\ v.hook = ui.hook /\ v.events = ui.events /\ ~v.page.loaded
    BY <1>2 DEF UI
  <2>3. v \in UI
    BY <1>2, <1>4 DEF UI, Page, Unknown, Status
  <2> HIDE DEF v
  <2>4. Quieted'
    BY <1>3, <2>1, <2>2 DEF Quieted, Quiet, Queued
  <2>5. PageOK(v)
    BY <2>2 DEF PageOK
  <2> QED
    BY <1>2, <1>3, <2>1, <2>3, <2>4, <2>5 DEF Coherent, TypeOK
<1>5. CASE j # NoJob
  <2> DEFINE v == OpenPage(ui, j, play)
  <2>1. v \in UI /\ Gentle(ui, v) /\ ~v.page.loaded
    BY <1>1, <1>2, <1>5, OpenPageFacts
  <2>2. ui' = Commit(ui, v)
    BY <1>1, <1>5
  <2> HIDE DEF v
  <2>3. PageOK(v) /\ (Quiet(ui) => Quiet(v))
    BY <2>1, GentleKeepsQuiet DEF PageOK
  <2> QED
    BY <1>2, <1>3, <2>1, <2>2, <2>3, GentleCommit
<1> QED
  BY <1>4, <1>5

\* The state as a control finds it.
LEMMA Shape ==
  ASSUME Coherent
  PROVE  /\ ui \in UI /\ hist \in History /\ calls \subseteq ActivateCall
         /\ ui.page.loaded \in BOOLEAN /\ ui.store.intent \in BOOLEAN
         /\ ui.store.terminal \in BOOLEAN /\ ui.hook.paused \in BOOLEAN
         /\ ui.store.job \in Jobs \cup {NoJob} /\ ui.page.known \in Known
         /\ ui.page.loaded => ui.store.job \in Jobs
BY DEF Coherent, TypeOK, UI, Page, Store, Hook, PageOK, Known

LEMMA ActivatesFacts ==
  ASSUME calls \subseteq ActivateCall, NEW u, u.store.job \in Jobs, NEW from \in {"play", "seek"}
  PROVE  Activates(u, from) \subseteq ActivateCall
BY DEF Activates, ActivateCall

LEMMA PressPlayKeeps ==
  ASSUME Coherent, Quieted, PressPlay
  PROVE  Coherent' /\ Quieted'
<1> DEFINE u == [ui EXCEPT !.gesture = TRUE]
<1>1. PICK v \in Plays(u) : ui' = Commit(ui, v)
  BY DEF PressPlay
<1>2. u.page = ui.page /\ u.store = ui.store /\ u \in UI /\ ui \in UI /\ hist \in History
  BY Shape DEF UI
<1> HIDE DEF u
<1>3. v \in UI /\ v.page = ui.page /\ v.store.job = ui.store.job
  BY <1>1, <1>2, PlaysFacts
<1>4. PageOK(v)
  BY <1>3 DEF PageOK, Coherent
<1>5. calls' \subseteq ActivateCall
  BY Shape, ActivatesFacts DEF PressPlay, HasControls
<1>6. hist' \in History /\ hist'.asked = "play"
  BY <1>2, ClickedFacts DEF PressPlay, History
<1> QED
  BY <1>1, <1>2, <1>3, <1>4, <1>5, <1>6, PlayingCommit DEF PressPlay

\* Pausing drops the intent and leaves at most what was queued.
LEMMA PausedFacts ==
  ASSUME NEW u \in UI
  PROVE  LET v == PausePlayback(u)
         IN  /\ v \in UI /\ Gentle(u, v) /\ SameStream(u, v)
             /\ v.page = u.page /\ v.store = u.store /\ v.hook.paused
             /\ v.pend = u.pend
             /\ v.hook.snap.buf = u.hook.buf
             /\ v.hook.ended => u.hook.ended \/ Ending(u)
             /\ u.hook.paused => ~v.hook.playing /\ v.events = u.events
<1> DEFINE p == Pause(u)
           v == Update(p, TRUE)
<1>1. /\ p \in UI /\ Gentle(u, p) /\ SameStream(u, p)
      /\ p.page = u.page /\ p.store = u.store /\ p.pend = u.pend
      /\ p.hook.paused /\ p.hook = [u.hook EXCEPT !.paused = TRUE]
      /\ u.hook.paused => p = u
  BY PauseFacts
<1>2. p.hook.ended = u.hook.ended
  BY <1>1 DEF UI, Hook
<1> HIDE DEF p
<1>3. /\ v \in UI /\ Gentle(p, v) /\ SameStream(p, v)
      /\ v.page = p.page /\ v.store = p.store /\ v.pend = p.pend
      /\ v.hook.snap = [time |-> p.hook.time, buf |-> p.hook.buf, paused |-> p.hook.paused]
      /\ v.hook.ended => p.hook.ended \/ Ending(p)
      /\ p.hook.paused => ~v.hook.playing
      /\ p.hook.paused => v.events = p.events
  BY <1>1, UpdateFacts
<1> HIDE DEF v
<1>4. v.hook.snap.buf = u.hook.buf
  BY <1>1, <1>3 DEF SameStream
<1>5. Gentle(u, v) /\ v.hook.paused
  BY <1>1, <1>3 DEF Gentle
<1>6. Ending(p) <=> Ending(u)
  BY <1>1 DEF Ending, SameStream, Rendered
<1> QED
  BY <1>1, <1>2, <1>3, <1>4, <1>5, <1>6 DEF SameStream, PausePlayback, p, v

\* What is committed after the listener paused.
LEMMA QuietCommit ==
  ASSUME Coherent, NEW v \in UI, PageOK(v), v.hook.paused, ~v.store.intent,
         "play" \in Queued(v) => "play" \in Queued(ui),
         ui' = Commit(ui, v), srv' \in [status : [Jobs -> [Chunk -> Status]],
                                       saved : [Jobs -> 0 .. 2 * Longest]],
         \A j \in Jobs : Fits(srv'.status[j], j),
         calls' = calls,
         hist' = [Clicked(hist) EXCEPT !.asked = "pause",
                    !.overrun = "play" \in {ui.events[i] : i \in DOMAIN ui.events}]
  PROVE  Coherent' /\ Quieted'
<1>1. ui \in UI /\ hist \in History
  BY Shape
<1>2. ui' \in UI /\ PageOK(ui') /\ Gentle(v, ui')
  BY <1>1, CommitFacts, CommitKeepsPage
<1>3. ("play" \in {ui.events[i] : i \in DOMAIN ui.events}) \in BOOLEAN
  OBVIOUS
<1>4. hist' \in History /\ hist'.overrun = ("play" \in Queued(ui))
  BY <1>1, <1>3, ClickedFacts DEF History, Queued
<1>5. ~hist'.overrun => Quiet(ui')
  BY <1>2, <1>4 DEF Gentle, Quiet
<1> QED
  BY <1>2, <1>4, <1>5 DEF Coherent, TypeOK, Quieted

LEMMA PressPauseKeeps ==
  ASSUME Coherent, Quieted, PressPause
  PROVE  Coherent' /\ Quieted'
<1> DEFINE p == PausePlayback(ui)
           v == [p EXCEPT !.store.intent = FALSE, !.gesture = TRUE]
<1>1. ui \in UI
  BY Shape
<1>2. p \in UI /\ Gentle(ui, p) /\ p.page = ui.page /\ p.store = ui.store /\ p.hook.paused
  BY <1>1, PausedFacts
<1>3. ui' = Commit(ui, v) /\ srv' = srv /\ calls' = calls
      /\ hist' = [Clicked(hist) EXCEPT !.asked = "pause",
                    !.overrun = "play" \in {ui.events[i] : i \in DOMAIN ui.events}]
  BY DEF PressPause
<1> HIDE DEF p
<1>4. v.page = p.page /\ v.hook = p.hook /\ v.events = p.events
  BY <1>2 DEF UI
<1>5. ~v.store.intent /\ v.store.job = p.store.job
  BY <1>2 DEF UI, Store
<1>6. v \in UI
  BY <1>2 DEF UI, Store
<1> HIDE DEF v
<1>7. PageOK(v)
  BY <1>2, <1>4, <1>5 DEF PageOK, Coherent
<1>8. "play" \in Queued(v) => "play" \in Queued(ui)
  BY <1>2, <1>4 DEF Gentle, Queued
<1> QED
  BY <1>2, <1>3, <1>4, <1>5, <1>6, <1>7, <1>8, QuietCommit DEF Coherent, TypeOK

\* The state replayed from its start.
Restarted == [ui EXCEPT !.store.anchor = 0, !.store.seek = 0,
                        !.store.intent = TRUE, !.gesture = TRUE]

LEMMA RestartedFacts ==
  ASSUME ui \in UI
  PROVE  /\ Restarted \in UI /\ Restarted.page = ui.page /\ Restarted.hook = ui.hook
         /\ Restarted.events = ui.events
         /\ Restarted.store.job = ui.store.job /\ Restarted.store.terminal = ui.store.terminal
         /\ Restarted.store.anchor = 0 /\ Restarted.store.seek = 0
         /\ Restarted.store.chunks = ui.store.chunks /\ Restarted.store.offset = ui.store.offset
<1>1. Restarted.page = ui.page /\ Restarted.hook = ui.hook /\ Restarted.events = ui.events
  BY DEF Restarted, UI
<1>2. /\ Restarted.store.job = ui.store.job /\ Restarted.store.terminal = ui.store.terminal
      /\ Restarted.store.anchor = 0 /\ Restarted.store.seek = 0
      /\ Restarted.store.chunks = ui.store.chunks /\ Restarted.store.offset = ui.store.offset
  BY DEF Restarted, UI, Store
<1>3. Restarted \in UI
  <2>1. 0 \in Chunk /\ 0 \in 0 .. 2 * Longest
    BY Chunks
  <2> HIDE DEF Longest
  <2> QED
    BY <2>1 DEF Restarted, UI, Store
<1> QED
  BY <1>1, <1>2, <1>3

LEMMA ReplayKeeps ==
  ASSUME Coherent, Quieted, Replay
  PROVE  Coherent' /\ Quieted'
<1>1. PICK v \in Attempts(Restarted) : ui' = Commit(ui, v)
  BY DEF Replay, Restarted
<1>2. ui \in UI /\ hist \in History /\ calls \subseteq ActivateCall
  BY Shape
<1>3. Restarted \in UI /\ Restarted.page = ui.page /\ Restarted.store.job = ui.store.job
  BY <1>2, RestartedFacts
<1>4. v \in UI /\ v.page = ui.page /\ v.store.job = ui.store.job
  BY <1>1, <1>3, AttemptsFacts
<1>5. PageOK(v)
  BY <1>4 DEF PageOK, Coherent
<1>6. hist' \in History /\ hist'.asked = "play"
  BY <1>2, ClickedFacts DEF Replay, History
<1> QED
  BY <1>1, <1>2, <1>4, <1>5, <1>6, PlayingCommit DEF Replay

\* The page before a seek, and the seek as it is committed.
SeekFrom(c, position) ==
  LET u == [ui EXCEPT !.store.anchor = c, !.store.seek = position, !.gesture = TRUE]
      loaded == Primed(ui) /\ StreamTime(ui, position) <= ui.hook.buf
  IN  IF c = ui.store.anchor /\ ~loaded THEN OpenStream(u) ELSE u

LEMMA SeekFromFacts ==
  ASSUME ui \in UI, NEW c \in Chunk, NEW position \in 0 .. 2 * Longest
  PROVE  LET v == SeekFrom(c, position)
         IN  /\ v \in UI /\ Gentle(ui, v) /\ v.page = ui.page
             /\ v.store.job = ui.store.job /\ v.store.terminal = ui.store.terminal
             /\ v.store.anchor = c /\ v.store.seek = position
             /\ v.store.chunks = ui.store.chunks /\ v.store.offset = ui.store.offset
             /\ v.store.intent = ui.store.intent
             /\ \/ v.hook = ui.hook /\ v.events = ui.events
                \/ Emptied(v) /\ v.hook.open /\ v.hook.key = <<v.store.job, c>>
<1> DEFINE u == [ui EXCEPT !.store.anchor = c, !.store.seek = position, !.gesture = TRUE]
           v == SeekFrom(c, position)
<1>1. u.page = ui.page /\ u.hook = ui.hook /\ u.events = ui.events
  BY DEF UI
<1>2. /\ u.store.job = ui.store.job /\ u.store.terminal = ui.store.terminal
      /\ u.store.anchor = c /\ u.store.seek = position
      /\ u.store.chunks = ui.store.chunks /\ u.store.offset = ui.store.offset
      /\ u.store.intent = ui.store.intent
  BY DEF UI, Store
<1>3. u \in UI
  <2> HIDE DEF Longest
  <2> QED
    BY DEF UI, Store
<1>4. v = u \/ v = OpenStream(u)
  BY DEF SeekFrom
<1> HIDE DEF u, v
<1>5. Gentle(ui, u)
  BY <1>1, <1>2 DEF Gentle, Queued
<1>6. CASE v = u
  BY <1>6, <1>1, <1>2, <1>3, <1>5 DEF v
<1>7. CASE v = OpenStream(u)
  <2>1. /\ v \in UI /\ Gentle(u, v) /\ Emptied(v) /\ v.hook.open
        /\ v.hook.key = <<u.store.job, u.store.anchor>>
        /\ v.page = u.page /\ v.store = u.store
    BY <1>3, <1>7, OpenStreamFacts
  <2>2. Gentle(ui, v)
    BY <1>1, <1>5, <2>1 DEF Gentle
  <2> QED
    BY <1>1, <1>2, <2>1, <2>2 DEF v
<1> QED
  BY <1>4, <1>6, <1>7

\* A seek to a place of the job, played at once if the listener listens.
SeekStep(c, position) ==
  /\ \/ /\ ui.store.intent /\ ui.store.terminal
        /\ \E w \in Attempts(SeekFrom(c, position)) : ui' = Commit(ui, w)
     \/ ui' = Commit(ui, SeekFrom(c, position))
  /\ calls' = IF ui.store.intent THEN Activates(ui, "seek") ELSE calls
  /\ hist' = [Clicked(hist) EXCEPT !.earned = TRUE]
  /\ srv' = srv

LEMMA SeekToSteps ==
  ASSUME NEW c, NEW position, SeekTo(c, position)
  PROVE  SeekStep(c, position)
BY DEF SeekTo, SeekStep, SeekFrom

LEMMA SeekStepKeeps ==
  ASSUME Coherent, Quieted, ui.page.loaded,
         NEW c \in Chunk, NEW position \in 0 .. 2 * Longest, SeekStep(c, position)
  PROVE  Coherent' /\ Quieted'
<1> DEFINE v == SeekFrom(c, position)
<1>1. ui \in UI /\ hist \in History /\ calls \subseteq ActivateCall /\ ui.store.job \in Jobs
  BY Shape
<1>2. v \in UI /\ Gentle(ui, v) /\ v.page = ui.page /\ v.store.job = ui.store.job
  BY <1>1, SeekFromFacts
<1> HIDE DEF v
<1>3. calls' \subseteq ActivateCall
  BY <1>1, ActivatesFacts DEF SeekStep
<1>4. hist' \in History /\ hist'.asked = hist.asked /\ hist'.overrun = hist.overrun
  BY <1>1, ClickedFacts DEF SeekStep, History
<1>5. PageOK(v) /\ (Quiet(ui) => Quiet(v))
  BY <1>2, GentleKeepsQuiet DEF PageOK, Coherent
<1>6. CASE ui' = Commit(ui, v)
  BY <1>2, <1>3, <1>4, <1>5, <1>6, GentleCommit DEF SeekStep
<1>7. ASSUME ui.store.intent, NEW w \in Attempts(v), ui' = Commit(ui, w)
      PROVE  Coherent' /\ Quieted'
  <2>1. w \in UI /\ w.page = v.page /\ w.store = v.store
    BY <1>2, <1>7, AttemptsFacts
  <2>2. PageOK(w)
    BY <1>5, <2>1 DEF PageOK
  <2>3. ~Quiet(ui)
    BY <1>7 DEF Quiet
  <2> QED
    BY <1>3, <1>4, <1>7, <2>1, <2>2, <2>3, GentleCommit DEF SeekStep
<1> QED
  BY <1>6, <1>7 DEF SeekStep, v

LEMMA SeekChunkKeeps ==
  ASSUME Coherent, Quieted, SeekChunk
  PROVE  Coherent' /\ Quieted'
<1>1. PICK c \in Chunk : ui.page.known[c] # "none" /\ SeekTo(c, Before(ui.page.known, c))
  BY DEF SeekChunk
<1>2. Before(ui.page.known, c) \in 0 .. 2 * Longest
  <2>1. Before(ui.page.known, c) \in 0 .. Longest /\ Longest \in Nat
    BY Shape, Counted, Chunks
  <2> QED
    BY <2>1
<1> QED
  BY <1>1, <1>2, SeekToSteps, SeekStepKeeps DEF SeekChunk

\* A skip within the stream.
LEMMA SkipWithinKeeps ==
  ASSUME Coherent, Quieted, NEW t \in Nat, SkipWithin(t)
  PROVE  Coherent' /\ Quieted'
<1> DEFINE place == IF t <= ui.hook.buf THEN t ELSE ui.hook.buf
           p == Place(ui, place)
           v == [p EXCEPT !.gesture = TRUE]
<1>1. ui \in UI /\ hist \in History /\ calls \subseteq ActivateCall
  BY Shape
<1>2. place \in 0 .. Longest
  BY <1>1, Chunks DEF UI, Hook
<1>3. ui' = Commit(ui, v) /\ srv' = srv /\ calls' = calls
      /\ hist' = [Clicked(hist) EXCEPT !.earned = TRUE]
  BY DEF SkipWithin
<1> HIDE DEF place
<1>4. p \in UI /\ Gentle(ui, p) /\ p.page = ui.page /\ p.store = ui.store
  BY <1>1, <1>2, PlaceFacts
<1> HIDE DEF p
<1>5. v.page = p.page /\ v.hook = p.hook /\ v.events = p.events /\ v.store = p.store /\ v \in UI
  BY <1>4 DEF UI
<1> HIDE DEF v
<1>6. PageOK(v) /\ (Quiet(ui) => Quiet(v))
  BY <1>4, <1>5 DEF PageOK, Coherent, Gentle, Quiet, Queued
<1>7. hist' \in History /\ hist'.asked = hist.asked /\ hist'.overrun = hist.overrun
  BY <1>1, <1>3, ClickedFacts DEF History
<1> QED
  BY <1>1, <1>3, <1>5, <1>6, <1>7, GentleCommit

LEMMA SkipTargetRange ==
  ASSUME NEW u \in UI, Rendered(u) > 0, NEW delta \in Deltas
  PROVE  SkipTarget(u, delta) \in 0 .. Longest
<1>1. u.hook.snap.time \in Nat /\ Rendered(u) \in 0 .. Longest /\ delta \in Int
  BY Chunks DEF UI, Hook, Store, Rendered, Deltas
<1> QED
  BY <1>1, Chunks DEF SkipTarget

LEMMA SkipKeeps ==
  ASSUME Coherent, Quieted, Skip
  PROVE  Coherent' /\ Quieted'
<1>1. PICK delta \in Deltas :
        LET t == SkipTarget(ui, delta)
        IN  IF Primed(ui) THEN SkipWithin(t)
            ELSE SeekTo(ChunkAt(ui.page.known, t + ui.store.offset), t + ui.store.offset)
  BY DEF Skip
<1>2. SkipTarget(ui, delta) \in 0 .. Longest
  BY Shape, SkipTargetRange DEF Skip
<1>3. CASE Primed(ui)
  <2>1. SkipTarget(ui, delta) \in Nat
    BY <1>2
  <2> QED
    BY <1>1, <1>3, <2>1, SkipWithinKeeps
<1>4. CASE ~Primed(ui)
  <2> DEFINE position == SkipTarget(ui, delta) + ui.store.offset
  <2>1. position \in 0 .. 2 * Longest /\ position \in Nat
    <3>1. ui.store.offset \in 0 .. Longest
      BY Shape DEF UI, Store
    <3> QED
      BY <1>2, <3>1, Chunks
  <2>2. SeekTo(ChunkAt(ui.page.known, position), position)
    BY <1>1, <1>4
  <2> HIDE DEF position
  <2>3. ui.page.known \in Known /\ ui.page.known[0] # "none"
    BY Shape, FittingStart DEF Skip, Coherent, PageOK
  <2>4. ChunkAt(ui.page.known, position) \in Chunk
    BY <2>1, <2>3, ChunkAtPosition
  <2> QED
    BY <2>1, <2>2, <2>4, SeekToSteps, SeekStepKeeps DEF Skip
<1> QED
  BY <1>3, <1>4

LEMMA MiniSkipKeeps ==
  ASSUME Coherent, Quieted, MiniSkip
  PROVE  Coherent' /\ Quieted'
<1>1. PICK delta \in Deltas : SkipWithin(SkipTarget(ui, delta))
  BY DEF MiniSkip
<1>2. SkipTarget(ui, delta) \in Nat
  BY Shape, SkipTargetRange DEF MiniSkip
<1> QED
  BY <1>1, <1>2, SkipWithinKeeps

\* The page after the voice of its job was changed.
Revoiced ==
  LET again == [c \in Chunk |-> IF c < Length[ui.page.job] THEN "pending" ELSE "none"]
      u == [PausePlayback(ui) EXCEPT !.store.intent = FALSE, !.store.seek = NoSeek,
              !.store.anchor = 0, !.gesture = TRUE, !.page.known = again]
  IN  OpenStream(OpenJob(u))

LEMMA RevoicedFacts ==
  ASSUME Coherent, ui.page.loaded
  PROVE  LET j == ui.page.job
             again == [c \in Chunk |-> IF c < Length[j] THEN "pending" ELSE "none"]
         IN  /\ again \in Known /\ Fits(again, j)
             /\ Revoiced \in UI /\ PageOK(Revoiced) /\ Emptied(Revoiced)
             /\ ~Revoiced.store.intent
             /\ Revoiced.page.loaded /\ Revoiced.page.job = j /\ Revoiced.page.known = again
             /\ Revoiced.hook.open
             /\ Revoiced.hook.key = <<Revoiced.store.job, Revoiced.store.anchor>>
             /\ Revoiced.store.job = j /\ Revoiced.store.terminal = Terminal(again)
             /\ Revoiced.store.anchor = 0 /\ Revoiced.store.seek = NoSeek
<1> DEFINE j == ui.page.job
           again == [c \in Chunk |-> IF c < Length[j] THEN "pending" ELSE "none"]
           p == PausePlayback(ui)
           u == [p EXCEPT !.store.intent = FALSE, !.store.seek = NoSeek,
                          !.store.anchor = 0, !.gesture = TRUE, !.page.known = again]
           o == OpenJob(u)
<1>1. ui \in UI /\ j \in Jobs /\ ui.store.job = j
  BY Shape DEF Coherent, PageOK
<1>2. again \in Known /\ Fits(again, j)
  <2>1. \A c \in Chunk : c \in Nat /\ Length[j] \in Nat
    BY <1>1, Chunks, JobNumbers
  <2>2. again \in Known
    BY DEF Known, Status
  <2>3. \A c \in Chunk : again[c] = "none" <=> c >= Length[j]
    BY <2>1
  <2> HIDE DEF again
  <2> QED
    BY <2>2, <2>3 DEF Fits
<1>3. Revoiced = OpenStream(o)
  BY DEF Revoiced
<1>4. p \in UI /\ p.page = ui.page /\ p.store = ui.store
  BY <1>1, PausedFacts
<1> HIDE DEF p, again
<1>5. /\ u.page.loaded /\ u.page.job = j /\ u.page.known = again
  BY <1>1, <1>4 DEF UI, Page
<1>6. /\ u.store.job = j /\ u.store.anchor = 0 /\ u.store.seek = NoSeek /\ ~u.store.intent
  BY <1>1, <1>4 DEF UI, Store
<1>7. u \in UI
  BY <1>2, <1>4, Chunks, ZenonT(60) DEF UI, Page, Store, Known
<1> HIDE DEF u
<1>8. /\ o \in UI /\ Gentle(u, o) /\ o.page = u.page
      /\ o.store.job = j /\ o.store.terminal = Terminal(again)
      /\ o.store.anchor = 0 /\ o.store.seek = NoSeek
  BY <1>5, <1>6, <1>7, OpenJobFacts
<1>9. ~o.store.intent
  BY <1>6, <1>8 DEF Gentle
<1> HIDE DEF o
<1> DEFINE v == OpenStream(o)
<1>10. /\ v \in UI /\ Emptied(v) /\ v.hook.open /\ v.page = o.page /\ v.store = o.store
       /\ v.hook.key = <<o.store.job, o.store.anchor>>
  BY <1>8, OpenStreamFacts
<1> HIDE DEF v
<1>11. PageOK(v)
  BY <1>1, <1>2, <1>5, <1>8, <1>10 DEF PageOK
<1> QED
  BY <1>2, <1>3, <1>5, <1>8, <1>9, <1>10, <1>11 DEF again, v

LEMMA RevoiceKeeps ==
  ASSUME Coherent, Quieted, Revoice
  PROVE  Coherent' /\ Quieted'
<1> DEFINE j == ui.page.job
           again == [c \in Chunk |-> IF c < Length[j] THEN "pending" ELSE "none"]
<1>1. /\ ui.page.loaded /\ ui' = Commit(ui, Revoiced) /\ calls' = calls
      /\ srv' = [srv EXCEPT !.status[j] = again]
      /\ hist' = [Clicked(hist) EXCEPT !.asked = "pause",
                    !.overrun = "play" \in {ui.events[i] : i \in DOMAIN ui.events}]
  BY DEF Revoice, Revoiced
<1>2. /\ j \in Jobs /\ srv \in [status : [Jobs -> [Chunk -> Status]], saved : [Jobs -> 0 .. 2 * Longest]]
      /\ \A k \in Jobs : Fits(srv.status[k], k)
  BY <1>1 DEF Coherent, TypeOK, PageOK
<1>3. /\ again \in Known /\ Fits(again, j)
      /\ Revoiced \in UI /\ PageOK(Revoiced) /\ Emptied(Revoiced) /\ ~Revoiced.store.intent
  BY <1>1, RevoicedFacts
<1> HIDE DEF again
<1>4. /\ srv'.saved = srv.saved
      /\ srv'.status = [srv.status EXCEPT ![j] = again]
      /\ srv' \in [status : [Jobs -> [Chunk -> Status]], saved : [Jobs -> 0 .. 2 * Longest]]
  <2> HIDE DEF Longest
  <2> QED
    BY <1>1, <1>2, <1>3 DEF Known
<1>5. \A k \in Jobs : Fits(srv'.status[k], k)
  BY <1>2, <1>3, <1>4
<1>6. Revoiced.hook.paused /\ Queued(Revoiced) = {}
  BY <1>3, NothingQueued DEF Emptied
<1> QED
  BY <1>1, <1>3, <1>4, <1>5, <1>6, QuietCommit

LEMMA RetryRenderKeeps ==
  ASSUME Coherent, Quieted, RetryRender
  PROVE  Coherent' /\ Quieted'
<1> DEFINE u == [ui EXCEPT !.gesture = TRUE]
<1>1. ui \in UI /\ hist \in History /\ calls \subseteq ActivateCall
  BY Shape
<1>2. /\ u.page = ui.page /\ u.store = ui.store /\ u.hook = ui.hook /\ u.events = ui.events
      /\ u \in UI
  BY <1>1 DEF UI
<1>3. ui' = Commit(ui, Synced(u)) /\ ui.page.loaded /\ srv' = srv /\ calls' = calls
      /\ hist' = Clicked(hist)
  BY DEF RetryRender
<1> HIDE DEF u
<1>4. Synced(u) \in UI /\ PageOK(Synced(u)) /\ Gentle(u, Synced(u))
  BY <1>2, <1>3, SyncedFacts
<1>5. Quiet(ui) => Quiet(Synced(u))
  BY <1>2, <1>4 DEF Gentle, Quiet, Queued
<1>6. hist' \in History /\ hist'.asked = hist.asked /\ hist'.overrun = hist.overrun
  BY <1>1, <1>3, ClickedFacts
<1> QED
  BY <1>1, <1>3, <1>4, <1>5, <1>6, GentleCommit

\* An activation that failed: the intent goes, and with it the seek it was for.
Refused(call) ==
  [ui EXCEPT !.store.intent = FALSE,
             !.store.seek = IF call.from = "seek" THEN NoSeek ELSE @]

LEMMA RefusedFacts ==
  ASSUME ui \in UI, NEW call
  PROVE  LET v == Refused(call)
         IN  /\ v \in UI /\ Gentle(ui, v) /\ v.page = ui.page /\ v.hook = ui.hook
             /\ v.events = ui.events
             /\ v.store.job = ui.store.job /\ v.store.terminal = ui.store.terminal
             /\ v.store.anchor = ui.store.anchor /\ v.store.chunks = ui.store.chunks
             /\ v.store.offset = ui.store.offset /\ v.store.seek \in {ui.store.seek, NoSeek}
<1> DEFINE v == Refused(call)
<1>1. v.page = ui.page /\ v.hook = ui.hook /\ v.events = ui.events
  BY DEF Refused, UI
<1>2. /\ v.store.job = ui.store.job /\ v.store.terminal = ui.store.terminal
      /\ v.store.anchor = ui.store.anchor /\ v.store.chunks = ui.store.chunks
      /\ v.store.offset = ui.store.offset /\ v.store.seek \in {ui.store.seek, NoSeek}
      /\ ~v.store.intent
  BY DEF Refused, UI, Store
<1>3. v \in UI
  BY DEF Refused, UI, Store
<1> HIDE DEF v
<1>4. Gentle(ui, v)
  BY <1>1, <1>2 DEF Gentle, Queued
<1> QED
  BY <1>1, <1>2, <1>3, <1>4 DEF v

LEMMA ActivatedKeeps ==
  ASSUME Coherent, Quieted, Activated
  PROVE  Coherent' /\ Quieted'
<1>1. PICK call \in calls :
       /\ calls' = calls \ {call}
       /\ \/ /\ \E v \in Attempts(ui) : ui' = Commit(ui, v)
             /\ hist' = [hist EXCEPT !.overrun = @ \/ ~ui.store.intent]
          \/ ui' = Commit(ui, Refused(call)) /\ hist' = hist
  BY DEF Activated, Refused
<1>2. ui \in UI /\ hist \in History /\ calls' \subseteq ActivateCall /\ srv' = srv
      /\ ui.store.intent \in BOOLEAN
  BY <1>1, Shape DEF Activated
<1>3. ASSUME NEW v \in Attempts(ui), ui' = Commit(ui, v),
             hist' = [hist EXCEPT !.overrun = @ \/ ~ui.store.intent]
      PROVE  Coherent' /\ Quieted'
  <2>1. v \in UI /\ v.page = ui.page /\ v.store = ui.store
    BY <1>2, <1>3, AttemptsFacts
  <2>2. PageOK(v)
    BY <2>1 DEF PageOK, Coherent
  <2>3. hist' \in History /\ hist'.asked = hist.asked
        /\ hist'.overrun = (hist.overrun \/ ~ui.store.intent)
    BY <1>2, <1>3 DEF History
  <2>4. CASE ui.store.intent
    <3>1. hist'.overrun = hist.overrun
      BY <1>2, <2>3, <2>4 DEF History
    <3>2. ~Quiet(ui)
      BY <2>4 DEF Quiet
    <3> QED
      BY <1>2, <1>3, <2>1, <2>2, <2>3, <3>1, <3>2, GentleCommit
  <2>5. CASE ~ui.store.intent
    BY <1>2, <1>3, <2>1, <2>2, <2>3, <2>5, PlayingCommit
  <2> QED
    BY <2>4, <2>5
<1>4. ASSUME ui' = Commit(ui, Refused(call)), hist' = hist
      PROVE  Coherent' /\ Quieted'
  <2> DEFINE v == Refused(call)
  <2>1. v \in UI /\ Gentle(ui, v) /\ v.page = ui.page /\ v.store.job = ui.store.job
    BY <1>2, RefusedFacts
  <2> HIDE DEF v
  <2>2. PageOK(v) /\ (Quiet(ui) => Quiet(v))
    BY <2>1, GentleKeepsQuiet DEF PageOK, Coherent
  <2> QED
    BY <1>2, <1>4, <2>1, <2>2, GentleCommit DEF v
<1> QED
  BY <1>1, <1>3, <1>4

\* The stream after the next chunk of its manifest was appended.
Appended ==
  LET stalled == ~ui.hook.paused /\ ui.hook.time = ui.hook.buf
  IN  [ui EXCEPT !.hook.buf = @ + 1,
                 !.events = IF stalled THEN Append(@, "playing") ELSE @]

LEMMA AppendedFacts ==
  ASSUME ui \in UI, CanAppend
  PROVE  LET v == Appended
         IN  /\ v \in UI /\ Gentle(ui, v) /\ v.page = ui.page /\ v.store = ui.store
             /\ v.hook.open = ui.hook.open /\ v.hook.key = ui.hook.key
             /\ v.hook.buf = ui.hook.buf + 1 /\ v.hook.time = ui.hook.time
             /\ v.hook.paused = ui.hook.paused /\ v.hook.ended = ui.hook.ended
             /\ v.hook.playing = ui.hook.playing
             /\ ui.hook.paused => v.events = ui.events
<1> DEFINE news == IF ~ui.hook.paused /\ ui.hook.time = ui.hook.buf
                   THEN Append(ui.events, "playing") ELSE ui.events
           v == [ui EXCEPT !.hook.buf = @ + 1, !.events = news]
<1>1. Appended = v
  BY DEF Appended
<1>2. /\ news \in Seq(MediaEvent) /\ (ui.hook.paused => news = ui.events)
      /\ \A e \in {"play", "ended"} :
           e \in {news[i] : i \in DOMAIN news} => e \in Queued(ui)
  <2>1. ui.events \in Seq(MediaEvent) /\ "playing" \in MediaEvent
    BY DEF UI, MediaEvent
  <2> DEFINE s == ui.events
             r == Append(s, "playing")
  <2>2. r \in Seq(MediaEvent)
        /\ {r[i] : i \in DOMAIN r} = {s[i] : i \in DOMAIN s} \cup {"playing"}
    BY <2>1, QueuedAppend
  <2>3. CASE ~ui.hook.paused /\ ui.hook.time = ui.hook.buf
    <3>1. news = r
      BY <2>3
    <3> HIDE DEF r, news
    <3> QED
      BY <2>2, <2>3, <3>1 DEF Queued
  <2>4. CASE ~(~ui.hook.paused /\ ui.hook.time = ui.hook.buf)
    <3>1. news = s
      BY <2>4
    <3> HIDE DEF r, news
    <3> QED
      BY <2>1, <3>1 DEF Queued
  <2> QED
    BY <2>3, <2>4
<1> HIDE DEF news
<1>3. v.page = ui.page /\ v.store = ui.store /\ v.events = news
  BY DEF UI
<1>4. /\ v.hook.open = ui.hook.open /\ v.hook.key = ui.hook.key
      /\ v.hook.buf = ui.hook.buf + 1 /\ v.hook.time = ui.hook.time
      /\ v.hook.paused = ui.hook.paused /\ v.hook.ended = ui.hook.ended
      /\ v.hook.playing = ui.hook.playing
  BY DEF UI, Hook
<1>5. ui.hook.buf + 1 \in 0 .. Longest
  <2>1. ui.hook.buf \in Nat /\ Rendered(ui) \in 0 .. Longest /\ ui.hook.buf < Rendered(ui)
    BY Chunks DEF CanAppend, Rendered, UI, Hook, Store
  <2> QED
    BY <2>1, Chunks
<1>6. v \in UI
  <2> HIDE DEF Longest
  <2> QED
    BY <1>2, <1>5 DEF UI, Hook
<1> HIDE DEF v
<1>7. Gentle(ui, v)
  BY <1>2, <1>3, <1>4 DEF Gentle, Queued
<1> QED
  BY <1>1, <1>2, <1>3, <1>4, <1>6, <1>7

LEMMA AppendChunkKeeps ==
  ASSUME Coherent, Quieted, AppendChunk
  PROVE  Coherent' /\ Quieted'
<1> DEFINE v == Update(Appended, TRUE)
<1>1. ui \in UI /\ hist \in History /\ calls \subseteq ActivateCall
  BY Shape
<1>2. ui' = Commit(ui, v) /\ UNCHANGED <<srv, calls, hist>> /\ CanAppend
  BY DEF AppendChunk, Appended
<1>3. Appended \in UI /\ Gentle(ui, Appended) /\ Appended.page = ui.page
      /\ Appended.store = ui.store /\ Appended.hook.paused = ui.hook.paused
  BY <1>1, <1>2, AppendedFacts
<1>4. v \in UI /\ Gentle(Appended, v) /\ v.page = ui.page /\ v.store = ui.store
  BY <1>3, UpdateFacts
<1> HIDE DEF v
<1>5. PageOK(v) /\ (Quiet(ui) => Quiet(v))
  BY <1>3, <1>4, GentleKeepsQuiet DEF PageOK, Coherent
<1> QED
  BY <1>1, <1>2, <1>4, <1>5, GentleCommit

LEMMA PlayChunkKeeps ==
  ASSUME Coherent, Quieted, PlayChunk
  PROVE  Coherent' /\ Quieted'
<1> DEFINE u == [ui EXCEPT !.hook.time = @ + 1]
           w == [u EXCEPT !.events = Append(@, "waiting")]
           e == [u EXCEPT !.hook.paused = TRUE, !.events = @ \o <<"pause", "ended">>]
<1>1. ui \in UI /\ hist \in History /\ calls \subseteq ActivateCall
      /\ ui.hook.paused \in BOOLEAN
  BY Shape
<1>2. /\ ~ui.hook.paused /\ ui.hook.time < ui.hook.buf
      /\ ui' \in {u, w, e}
      /\ hist' = [hist EXCEPT !.earned = TRUE] /\ UNCHANGED <<srv, calls>>
  BY DEF PlayChunk, CanPlay
<1>3. ui.hook.time + 1 \in 0 .. Longest
  <2>1. ui.hook.time \in Nat /\ ui.hook.buf \in 0 .. Longest
    BY <1>1, Chunks DEF UI, Hook
  <2> QED
    BY <1>2, <2>1, Chunks
<1>4. u \in UI /\ u.page = ui.page /\ u.store = ui.store
  <2> HIDE DEF Longest
  <2> QED
    BY <1>1, <1>3 DEF UI, Hook
<1>5. u.events \in Seq(MediaEvent) /\ {"waiting", "pause", "ended"} \subseteq MediaEvent
  BY <1>4 DEF UI, MediaEvent
<1> HIDE DEF u
<1>6. w \in UI /\ w.page = ui.page /\ w.store = ui.store
  <2>1. Append(u.events, "waiting") \in Seq(MediaEvent)
    BY <1>5
  <2> QED
    BY <1>4, <2>1 DEF UI
<1>7. e \in UI /\ e.page = ui.page /\ e.store = ui.store
  <2>1. <<"pause", "ended">> \in Seq(MediaEvent)
    BY <1>5
  <2>2. u.events \o <<"pause", "ended">> \in Seq(MediaEvent)
    BY <1>5, <2>1
  <2> QED
    BY <1>4, <2>2 DEF UI, Hook
<1> HIDE DEF w, e
<1>8. ui' \in UI /\ ui'.page = ui.page /\ ui'.store = ui.store
  BY <1>2, <1>4, <1>6, <1>7
<1>9. PageOK(ui')
  BY <1>8 DEF PageOK, Coherent
<1>10. hist' \in History /\ hist'.asked = hist.asked /\ hist'.overrun = hist.overrun
  BY <1>1, <1>2 DEF History
<1>11. Quieted'
  BY <1>1, <1>2, <1>10 DEF Quieted, Quiet
<1> QED
  BY <1>1, <1>2, <1>8, <1>9, <1>10, <1>11 DEF Coherent, TypeOK

LEMMA TickKeeps ==
  ASSUME Coherent, Quieted, Tick
  PROVE  Coherent' /\ Quieted'
<1> DEFINE v == Update(ui, FALSE)
<1>1. ui \in UI /\ hist \in History /\ calls \subseteq ActivateCall
  BY Shape
<1>2. ui' = Commit(ui, v) /\ UNCHANGED <<srv, calls, hist>>
  BY DEF Tick
<1>3. v \in UI /\ Gentle(ui, v) /\ v.page = ui.page /\ v.store = ui.store
  BY <1>1, UpdateFacts
<1> HIDE DEF v
<1>4. PageOK(v) /\ (Quiet(ui) => Quiet(v))
  BY <1>3, GentleKeepsQuiet DEF PageOK, Coherent
<1> QED
  BY <1>1, <1>2, <1>3, <1>4, GentleCommit

\* The effect that resumes playback has been run.
Undue == [ui EXCEPT !.hook.due = FALSE]

LEMMA UndueFacts ==
  ASSUME ui \in UI
  PROVE  /\ Undue \in UI /\ SameStream(ui, Undue) /\ Undue.page = ui.page
         /\ Undue.store = ui.store /\ Undue.events = ui.events
         /\ Undue.hook.paused = ui.hook.paused /\ Undue.hook.snap = ui.hook.snap
         /\ Undue.hook.ended = ui.hook.ended /\ Undue.hook.playing = ui.hook.playing
<1>1. Undue.page = ui.page /\ Undue.store = ui.store /\ Undue.events = ui.events
  BY DEF Undue, UI
<1>2. /\ Undue.hook.open = ui.hook.open /\ Undue.hook.key = ui.hook.key
      /\ Undue.hook.buf = ui.hook.buf /\ Undue.hook.time = ui.hook.time
      /\ Undue.hook.paused = ui.hook.paused /\ Undue.hook.snap = ui.hook.snap
      /\ Undue.hook.ended = ui.hook.ended /\ Undue.hook.playing = ui.hook.playing
  BY DEF Undue, UI, Hook
<1>3. Undue \in UI
  BY DEF Undue, UI, Hook
<1> QED
  BY <1>1, <1>2, <1>3 DEF SameStream

LEMMA ResumeSteps ==
  ASSUME Resume
  PROVE  /\ UNCHANGED <<srv, calls, hist>>
         /\ \/ ui' = Commit(Undue, Undue)
            \/ Undue.store.intent /\ \E v \in Attempts(Undue) : ui' = Commit(Undue, v)
<1> DEFINE ready == /\ Undue.store.intent /\ ~Undue.hook.blocked /\ Undue.store.seek = NoSeek
                    /\ Primed(Undue) /\ BufferedAhead(Undue)
                    /\ (Undue.hook.paused \/ Undue.hook.waiting)
<1>1. UNCHANGED <<srv, calls, hist>>
      /\ \E v \in IF ready THEN Attempts(Undue) ELSE {Undue} : ui' = Commit(Undue, v)
  BY DEF Resume, Undue
<1> QED
  BY <1>1

LEMMA ResumeKeeps ==
  ASSUME Coherent, Quieted, Resume
  PROVE  Coherent' /\ Quieted'
<1>1. ui \in UI /\ hist \in History /\ calls \subseteq ActivateCall
  BY Shape
<1>2. Undue \in UI /\ Undue.page = ui.page /\ Undue.store = ui.store /\ Undue.events = ui.events
      /\ Undue.hook.paused = ui.hook.paused
  BY <1>1, UndueFacts
<1>3. PICK v \in Attempts(Undue) \cup {Undue} :
        ui' = Commit(Undue, v) /\ (v # Undue => Undue.store.intent)
  BY ResumeSteps
<1>4. v \in UI /\ v.page = ui.page /\ v.store = ui.store
  <2>1. CASE v = Undue
    BY <1>2, <2>1
  <2>2. CASE v \in Attempts(Undue)
    <3>1. v \in UI /\ v.page = Undue.page /\ v.store = Undue.store
      BY <1>2, <2>2, AttemptsFacts
    <3> QED
      BY <1>2, <3>1
  <2> QED
    BY <2>1, <2>2
<1>5. PageOK(v)
  BY <1>4 DEF PageOK, Coherent
<1>6. ui' \in UI /\ PageOK(ui') /\ Gentle(v, ui')
  BY <1>2, <1>3, <1>4, <1>5, CommitFacts, CommitKeepsPage
<1>7. Quiet(ui) => Quiet(ui')
  <2> HAVE Quiet(ui)
  <2>1. v = Undue
    BY <1>2, <1>3 DEF Quiet
  <2>2. Quiet(v)
    BY <1>2, <2>1 DEF Quiet, Queued
  <2> QED
    BY <1>6, <2>2, GentleKeepsQuiet
<1> QED
  BY <1>6, <1>7, ResumeSteps DEF Coherent, TypeOK, Quieted

LEMMA HandledFacts ==
  ASSUME NEW u \in UI, NEW event \in MediaEvent
  PROVE  LET v == Handled(u, event)
         IN  /\ v \in UI /\ SameStream(u, v) /\ v.page = u.page
             /\ v.store.job = u.store.job /\ v.store.terminal = u.store.terminal
             /\ v.store.anchor = u.store.anchor /\ v.store.chunks = u.store.chunks
             /\ v.store.offset = u.store.offset /\ v.store.seek = u.store.seek
             /\ v.hook.snap.buf = u.hook.buf
             /\ event # "play" => Gentle(u, v)
             /\ u.hook.paused => v.hook.paused /\ ~v.hook.playing /\ v.events = u.events
             /\ "ended" \in Queued(v) => "ended" \in Queued(u)
             /\ v.hook.ended => u.hook.ended \/ event = "ended" \/ Ending(u)
<1> DEFINE k == u.hook
           done == Rendered(u) > 0 /\ (u.store.terminal \/ k.time < Rendered(u))
           x(playing, waiting, ended, blocked) ==
             [u EXCEPT !.hook = [@ EXCEPT !.playing = playing, !.waiting = waiting,
                                          !.ended = ended, !.blocked = blocked]]
           h(playing, waiting, ended, blocked) == Update(x(playing, waiting, ended, blocked), TRUE)
           Fine(y) == /\ y \in UI /\ SameStream(u, y) /\ y.page = u.page /\ y.store = u.store
                      /\ y.hook.snap.buf = u.hook.buf /\ Gentle(u, y)
                      /\ u.hook.paused => ~y.hook.playing /\ y.events = u.events
<1>1. ASSUME NEW p \in BOOLEAN, NEW w \in BOOLEAN, NEW e \in BOOLEAN, NEW b \in BOOLEAN
      PROVE  /\ Fine(h(p, w, e, b))
             /\ h(p, w, e, b).hook.ended => e \/ Ending(u)
  <2> DEFINE z == x(p, w, e, b)
             y == Update(z, TRUE)
  <2>1. /\ z.page = u.page /\ z.store = u.store /\ z.events = u.events /\ z.pend = u.pend
    BY DEF UI
  <2>2. /\ z.hook.open = u.hook.open /\ z.hook.key = u.hook.key
        /\ z.hook.buf = u.hook.buf /\ z.hook.time = u.hook.time
        /\ z.hook.paused = u.hook.paused /\ z.hook.ended = e
    BY DEF UI, Hook
  <2>3. z \in UI
    <3> DEFINE o == [u.hook EXCEPT !.playing = p, !.waiting = w, !.ended = e, !.blocked = b]
    <3>1. u.hook \in Hook
      BY DEF UI
    <3>2. o \in Hook
      BY <3>1, ZenonT(60) DEF Hook
    <3>3. z = [u EXCEPT !.hook = o]
      OBVIOUS
    <3> HIDE DEF o, x
    <3> QED
      BY <3>2, <3>3 DEF UI
  <2> HIDE DEF x, z
  <2>4. /\ y \in UI /\ Gentle(z, y) /\ SameStream(z, y)
        /\ y.page = z.page /\ y.store = z.store
        /\ y.hook.snap = [time |-> z.hook.time, buf |-> z.hook.buf, paused |-> z.hook.paused]
        /\ y.hook.ended => z.hook.ended \/ Ending(z)
        /\ z.hook.paused => ~y.hook.playing /\ y.events = z.events
    BY <2>3, UpdateFacts
  <2> HIDE DEF y
  <2>5. y.hook.snap.buf = u.hook.buf
    BY <2>2, <2>4
  <2>6. Gentle(u, y) /\ SameStream(u, y)
    BY <2>1, <2>2, <2>4 DEF Gentle, Queued, SameStream
  <2>7. Ending(z) <=> Ending(u)
    BY <2>1, <2>2 DEF Ending, Rendered
  <2> QED
    BY <2>1, <2>2, <2>4, <2>5, <2>6, <2>7 DEF y, z
<1>b. /\ k.waiting \in BOOLEAN /\ k.ended \in BOOLEAN /\ k.blocked \in BOOLEAN
      /\ u.store.terminal \in BOOLEAN /\ done \in BOOLEAN /\ u.store.intent \in BOOLEAN
  BY DEF UI, Hook, Store
<1> HIDE DEF h, done
\* What a handler does to the intent leaves the rest alone.
<1>2. ASSUME NEW y, Fine(y), NEW i \in BOOLEAN, NEW v, v = [y EXCEPT !.store.intent = i]
      PROVE  /\ v \in UI /\ SameStream(u, v) /\ v.page = u.page
             /\ v.store.job = u.store.job /\ v.store.terminal = u.store.terminal
             /\ v.store.anchor = u.store.anchor /\ v.store.chunks = u.store.chunks
             /\ v.store.offset = u.store.offset /\ v.store.seek = u.store.seek
             /\ v.hook = y.hook
             /\ v.hook.snap.buf = u.hook.buf
             /\ (i => u.store.intent) => Gentle(u, v)
             /\ u.hook.paused => v.hook.paused /\ ~v.hook.playing /\ v.events = u.events
             /\ "ended" \in Queued(v) => "ended" \in Queued(u)
  <2>1. v.page = y.page /\ v.hook = y.hook /\ v.events = y.events
    BY <1>2 DEF UI
  <2>2. /\ v.store.job = y.store.job /\ v.store.terminal = y.store.terminal
        /\ v.store.anchor = y.store.anchor /\ v.store.chunks = y.store.chunks
        /\ v.store.offset = y.store.offset /\ v.store.seek = y.store.seek
        /\ v.store.intent = i
    BY <1>2 DEF UI, Store
  <2>3. v \in UI
    BY <1>2 DEF UI, Store
  <2> QED
    BY <1>2, <2>1, <2>2, <2>3 DEF Gentle, Queued, SameStream
<1> HIDE DEF Fine
<1> DEFINE v == Handled(u, event)
<1>3. CASE event = "play"
  <2> DEFINE y == h(TRUE, FALSE, FALSE, FALSE)
  <2>1. Fine(y) /\ (y.hook.ended => Ending(u))
    BY <1>1
  <2>2. v = [y EXCEPT !.store.intent = u.store.intent \/ u.store.terminal]
    <3>1. v = [y EXCEPT !.store.intent = @ \/ u.store.terminal]
      BY <1>3 DEF Handled, h, x
    <3>2. y.store = u.store /\ y \in UI
      BY <2>1 DEF Fine
    <3> QED
      BY <3>1, <3>2
  <2> HIDE DEF v, y
  <2> QED
    BY <1>b, <1>2, <1>3, <2>1, <2>2 DEF v
<1>4. CASE event = "pause"
  <2> DEFINE y == h(FALSE, k.waiting, k.ended, k.blocked)
  <2>1. Fine(y) /\ (y.hook.ended => k.ended \/ Ending(u))
    BY <1>1, <1>b
  <2>2. v = [y EXCEPT !.store.intent = u.store.intent /\ ~u.store.terminal]
    <3>1. v = [y EXCEPT !.store.intent = @ /\ ~u.store.terminal]
      BY <1>4 DEF Handled, h, x
    <3>2. y.store = u.store /\ y \in UI
      BY <2>1 DEF Fine
    <3> QED
      BY <3>1, <3>2
  <2> DEFINE i == u.store.intent /\ ~u.store.terminal
  <2>3. i \in BOOLEAN /\ (i => u.store.intent) /\ v = [y EXCEPT !.store.intent = i]
    BY <1>b, <2>2
  <2> HIDE DEF v, y, i
  <2> QED
    BY <1>2, <1>4, <2>1, <2>3 DEF v
<1>5. CASE event = "waiting"
  <2>1. v = h(FALSE, TRUE, k.ended, k.blocked)
    BY <1>5 DEF Handled, h, x
  <2>2. Fine(v) /\ (v.hook.ended => k.ended \/ Ending(u))
    BY <1>1, <1>b, <2>1
  <2> HIDE DEF v
  <2> QED
    BY <1>5, <2>2 DEF v, Fine, Gentle
<1>6. CASE event = "playing"
  <2>1. v = h(TRUE, FALSE, FALSE, FALSE)
    BY <1>6 DEF Handled, h, x
  <2>2. Fine(v) /\ (v.hook.ended => Ending(u))
    BY <1>1, <1>b, <2>1
  <2> HIDE DEF v
  <2> QED
    BY <1>6, <2>2 DEF v, Fine, Gentle
<1>7. CASE event = "ended"
  <2> DEFINE y == h(FALSE, k.waiting, u.store.terminal, k.blocked)
  <2>1. Fine(y)
    BY <1>1, <1>b
  <2>2. v = [y EXCEPT !.store.intent = u.store.intent /\ ~done]
    <3>1. v = [y EXCEPT !.store.intent = @ /\ ~done]
      BY <1>7 DEF Handled, h, x, done
    <3>2. y.store = u.store /\ y \in UI
      BY <2>1 DEF Fine
    <3> QED
      BY <3>1, <3>2
  <2> DEFINE i == u.store.intent /\ ~done
  <2>3. i \in BOOLEAN /\ (i => u.store.intent) /\ v = [y EXCEPT !.store.intent = i]
    BY <1>b, <2>2
  <2> HIDE DEF v, y, i
  <2> QED
    BY <1>2, <1>7, <2>1, <2>3 DEF v
<1> QED
  BY <1>3, <1>4, <1>5, <1>6, <1>7 DEF MediaEvent

LEMMA PositionRange ==
  ASSUME NEW u \in UI
  PROVE  Position(u) \in 0 .. 2 * Longest
<1>1. /\ u.store.seek \in {NoSeek} \cup 0 .. 2 * Longest
      /\ u.hook.snap.time \in 0 .. Longest /\ u.store.offset \in 0 .. Longest
  BY DEF UI, Store, Hook
<1> QED
  BY <1>1, Chunks DEF Position

\* A report leaves the player as it was, but for what it still has to report.
LEMMA ReportFacts ==
  ASSUME srv \in [status : [Jobs -> [Chunk -> Status]], saved : [Jobs -> 0 .. 2 * Longest]],
         NEW u \in UI, Report(u)
  PROVE  /\ srv' \in [status : [Jobs -> [Chunk -> Status]], saved : [Jobs -> 0 .. 2 * Longest]]
         /\ srv'.status = srv.status
         /\ ui' \in UI /\ ui'.page = u.page /\ ui'.store = u.store /\ ui'.hook = u.hook
         /\ ui'.events = u.events
<1>1. CASE srv' = [srv EXCEPT !.saved[u.store.job] = Position(u)] /\ ui' = [u EXCEPT !.pend = {}]
  <2>1. Position(u) \in 0 .. 2 * Longest
    BY PositionRange
  <2> DEFINE p == Position(u)
             T == 0 .. 2 * Longest
  <2>2. p \in T /\ srv \in [status : [Jobs -> [Chunk -> Status]], saved : [Jobs -> T]]
        /\ srv' = [srv EXCEPT !.saved[u.store.job] = p]
    BY <1>1, <2>1
  <2> HIDE DEF p, T
  <2>3. srv' \in [status : [Jobs -> [Chunk -> Status]], saved : [Jobs -> T]]
        /\ srv'.status = srv.status
    BY <2>2
  <2>4. /\ ui' \in UI /\ ui'.page = u.page /\ ui'.store = u.store /\ ui'.hook = u.hook
        /\ ui'.events = u.events
    BY <1>1 DEF UI
  <2> QED
    BY <2>3, <2>4 DEF T
<1>2. CASE ui' = u /\ srv' = srv
  BY <1>2
<1> QED
  BY <1>1, <1>2 DEF Report

\* The first queued event is taken from the queue.
Taken == [ui EXCEPT !.events = Tail(@)]

LEMMA TakenFacts ==
  ASSUME ui \in UI, ui.events # <<>>
  PROVE  /\ Taken \in UI /\ Taken.page = ui.page /\ Taken.store = ui.store
         /\ Taken.hook = ui.hook
         /\ Head(ui.events) \in MediaEvent /\ Head(ui.events) \in Queued(ui)
         /\ Queued(Taken) \subseteq Queued(ui)
<1>1. ui.events \in Seq(MediaEvent)
  BY DEF UI
<1>2. /\ Taken.page = ui.page /\ Taken.store = ui.store /\ Taken.hook = ui.hook
      /\ Taken.events = Tail(ui.events)
  BY DEF Taken, UI
<1> DEFINE s == ui.events
           t == Tail(s)
<1>3. /\ t \in Seq(MediaEvent) /\ Head(s) \in {s[i] : i \in DOMAIN s} /\ Head(s) \in MediaEvent
      /\ {t[i] : i \in DOMAIN t} \subseteq {s[i] : i \in DOMAIN s}
  BY <1>1, QueuedTail
<1>4. Taken \in UI
  <2>1. Tail(ui.events) \in Seq(MediaEvent)
    BY <1>3
  <2> QED
    BY <2>1 DEF Taken, UI
<1>5. Queued(Taken) = {t[i] : i \in DOMAIN t} /\ Queued(ui) = {s[i] : i \in DOMAIN s}
  BY <1>2 DEF Queued
<1> QED
  BY <1>2, <1>3, <1>4, <1>5

LEMMA DeliverSteps ==
  ASSUME Deliver
  PROVE  LET v == Commit(Taken, Handled(Taken, Head(ui.events)))
         IN  /\ ui.events # <<>> /\ UNCHANGED <<calls, hist>>
             /\ (ui' = v /\ UNCHANGED srv) \/ Report(v)
BY DEF Deliver, Taken

LEMMA DeliverKeeps ==
  ASSUME Coherent, Quieted, Deliver
  PROVE  Coherent' /\ Quieted'
<1> DEFINE event == Head(ui.events)
           h == Handled(Taken, event)
           v == Commit(Taken, h)
<1>1. ui \in UI /\ ui.events # <<>> /\ UNCHANGED <<calls, hist>>
      /\ ((ui' = v /\ UNCHANGED srv) \/ Report(v))
  BY Shape, DeliverSteps
<1>2. /\ Taken \in UI /\ Taken.page = ui.page /\ Taken.store = ui.store /\ Taken.hook = ui.hook
      /\ event \in MediaEvent /\ event \in Queued(ui) /\ Queued(Taken) \subseteq Queued(ui)
  BY <1>1, TakenFacts
<1> HIDE DEF event
<1>3. /\ h \in UI /\ h.page = ui.page /\ h.store.job = ui.store.job
      /\ event # "play" => Gentle(Taken, h)
  BY <1>2, HandledFacts
<1> HIDE DEF h
<1>4. PageOK(h)
  BY <1>3 DEF PageOK, Coherent
<1>5. v \in UI /\ PageOK(v) /\ Gentle(h, v)
  BY <1>2, <1>3, <1>4, CommitFacts, CommitKeepsPage
<1> HIDE DEF v
<1>6. Quiet(ui) => Quiet(v)
  <2> HAVE Quiet(ui)
  <2>1. event # "play" /\ Quiet(Taken)
    BY <1>2 DEF Quiet
  <2> QED
    BY <1>3, <1>5, <2>1, GentleKeepsQuiet
<1>7. srv \in [status : [Jobs -> [Chunk -> Status]], saved : [Jobs -> 0 .. 2 * Longest]]
  BY DEF Coherent, TypeOK
<1>8. /\ srv' \in [status : [Jobs -> [Chunk -> Status]], saved : [Jobs -> 0 .. 2 * Longest]]
      /\ srv'.status = srv.status
      /\ ui' \in UI /\ ui'.page = v.page /\ ui'.store = v.store /\ ui'.hook = v.hook
      /\ ui'.events = v.events
  <2>1. CASE ui' = v /\ UNCHANGED srv
    BY <1>5, <1>7, <2>1
  <2>2. CASE Report(v)
    BY <1>5, <1>7, <2>2, ReportFacts
  <2> QED
    BY <1>1, <2>1, <2>2
<1>9. PageOK(ui') /\ (Quiet(ui) => Quiet(ui'))
  BY <1>5, <1>6, <1>8 DEF PageOK, Quiet, Queued
<1> QED
  BY <1>1, <1>8, <1>9 DEF Coherent, TypeOK, Quieted

LEMMA FlushKeeps ==
  ASSUME Coherent, Quieted, Flush
  PROVE  Coherent' /\ Quieted'
<1>1. ui \in UI /\ Report(ui) /\ UNCHANGED <<calls, hist>>
      /\ srv \in [status : [Jobs -> [Chunk -> Status]], saved : [Jobs -> 0 .. 2 * Longest]]
  BY DEF Flush, Coherent, TypeOK
<1>2. /\ srv' \in [status : [Jobs -> [Chunk -> Status]], saved : [Jobs -> 0 .. 2 * Longest]]
      /\ srv'.status = srv.status
      /\ ui' \in UI /\ ui'.page = ui.page /\ ui'.store = ui.store /\ ui'.hook = ui.hook
      /\ ui'.events = ui.events
  BY <1>1, ReportFacts
<1>3. PageOK(ui') /\ (Quiet(ui) => Quiet(ui'))
  BY <1>2 DEF PageOK, Quiet, Queued, Coherent
<1> QED
  BY <1>1, <1>2, <1>3 DEF Coherent, TypeOK, Quieted

LEMMA StepKeeps ==
  ASSUME Coherent, Quieted, [Next]_vars
  PROVE  Coherent' /\ Quieted'
<1>1. CASE UNCHANGED vars
  BY <1>1 DEF vars, Coherent, TypeOK, Quieted
<1>2. CASE \E j \in Jobs : Render(j)
  BY <1>2, RenderKeeps
<1>3. CASE Navigate \/ PressPlay \/ PressPause \/ Replay
  BY <1>3, NavigateKeeps, PressPlayKeeps, PressPauseKeeps, ReplayKeeps
<1>4. CASE SeekChunk \/ Skip \/ MiniSkip \/ Revoice \/ RetryRender
  BY <1>4, SeekChunkKeeps, SkipKeeps, MiniSkipKeeps, RevoiceKeeps, RetryRenderKeeps
<1>5. CASE LoadPage \/ SyncPage \/ Activated
  BY <1>5, LoadPageKeeps, SyncPageKeeps, ActivatedKeeps
<1>6. CASE AppendChunk \/ PlayChunk \/ Tick \/ Resume
  BY <1>6, AppendChunkKeeps, PlayChunkKeeps, TickKeeps, ResumeKeeps
<1>7. CASE Deliver \/ Flush
  BY <1>7, DeliverKeeps, FlushKeeps
<1> QED
  BY <1>1, <1>2, <1>3, <1>4, <1>5, <1>6, <1>7 DEF Next, System

\* Every variable keeps its type: the hook's playhead and buffer, which add up
\* chunk by chunk in media-source.ts, stay within the longest job, and what the
\* page hands to the store and saves on the server stays in range.
THEOREM TypeCorrect == Spec => []TypeOK
<1>1. Coherent => TypeOK
  BY DEF Coherent
<1> QED
  BY <1>1, InitCoherent, StepKeeps, PTL DEF Spec

\* After handleTogglePlay has paused, the audio rests and the intent is off until
\* the listener asks again: no effect of PlayerProvider, frame of the hook or
\* event of the element starts it, unless a play event was already queued or an
\* activation is answered.
THEOREM PauseIsKept == Spec => []PauseHolds
<1>1. Coherent /\ Quieted => PauseHolds
  BY DEF Quieted, Quiet, PauseHolds
<1> QED
  BY <1>1, InitCoherent, StepKeeps, PTL DEF Spec

-----------------------------------------------------------------------------
(* A pending seek, while chunks are still settled *)

Settled == {"written", "failed"}

\* Chunks are settled in their order.
InOrder(known) ==
  \A c, d \in Chunk : d < c /\ known[d] = "pending" => known[c] \notin Settled

\* l is what has become of k.
Later(k, l) == \A c \in Chunk : k[c] \in Settled => l[c] = k[c]

\* A seek to position s of a stream anchored at a lands at its start, unless a is
\* the job's last chunk.
Aimed(known, a, s) ==
  /\ known[a] # "none"
  /\ \/ s <= Before(known, a)
     \/ \A c \in Chunk : c > a => known[c] = "none"

LEMMA RunStarts ==
  ASSUME NEW known \in Known, NEW a \in Chunk
  PROVE  RunLength(known, a) >= 1 <=> known[a] = "written"
<1> DEFINE T == {c \in Chunk : c >= a /\ \A d \in a .. c : known[d] = "written"}
<1>1. IsFiniteSet(T) /\ Cardinality(T) \in Nat /\ RunLength(known, a) = Cardinality(T)
  <2>1. T \in SUBSET Chunk
    OBVIOUS
  <2> HIDE DEF T
  <2>2. IsFiniteSet(T) /\ Cardinality(T) \in Nat
    BY <2>1, CountsOfChunks
  <2> QED
    BY <2>2 DEF RunLength, T
<1>2. a \in Nat
  BY Chunks
<1>3. ASSUME known[a] = "written" PROVE a \in T
  <2>1. a .. a = {a}
    BY <1>2
  <2> QED
    BY <1>2, <1>3, <2>1
<1>4. ASSUME NEW c \in T PROVE known[a] = "written"
  <2>1. c \in Nat /\ c >= a /\ \A d \in a .. c : known[d] = "written"
    BY <1>4, Chunks
  <2>2. a \in a .. c
    BY <1>2, <2>1
  <2> QED
    BY <2>1, <2>2
<1>5. Cardinality(T) = 0 <=> T = {}
  BY <1>1, FS_EmptySet
<1> HIDE DEF T
<1> QED
  BY <1>1, <1>3, <1>4, <1>5

\* What a seek that is aimed finds in the stream.
LEMMA AimedMeans ==
  ASSUME NEW known \in Known, NEW a \in Chunk, NEW s \in Nat,
         InOrder(known), Aimed(known, a, s)
  PROVE  \/ s <= Before(known, a)
         \/ RunLength(known, a) = 0
         \/ RunLength(known, a) = 1 /\ Terminal(known)
<1> SUFFICES ASSUME \A c \in Chunk : c > a => known[c] = "none", RunLength(known, a) # 0
             PROVE  RunLength(known, a) = 1 /\ Terminal(known)
  BY DEF Aimed
<1> DEFINE T == {c \in Chunk : c >= a /\ \A d \in a .. c : known[d] = "written"}
<1>1. RunLength(known, a) \in Nat /\ RunLength(known, a) >= 1
  BY Counted, Chunks
<1>2. known[a] = "written"
  BY <1>1, RunStarts
<1>3. T \subseteq {a}
  <2>1. ASSUME NEW c \in T PROVE c = a
    <3>1. c \in Chunk /\ c \in Nat /\ a \in Nat /\ c >= a /\ \A d \in a .. c : known[d] = "written"
      BY Chunks
    <3>2. known[c] = "written"
      BY <3>1
    <3> QED
      BY <3>1, <3>2
  <2> QED
    BY <2>1
<1>4. RunLength(known, a) <= 1
  <2>1. IsFiniteSet({a}) /\ Cardinality({a}) = 1
    BY FS_Singleton
  <2>2. T \in SUBSET {a}
    BY <1>3
  <2> HIDE DEF T
  <2>3. Cardinality(T) <= 1
    BY <2>1, <2>2, FS_Subset
  <2> QED
    BY <2>3 DEF RunLength, T
<1>5. \A c \in Chunk : known[c] # "pending"
  <2> SUFFICES ASSUME NEW c \in Chunk, known[c] = "pending" PROVE FALSE
    OBVIOUS
  <2>1. c \in Nat /\ a \in Nat /\ c # a
    BY <1>2, Chunks
  <2>2. CASE c < a
    BY <1>2, <2>2 DEF InOrder, Settled
  <2>3. CASE c > a
    BY <2>3
  <2> QED
    BY <2>1, <2>2, <2>3
<1> QED
  BY <1>1, <1>4, <1>5 DEF Terminal

LEMMA BeforeLater ==
  ASSUME NEW k \in Known, NEW l \in Known, Later(k, l), NEW a \in Chunk, NEW j \in Jobs,
         Fits(k, j), Fits(l, j)
  PROVE  /\ Before(k, a) <= Before(l, a)
         /\ k[a] = "written" /\ InOrder(k) => Before(k, a) = Before(l, a)
<1> DEFINE S == {d \in Written(k) : d < a}
           T == {d \in Written(l) : d < a}
<1>1. S \subseteq T /\ T \in SUBSET Chunk
  BY DEF Written, Later, Settled
<1>2. IsFiniteSet(T)
  BY <1>1, CountsOfChunks
<1>3. Cardinality(S) <= Cardinality(T)
  <2> HIDE DEF S, T
  <2> QED
    BY <1>1, <1>2, FS_Subset
<1>4. ASSUME k[a] = "written", InOrder(k) PROVE T \subseteq S
  <2> SUFFICES ASSUME NEW d \in T PROVE d \in S
    OBVIOUS
  <2>1. d \in Chunk /\ d \in Nat /\ a \in Nat /\ d < a /\ l[d] = "written"
    BY Chunks DEF Written
  <2>2. k[d] # "pending"
    BY <1>4, <2>1 DEF InOrder, Settled
  <2>3. k[d] # "none"
    BY <2>1 DEF Fits
  <2>4. k[d] \in Settled
    BY <2>1, <2>2, <2>3 DEF Known, Status, Settled
  <2> QED
    BY <2>1, <2>4 DEF Later, Written
<1> QED
  BY <1>1, <1>3, <1>4 DEF Before

LEMMA AimedLater ==
  ASSUME NEW k \in Known, NEW l \in Known, Later(k, l), NEW a \in Chunk, NEW j \in Jobs,
         Fits(k, j), Fits(l, j), NEW s \in Nat, Aimed(k, a, s)
  PROVE  Aimed(l, a, s)
<1>1. \A c \in Chunk : k[c] = "none" <=> l[c] = "none"
  BY DEF Fits
<1>2. Before(k, a) <= Before(l, a) /\ Before(k, a) \in Nat /\ Before(l, a) \in Nat
  BY BeforeLater, Counted
<1> QED
  BY <1>1, <1>2 DEF Aimed

LEMMA ChunkAtAims ==
  ASSUME NEW known \in Known, NEW j \in Jobs, Fits(known, j), NEW s \in Nat
  PROVE  Aimed(known, ChunkAt(known, s), s)
<1> DEFINE a == ChunkAt(known, s)
<1>1. /\ a \in Chunk /\ known[a] # "none"
      /\ \A d \in Chunk : known[d] # "none" /\ Before(known, d) <= s => d <= a
  BY FittingStart, ChunkAtPosition
<1> HIDE DEF a
<1>2. ASSUME NEW e \in Chunk, e > a, known[e] # "none"
      PROVE  s <= Before(known, a)
  <2> DEFINE n == a + 1
             S == {d \in Written(known) : d < a}
             T == {d \in Written(known) : d < n}
  <2>1. a \in Nat /\ e \in Nat /\ n \in Chunk /\ n <= e
    BY <1>1, <1>2, Chunks
  <2>2. known[n] # "none"
    <3>1. ~(e >= Length[j]) /\ Length[j] \in Nat
      BY <1>2, JobNumbers DEF Fits
    <3>2. ~(n >= Length[j])
      BY <2>1, <3>1
    <3> HIDE DEF n
    <3> QED
      BY <2>1, <3>2 DEF Fits
  <2>3. ~(Before(known, n) <= s)
    <3>1. ~(n <= a)
      BY <2>1
    <3> HIDE DEF n
    <3> QED
      BY <1>1, <2>1, <2>2, <3>1
  <2>4. T \subseteq S \cup {a} /\ S \in SUBSET Chunk
    <3>1. \A d \in Written(known) : d \in Nat /\ (d < n => d < a \/ d = a)
      BY <2>1, Chunks DEF Written
    <3> QED
      BY <3>1 DEF Written
  <2>5. Cardinality(T) <= Cardinality(S) + 1
    <3> HIDE DEF S, T
    <3>1. IsFiniteSet(S) /\ Cardinality(S) \in Nat
      BY <2>4, CountsOfChunks
    <3>2. IsFiniteSet(S \cup {a})
          /\ Cardinality(S \cup {a}) = IF a \in S THEN Cardinality(S) ELSE Cardinality(S) + 1
      BY <3>1, FS_AddElement
    <3>3. T \in SUBSET (S \cup {a})
      BY <2>4
    <3>4. IsFiniteSet(T) /\ Cardinality(T) <= Cardinality(S \cup {a})
      BY <3>2, <3>3, FS_Subset
    <3>5. Cardinality(T) \in Nat /\ Cardinality(S \cup {a}) \in Nat
      BY <3>2, <3>4, FS_CardinalityType
    <3> QED
      BY <3>1, <3>2, <3>4, <3>5
  <2>6. Before(known, n) = Cardinality(T) /\ Before(known, a) = Cardinality(S)
    BY DEF Before
  <2>7. Before(known, n) \in Nat /\ Before(known, a) \in Nat
    <3> HIDE DEF n
    <3> QED
      BY <1>1, <2>1, Counted
  <2> HIDE DEF S, T, n
  <2> QED
    BY <2>3, <2>5, <2>6, <2>7
<1> QED
  BY <1>1, <1>2 DEF Aimed, a

-----------------------------------------------------------------------------
(* The stream and what it was opened for *)

\* The stream follows the store's manifest; a stream that holds nothing is idle;
\* one that holds something has not reached a pending seek, and once it holds a
\* chunk it reaches the start of it.
StreamOK(u) ==
  /\ u.hook.open <=> u.store.chunks # NoManifest
  /\ u.hook.open => u.hook.key = <<u.store.job, u.store.anchor>>
  /\ ~u.hook.open => u.hook.buf = 0
  /\ u.hook.buf = 0 => u.hook.time = 0 /\ u.hook.paused /\ u.events = <<>>
  /\ u.hook.buf > 0 =>
       /\ u.store.chunks >= 1 /\ u.hook.snap.buf = u.hook.buf
       /\ u.store.seek # NoSeek => StreamTime(u, u.store.seek) > u.hook.buf
  /\ u.hook.open /\ u.store.seek # NoSeek =>
       \/ u.store.seek <= u.store.offset
       \/ u.store.chunks = 0
       \/ u.store.chunks = 1 /\ u.store.terminal
  /\ u.store.job = NoJob => u.store.seek = NoSeek

\* What a loaded page has handed to the store.
LoadedOK(u) ==
  /\ u.page.loaded =>
       /\ InOrder(u.page.known)
       /\ u.store.terminal = Terminal(u.page.known)
       /\ u.store.chunks = RunLength(u.page.known, u.store.anchor)
       /\ u.store.offset = Before(u.page.known, u.store.anchor)
       /\ u.store.seek # NoSeek => Aimed(u.page.known, u.store.anchor, u.store.seek)
  /\ ~u.page.loaded /\ u.page.job # NoJob => u.store.chunks = NoManifest

\* The player is behind the server, whose status of each job is given.
Behind(status, u) ==
  /\ u.page.loaded => Later(u.page.known, status[u.page.job])
  /\ u.store.job # NoJob /\ u.store.seek # NoSeek =>
       Aimed(status[u.store.job], u.store.anchor, u.store.seek)

\* Enough of v for the effects of its commit to establish the three.
Ready(v) ==
  /\ v.page.loaded =>
       /\ InOrder(v.page.known)
       /\ v.store.terminal = Terminal(v.page.known)
       /\ v.store.seek # NoSeek => Aimed(v.page.known, v.store.anchor, v.store.seek)
  /\ ~v.hook.open => v.hook.buf = 0
  /\ v.hook.buf = 0 => v.hook.time = 0 /\ v.hook.paused /\ v.events = <<>>
  /\ v.hook.buf > 0 => v.hook.snap.buf = v.hook.buf
  /\ v.page.job = NoJob =>
       /\ v.hook.open <=> v.store.chunks # NoManifest
       /\ v.hook.buf > 0 => v.store.chunks >= 1
       /\ v.hook.open /\ v.store.seek # NoSeek =>
            \/ v.store.seek <= v.store.offset
            \/ v.store.chunks = 0
            \/ v.store.chunks = 1 /\ v.store.terminal
  /\ /\ v.page.loaded /\ v.hook.buf > 0
     /\ v.hook.key = <<v.store.job, v.store.anchor>>
     => v.page.known[v.store.anchor] = "written"
  /\ v.store.job = NoJob => v.store.seek = NoSeek

LEMMA Fields ==
  ASSUME NEW u \in UI
  PROVE  /\ u.page.known \in Known /\ u.page.loaded \in BOOLEAN
         /\ u.page.job \in Jobs \cup {NoJob} /\ u.store.job \in Jobs \cup {NoJob}
         /\ u.store.terminal \in BOOLEAN /\ u.store.intent \in BOOLEAN
         /\ u.store.chunks \in {NoManifest} \cup (0 .. Longest)
         /\ u.store.anchor \in Chunk /\ u.store.offset \in 0 .. Longest
         /\ u.store.seek \in {NoSeek} \cup (0 .. 2 * Longest)
         /\ u.hook.open \in BOOLEAN /\ u.hook.paused \in BOOLEAN
         /\ u.hook.playing \in BOOLEAN /\ u.hook.ended \in BOOLEAN
         /\ u.hook.buf \in 0 .. Longest /\ u.hook.time \in 0 .. Longest
         /\ u.hook.snap.time \in 0 .. Longest /\ u.hook.snap.buf \in 0 .. Longest
         /\ u.events \in Seq(MediaEvent)
         /\ Longest \in Nat /\ NoManifest = -1 /\ NoSeek = -1 /\ NoJob \notin Jobs
<1>1. u.hook.snap \in [time : 0 .. Longest, buf : 0 .. Longest, paused : BOOLEAN]
  BY DEF UI, Hook
<1>2. Longest \in Nat /\ NoManifest = -1 /\ NoSeek = -1 /\ NoJob \notin Jobs
  BY Chunks, JobNumbers DEF NoJob
<1> HIDE DEF Longest, NoManifest, NoSeek, NoJob
<1> QED
  BY <1>1, <1>2 DEF UI, Page, Store, Hook, Known

LEMMA OpenedKeepsStream ==
  ASSUME NEW u \in UI, NEW j \in Jobs, NEW play \in BOOLEAN, NEW status,
         StreamOK(u), Behind(status, u)
  PROVE  LET v == OpenPage(u, j, play)
         IN  /\ StreamOK(v) /\ LoadedOK(v) /\ Behind(status, v) /\ Ready(v)
             /\ ~v.hook.open /\ v.hook.buf = 0
<1> DEFINE v == OpenPage(u, j, play)
<1>1. /\ v \in UI /\ v.page.job = j /\ ~v.page.loaded
      /\ v.store.job = u.store.job /\ v.store.anchor = u.store.anchor
      /\ v.store.seek = u.store.seek
      /\ v.store.chunks = NoManifest /\ ~v.hook.open
      /\ u.hook.open => Emptied(v)
      /\ ~u.hook.open => v.hook = u.hook /\ v.events = u.events
  BY OpenPageFacts
<1> HIDE DEF v
<1>2. j # NoJob
  BY JobNumbers DEF NoJob
<1>3. v.hook.buf = 0 /\ v.hook.time = 0 /\ v.hook.paused /\ v.events = <<>>
  <2>1. CASE u.hook.open
    BY <1>1, <2>1 DEF Emptied
  <2>2. CASE ~u.hook.open
    BY <1>1, <2>2 DEF StreamOK
  <2> QED
    BY <2>1, <2>2
<1>4. v.store.job = NoJob => v.store.seek = NoSeek
  BY <1>1 DEF StreamOK
<1>5. StreamOK(v) /\ Ready(v)
  BY <1>1, <1>2, <1>3, <1>4 DEF StreamOK, Ready
<1>6. LoadedOK(v) /\ Behind(status, v)
  BY <1>1 DEF LoadedOK, Behind
<1> QED
  BY <1>1, <1>3, <1>5, <1>6 DEF v

\* What the stream effect does to a state that is ready: it empties the stream,
\* or leaves the hook alone and the stream is the one the store asks for.
LEMMA StreamOfSource ==
  ASSUME NEW v \in UI, PageOK(v), Ready(v)
  PROVE  LET s == SetSource(v)
             a == Stream(s)
         IN  /\ s \in UI /\ a \in UI /\ a.store = s.store /\ a.page = v.page
             /\ s.store.job = v.store.job /\ s.store.anchor = v.store.anchor
             /\ s.store.terminal = v.store.terminal /\ s.store.seek = v.store.seek
             /\ a.hook.open <=> s.store.chunks # NoManifest
             /\ a.hook.open => a.hook.key = <<v.store.job, v.store.anchor>>
             /\ a.hook.buf = 0 => a.hook.time = 0 /\ a.hook.paused /\ a.events = <<>>
             /\ Emptied(a) \/ (a.hook = v.hook /\ a.events = v.events)
             /\ a.hook.buf > 0 =>
                  /\ a.hook = v.hook /\ a.events = v.events
                  /\ a.hook.open /\ s.store.chunks >= 1
                  /\ a.hook.snap.buf = a.hook.buf
             /\ a.hook.open /\ v.store.seek # NoSeek =>
                  \/ v.store.seek <= s.store.offset
                  \/ s.store.chunks = 0
                  \/ s.store.chunks = 1 /\ v.store.terminal
             /\ v.page.loaded =>
                  /\ s.store.chunks = RunLength(v.page.known, v.store.anchor)
                  /\ s.store.offset = Before(v.page.known, v.store.anchor)
             /\ ~v.page.loaded /\ v.page.job # NoJob => s.store.chunks = NoManifest
             /\ v.page.job = NoJob => s = v
<1> DEFINE s == SetSource(v)
           a == Stream(s)
<1>1. /\ s \in UI /\ s.page = v.page /\ s.hook = v.hook /\ s.events = v.events
      /\ s.store.job = v.store.job /\ s.store.terminal = v.store.terminal
      /\ s.store.anchor = v.store.anchor /\ s.store.seek = v.store.seek
      /\ v.page.job = NoJob => s = v
      /\ v.page.job # NoJob =>
           /\ s.store.chunks = (IF v.page.loaded THEN RunLength(v.page.known, v.store.anchor)
                                ELSE NoManifest)
           /\ s.store.offset = Before(v.page.known, v.store.anchor)
  BY SetSourceFacts
<1> HIDE DEF s
<1>2. /\ a \in UI /\ a.page = s.page /\ a.store = s.store
      /\ a.hook.open <=> s.store.chunks # NoManifest
      /\ a.hook.open => a.hook.key = <<s.store.job, s.store.anchor>>
      /\ IF Reopens(s) THEN Emptied(a) ELSE a = s
  BY <1>1, StreamFacts
<1> HIDE DEF a
<1>3. v.page.loaded => v.page.job # NoJob
  BY JobNumbers DEF PageOK, NoJob
<1>4. a.hook.buf = 0 => a.hook.time = 0 /\ a.hook.paused /\ a.events = <<>>
  BY <1>1, <1>2 DEF Emptied, Ready
<1>5. ASSUME a.hook.buf > 0
      PROVE  /\ a = s /\ ~Reopens(s) /\ a.hook.open /\ s.store.chunks >= 1
             /\ a.hook.snap.buf = a.hook.buf
  <2>1. a.hook.buf # 0
    BY <1>5
  <2>2. a = s /\ ~Reopens(s)
    BY <1>2, <2>1 DEF Emptied
  <2>3. a.hook = v.hook /\ a.hook.open
    BY <1>1, <2>1, <2>2 DEF Ready
  <2>4. s.store.chunks # NoManifest /\ a.hook.key = <<v.store.job, v.store.anchor>>
    BY <1>1, <1>2, <2>3
  <2>5. s.store.chunks >= 1
    <3>1. CASE v.page.job = NoJob
      BY <1>1, <1>5, <2>3, <3>1 DEF Ready
    <3>2. CASE v.page.job # NoJob
      <4>1. v.page.loaded /\ s.store.chunks = RunLength(v.page.known, v.store.anchor)
        BY <1>1, <2>4, <3>2
      <4>2. v.page.known[v.store.anchor] = "written"
        BY <1>5, <2>3, <2>4, <4>1 DEF Ready
      <4> QED
        BY <4>1, <4>2, Fields, RunStarts
    <3> QED
      BY <3>1, <3>2
  <2> QED
    BY <1>5, <2>2, <2>3, <2>5 DEF Ready
<1>6. ASSUME a.hook.open, v.store.seek # NoSeek
      PROVE  \/ v.store.seek <= s.store.offset
             \/ s.store.chunks = 0
             \/ s.store.chunks = 1 /\ v.store.terminal
  <2>1. CASE v.page.job = NoJob
    <3>1. v.hook.open
      BY <1>1, <1>2, <1>6, <2>1 DEF Ready
    <3> QED
      BY <1>1, <1>6, <2>1, <3>1 DEF Ready
  <2>2. CASE v.page.job # NoJob
    <3>1. /\ v.page.loaded /\ s.store.chunks = RunLength(v.page.known, v.store.anchor)
          /\ s.store.offset = Before(v.page.known, v.store.anchor)
      BY <1>1, <1>2, <1>6, <2>2
    <3>2. InOrder(v.page.known) /\ v.store.terminal = Terminal(v.page.known)
          /\ Aimed(v.page.known, v.store.anchor, v.store.seek)
      BY <1>6, <3>1 DEF Ready
    <3>3. v.store.seek \in Nat
      BY <1>6, Fields
    <3> QED
      BY <3>1, <3>2, <3>3, Fields, AimedMeans
  <2> QED
    BY <2>1, <2>2
<1> QED
  BY <1>1, <1>2, <1>3, <1>4, <1>5, <1>6 DEF a, s

LEMMA EffectsKeepStream ==
  ASSUME NEW x \in UI, NEW v \in UI, PageOK(v), Ready(v), NEW status, Behind(status, v)
  PROVE  LET d == Effects(x, v)
         IN  d \in UI /\ StreamOK(d) /\ LoadedOK(d) /\ Behind(status, d)
<1> DEFINE s == SetSource(v)
           a == Stream(s)
           b == TurnsTerminal(x, a)
           d == Effects(x, v)
<1>1. /\ s \in UI /\ a \in UI /\ a.store = s.store
      /\ s.store.job = v.store.job /\ s.store.anchor = v.store.anchor
      /\ s.store.terminal = v.store.terminal /\ s.store.seek = v.store.seek
      /\ a.hook.open <=> s.store.chunks # NoManifest
      /\ a.hook.open => a.hook.key = <<v.store.job, v.store.anchor>>
      /\ a.hook.buf = 0 => a.hook.time = 0 /\ a.hook.paused /\ a.events = <<>>
      /\ a.hook.buf > 0 => /\ a.hook.open /\ s.store.chunks >= 1
                           /\ a.hook.snap.buf = a.hook.buf
      /\ a.hook.open /\ v.store.seek # NoSeek =>
           \/ v.store.seek <= s.store.offset
           \/ s.store.chunks = 0
           \/ s.store.chunks = 1 /\ v.store.terminal
      /\ v.page.loaded =>
           /\ s.store.chunks = RunLength(v.page.known, v.store.anchor)
           /\ s.store.offset = Before(v.page.known, v.store.anchor)
      /\ ~v.page.loaded /\ v.page.job # NoJob => s.store.chunks = NoManifest
  BY StreamOfSource
<1>2. /\ d \in UI /\ b \in UI /\ d.page = v.page
      /\ d.store.job = v.store.job /\ d.store.terminal = v.store.terminal
      /\ d.store.anchor = v.store.anchor
      /\ d.store.chunks = s.store.chunks /\ d.store.offset = s.store.offset
      /\ d.hook.open = a.hook.open /\ d.hook.key = a.hook.key /\ d.hook.buf = a.hook.buf
      /\ b.store = s.store /\ SameStream(a, b)
      /\ b.hook.snap.buf \in {a.hook.snap.buf, a.hook.buf}
      /\ ~Fires(b) => /\ d.store.seek = v.store.seek /\ d.hook.time = a.hook.time
                      /\ d.hook.snap.buf = b.hook.snap.buf
                      /\ a.hook.paused => d.events = a.events /\ d.hook.paused
      /\ Fires(b) => d.store.seek = NoSeek /\ d.hook.snap.buf = a.hook.buf
  BY EffectsFacts
<1> HIDE DEF s, a, b, d
<1>3. /\ a.hook.buf \in Nat /\ b.hook.buf = a.hook.buf /\ b.hook.snap.buf \in Nat
      /\ v.store.chunks \in Int /\ NoSeek = -1
  BY <1>1, <1>2, Fields DEF SameStream
<1>4. a.hook.buf > 0 \/ a.hook.buf = 0
  BY <1>3
<1>5. ASSUME d.hook.buf = 0 PROVE d.hook.time = 0 /\ d.hook.paused /\ d.events = <<>>
  <2>1. ~Fires(b)
    BY <1>2, <1>3, <1>5 DEF Fires, Primed
  <2> QED
    BY <1>1, <1>2, <1>5, <2>1
<1>6. ASSUME d.hook.buf > 0
      PROVE  /\ d.store.chunks >= 1 /\ d.hook.snap.buf = d.hook.buf
             /\ d.store.seek # NoSeek => StreamTime(d, d.store.seek) > d.hook.buf
  <2>1. a.hook.buf > 0 /\ a.hook.snap.buf = a.hook.buf /\ b.hook.snap.buf = a.hook.buf
    BY <1>1, <1>2, <1>6
  <2>2. CASE Fires(b)
    BY <1>1, <1>2, <2>1, <2>2
  <2>3. CASE ~Fires(b)
    <3>1. ASSUME d.store.seek # NoSeek PROVE StreamTime(d, d.store.seek) > d.hook.buf
      <4>1. b.store.seek # NoSeek /\ b.store.seek = d.store.seek /\ b.store.offset = d.store.offset
        BY <1>1, <1>2, <2>3, <3>1
      <4>2. ~(StreamTime(b, b.store.seek) <= b.hook.snap.buf)
        BY <1>3, <2>1, <2>3, <4>1 DEF Fires, Primed
      <4>3. StreamTime(b, b.store.seek) \in Nat
        BY <1>2, <4>1, StreamTimeRange
      <4>4. StreamTime(d, d.store.seek) = StreamTime(b, b.store.seek)
        BY <4>1 DEF StreamTime
      <4> QED
        BY <1>2, <1>3, <2>1, <4>2, <4>3, <4>4
    <3> QED
      BY <1>1, <1>2, <2>1, <2>3, <3>1
  <2> QED
    BY <2>2, <2>3
<1>7. d.store.seek \in {v.store.seek, NoSeek}
  BY <1>2
<1>8. ~d.hook.open => d.hook.buf = 0
  BY <1>1, <1>2, <1>4
<1>9. /\ d.hook.open <=> d.store.chunks # NoManifest
      /\ d.hook.open => d.hook.key = <<d.store.job, d.store.anchor>>
      /\ d.hook.open /\ d.store.seek # NoSeek =>
           \/ d.store.seek <= d.store.offset
           \/ d.store.chunks = 0
           \/ d.store.chunks = 1 /\ d.store.terminal
      /\ d.store.job = NoJob => d.store.seek = NoSeek
  BY <1>1, <1>2, <1>7 DEF Ready
<1>10. StreamOK(d)
  BY <1>5, <1>6, <1>8, <1>9 DEF StreamOK
<1>11. LoadedOK(d)
  BY <1>1, <1>2, <1>7 DEF LoadedOK, Ready
<1>12. Behind(status, d)
  BY <1>2, <1>7 DEF Behind
<1> QED
  BY <1>2, <1>10, <1>11, <1>12 DEF d

LEMMA CommitKeepsStream ==
  ASSUME NEW x \in UI, NEW v \in UI, PageOK(v), Ready(v), NEW status, Behind(status, v)
  PROVE  LET w == Commit(x, v)
         IN  w \in UI /\ StreamOK(w) /\ LoadedOK(w) /\ Behind(status, w)
<1> DEFINE d == Effects(x, v)
           w == Commit(x, v)
<1>1. d \in UI /\ StreamOK(d) /\ LoadedOK(d) /\ Behind(status, d)
  BY EffectsKeepStream
<1>2. w \in UI /\ (w = d \/ \E j \in Jobs : w = OpenPage(d, j, TRUE))
  BY CommitFacts
<1> HIDE DEF d, w
<1>3. ASSUME NEW j \in Jobs, w = OpenPage(d, j, TRUE)
      PROVE  StreamOK(w) /\ LoadedOK(w) /\ Behind(status, w)
  BY <1>1, <1>3, OpenedKeepsStream
<1> QED
  BY <1>1, <1>2, <1>3 DEF w

-----------------------------------------------------------------------------
(* A job that was just opened *)

\* The playhead of a finished job was placed at the end of its last chunk.
Rests(u) ==
  /\ u.store.terminal /\ u.store.chunks = 1 /\ u.store.seek = NoSeek /\ ~u.store.intent
  /\ u.hook.time = 1 /\ u.hook.buf = 1 /\ u.hook.paused /\ ~u.hook.playing
  /\ u.events = <<>>

\* Nothing of the stream was heard, and nothing says it ended.
Unheard(u) == "ended" \notin Queued(u) /\ (u.hook.time = 0 \/ Rests(u))

\* v is u but for the intent, what was dropped and where the playhead is.
Alike(u, v) ==
  /\ v.page = u.page
  /\ v.store.job = u.store.job /\ v.store.terminal = u.store.terminal
  /\ v.store.anchor = u.store.anchor /\ v.store.chunks = u.store.chunks
  /\ v.store.offset = u.store.offset /\ v.store.seek \in {u.store.seek, NoSeek}
  /\ v.hook.open = u.hook.open /\ v.hook.key = u.hook.key /\ v.hook.buf = u.hook.buf
  /\ v.hook.snap.buf \in {u.hook.snap.buf, u.hook.buf}
  /\ u.hook.buf = 0 => v.hook.time = 0 /\ v.hook.paused /\ v.events = <<>>

LEMMA ClosedUnheard ==
  ASSUME NEW u \in UI, StreamOK(u), ~u.hook.open
  PROVE  Unheard(u)
BY NothingQueued DEF StreamOK, Unheard

LEMMA AlikeReady ==
  ASSUME NEW u \in UI, NEW v \in UI, PageOK(u), StreamOK(u), LoadedOK(u), Alike(u, v),
         NEW status, Behind(status, u)
  PROVE  PageOK(v) /\ Ready(v) /\ Behind(status, v)
<1>1. /\ u.hook.buf \in Nat /\ u.store.chunks \in Int /\ NoManifest = -1
      /\ u.page.known \in Known /\ u.store.anchor \in Chunk
  BY Fields
<1>2. PageOK(v) /\ Behind(status, v)
  BY DEF Alike, PageOK, Behind
<1>3. ASSUME v.page.loaded, v.hook.buf > 0
      PROVE  v.page.known[v.store.anchor] = "written"
  <2>1. u.store.chunks >= 1 /\ u.store.chunks = RunLength(u.page.known, u.store.anchor)
    BY <1>3 DEF Alike, StreamOK, LoadedOK
  <2> QED
    BY <1>1, <2>1, RunStarts DEF Alike
<1>4. v.hook.buf > 0 => v.hook.snap.buf = v.hook.buf
  BY DEF Alike, StreamOK
<1>5. /\ v.page.loaded =>
           /\ InOrder(v.page.known)
           /\ v.store.terminal = Terminal(v.page.known)
           /\ v.store.seek # NoSeek => Aimed(v.page.known, v.store.anchor, v.store.seek)
      /\ ~v.hook.open => v.hook.buf = 0
      /\ v.hook.buf = 0 => v.hook.time = 0 /\ v.hook.paused /\ v.events = <<>>
      /\ v.store.job = NoJob => v.store.seek = NoSeek
  BY DEF Alike, StreamOK, LoadedOK
<1>6. /\ v.hook.open <=> v.store.chunks # NoManifest
      /\ v.hook.buf > 0 => v.store.chunks >= 1
      /\ v.hook.open /\ v.store.seek # NoSeek =>
           \/ v.store.seek <= v.store.offset
           \/ v.store.chunks = 0
           \/ v.store.chunks = 1 /\ v.store.terminal
  BY DEF Alike, StreamOK
<1> QED
  BY <1>2, <1>3, <1>4, <1>5, <1>6 DEF Ready

\* A seek the stream has not reached stays out of its reach.
LEMMA AlikeFar ==
  ASSUME NEW u \in UI, NEW v \in UI, PageOK(v), Ready(v), StreamOK(u), LoadedOK(u),
         Alike(u, v)
  PROVE  LET s == SetSource(v)
             a == Stream(s)
         IN  a.hook.buf > 0 /\ v.store.seek # NoSeek =>
               StreamTime(s, v.store.seek) > a.hook.buf
<1> DEFINE s == SetSource(v)
           a == Stream(s)
<1>1. /\ a.hook.buf > 0 => a.hook = v.hook /\ a.hook.open /\ s.store.chunks >= 1
      /\ a.hook.open <=> s.store.chunks # NoManifest
      /\ v.page.loaded => s.store.offset = Before(v.page.known, v.store.anchor)
      /\ ~v.page.loaded /\ v.page.job # NoJob => s.store.chunks = NoManifest
      /\ v.page.job = NoJob => s = v
  BY StreamOfSource
<1> HIDE DEF s, a
<1> SUFFICES ASSUME a.hook.buf > 0, v.store.seek # NoSeek
             PROVE  StreamTime(s, v.store.seek) > a.hook.buf
  BY DEF s, a
<1>2. s.store.offset = u.store.offset
  <2>1. CASE v.page.job = NoJob
    BY <1>1, <2>1 DEF Alike
  <2>2. CASE v.page.job # NoJob
    BY <1>1, <2>2 DEF Alike, LoadedOK
  <2> QED
    BY <2>1, <2>2
<1>3. v.store.seek = u.store.seek /\ a.hook.buf = u.hook.buf /\ u.store.seek # NoSeek
  BY <1>1 DEF Alike
<1>4. StreamTime(u, u.store.seek) > u.hook.buf
  BY <1>3 DEF StreamOK
<1>5. StreamTime(s, v.store.seek) = StreamTime(u, u.store.seek)
  BY <1>2, <1>3 DEF StreamTime
<1> QED
  BY <1>3, <1>4, <1>5

\* What a commit makes of a state whose playhead is at the start of the stream.
LEMMA StartCommit ==
  ASSUME NEW x \in UI, NEW v \in UI, PageOK(v), Ready(v), NEW status, Behind(status, v),
         v.hook.time = 0, "ended" \notin Queued(v),
         LET s == SetSource(v)
             a == Stream(s)
         IN  a.hook.buf > 0 /\ v.store.seek # NoSeek =>
               StreamTime(s, v.store.seek) > a.hook.buf
  PROVE  LET w == Commit(x, v)
         IN  /\ Unheard(w)
             /\ (v.hook.ended => x.hook.ended) => w.page = v.page
<1> DEFINE s == SetSource(v)
           a == Stream(s)
           b == TurnsTerminal(x, a)
           d == Effects(x, v)
           w == Commit(x, v)
<1>1. /\ s \in UI /\ a \in UI /\ a.store = s.store /\ s.store.seek = v.store.seek
      /\ Emptied(a) \/ (a.hook = v.hook /\ a.events = v.events)
      /\ a.hook.buf > 0 => a.hook.snap.buf = a.hook.buf
  BY StreamOfSource
<1>2. /\ d \in UI /\ b \in UI /\ d.page = v.page /\ Gentle(v, d)
      /\ b.store = s.store /\ SameStream(a, b)
      /\ b.hook.snap.buf \in {a.hook.snap.buf, a.hook.buf}
      /\ ~Fires(b) => /\ d.hook.time = a.hook.time
                      /\ d.hook.ended => \/ a.hook.ended
                                         \/ v.store.terminal /\ ~x.store.terminal /\ Ending(a)
  BY EffectsFacts
<1>3. StreamOK(d)
  BY EffectsKeepStream
<1>4. /\ w \in UI
      /\ \/ w = d
         \/ /\ d.hook.ended /\ ~x.hook.ended
            /\ \E j \in Jobs : w = OpenPage(d, j, TRUE)
  BY CommitFacts
<1>5. a.hook.buf > 0 /\ v.store.seek # NoSeek => StreamTime(s, v.store.seek) > a.hook.buf
  OBVIOUS
<1> HIDE DEF s, a, b, d, w
<1>6. a.hook.time = 0 /\ (a.hook.ended => v.hook.ended)
  BY <1>1 DEF Emptied
<1>7. ~Fires(b)
  <2> SUFFICES ASSUME Fires(b) PROVE FALSE
    OBVIOUS
  <2>1. /\ b.store.seek # NoSeek /\ b.hook.buf > 0
        /\ StreamTime(b, b.store.seek) <= b.hook.snap.buf
    BY DEF Fires, Primed
  <2>2. a.hook.buf > 0 /\ b.hook.snap.buf = a.hook.buf /\ v.store.seek = b.store.seek
    BY <1>1, <1>2, <2>1 DEF SameStream
  <2>3. StreamTime(b, b.store.seek) = StreamTime(s, v.store.seek)
    BY <1>2, <2>2 DEF StreamTime
  <2>4. StreamTime(b, b.store.seek) \in Nat /\ a.hook.buf \in Nat
    BY <1>1, <1>2, <2>1, StreamTimeRange, Fields
  <2> QED
    BY <1>5, <2>1, <2>2, <2>3, <2>4
<1>8. d.hook.time = 0 /\ (d.hook.ended => v.hook.ended)
  <2>1. ~Ending(a)
    BY <1>6 DEF Ending
  <2> QED
    BY <1>2, <1>6, <1>7, <2>1
<1>9. Unheard(d)
  BY <1>2, <1>8 DEF Unheard, Gentle
<1>10. ASSUME NEW j \in Jobs, w = OpenPage(d, j, TRUE) PROVE Unheard(w)
  <2>1. w.hook.time = 0 /\ w.events \in {<<>>, d.events}
    BY <1>2, <1>8, <1>10, OpenPageFacts, ZenonT(60) DEF Emptied
  <2>2. "ended" \notin Queued(w)
    <3>1. CASE w.events = <<>>
      BY <3>1, NothingQueued
    <3>2. CASE w.events = d.events
      BY <1>9, <3>2 DEF Unheard, Queued
    <3> QED
      BY <2>1, <3>1, <3>2
  <2> QED
    BY <2>1, <2>2 DEF Unheard
<1> QED
  BY <1>2, <1>4, <1>8, <1>9, <1>10 DEF w

\* What a commit makes of a finished job whose playhead rests at its end.
LEMMA RestCommit ==
  ASSUME NEW x \in UI, NEW u \in UI, NEW v \in UI, PageOK(v), Ready(v),
         NEW status, Behind(status, v), StreamOK(u), LoadedOK(u), Alike(u, v), Rests(u),
         x.store.terminal, v.hook.time = 1, v.hook.paused, ~v.hook.playing,
         v.events = <<>>, v.store.intent => v.hook.snap.time = 1
  PROVE  LET w == Commit(x, v)
         IN  /\ Unheard(w)
             /\ (v.hook.ended => x.hook.ended) => w.page = v.page
<1> DEFINE s == SetSource(v)
           a == Stream(s)
           b == TurnsTerminal(x, a)
           d == Effects(x, v)
           w == Commit(x, v)
<1>1. /\ s \in UI /\ a \in UI /\ s.store.seek = v.store.seek
      /\ a.hook.open <=> s.store.chunks # NoManifest
      /\ Emptied(a) \/ (a.hook = v.hook /\ a.events = v.events)
      /\ v.page.loaded => s.store.chunks = RunLength(v.page.known, v.store.anchor)
      /\ ~v.page.loaded /\ v.page.job # NoJob => s.store.chunks = NoManifest
      /\ v.page.job = NoJob => s = v
  BY StreamOfSource
<1>2. /\ d \in UI /\ b \in UI /\ d.page = v.page
      /\ d.store.terminal = v.store.terminal /\ d.store.chunks = s.store.chunks
      /\ d.hook.open = a.hook.open /\ d.hook.buf = a.hook.buf
      /\ d.store.intent => v.store.intent /\ ~Finished(d)
      /\ b.store = s.store
  BY EffectsFacts
<1>3. ~Fires(b) =>
           /\ d.store.seek = v.store.seek /\ d.hook.time = a.hook.time
           /\ d.hook.snap.time \in {a.hook.snap.time, a.hook.time}
           /\ d.hook.ended => \/ a.hook.ended
                              \/ v.store.terminal /\ ~x.store.terminal /\ Ending(a)
           /\ a.hook.paused => d.events = a.events /\ d.hook.paused
           /\ a.hook.paused /\ ~a.hook.playing => ~d.hook.playing
  BY EffectsFacts, ZenonT(60)
<1>4. StreamOK(d)
  BY EffectsKeepStream
<1>5. /\ w \in UI
      /\ \/ w = d
         \/ /\ d.hook.ended /\ ~x.hook.ended
            /\ \E j \in Jobs : w = OpenPage(d, j, TRUE)
  BY CommitFacts
<1>6. v.store.seek = NoSeek /\ v.store.terminal
  BY DEF Alike, Rests
<1> HIDE DEF s, a, b, d, w
<1>7. ~Fires(b)
  BY <1>1, <1>2, <1>6 DEF Fires
<1>8. d.hook.ended => v.hook.ended
  BY <1>1, <1>3, <1>7 DEF Emptied
<1>9. Unheard(d)
  <2>1. CASE Emptied(a)
    <3>1. d.hook.time = 0 /\ d.events = <<>>
      BY <1>2, <1>3, <1>7, <2>1 DEF Emptied
    <3> QED
      BY <3>1, NothingQueued DEF Unheard
  <2>2. CASE ~Emptied(a)
    <3>1. a.hook = v.hook /\ a.events = <<>>
      BY <1>1, <2>2
    <3>2. d.hook.time = 1 /\ d.hook.buf = 1 /\ d.hook.paused /\ ~d.hook.playing
          /\ d.events = <<>>
      BY <1>2, <1>3, <1>7, <3>1 DEF Alike, Rests
    <3>3. d.hook.open
      BY <1>4, <3>2 DEF StreamOK
    <3>4. d.store.chunks = 1
      <4>1. CASE v.page.job = NoJob
        BY <1>1, <1>2, <4>1 DEF Alike, Rests
      <4>2. CASE v.page.job # NoJob
        BY <1>1, <1>2, <3>3, <4>2, ZenonT(60) DEF Alike, Rests, LoadedOK
      <4> QED
        BY <4>1, <4>2
    <3>5. ~d.store.intent
      <4> SUFFICES ASSUME d.store.intent PROVE FALSE
        OBVIOUS
      <4>1. v.store.intent /\ ~Finished(d)
        BY <1>2
      <4>2. d.hook.snap.time = 1
        BY <1>3, <1>7, <3>1, <4>1
      <4>3. Rendered(d) = 1
        BY <3>4 DEF Rendered, NoManifest
      <4> QED
        BY <1>2, <1>6, <3>2, <4>1, <4>2, <4>3 DEF Finished
    <3>6. d.store.terminal /\ d.store.seek = NoSeek
      BY <1>2, <1>3, <1>6, <1>7
    <3>7. Rests(d)
      BY <3>2, <3>4, <3>5, <3>6 DEF Rests
    <3> QED
      BY <3>2, <3>7, NothingQueued DEF Unheard
  <2> QED
    BY <2>1, <2>2
<1>10. ASSUME NEW j \in Jobs, w = OpenPage(d, j, TRUE) PROVE Unheard(w)
  <2>1. CASE d.hook.open
    <3>1. Emptied(w)
      BY <1>2, <1>10, <2>1, OpenPageFacts
    <3> QED
      BY <3>1, NothingQueued DEF Unheard, Emptied
  <2>2. CASE ~d.hook.open
    <3>1. d.hook.time = 0 /\ d.events = <<>>
      BY <1>4, <2>2 DEF StreamOK
    <3>2. w.hook = d.hook /\ w.events = d.events
      BY <1>2, <1>10, <2>2, OpenPageFacts, ZenonT(60)
    <3> QED
      BY <3>1, <3>2, NothingQueued DEF Unheard
  <2> QED
    BY <2>1, <2>2
<1> QED
  BY <1>2, <1>5, <1>8, <1>9, <1>10 DEF w

\* What it makes of a state like one nothing of which was heard.
LEMMA AlikeCommit ==
  ASSUME NEW x \in UI, NEW u \in UI, NEW v \in UI, PageOK(u), StreamOK(u), LoadedOK(u),
         NEW status, Behind(status, u), Alike(u, v)
  PROVE  LET w == Commit(x, v)
         IN  /\ w \in UI /\ StreamOK(w) /\ LoadedOK(w) /\ Behind(status, w)
             /\ (/\ Unheard(u) /\ v.hook.time = u.hook.time /\ "ended" \notin Queued(v)
                 /\ x.store.terminal = u.store.terminal
                 /\ Rests(u) => /\ v.hook.paused /\ ~v.hook.playing /\ v.events = <<>>
                                /\ v.store.intent => v.hook.snap.time = 1)
                => /\ Unheard(w)
                   /\ (v.hook.ended => x.hook.ended) => w.page = v.page
<1> DEFINE w == Commit(x, v)
<1>1. PageOK(v) /\ Ready(v) /\ Behind(status, v)
  BY AlikeReady
<1>2. w \in UI /\ StreamOK(w) /\ LoadedOK(w) /\ Behind(status, w)
  BY <1>1, CommitKeepsStream
<1>3. ASSUME Unheard(u), v.hook.time = u.hook.time, "ended" \notin Queued(v),
             x.store.terminal = u.store.terminal,
             Rests(u) => /\ v.hook.paused /\ ~v.hook.playing /\ v.events = <<>>
                         /\ v.store.intent => v.hook.snap.time = 1
      PROVE  /\ Unheard(w)
             /\ (v.hook.ended => x.hook.ended) => w.page = v.page
  <2>1. CASE u.hook.time = 0
    BY <1>1, <1>3, <2>1, AlikeFar, StartCommit
  <2>2. CASE Rests(u)
    <3>1. x.store.terminal /\ v.hook.time = 1
      BY <1>3, <2>2 DEF Rests
    <3> QED
      BY <1>1, <1>3, <2>2, <3>1, RestCommit
  <2> QED
    BY <1>3, <2>1, <2>2 DEF Unheard
<1> QED
  BY <1>2, <1>3

-----------------------------------------------------------------------------
(* Every step keeps the stream in order, and leaves a job only when it may *)

Followed ==
  /\ \A j \in Jobs : InOrder(srv.status[j])
  /\ StreamOK(ui) /\ LoadedOK(ui) /\ Behind(srv.status, ui)

Awaited == ~hist.earned => Unheard(ui)

\* What AdvanceEarned says of a step.
Earns == ui'.page.job # ui.page.job /\ hist'.clicks = hist.clicks => hist'.earned

LEMMA InitFollowed ==
  ASSUME Init
  PROVE  Followed /\ Awaited
<1>1. PICK full \in {Jobs} \cup {{j} : j \in Jobs}, done \in {Jobs, {}} :
        /\ srv = [status |-> [j \in Jobs |-> [c \in Chunk |->
                     IF c >= Length[j] THEN "none"
                     ELSE IF j \in full THEN "written" ELSE "pending"]],
                  saved  |-> [j \in Jobs |-> IF j \in done THEN Length[j] ELSE 0]]
        /\ ui = Arrived(IF full = Jobs THEN 1 ELSE NoJob)
  BY DEF Init
<1>2. \A j \in Jobs : InOrder(srv.status[j])
  <2> SUFFICES ASSUME NEW j \in Jobs, NEW c \in Chunk, NEW d \in Chunk, d < c,
                      srv.status[j][d] = "pending"
               PROVE  srv.status[j][c] \notin Settled
    BY DEF InOrder
  <2>1. \A e \in Chunk : srv.status[j][e] = (IF e >= Length[j] THEN "none"
                                             ELSE IF j \in full THEN "written" ELSE "pending")
    BY <1>1
  <2>2. j \notin full
    BY <2>1
  <2> QED
    BY <2>1, <2>2 DEF Settled
<1>3. /\ ~ui.page.loaded /\ ui.store.job = NoJob /\ ui.store.chunks = NoManifest
      /\ ui.store.seek = NoSeek /\ ~ui.hook.open /\ ui.hook.buf = 0 /\ ui.hook.time = 0
      /\ ui.hook.paused /\ ui.events = <<>>
  BY <1>1 DEF Arrived
<1>4. StreamOK(ui) /\ LoadedOK(ui) /\ Behind(srv.status, ui)
  BY <1>3 DEF StreamOK, LoadedOK, Behind
<1> QED
  BY <1>2, <1>3, <1>4, NothingQueued DEF Followed, Awaited, Unheard

LEMMA RenderFollowed ==
  ASSUME Coherent, Quieted, Followed, Awaited, NEW j \in Jobs, Render(j)
  PROVE  Followed' /\ Awaited' /\ Earns
<1>1. PICK c \in Chunk, outcome \in {"written", "failed"} :
        /\ srv.status[j][c] = "pending"
        /\ \A d \in Chunk : d < c => srv.status[j][d] # "pending"
        /\ srv' = [srv EXCEPT !.status[j][c] = outcome]
  BY DEF Render
<1>2. UNCHANGED <<ui, calls, hist>>
  BY DEF Render
<1>3. /\ srv \in [status : [Jobs -> [Chunk -> Status]], saved : [Jobs -> 0 .. 2 * Longest]]
      /\ \A i \in Jobs : srv.status[i] \in Known /\ Fits(srv.status[i], i)
      /\ ui \in UI
  BY DEF Coherent, TypeOK, Known
<1>4. \A i \in Jobs, d \in Chunk :
        srv'.status[i][d] = IF i = j /\ d = c THEN outcome ELSE srv.status[i][d]
  BY <1>1, <1>3
<1>5. \A i \in Jobs : srv'.status[i] \in Known /\ Fits(srv'.status[i], i)
  <2>1. Coherent'
    BY RenderKeeps
  <2> QED
    BY <2>1 DEF Coherent, TypeOK, Known
<1>6. \A i \in Jobs : Later(srv.status[i], srv'.status[i])
  BY <1>1, <1>4 DEF Later, Settled
<1>7. ASSUME NEW i \in Jobs PROVE InOrder(srv'.status[i])
  <2> SUFFICES ASSUME NEW d \in Chunk, NEW e \in Chunk, e < d,
                      srv'.status[i][e] = "pending", srv'.status[i][d] \in Settled
               PROVE  FALSE
    BY DEF InOrder
  <2>1. srv.status[i][e] = "pending"
    BY <1>4
  <2>2. ~(srv.status[i][d] \in Settled)
    BY <1>7, <2>1 DEF Followed, InOrder
  <2>3. i = j /\ d = c
    BY <1>4, <2>2
  <2> QED
    BY <1>1, <2>1, <2>3
<1>8. Behind(srv'.status, ui)
  <2>1. ASSUME ui.page.loaded
        PROVE  Later(ui.page.known, srv'.status[ui.page.job])
    <3>1. ui.page.job \in Jobs /\ Later(ui.page.known, srv.status[ui.page.job])
      BY <2>1 DEF Coherent, PageOK, Followed, Behind
    <3> QED
      BY <1>6, <3>1 DEF Later
  <2>2. ASSUME ui.store.job # NoJob, ui.store.seek # NoSeek
        PROVE  Aimed(srv'.status[ui.store.job], ui.store.anchor, ui.store.seek)
    <3>1. /\ ui.store.job \in Jobs /\ ui.store.anchor \in Chunk /\ ui.store.seek \in Nat
          /\ Aimed(srv.status[ui.store.job], ui.store.anchor, ui.store.seek)
      BY <1>3, <2>2, Fields DEF Followed, Behind
    <3> QED
      BY <1>3, <1>5, <1>6, <3>1, AimedLater
  <2> QED
    BY <2>1, <2>2 DEF Behind
<1> QED
  BY <1>2, <1>7, <1>8 DEF Followed, Awaited, Earns

\* A step that commits a state like the one before.
LEMMA AlikeStep ==
  ASSUME Coherent, Followed, Awaited, NEW x \in UI, NEW v \in UI, Alike(ui, v),
         x.store.terminal = ui.store.terminal, srv'.status = srv.status,
         LET w == Commit(x, v)
         IN  /\ ui'.page = w.page /\ ui'.store = w.store
             /\ ui'.hook = w.hook /\ ui'.events = w.events,
         \/ hist'.earned = TRUE
         \/ /\ hist'.earned = hist.earned
            /\ Unheard(ui) =>
                 /\ v.hook.time = ui.hook.time /\ "ended" \notin Queued(v)
                 /\ Rests(ui) => /\ v.hook.paused /\ ~v.hook.playing /\ v.events = <<>>
                                 /\ v.store.intent => v.hook.snap.time = 1
                 /\ hist'.clicks = hist.clicks => (v.hook.ended => x.hook.ended)
  PROVE  Followed' /\ Awaited' /\ Earns
<1> DEFINE w == Commit(x, v)
<1>1. ui \in UI /\ PageOK(ui)
  BY Shape DEF Coherent
<1>2. /\ w \in UI /\ StreamOK(w) /\ LoadedOK(w) /\ Behind(srv.status, w)
      /\ (/\ Unheard(ui) /\ v.hook.time = ui.hook.time /\ "ended" \notin Queued(v)
          /\ x.store.terminal = ui.store.terminal
          /\ Rests(ui) => /\ v.hook.paused /\ ~v.hook.playing /\ v.events = <<>>
                          /\ v.store.intent => v.hook.snap.time = 1)
         => /\ Unheard(w)
            /\ (v.hook.ended => x.hook.ended) => w.page = v.page
  BY <1>1, AlikeCommit DEF Followed
<1>3. /\ ui'.page = w.page /\ ui'.store = w.store
      /\ ui'.hook = w.hook /\ ui'.events = w.events
  OBVIOUS
<1> HIDE DEF w
<1>4. StreamOK(ui') /\ LoadedOK(ui') /\ Behind(srv.status, ui')
  BY <1>2, <1>3 DEF StreamOK, LoadedOK, Behind, StreamTime
<1>5. Unheard(w) => Unheard(ui')
  BY <1>3 DEF Unheard, Rests, Queued
<1>6. Followed'
  BY <1>4 DEF Followed
<1>7. CASE hist'.earned = TRUE
  BY <1>6, <1>7 DEF Awaited, Earns
<1>8. CASE hist'.earned = hist.earned /\ ~hist.earned
  <2>1. /\ Unheard(ui) /\ v.hook.time = ui.hook.time /\ "ended" \notin Queued(v)
        /\ Rests(ui) => /\ v.hook.paused /\ ~v.hook.playing /\ v.events = <<>>
                        /\ v.store.intent => v.hook.snap.time = 1
        /\ hist'.clicks = hist.clicks => (v.hook.ended => x.hook.ended)
    BY <1>8 DEF Awaited
  <2>2. Unheard(ui')
    BY <1>2, <1>5, <2>1
  <2>3. hist'.clicks = hist.clicks => ui'.page = ui.page
    BY <1>2, <1>3, <2>1 DEF Alike
  <2> QED
    BY <1>6, <2>2, <2>3 DEF Awaited, Earns
<1>9. hist.earned \in BOOLEAN
  BY Shape DEF History
<1> QED
  BY <1>7, <1>8, <1>9

\* y is u but for the intent and what no part of the stream depends on.
Recast(u, y) ==
  /\ y.page = u.page /\ y.events = u.events /\ SameStream(u, y)
  /\ y.store.job = u.store.job /\ y.store.terminal = u.store.terminal
  /\ y.store.anchor = u.store.anchor /\ y.store.chunks = u.store.chunks
  /\ y.store.offset = u.store.offset /\ y.store.seek = u.store.seek
  /\ y.hook.paused = u.hook.paused /\ y.hook.playing = u.hook.playing
  /\ y.hook.snap = u.hook.snap /\ y.hook.ended = u.hook.ended

LEMMA RecastAlike ==
  ASSUME NEW u \in UI, NEW y \in UI, StreamOK(u), Recast(u, y)
  PROVE  /\ Alike(u, y) /\ y.hook.time = u.hook.time /\ Queued(y) = Queued(u)
         /\ Rests(u) => y.hook.paused /\ ~y.hook.playing /\ y.events = <<>>
         /\ y.hook.ended = u.hook.ended
<1>1. Alike(u, y)
  BY DEF Recast, Alike, SameStream, StreamOK
<1> QED
  BY <1>1 DEF Recast, SameStream, Rests, Queued

LEMMA AttemptsAlike ==
  ASSUME NEW u \in UI, NEW y \in UI, StreamOK(u), Recast(u, y), NEW v \in Attempts(y)
  PROVE  /\ v \in UI /\ Alike(u, v) /\ v.hook.time = u.hook.time
         /\ "ended" \in Queued(v) => "ended" \in Queued(u)
         /\ Rests(u) => /\ v.hook.paused /\ ~v.hook.playing /\ v.events = <<>>
                        /\ v.hook.snap.time = 1
         /\ Unheard(u) /\ (Rests(u) => ~y.store.intent) => (v.hook.ended => u.hook.ended)
<1>1. /\ v \in UI /\ SameStream(y, v) /\ v.page = y.page /\ v.store = y.store
      /\ v.hook.snap.buf \in {y.hook.snap.buf, y.hook.buf}
      /\ v.hook.ended => y.hook.ended \/ Ending(y)
      /\ "ended" \in Queued(v) => "ended" \in Queued(y)
      /\ ~(Primed(y) /\ BufferedAhead(y)) => v = Update(y, TRUE)
  BY AttemptsFacts
<1>2. /\ Gentle(y, Update(y, TRUE))
      /\ Update(y, TRUE).hook.snap.time = y.hook.time
      /\ y.hook.paused => /\ ~Update(y, TRUE).hook.playing
                          /\ Update(y, TRUE).events = y.events
  <2> DEFINE w == Update(y, TRUE)
  <2>1. /\ Gentle(y, w)
        /\ w.hook.snap = [time |-> y.hook.time, buf |-> y.hook.buf, paused |-> y.hook.paused]
        /\ y.hook.paused /\ (TRUE \/ ~y.hook.playing) => ~w.hook.playing
        /\ y.hook.paused => w.events = y.events
    BY UpdateFacts
  <2> HIDE DEF w
  <2>2. w.hook.snap.time = y.hook.time
    BY <2>1
  <2>3. y.hook.paused => ~w.hook.playing /\ w.events = y.events
    BY <2>1
  <2> QED
    BY <2>1, <2>2, <2>3 DEF w
<1>3. u.hook.buf \in Nat
  BY Fields
<1>4. ASSUME u.hook.buf = 0 PROVE v.hook.time = 0 /\ v.hook.paused /\ v.events = <<>>
  <2>1. u.hook.time = 0 /\ u.hook.paused /\ u.events = <<>>
    BY <1>4 DEF StreamOK
  <2>2. ~Primed(y)
    BY <1>4 DEF Primed, Recast, SameStream
  <2>3. y.hook.paused /\ y.events = <<>> /\ y.hook.time = 0
    BY <2>1 DEF Recast, SameStream
  <2> QED
    BY <1>1, <1>2, <2>2, <2>3 DEF Gentle, SameStream
<1>5. Alike(u, v) /\ v.hook.time = u.hook.time
  BY <1>1, <1>4 DEF Recast, Alike, SameStream
<1>6. "ended" \in Queued(v) => "ended" \in Queued(u)
  BY <1>1 DEF Recast, Queued
<1>7. ASSUME Rests(u)
      PROVE  /\ v.hook.paused /\ ~v.hook.playing /\ v.events = <<>>
             /\ v.hook.snap.time = 1
  <2>1. y.hook.snap.buf = 1 /\ y.hook.time = 1 /\ y.hook.paused /\ y.events = <<>>
    BY <1>7 DEF Rests, StreamOK, Recast, SameStream
  <2>2. ~BufferedAhead(y)
    BY <2>1 DEF BufferedAhead
  <2> QED
    BY <1>1, <1>2, <2>1, <2>2 DEF Gentle
<1>8. ASSUME Unheard(u), Rests(u) => ~y.store.intent, v.hook.ended PROVE u.hook.ended
  <2>1. ~Ending(y)
    BY <1>8 DEF Unheard, Ending, Recast, SameStream
  <2> QED
    BY <1>1, <1>8, <2>1 DEF Recast
<1> QED
  BY <1>1, <1>5, <1>6, <1>7, <1>8

LEMMA TickFollowed ==
  ASSUME Coherent, Followed, Awaited, Tick
  PROVE  Followed' /\ Awaited' /\ Earns
<1> DEFINE v == Update(ui, FALSE)
<1>1. /\ ui \in UI /\ StreamOK(ui) /\ ui' = Commit(ui, v) /\ srv' = srv /\ hist' = hist
  BY Shape DEF Tick, Followed
<1>2. /\ v \in UI /\ Gentle(ui, v) /\ SameStream(ui, v) /\ v.page = ui.page /\ v.store = ui.store
      /\ v.hook.snap = [time |-> ui.hook.time, buf |-> ui.hook.buf, paused |-> ui.hook.paused]
      /\ v.hook.ended => ui.hook.ended \/ Ending(ui)
      /\ ui.hook.paused /\ (FALSE \/ ~ui.hook.playing) => ~v.hook.playing
      /\ ui.hook.paused => v.events = ui.events
  BY <1>1, UpdateFacts
<1> HIDE DEF v
<1>3. Alike(ui, v)
  BY <1>1, <1>2 DEF Alike, SameStream, StreamOK, Gentle
<1>4. ASSUME Unheard(ui)
      PROVE  /\ v.hook.time = ui.hook.time /\ "ended" \notin Queued(v)
             /\ Rests(ui) => /\ v.hook.paused /\ ~v.hook.playing /\ v.events = <<>>
                             /\ v.store.intent => v.hook.snap.time = 1
             /\ v.hook.ended => ui.hook.ended
  <2>1. ~Ending(ui)
    BY <1>4 DEF Unheard, Ending, Rests
  <2>2. "ended" \notin Queued(v)
    BY <1>2, <1>4 DEF Unheard, Gentle
  <2> QED
    BY <1>2, <2>1, <2>2 DEF SameStream, Rests, Gentle
<1> QED
  BY <1>1, <1>2, <1>3, <1>4, AlikeStep

LEMMA ActivatedFollowed ==
  ASSUME Coherent, Followed, Awaited, Activated
  PROVE  Followed' /\ Awaited' /\ Earns
<1>1. PICK call \in calls :
       \/ /\ \E v \in Attempts(ui) : ui' = Commit(ui, v)
          /\ hist' = [hist EXCEPT !.overrun = @ \/ ~ui.store.intent]
       \/ ui' = Commit(ui, Refused(call)) /\ hist' = hist
  BY DEF Activated, Refused
<1>2. ui \in UI /\ StreamOK(ui) /\ srv' = srv /\ hist \in History
  BY Shape DEF Activated, Followed
<1>3. hist'.earned = hist.earned /\ hist'.clicks = hist.clicks
  BY <1>1, <1>2 DEF History
<1>4. ASSUME NEW v \in Attempts(ui), ui' = Commit(ui, v)
      PROVE  Followed' /\ Awaited' /\ Earns
  <2>1. Recast(ui, ui)
    BY DEF Recast, SameStream
  <2>2. /\ v \in UI /\ Alike(ui, v) /\ v.hook.time = ui.hook.time
        /\ "ended" \in Queued(v) => "ended" \in Queued(ui)
        /\ Rests(ui) => /\ v.hook.paused /\ ~v.hook.playing /\ v.events = <<>>
                        /\ v.hook.snap.time = 1
        /\ Unheard(ui) /\ (Rests(ui) => ~ui.store.intent) => (v.hook.ended => ui.hook.ended)
    BY <1>2, <1>4, <2>1, AttemptsAlike
  <2>3. Unheard(ui) => "ended" \notin Queued(ui)
    BY DEF Unheard
  <2>4. Rests(ui) => ~ui.store.intent
    BY DEF Rests
  <2> QED
    BY <1>2, <1>3, <1>4, <2>2, <2>3, <2>4, AlikeStep
<1>5. ASSUME ui' = Commit(ui, Refused(call))
      PROVE  Followed' /\ Awaited' /\ Earns
  <2> DEFINE v == Refused(call)
  <2>1. /\ v \in UI /\ Gentle(ui, v) /\ v.page = ui.page /\ v.hook = ui.hook
        /\ v.events = ui.events
        /\ v.store.job = ui.store.job /\ v.store.terminal = ui.store.terminal
        /\ v.store.anchor = ui.store.anchor /\ v.store.chunks = ui.store.chunks
        /\ v.store.offset = ui.store.offset /\ v.store.seek \in {ui.store.seek, NoSeek}
    BY <1>2, RefusedFacts
  <2>2. ~v.store.intent
    BY <1>2 DEF Refused, UI, Store
  <2>3. ui' = Commit(ui, v)
    BY <1>5
  <2> HIDE DEF v
  <2>4. Alike(ui, v)
    BY <1>2, <2>1 DEF Alike, StreamOK
  <2>5. /\ v.hook.time = ui.hook.time
        /\ Unheard(ui) => "ended" \notin Queued(v)
        /\ Rests(ui) => v.hook.paused /\ ~v.hook.playing /\ v.events = <<>>
    BY <2>1 DEF Unheard, Queued, Rests
  <2> QED
    BY <1>2, <1>3, <2>1, <2>2, <2>3, <2>4, <2>5, AlikeStep
<1> QED
  BY <1>1, <1>4, <1>5

LEMMA ResumeFollowed ==
  ASSUME Coherent, Followed, Awaited, Resume
  PROVE  Followed' /\ Awaited' /\ Earns
<1>1. /\ ui \in UI /\ StreamOK(ui) /\ srv' = srv /\ hist' = hist
      /\ \/ ui' = Commit(Undue, Undue)
         \/ Undue.store.intent /\ \E v \in Attempts(Undue) : ui' = Commit(Undue, v)
  BY Shape, ResumeSteps DEF Followed
<1>2. /\ Undue \in UI /\ Recast(ui, Undue) /\ Undue.store = ui.store
      /\ Undue.hook.ended = ui.hook.ended
  BY <1>1, UndueFacts DEF Recast
<1>3. Unheard(ui) => "ended" \notin Queued(ui)
  BY DEF Unheard
<1>4. Rests(ui) => ~Undue.store.intent
  BY <1>2 DEF Rests
<1>5. CASE ui' = Commit(Undue, Undue)
  BY <1>1, <1>2, <1>3, <1>4, <1>5, RecastAlike, AlikeStep
<1>6. ASSUME Undue.store.intent, NEW v \in Attempts(Undue), ui' = Commit(Undue, v)
      PROVE  Followed' /\ Awaited' /\ Earns
  <2>1. /\ v \in UI /\ Alike(ui, v) /\ v.hook.time = ui.hook.time
        /\ "ended" \in Queued(v) => "ended" \in Queued(ui)
        /\ Unheard(ui) /\ (Rests(ui) => ~Undue.store.intent) =>
             (v.hook.ended => ui.hook.ended)
    BY <1>1, <1>2, <1>6, AttemptsAlike
  <2> QED
    BY <1>1, <1>2, <1>3, <1>4, <1>6, <2>1, AlikeStep
<1> QED
  BY <1>1, <1>5, <1>6

LEMMA PressPlayFollowed ==
  ASSUME Coherent, Followed, Awaited, PressPlay
  PROVE  Followed' /\ Awaited' /\ Earns
<1> DEFINE u == [ui EXCEPT !.gesture = TRUE]
           y == [u EXCEPT !.store.intent = TRUE]
<1>1. PICK v \in Plays(u) : ui' = Commit(ui, v)
  BY DEF PressPlay
<1>2. /\ ui \in UI /\ StreamOK(ui) /\ srv' = srv /\ hist \in History
      /\ hist' = [Clicked(hist) EXCEPT !.asked = "play", !.overrun = FALSE]
  BY Shape DEF PressPlay, Followed
<1>3. hist'.earned = hist.earned /\ hist'.clicks # hist.clicks
  BY <1>2 DEF History, Clicked
<1>4. y \in UI /\ Recast(ui, y)
  <2>1. /\ y.page = ui.page /\ y.hook = ui.hook /\ y.events = ui.events
        /\ y.store.job = ui.store.job /\ y.store.terminal = ui.store.terminal
        /\ y.store.anchor = ui.store.anchor /\ y.store.chunks = ui.store.chunks
        /\ y.store.offset = ui.store.offset /\ y.store.seek = ui.store.seek
    BY <1>2 DEF UI, Store
  <2>2. y \in UI
    BY <1>2 DEF UI, Store
  <2> HIDE DEF y
  <2> QED
    BY <2>1, <2>2 DEF Recast, SameStream
<1>5. (v = y /\ ~ui.store.terminal) \/ v \in Attempts(y)
  <2>1. u.store = ui.store
    BY <1>2 DEF UI
  <2>2. u.store.terminal = ui.store.terminal
    BY <2>1
  <2> QED
    BY <1>1, <2>2 DEF Plays
<1> HIDE DEF y, u
<1>6. Unheard(ui) => "ended" \notin Queued(ui)
  BY DEF Unheard
<1>7. CASE v = y /\ ~ui.store.terminal
  <2>1. ~Rests(ui)
    BY <1>7 DEF Rests
  <2> QED
    BY <1>1, <1>2, <1>3, <1>4, <1>6, <1>7, <2>1, RecastAlike, AlikeStep
<1>8. CASE v \in Attempts(y)
  <2>1. /\ v \in UI /\ Alike(ui, v) /\ v.hook.time = ui.hook.time
        /\ "ended" \in Queued(v) => "ended" \in Queued(ui)
        /\ Rests(ui) => /\ v.hook.paused /\ ~v.hook.playing /\ v.events = <<>>
                        /\ v.hook.snap.time = 1
    BY <1>2, <1>4, <1>8, AttemptsAlike
  <2> QED
    BY <1>1, <1>2, <1>3, <1>6, <2>1, AlikeStep
<1> QED
  BY <1>5, <1>7, <1>8

LEMMA PressPauseFollowed ==
  ASSUME Coherent, Followed, Awaited, PressPause
  PROVE  Followed' /\ Awaited' /\ Earns
<1> DEFINE p == PausePlayback(ui)
           v == [p EXCEPT !.store.intent = FALSE, !.gesture = TRUE]
<1>1. /\ ui \in UI /\ StreamOK(ui) /\ srv' = srv /\ hist \in History
      /\ ui' = Commit(ui, v)
      /\ hist' = [Clicked(hist) EXCEPT !.asked = "pause",
                    !.overrun = "play" \in {ui.events[i] : i \in DOMAIN ui.events}]
  BY Shape DEF PressPause, Followed
<1>2. hist'.earned = hist.earned /\ hist'.clicks # hist.clicks
  BY <1>1 DEF History, Clicked
<1>3. /\ p \in UI /\ Gentle(ui, p) /\ SameStream(ui, p)
      /\ p.page = ui.page /\ p.store = ui.store /\ p.hook.paused
      /\ p.hook.snap.buf = ui.hook.buf
      /\ ui.hook.paused => ~p.hook.playing /\ p.events = ui.events
  BY <1>1, PausedFacts
<1> HIDE DEF p
<1>4. /\ v \in UI /\ v.page = p.page /\ v.hook = p.hook /\ v.events = p.events
      /\ v.store.job = p.store.job /\ v.store.terminal = p.store.terminal
      /\ v.store.anchor = p.store.anchor /\ v.store.chunks = p.store.chunks
      /\ v.store.offset = p.store.offset /\ v.store.seek = p.store.seek
      /\ ~v.store.intent
  BY <1>3 DEF UI, Store
<1> HIDE DEF v
<1>5. Alike(ui, v)
  BY <1>1, <1>3, <1>4 DEF Alike, SameStream, StreamOK
<1>6. /\ v.hook.time = ui.hook.time
      /\ Unheard(ui) => "ended" \notin Queued(v)
      /\ Rests(ui) => v.hook.paused /\ ~v.hook.playing /\ v.events = <<>>
  BY <1>3, <1>4 DEF Unheard, Gentle, SameStream, Rests, Queued
<1> QED
  BY <1>1, <1>2, <1>4, <1>5, <1>6, AlikeStep

LEMMA SkipWithinFollowed ==
  ASSUME Coherent, Followed, Awaited, NEW t \in Nat, SkipWithin(t)
  PROVE  Followed' /\ Awaited' /\ Earns
<1> DEFINE place == IF t <= ui.hook.buf THEN t ELSE ui.hook.buf
           p == Place(ui, place)
           v == [p EXCEPT !.gesture = TRUE]
<1>1. ui \in UI /\ hist \in History /\ StreamOK(ui)
  BY Shape DEF Followed
<1>2. place \in 0 .. Longest /\ (ui.hook.buf = 0 => place = 0)
  BY <1>1, Fields
<1>3. ui' = Commit(ui, v) /\ srv' = srv
      /\ hist' = [Clicked(hist) EXCEPT !.earned = TRUE]
  BY DEF SkipWithin
<1> HIDE DEF place
<1>4. /\ p \in UI /\ Gentle(ui, p) /\ p.page = ui.page /\ p.store = ui.store
      /\ p.hook.open = ui.hook.open /\ p.hook.key = ui.hook.key
      /\ p.hook.buf = ui.hook.buf /\ p.hook.time = place /\ p.hook.snap.buf = ui.hook.buf
      /\ ui.hook.paused => p.events = ui.events
  BY <1>1, <1>2, PlaceFacts
<1> HIDE DEF p
<1>5. v.page = p.page /\ v.hook = p.hook /\ v.events = p.events /\ v.store = p.store /\ v \in UI
  BY <1>4 DEF UI
<1> HIDE DEF v
<1>6. Alike(ui, v)
  BY <1>1, <1>2, <1>4, <1>5 DEF Alike, StreamOK, Gentle
<1>7. hist'.earned = TRUE
  BY <1>1, <1>3 DEF Clicked, History
<1> QED
  BY <1>1, <1>3, <1>5, <1>6, <1>7, AlikeStep

LEMMA DeliverFollowed ==
  ASSUME Coherent, Followed, Awaited, Deliver
  PROVE  Followed' /\ Awaited' /\ Earns
<1> DEFINE event == Head(ui.events)
           h == Handled(Taken, event)
           w == Commit(Taken, h)
<1>1. /\ ui \in UI /\ ui.events # <<>> /\ UNCHANGED <<calls, hist>>
      /\ ((ui' = w /\ UNCHANGED srv) \/ Report(w))
      /\ StreamOK(ui)
      /\ srv \in [status : [Jobs -> [Chunk -> Status]], saved : [Jobs -> 0 .. 2 * Longest]]
  BY Shape, DeliverSteps DEF Followed, Coherent, TypeOK
<1>2. /\ Taken \in UI /\ Taken.page = ui.page /\ Taken.store = ui.store /\ Taken.hook = ui.hook
      /\ event \in MediaEvent /\ event \in Queued(ui) /\ Queued(Taken) \subseteq Queued(ui)
  BY <1>1, TakenFacts
<1> HIDE DEF event
<1>3. /\ h \in UI /\ SameStream(Taken, h) /\ h.page = ui.page
      /\ h.store.job = ui.store.job /\ h.store.terminal = ui.store.terminal
      /\ h.store.anchor = ui.store.anchor /\ h.store.chunks = ui.store.chunks
      /\ h.store.offset = ui.store.offset /\ h.store.seek = ui.store.seek
      /\ h.hook.snap.buf = ui.hook.buf
      /\ "ended" \in Queued(h) => "ended" \in Queued(Taken)
      /\ h.hook.ended => ui.hook.ended \/ event = "ended" \/ Ending(Taken)
  BY <1>2, HandledFacts
<1> HIDE DEF h
<1>4. Alike(ui, h)
  BY <1>1, <1>2, <1>3 DEF Alike, SameStream, StreamOK
<1>5. ASSUME Unheard(ui)
      PROVE  /\ h.hook.time = ui.hook.time /\ "ended" \notin Queued(h) /\ ~Rests(ui)
             /\ h.hook.ended => Taken.hook.ended
  <2>1. ~Rests(ui)
    BY <1>1 DEF Rests
  <2>2. ui.hook.time = 0 /\ event # "ended"
    BY <1>2, <1>5, <2>1 DEF Unheard
  <2>3. ~Ending(Taken)
    BY <1>2, <2>2 DEF Ending
  <2> QED
    BY <1>2, <1>3, <1>5, <2>1, <2>2, <2>3 DEF Unheard, SameStream
<1>6. w \in UI
  BY <1>2, <1>3, CommitFacts
<1>7. /\ srv'.status = srv.status
      /\ ui'.page = w.page /\ ui'.store = w.store /\ ui'.hook = w.hook /\ ui'.events = w.events
  <2> HIDE DEF w
  <2>1. CASE ui' = w /\ UNCHANGED srv
    BY <2>1
  <2>2. CASE Report(w)
    BY <1>1, <1>6, <2>2, ReportFacts
  <2> QED
    BY <1>1, <2>1, <2>2
<1> QED
  BY <1>1, <1>2, <1>3, <1>4, <1>5, <1>7, AlikeStep

\* A step that commits a state that is ready.
LEMMA ReadyStep ==
  ASSUME hist \in History, hist' \in History, NEW x \in UI, NEW v \in UI, PageOK(v), Ready(v),
         Behind(srv'.status, v), \A j \in Jobs : InOrder(srv'.status[j]),
         ui' = Commit(x, v),
         \/ hist'.earned
         \/ /\ v.hook.time = 0 /\ "ended" \notin Queued(v)
            /\ LET s == SetSource(v)
                   a == Stream(s)
               IN  a.hook.buf > 0 /\ v.store.seek # NoSeek =>
                     StreamTime(s, v.store.seek) > a.hook.buf
            /\ \/ hist'.clicks # hist.clicks
               \/ (v.hook.ended => x.hook.ended) /\ v.page.job = ui.page.job
  PROVE  Followed' /\ Awaited' /\ Earns
<1> DEFINE w == Commit(x, v)
<1>1. w \in UI /\ StreamOK(w) /\ LoadedOK(w) /\ Behind(srv'.status, w)
  BY CommitKeepsStream
<1>2. Followed'
  <2>1. ui' = w
    OBVIOUS
  <2> HIDE DEF w
  <2> QED
    BY <1>1, <2>1 DEF Followed
<1>3. CASE hist'.earned
  BY <1>2, <1>3 DEF Awaited, Earns
<1>4. CASE ~hist'.earned
  <2>1. /\ Unheard(w)
        /\ (v.hook.ended => x.hook.ended) => w.page = v.page
    BY <1>4, StartCommit
  <2>2. ui' = w /\ (\/ hist'.clicks # hist.clicks
                    \/ (v.hook.ended => x.hook.ended) /\ v.page.job = ui.page.job)
    BY <1>4
  <2> HIDE DEF w
  <2> QED
    BY <1>2, <2>1, <2>2 DEF Awaited, Earns
<1> QED
  BY <1>3, <1>4

\* The first chunk of the stream may be the one a seek waited for.
LEMMA AppendChunkFollowed ==
  ASSUME Coherent, Followed, Awaited, AppendChunk
  PROVE  Followed' /\ Awaited' /\ Earns
<1> DEFINE v == Update(Appended, TRUE)
           s == SetSource(v)
           a == Stream(s)
           b == TurnsTerminal(ui, a)
           d == Effects(ui, v)
           w == Commit(ui, v)
<1>1. /\ ui \in UI /\ PageOK(ui) /\ StreamOK(ui) /\ LoadedOK(ui) /\ Behind(srv.status, ui)
      /\ CanAppend /\ srv' = srv /\ hist' = hist /\ hist \in History
      /\ \A j \in Jobs : InOrder(srv.status[j])
  BY Shape DEF AppendChunk, Followed, Coherent
<1>2. ui' = w
  BY DEF AppendChunk, Appended
<1>3. /\ Appended \in UI /\ Gentle(ui, Appended) /\ Appended.page = ui.page
      /\ Appended.store = ui.store
      /\ Appended.hook.open = ui.hook.open /\ Appended.hook.key = ui.hook.key
      /\ Appended.hook.buf = ui.hook.buf + 1 /\ Appended.hook.time = ui.hook.time
      /\ Appended.hook.paused = ui.hook.paused /\ Appended.hook.ended = ui.hook.ended
      /\ ui.hook.paused => Appended.events = ui.events
  BY <1>1, AppendedFacts
<1>4. /\ v \in UI /\ Gentle(Appended, v) /\ SameStream(Appended, v)
      /\ v.page = Appended.page /\ v.store = Appended.store
      /\ v.hook.snap = [time |-> Appended.hook.time, buf |-> Appended.hook.buf,
                        paused |-> Appended.hook.paused]
      /\ v.hook.ended => Appended.hook.ended \/ Ending(Appended)
      /\ Appended.hook.paused /\ (TRUE \/ ~Appended.hook.playing) => ~v.hook.playing
      /\ Appended.hook.paused => v.events = Appended.events
  BY <1>3, UpdateFacts
<1> HIDE DEF v
<1>5. /\ v.page = ui.page /\ v.store = ui.store
      /\ v.hook.open = ui.hook.open /\ v.hook.key = ui.hook.key
      /\ v.hook.buf = ui.hook.buf + 1 /\ v.hook.time = ui.hook.time
      /\ v.hook.snap.buf = v.hook.buf
      /\ "ended" \in Queued(v) => "ended" \in Queued(ui)
      /\ ui.hook.paused => v.hook.paused /\ ~v.hook.playing /\ v.events = ui.events
  BY <1>3, <1>4 DEF SameStream, Gentle
<1>6. /\ ui.hook.buf \in Nat /\ ui.store.chunks \in Int /\ ui.store.chunks >= 1
      /\ ui.hook.buf < ui.store.chunks /\ ui.hook.open
  <2>1. ui.hook.buf \in Nat /\ ui.store.chunks \in Int
    BY <1>1, Fields
  <2> QED
    BY <1>1, <2>1 DEF CanAppend, Rendered
<1>7. PageOK(v) /\ Behind(srv.status, v)
  BY <1>1, <1>5 DEF PageOK, Behind
<1>8. Ready(v)
  <2>1. ASSUME v.page.loaded PROVE v.page.known[v.store.anchor] = "written"
    <3>1. ui.store.chunks = RunLength(ui.page.known, ui.store.anchor)
      BY <1>1, <1>5, <2>1 DEF LoadedOK
    <3> QED
      BY <1>1, <1>5, <1>6, <3>1, Fields, RunStarts
  <2>2. v.hook.buf # 0 /\ v.hook.open
    BY <1>5, <1>6
  <2>3. /\ v.page.loaded =>
             /\ InOrder(v.page.known)
             /\ v.store.terminal = Terminal(v.page.known)
             /\ v.store.seek # NoSeek => Aimed(v.page.known, v.store.anchor, v.store.seek)
        /\ v.store.job = NoJob => v.store.seek = NoSeek
    BY <1>1, <1>5 DEF LoadedOK, StreamOK
  <2>4. /\ v.hook.open <=> v.store.chunks # NoManifest
        /\ v.hook.buf > 0 => v.store.chunks >= 1
        /\ v.hook.open /\ v.store.seek # NoSeek =>
             \/ v.store.seek <= v.store.offset
             \/ v.store.chunks = 0
             \/ v.store.chunks = 1 /\ v.store.terminal
    BY <1>1, <1>5, <1>6 DEF StreamOK
  <2> QED
    BY <1>5, <2>1, <2>2, <2>3, <2>4 DEF Ready
<1> DEFINE far == a.hook.buf > 0 /\ v.store.seek # NoSeek =>
                    StreamTime(s, v.store.seek) > a.hook.buf
<1>9. CASE hist.earned
  BY <1>1, <1>2, <1>4, <1>7, <1>8, <1>9, ReadyStep
<1>10. CASE ~hist.earned /\ far
  <2>1. Unheard(ui)
    BY <1>10 DEF Awaited
  <2>2. ui.hook.time = 0
    BY <1>6, <2>1 DEF Unheard, Rests
  <2>3. v.hook.time = 0 /\ "ended" \notin Queued(v) /\ (v.hook.ended => ui.hook.ended)
    BY <1>3, <1>4, <1>5, <2>1, <2>2 DEF Unheard, Ending
  <2>4. /\ hist' \in History /\ Behind(srv'.status, v) /\ v.page.job = ui.page.job
        /\ \A j \in Jobs : InOrder(srv'.status[j])
    BY <1>1, <1>5, <1>7
  <2> QED
    BY <1>1, <1>2, <1>4, <1>7, <1>8, <1>10, <2>3, <2>4, ReadyStep
<1>11. CASE ~hist.earned /\ ~far
  <2>1. Unheard(ui)
    BY <1>11 DEF Awaited
  <2>2. ui.hook.time = 0 /\ "ended" \notin Queued(v)
    BY <1>5, <1>6, <2>1 DEF Unheard, Rests
  <2>3. /\ s \in UI /\ a \in UI /\ a.store = s.store /\ s.store.seek = v.store.seek
        /\ a.hook.open <=> s.store.chunks # NoManifest
        /\ a.hook.buf > 0 => /\ a.hook = v.hook /\ a.events = v.events /\ a.hook.open
        /\ v.page.loaded =>
             /\ s.store.chunks = RunLength(v.page.known, v.store.anchor)
             /\ s.store.offset = Before(v.page.known, v.store.anchor)
        /\ ~v.page.loaded /\ v.page.job # NoJob => s.store.chunks = NoManifest
        /\ v.page.job = NoJob => s = v
    BY <1>4, <1>7, <1>8, StreamOfSource
  <2>4. /\ d \in UI /\ b \in UI /\ Gentle(v, d) /\ d.page = v.page
        /\ d.store.terminal = v.store.terminal /\ d.store.chunks = s.store.chunks
        /\ d.hook.buf = a.hook.buf
        /\ d.store.intent => v.store.intent /\ ~Finished(d)
        /\ b.store = s.store /\ SameStream(a, b)
        /\ b.hook.snap.buf \in {a.hook.snap.buf, a.hook.buf}
    BY <1>1, <1>4, EffectsFacts, ZenonT(60)
  <2>5. Fires(b) => /\ d.store.seek = NoSeek
                    /\ d.hook.time = StreamTime(s, v.store.seek)
                    /\ d.hook.snap.time = d.hook.time
                    /\ ~d.hook.ended
                    /\ a.hook.paused => ~d.hook.playing /\ d.events = a.events /\ d.hook.paused
    BY <1>1, <1>4, EffectsFacts
  <2>6. w = d \/ d.hook.ended
    BY <1>1, <1>4, CommitFacts
  <2>7. a.hook.buf > 0 /\ v.store.seek # NoSeek /\ ~(StreamTime(s, v.store.seek) > a.hook.buf)
    BY <1>11
  <2>8. w \in UI /\ StreamOK(w) /\ LoadedOK(w) /\ Behind(srv.status, w)
    BY <1>1, <1>4, <1>7, <1>8, CommitKeepsStream
  <2> HIDE DEF far, s, a, b, d, w
  <2>9. s.store.chunks = ui.store.chunks /\ s.store.offset = ui.store.offset
    <3>1. CASE v.page.job = NoJob
      BY <1>5, <2>3, <3>1
    <3>2. CASE v.page.job # NoJob
      BY <1>1, <1>5, <2>3, <2>7, <3>2 DEF LoadedOK
    <3> QED
      BY <3>1, <3>2
  <2>10. StreamTime(s, v.store.seek) = StreamTime(ui, ui.store.seek)
         /\ StreamTime(ui, ui.store.seek) \in Nat
    BY <1>1, <1>5, <2>7, <2>9, StreamTimeRange DEF StreamTime
  <2>11. Fires(b)
    <3>1. b.hook.buf = v.hook.buf /\ b.hook.snap.buf = v.hook.buf /\ b.store.seek = v.store.seek
      BY <1>5, <2>3, <2>4, <2>7 DEF SameStream
    <3>2. StreamTime(b, b.store.seek) = StreamTime(s, v.store.seek)
      BY <2>4, <3>1 DEF StreamTime
    <3> QED
      BY <1>5, <1>6, <2>3, <2>7, <2>10, <3>1, <3>2 DEF Fires, Primed
  <2>12. w = d /\ d.hook.time = StreamTime(ui, ui.store.seek) /\ d.hook.time <= ui.hook.buf + 1
    BY <1>5, <1>6, <2>3, <2>5, <2>6, <2>7, <2>10, <2>11
  <2>13. \/ ui.store.seek <= ui.store.offset
         \/ ui.store.chunks = 1 /\ ui.store.terminal
    BY <1>1, <1>5, <1>6, <2>7 DEF StreamOK
  <2>14. Unheard(d)
    <3>1. CASE d.hook.time = 0
      BY <2>2, <2>4, <3>1 DEF Unheard, Gentle
    <3>2. CASE d.hook.time # 0
      <4>1. ui.store.seek \in Int /\ ui.store.offset \in Int
        BY <1>1, Fields
      <4>2. ui.store.chunks = 1 /\ ui.store.terminal
        BY <2>12, <2>13, <3>2, <4>1 DEF StreamTime
      <4>3. ui.hook.buf = 0 /\ ui.hook.paused /\ ui.events = <<>>
        BY <1>1, <1>6, <4>2 DEF StreamOK
      <4>4. d.hook.time = 1 /\ d.hook.buf = 1 /\ d.hook.snap.time = 1
        BY <1>5, <2>3, <2>4, <2>5, <2>7, <2>10, <2>11, <2>12, <3>2, <4>3
      <4>5. d.hook.paused /\ ~d.hook.playing /\ d.events = <<>>
        BY <1>5, <2>3, <2>5, <2>7, <2>11, <4>3
      <4>6. d.store.terminal /\ d.store.chunks = 1 /\ d.store.seek = NoSeek
        BY <1>5, <2>4, <2>5, <2>9, <2>11, <4>2
      <4>7. Rendered(d) = 1
        BY <4>6 DEF Rendered, NoManifest
      <4>8. Finished(d)
        BY <4>4, <4>5, <4>6, <4>7 DEF Finished
      <4>9. ~d.store.intent
        <5>1. d.store.intent \in BOOLEAN
          BY <2>4, Fields
        <5> QED
          BY <2>4, <4>8, <5>1
      <4>10. Rests(d)
        BY <4>4, <4>5, <4>6, <4>9 DEF Rests
      <4> QED
        BY <4>5, <4>10, NothingQueued DEF Unheard
    <3> QED
      BY <3>1, <3>2
  <2> QED
    BY <1>1, <1>2, <1>5, <2>4, <2>8, <2>12, <2>14 DEF Followed, Awaited, Earns
<1> QED
  BY <1>9, <1>10, <1>11

\* A page that takes over what the server has, before its job was finished.
LEMMA SyncedStep ==
  ASSUME Coherent, Followed, Awaited, ui.page.loaded, ~ui.store.terminal,
         NEW u \in UI, u.page = ui.page, u.store = ui.store, u.hook = ui.hook,
         u.events = ui.events, ui' = Commit(ui, Synced(u)), srv' = srv,
         hist' \in History, hist'.earned = hist.earned
  PROVE  Followed' /\ Awaited' /\ Earns
<1> DEFINE v == Synced(u)
           j == ui.page.job
           known == srv.status[j]
           s == SetSource(v)
           a == Stream(s)
<1>1. /\ ui \in UI /\ PageOK(ui) /\ StreamOK(ui) /\ LoadedOK(ui) /\ Behind(srv.status, ui)
      /\ hist \in History /\ \A i \in Jobs : InOrder(srv.status[i])
  BY Shape DEF Followed, Coherent
<1>2. /\ v \in UI /\ PageOK(v) /\ Gentle(u, v) /\ v.hook = u.hook /\ v.events = u.events
      /\ v.page.loaded /\ v.page.job = j /\ v.page.known = known
      /\ v.store.job = j /\ v.store.terminal = Terminal(known)
      /\ v.store.seek = u.store.seek
      /\ v.store.anchor = IF known[u.store.anchor] = "none" THEN 0 ELSE u.store.anchor
  BY SyncedFacts
<1>3. /\ j \in Jobs /\ j # NoJob /\ ui.store.job = j /\ known \in Known /\ Fits(known, j)
      /\ ui.page.known \in Known /\ Fits(ui.page.known, j) /\ InOrder(ui.page.known)
      /\ InOrder(known) /\ Later(ui.page.known, known)
      /\ ui.store.anchor \in Chunk
  <2>1. j \in Jobs /\ ui.store.job = j /\ Fits(ui.page.known, j) /\ j # NoJob
    BY <1>1, JobNumbers DEF PageOK, NoJob
  <2>2. known \in Known /\ Fits(known, j)
    BY <2>1 DEF Coherent, TypeOK, Known
  <2> QED
    BY <1>1, <2>1, <2>2, Fields DEF LoadedOK, Behind
<1> HIDE DEF v, known, j
<1>4. ASSUME ui.store.seek # NoSeek
      PROVE  v.store.anchor = ui.store.anchor /\ Aimed(known, ui.store.anchor, ui.store.seek)
  <2>1. Aimed(known, ui.store.anchor, ui.store.seek)
    BY <1>1, <1>3, <1>4 DEF Behind, known
  <2> QED
    BY <1>2, <2>1 DEF Aimed
<1>5. ASSUME ui.hook.buf > 0
      PROVE  /\ v.store.anchor = ui.store.anchor
             /\ ui.page.known[ui.store.anchor] = "written" /\ known[ui.store.anchor] = "written"
  <2>1. ui.store.chunks >= 1 /\ ui.store.chunks = RunLength(ui.page.known, ui.store.anchor)
    BY <1>1, <1>5 DEF StreamOK, LoadedOK
  <2>2. ui.page.known[ui.store.anchor] = "written"
    BY <1>3, <2>1, RunStarts
  <2>3. known[ui.store.anchor] = "written"
    BY <1>3, <2>2 DEF Later, Settled
  <2> QED
    BY <1>2, <2>2, <2>3
<1>6. Behind(srv.status, v)
  <2>1. Later(v.page.known, srv.status[v.page.job])
    BY <1>2 DEF Later, known
  <2>2. v.store.seek # NoSeek =>
          Aimed(srv.status[v.store.job], v.store.anchor, v.store.seek)
    BY <1>2, <1>4 DEF known
  <2> QED
    BY <2>1, <2>2 DEF Behind
<1>7. Ready(v)
  <2>1. /\ InOrder(v.page.known) /\ v.store.terminal = Terminal(v.page.known)
        /\ v.store.seek # NoSeek => Aimed(v.page.known, v.store.anchor, v.store.seek)
    BY <1>2, <1>3, <1>4
  <2>2. /\ ~v.hook.open => v.hook.buf = 0
        /\ v.hook.buf = 0 => v.hook.time = 0 /\ v.hook.paused /\ v.events = <<>>
        /\ v.hook.buf > 0 => v.hook.snap.buf = v.hook.buf
    BY <1>1, <1>2 DEF StreamOK
  <2>3. v.hook.buf > 0 => v.page.known[v.store.anchor] = "written"
    BY <1>2, <1>5
  <2> QED
    BY <1>2, <1>3, <2>1, <2>2, <2>3 DEF Ready
<1>8. a.hook.buf > 0 /\ v.store.seek # NoSeek => StreamTime(s, v.store.seek) > a.hook.buf
  <2> SUFFICES ASSUME a.hook.buf > 0, v.store.seek # NoSeek
               PROVE  StreamTime(s, v.store.seek) > a.hook.buf
    OBVIOUS
  <2>1. /\ a.hook.buf > 0 => a.hook = v.hook
        /\ v.page.loaded => s.store.offset = Before(v.page.known, v.store.anchor)
    BY <1>2, <1>7, StreamOfSource
  <2> HIDE DEF s, a
  <2>2. a.hook.buf = ui.hook.buf /\ ui.hook.buf > 0 /\ v.store.seek = ui.store.seek
    BY <1>2, <2>1
  <2>3. s.store.offset = ui.store.offset
    <3>1. s.store.offset = Before(known, ui.store.anchor)
      BY <1>2, <1>5, <2>1, <2>2
    <3>2. Before(ui.page.known, ui.store.anchor) = Before(known, ui.store.anchor)
      BY <1>3, <1>5, <2>2, BeforeLater
    <3> QED
      BY <1>1, <3>1, <3>2 DEF LoadedOK
  <2>4. StreamTime(s, v.store.seek) = StreamTime(ui, ui.store.seek)
    BY <2>2, <2>3 DEF StreamTime
  <2> QED
    BY <1>1, <2>2, <2>4 DEF StreamOK
<1>9. /\ Behind(srv'.status, v) /\ \A i \in Jobs : InOrder(srv'.status[i])
      /\ ui' = Commit(ui, v)
  BY <1>1, <1>6 DEF v
<1>10. CASE hist.earned
  BY <1>1, <1>2, <1>7, <1>9, <1>10, ReadyStep
<1>11. CASE ~hist.earned
  <2>1. ui.hook.time = 0 /\ "ended" \notin Queued(ui)
    BY <1>11 DEF Awaited, Unheard, Rests
  <2>2. /\ v.hook.time = 0 /\ "ended" \notin Queued(v) /\ (v.hook.ended => ui.hook.ended)
        /\ v.page.job = ui.page.job
    BY <1>2, <2>1 DEF Queued, j
  <2> QED
    BY <1>1, <1>2, <1>7, <1>8, <1>9, <2>2, ReadyStep
<1> QED
  BY <1>10, <1>11

LEMMA SyncPageFollowed ==
  ASSUME Coherent, Followed, Awaited, SyncPage
  PROVE  Followed' /\ Awaited' /\ Earns
<1>1. /\ ui.page.loaded /\ ui.page.known # srv.status[ui.page.job]
      /\ ui' = Commit(ui, Synced(ui)) /\ srv' = srv /\ hist' = hist
  BY DEF SyncPage, CanSync
<1>2. ui \in UI /\ hist \in History
  BY Shape
<1>3. ~ui.store.terminal
  <2> SUFFICES ASSUME ui.store.terminal PROVE FALSE
    OBVIOUS
  <2> DEFINE j == ui.page.job
             k == ui.page.known
             l == srv.status[j]
  <2>1. j \in Jobs /\ Fits(k, j) /\ Fits(l, j) /\ k \in Known /\ l \in Known
    BY <1>1, Shape DEF Coherent, TypeOK, PageOK, Known
  <2>2. Terminal(k) /\ Later(k, l)
    BY <1>1 DEF Followed, LoadedOK, Behind
  <2> HIDE DEF j, k, l
  <2>3. \A c \in Chunk : k[c] = l[c]
    <3> SUFFICES ASSUME NEW c \in Chunk PROVE k[c] = l[c]
      OBVIOUS
    <3>1. k[c] \in Status /\ l[c] \in Status /\ k[c] # "pending"
      BY <2>1, <2>2 DEF Known, Terminal
    <3>2. k[c] = "none" <=> l[c] = "none"
      BY <2>1 DEF Fits
    <3> QED
      BY <2>2, <3>1, <3>2 DEF Later, Settled, Status
  <2>4. k = l
    BY <2>1, <2>3 DEF Known
  <2> QED
    BY <1>1, <2>4 DEF k, l, j
<1> QED
  BY <1>1, <1>2, <1>3, SyncedStep

LEMMA RetryRenderFollowed ==
  ASSUME Coherent, Followed, Awaited, RetryRender
  PROVE  Followed' /\ Awaited' /\ Earns
<1> DEFINE u == [ui EXCEPT !.gesture = TRUE]
<1>1. ui \in UI /\ hist \in History
  BY Shape
<1>2. /\ u.page = ui.page /\ u.store = ui.store /\ u.hook = ui.hook /\ u.events = ui.events
      /\ u \in UI
  BY <1>1 DEF UI
<1>3. /\ ui' = Commit(ui, Synced(u)) /\ ui.page.loaded /\ ~ui.store.terminal /\ srv' = srv
      /\ hist' = Clicked(hist)
  BY DEF RetryRender, Stalled
<1> HIDE DEF u
<1>4. hist' \in History /\ hist'.earned = hist.earned
  BY <1>1, <1>3, ClickedFacts
<1> QED
  BY <1>1, <1>2, <1>3, <1>4, SyncedStep

LEMMA LoadPageFollowed ==
  ASSUME Coherent, Followed, Awaited, LoadPage
  PROVE  Followed' /\ Awaited' /\ Earns
<1> DEFINE j == ui.page.job
           known == srv.status[j]
           place == ResumePosition(known, srv.saved[j])
<1>1. /\ CanLoad /\ srv' = srv
      /\ \E v \in IF ui.page.play THEN Plays(Placed) ELSE {Placed} : ui' = Commit(ui, v)
      /\ hist' = [hist EXCEPT !.earned = FALSE,
                              !.asked = IF ui.page.play THEN "play" ELSE @,
                              !.overrun = @ /\ ~ui.page.play]
  BY DEF LoadPage, Placed
<1>2. /\ ui \in UI /\ PageOK(ui) /\ StreamOK(ui) /\ LoadedOK(ui) /\ Behind(srv.status, ui)
      /\ hist \in History /\ \A i \in Jobs : InOrder(srv.status[i])
  BY Shape DEF Followed, Coherent
<1>3. /\ j \in Jobs /\ known \in Known /\ Fits(known, j) /\ place \in Nat
      /\ Placed \in UI /\ PageOK(Placed)
      /\ Placed.hook = ui.hook /\ Placed.events = ui.events
      /\ Placed.page.loaded /\ Placed.page.job = j /\ Placed.page.known = known
      /\ Placed.store.job = j /\ Placed.store.terminal = Terminal(known)
      /\ place = 0 => /\ Placed.store.anchor = ui.store.anchor
                      /\ Placed.store.seek = (IF ui.store.job = j THEN ui.store.seek
                                              ELSE NoSeek)
      /\ place # 0 => /\ Placed.store.anchor = ChunkAt(known, place)
                      /\ Placed.store.seek = place
  BY <1>1, PlacedFacts
<1> HIDE DEF known, place, j
<1>4. ASSUME Placed.store.seek # NoSeek
      PROVE  Aimed(known, Placed.store.anchor, Placed.store.seek)
  <2>1. CASE place = 0
    <3>1. ui.store.job = j /\ ui.store.seek = Placed.store.seek /\ j # NoJob
      BY <1>3, <1>4, <2>1, JobNumbers DEF NoJob
    <3> QED
      BY <1>2, <1>3, <1>4, <2>1, <3>1 DEF Behind, known
  <2>2. CASE place # 0
    BY <1>3, <2>2, ChunkAtAims
  <2> QED
    BY <2>1, <2>2
<1>5. /\ ui.hook.buf = 0 /\ ui.hook.time = 0 /\ ui.hook.paused /\ ui.events = <<>>
      /\ ~ui.hook.open
  BY <1>1, <1>2 DEF CanLoad, LoadedOK, StreamOK
<1>6. PICK v \in IF ui.page.play THEN Plays(Placed) ELSE {Placed} : ui' = Commit(ui, v)
  BY <1>1
<1>7. /\ v \in UI /\ v.page = Placed.page
      /\ v.store.job = j /\ v.store.terminal = Terminal(known)
      /\ v.store.anchor = Placed.store.anchor /\ v.store.seek = Placed.store.seek
      /\ ~v.hook.open /\ v.hook.buf = 0 /\ v.hook.time = 0 /\ v.hook.paused /\ v.events = <<>>
      /\ v.hook.ended => ui.hook.ended
  <2>1. CASE v = Placed
    BY <1>3, <1>5, <2>1
  <2>2. CASE v \in Plays(Placed)
    <3>1. /\ v \in UI /\ SameStream(Placed, v) /\ v.page = Placed.page
          /\ v.store.job = Placed.store.job /\ v.store.terminal = Placed.store.terminal
          /\ v.store.anchor = Placed.store.anchor /\ v.store.seek = Placed.store.seek
          /\ v.hook.ended => Placed.hook.ended \/ Placed.hook.time > 0
          /\ Placed.hook.buf = 0 /\ Placed.hook.paused =>
               v.hook.paused /\ v.events = Placed.events
      BY <1>3, <2>2, PlaysFacts
    <3> QED
      BY <1>3, <1>5, <3>1 DEF SameStream
  <2> QED
    BY <1>6, <2>1, <2>2
<1>8. PageOK(v)
  BY <1>3, <1>7 DEF PageOK
<1>9. j # NoJob
  BY <1>3, JobNumbers DEF NoJob
<1>10. Ready(v)
  <2>1. /\ InOrder(v.page.known) /\ v.store.terminal = Terminal(v.page.known)
        /\ v.store.seek # NoSeek => Aimed(v.page.known, v.store.anchor, v.store.seek)
    BY <1>2, <1>3, <1>4, <1>7 DEF known
  <2> QED
    BY <1>3, <1>7, <1>9, <2>1 DEF Ready
<1>11. Behind(srv.status, v)
  <2>1. Later(v.page.known, srv.status[v.page.job])
    BY <1>3, <1>7 DEF Later, known
  <2>2. v.store.seek # NoSeek =>
          Aimed(srv.status[v.store.job], v.store.anchor, v.store.seek)
    BY <1>4, <1>7 DEF known
  <2> QED
    BY <2>1, <2>2 DEF Behind
<1>12. LET s == SetSource(v)
           a == Stream(s)
       IN  a.hook.buf > 0 /\ v.store.seek # NoSeek => StreamTime(s, v.store.seek) > a.hook.buf
  <2>1. Stream(SetSource(v)).hook.buf > 0 => Stream(SetSource(v)).hook = v.hook
    BY <1>7, <1>8, <1>10, StreamOfSource
  <2> QED
    BY <1>7, <2>1
<1>13. /\ hist' \in History /\ ~hist'.earned /\ v.page.job = ui.page.job
       /\ Behind(srv'.status, v) /\ \A i \in Jobs : InOrder(srv'.status[i])
       /\ v.hook.time = 0 /\ "ended" \notin Queued(v) /\ (v.hook.ended => ui.hook.ended)
  BY <1>1, <1>2, <1>3, <1>7, <1>11, NothingQueued DEF History, j
<1> QED
  BY <1>2, <1>6, <1>7, <1>8, <1>10, <1>12, <1>13, ReadyStep

LEMMA NavigateFollowed ==
  ASSUME Coherent, Followed, Awaited, Navigate
  PROVE  Followed' /\ Awaited' /\ Earns
<1>1. PICK j \in (Jobs \cup {NoJob}) \ {ui.page.job}, play \in BOOLEAN :
        ui' = IF j = NoJob
              THEN [ui EXCEPT !.page = [job |-> j, loaded |-> FALSE, play |-> FALSE,
                                        known |-> Unknown]]
              ELSE Commit(ui, OpenPage(ui, j, play))
  BY DEF Navigate
<1>2. /\ ui \in UI /\ StreamOK(ui) /\ Behind(srv.status, ui)
      /\ \A i \in Jobs : InOrder(srv.status[i])
      /\ hist \in History /\ hist' = Clicked(hist) /\ srv' = srv
  BY Shape DEF Navigate, Followed
<1>3. /\ hist' \in History /\ hist'.earned = hist.earned /\ hist'.clicks # hist.clicks
  BY <1>2, ClickedFacts DEF History
<1>4. CASE j = NoJob
  <2>1. /\ ui'.store = ui.store /\ ui'.hook = ui.hook /\ ui'.events = ui.events
        /\ ui'.page.job = NoJob /\ ui'.page.loaded = FALSE
    BY <1>1, <1>2, <1>4 DEF UI
  <2>2. StreamOK(ui') /\ LoadedOK(ui') /\ Behind(srv.status, ui')
    BY <1>2, <2>1 DEF StreamOK, LoadedOK, Behind, StreamTime
  <2>3. Unheard(ui) => Unheard(ui')
    BY <2>1 DEF Unheard, Rests, Queued
  <2> QED
    BY <1>2, <1>3, <2>2, <2>3 DEF Followed, Awaited, Earns
<1>5. CASE j # NoJob
  <2> DEFINE v == OpenPage(ui, j, play)
  <2>1. j \in Jobs /\ ui' = Commit(ui, v)
    BY <1>1, <1>5
  <2>2. /\ v \in UI /\ ~v.page.loaded /\ StreamOK(v) /\ Behind(srv.status, v) /\ Ready(v)
        /\ ~v.hook.open /\ v.hook.buf = 0
    BY <1>2, <2>1, OpenPageFacts, OpenedKeepsStream
  <2> HIDE DEF v
  <2>3. PageOK(v)
    BY <2>2 DEF PageOK
  <2>4. v.hook.time = 0 /\ "ended" \notin Queued(v)
    BY <2>2, NothingQueued DEF StreamOK
  <2>5. LET s == SetSource(v)
            a == Stream(s)
        IN  a.hook.buf > 0 /\ v.store.seek # NoSeek => StreamTime(s, v.store.seek) > a.hook.buf
    <3>1. Stream(SetSource(v)).hook.buf > 0 => Stream(SetSource(v)).hook = v.hook
      BY <2>2, <2>3, StreamOfSource
    <3> QED
      BY <2>2, <3>1
  <2> QED
    BY <1>2, <1>3, <2>1, <2>2, <2>3, <2>4, <2>5, ReadyStep
<1> QED
  BY <1>4, <1>5

\* A seek of a loaded page, played at once or not.
LEMMA SoughtStep ==
  ASSUME Coherent, Followed, ui.page.loaded, NEW c \in Chunk, NEW position \in Nat,
         Aimed(ui.page.known, c, position), NEW y \in UI, y.page = ui.page,
         y.store.job = ui.store.job, y.store.terminal = ui.store.terminal,
         y.store.anchor = c, y.store.seek = position,
         (y.hook = ui.hook /\ y.events = ui.events) \/ Emptied(y),
         NEW v \in Attempts(y) \cup {y}, ui' = Commit(ui, v), srv' = srv,
         hist' \in History, hist'.earned
  PROVE  Followed' /\ Awaited' /\ Earns
<1>1. /\ ui \in UI /\ PageOK(ui) /\ StreamOK(ui) /\ LoadedOK(ui) /\ Behind(srv.status, ui)
      /\ hist \in History /\ \A i \in Jobs : InOrder(srv.status[i])
  BY Shape DEF Followed, Coherent
<1>2. /\ v \in UI /\ SameStream(y, v) /\ v.page = y.page /\ v.store = y.store
      /\ v.hook.snap.buf \in {y.hook.snap.buf, y.hook.buf}
      /\ y.hook.buf = 0 /\ y.hook.paused => v.hook.paused /\ v.events \in {y.events, <<>>}
  <2>1. CASE v = y
    BY <2>1 DEF SameStream
  <2>2. CASE v \in Attempts(y)
    <3>1. /\ v \in UI /\ SameStream(y, v) /\ v.page = y.page /\ v.store = y.store
          /\ v.hook.snap.buf \in {y.hook.snap.buf, y.hook.buf}
          /\ ~(Primed(y) /\ BufferedAhead(y)) => v = Update(y, TRUE)
      BY <2>2, AttemptsFacts
    <3>2. Gentle(y, Update(y, TRUE))
      BY UpdateFacts
    <3>3. ASSUME y.hook.buf = 0, y.hook.paused
          PROVE  v.hook.paused /\ v.events \in {y.events, <<>>}
      <4>1. ~Primed(y)
        BY <3>3 DEF Primed
      <4> QED
        BY <3>1, <3>2, <3>3, <4>1 DEF Gentle
    <3> QED
      BY <3>1, <3>3
  <2> QED
    BY <2>1, <2>2
<1>3. /\ y.hook.buf = 0 => y.hook.time = 0 /\ y.hook.paused /\ y.events = <<>>
      /\ y.hook.buf > 0 => y.hook = ui.hook /\ y.hook.open /\ y.hook.snap.buf = y.hook.buf
      /\ ~y.hook.open => y.hook.buf = 0
  BY <1>1, Fields DEF StreamOK, Emptied
<1>4. ui.page.job \in Jobs /\ ui.page.job # NoJob /\ ui.store.job = ui.page.job
  BY <1>1, JobNumbers DEF PageOK, NoJob
<1>5. PageOK(v)
  BY <1>1, <1>2 DEF PageOK
<1>6. ASSUME v.hook.buf > 0, v.hook.key = <<v.store.job, v.store.anchor>>
      PROVE  v.page.known[v.store.anchor] = "written"
  <2>1. y.hook.buf > 0 /\ y.hook = ui.hook /\ v.hook.key = ui.hook.key /\ v.store.anchor = c
    BY <1>2, <1>3, <1>6 DEF SameStream
  <2>2. ui.hook.key = <<ui.store.job, ui.store.anchor>>
    BY <1>1, <1>3, <2>1 DEF StreamOK
  <2>3. ui.store.anchor = c
    BY <1>6, <2>1, <2>2
  <2>4. ui.store.chunks >= 1 /\ ui.store.chunks = RunLength(ui.page.known, ui.store.anchor)
    BY <1>1, <2>1 DEF StreamOK, LoadedOK
  <2> QED
    BY <1>1, <1>2, <2>3, <2>4, Fields, RunStarts
<1>7. Ready(v)
  <2>1. /\ InOrder(v.page.known) /\ v.store.terminal = Terminal(v.page.known)
        /\ Aimed(v.page.known, v.store.anchor, v.store.seek)
    BY <1>1, <1>2 DEF LoadedOK
  <2>2. /\ ~v.hook.open => v.hook.buf = 0
        /\ v.hook.buf = 0 => v.hook.time = 0 /\ v.hook.paused /\ v.events = <<>>
        /\ v.hook.buf > 0 => v.hook.snap.buf = v.hook.buf
    BY <1>2, <1>3 DEF SameStream
  <2> QED
    BY <1>2, <1>4, <1>6, <2>1, <2>2 DEF Ready
<1>8. Behind(srv'.status, v)
  <2> DEFINE k == ui.page.known
             l == srv.status[ui.page.job]
  <2>1. k \in Known /\ l \in Known /\ Later(k, l)
        /\ Fits(k, ui.page.job) /\ Fits(l, ui.page.job)
    BY <1>1, <1>4, Shape DEF Coherent, TypeOK, PageOK, Known, Behind
  <2>2. Aimed(l, c, position)
    <3> HIDE DEF k, l
    <3>1. Aimed(k, c, position)
      BY DEF k
    <3> QED
      BY <1>4, <2>1, <3>1, AimedLater
  <2> QED
    BY <1>2, <1>4, <2>1, <2>2 DEF Behind
<1>9. \A i \in Jobs : InOrder(srv'.status[i])
  BY <1>1
<1> QED
  BY <1>1, <1>2, <1>5, <1>7, <1>8, <1>9, ReadyStep

LEMMA ReplayFollowed ==
  ASSUME Coherent, Followed, Awaited, Replay
  PROVE  Followed' /\ Awaited' /\ Earns
<1>1. PICK v \in Attempts(Restarted) : ui' = Commit(ui, v)
  BY DEF Replay, Restarted
<1>2. ui \in UI /\ hist \in History /\ ui.page.loaded /\ srv' = srv
  BY Shape DEF Replay
<1>3. /\ Restarted \in UI /\ Restarted.page = ui.page /\ Restarted.hook = ui.hook
      /\ Restarted.events = ui.events
      /\ Restarted.store.job = ui.store.job /\ Restarted.store.terminal = ui.store.terminal
      /\ Restarted.store.anchor = 0 /\ Restarted.store.seek = 0
  BY <1>2, RestartedFacts
<1>4. 0 \in Chunk /\ Aimed(ui.page.known, 0, 0)
  <2>1. ui.page.known \in Known /\ ui.page.known[0] # "none" /\ 0 \in Chunk
    BY <1>2, Shape, FittingStart, Chunks DEF Coherent, PageOK
  <2>2. Before(ui.page.known, 0) \in Nat
    BY <2>1, Counted
  <2> QED
    BY <2>1, <2>2 DEF Aimed
<1>5. hist' \in History /\ hist'.earned
  BY <1>2, ClickedFacts DEF Replay, History
<1> QED
  BY <1>1, <1>2, <1>3, <1>4, <1>5, SoughtStep

LEMMA SeekStepFollowed ==
  ASSUME Coherent, Followed, Awaited, ui.page.loaded,
         NEW c \in Chunk, NEW position \in 0 .. 2 * Longest,
         Aimed(ui.page.known, c, position), SeekStep(c, position)
  PROVE  Followed' /\ Awaited' /\ Earns
<1> DEFINE y == SeekFrom(c, position)
<1>1. ui \in UI /\ hist \in History /\ srv' = srv
  BY Shape DEF SeekStep
<1>2. /\ y \in UI /\ y.page = ui.page
      /\ y.store.job = ui.store.job /\ y.store.terminal = ui.store.terminal
      /\ y.store.anchor = c /\ y.store.seek = position
      /\ (y.hook = ui.hook /\ y.events = ui.events) \/ Emptied(y)
  BY <1>1, SeekFromFacts
<1>3. PICK v \in Attempts(y) \cup {y} : ui' = Commit(ui, v)
  BY DEF SeekStep
<1> HIDE DEF y
<1>4. hist' \in History /\ hist'.earned
  BY <1>1, ClickedFacts DEF SeekStep, History
<1>5. position \in Nat
  BY Chunks
<1> QED
  BY <1>1, <1>2, <1>3, <1>4, <1>5, SoughtStep

LEMMA SeekChunkFollowed ==
  ASSUME Coherent, Followed, Awaited, SeekChunk
  PROVE  Followed' /\ Awaited' /\ Earns
<1>1. PICK c \in Chunk : ui.page.known[c] # "none" /\ SeekTo(c, Before(ui.page.known, c))
  BY DEF SeekChunk
<1>2. Before(ui.page.known, c) \in 0 .. 2 * Longest
      /\ Aimed(ui.page.known, c, Before(ui.page.known, c))
  <2>1. Before(ui.page.known, c) \in 0 .. Longest /\ Longest \in Nat
    BY Shape, Counted, Chunks
  <2> QED
    BY <1>1, <2>1 DEF Aimed
<1> QED
  BY <1>1, <1>2, SeekToSteps, SeekStepFollowed DEF SeekChunk

LEMMA SkipFollowed ==
  ASSUME Coherent, Followed, Awaited, Skip
  PROVE  Followed' /\ Awaited' /\ Earns
<1>1. PICK delta \in Deltas :
        LET t == SkipTarget(ui, delta)
        IN  IF Primed(ui) THEN SkipWithin(t)
            ELSE SeekTo(ChunkAt(ui.page.known, t + ui.store.offset), t + ui.store.offset)
  BY DEF Skip
<1>2. SkipTarget(ui, delta) \in 0 .. Longest
  BY Shape, SkipTargetRange DEF Skip
<1>3. CASE Primed(ui)
  <2>1. SkipTarget(ui, delta) \in Nat
    BY <1>2
  <2> QED
    BY <1>1, <1>3, <2>1, SkipWithinFollowed
<1>4. CASE ~Primed(ui)
  <2> DEFINE position == SkipTarget(ui, delta) + ui.store.offset
  <2>1. position \in 0 .. 2 * Longest /\ position \in Nat
    <3>1. ui.store.offset \in 0 .. Longest /\ Longest \in Nat
      BY Shape, Fields
    <3> QED
      BY <1>2, <3>1
  <2>2. SeekTo(ChunkAt(ui.page.known, position), position)
    BY <1>1, <1>4
  <2> HIDE DEF position
  <2>3. /\ ui.page.loaded /\ ui.page.known \in Known /\ ui.page.job \in Jobs
        /\ Fits(ui.page.known, ui.page.job)
    BY Shape DEF Skip, Coherent, PageOK
  <2>4. /\ ChunkAt(ui.page.known, position) \in Chunk
        /\ Aimed(ui.page.known, ChunkAt(ui.page.known, position), position)
    BY <2>1, <2>3, FittingStart, ChunkAtPosition, ChunkAtAims
  <2> QED
    BY <2>1, <2>2, <2>3, <2>4, SeekToSteps, SeekStepFollowed
<1> QED
  BY <1>3, <1>4

LEMMA MiniSkipFollowed ==
  ASSUME Coherent, Followed, Awaited, MiniSkip
  PROVE  Followed' /\ Awaited' /\ Earns
<1>1. PICK delta \in Deltas : SkipWithin(SkipTarget(ui, delta))
  BY DEF MiniSkip
<1>2. SkipTarget(ui, delta) \in Nat
  BY Shape, SkipTargetRange DEF MiniSkip
<1> QED
  BY <1>1, <1>2, SkipWithinFollowed

LEMMA RevoiceFollowed ==
  ASSUME Coherent, Followed, Awaited, Revoice
  PROVE  Followed' /\ Awaited' /\ Earns
<1> DEFINE j == ui.page.job
           again == [c \in Chunk |-> IF c < Length[j] THEN "pending" ELSE "none"]
           v == Revoiced
<1>1. /\ ui.page.loaded /\ ui' = Commit(ui, Revoiced)
      /\ srv' = [srv EXCEPT !.status[j] = again]
      /\ hist' = [Clicked(hist) EXCEPT !.asked = "pause",
                    !.overrun = "play" \in {ui.events[i] : i \in DOMAIN ui.events}]
  BY DEF Revoice, Revoiced
<1>2. /\ j \in Jobs /\ ui \in UI /\ hist \in History
      /\ srv \in [status : [Jobs -> [Chunk -> Status]], saved : [Jobs -> 0 .. 2 * Longest]]
      /\ \A i \in Jobs : InOrder(srv.status[i])
  BY <1>1, Shape DEF Coherent, TypeOK, PageOK, Followed
<1>3. /\ again \in Known /\ Fits(again, j)
      /\ Revoiced \in UI /\ PageOK(Revoiced) /\ Emptied(Revoiced)
      /\ Revoiced.page.loaded /\ Revoiced.page.job = j /\ Revoiced.page.known = again
      /\ Revoiced.hook.open
      /\ Revoiced.store.job = j /\ Revoiced.store.terminal = Terminal(again)
      /\ Revoiced.store.anchor = 0 /\ Revoiced.store.seek = NoSeek
  BY <1>1, RevoicedFacts
<1>4. InOrder(again)
  <2>1. \A c \in Chunk : again[c] \in {"pending", "none"}
    OBVIOUS
  <2> HIDE DEF again
  <2> QED
    BY <2>1 DEF InOrder, Settled
<1> HIDE DEF again, v
<1>5. \A i \in Jobs : srv'.status[i] = IF i = j THEN again ELSE srv.status[i]
  BY <1>1, <1>2
<1>6. v = Revoiced
  BY DEF v
<1>7. \A i \in Jobs : InOrder(srv'.status[i])
  BY <1>2, <1>4, <1>5
<1>8. j # NoJob
  BY <1>2, JobNumbers DEF NoJob
<1> HIDE DEF j
<1>9. Ready(v)
  BY <1>3, <1>4, <1>6, <1>8 DEF Ready, Emptied
<1>10. Behind(srv'.status, v)
  BY <1>2, <1>3, <1>5, <1>6 DEF Behind, Later
<1>11. v.hook.time = 0 /\ "ended" \notin Queued(v) /\ v.store.seek = NoSeek
  BY <1>3, <1>6, NothingQueued DEF Emptied
<1>12. hist' \in History /\ hist'.clicks # hist.clicks
  <2> DEFINE k == Clicked(hist)
             o == "play" \in {ui.events[i] : i \in DOMAIN ui.events}
  <2>1. k \in History /\ k.clicks = hist.clicks + 1 /\ hist.clicks \in Nat /\ o \in BOOLEAN
    BY <1>2, ClickedFacts DEF History
  <2>2. hist' = [k EXCEPT !.asked = "pause", !.overrun = o]
    BY <1>1
  <2> HIDE DEF k, o
  <2>3. hist'.clicks = k.clicks
    BY <2>1, <2>2 DEF History
  <2>4. hist' \in History
    BY <2>1, <2>2 DEF History
  <2>5. hist.clicks + 1 # hist.clicks
    BY <2>1
  <2> QED
    BY <2>1, <2>3, <2>4, <2>5
<1> QED
  BY <1>1, <1>2, <1>3, <1>6, <1>7, <1>9, <1>10, <1>11, <1>12, ReadyStep

LEMMA PlayChunkFollowed ==
  ASSUME Coherent, Followed, Awaited, PlayChunk
  PROVE  Followed' /\ Awaited' /\ Earns
<1> DEFINE u == [ui EXCEPT !.hook.time = @ + 1]
           w == [u EXCEPT !.events = Append(@, "waiting")]
           e == [u EXCEPT !.hook.paused = TRUE, !.events = @ \o <<"pause", "ended">>]
<1>1. ui \in UI /\ hist \in History /\ ui.hook.buf \in Nat /\ ui.hook.time \in Nat
  BY Shape, Fields
<1>2. /\ ui.hook.time < ui.hook.buf /\ ui' \in {u, w, e}
      /\ hist' = [hist EXCEPT !.earned = TRUE] /\ srv' = srv
  BY DEF PlayChunk, CanPlay
<1>3. /\ u.page = ui.page /\ u.store = ui.store
      /\ u.hook.open = ui.hook.open /\ u.hook.key = ui.hook.key
      /\ u.hook.buf = ui.hook.buf /\ u.hook.snap = ui.hook.snap
  BY <1>1 DEF UI, Hook
<1>4. u.hook = [ui.hook EXCEPT !.time = @ + 1] /\ DOMAIN u = DOMAIN ui
  BY <1>1 DEF UI
<1>5. w.page = ui.page /\ w.store = ui.store /\ w.hook = u.hook
  BY <1>1 DEF UI
<1>6. /\ e.page = ui.page /\ e.store = ui.store
      /\ e.hook.open = ui.hook.open /\ e.hook.key = ui.hook.key
      /\ e.hook.buf = ui.hook.buf /\ e.hook.snap = ui.hook.snap
  BY <1>1 DEF UI, Hook
<1> HIDE DEF u, w, e
<1>7. /\ ui'.page = ui.page /\ ui'.store = ui.store
      /\ ui'.hook.open = ui.hook.open /\ ui'.hook.key = ui.hook.key
      /\ ui'.hook.buf = ui.hook.buf /\ ui'.hook.snap = ui.hook.snap
  BY <1>2, <1>3, <1>5, <1>6
<1>8. ui.hook.buf # 0
  BY <1>1, <1>2
<1>9. StreamOK(ui')
  BY <1>7, <1>8 DEF Followed, StreamOK, StreamTime
<1>10. LoadedOK(ui') /\ Behind(srv'.status, ui')
  BY <1>2, <1>7 DEF Followed, LoadedOK, Behind
<1>11. hist'.earned
  BY <1>1, <1>2 DEF History
<1> QED
  BY <1>2, <1>9, <1>10, <1>11 DEF Followed, Awaited, Earns

LEMMA FlushFollowed ==
  ASSUME Coherent, Followed, Awaited, Flush
  PROVE  Followed' /\ Awaited' /\ Earns
<1>1. ui \in UI /\ Report(ui) /\ hist' = hist
      /\ srv \in [status : [Jobs -> [Chunk -> Status]], saved : [Jobs -> 0 .. 2 * Longest]]
  BY DEF Flush, Coherent, TypeOK
<1>2. /\ srv'.status = srv.status
      /\ ui'.page = ui.page /\ ui'.store = ui.store /\ ui'.hook = ui.hook
      /\ ui'.events = ui.events
  BY <1>1, ReportFacts
<1>3. StreamOK(ui') /\ LoadedOK(ui') /\ Behind(srv.status, ui')
  BY <1>2 DEF Followed, StreamOK, LoadedOK, Behind, StreamTime
<1>4. Unheard(ui) => Unheard(ui')
  BY <1>2 DEF Unheard, Rests, Queued
<1> QED
  BY <1>1, <1>2, <1>3, <1>4 DEF Followed, Awaited, Earns

LEMMA StepFollowed ==
  ASSUME Coherent, Quieted, Followed, Awaited, [Next]_vars
  PROVE  Followed' /\ Awaited' /\ (Earns \/ UNCHANGED vars)
<1>1. CASE UNCHANGED vars
  BY <1>1 DEF vars, Followed, Awaited
<1>2. CASE \E j \in Jobs : Render(j)
  BY <1>2, RenderFollowed
<1>3. CASE Navigate \/ PressPlay \/ PressPause \/ Replay
  BY <1>3, NavigateFollowed, PressPlayFollowed, PressPauseFollowed, ReplayFollowed
<1>4. CASE SeekChunk \/ Skip \/ MiniSkip \/ Revoice \/ RetryRender
  BY <1>4, SeekChunkFollowed, SkipFollowed, MiniSkipFollowed, RevoiceFollowed,
     RetryRenderFollowed
<1>5. CASE LoadPage \/ SyncPage \/ Activated
  BY <1>5, LoadPageFollowed, SyncPageFollowed, ActivatedFollowed
<1>6. CASE AppendChunk \/ PlayChunk \/ Tick \/ Resume
  BY <1>6, AppendChunkFollowed, PlayChunkFollowed, TickFollowed, ResumeFollowed
<1>7. CASE Deliver \/ Flush
  BY <1>7, DeliverFollowed, FlushFollowed
<1> QED
  BY <1>1, <1>2, <1>3, <1>4, <1>5, <1>6, <1>7 DEF Next, System

\* The player leaves a job on its own only after something of it was played or
\* the listener moved within it: the flip of resolveAutoAdvance, run by the commit
\* that finds the hook's ended flag newly set, never follows from opening a
\* finished job, restoring a position at its end or a chunk that arrives late.
THEOREM AdvanceIsEarned == Spec => AdvanceEarned
<1>1. Init => Coherent /\ Quieted /\ Followed /\ Awaited
  BY InitCoherent, InitFollowed
<1>2. Coherent /\ Quieted /\ Followed /\ Awaited /\ [Next]_vars
      => /\ (Coherent /\ Quieted /\ Followed /\ Awaited)'
         /\ [ui'.page.job # ui.page.job /\ hist'.clicks = hist.clicks => hist'.earned]_vars
  BY StepKeeps, StepFollowed DEF Earns
<1> QED
  BY <1>1, <1>2, PTL DEF Spec, AdvanceEarned
=============================================================================
