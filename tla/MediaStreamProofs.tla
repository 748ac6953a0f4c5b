------------------------- MODULE MediaStreamProofs -------------------------
(***************************************************************************)
(* Theorems about MediaStream, for any number of chunks, streams and       *)
(* calls and any lengths and limits: unless a call of an old stream        *)
(* resumed in a newer one, the SourceBuffer holds a prefix of the stream   *)
(* and no chunk is lost.                                                   *)
(*                                                                         *)
(* The argument: what was appended, what is queued and what the window's   *)
(* cursor has passed lie end to end (Windowed), one call at a time holds   *)
(* the queue lock (Locked), and the call that appends is at the head of    *)
(* the queue (Aims).                                                       *)
(***************************************************************************)
EXTENDS MediaStream, FiniteSetTheorems, SequenceTheorems, WellFoundedInduction, TLAPS

Fields == {"gen", "key", "open", "initPending", "initDone", "initDue", "lock", "queue",
           "appended", "pending", "cursor", "backoff", "retried", "buf", "cut", "time",
           "calls", "crossed"}

StreamKey == [anchor : Nat, restart : Nat]

PCs == {"off", "initFetch", "initAppend", "fetch", "append", "recover", "evict"}

Calling == [pc : PCs, gen : Nat, key : StreamKey, on : Nat, chunk : Nat, upto : Int]

\* From the anchor a on: the chunks appended, then the queued ones, up to the
\* cursor; nothing is appended before the init segment.
Windowed(a, buf, queue, cursor, appended, pending, initDone) ==
  /\ a \in Nat /\ buf \in Seq(Nat) /\ queue \in Seq(Nat)
  /\ \A k \in 1 .. Len(buf) : buf[k] = a + k - 1
  /\ \A k \in 1 .. Len(queue) : queue[k] = a + Len(buf) + k - 1
  /\ cursor = Len(buf) + Len(queue)
  /\ appended = a .. (a + Len(buf) - 1)
  /\ pending \subseteq (a + Len(buf)) .. (a + cursor - 1)
  /\ Len(buf) > 0 \/ Len(queue) > 0 => initDone

\* Call i of stream g holds the queue lock.
Holds(i, g, calls) ==
  calls[i].gen = g /\ calls[i].pc \in {"fetch", "append", "recover", "evict"}

\* The calls of stream g, opened for key, and its lock.
Locked(g, key, lock, calls) ==
  /\ g \in Nat /\ key \in StreamKey /\ lock \in BOOLEAN /\ calls \in [Slots -> Calling]
  /\ \A i \in Slots :
       /\ calls[i].gen <= g
       /\ calls[i].gen = g /\ calls[i].pc # "off" => calls[i].key = key
       /\ calls[i].gen = g /\ calls[i].pc = "append" => calls[i].on = g
       /\ Holds(i, g, calls) => lock
  /\ \A i, k \in Slots : Holds(i, g, calls) /\ Holds(k, g, calls) => i = k

Base(s) ==
  /\ DOMAIN s = Fields /\ s.time \in Int /\ s.cut \in Int
  /\ Windowed(s.key.anchor, s.buf, s.queue, s.cursor, s.appended, s.pending, s.initDone)
  /\ Locked(s.gen, s.key, s.lock, s.calls)

\* The append loop, at work on a chunk, is at the head of the queue.
Aims(s) ==
  \A i \in Slots :
    Holds(i, s.gen, s.calls) /\ s.calls[i].pc # "evict" =>
      Len(s.queue) > 0 /\ s.calls[i].chunk = s.key.anchor + Len(s.buf)

Fine(s) == Base(s) /\ Aims(s)

Good(s) ==
  /\ DOMAIN s = Fields /\ s.crossed \in BOOLEAN
  /\ ~s.crossed => Fine(s)

IInv ==
  /\ Good(st) /\ rendered \in Nat
  /\ ~st.crossed => seek \in Int

-----------------------------------------------------------------------------
(* Numbers and orders *)

LEMMA Sizes ==
  /\ {Chunks, ChunkSeconds, Ahead, Refill, Quota, MaxStreams, MaxCalls} \subseteq Nat
  /\ ChunkSeconds > 0 /\ MaxCalls > 0
  /\ {KeepBehind, EmergencyKeep, Lookahead, SkipSeconds} \subseteq Nat
BY StreamAssumption

LEMMA LeastNumber ==
  ASSUME NEW T, T \subseteq Nat, T # {}
  PROVE  \E x \in T : \A y \in T : x <= y
<1>1. PICK x \in T : \A y \in T : ~(<<y, x>> \in OpToRel(<, Nat))
  BY NatLessThanWellFounded, WFMin
<1>2. \A y \in T : ~(y < x)
  BY <1>1 DEF OpToRel
<1> QED
  BY <1>2

LEMMA FreeSlotIsFree ==
  ASSUME NEW s, FreeSlots(s) # {}
  PROVE  FreeSlot(s) \in Slots /\ s.calls[FreeSlot(s)].pc = "off"
<1>1. FreeSlots(s) \subseteq Nat
  BY Sizes DEF FreeSlots, Slots
<1>2. \E i \in FreeSlots(s) : \A k \in FreeSlots(s) : i <= k
  BY <1>1, LeastNumber
<1>3. FreeSlot(s) \in FreeSlots(s)
  BY <1>2 DEF FreeSlot
<1> QED
  BY <1>3 DEF FreeSlots

\* An interval in ascending order.
LEMMA AscendingInterval ==
  ASSUME NEW a \in Nat, NEW b \in Int, b >= a - 1
  PROVE  /\ Ascending(a .. b) \in Seq(Nat) /\ Len(Ascending(a .. b)) = b - a + 1
         /\ \A k \in 1 .. Len(Ascending(a .. b)) : Ascending(a .. b)[k] = a + k - 1
<1>1. Cardinality(a .. b) = b - a + 1
  BY FS_Interval
<1>2. ASSUME NEW k \in 1 .. (b - a + 1)
      PROVE  (CHOOSE c \in a .. b : Cardinality({d \in a .. b : d < c}) = k - 1) = a + k - 1
  <2>1. ASSUME NEW c \in a .. b PROVE Cardinality({d \in a .. b : d < c}) = c - a
    <3>1. {d \in a .. b : d < c} = a .. (c - 1)
      OBVIOUS
    <3>2. c - 1 \in Int
      OBVIOUS
    <3>3. Cardinality(a .. (c - 1)) = IF a > c - 1 THEN 0 ELSE (c - 1) - a + 1
      BY <3>2, FS_Interval
    <3>4. c \in Int /\ a <= c
      OBVIOUS
    <3>5. (IF a > c - 1 THEN 0 ELSE (c - 1) - a + 1) = c - a
      BY <3>4
    <3> QED
      BY <3>1, <3>3, <3>5
  <2>2. \A c \in a .. b : Cardinality({d \in a .. b : d < c}) = k - 1 <=> c = a + k - 1
    BY <2>1
  <2>3. a + k - 1 \in a .. b
    OBVIOUS
  <2> QED
    BY <2>2, <2>3
<1>3. Ascending(a .. b) = [k \in 1 .. (b - a + 1) |-> a + k - 1]
  BY <1>1, <1>2 DEF Ascending
<1>4. b - a + 1 \in Nat
  OBVIOUS
<1> QED
  BY <1>3, <1>4

-----------------------------------------------------------------------------
(* Calls and the lock *)

LEMMA IdleCalling == Idle \in Calling /\ Idle.pc = "off" /\ Idle.gen = 0
BY DEF Idle, Calling, PCs, FirstKey, StreamKey

\* A call starts and takes the lock.
LEMMA CallTakes ==
  ASSUME NEW g, NEW key, NEW lock, NEW calls, Locked(g, key, lock, calls),
         \A k \in Slots : ~Holds(k, g, calls),
         NEW i \in Slots, NEW c \in Calling, c.gen = g, c.key = key,
         c.pc = "append" => c.on = g
  PROVE  Locked(g, key, TRUE, [calls EXCEPT ![i] = c])
BY DEF Locked, Holds

\* The call that holds the lock goes on.
LEMMA CallPasses ==
  ASSUME NEW g, NEW key, NEW lock, NEW calls, Locked(g, key, lock, calls),
         NEW i \in Slots, Holds(i, g, calls), NEW c \in Calling, c.gen = g, c.key = key,
         c.pc = "append" => c.on = g
  PROVE  Locked(g, key, lock, [calls EXCEPT ![i] = c])
BY DEF Locked, Holds

\* It ends and gives the lock back.
LEMMA CallEnds ==
  ASSUME NEW g, NEW key, NEW lock, NEW calls, Locked(g, key, lock, calls),
         NEW i \in Slots, Holds(i, g, calls)
  PROVE  /\ Locked(g, key, FALSE, [calls EXCEPT ![i] = Idle])
         /\ \A k \in Slots : ~Holds(k, g, [calls EXCEPT ![i] = Idle])
<1>1. \A k \in Slots : Holds(k, g, calls) => k = i
  BY DEF Locked
<1>2. calls \in [Slots -> Calling] /\ g \in Nat
  BY DEF Locked
<1> DEFINE f == [calls EXCEPT ![i] = Idle]
<1>3. f \in [Slots -> Calling] /\ \A k \in Slots : f[k] = IF k = i THEN Idle ELSE calls[k]
  BY <1>2, IdleCalling
<1> HIDE DEF f
<1>4. \A k \in Slots : ~Holds(k, g, f)
  BY <1>1, <1>3, IdleCalling DEF Holds
<1>5. \A k \in Slots : /\ f[k].gen <= g
                       /\ f[k].gen = g /\ f[k].pc # "off" => f[k].key = key
                       /\ f[k].gen = g /\ f[k].pc = "append" => f[k].on = g
  BY <1>2, <1>3, IdleCalling DEF Locked
<1>6. Locked(g, key, FALSE, f)
  <2>1. key \in StreamKey
    BY DEF Locked
  <2> QED
    BY <1>2, <1>3, <1>4, <1>5, <2>1 DEF Locked
<1> QED
  BY <1>4, <1>6 DEF f

\* A call that has nothing to do with the lock changes.
LEMMA CallElse ==
  ASSUME NEW g, NEW key, NEW lock, NEW calls, Locked(g, key, lock, calls),
         NEW i \in Slots, ~Holds(i, g, calls), NEW c \in Calling, c.gen <= g,
         c.gen = g /\ c.pc # "off" => c.key = key, c.pc \in {"off", "initFetch", "initAppend"}
  PROVE  /\ Locked(g, key, lock, [calls EXCEPT ![i] = c])
         /\ \A k \in Slots : /\ Holds(k, g, [calls EXCEPT ![i] = c]) <=> Holds(k, g, calls)
                             /\ Holds(k, g, calls) => [calls EXCEPT ![i] = c][k] = calls[k]
<1>1. calls \in [Slots -> Calling]
  BY DEF Locked
<1>2. \A k \in Slots : [calls EXCEPT ![i] = c][k] = IF k = i THEN c ELSE calls[k]
  BY <1>1
<1>3. \A k \in Slots : /\ Holds(k, g, [calls EXCEPT ![i] = c]) <=> Holds(k, g, calls)
                       /\ Holds(k, g, calls) => [calls EXCEPT ![i] = c][k] = calls[k]
  BY <1>2 DEF Holds
<1>4. [calls EXCEPT ![i] = c] \in [Slots -> Calling]
  BY <1>1
<1> HIDE DEF Holds
<1> QED
  BY <1>2, <1>3, <1>4 DEF Locked

-----------------------------------------------------------------------------
(* Streams *)

\* The invariant depends on these fields only.
LEMMA BaseFrame ==
  ASSUME NEW s, Base(s), NEW t, DOMAIN t = Fields,
         t.gen = s.gen, t.key = s.key, t.lock = s.lock, t.queue = s.queue,
         t.appended = s.appended, t.pending = s.pending, t.cursor = s.cursor,
         t.buf = s.buf, t.calls = s.calls, s.initDone => t.initDone,
         t.time \in Int, t.cut \in Int
  PROVE  Base(t)
BY DEF Base, Windowed

LEMMA Frame ==
  ASSUME NEW s, Fine(s), NEW t, DOMAIN t = Fields,
         t.gen = s.gen, t.key = s.key, t.lock = s.lock, t.queue = s.queue,
         t.appended = s.appended, t.pending = s.pending, t.cursor = s.cursor,
         t.buf = s.buf, t.calls = s.calls, s.initDone => t.initDone,
         t.time \in Int, t.cut \in Int
  PROVE  Fine(t)
<1>1. Base(t)
  BY BaseFrame DEF Fine
<1> QED
  BY <1>1 DEF Fine, Aims

\* The same window, another state of the calls.
LEMMA CallFrame ==
  ASSUME NEW s, Base(s), NEW t, DOMAIN t = Fields,
         t.key = s.key, t.queue = s.queue, t.appended = s.appended, t.pending = s.pending,
         t.cursor = s.cursor, t.buf = s.buf, t.initDone = s.initDone,
         t.time = s.time, t.cut = s.cut, Locked(t.gen, t.key, t.lock, t.calls)
  PROVE  Base(t)
BY DEF Base

\* The lock is taken, or there is a slot for a new call.
Unlocks(s) == s.lock \/ FreeSlots(s) # {}

LEMMA EvictFine ==
  ASSUME NEW s, Fine(s), Unlocks(s)
  PROVE  Fine(Evict(s))
<1> DEFINE end == EvictionEnd(s, KeepBehind)
           i == FreeSlot(s)
           c == [Idle EXCEPT !.pc = "evict", !.gen = s.gen, !.key = s.key, !.on = s.gen,
                             !.upto = end]
           t == [s EXCEPT !.calls = [s.calls EXCEPT ![i] = c], !.lock = TRUE]
<1>1. CASE ~s.open \/ Updating(s) \/ s.lock \/ end = 0
  BY <1>1 DEF Evict
<1>2. CASE ~(~s.open \/ Updating(s) \/ s.lock \/ end = 0)
  <2>1. i \in Slots /\ s.calls[i].pc = "off"
    BY <1>2, FreeSlotIsFree DEF Unlocks
  <2>2. Locked(s.gen, s.key, s.lock, s.calls) /\ DOMAIN s = Fields
    BY DEF Fine, Base
  <2>3. s.calls \in [Slots -> Calling] /\ s.gen \in Nat /\ s.key \in StreamKey
    BY <2>2 DEF Locked
  <2>4. end \in Int
    BY Sizes DEF EvictionEnd, Fine, Base
  <2> HIDE DEF end
  <2>6. c \in Calling /\ c.gen = s.gen /\ c.key = s.key /\ c.pc = "evict"
    BY <2>3, <2>4, IdleCalling DEF Calling, PCs
  <2>7. Evict(s) = t
    <3>1. [Begin(s, i, "evict") EXCEPT !.calls[i].upto = end, !.lock = TRUE] = t
      BY <2>1, <2>2, <2>3 DEF Begin, Fields, Idle
    <3> QED
      BY <1>2, <3>1 DEF Evict, end
  <2> HIDE DEF c, i
  <2>8. /\ DOMAIN t = Fields /\ t.lock = TRUE /\ t.calls = [s.calls EXCEPT ![i] = c]
        /\ t.gen = s.gen /\ t.key = s.key /\ t.queue = s.queue /\ t.appended = s.appended
        /\ t.pending = s.pending /\ t.cursor = s.cursor /\ t.buf = s.buf
        /\ t.initDone = s.initDone /\ t.time = s.time /\ t.cut = s.cut
    BY <2>2 DEF Fields
  <2>9. Locked(t.gen, t.key, t.lock, t.calls)
    <3>1. \A k \in Slots : ~Holds(k, s.gen, s.calls)
      BY <1>2, <2>2 DEF Locked
    <3>2. Locked(s.gen, s.key, TRUE, [s.calls EXCEPT ![i] = c])
      <4>1. c.pc = "append" => c.on = s.gen
        BY <2>6
      <4> QED
        BY <2>1, <2>2, <2>6, <3>1, <4>1, CallTakes
    <3> QED
      BY <2>8, <3>2
  <2> HIDE DEF t
  <2>10. Base(t)
    BY <2>8, <2>9, CallFrame DEF Fine
  <2>11. \A k \in Slots : Holds(k, t.gen, t.calls) => k = i
    BY <1>2, <2>1, <2>2, <2>3, <2>8 DEF Locked, Holds
  <2>12. Aims(t)
    BY <2>1, <2>3, <2>6, <2>8, <2>11 DEF Aims
  <2> QED
    BY <2>7, <2>10, <2>12 DEF Fine
<1> QED
  BY <1>1, <1>2

\* The lock is given back by the call that holds it.
LEMMA ReleaseFine ==
  ASSUME NEW s, Base(s), NEW i \in Slots, Holds(i, s.gen, s.calls)
  PROVE  Fine(Release(s, i))
<1> DEFINE t == [s EXCEPT !.calls[i] = Idle, !.lock = FALSE]
<1>1. Locked(s.gen, s.key, s.lock, s.calls) /\ DOMAIN s = Fields
  BY DEF Base
<1>2. s.calls \in [Slots -> Calling]
  BY <1>1 DEF Locked
<1>3. /\ DOMAIN t = Fields /\ t.lock = FALSE /\ t.calls = [s.calls EXCEPT ![i] = Idle]
      /\ t.gen = s.gen /\ t.key = s.key /\ t.queue = s.queue /\ t.appended = s.appended
      /\ t.pending = s.pending /\ t.cursor = s.cursor /\ t.buf = s.buf
      /\ t.initDone = s.initDone /\ t.time = s.time /\ t.cut = s.cut
  BY <1>1 DEF Fields
<1> HIDE DEF t
<1>4. /\ Locked(t.gen, t.key, t.lock, t.calls)
      /\ \A k \in Slots : ~Holds(k, t.gen, t.calls)
  <2>1. /\ Locked(s.gen, s.key, FALSE, [s.calls EXCEPT ![i] = Idle])
        /\ \A k \in Slots : ~Holds(k, s.gen, [s.calls EXCEPT ![i] = Idle])
    BY <1>1, CallEnds
  <2> QED
    BY <1>3, <2>1
<1>5. Base(t)
  BY <1>3, <1>4, CallFrame
<1>6. Fine(t)
  BY <1>4, <1>5 DEF Fine, Aims
<1>7. i \in FreeSlots(t)
  BY <1>2, <1>3, IdleCalling DEF FreeSlots
<1>8. Fine(Evict(t))
  BY <1>6, <1>7, EvictFine DEF Unlocks
<1> QED
  BY <1>8 DEF Release, t

\* It may take the next chunk of the queue instead.
LEMMA NextInQueueFine ==
  ASSUME NEW s, Base(s), NEW i \in Slots, Holds(i, s.gen, s.calls)
  PROVE  Fine(NextInQueue(s, i))
<1>1. Locked(s.gen, s.key, s.lock, s.calls) /\ DOMAIN s = Fields
  BY DEF Base
<1>2. /\ s.calls \in [Slots -> Calling] /\ s.calls[i].key = s.key
      /\ s.gen \in Nat /\ s.key \in StreamKey /\ s.calls[i].gen = s.gen
  BY <1>1 DEF Locked, Holds
<1>3. CASE s.queue = <<>>
  BY <1>3, ReleaseFine DEF NextInQueue
<1>4. CASE s.queue # <<>>
  <2> DEFINE c == [s.calls[i] EXCEPT !.pc = "fetch", !.chunk = Head(s.queue)]
             t == [s EXCEPT !.calls = [s.calls EXCEPT ![i] = c]]
  <2>1. /\ s.queue \in Seq(Nat) /\ Len(s.queue) > 0
        /\ Head(s.queue) = s.key.anchor + Len(s.buf) /\ Head(s.queue) \in Nat
    <3>1. /\ s.queue \in Seq(Nat) /\ s.buf \in Seq(Nat) /\ s.key.anchor \in Nat
          /\ \A k \in 1 .. Len(s.queue) : s.queue[k] = s.key.anchor + Len(s.buf) + k - 1
      BY DEF Base, Windowed
    <3>2. Len(s.queue) > 0 /\ Head(s.queue) = s.queue[1]
      BY <1>4, <3>1
    <3>3. 1 \in 1 .. Len(s.queue) /\ Len(s.buf) \in Nat
      BY <3>1, <3>2
    <3>4. s.queue[1] = s.key.anchor + Len(s.buf) + 1 - 1
      BY <3>1, <3>3
    <3> QED
      BY <3>1, <3>2, <3>3, <3>4
  <2>2. /\ c \in Calling /\ c.gen = s.gen /\ c.key = s.key /\ c.pc = "fetch"
        /\ c.chunk = s.key.anchor + Len(s.buf)
    BY <1>2, <2>1 DEF Calling, PCs
  <2>3. NextInQueue(s, i) = t
    <3>1. [s EXCEPT !.calls[i].pc = "fetch", !.calls[i].chunk = Head(s.queue)] = t
      BY <1>1, <1>2 DEF Fields, Calling
    <3> QED
      BY <1>2, <1>4, <3>1 DEF NextInQueue
  <2> HIDE DEF c
  <2>4. /\ DOMAIN t = Fields /\ t.lock = s.lock /\ t.calls = [s.calls EXCEPT ![i] = c]
        /\ t.gen = s.gen /\ t.key = s.key /\ t.queue = s.queue /\ t.appended = s.appended
        /\ t.pending = s.pending /\ t.cursor = s.cursor /\ t.buf = s.buf
        /\ t.initDone = s.initDone /\ t.time = s.time /\ t.cut = s.cut
    BY <1>1 DEF Fields
  <2> HIDE DEF t
  <2>5. Locked(t.gen, t.key, t.lock, t.calls)
    BY <1>1, <2>2, <2>4, CallPasses
  <2>6. Base(t)
    BY <2>4, <2>5, CallFrame
  <2>7. Holds(i, t.gen, t.calls) /\ t.calls[i].chunk = s.key.anchor + Len(s.buf)
    BY <1>2, <2>2, <2>4 DEF Holds
  <2>8. \A k \in Slots : Holds(k, t.gen, t.calls) => k = i
    BY <2>5, <2>7 DEF Locked
  <2>9. Aims(t)
    BY <2>1, <2>4, <2>7, <2>8 DEF Aims
  <2> QED
    BY <2>3, <2>6, <2>9 DEF Fine
<1> QED
  BY <1>3, <1>4

\* The loop is started for a queue that is not empty.
LEMMA ProcessQueueFine ==
  ASSUME NEW s, Fine(s), Unlocks(s), s.queue # <<>>
  PROVE  Fine(ProcessQueue(s)) /\ Unlocks(ProcessQueue(s))
<1> DEFINE i == FreeSlot(s)
           b == [Begin(s, i, "fetch") EXCEPT !.lock = TRUE]
           c == [Idle EXCEPT !.pc = "fetch", !.gen = s.gen, !.key = s.key, !.on = s.gen]
<1>1. CASE s.lock \/ ~s.open
  BY <1>1 DEF ProcessQueue
<1>2. CASE ~(s.lock \/ ~s.open)
  <2>1. i \in Slots /\ s.calls[i].pc = "off"
    BY <1>2, FreeSlotIsFree DEF Unlocks
  <2>2. Locked(s.gen, s.key, s.lock, s.calls) /\ DOMAIN s = Fields /\ Base(s)
    BY DEF Fine, Base
  <2>3. s.calls \in [Slots -> Calling] /\ s.gen \in Nat /\ s.key \in StreamKey
    BY <2>2 DEF Locked
  <2>4. c \in Calling /\ c.gen = s.gen /\ c.key = s.key /\ c.pc = "fetch"
    BY <2>3, IdleCalling DEF Calling, PCs
  <2>5. b = [s EXCEPT !.calls = [s.calls EXCEPT ![i] = c], !.lock = TRUE]
    BY <2>2 DEF Begin, Fields
  <2> HIDE DEF c, i
  <2>6. /\ DOMAIN b = Fields /\ b.lock = TRUE /\ b.calls = [s.calls EXCEPT ![i] = c]
        /\ b.gen = s.gen /\ b.key = s.key /\ b.queue = s.queue /\ b.appended = s.appended
        /\ b.pending = s.pending /\ b.cursor = s.cursor /\ b.buf = s.buf
        /\ b.initDone = s.initDone /\ b.time = s.time /\ b.cut = s.cut
    BY <2>2, <2>5 DEF Fields
  <2> HIDE DEF b
  <2>7. Locked(b.gen, b.key, b.lock, b.calls)
    <3>1. \A k \in Slots : ~Holds(k, s.gen, s.calls)
      BY <1>2, <2>2 DEF Locked
    <3>2. c.pc = "append" => c.on = s.gen
      BY <2>4
    <3>3. Locked(s.gen, s.key, TRUE, [s.calls EXCEPT ![i] = c])
      BY <2>1, <2>2, <2>4, <3>1, <3>2, CallTakes
    <3> QED
      BY <2>6, <3>3
  <2>8. Base(b)
    BY <2>2, <2>6, <2>7, CallFrame
  <2>9. Holds(i, b.gen, b.calls)
    BY <2>1, <2>3, <2>4, <2>6 DEF Holds
  <2>10. Fine(NextInQueue(b, i))
    BY <2>1, <2>8, <2>9, NextInQueueFine
  <2>11. ProcessQueue(s) = NextInQueue(b, i)
    BY <1>2 DEF ProcessQueue, b, i
  <2>12. NextInQueue(b, i).lock
    <3>1. b.calls[i].key = b.key
      BY <2>1, <2>3, <2>4, <2>6
    <3>2. NextInQueue(b, i) = [b EXCEPT !.calls[i].pc = "fetch", !.calls[i].chunk = Head(b.queue)]
      BY <2>6, <3>1 DEF NextInQueue
    <3> QED
      BY <2>6, <3>2 DEF Fields
  <2> QED
    BY <2>10, <2>11, <2>12 DEF Unlocks
<1> QED
  BY <1>1, <1>2

-----------------------------------------------------------------------------
(* Filling the window *)

LEMMA StopIsInt ==
  ASSUME NEW s, Base(s), rendered \in Nat, seek \in Int
  PROVE  Smaller(InManifest(s), (AppendWindowEnd(s) + ChunkSeconds - 1) \div ChunkSeconds) \in Int
<1>1. AppendWindowEnd(s) \in Int
  BY Sizes DEF AppendWindowEnd, Larger, Base
<1>2. InManifest(s) \in Int
  BY DEF InManifest, Larger, Base, Windowed
<1>3. ChunkSeconds \in Nat /\ ChunkSeconds > 0
  BY Sizes
<1>4. (AppendWindowEnd(s) + ChunkSeconds - 1) \div ChunkSeconds \in Int
  BY <1>1, <1>3
<1> QED
  BY <1>2, <1>4 DEF Smaller

\* s after its window was filled, before a loop is started.
Filled(s, f) ==
  /\ Base(f) /\ f.calls = s.calls /\ f.gen = s.gen /\ f.key = s.key /\ f.lock = s.lock
  /\ s.queue = <<>>

\* What the cursor passes is queued: all of it is new.
LEMMA FillCases ==
  ASSUME NEW s, Base(s), rendered \in Nat, seek \in Int
  PROVE  \/ Fill(s) = s
         \/ \E f : Filled(s, f) /\ \/ Fill(s) = f
                                   \/ Fill(s) = ProcessQueue(f) /\ f.queue # <<>>
<1> DEFINE stop == Smaller(InManifest(s), (AppendWindowEnd(s) + ChunkSeconds - 1) \div ChunkSeconds)
           fresh == ((s.key.anchor + s.cursor) .. (s.key.anchor + stop - 1))
                      \ (s.appended \cup s.pending)
           f == [s EXCEPT !.queue = Ascending(fresh), !.pending = @ \cup fresh,
                          !.cursor = Larger(@, stop)]
<1>1. CASE ~s.initDone \/ s.queue # <<>> \/ s.backoff \/ ~NeedsWindowFill(s)
  BY <1>1 DEF Fill
<1>2. CASE ~(~s.initDone \/ s.queue # <<>> \/ s.backoff \/ ~NeedsWindowFill(s))
  <2>1. Fill(s) = IF fresh = {} THEN f ELSE ProcessQueue(f)
    BY <1>2 DEF Fill
  <2>2. stop \in Int
    BY StopIsInt
  <2>3. Len(s.queue) = 0 /\ s.initDone
    BY <1>2
  <2> HIDE DEF stop
  <2> DEFINE a == s.key.anchor
             n == Len(s.buf)
  <2>4. DOMAIN s = Fields /\ Windowed(a, s.buf, s.queue, s.cursor, s.appended, s.pending, s.initDone)
    BY DEF Base
  <2>5. /\ a \in Nat /\ n \in Nat /\ s.cursor = n /\ s.appended = a .. (a + n - 1)
        /\ s.buf \in Seq(Nat) /\ s.pending = {}
    <3>1. a \in Nat /\ s.buf \in Seq(Nat) /\ s.cursor = n + Len(s.queue) /\ Len(s.queue) = 0
      BY <2>4, <2>3 DEF Windowed
    <3>2. s.pending \subseteq (a + n) .. (a + n - 1)
      BY <2>4, <3>1 DEF Windowed
    <3>3. n \in Nat
      BY <3>1
    <3>4. (a + n) .. (a + n - 1) = {}
      BY <3>1, <3>3
    <3> QED
      BY <2>4, <3>1, <3>2, <3>3, <3>4 DEF Windowed
  <2> DEFINE b == IF stop > n THEN a + stop - 1 ELSE a + n - 1
  <2>6. s.key.anchor = a /\ Len(s.buf) = n
    OBVIOUS
  <2> HIDE DEF a, n
  <2>7. b \in Int /\ b >= (a + n) - 1 /\ a + n \in Nat
    BY <2>5, <2>2
  <2>8. fresh = (a + n) .. b
    <3>1. fresh = ((a + n) .. (a + stop - 1)) \ (a .. (a + n - 1))
      BY <2>6, <2>5
    <3> QED
      BY <2>5, <2>2, <3>1
  <2> HIDE DEF b, fresh
  <2>9. /\ Ascending(fresh) \in Seq(Nat) /\ Len(Ascending(fresh)) = b - (a + n) + 1
        /\ \A k \in 1 .. Len(Ascending(fresh)) : Ascending(fresh)[k] = (a + n) + k - 1
    <3>1. /\ Ascending((a + n) .. b) \in Seq(Nat)
          /\ Len(Ascending((a + n) .. b)) = b - (a + n) + 1
          /\ \A k \in 1 .. Len(Ascending((a + n) .. b)) :
               Ascending((a + n) .. b)[k] = (a + n) + k - 1
      BY <2>7, AscendingInterval
    <3> QED
      BY <2>8, <3>1
  <2>10. /\ DOMAIN f = Fields /\ f.lock = s.lock /\ f.calls = s.calls
        /\ f.gen = s.gen /\ f.key = s.key /\ f.queue = Ascending(fresh) /\ f.appended = s.appended
        /\ f.pending = fresh /\ f.cursor = Larger(n, stop) /\ f.buf = s.buf
        /\ f.initDone = s.initDone /\ f.time = s.time /\ f.cut = s.cut
    BY <2>4, <2>5 DEF Fields
  <2>11. Larger(n, stop) = n + Len(Ascending(fresh)) /\ b = a + Larger(n, stop) - 1
    BY <2>5, <2>2, <2>9 DEF Larger, b
  <2>12. Windowed(a, s.buf, Ascending(fresh), Larger(n, stop), s.appended, fresh, s.initDone)
    <3>1. \A k \in 1 .. Len(Ascending(fresh)) : Ascending(fresh)[k] = a + Len(s.buf) + k - 1
      BY <2>6, <2>9
    <3>2. fresh \subseteq (a + Len(s.buf)) .. (a + Larger(n, stop) - 1)
      BY <2>6, <2>8, <2>11
    <3>3. Larger(n, stop) = Len(s.buf) + Len(Ascending(fresh))
      BY <2>6, <2>11
    <3> QED
      BY <2>6, <2>4, <2>5, <2>9, <2>3, <3>1, <3>2, <3>3 DEF Windowed
  <2>13. Base(f)
    BY <2>6, <2>4, <2>10, <2>12 DEF Base
  <2>14. fresh # {} => Ascending(fresh) # <<>>
    <3>1. fresh # {} => Len(Ascending(fresh)) > 0
      BY <2>5, <2>8, <2>7, <2>9
    <3> QED
      BY <3>1
  <2> QED
    BY <2>1, <2>10, <2>13, <2>14, <1>2 DEF Filled
<1> QED
  BY <1>1, <1>2

LEMMA FillFine ==
  ASSUME NEW s, Fine(s), Unlocks(s), rendered \in Nat, seek \in Int
  PROVE  Fine(Fill(s)) /\ Unlocks(Fill(s))
<1>1. ASSUME NEW f, Filled(s, f) PROVE Fine(f) /\ Unlocks(f)
  <2>1. \A i \in Slots : Holds(i, s.gen, s.calls) => s.calls[i].pc = "evict"
    <3>1. s.queue = <<>>
      BY <1>1 DEF Filled
    <3> QED
      BY <3>1 DEF Fine, Aims
  <2> QED
    BY <1>1, <2>1 DEF Filled, Fine, Aims, Unlocks, FreeSlots
<1>2. \/ Fill(s) = s
      \/ \E f : Filled(s, f) /\ \/ Fill(s) = f
                                \/ Fill(s) = ProcessQueue(f) /\ f.queue # <<>>
  BY FillCases DEF Fine
<1> QED
  BY <1>1, <1>2, ProcessQueueFine

\* Within the loop, which holds the lock, nothing is started.
LEMMA FillLocked ==
  ASSUME NEW s, Base(s), s.lock, rendered \in Nat, seek \in Int
  PROVE  /\ Base(Fill(s)) /\ Fill(s).calls = s.calls /\ Fill(s).gen = s.gen /\ Fill(s).lock
         /\ Fill(s).key = s.key
<1>1. ASSUME NEW f, Filled(s, f) PROVE ProcessQueue(f) = f
  BY <1>1 DEF Filled, ProcessQueue
<1> QED
  BY <1>1, FillCases DEF Filled

LEMMA MaintainFine ==
  ASSUME NEW s, Fine(s), Unlocks(s), rendered \in Nat, seek \in Int
  PROVE  Fine(Maintain(s))
BY FillFine, EvictFine DEF Maintain

LEMMA MaintainLocked ==
  ASSUME NEW s, Base(s), s.lock, rendered \in Nat, seek \in Int
  PROVE  /\ Base(Maintain(s)) /\ Maintain(s).calls = s.calls /\ Maintain(s).gen = s.gen
BY FillLocked DEF Maintain, Evict

-----------------------------------------------------------------------------
(* Failures and restarts *)

\* The loop's own call, at work on the head of the queue.
AtHead(s, i) ==
  /\ Holds(i, s.gen, s.calls) /\ s.calls[i].key = s.key
  /\ s.calls[i].chunk = s.key.anchor + Len(s.buf)

LEMMA LoopAtHead ==
  ASSUME NEW s, Fine(s), NEW i \in Slots, Holds(i, s.gen, s.calls), s.calls[i].pc # "evict"
  PROVE  AtHead(s, i) /\ Len(s.queue) > 0
BY DEF Fine, Base, Locked, Aims, AtHead, Holds

\* The queue is forgotten and the cursor goes back to where it began.
LEMMA DropQueueFine ==
  ASSUME NEW s, Base(s), NEW i \in Slots, AtHead(s, i)
  PROVE  Fine(DropQueue(s, i))
<1> DEFINE t == [s EXCEPT !.pending = @ \ {s.queue[k] : k \in DOMAIN s.queue},
                          !.queue = <<>>,
                          !.cursor = s.calls[i].chunk - s.calls[i].key.anchor,
                          !.backoff = TRUE]
           n == Len(s.buf)
           a == s.key.anchor
           q == Len(s.queue)
<1>1. /\ DOMAIN s = Fields /\ Locked(s.gen, s.key, s.lock, s.calls)
      /\ s.time \in Int /\ s.cut \in Int
      /\ Windowed(a, s.buf, s.queue, s.cursor, s.appended, s.pending, s.initDone)
  BY DEF Base
<1>0. Len(s.buf) = n /\ s.key.anchor = a /\ Len(s.queue) = q
  OBVIOUS
<1> HIDE DEF a, n, q
<1>2. /\ a \in Nat /\ n \in Nat /\ q \in Nat /\ DOMAIN s.queue = 1 .. q
      /\ \A k \in 1 .. q : s.queue[k] = a + n + k - 1
      /\ s.pending \subseteq (a + n) .. (a + (n + q) - 1)
  <2>1. /\ a \in Nat /\ s.buf \in Seq(Nat) /\ s.queue \in Seq(Nat) /\ s.cursor = n + q
        /\ s.pending \subseteq (a + n) .. (a + s.cursor - 1)
        /\ \A k \in 1 .. q : s.queue[k] = a + n + k - 1
    BY <1>0, <1>1 DEF Windowed
  <2>2. n \in Nat /\ q \in Nat /\ DOMAIN s.queue = 1 .. q
    BY <1>0, <2>1
  <2> QED
    BY <2>1, <2>2
<1>3. s.pending \ {s.queue[k] : k \in DOMAIN s.queue} = {}
  <2>1. ASSUME NEW c \in s.pending PROVE c \in {s.queue[k] : k \in DOMAIN s.queue}
    <3> DEFINE k == c - (a + n) + 1
    <3>1. c \in (a + n) .. (a + (n + q) - 1)
      BY <1>2
    <3>2. k \in 1 .. q /\ a + n + k - 1 = c
      BY <1>2, <3>1
    <3> HIDE DEF k
    <3>3. s.queue[k] = c
      BY <1>2, <3>2
    <3> QED
      BY <1>2, <3>2, <3>3
  <2> QED
    BY <2>1
<1>4. s.calls[i].chunk - s.calls[i].key.anchor = n
  BY <1>0, <1>2 DEF AtHead
<1>5. /\ DOMAIN t = Fields /\ t.lock = s.lock /\ t.calls = s.calls
      /\ t.gen = s.gen /\ t.key = s.key /\ t.queue = <<>> /\ t.appended = s.appended
      /\ t.pending = {} /\ t.cursor = n /\ t.buf = s.buf
      /\ t.initDone = s.initDone /\ t.time = s.time /\ t.cut = s.cut
  BY <1>1, <1>3, <1>4 DEF Fields
<1> HIDE DEF t
<1>6. Windowed(a, s.buf, <<>>, n, s.appended, {}, s.initDone)
  <2>1. Len(<<>>) = 0 /\ <<>> \in Seq(Nat) /\ n = n + 0
    BY <1>2
  <2> QED
    BY <1>0, <1>1, <1>2, <2>1 DEF Windowed
<1>7. Base(t)
  BY <1>0, <1>1, <1>5, <1>6 DEF Base
<1>8. Holds(i, t.gen, t.calls)
  BY <1>5 DEF AtHead
<1> QED
  BY <1>7, <1>8, ReleaseFine DEF DropQueue, t

\* The catch clause: forget the queue, or make room and try again.
LEMMA CaughtFine ==
  ASSUME NEW s, Base(s), NEW i \in Slots, AtHead(s, i), Len(s.queue) > 0, NEW isQuota
  PROVE  Fine(Caught(s, i, isQuota))
<1> DEFINE c == s.calls[i].chunk
           off == [s EXCEPT !.pending = @ \ {c}]
           end == EvictionEnd(s, EmergencyKeep)
           tried == [off EXCEPT !.retried = @ \cup {c}]
           call == [s.calls[i] EXCEPT !.pc = "recover", !.on = s.gen, !.upto = end]
           t == [tried EXCEPT !.calls = [s.calls EXCEPT ![i] = call]]
<1>1. /\ DOMAIN s = Fields /\ Locked(s.gen, s.key, s.lock, s.calls)
      /\ s.time \in Int /\ s.cut \in Int
      /\ Windowed(s.key.anchor, s.buf, s.queue, s.cursor, s.appended, s.pending, s.initDone)
  BY DEF Base
<1>2. /\ s.calls \in [Slots -> Calling] /\ s.gen \in Nat /\ s.key \in StreamKey
      /\ s.calls[i].gen = s.gen
  BY <1>1 DEF Locked, AtHead, Holds
<1>3. /\ DOMAIN tried = Fields /\ tried.lock = s.lock /\ tried.calls = s.calls
      /\ tried.gen = s.gen /\ tried.key = s.key /\ tried.queue = s.queue
      /\ tried.appended = s.appended /\ tried.pending = s.pending \ {c}
      /\ tried.cursor = s.cursor /\ tried.buf = s.buf /\ tried.initDone = s.initDone
      /\ tried.time = s.time /\ tried.cut = s.cut
  BY <1>1 DEF Fields
<1>4. /\ DOMAIN off = Fields /\ off.lock = s.lock /\ off.calls = s.calls
      /\ off.gen = s.gen /\ off.key = s.key /\ off.queue = s.queue
      /\ off.appended = s.appended /\ off.pending = s.pending \ {c}
      /\ off.cursor = s.cursor /\ off.buf = s.buf /\ off.initDone = s.initDone
      /\ off.time = s.time /\ off.cut = s.cut
  BY <1>1 DEF Fields
<1>5. Windowed(s.key.anchor, s.buf, s.queue, s.cursor, s.appended, s.pending \ {c}, s.initDone)
  BY <1>1 DEF Windowed
<1>6. CASE ~isQuota \/ c \in s.retried
  <2>1. Base(off) /\ AtHead(off, i)
    BY <1>1, <1>4, <1>5 DEF Base, AtHead
  <2>2. Caught(s, i, isQuota) = DropQueue(off, i)
    BY <1>6 DEF Caught
  <2> QED
    BY <2>1, <2>2, DropQueueFine
<1>7. CASE ~(~isQuota \/ c \in s.retried) /\ (~s.open \/ Updating(s) \/ end = 0)
  <2>1. Base(tried) /\ AtHead(tried, i)
    BY <1>1, <1>3, <1>5 DEF Base, AtHead
  <2>2. Caught(s, i, isQuota) = DropQueue(tried, i)
    BY <1>7 DEF Caught
  <2> QED
    BY <2>1, <2>2, DropQueueFine
<1>8. CASE ~(~isQuota \/ c \in s.retried) /\ ~(~s.open \/ Updating(s) \/ end = 0)
  <2>1. end \in Int
    BY <1>1, Sizes DEF EvictionEnd
  <2> HIDE DEF end
  <2>2. /\ call \in Calling /\ call.gen = s.gen /\ call.key = s.key /\ call.pc = "recover"
        /\ call.chunk = s.key.anchor + Len(s.buf)
    BY <1>2, <2>1 DEF Calling, PCs, AtHead
  <2>3. Caught(s, i, isQuota) = t
    <3>1. t = [off EXCEPT !.retried = @ \cup {c}, !.calls[i].pc = "recover",
                          !.calls[i].on = s.gen, !.calls[i].upto = end]
      BY <1>1, <1>2, ZenonT(60) DEF Fields, Calling
    <3> HIDE DEF t, off, call, tried
    <3> QED
      BY <1>8, <3>1 DEF Caught, end, off
  <2> HIDE DEF call
  <2>4. /\ DOMAIN t = Fields /\ t.lock = s.lock /\ t.calls = [s.calls EXCEPT ![i] = call]
        /\ t.gen = s.gen /\ t.key = s.key /\ t.queue = s.queue
        /\ t.appended = s.appended /\ t.pending = s.pending \ {c}
        /\ t.cursor = s.cursor /\ t.buf = s.buf /\ t.initDone = s.initDone
        /\ t.time = s.time /\ t.cut = s.cut
    BY <1>1 DEF Fields
  <2> HIDE DEF t
  <2>5. Locked(t.gen, t.key, t.lock, t.calls)
    <3>1. Locked(s.gen, s.key, s.lock, [s.calls EXCEPT ![i] = call])
      BY <1>1, <2>2, CallPasses DEF AtHead
    <3> QED
      BY <2>4, <3>1
  <2>6. Base(t)
    BY <1>1, <1>5, <2>4, <2>5 DEF Base
  <2>7. Holds(i, t.gen, t.calls) /\ t.calls[i].chunk = s.key.anchor + Len(s.buf)
    BY <1>2, <2>2, <2>4 DEF Holds
  <2>8. Aims(t)
    <3>1. \A k \in Slots : Holds(k, t.gen, t.calls) => k = i
      BY <2>5, <2>7 DEF Locked
    <3> QED
      BY <2>4, <2>7, <3>1 DEF Aims
  <2> QED
    BY <2>3, <2>6, <2>8 DEF Fine
<1> QED
  BY <1>6, <1>7, <1>8

\* A new stream begins empty; every call is of an older one.
LEMMA OpenStreamFine ==
  ASSUME NEW s, Fine(s), NEW k \in StreamKey
  PROVE  Fine(OpenStream(s, k))
<1> DEFINE t == OpenStream(s, k)
<1>1. DOMAIN s = Fields /\ Locked(s.gen, s.key, s.lock, s.calls)
  BY DEF Fine, Base
<1>2. /\ DOMAIN t = Fields /\ t.lock = FALSE /\ t.calls = s.calls
      /\ t.gen = s.gen + 1 /\ t.key = k /\ t.queue = <<>> /\ t.appended = {}
      /\ t.pending = {} /\ t.cursor = 0 /\ t.buf = <<>>
      /\ t.initDone = FALSE /\ t.time = 0 /\ t.cut = 0
  BY <1>1 DEF Fields, OpenStream
<1> HIDE DEF t
<1>3. s.gen \in Nat /\ \A i \in Slots : s.calls[i].gen \in Nat /\ s.calls[i].gen <= s.gen
  BY <1>1 DEF Locked, Calling
<1>4. \A i \in Slots : s.calls[i].gen # s.gen + 1 /\ s.calls[i].gen <= s.gen + 1
  BY <1>3
<1>5. Locked(s.gen + 1, k, FALSE, s.calls)
  BY <1>1, <1>3, <1>4 DEF Locked, Holds
<1>6. Windowed(k.anchor, <<>>, <<>>, 0, {}, {}, FALSE)
  <2>1. Len(<<>>) = 0 /\ <<>> \in Seq(Nat) /\ k.anchor \in Nat
    BY DEF StreamKey
  <2>2. k.anchor .. (k.anchor + 0 - 1) = {}
    BY <2>1
  <2> QED
    BY <2>1, <2>2 DEF Windowed
<1>7. Base(t)
  <2>1. Windowed(t.key.anchor, t.buf, t.queue, t.cursor, t.appended, t.pending, t.initDone)
    BY <1>2, <1>6
  <2>2. Locked(t.gen, t.key, t.lock, t.calls)
    BY <1>2, <1>5
  <2> QED
    BY <1>2, <2>1, <2>2 DEF Base
<1>8. Aims(t)
  BY <1>2, <1>4 DEF Aims, Holds
<1> QED
  BY <1>7, <1>8 DEF Fine, t

-----------------------------------------------------------------------------
(* History: no synchronous part changes crossed *)

LEMMA EvictKeeps ==
  ASSUME NEW s, DOMAIN s = Fields
  PROVE  DOMAIN Evict(s) = Fields /\ Evict(s).crossed = s.crossed
BY DEF Evict, Begin, Fields

LEMMA ReleaseKeeps ==
  ASSUME NEW s, DOMAIN s = Fields, NEW i
  PROVE  DOMAIN Release(s, i) = Fields /\ Release(s, i).crossed = s.crossed
<1> DEFINE t == [s EXCEPT !.calls[i] = Idle, !.lock = FALSE]
<1>1. DOMAIN t = Fields /\ t.crossed = s.crossed
  BY DEF Fields
<1> HIDE DEF t
<1> QED
  BY <1>1, EvictKeeps DEF Release, t

LEMMA NextInQueueKeeps ==
  ASSUME NEW s, DOMAIN s = Fields, NEW i
  PROVE  DOMAIN NextInQueue(s, i) = Fields /\ NextInQueue(s, i).crossed = s.crossed
<1> DEFINE t == [s EXCEPT !.calls[i].pc = "fetch", !.calls[i].chunk = Head(s.queue)]
<1>1. DOMAIN t = Fields /\ t.crossed = s.crossed
  BY DEF Fields
<1> HIDE DEF t
<1> QED
  BY <1>1, ReleaseKeeps DEF NextInQueue, t

LEMMA ProcessQueueKeeps ==
  ASSUME NEW s, DOMAIN s = Fields
  PROVE  DOMAIN ProcessQueue(s) = Fields /\ ProcessQueue(s).crossed = s.crossed
<1> DEFINE i == FreeSlot(s)
           t == [Begin(s, i, "fetch") EXCEPT !.lock = TRUE]
<1>1. DOMAIN t = Fields /\ t.crossed = s.crossed
  BY DEF Fields, Begin
<1>2. ProcessQueue(s) = IF s.lock \/ ~s.open THEN s ELSE NextInQueue(t, i)
  BY DEF ProcessQueue
<1> HIDE DEF t, i
<1> QED
  BY <1>1, <1>2, NextInQueueKeeps

LEMMA FillKeeps ==
  ASSUME NEW s, DOMAIN s = Fields
  PROVE  DOMAIN Fill(s) = Fields /\ Fill(s).crossed = s.crossed
<1> DEFINE stop == Smaller(InManifest(s), (AppendWindowEnd(s) + ChunkSeconds - 1) \div ChunkSeconds)
           fresh == ((s.key.anchor + s.cursor) .. (s.key.anchor + stop - 1))
                      \ (s.appended \cup s.pending)
           t == [s EXCEPT !.queue = Ascending(fresh), !.pending = @ \cup fresh,
                          !.cursor = Larger(@, stop)]
<1>1. Fill(s) = IF ~s.initDone \/ s.queue # <<>> \/ s.backoff \/ ~NeedsWindowFill(s) THEN s
                ELSE IF fresh = {} THEN t ELSE ProcessQueue(t)
  BY DEF Fill
<1> HIDE DEF fresh, stop
<1>2. DOMAIN t = Fields /\ t.crossed = s.crossed
  BY DEF Fields
<1> HIDE DEF t
<1> QED
  BY <1>1, <1>2, ProcessQueueKeeps

LEMMA MaintainKeeps ==
  ASSUME NEW s, DOMAIN s = Fields
  PROVE  DOMAIN Maintain(s) = Fields /\ Maintain(s).crossed = s.crossed
BY FillKeeps, EvictKeeps DEF Maintain

LEMMA DropQueueKeeps ==
  ASSUME NEW s, DOMAIN s = Fields, NEW i
  PROVE  DOMAIN DropQueue(s, i) = Fields /\ DropQueue(s, i).crossed = s.crossed
<1> DEFINE t == [s EXCEPT !.pending = @ \ {s.queue[k] : k \in DOMAIN s.queue},
                          !.queue = <<>>,
                          !.cursor = s.calls[i].chunk - s.calls[i].key.anchor,
                          !.backoff = TRUE]
<1>1. DOMAIN t = Fields /\ t.crossed = s.crossed
  BY DEF Fields
<1> HIDE DEF t
<1> QED
  BY <1>1, ReleaseKeeps DEF DropQueue, t

LEMMA CaughtKeeps ==
  ASSUME NEW s, DOMAIN s = Fields, NEW i, NEW isQuota
  PROVE  DOMAIN Caught(s, i, isQuota) = Fields /\ Caught(s, i, isQuota).crossed = s.crossed
<1> DEFINE c == s.calls[i].chunk
           off == [s EXCEPT !.pending = @ \ {c}]
           end == EvictionEnd(s, EmergencyKeep)
           tried == [off EXCEPT !.retried = @ \cup {c}]
           t == [off EXCEPT !.retried = @ \cup {c}, !.calls[i].pc = "recover",
                            !.calls[i].on = s.gen, !.calls[i].upto = end]
<1>1. /\ DOMAIN off = Fields /\ off.crossed = s.crossed
      /\ DOMAIN tried = Fields /\ tried.crossed = s.crossed
  BY DEF Fields
<1> HIDE DEF end
<1>2. DOMAIN t = Fields /\ t.crossed = s.crossed
  BY DEF Fields
<1>3. Caught(s, i, isQuota) = IF ~isQuota \/ c \in s.retried THEN DropQueue(off, i)
                              ELSE IF ~s.open \/ Updating(s) \/ end = 0 THEN DropQueue(tried, i)
                              ELSE t
  BY DEF Caught, end
<1> HIDE DEF off, tried, t, c
<1> QED
  BY <1>1, <1>2, <1>3, DropQueueKeeps

LEMMA MaintainGood ==
  ASSUME NEW s, Good(s), Unlocks(s), rendered \in Nat, ~s.crossed => seek \in Int
  PROVE  Good(Maintain(s)) /\ Maintain(s).crossed = s.crossed
<1>1. DOMAIN Maintain(s) = Fields /\ Maintain(s).crossed = s.crossed
  BY MaintainKeeps DEF Good
<1>2. ~s.crossed => Fine(Maintain(s))
  BY MaintainFine DEF Good
<1> QED
  BY <1>1, <1>2 DEF Good

-----------------------------------------------------------------------------
(* Steps *)

LEMMA RoomIsFree == Room => Unlocks(st) /\ FreeSlots(st) # {}
BY FS_EmptySet DEF Room, Unlocks

\* A call without the lock changes, in a stream that is otherwise the same.
LEMMA ElseFine ==
  ASSUME NEW s, Fine(s), NEW i \in Slots, ~Holds(i, s.gen, s.calls),
         NEW c \in Calling, c.gen <= s.gen, c.gen = s.gen /\ c.pc # "off" => c.key = s.key,
         c.pc \in {"off", "initFetch", "initAppend"},
         NEW t, DOMAIN t = Fields, t.calls = [s.calls EXCEPT ![i] = c],
         t.gen = s.gen, t.key = s.key, t.lock = s.lock, t.queue = s.queue,
         t.appended = s.appended, t.pending = s.pending, t.cursor = s.cursor,
         t.buf = s.buf, s.initDone => t.initDone, t.time \in Int, t.cut \in Int
  PROVE  Fine(t)
<1>1. Locked(s.gen, s.key, s.lock, s.calls) /\ Base(s)
  BY DEF Fine, Base
<1>2. /\ Locked(s.gen, s.key, s.lock, [s.calls EXCEPT ![i] = c])
      /\ \A k \in Slots :
           /\ Holds(k, s.gen, [s.calls EXCEPT ![i] = c]) <=> Holds(k, s.gen, s.calls)
           /\ Holds(k, s.gen, s.calls) => [s.calls EXCEPT ![i] = c][k] = s.calls[k]
  BY <1>1, CallElse
<1>3. Locked(t.gen, t.key, t.lock, t.calls)
  BY <1>2
<1>4. Windowed(t.key.anchor, t.buf, t.queue, t.cursor, t.appended, t.pending, t.initDone)
  <2>1. Windowed(s.key.anchor, s.buf, s.queue, s.cursor, s.appended, s.pending, s.initDone)
    BY <1>1 DEF Base
  <2> QED
    BY <2>1, ZenonT(60) DEF Windowed
<1>5. Base(t)
  BY <1>3, <1>4 DEF Base
<1>6. Aims(t)
  BY <1>2 DEF Fine, Aims
<1> QED
  BY <1>5, <1>6 DEF Fine

LEMMA SourceOpenGood ==
  ASSUME IInv, SourceOpen
  PROVE  IInv'
<1> DEFINE s == [st EXCEPT !.open = TRUE]
<1>1. DOMAIN st = Fields /\ st.crossed \in BOOLEAN
  BY DEF IInv, Good
<1>2. /\ DOMAIN s = Fields /\ s.crossed = st.crossed
      /\ s.gen = st.gen /\ s.key = st.key /\ s.lock = st.lock /\ s.queue = st.queue
      /\ s.appended = st.appended /\ s.pending = st.pending /\ s.cursor = st.cursor
      /\ s.buf = st.buf /\ s.calls = st.calls /\ s.initDone = st.initDone
      /\ s.time = st.time /\ s.cut = st.cut
  BY <1>1 DEF Fields
<1>3. st' = Maintain(s) /\ rendered' = rendered /\ seek' = seek
  BY DEF SourceOpen
<1> HIDE DEF s
<1>4. ~st.crossed => Fine(s)
  <2>1. SUFFICES ASSUME ~st.crossed PROVE Fine(s)
    OBVIOUS
  <2>2. Fine(st) /\ st.time \in Int /\ st.cut \in Int
    BY <2>1 DEF IInv, Good, Fine, Base
  <2> QED
    BY <1>2, <2>2, Frame
<1>5. Good(s)
  BY <1>1, <1>2, <1>4 DEF Good
<1>6. Unlocks(s)
  BY <1>2, RoomIsFree DEF SourceOpen, Unlocks, FreeSlots
<1>7. Good(Maintain(s)) /\ Maintain(s).crossed = s.crossed
  BY <1>2, <1>5, <1>6, MaintainGood DEF IInv
<1> QED
  BY <1>2, <1>3, <1>7 DEF IInv

LEMMA InitEffectGood ==
  ASSUME IInv, InitEffect
  PROVE  IInv'
<1> DEFINE i == FreeSlot(st)
           c == [Idle EXCEPT !.pc = "initFetch", !.gen = st.gen, !.key = st.key, !.on = st.gen]
           t == [Begin(st, i, "initFetch") EXCEPT !.initPending = TRUE, !.initDue = FALSE]
<1>1. DOMAIN st = Fields /\ st.crossed \in BOOLEAN
  BY DEF IInv, Good
<1>2. /\ DOMAIN t = Fields /\ t.crossed = st.crossed
      /\ t.gen = st.gen /\ t.key = st.key /\ t.lock = st.lock /\ t.queue = st.queue
      /\ t.appended = st.appended /\ t.pending = st.pending /\ t.cursor = st.cursor
      /\ t.buf = st.buf /\ t.calls = [st.calls EXCEPT ![i] = c] /\ t.initDone = st.initDone
      /\ t.time = st.time /\ t.cut = st.cut
  BY <1>1 DEF Begin, Fields
<1>3. st' = t /\ rendered' = rendered /\ seek' = seek
  BY DEF InitEffect
<1>4. i \in Slots /\ st.calls[i].pc = "off"
  BY RoomIsFree, FreeSlotIsFree DEF InitEffect
<1>5. ASSUME ~st.crossed PROVE Fine(t)
  <2>1. Fine(st) /\ st.time \in Int /\ st.cut \in Int
    BY <1>5 DEF IInv, Good, Fine, Base
  <2>2. st.gen \in Nat /\ st.key \in StreamKey
    BY <2>1 DEF Fine, Base, Locked
  <2>3. /\ c \in Calling /\ c.gen = st.gen /\ c.key = st.key /\ c.pc = "initFetch"
    BY <2>2, IdleCalling DEF Calling, PCs
  <2>4. ~Holds(i, st.gen, st.calls)
    BY <1>4 DEF Holds
  <2>5. c.gen <= st.gen
    BY <2>2, <2>3
  <2> HIDE DEF c, t, i
  <2> QED
    BY <1>2, <1>4, <2>1, <2>3, <2>4, <2>5, ElseFine
<1> HIDE DEF t
<1> QED
  BY <1>1, <1>2, <1>3, <1>5 DEF IInv, Good

LEMMA InitFetchedGood ==
  ASSUME IInv, NEW i \in Slots, NEW ok \in BOOLEAN, InitFetched(i, ok)
  PROVE  IInv'
<1> DEFINE s == [Crossing(st, i) EXCEPT !.calls[i].pc = "initAppend", !.calls[i].on = st.gen]
           c == [st.calls[i] EXCEPT !.pc = "initAppend", !.on = st.gen]
           t == [st EXCEPT !.calls[i] = Idle, !.initPending = FALSE]
<1>1. DOMAIN st = Fields /\ st.crossed \in BOOLEAN
  BY DEF IInv, Good
<1>2. /\ DOMAIN s = Fields /\ s.crossed = (st.crossed \/ st.calls[i].gen # st.gen)
      /\ s.gen = st.gen /\ s.key = st.key /\ s.lock = st.lock /\ s.queue = st.queue
      /\ s.appended = st.appended /\ s.pending = st.pending /\ s.cursor = st.cursor
      /\ s.buf = st.buf /\ s.initDone = st.initDone
      /\ s.time = st.time /\ s.cut = st.cut
      /\ s.calls = [[st.calls EXCEPT ![i].pc = "initAppend"] EXCEPT ![i].on = st.gen]
  BY <1>1 DEF Crossing, Fields
<1>3. /\ DOMAIN t = Fields /\ t.crossed = st.crossed
      /\ t.gen = st.gen /\ t.key = st.key /\ t.lock = st.lock /\ t.queue = st.queue
      /\ t.appended = st.appended /\ t.pending = st.pending /\ t.cursor = st.cursor
      /\ t.buf = st.buf /\ t.calls = [st.calls EXCEPT ![i] = Idle] /\ t.initDone = st.initDone
      /\ t.time = st.time /\ t.cut = st.cut
  BY <1>1 DEF Fields
<1>4. (st' = s \/ st' = t) /\ rendered' = rendered /\ seek' = seek
  BY DEF InitFetched
<1>5. st.calls[i].pc = "initFetch"
  BY DEF InitFetched
<1> HIDE DEF s, t
<1>6. ASSUME ~st.crossed
      PROVE  /\ Fine(st) /\ st.time \in Int /\ st.cut \in Int /\ ~Holds(i, st.gen, st.calls)
             /\ st.gen \in Nat /\ st.calls \in [Slots -> Calling]
  BY <1>5, <1>6 DEF IInv, Good, Fine, Base, Locked, Holds
<1>7. ASSUME ~st.crossed, st.calls[i].gen = st.gen PROVE Fine(s)
  <2>1. st.calls[i].key = st.key
    BY <1>5, <1>6, <1>7 DEF Fine, Base, Locked
  <2>2. /\ c \in Calling /\ c.gen = st.gen /\ c.key = st.key /\ c.pc = "initAppend"
    BY <1>6, <1>7, <2>1 DEF Calling, PCs
  <2>3. s.calls = [st.calls EXCEPT ![i] = c]
    BY <1>2, <1>6, <1>7 DEF Calling
  <2>4. c.gen <= st.gen
    BY <1>6, <1>7, <2>2
  <2> HIDE DEF c
  <2> QED
    BY <1>2, <1>6, <1>7, <2>2, <2>3, <2>4, ElseFine
<1>8. ASSUME ~st.crossed PROVE Fine(t)
  <2>1. Idle.gen <= st.gen
    BY <1>6, <1>8, IdleCalling
  <2> QED
    BY <1>3, <1>6, <1>8, <2>1, IdleCalling, ElseFine
<1> QED
  BY <1>1, <1>2, <1>3, <1>4, <1>7, <1>8 DEF IInv, Good

LEMMA InitAppendedGood ==
  ASSUME IInv, NEW i \in Slots, InitAppended(i)
  PROVE  IInv'
<1> DEFINE e == [[Crossing(st, i) EXCEPT !.calls[i] = Idle, !.initPending = FALSE]
                   EXCEPT !.initDone = TRUE]
           t == [st EXCEPT !.calls[i] = Idle, !.initPending = FALSE]
<1>1. DOMAIN st = Fields /\ st.crossed \in BOOLEAN
  BY DEF IInv, Good
<1>2. /\ DOMAIN e = Fields /\ e.crossed = (st.crossed \/ st.calls[i].gen # st.gen)
      /\ e.gen = st.gen /\ e.key = st.key /\ e.lock = st.lock /\ e.queue = st.queue
      /\ e.appended = st.appended /\ e.pending = st.pending /\ e.cursor = st.cursor
      /\ e.buf = st.buf /\ e.initDone = TRUE
      /\ e.time = st.time /\ e.cut = st.cut
      /\ e.calls = [st.calls EXCEPT ![i] = Idle]
  BY <1>1 DEF Crossing, Fields
<1>3. /\ DOMAIN t = Fields /\ t.crossed = st.crossed
      /\ t.gen = st.gen /\ t.key = st.key /\ t.lock = st.lock /\ t.queue = st.queue
      /\ t.appended = st.appended /\ t.pending = st.pending /\ t.cursor = st.cursor
      /\ t.buf = st.buf /\ t.calls = [st.calls EXCEPT ![i] = Idle] /\ t.initDone = st.initDone
      /\ t.time = st.time /\ t.cut = st.cut
  BY <1>1 DEF Fields
<1>4. (st' = Maintain(e) \/ st' = t) /\ rendered' = rendered /\ seek' = seek
  BY DEF InitAppended
<1>5. st.calls[i].pc = "initAppend"
  BY DEF InitAppended
<1> HIDE DEF e, t
<1>6. ASSUME ~st.crossed
      PROVE  /\ Fine(st) /\ st.time \in Int /\ st.cut \in Int /\ ~Holds(i, st.gen, st.calls)
             /\ st.calls \in [Slots -> Calling] /\ Idle.gen <= st.gen
  <2>1. /\ Fine(st) /\ st.time \in Int /\ st.cut \in Int /\ ~Holds(i, st.gen, st.calls)
        /\ st.gen \in Nat /\ st.calls \in [Slots -> Calling]
    BY <1>5, <1>6 DEF IInv, Good, Fine, Base, Locked, Holds
  <2> QED
    BY <2>1, IdleCalling
<1>7. ASSUME ~e.crossed PROVE Fine(e) /\ Unlocks(e) /\ seek \in Int
  <2>1. ~st.crossed
    BY <1>1, <1>2, <1>7
  <2>2. Fine(e)
    BY <1>2, <1>6, <2>1, IdleCalling, ElseFine
  <2>3. i \in FreeSlots(e)
    BY <1>2, <1>6, <2>1, IdleCalling DEF FreeSlots
  <2> QED
    BY <2>1, <2>2, <2>3 DEF Unlocks, IInv
<1>8. Good(Maintain(e)) /\ (~Maintain(e).crossed => seek \in Int /\ ~st.crossed)
  <2>1. DOMAIN Maintain(e) = Fields /\ Maintain(e).crossed = e.crossed
    BY <1>2, MaintainKeeps
  <2>2. ~e.crossed => Fine(Maintain(e))
    BY <1>7, MaintainFine DEF IInv
  <2>3. e.crossed \in BOOLEAN
    BY <1>1, <1>2
  <2> QED
    BY <1>1, <1>2, <1>7, <2>1, <2>2, <2>3 DEF Good
<1>9. ~st.crossed => Fine(t)
  BY <1>3, <1>6, IdleCalling, ElseFine
<1>10. Good(t) /\ (~t.crossed => seek \in Int)
  BY <1>1, <1>3, <1>9 DEF IInv, Good
<1> QED
  BY <1>4, <1>8, <1>10 DEF IInv

\* What is known of a call of the append loop that settles in its own stream.
LEMMA LiveLoop ==
  ASSUME IInv, NEW i \in Slots, st.calls[i].pc \in {"fetch", "append", "recover"},
         ~st.crossed, Live(i)
  PROVE  /\ Fine(st) /\ AtHead(st, i) /\ Len(st.queue) > 0 /\ st.lock
         /\ st.calls \in [Slots -> Calling] /\ st.calls[i].key = st.key
         /\ st.calls[i].pc = "append" => st.calls[i].on = st.gen
<1>1. Fine(st) /\ Holds(i, st.gen, st.calls)
  BY DEF IInv, Good, Holds, Live
<1>2. AtHead(st, i) /\ Len(st.queue) > 0
  BY <1>1, LoopAtHead
<1>3. Locked(st.gen, st.key, st.lock, st.calls)
  BY <1>1 DEF Fine, Base
<1> QED
  BY <1>1, <1>2, <1>3 DEF Locked, AtHead, Live

LEMMA FetchedGood ==
  ASSUME IInv, NEW i \in Slots, Fetched(i)
  PROVE  IInv'
<1> DEFINE flag == ~Live(i) /\ (st.lock \/ st.key = st.calls[i].key)
           s == [st EXCEPT !.crossed = @ \/ flag]
           t == [s EXCEPT !.calls[i].pc = "append", !.calls[i].on = st.gen]
           go == st.key # st.calls[i].key \/ ~st.open
<1>1. DOMAIN st = Fields /\ st.crossed \in BOOLEAN
  BY DEF IInv, Good
<1>2. st' = IF go THEN Release(s, i)
            ELSE IF Updating(st) THEN Caught(s, i, FALSE)
            ELSE IF Retained(st) + ChunkSeconds > Quota THEN Caught(s, i, TRUE)
            ELSE t
  BY DEF Fetched
<1>3. rendered' = rendered /\ seek' = seek /\ st.calls[i].pc = "fetch"
  BY DEF Fetched
<1>4. flag \in BOOLEAN
  OBVIOUS
<1>5. flag <=> ~Live(i) /\ (st.lock \/ st.key = st.calls[i].key)
  OBVIOUS
<1>6. go <=> st.key # st.calls[i].key \/ ~st.open
  OBVIOUS
<1> HIDE DEF flag, go
<1>7. /\ DOMAIN s = Fields /\ s.crossed = (st.crossed \/ flag)
      /\ s.gen = st.gen /\ s.key = st.key /\ s.lock = st.lock /\ s.queue = st.queue
      /\ s.appended = st.appended /\ s.pending = st.pending /\ s.cursor = st.cursor
      /\ s.buf = st.buf /\ s.initDone = st.initDone /\ s.calls = st.calls
      /\ s.time = st.time /\ s.cut = st.cut
  BY <1>1 DEF Fields
<1>8. /\ DOMAIN t = Fields /\ t.crossed = s.crossed
      /\ t.gen = st.gen /\ t.key = st.key /\ t.lock = st.lock /\ t.queue = st.queue
      /\ t.appended = st.appended /\ t.pending = st.pending /\ t.cursor = st.cursor
      /\ t.buf = st.buf /\ t.initDone = st.initDone
      /\ t.calls = [[st.calls EXCEPT ![i].pc = "append"] EXCEPT ![i].on = st.gen]
      /\ t.time = st.time /\ t.cut = st.cut
  BY <1>1 DEF Fields
<1> HIDE DEF s, t
<1>9. DOMAIN st' = Fields /\ st'.crossed = (st.crossed \/ flag)
  <2>1. \/ st' = Release(s, i) \/ st' = Caught(s, i, FALSE) \/ st' = Caught(s, i, TRUE)
        \/ st' = t
    BY <1>2
  <2>2. /\ DOMAIN Release(s, i) = Fields /\ Release(s, i).crossed = s.crossed
        /\ DOMAIN Caught(s, i, FALSE) = Fields /\ Caught(s, i, FALSE).crossed = s.crossed
        /\ DOMAIN Caught(s, i, TRUE) = Fields /\ Caught(s, i, TRUE).crossed = s.crossed
    BY <1>7, ReleaseKeeps, CaughtKeeps, ZenonT(60)
  <2>3. DOMAIN st' = Fields /\ st'.crossed = s.crossed
    BY <1>8, <2>1, <2>2
  <2> QED
    BY <1>7, <2>3
<1>10. ASSUME ~st.crossed, ~flag PROVE Fine(st')
  <2>1. Fine(st) /\ st.time \in Int /\ st.cut \in Int
    BY <1>10 DEF IInv, Good, Fine, Base
  <2>2. Fine(s)
    BY <1>7, <2>1, Frame
  <2>3. CASE Live(i)
    <3>1. /\ AtHead(st, i) /\ Len(st.queue) > 0
          /\ st.calls \in [Slots -> Calling] /\ st.calls[i].key = st.key
      BY <1>3, <1>10, <2>3, LiveLoop
    <3>2. AtHead(s, i) /\ Len(s.queue) > 0 /\ Holds(i, s.gen, s.calls) /\ Base(s)
      BY <1>7, <2>2, <3>1 DEF AtHead, Fine
    <3>3. Fine(Release(s, i)) /\ Fine(Caught(s, i, FALSE)) /\ Fine(Caught(s, i, TRUE))
      BY <3>2, ReleaseFine, CaughtFine
    <3>4. Fine(t)
      <4> DEFINE c == [st.calls[i] EXCEPT !.pc = "append", !.on = st.gen]
      <4>1. t.calls = [st.calls EXCEPT ![i] = c]
        BY <1>8, <3>1 DEF Calling
      <4>2. Base(s) /\ Locked(s.gen, s.key, s.lock, s.calls) /\ s.gen \in Nat
        BY <2>2 DEF Fine, Base, Locked
      <4>3. /\ c \in Calling /\ c.gen = s.gen /\ c.key = s.key /\ c.pc = "append"
            /\ c.on = s.gen /\ c.chunk = s.key.anchor + Len(s.buf)
        BY <1>7, <2>3, <3>1, <4>2 DEF Calling, PCs, Live, AtHead
      <4> HIDE DEF c
      <4>4. Locked(s.gen, s.key, s.lock, [s.calls EXCEPT ![i] = c])
        BY <3>2, <4>2, <4>3, CallPasses
      <4>5. Locked(t.gen, t.key, t.lock, t.calls)
        BY <1>7, <1>8, <4>1, <4>4
      <4>6. Base(t)
        BY <1>7, <1>8, <4>2, <4>5, CallFrame
      <4>7. Holds(i, t.gen, t.calls) /\ t.calls[i].chunk = s.key.anchor + Len(s.buf)
        BY <1>7, <1>8, <3>1, <4>1, <4>3 DEF Holds
      <4>8. \A k \in Slots : Holds(k, t.gen, t.calls) => k = i
        BY <4>5, <4>7 DEF Locked
      <4>9. Aims(t)
        BY <1>7, <1>8, <3>1, <4>7, <4>8 DEF Aims
      <4> QED
        BY <4>6, <4>9 DEF Fine
    <3> QED
      BY <1>2, <3>3, <3>4
  <2>4. CASE ~Live(i)
    <3>1. ~st.lock /\ st.key # st.calls[i].key
      BY <1>5, <1>10, <2>4
    <3>2. st' = Release(s, i)
      BY <1>2, <1>6, <3>1
    <3> DEFINE b == [s EXCEPT !.calls[i] = Idle, !.lock = FALSE]
    <3>3. st.lock = FALSE /\ st.calls \in [Slots -> Calling] /\ st.gen \in Nat
      BY <2>1, <3>1 DEF Fine, Base, Locked
    <3>4. /\ DOMAIN b = Fields
          /\ b.gen = s.gen /\ b.key = s.key /\ b.lock = s.lock /\ b.queue = s.queue
          /\ b.appended = s.appended /\ b.pending = s.pending /\ b.cursor = s.cursor
          /\ b.buf = s.buf /\ b.initDone = s.initDone
          /\ b.calls = [s.calls EXCEPT ![i] = Idle]
          /\ b.time = s.time /\ b.cut = s.cut
      BY <1>7, <3>3 DEF Fields
    <3> HIDE DEF b
    <3>5. ~Holds(i, s.gen, s.calls) /\ Idle.gen <= s.gen
      BY <1>7, <2>4, <3>3, IdleCalling DEF Holds, Live
    <3>6. s.time \in Int /\ s.cut \in Int
      BY <1>7, <2>1
    <3>7. Fine(b)
      BY <2>2, <3>4, <3>5, <3>6, IdleCalling, ElseFine
    <3>8. i \in FreeSlots(b)
      BY <1>7, <3>3, <3>4, IdleCalling DEF FreeSlots
    <3>9. Fine(Evict(b))
      BY <3>7, <3>8, EvictFine DEF Unlocks
    <3> QED
      BY <3>2, <3>9 DEF Release, b
  <2> QED
    BY <2>3, <2>4
<1> QED
  BY <1>1, <1>3, <1>4, <1>9, <1>10 DEF IInv, Good

LEMMA FetchFailedGood ==
  ASSUME IInv, NEW i \in Slots, FetchFailed(i)
  PROVE  IInv'
<1> DEFINE s == Crossing(st, i)
<1>1. DOMAIN st = Fields /\ st.crossed \in BOOLEAN
  BY DEF IInv, Good
<1>2. /\ DOMAIN s = Fields /\ s.crossed = (st.crossed \/ st.calls[i].gen # st.gen)
      /\ s.gen = st.gen /\ s.key = st.key /\ s.lock = st.lock /\ s.queue = st.queue
      /\ s.appended = st.appended /\ s.pending = st.pending /\ s.cursor = st.cursor
      /\ s.buf = st.buf /\ s.initDone = st.initDone /\ s.calls = st.calls
      /\ s.time = st.time /\ s.cut = st.cut
  BY <1>1 DEF Crossing, Fields
<1>3. /\ st' = Caught(s, i, FALSE) /\ rendered' = rendered /\ seek' = seek
      /\ st.calls[i].pc = "fetch"
  BY DEF FetchFailed
<1> HIDE DEF s
<1>4. DOMAIN st' = Fields /\ st'.crossed = s.crossed
  BY <1>2, <1>3, CaughtKeeps
<1>5. ASSUME ~s.crossed PROVE Fine(st') /\ ~st.crossed
  <2>1. ~st.crossed /\ Live(i)
    BY <1>1, <1>2, <1>5 DEF Live
  <2>2. Fine(st) /\ AtHead(st, i) /\ Len(st.queue) > 0
    BY <1>3, <2>1, LiveLoop
  <2>3. Fine(s)
    BY <1>2, <2>2, Frame DEF Fine, Base
  <2>4. AtHead(s, i) /\ Len(s.queue) > 0 /\ Base(s)
    BY <1>2, <2>2, <2>3 DEF AtHead, Fine
  <2> QED
    BY <1>3, <2>1, <2>4, CaughtFine
<1> QED
  BY <1>1, <1>2, <1>3, <1>4, <1>5 DEF IInv, Good

\* The loop settles an asynchronous call: it is at its fetch again.
LEMMA LoopResumes ==
  ASSUME NEW s, Base(s), NEW i \in Slots, Holds(i, s.gen, s.calls),
         NEW t, t.gen = s.gen, t.key = s.key, t.lock = s.lock,
         t.calls = [[s.calls EXCEPT ![i].on = 0] EXCEPT ![i].pc = "fetch"]
  PROVE  /\ Locked(t.gen, t.key, t.lock, t.calls) /\ Holds(i, t.gen, t.calls)
         /\ t.calls[i].chunk = s.calls[i].chunk /\ t.calls[i].key = s.calls[i].key
<1> DEFINE c == [s.calls[i] EXCEPT !.on = 0, !.pc = "fetch"]
<1>1. /\ Locked(s.gen, s.key, s.lock, s.calls)
      /\ s.calls \in [Slots -> Calling] /\ s.calls[i].gen = s.gen /\ s.calls[i].key = s.key
  BY DEF Base, Locked, Holds
<1>2. t.calls = [s.calls EXCEPT ![i] = c]
  BY <1>1 DEF Calling
<1>3. /\ c \in Calling /\ c.gen = s.gen /\ c.key = s.key /\ c.pc = "fetch"
      /\ c.chunk = s.calls[i].chunk
  <2>1. s.calls[i] \in Calling
    BY <1>1
  <2>2. /\ c \in Calling /\ c.gen = s.calls[i].gen /\ c.key = s.calls[i].key
        /\ c.pc = "fetch" /\ c.chunk = s.calls[i].chunk
    BY <2>1 DEF Calling, PCs
  <2> QED
    BY <1>1, <2>2
<1> HIDE DEF c
<1>4. Locked(s.gen, s.key, s.lock, [s.calls EXCEPT ![i] = c])
  BY <1>1, <1>3, CallPasses
<1> QED
  BY <1>1, <1>2, <1>3, <1>4 DEF Holds

LEMMA AppendFailedGood ==
  ASSUME IInv, NEW i \in Slots, AppendFailed(i)
  PROVE  IInv'
<1> DEFINE s == [Crossing(st, i) EXCEPT !.calls[i].on = 0, !.calls[i].pc = "fetch"]
<1>1. DOMAIN st = Fields /\ st.crossed \in BOOLEAN
  BY DEF IInv, Good
<1>2. /\ DOMAIN s = Fields /\ s.crossed = (st.crossed \/ st.calls[i].gen # st.gen)
      /\ s.gen = st.gen /\ s.key = st.key /\ s.lock = st.lock /\ s.queue = st.queue
      /\ s.appended = st.appended /\ s.pending = st.pending /\ s.cursor = st.cursor
      /\ s.buf = st.buf /\ s.initDone = st.initDone
      /\ s.calls = [[st.calls EXCEPT ![i].on = 0] EXCEPT ![i].pc = "fetch"]
      /\ s.time = st.time /\ s.cut = st.cut
  BY <1>1 DEF Crossing, Fields
<1>3. /\ st' = Caught(s, i, FALSE) /\ rendered' = rendered /\ seek' = seek
      /\ st.calls[i].pc = "append"
  BY DEF AppendFailed
<1> HIDE DEF s
<1>4. DOMAIN st' = Fields /\ st'.crossed = s.crossed
  <2>1. DOMAIN Caught(s, i, FALSE) = Fields /\ Caught(s, i, FALSE).crossed = s.crossed
    <3>1. DOMAIN s = Fields
      BY <1>2
    <3> QED
      BY <3>1, CaughtKeeps
  <2> QED
    BY <1>3, <2>1
<1>5. ASSUME ~s.crossed PROVE Fine(st') /\ ~st.crossed
  <2>1. ~st.crossed /\ Live(i)
    BY <1>1, <1>2, <1>5 DEF Live
  <2>2. Fine(st) /\ AtHead(st, i) /\ Len(st.queue) > 0
    BY <1>3, <2>1, LiveLoop
  <2>3. Base(st) /\ Holds(i, st.gen, st.calls) /\ st.calls[i].key = st.key
        /\ st.calls[i].chunk = st.key.anchor + Len(st.buf)
    BY <2>2 DEF Fine, AtHead
  <2>4. /\ Locked(s.gen, s.key, s.lock, s.calls) /\ Holds(i, s.gen, s.calls)
        /\ s.calls[i].chunk = st.calls[i].chunk /\ s.calls[i].key = st.calls[i].key
    <3>1. /\ s.gen = st.gen /\ s.key = st.key /\ s.lock = st.lock
          /\ s.calls = [[st.calls EXCEPT ![i].on = 0] EXCEPT ![i].pc = "fetch"]
      BY <1>2
    <3> QED
      BY <2>3, <3>1, LoopResumes
  <2>5. Base(s)
    BY <1>2, <2>3, <2>4, CallFrame
  <2>6. AtHead(s, i) /\ Len(s.queue) > 0
    BY <1>2, <2>2, <2>3, <2>4 DEF AtHead
  <2> QED
    BY <1>3, <2>1, <2>5, <2>6, CaughtFine
<1> QED
  BY <1>1, <1>2, <1>3, <1>4, <1>5 DEF IInv, Good

\* After the maintenance of a stream whose loop holds the lock, the loop goes on.
LEMMA LoopGoesOn ==
  ASSUME IInv, NEW s, DOMAIN s = Fields, s.crossed \in BOOLEAN, NEW i \in Slots,
         ~s.crossed => Base(s) /\ s.lock /\ Holds(i, s.gen, s.calls) /\ ~st.crossed
  PROVE  /\ Good(NextInQueue(Maintain(s), i))
         /\ ~NextInQueue(Maintain(s), i).crossed => seek \in Int
<1>1. DOMAIN Maintain(s) = Fields /\ Maintain(s).crossed = s.crossed
  BY MaintainKeeps
<1>2. /\ DOMAIN NextInQueue(Maintain(s), i) = Fields
      /\ NextInQueue(Maintain(s), i).crossed = s.crossed
  BY <1>1, NextInQueueKeeps
<1>3. ASSUME ~s.crossed PROVE Fine(NextInQueue(Maintain(s), i)) /\ seek \in Int
  <2>1. Base(s) /\ s.lock /\ rendered \in Nat /\ seek \in Int
    BY <1>3 DEF IInv
  <2>2. Base(Maintain(s)) /\ Maintain(s).calls = s.calls /\ Maintain(s).gen = s.gen
    BY <2>1, MaintainLocked
  <2>3. Holds(i, Maintain(s).gen, Maintain(s).calls)
    BY <1>3, <2>2
  <2> QED
    BY <2>1, <2>2, <2>3, NextInQueueFine
<1> QED
  BY <1>2, <1>3 DEF Good

\* What a removal does to the invariant: nothing.
LEMMA RemoveFrame ==
  ASSUME NEW s, DOMAIN s = Fields, NEW i \in Slots
  PROVE  /\ DOMAIN Remove(s, i) = Fields /\ Remove(s, i).crossed = s.crossed
         /\ Remove(s, i).gen = s.gen /\ Remove(s, i).key = s.key /\ Remove(s, i).lock = s.lock
         /\ Remove(s, i).queue = s.queue /\ Remove(s, i).appended = s.appended
         /\ Remove(s, i).pending = s.pending /\ Remove(s, i).cursor = s.cursor
         /\ Remove(s, i).buf = s.buf /\ Remove(s, i).initDone = s.initDone
         /\ Remove(s, i).calls = s.calls /\ Remove(s, i).time = s.time
         /\ Base(s) => Remove(s, i).cut \in Int
<1>1. ASSUME Base(s) PROVE Remove(s, i).cut \in Int
  <2>1. s.calls[i].upto \in Int /\ s.cut \in Int /\ s.buf \in Seq(Nat)
    BY <1>1 DEF Base, Locked, Windowed, Calling
  <2>2. Len(s.buf) * ChunkSeconds \in Int
    BY <2>1, Sizes
  <2>3. Smaller(Len(s.buf) * ChunkSeconds, Larger(s.cut, s.calls[i].upto)) \in Int
    BY <2>1, <2>2 DEF Smaller, Larger
  <2>4. \/ Remove(s, i) = s
        \/ Remove(s, i).cut = Smaller(Len(s.buf) * ChunkSeconds, Larger(s.cut, s.calls[i].upto))
    BY DEF Remove, Fields
  <2> QED
    BY <2>1, <2>3, <2>4
<1> QED
  BY <1>1 DEF Remove, Fields

LEMMA RecoveredGood ==
  ASSUME IInv, NEW i \in Slots, Recovered(i)
  PROVE  IInv'
<1> DEFINE m == Remove(st, i)
           s == [Crossing(m, i) EXCEPT !.calls[i].on = 0, !.calls[i].pc = "fetch",
                                       !.pending = @ \cup {st.calls[i].chunk}]
<1>1. DOMAIN st = Fields /\ st.crossed \in BOOLEAN
  BY DEF IInv, Good
<1>2. /\ DOMAIN m = Fields /\ m.crossed = st.crossed
      /\ m.gen = st.gen /\ m.key = st.key /\ m.lock = st.lock /\ m.queue = st.queue
      /\ m.appended = st.appended /\ m.pending = st.pending /\ m.cursor = st.cursor
      /\ m.buf = st.buf /\ m.initDone = st.initDone /\ m.calls = st.calls /\ m.time = st.time
      /\ Base(st) => m.cut \in Int
  BY <1>1, RemoveFrame
<1> HIDE DEF m
<1>3. /\ DOMAIN s = Fields /\ s.crossed = (st.crossed \/ st.calls[i].gen # st.gen)
      /\ s.gen = st.gen /\ s.key = st.key /\ s.lock = st.lock /\ s.queue = st.queue
      /\ s.appended = st.appended /\ s.pending = st.pending \cup {st.calls[i].chunk}
      /\ s.cursor = st.cursor /\ s.buf = st.buf /\ s.initDone = st.initDone
      /\ s.calls = [[st.calls EXCEPT ![i].on = 0] EXCEPT ![i].pc = "fetch"]
      /\ s.time = st.time /\ s.cut = m.cut
  BY <1>2 DEF Crossing, Fields
<1>4. /\ st' = NextInQueue(Maintain(s), i) /\ rendered' = rendered /\ seek' = seek
      /\ st.calls[i].pc = "recover"
  BY DEF Recovered, m
<1> HIDE DEF s
<1>5. ASSUME ~s.crossed
      PROVE  Base(s) /\ s.lock /\ Holds(i, s.gen, s.calls) /\ ~st.crossed
  <2>1. ~st.crossed /\ Live(i)
    BY <1>1, <1>3, <1>5 DEF Live
  <2>2. Fine(st) /\ AtHead(st, i) /\ Len(st.queue) > 0 /\ st.lock
        /\ st.calls \in [Slots -> Calling]
    BY <1>4, <2>1, LiveLoop
  <2>3. /\ Base(st) /\ Holds(i, st.gen, st.calls)
        /\ st.calls[i].chunk = st.key.anchor + Len(st.buf)
        /\ Windowed(st.key.anchor, st.buf, st.queue, st.cursor, st.appended, st.pending,
                    st.initDone)
        /\ st.time \in Int /\ st.cut \in Int
    BY <2>2 DEF Fine, AtHead, Base
  <2>4. Locked(s.gen, s.key, s.lock, s.calls) /\ Holds(i, s.gen, s.calls)
    BY <1>3, <2>3, LoopResumes
  <2>5. m.cut \in Int
    BY <1>2, <2>3
  <2>6. Windowed(s.key.anchor, s.buf, s.queue, s.cursor, s.appended, s.pending, s.initDone)
    <3> DEFINE a == st.key.anchor
               n == Len(st.buf)
               q == Len(st.queue)
    <3>1. /\ a \in Nat /\ n \in Nat /\ q \in Nat /\ q > 0 /\ st.cursor = n + q
          /\ st.pending \subseteq (a + n) .. (a + st.cursor - 1)
          /\ st.calls[i].chunk = a + n
      <4>1. /\ a \in Nat /\ st.buf \in Seq(Nat) /\ st.queue \in Seq(Nat)
            /\ st.cursor = n + q /\ st.pending \subseteq (a + n) .. (a + st.cursor - 1)
        BY <2>3 DEF Windowed
      <4>2. n \in Nat /\ q \in Nat
        BY <4>1
      <4>3. q > 0 /\ st.calls[i].chunk = a + n
        BY <2>2, <2>3
      <4> QED
        BY <4>1, <4>2, <4>3
    <3> HIDE DEF a, n, q
    <3>2. st.calls[i].chunk \in (a + n) .. (a + (n + q) - 1)
      BY <3>1
    <3>3. s.pending \subseteq (a + n) .. (a + st.cursor - 1)
      BY <1>3, <3>1, <3>2
    <3>4. s.pending \subseteq (st.key.anchor + Len(st.buf)) .. (st.key.anchor + st.cursor - 1)
      BY <3>3 DEF a, n
    <3>5. Windowed(st.key.anchor, st.buf, st.queue, st.cursor, st.appended, s.pending,
                   st.initDone)
      BY <2>3, <3>4 DEF Windowed
    <3> QED
      BY <1>3, <3>5
  <2>7. Base(s)
    BY <1>3, <2>3, <2>4, <2>5, <2>6 DEF Base
  <2> QED
    BY <1>3, <2>1, <2>2, <2>4, <2>7
<1>6. s.crossed \in BOOLEAN
  BY <1>1, <1>3
<1>7. /\ Good(NextInQueue(Maintain(s), i))
      /\ ~NextInQueue(Maintain(s), i).crossed => seek \in Int
  BY <1>3, <1>5, <1>6, LoopGoesOn
<1> QED
  BY <1>4, <1>7 DEF IInv

\* The head of the queue moves to the end of the buffer.
LEMMA HeadIsAppended ==
  ASSUME NEW a, NEW buf, NEW queue, NEW cursor, NEW appended, NEW pending, NEW initDone,
         Windowed(a, buf, queue, cursor, appended, pending, initDone), Len(queue) > 0
  PROVE  Windowed(a, Append(buf, a + Len(buf)), Tail(queue), cursor,
                  appended \cup {a + Len(buf)}, pending \ {a + Len(buf)}, initDone)
<1> DEFINE n == Len(buf)
           q == Len(queue)
           h == Append(buf, a + n)
           l == Tail(queue)
<1>1. /\ a \in Nat /\ buf \in Seq(Nat) /\ queue \in Seq(Nat) /\ cursor = n + q
      /\ appended = a .. (a + n - 1) /\ pending \subseteq (a + n) .. (a + cursor - 1)
      /\ \A k \in 1 .. n : buf[k] = a + k - 1
      /\ \A k \in 1 .. q : queue[k] = a + n + k - 1
  BY DEF Windowed
<1>2. n \in Nat /\ q \in Nat /\ q > 0
  BY <1>1
<1>3. a + n \in Nat
  BY <1>1, <1>2
<1>4. /\ h \in Seq(Nat) /\ Len(h) = n + 1
      /\ \A k \in 1 .. (n + 1) : h[k] = IF k = n + 1 THEN a + n ELSE buf[k]
  BY <1>1, <1>3
<1>5. queue # <<>>
  BY <1>1, <1>2
<1>6. /\ l \in Seq(Nat) /\ Len(l) = q - 1
      /\ \A k \in 1 .. (q - 1) : l[k] = queue[k + 1]
  BY <1>1, <1>2, <1>5
<1> HIDE DEF n, q, h, l
<1>7. \A k \in 1 .. Len(h) : h[k] = a + k - 1
  <2>1. ASSUME NEW k \in 1 .. Len(h) PROVE h[k] = a + k - 1
    <3>1. k \in 1 .. (n + 1)
      BY <1>4
    <3>2. h[k] = IF k = n + 1 THEN a + n ELSE buf[k]
      BY <1>4, <3>1
    <3>3. CASE k = n + 1
      BY <1>1, <1>2, <3>2, <3>3
    <3>4. CASE k # n + 1
      <4>1. k \in 1 .. n
        BY <1>2, <3>1, <3>4
      <4> QED
        BY <1>1, <3>2, <3>4, <4>1
    <3> QED
      BY <3>3, <3>4
  <2> QED
    BY <2>1
<1>8. \A k \in 1 .. Len(l) : l[k] = a + Len(h) + k - 1
  <2>1. ASSUME NEW k \in 1 .. Len(l) PROVE l[k] = a + Len(h) + k - 1
    <3>1. k \in 1 .. (q - 1) /\ k + 1 \in 1 .. q
      BY <1>2, <1>6
    <3>2. l[k] = a + n + (k + 1) - 1
      BY <1>1, <1>6, <3>1
    <3> QED
      BY <1>1, <1>2, <1>4, <3>1, <3>2
  <2> QED
    BY <2>1
<1>9. cursor = Len(h) + Len(l)
  BY <1>1, <1>2, <1>4, <1>6
<1>10. appended \cup {a + n} = a .. (a + Len(h) - 1)
  BY <1>1, <1>2, <1>4
<1>11. pending \ {a + n} \subseteq (a + Len(h)) .. (a + cursor - 1)
  BY <1>1, <1>2, <1>4
<1>12. initDone
  BY <1>2 DEF Windowed, q
<1>13. Windowed(a, h, l, cursor, appended \cup {a + n}, pending \ {a + n}, initDone)
  BY <1>1, <1>4, <1>6, <1>7, <1>8, <1>9, <1>10, <1>11, <1>12 DEF Windowed
<1> QED
  BY <1>13 DEF h, l, n

LEMMA AppendedGood ==
  ASSUME IInv, NEW i \in Slots, Appended(i)
  PROVE  IInv'
<1> DEFINE c == st.calls[i].chunk
           s == [Crossing(st, i) EXCEPT
                   !.buf = IF st.calls[i].on = st.gen THEN Append(@, c) ELSE @,
                   !.calls[i].on = 0, !.calls[i].pc = "fetch",
                   !.queue = IF @ = <<>> THEN @ ELSE Tail(@),
                   !.pending = @ \ {c}, !.appended = @ \cup {c}, !.backoff = FALSE]
<1>1. DOMAIN st = Fields /\ st.crossed \in BOOLEAN
  BY DEF IInv, Good
<1>2. /\ DOMAIN s = Fields /\ s.crossed = (st.crossed \/ st.calls[i].gen # st.gen)
      /\ s.gen = st.gen /\ s.key = st.key /\ s.lock = st.lock
      /\ s.queue = (IF st.queue = <<>> THEN st.queue ELSE Tail(st.queue))
      /\ s.appended = st.appended \cup {c} /\ s.pending = st.pending \ {c}
      /\ s.cursor = st.cursor /\ s.initDone = st.initDone
      /\ s.buf = (IF st.calls[i].on = st.gen THEN Append(st.buf, c) ELSE st.buf)
      /\ s.calls = [[st.calls EXCEPT ![i].on = 0] EXCEPT ![i].pc = "fetch"]
      /\ s.time = st.time /\ s.cut = st.cut
  BY <1>1 DEF Crossing, Fields
<1>3. /\ st' = NextInQueue(Maintain(s), i) /\ rendered' = rendered /\ seek' = seek
      /\ st.calls[i].pc = "append"
  BY DEF Appended
<1> HIDE DEF s
<1>4. ASSUME ~s.crossed
      PROVE  Base(s) /\ s.lock /\ Holds(i, s.gen, s.calls) /\ ~st.crossed
  <2>1. ~st.crossed /\ Live(i)
    BY <1>1, <1>2, <1>4 DEF Live
  <2>2. Fine(st) /\ AtHead(st, i) /\ Len(st.queue) > 0 /\ st.lock
        /\ st.calls[i].on = st.gen
    BY <1>3, <2>1, LiveLoop
  <2>3. /\ Base(st) /\ Holds(i, st.gen, st.calls) /\ c = st.key.anchor + Len(st.buf)
        /\ Windowed(st.key.anchor, st.buf, st.queue, st.cursor, st.appended, st.pending,
                    st.initDone)
        /\ st.time \in Int /\ st.cut \in Int
    BY <2>2 DEF Fine, AtHead, Base
  <2>4. Locked(s.gen, s.key, s.lock, s.calls) /\ Holds(i, s.gen, s.calls)
    BY <1>2, <2>3, LoopResumes, ZenonT(60)
  <2>5. Windowed(st.key.anchor, Append(st.buf, c), Tail(st.queue), st.cursor,
                 st.appended \cup {c}, st.pending \ {c}, st.initDone)
    BY <2>2, <2>3, HeadIsAppended
  <2>6. s.queue = Tail(st.queue) /\ s.buf = Append(st.buf, c)
    <3>1. st.queue # <<>>
      BY <2>2
    <3> QED
      BY <1>2, <2>2, <3>1
  <2>7. Windowed(s.key.anchor, s.buf, s.queue, s.cursor, s.appended, s.pending, s.initDone)
    BY <1>2, <2>5, <2>6
  <2>8. Base(s)
    BY <1>2, <2>3, <2>4, <2>7 DEF Base
  <2> QED
    BY <1>2, <2>1, <2>2, <2>4, <2>8
<1>5. s.crossed \in BOOLEAN
  BY <1>1, <1>2
<1>6. /\ Good(NextInQueue(Maintain(s), i))
      /\ ~NextInQueue(Maintain(s), i).crossed => seek \in Int
  BY <1>2, <1>4, <1>5, LoopGoesOn
<1> QED
  BY <1>3, <1>6 DEF IInv

LEMMA EvictedGood ==
  ASSUME IInv, NEW i \in Slots, Evicted(i)
  PROVE  IInv'
<1> DEFINE m == Remove(st, i)
           s == [Crossing(m, i) EXCEPT !.calls[i] = Idle, !.lock = FALSE]
<1>1. DOMAIN st = Fields /\ st.crossed \in BOOLEAN
  BY DEF IInv, Good
<1>2. /\ DOMAIN m = Fields /\ m.crossed = st.crossed
      /\ m.gen = st.gen /\ m.key = st.key /\ m.lock = st.lock /\ m.queue = st.queue
      /\ m.appended = st.appended /\ m.pending = st.pending /\ m.cursor = st.cursor
      /\ m.buf = st.buf /\ m.initDone = st.initDone /\ m.calls = st.calls /\ m.time = st.time
      /\ Base(st) => m.cut \in Int
  BY <1>1, RemoveFrame
<1>3. st' = s /\ rendered' = rendered /\ seek' = seek /\ st.calls[i].pc = "evict"
  BY DEF Evicted
<1> HIDE DEF m
<1>4. /\ DOMAIN s = Fields /\ s.crossed = (st.crossed \/ st.calls[i].gen # st.gen)
      /\ s.gen = st.gen /\ s.key = st.key /\ s.lock = FALSE /\ s.queue = st.queue
      /\ s.appended = st.appended /\ s.pending = st.pending
      /\ s.cursor = st.cursor /\ s.buf = st.buf /\ s.initDone = st.initDone
      /\ s.calls = [st.calls EXCEPT ![i] = Idle]
      /\ s.time = st.time /\ s.cut = m.cut
  BY <1>2 DEF Crossing, Fields
<1> HIDE DEF s
<1>5. ASSUME ~s.crossed PROVE Fine(s) /\ ~st.crossed
  <2>1. ~st.crossed /\ st.calls[i].gen = st.gen
    BY <1>1, <1>4, <1>5
  <2>2. Base(st) /\ Holds(i, st.gen, st.calls) /\ Locked(st.gen, st.key, st.lock, st.calls)
        /\ Windowed(st.key.anchor, st.buf, st.queue, st.cursor, st.appended, st.pending,
                    st.initDone)
        /\ st.time \in Int
    BY <1>3, <2>1 DEF IInv, Good, Fine, Base, Holds
  <2>3. /\ Locked(st.gen, st.key, FALSE, [st.calls EXCEPT ![i] = Idle])
        /\ \A k \in Slots : ~Holds(k, st.gen, [st.calls EXCEPT ![i] = Idle])
    BY <2>2, CallEnds
  <2>4. Windowed(s.key.anchor, s.buf, s.queue, s.cursor, s.appended, s.pending, s.initDone)
    BY <1>4, <2>2
  <2>5. Locked(s.gen, s.key, s.lock, s.calls) /\ \A k \in Slots : ~Holds(k, s.gen, s.calls)
    BY <1>4, <2>3
  <2>6. s.time \in Int /\ s.cut \in Int
    BY <1>2, <1>4, <2>2
  <2>7. Base(s)
    BY <1>4, <2>4, <2>5, <2>6 DEF Base
  <2> QED
    BY <2>1, <2>5, <2>7 DEF Fine, Aims
<1> QED
  BY <1>1, <1>3, <1>4, <1>5 DEF IInv, Good

\* A step that changes nothing the invariant depends on.
LEMMA FrameGood ==
  ASSUME IInv, DOMAIN st' = Fields, st'.crossed = st.crossed,
         st'.gen = st.gen, st'.key = st.key, st'.lock = st.lock, st'.queue = st.queue,
         st'.appended = st.appended, st'.pending = st.pending, st'.cursor = st.cursor,
         st'.buf = st.buf, st'.calls = st.calls, st'.initDone = st.initDone,
         st.time \in Int => st'.time \in Int, st'.cut = st.cut,
         rendered' \in Nat, seek' = seek
  PROVE  IInv'
<1>1. ASSUME ~st.crossed PROVE Fine(st')
  <2>1. Fine(st) /\ st.time \in Int /\ st.cut \in Int
    BY <1>1 DEF IInv, Good, Fine, Base
  <2> QED
    BY <2>1, Frame
<1> QED
  BY <1>1 DEF IInv, Good

LEMMA QuietGood ==
  ASSUME IInv, BackoffExpires \/ Rendered \/ Plays
  PROVE  IInv'
<1>1. DOMAIN st = Fields /\ rendered \in Nat
  BY DEF IInv, Good
<1>2. CASE BackoffExpires
  <2>1. st' = [st EXCEPT !.backoff = FALSE] /\ rendered' = rendered /\ seek' = seek
    BY <1>2 DEF BackoffExpires
  <2> QED
    BY <1>1, <2>1, FrameGood DEF Fields
<1>3. CASE Rendered
  <2>1. st' = [st EXCEPT !.initDue = TRUE] /\ rendered' = rendered + 1 /\ seek' = seek
    BY <1>3 DEF Rendered
  <2>2. rendered' \in Nat
    BY <1>1, <2>1
  <2> QED
    BY <1>1, <2>1, <2>2, FrameGood DEF Fields
<1>4. CASE Plays
  <2>1. st' = [st EXCEPT !.time = st.time + 1] /\ rendered' = rendered /\ seek' = seek
    BY <1>4 DEF Plays
  <2>2. st'.time = st.time + 1
    BY <1>1, <2>1 DEF Fields
  <2>3. st.time \in Int => st'.time \in Int
    BY <2>2
  <2> QED
    BY <1>1, <2>1, <2>3, FrameGood DEF Fields
<1> QED
  BY <1>2, <1>3, <1>4

LEMMA TickGood ==
  ASSUME IInv, Tick
  PROVE  IInv'
<1>1. st' = Maintain(st) /\ rendered' = rendered /\ seek' = seek /\ Unlocks(st)
  BY RoomIsFree DEF Tick
<1>2. Good(Maintain(st)) /\ Maintain(st).crossed = st.crossed
  BY <1>1, MaintainGood DEF IInv
<1> QED
  BY <1>1, <1>2 DEF IInv

LEMMA SeekToGood ==
  ASSUME IInv, Unlocks(st), NEW t, ~st.crossed => t \in Int
  PROVE  Good(SeekTo(st, t)) /\ SeekTo(st, t).crossed = st.crossed
<1> DEFINE x == ClampToBuffered(st, Smaller(t, RenderedDuration(st)))
           s == [st EXCEPT !.time = x]
<1>1. DOMAIN st = Fields /\ st.crossed \in BOOLEAN /\ rendered \in Nat
  BY DEF IInv, Good
<1>2. ASSUME ~st.crossed PROVE x \in Int
  <2>1. /\ st.cut \in Int /\ st.buf \in Seq(Nat) /\ st.key.anchor \in Nat /\ t \in Int
    BY <1>2 DEF IInv, Good, Fine, Base, Windowed
  <2>2. ChunkSeconds \in Nat
    BY Sizes
  <2>3. InManifest(st) \in Int
    BY <1>1, <2>1 DEF InManifest, Larger
  <2>4. RenderedDuration(st) \in Int
    BY <2>2, <2>3 DEF RenderedDuration
  <2>5. Smaller(t, RenderedDuration(st)) \in Int
    BY <2>1, <2>4 DEF Smaller
  <2>6. Len(st.buf) * ChunkSeconds \in Int
    BY <2>1, <2>2
  <2>7. BufferedStart(st) \in Int /\ BufferedEnd(st) \in Int
    BY <2>1, <2>6 DEF BufferedStart, BufferedEnd
  <2> QED
    BY <2>5, <2>7 DEF ClampToBuffered, Smaller, Larger
<1> HIDE DEF x
<1>3. /\ DOMAIN s = Fields /\ s.crossed = st.crossed
      /\ s.gen = st.gen /\ s.key = st.key /\ s.lock = st.lock /\ s.queue = st.queue
      /\ s.appended = st.appended /\ s.pending = st.pending /\ s.cursor = st.cursor
      /\ s.buf = st.buf /\ s.calls = st.calls /\ s.initDone = st.initDone
      /\ s.time = x /\ s.cut = st.cut
  BY <1>1 DEF Fields
<1>4. SeekTo(st, t) = Maintain(s)
  BY DEF SeekTo, x
<1> HIDE DEF s
<1>5. ASSUME ~st.crossed PROVE Fine(s)
  <2>1. Fine(st) /\ st.cut \in Int
    BY <1>5 DEF IInv, Good, Fine, Base
  <2> QED
    BY <1>2, <1>3, <1>5, <2>1, Frame
<1>6. Good(s)
  BY <1>1, <1>3, <1>5 DEF Good
<1>7. Unlocks(s)
  BY <1>3 DEF Unlocks, FreeSlots
<1>8. Good(Maintain(s)) /\ Maintain(s).crossed = s.crossed
  BY <1>1, <1>3, <1>6, <1>7, MaintainGood DEF IInv
<1> QED
  BY <1>3, <1>4, <1>8

LEMMA ApplySeekGood ==
  ASSUME IInv, ApplySeek
  PROVE  IInv'
<1>1. /\ st' = SeekTo(st, seek) /\ rendered' = rendered /\ seek' = NoSeek /\ Unlocks(st)
  BY RoomIsFree DEF ApplySeek
<1>2. Good(SeekTo(st, seek)) /\ SeekTo(st, seek).crossed = st.crossed
  BY <1>1, SeekToGood DEF IInv
<1> QED
  BY <1>1, <1>2 DEF IInv, NoSeek

LEMMA SeekToChunkGood ==
  ASSUME IInv, NEW c, NEW offset, ~st.crossed => c \in Nat /\ offset \in Int,
         SeekToChunk(c, offset)
  PROVE  IInv'
<1> DEFINE k == IF c # st.key.anchor THEN [st.key EXCEPT !.anchor = c]
                ELSE [st.key EXCEPT !.restart = @ + 1]
<1>1. DOMAIN st = Fields /\ st.crossed \in BOOLEAN
  BY DEF IInv, Good
<1>2. (st' = st \/ st' = OpenStream(st, k)) /\ seek' = offset /\ rendered' = rendered
  BY DEF SeekToChunk
<1>3. ASSUME ~st.crossed PROVE k \in StreamKey
  <2>1. st.key \in StreamKey /\ c \in Nat
    BY <1>3 DEF IInv, Good, Fine, Base, Locked
  <2> QED
    BY <2>1 DEF StreamKey
<1> HIDE DEF k
<1>4. DOMAIN OpenStream(st, k) = Fields /\ OpenStream(st, k).crossed = st.crossed
  BY <1>1 DEF OpenStream, Fields
<1>5. ~st.crossed => Fine(OpenStream(st, k))
  BY <1>3, OpenStreamFine DEF IInv, Good
<1>6. Good(st') /\ st'.crossed = st.crossed
  BY <1>1, <1>2, <1>4, <1>5 DEF IInv, Good
<1> QED
  BY <1>2, <1>6 DEF IInv

LEMMA SkipGood ==
  ASSUME IInv, NEW d \in {-SkipSeconds, SkipSeconds}, Skip(d)
  PROVE  IInv'
<1> DEFINE t == Smaller(Larger(0, st.time + d), RenderedDuration(st))
           c == st.key.anchor + Smaller(t \div ChunkSeconds, InManifest(st) - 1)
           o == t - (c - st.key.anchor) * ChunkSeconds
<1>1. rendered \in Nat /\ ChunkSeconds \in Nat /\ ChunkSeconds > 0 /\ d \in Int
  BY Sizes DEF IInv
<1>2. \/ st' = SeekTo(st, t) /\ rendered' = rendered /\ seek' = seek
      \/ SeekToChunk(c, o)
  BY DEF Skip
<1>3. InManifest(st) > 0 /\ Unlocks(st)
  BY RoomIsFree DEF Skip
<1>4. ASSUME ~st.crossed PROVE t \in Int /\ c \in Nat /\ o \in Int
  <2>1. st.time \in Int /\ st.key.anchor \in Nat
    BY <1>4 DEF IInv, Good, Fine, Base, Windowed
  <2>2. InManifest(st) \in Nat
    BY <1>1, <2>1 DEF InManifest, Larger
  <2>3. RenderedDuration(st) \in Nat
    BY <1>1, <2>2 DEF RenderedDuration
  <2>4. t \in Nat
    BY <1>1, <2>1, <2>3 DEF Smaller, Larger
  <2> HIDE DEF t
  <2>5. t \div ChunkSeconds \in Nat
    BY <1>1, <2>4
  <2>6. Smaller(t \div ChunkSeconds, InManifest(st) - 1) \in Nat
    BY <1>3, <2>2, <2>5 DEF Smaller
  <2>7. c \in Nat
    BY <2>1, <2>6
  <2> HIDE DEF c
  <2>8. o \in Int
    BY <1>1, <2>1, <2>4, <2>7
  <2> QED
    BY <2>4, <2>7, <2>8
<1> HIDE DEF t, c, o
<1>5. CASE st' = SeekTo(st, t) /\ rendered' = rendered /\ seek' = seek
  <2>1. Good(SeekTo(st, t)) /\ SeekTo(st, t).crossed = st.crossed
    BY <1>3, <1>4, SeekToGood
  <2> QED
    BY <1>5, <2>1 DEF IInv
<1>6. CASE SeekToChunk(c, o)
  BY <1>4, <1>6, SeekToChunkGood
<1> QED
  BY <1>2, <1>5, <1>6

-----------------------------------------------------------------------------
(* The theorems *)

LEMMA InitIsGood == Init => IInv
<1> SUFFICES ASSUME Init PROVE IInv
  OBVIOUS
<1>1. /\ DOMAIN st = Fields /\ st.crossed = FALSE
      /\ st.gen = 0 /\ st.key = FirstKey /\ st.lock = FALSE /\ st.queue = <<>>
      /\ st.appended = {} /\ st.pending = {} /\ st.cursor = 0
      /\ st.buf = <<>> /\ st.calls = [i \in Slots |-> Idle] /\ st.initDone = FALSE
      /\ st.time = 0 /\ st.cut = 0
  BY DEF Init, Fields
<1>2. FirstKey \in StreamKey /\ FirstKey.anchor = 0
  BY DEF FirstKey, StreamKey
<1>3. Locked(0, FirstKey, FALSE, [i \in Slots |-> Idle])
  BY <1>2, IdleCalling DEF Locked, Holds
<1>4. Windowed(0, <<>>, <<>>, 0, {}, {}, FALSE)
  <2>1. Len(<<>>) = 0 /\ <<>> \in Seq(Nat)
    OBVIOUS
  <2> QED
    BY <2>1 DEF Windowed
<1>5. Base(st)
  <2>1. Windowed(st.key.anchor, st.buf, st.queue, st.cursor, st.appended, st.pending,
                 st.initDone)
    BY <1>1, <1>2, <1>4
  <2>2. Locked(st.gen, st.key, st.lock, st.calls)
    BY <1>1, <1>3
  <2> QED
    BY <1>1, <2>1, <2>2 DEF Base
<1>6. Aims(st)
  BY <1>1, IdleCalling DEF Aims, Holds
<1>7. rendered \in Nat /\ seek \in Int
  BY DEF Init, NoSeek
<1> QED
  BY <1>1, <1>5, <1>6, <1>7 DEF IInv, Good, Fine

LEMMA NextKeepsGood == IInv /\ [Next]_vars => IInv'
<1> SUFFICES ASSUME IInv, [Next]_vars PROVE IInv'
  OBVIOUS
<1>1. CASE SourceOpen
  BY <1>1, SourceOpenGood
<1>2. CASE InitEffect
  BY <1>2, InitEffectGood
<1>3. CASE BackoffExpires \/ Rendered \/ Plays
  BY <1>3, QuietGood
<1>4. CASE Tick
  BY <1>4, TickGood
<1>5. CASE ApplySeek
  BY <1>5, ApplySeekGood
<1>6. CASE \E i \in Slots, ok \in BOOLEAN : InitFetched(i, ok)
  BY <1>6, InitFetchedGood
<1>7. ASSUME NEW i \in Slots,
             InitAppended(i) \/ Fetched(i) \/ FetchFailed(i) \/ Appended(i)
               \/ AppendFailed(i) \/ Recovered(i) \/ Evicted(i)
      PROVE  IInv'
  <2>1. CASE InitAppended(i)
    BY <2>1, InitAppendedGood
  <2>2. CASE Fetched(i)
    BY <2>2, FetchedGood
  <2>3. CASE FetchFailed(i)
    BY <2>3, FetchFailedGood
  <2>4. CASE Appended(i)
    BY <2>4, AppendedGood
  <2>5. CASE AppendFailed(i)
    BY <2>5, AppendFailedGood
  <2>6. CASE Recovered(i)
    BY <2>6, RecoveredGood
  <2>7. CASE Evicted(i)
    BY <2>7, EvictedGood
  <2> QED
    BY <1>7, <2>1, <2>2, <2>3, <2>4, <2>5, <2>6, <2>7
<1>8. ASSUME NEW c \in 0 .. (Chunks - 1), NEW offset \in 0 .. (ChunkSeconds - 1),
             SeekToChunk(c, offset)
      PROVE  IInv'
  <2>1. c \in Nat /\ offset \in Int
    BY Sizes
  <2> QED
    BY <1>8, <2>1, SeekToChunkGood
<1>9. CASE \E d \in {-SkipSeconds, SkipSeconds} : Skip(d)
  BY <1>9, SkipGood
<1>10. CASE UNCHANGED vars
  BY <1>10 DEF vars, IInv
<1> QED
  BY <1>1, <1>2, <1>3, <1>4, <1>5, <1>6, <1>7, <1>8, <1>9, <1>10 DEF Next

\* In every reachable state, what was appended, what is queued and what the
\* cursor has passed lie end to end, and at most one call of the current stream
\* holds the queue lock, unless a call of an older stream resumed in it.
THEOREM Invariance == Spec => []IInv
<1> QED
  BY InitIsGood, NextKeepsGood, PTL DEF Spec

LEMMA GoodIsPrefix == IInv => PrefixUnlessCrossed
<1> SUFFICES ASSUME IInv, ~st.crossed PROVE Prefix
  BY DEF PrefixUnlessCrossed
<1>1. Windowed(st.key.anchor, st.buf, st.queue, st.cursor, st.appended, st.pending,
               st.initDone)
  BY DEF IInv, Good, Fine, Base
<1>2. /\ st.buf \in Seq(Nat) /\ \A k \in 1 .. Len(st.buf) : st.buf[k] = st.key.anchor + k - 1
      /\ Len(st.buf) > 0 => st.initDone
  BY <1>1 DEF Windowed
<1>3. DOMAIN st.buf = 1 .. Len(st.buf) /\ (st.buf # <<>> => Len(st.buf) > 0)
  BY <1>2
<1> QED
  BY <1>2, <1>3 DEF Prefix

\* Whatever the chunks, lengths and limits: the SourceBuffer holds the init
\* segment and then the chunks from the anchor on, each once and in order,
\* through appends, failures, quota errors, evictions and seeks, unless a call
\* of an older stream resumed in this one (processQueue).
THEOREM StreamStaysPrefix == Spec => []PrefixUnlessCrossed
<1> QED
  BY Invariance, GoodIsPrefix, PTL

LEMMA GoodLosesNothing == IInv => NothingLost
<1> SUFFICES ASSUME IInv, ~st.crossed PROVE NothingLost
  BY DEF NothingLost
<1> DEFINE a == st.key.anchor
           n == Len(st.buf)
           q == Len(st.queue)
           busy == {i \in Slots : Live(i) /\ st.calls[i].pc \in {"append", "recover", "evict"}}
<1>1. /\ Windowed(a, st.buf, st.queue, st.cursor, st.appended, st.pending, st.initDone)
      /\ Locked(st.gen, st.key, st.lock, st.calls)
  BY DEF IInv, Good, Fine, Base
<1>2. /\ a \in Nat /\ st.buf \in Seq(Nat) /\ st.queue \in Seq(Nat) /\ st.cursor = n + q
      /\ st.appended = a .. (a + n - 1)
      /\ \A k \in 1 .. n : st.buf[k] = a + k - 1
      /\ \A k \in 1 .. q : st.queue[k] = a + n + k - 1
  BY <1>1 DEF Windowed
<1>3. /\ n \in Nat /\ q \in Nat /\ DOMAIN st.buf = 1 .. n /\ DOMAIN st.queue = 1 .. q
  BY <1>2
<1>4. Cardinality(busy) <= 1
  <2>1. \A i, k \in busy : i = k
    BY <1>1 DEF Locked, Holds, Live
  <2> HIDE DEF busy
  <2>2. CASE busy = {}
    <3>1. Cardinality(busy) = 0
      BY <2>2, FS_EmptySet
    <3> QED
      BY <3>1
  <2>3. CASE busy # {}
    <3>1. PICK i \in busy : busy = {i}
      BY <2>1, <2>3
    <3>2. Cardinality(busy) = 1
      BY <3>1, FS_Singleton
    <3> QED
      BY <3>2
  <2> QED
    BY <2>2, <2>3
<1> HIDE DEF a, n, q, busy
<1>5. ASSUME NEW c \in 0 .. (Chunks - 1), a <= c, c < a + st.cursor, c \notin st.appended
      PROVE  c \in {st.queue[k] : k \in DOMAIN st.queue}
  <2> DEFINE k == c - (a + n) + 1
  <2>1. c \in Int /\ c >= a + n /\ c < a + n + q
    BY <1>2, <1>3, <1>5, Sizes
  <2>2. k \in 1 .. q /\ a + n + k - 1 = c
    BY <1>2, <1>3, <2>1
  <2> HIDE DEF k
  <2>3. st.queue[k] = c
    BY <1>2, <2>2
  <2> QED
    BY <1>3, <2>2, <2>3
<1>6. st.appended = {st.buf[k] : k \in DOMAIN st.buf}
  <2>1. ASSUME NEW c \in st.appended PROVE c \in {st.buf[k] : k \in DOMAIN st.buf}
    <3> DEFINE k == c - a + 1
    <3>1. c \in a .. (a + n - 1)
      BY <1>2
    <3>2. k \in 1 .. n /\ a + k - 1 = c
      BY <1>2, <1>3, <3>1
    <3> HIDE DEF k
    <3>3. st.buf[k] = c
      BY <1>2, <3>2
    <3> QED
      BY <1>3, <3>2, <3>3
  <2>2. ASSUME NEW k \in DOMAIN st.buf PROVE st.buf[k] \in st.appended
    <3>1. k \in 1 .. n
      BY <1>3
    <3>2. st.buf[k] = a + k - 1
      BY <1>2, <3>1
    <3>3. a + k - 1 \in a .. (a + n - 1)
      BY <1>2, <1>3, <3>1
    <3> QED
      BY <1>2, <3>2, <3>3
  <2> QED
    BY <2>1, <2>2
<1> QED
  BY <1>4, <1>5, <1>6 DEF NothingLost, a, busy

\* Whatever the chunks, lengths and limits: at most one call of the current
\* stream is at work on the SourceBuffer, what the window's cursor has passed is
\* appended or queued, and appendedIndexes is exactly what the buffer was given,
\* unless a call of an older stream resumed (fillAppendWindow, the drop of the
\* queue in processQueue).
THEOREM NothingGetsLost == Spec => []NothingLost
<1> QED
  BY Invariance, GoodLosesNothing, PTL
=============================================================================
