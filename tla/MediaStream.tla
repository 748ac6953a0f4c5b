---------------------------- MODULE MediaStream ----------------------------
(***************************************************************************)
(* The reader's media stream: the buffering half of useMediaSourcePlayer   *)
(* (web/src/lib/media-source.ts) and the window rules of media-window.ts.  *)
(*                                                                         *)
(* A chunk lasts ChunkSeconds and positions are whole seconds, so the      *)
(* 50 ms tolerances of the code are 0 here.  A stream is opened for a key  *)
(* (anchor chunk and restart number); opening another one resets every ref *)
(* of the hook, but asynchronous calls of the old stream are still out     *)
(* there.  Every call is a slot of st.calls that records the stream it was *)
(* made in (gen), which the code itself cannot see: it compares keys, and  *)
(* a key can come back.  Code between two awaits is one action.            *)
(***************************************************************************)
EXTENDS Integers, Sequences, FiniteSets

CONSTANTS
  Chunks,           \* number of chunks of the document
  ChunkSeconds,     \* length of a chunk
  Ahead,            \* STREAM_WINDOW_AHEAD_SECONDS
  Refill,           \* STREAM_WINDOW_REFILL_SECONDS
  KeepBehind,       \* STREAM_WINDOW_KEEP_BEHIND_SECONDS
  EmergencyKeep,    \* STREAM_WINDOW_EMERGENCY_KEEP_BEHIND_SECONDS
  Lookahead,        \* STREAM_WINDOW_SEEK_LOOKAHEAD_SECONDS
  SkipSeconds,      \* how far the skip buttons go
  Quota,            \* external: seconds a SourceBuffer holds
  DetachedSettles,  \* external: calls on a detached SourceBuffer settle
  MaxStreams,       \* bound: streams opened
  MaxCalls          \* bound: asynchronous calls at a time

ASSUME StreamAssumption ==
  /\ {Chunks, ChunkSeconds, Ahead, Refill, Quota, MaxStreams, MaxCalls} \subseteq Nat \ {0}
  /\ {KeepBehind, EmergencyKeep, Lookahead, SkipSeconds} \subseteq Nat
  /\ Refill <= Ahead /\ EmergencyKeep <= KeepBehind
  /\ DetachedSettles \in BOOLEAN

VARIABLES
  st,         \* the refs of the hook, its audio element and its calls
  rendered,   \* chunks written so far, without a gap (the manifest)
  seek        \* pendingSeekSeconds, in stream seconds, or NoSeek

vars == <<st, rendered, seek>>

NoSeek == -1
Slots  == 1 .. MaxCalls
Keys   == [anchor : 0 .. (Chunks - 1), restart : 0 .. MaxStreams]

Call == [pc   : {"off", "initFetch", "initAppend", "fetch", "append", "recover", "evict"},
         gen  : 0 .. MaxStreams,      \* the stream the call was made in
         key  : Keys,                 \* the key its closure holds
         on   : 0 .. MaxStreams,      \* the stream whose buffer it is changing
         chunk : 0 .. (Chunks - 1),
         upto : Nat]                  \* end of the range to remove

State ==
  [gen : 0 .. MaxStreams, key : Keys,   \* activeStreamKeyRef
   open : BOOLEAN,                      \* sourceBufferRef is set
   initPending : BOOLEAN, initDone : BOOLEAN,
   initDue : BOOLEAN,                   \* a dependency of the init effect changed
   lock : BOOLEAN,                      \* processingQueueRef
   queue : Seq(0 .. (Chunks - 1)),      \* appendQueueRef
   appended : SUBSET (0 .. (Chunks - 1)), pending : SUBSET (0 .. (Chunks - 1)),
   cursor : 0 .. Chunks,                \* windowCursorRef
   backoff : BOOLEAN,                   \* Date.now() < appendRetryAtRef
   retried : SUBSET (0 .. (Chunks - 1)),
   buf : Seq(0 .. (Chunks - 1)),        \* what was appended, in order
   cut : Nat,                           \* seconds removed from the front
   time : Nat,                          \* audio.currentTime
   calls : [Slots -> Call],
   crossed : BOOLEAN]                   \* history: a call of an old stream
                                        \* changed the refs of a newer one

FirstKey == [anchor |-> 0, restart |-> 0]

Idle == [pc |-> "off", gen |-> 0, key |-> FirstKey, on |-> 0, chunk |-> 0, upto |-> 0]

Init ==
  /\ st = [gen |-> 0, key |-> FirstKey, open |-> FALSE,
           initPending |-> FALSE, initDone |-> FALSE, initDue |-> TRUE,
           lock |-> FALSE, queue |-> <<>>, appended |-> {}, pending |-> {},
           cursor |-> 0, backoff |-> FALSE, retried |-> {},
           buf |-> <<>>, cut |-> 0, time |-> 0,
           calls |-> [i \in Slots |-> Idle], crossed |-> FALSE]
  /\ rendered = 0
  /\ seek = NoSeek

-----------------------------------------------------------------------------
(* The buffer, as the audio element shows it *)

Larger(a, b)  == IF a >= b THEN a ELSE b
Smaller(a, b) == IF a <= b THEN a ELSE b

Retained(s)      == Len(s.buf) * ChunkSeconds - s.cut
BufferedStart(s) == IF Retained(s) > 0 THEN s.cut ELSE 0
BufferedEnd(s)   == IF Retained(s) > 0 THEN Len(s.buf) * ChunkSeconds ELSE 0
IsBuffered(s, t) == Retained(s) > 0 /\ BufferedStart(s) <= t /\ t <= BufferedEnd(s)
IsEvicted(s, t)  == Retained(s) > 0 /\ t < BufferedStart(s)

ClampToBuffered(s, t) ==
  IF Retained(s) = 0 THEN 0
  ELSE Larger(BufferedStart(s), Smaller(t, BufferedEnd(s)))

\* The stream's manifest: the written run from the anchor on.
InManifest(s)       == Larger(0, rendered - s.key.anchor)
RenderedDuration(s) == InManifest(s) * ChunkSeconds

Updating(s) ==
  \E i \in Slots : /\ s.calls[i].pc \in {"initAppend", "append", "recover", "evict"}
                   /\ s.calls[i].on = s.gen

\* resolveEvictionRange: where the removal ends, or 0 when it is not worth it.
EvictionEnd(s, keep) ==
  IF s.time - keep > BufferedStart(s) THEN s.time - keep ELSE 0

NeedsWindowFill(s) ==
  \/ seek # NoSeek /\ seek > BufferedEnd(s)
  \/ BufferedEnd(s) - s.time < Ahead - Refill

AppendWindowEnd(s) ==
  IF seek = NoSeek THEN s.time + Ahead ELSE Larger(s.time + Ahead, seek + Lookahead)

-----------------------------------------------------------------------------
(* The synchronous parts of the hook, as functions on its state *)

FreeSlots(s) == {i \in Slots : s.calls[i].pc = "off"}
FreeSlot(s)  == CHOOSE i \in FreeSlots(s) : \A k \in FreeSlots(s) : i <= k

Begin(s, i, pc) ==
  [s EXCEPT !.calls[i] = [Idle EXCEPT !.pc = pc, !.gen = s.gen, !.key = s.key, !.on = s.gen]]

\* Wrong variant: eviction does not take part in the queue lock.
EvictUnlocked(s) ==
  LET end == EvictionEnd(s, KeepBehind)
  IN  IF ~s.open \/ end = 0 THEN s
      ELSE [Begin(s, FreeSlot(s), "evict") EXCEPT !.calls[FreeSlot(s)].upto = end]

\* evictPlayedAudio up to its await.
Evict(s) ==
  LET end == EvictionEnd(s, KeepBehind)
  IN  IF ~s.open \/ Updating(s) \/ s.lock \/ end = 0 THEN s
      ELSE [Begin(s, FreeSlot(s), "evict") EXCEPT !.calls[FreeSlot(s)].upto = end,
                                                  !.lock = TRUE]

\* The end of processQueue: the finally clause, then evictPlayedAudio.
Release(s, i) ==
  Evict([s EXCEPT !.calls[i] = Idle, !.lock = FALSE])

\* The head of processQueue's loop, up to the fetch.
NextInQueue(s, i) ==
  IF s.queue = <<>> \/ s.key # s.calls[i].key THEN Release(s, i)
  ELSE [s EXCEPT !.calls[i].pc = "fetch", !.calls[i].chunk = Head(s.queue)]

ProcessQueue(s) ==
  IF s.lock \/ ~s.open THEN s
  ELSE LET i == FreeSlot(s) IN NextInQueue([Begin(s, i, "fetch") EXCEPT !.lock = TRUE], i)

\* The order of a queue: by index.
Ascending(S) ==
  [k \in 1 .. Cardinality(S) |-> CHOOSE c \in S : Cardinality({d \in S : d < c}) = k - 1]

\* fillAppendWindow: queue the chunks that start before the window's end.
Fill(s) ==
  LET stop  == Smaller(InManifest(s), (AppendWindowEnd(s) + ChunkSeconds - 1) \div ChunkSeconds)
      fresh == ((s.key.anchor + s.cursor) .. (s.key.anchor + stop - 1))
                 \ (s.appended \cup s.pending)
  IN  IF ~s.initDone \/ s.queue # <<>> \/ s.backoff \/ ~NeedsWindowFill(s) THEN s
      ELSE LET filled == [s EXCEPT !.queue = Ascending(fresh), !.pending = @ \cup fresh,
                                   !.cursor = Larger(@, stop)]
           IN  IF fresh = {} THEN filled ELSE ProcessQueue(filled)

\* runWindowMaintenance, which updatePlaybackState calls.
Maintain(s) == Evict(Fill(s))

\* Wrong variant: the cursor is not rewound to the chunk that failed.
DropQueueForward(s, i) ==
  Release([s EXCEPT !.pending = @ \ {s.queue[k] : k \in DOMAIN s.queue},
                    !.queue = <<>>, !.backoff = TRUE], i)

\* The chunk cannot be appended now: forget the queue, try again later.
DropQueue(s, i) ==
  Release([s EXCEPT !.pending = @ \ {s.queue[k] : k \in DOMAIN s.queue},
                    !.queue = <<>>,
                    !.cursor = s.calls[i].chunk - s.calls[i].key.anchor,
                    !.backoff = TRUE], i)

\* The catch clause of processQueue, with recoverFromBufferQuota up to its await.
Caught(s, i, isQuota) ==
  LET c   == s.calls[i].chunk
      off == [s EXCEPT !.pending = @ \ {c}]
      end == EvictionEnd(s, EmergencyKeep)
  IN  IF ~isQuota \/ c \in s.retried THEN DropQueue(off, i)
      ELSE IF ~s.open \/ Updating(s) \/ end = 0
      THEN DropQueue([off EXCEPT !.retried = @ \cup {c}], i)
      ELSE [off EXCEPT !.retried = @ \cup {c}, !.calls[i].pc = "recover",
                       !.calls[i].on = s.gen, !.calls[i].upto = end]

\* A call of an old stream is about to change what belongs to a newer one.
Crossing(s, i) ==
  [s EXCEPT !.crossed = @ \/ s.calls[i].gen # s.gen]

\* What a removal does to the buffer when it settles.
Remove(s, i) ==
  IF s.calls[i].on # s.gen THEN s
  ELSE [s EXCEPT !.cut = Smaller(Len(s.buf) * ChunkSeconds, Larger(@, s.calls[i].upto))]

\* The stream effect: clean up the old stream and open one for key k.
OpenStream(s, k) ==
  [s EXCEPT !.gen = @ + 1, !.key = k, !.open = FALSE,
            !.initPending = FALSE, !.initDone = FALSE, !.initDue = TRUE,
            !.lock = FALSE, !.queue = <<>>, !.appended = {}, !.pending = {},
            !.cursor = 0, !.backoff = FALSE, !.retried = {},
            !.buf = <<>>, !.cut = 0, !.time = 0]

-----------------------------------------------------------------------------
(* Calls settle *)

Live(i) == st.calls[i].gen = st.gen
Room    == Cardinality(FreeSlots(st)) >= 2     \* bound: MaxCalls

\* A call on a buffer: the browser may never settle it once it is detached.
Settles(i) == st.calls[i].on = st.gen \/ DetachedSettles

SourceOpen ==
  /\ Room /\ ~st.open
  /\ st' = Maintain([st EXCEPT !.open = TRUE])
  /\ UNCHANGED <<rendered, seek>>

\* The effect that fetches the init segment; its url is known once a chunk is
\* written.  It runs when the stream opens and when the manifest changes.
InitEffect ==
  /\ Room /\ st.initDue
  /\ st.open /\ rendered > 0 /\ ~st.initDone /\ ~st.initPending
  /\ st' = [Begin(st, FreeSlot(st), "initFetch") EXCEPT !.initPending = TRUE,
                                                        !.initDue = FALSE]
  /\ UNCHANGED <<rendered, seek>>

InitFetched(i, ok) ==
  /\ Room /\ st.calls[i].pc = "initFetch"
  /\ st' = IF ok /\ st.key = st.calls[i].key /\ st.open /\ ~Updating(st)
           THEN [Crossing(st, i) EXCEPT !.calls[i].pc = "initAppend", !.calls[i].on = st.gen]
           ELSE [st EXCEPT !.calls[i] = Idle, !.initPending = FALSE]
  /\ UNCHANGED <<rendered, seek>>

InitAppended(i) ==
  /\ Room /\ st.calls[i].pc = "initAppend" /\ Settles(i)
  /\ LET ended == [Crossing(st, i) EXCEPT !.calls[i] = Idle, !.initPending = FALSE]
     IN  st' = IF st.key # st.calls[i].key
               THEN [st EXCEPT !.calls[i] = Idle, !.initPending = FALSE]
               ELSE Maintain([ended EXCEPT !.initDone = TRUE])
  /\ UNCHANGED <<rendered, seek>>

\* processQueue goes on with the bytes of its chunk.
Fetched(i) ==
  /\ Room /\ st.calls[i].pc = "fetch"
  /\ LET s == [st EXCEPT !.crossed = @ \/ (~Live(i) /\ (st.lock \/ st.key = st.calls[i].key))]
     IN  st' = IF st.key # st.calls[i].key \/ ~st.open THEN Release(s, i)
               ELSE IF Updating(st) THEN Caught(s, i, FALSE)
               ELSE IF Retained(st) + ChunkSeconds > Quota THEN Caught(s, i, TRUE)
               ELSE [s EXCEPT !.calls[i].pc = "append", !.calls[i].on = st.gen]
  /\ UNCHANGED <<rendered, seek>>

FetchFailed(i) ==
  /\ Room /\ st.calls[i].pc = "fetch"
  /\ st' = Caught(Crossing(st, i), i, FALSE)
  /\ UNCHANGED <<rendered, seek>>

Appended(i) ==
  /\ Room /\ st.calls[i].pc = "append" /\ Settles(i)
  /\ LET c == st.calls[i].chunk
         s == [Crossing(st, i) EXCEPT
                 !.buf = IF st.calls[i].on = st.gen THEN Append(@, c) ELSE @,
                 !.calls[i].on = 0, !.calls[i].pc = "fetch",
                 !.queue = IF @ = <<>> THEN @ ELSE Tail(@),
                 !.pending = @ \ {c}, !.appended = @ \cup {c}, !.backoff = FALSE]
     IN  st' = NextInQueue(Maintain(s), i)
  /\ UNCHANGED <<rendered, seek>>

AppendFailed(i) ==
  /\ Room /\ st.calls[i].pc = "append" /\ Settles(i)
  /\ st' = Caught([Crossing(st, i) EXCEPT !.calls[i].on = 0, !.calls[i].pc = "fetch"], i, FALSE)
  /\ UNCHANGED <<rendered, seek>>

\* recoverFromBufferQuota freed what it could: the loop tries again.
Recovered(i) ==
  /\ Room /\ st.calls[i].pc = "recover" /\ Settles(i)
  /\ LET s == [Crossing(Remove(st, i), i) EXCEPT
                 !.calls[i].on = 0, !.calls[i].pc = "fetch",
                 !.pending = @ \cup {st.calls[i].chunk}]
     IN  st' = NextInQueue(Maintain(s), i)
  /\ UNCHANGED <<rendered, seek>>

Evicted(i) ==
  /\ st.calls[i].pc = "evict" /\ Settles(i)
  /\ st' = [Crossing(Remove(st, i), i) EXCEPT !.calls[i] = Idle, !.lock = FALSE]
  /\ UNCHANGED <<rendered, seek>>

BackoffExpires ==
  /\ st.backoff
  /\ st' = [st EXCEPT !.backoff = FALSE]
  /\ UNCHANGED <<rendered, seek>>

-----------------------------------------------------------------------------
(* The page and the listener *)

\* The server wrote the next chunk: the manifest grows and the effects run.
Rendered ==
  /\ Room /\ rendered < Chunks
  /\ rendered' = rendered + 1
  /\ st' = [st EXCEPT !.initDue = TRUE]
  /\ UNCHANGED seek

\* The playback tick and every media event: updatePlaybackState; the manifest
\* effect calls fillAppendWindow alone, which a tick does as well.
Tick ==
  /\ Room /\ Maintain(st) # st
  /\ st' = Maintain(st)
  /\ UNCHANGED <<rendered, seek>>

\* The element plays a second of what is buffered.
Plays ==
  /\ IsBuffered(st, st.time) /\ st.time < BufferedEnd(st)
  /\ st' = [st EXCEPT !.time = @ + 1]
  /\ UNCHANGED <<rendered, seek>>

\* seekToSeconds, with the updatePlaybackState at its end.
SeekTo(s, t) ==
  Maintain([s EXCEPT !.time = ClampToBuffered(s, Smaller(t, RenderedDuration(s)))])

\* The pending-seek effect.
ApplySeek ==
  /\ Room /\ seek # NoSeek /\ st.initDone /\ InManifest(st) > 0
  /\ seek <= BufferedEnd(st) /\ IsBuffered(st, seek)
  /\ st' = SeekTo(st, seek)
  /\ seek' = NoSeek
  /\ UNCHANGED rendered

\* handleSeekToChunk of the reader: a second of a written chunk becomes the
\* anchor and the pending seek; the stream is reopened at the same anchor only
\* when it does not hold the position.
SeekToChunk(c, offset) ==
  /\ c < rendered
  /\ LET k == IF c # st.key.anchor THEN [st.key EXCEPT !.anchor = c]
              ELSE [st.key EXCEPT !.restart = @ + 1]
     IN  IF c = st.key.anchor /\ IsBuffered(st, offset) THEN UNCHANGED st
         ELSE st.gen < MaxStreams /\ st' = OpenStream(st, k)
  /\ seek' = offset
  /\ UNCHANGED rendered

\* handleSkip: inside the buffer, clamped to its end, or through the anchor.
Skip(delta) ==
  LET t == Smaller(Larger(0, st.time + delta), RenderedDuration(st))
      c == st.key.anchor + Smaller(t \div ChunkSeconds, InManifest(st) - 1)
  IN  /\ Room /\ InManifest(st) > 0
      /\ IF IsBuffered(st, t) \/ (st.initDone /\ ~IsEvicted(st, t))
         THEN st' = SeekTo(st, t) /\ UNCHANGED <<rendered, seek>>
         ELSE SeekToChunk(c, t - (c - st.key.anchor) * ChunkSeconds)

Next ==
  \/ SourceOpen \/ InitEffect \/ BackoffExpires \/ Rendered \/ Tick \/ Plays \/ ApplySeek
  \/ \E i \in Slots, ok \in BOOLEAN : InitFetched(i, ok)
  \/ \E i \in Slots : InitAppended(i) \/ Fetched(i) \/ FetchFailed(i) \/ Appended(i)
                        \/ AppendFailed(i) \/ Recovered(i) \/ Evicted(i)
  \/ \E c \in 0 .. (Chunks - 1), offset \in 0 .. (ChunkSeconds - 1) : SeekToChunk(c, offset)
  \/ \E d \in {-SkipSeconds, SkipSeconds} : Skip(d)

Spec == Init /\ [][Next]_vars

-----------------------------------------------------------------------------
(* Safety *)

TypeOK ==
  /\ st \in State
  /\ rendered \in 0 .. Chunks
  /\ seek \in {NoSeek} \cup Nat

\* What the SourceBuffer holds is a prefix of the anchored stream: the init
\* segment first, then the chunks from the anchor on, each once and in order
\* (media-window.ts: "The window is a *prefix* of the anchored stream"; a chunk
\* missing or doubled would shift everything after it, because sequence mode
\* lays segments out back to back).
Prefix ==
  /\ st.buf # <<>> => st.initDone
  /\ \A k \in DOMAIN st.buf : st.buf[k] = st.key.anchor + k - 1

\* The stream stays a prefix through appends, failures, quota errors, evictions
\* and seeks, unless a call of an older stream resumed in this one
\* (processQueue's awaits).
PrefixUnlessCrossed == ~st.crossed => Prefix

\* Unless an older call resumed, the queue lock keeps calls on the SourceBuffer
\* apart, and no chunk that was taken out of the window's scan is lost: what the
\* cursor passed is appended, queued or in flight (fillAppendWindow, the drop
\* of the queue in processQueue).
NothingLost ==
  ~st.crossed =>
    /\ Cardinality({i \in Slots : Live(i) /\ st.calls[i].pc \in {"append", "recover", "evict"}}) <= 1
    /\ \A c \in 0 .. (Chunks - 1) :
         st.key.anchor <= c /\ c < st.key.anchor + st.cursor =>
           \/ c \in st.appended
           \/ c \in {st.queue[k] : k \in DOMAIN st.queue}
    /\ st.appended = {st.buf[k] : k \in DOMAIN st.buf}

\* What is queued has a loop at work on it.  It fails when the window is filled
\* while a removal holds the lock: processQueue returns at once, and nothing
\* calls it again as long as the queue is not empty (fillAppendWindow).
QueueServed == ~st.crossed /\ st.queue # <<>> => st.lock

=============================================================================
