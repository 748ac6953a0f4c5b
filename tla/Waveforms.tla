----------------------------- MODULE Waveforms -----------------------------
(***************************************************************************)
(* The chunks a reader page shows, and the hook that fetches the peaks of  *)
(* their waveforms (hooks/useChunkWaveforms.ts): one queue, worked off one *)
(* fetch at a time, and an effect that follows the list of chunks.         *)
(*                                                                         *)
(* A chunk is its active take with the length of its audio; the server and *)
(* the page's handling of its events are the step ChunkChanges.            *)
(* A take stands for what peaksKey tells apart: version and peaks_url,     *)
(* none of which comes back.  Peaks are known by their take.               *)
(***************************************************************************)
EXTENDS Integers, FiniteSets, Sequences, Functions

CONSTANTS
  N,            \* number of chunks
  Lengths,      \* lengths audio may have
  MaxChanges,   \* bound: changes of the chunks
  MaxMisses     \* bound: fetches that fail

ASSUME WaveformsAssumption ==
  /\ N \in Nat \ {0}
  /\ Lengths # {} /\ Lengths \subseteq Nat \ {0}
  /\ {MaxChanges, MaxMisses} \subseteq Nat

VARIABLES
  chunks,   \* activeChunks of the page
  wave      \* the state of the hook

Slot == 0 .. N - 1
NoKey == 0

\* peaksKey, of a chunk that has a peaks_url.
PeaksKey(c) == IF c.status = "written" THEN c.take ELSE NoKey

NoFetch == [index |-> -1, key |-> NoKey]

\* The hook as it is mounted, and when it has all the peaks there are.
WaveInit(settled) ==
  LET keys == [i \in Slot |-> IF settled THEN PeaksKey(chunks[i]) ELSE NoKey]
  IN  wave = [dirty      |-> ~settled,   \* the effect on chunks is due
              queue      |-> <<>>,
              processing |-> FALSE,
              inflight   |-> {},
              fetched    |-> keys,
              map        |-> keys,       \* waveforms
              now        |-> NoFetch,    \* the fetch that is awaited
              missed     |-> {},         \* whose last fetch failed
              crossed    |-> {}]         \* whose take changed during its fetch

-----------------------------------------------------------------------------
(* The chunks *)

Chunk(status, length, take) == [status |-> status, length |-> length, take |-> take]

\* Rendering: the take is written or fails.
Rendered(c) == {Chunk("written", l, c.take) : l \in Lengths} \cup {Chunk("failed", 0, c.take)}

\* The page shows other chunks; the effect runs after the render.
Show(cs) ==
  LET changed == {i \in Slot : cs[i].take # chunks[i].take}
      flying  == {i \in changed : i = wave.now.index}
  IN  /\ chunks' = cs
      /\ wave' = [wave EXCEPT !.dirty = TRUE, !.missed = @ \ changed,
                              !.crossed = (@ \ changed) \cup flying]

\* A chunk is rendered; a new take of it is planned; or another take that is
\* written is made the active one, which gives every chunk a new peaks_url
\* (audio_epoch).
ChunkChanges(i) ==
  \/ chunks[i].status = "planned" /\ \E c \in Rendered(chunks[i]) : Show([chunks EXCEPT ![i] = c])
  \/ Show([chunks EXCEPT ![i] = Chunk("planned", 0, @.take + 1)])
  \/ \E l \in Lengths :
       Show([k \in Slot |-> IF k = i THEN Chunk("written", l, chunks[i].take + 1)
                            ELSE [chunks[k] EXCEPT !.take = @ + 1]])

-----------------------------------------------------------------------------
(* The hook *)

\* Chunks whose peaks are neither fetched, nor being fetched, nor queued.
Lacking(w) ==
  SelectSeq([k \in 1 .. N |-> k - 1],
            LAMBDA i : /\ PeaksKey(chunks[i]) \notin {NoKey, w.fetched[i]}
                       /\ i \notin w.inflight
                       /\ \A k \in DOMAIN w.queue : w.queue[k] # i)

\* enqueue
Enqueue(w) ==
  LET queue == w.queue \o Lacking(w)
  IN  [w EXCEPT !.queue = queue, !.processing = @ \/ queue # <<>>]

\* The effect on chunks: peaks of other takes are dropped, then work is queued.
Reconcile ==
  /\ wave.dirty
  /\ wave' = Enqueue([wave EXCEPT
       !.dirty = FALSE,
       !.map = [i \in Slot |-> IF wave.fetched[i] # NoKey /\ wave.fetched[i] = PeaksKey(chunks[i])
                               THEN wave.map[i] ELSE NoKey]])
  /\ UNCHANGED chunks

\* Wrong variant: a chunk without peaks stays among those being fetched.
SkippedForGood(w, i) == [w EXCEPT !.inflight = @ \cup {i}]

\* The chunk has no peaks by now: the finally clause lets go of it.
Skipped(w, i) == w

\* processQueue: the next index, or the end of the queue.
NextFetch ==
  /\ wave.processing /\ wave.now = NoFetch
  /\ wave' =
       IF wave.queue = <<>> THEN [wave EXCEPT !.processing = FALSE]
       ELSE LET i == Head(wave.queue)
                w == [wave EXCEPT !.queue = Tail(@)]
            IN  IF PeaksKey(chunks[i]) = NoKey THEN Skipped(w, i)
                ELSE [w EXCEPT !.inflight = @ \cup {i}, !.missed = @ \ {i},
                               !.crossed = @ \ {i},
                               !.now = [index |-> i, key |-> PeaksKey(chunks[i])]]
  /\ UNCHANGED chunks

\* The answer, whatever the chunk has become meanwhile.
FetchDone(ok) ==
  LET i == wave.now.index
      w == [wave EXCEPT !.now = NoFetch, !.inflight = @ \ {i}]
  IN  /\ wave.now # NoFetch
      /\ wave' = IF ok THEN [w EXCEPT !.fetched[i] = wave.now.key, !.map[i] = wave.now.key]
                 ELSE [w EXCEPT !.missed = @ \cup {i}]
      /\ UNCHANGED chunks

HookRuns == Reconcile \/ NextFetch \/ FetchDone(TRUE)

-----------------------------------------------------------------------------
\* Every chunk whose audio is there gets its own peaks, whichever takes come and
\* go while the queue is worked off ("a reprocess or a full re-render re-fetches
\* instead of keeping peaks for superseded audio").  Not for a chunk whose fetch
\* failed, which waits for the next change of the list, nor for one whose take
\* changed while its peaks were being fetched.
PeaksArrive ==
  \A i \in Slot, t \in 1 .. MaxChanges + 1 :
    PeaksKey(chunks[i]) = t /\ i \notin wave.crossed
      ~> \/ wave.map[i] = t
         \/ PeaksKey(chunks[i]) # t \/ i \in wave.missed \cup wave.crossed
=============================================================================
