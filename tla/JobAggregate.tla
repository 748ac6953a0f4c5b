---------------------------- MODULE JobAggregate ----------------------------
(***************************************************************************)
(* The job aggregate of server/app/jobs: one record per job and one        *)
(* operator per mutation that JobManager performs on it inside a single    *)
(* database transaction.  A job owns the takes of its chunks: the text is  *)
(* cut into pieces (indices 0, 1, ...), and each index has one or more     *)
(* takes (versions 0, 1, ...), exactly one of which is live.               *)
(*                                                                         *)
(* Abstractions.  Text, audio, timestamps, titles and error messages are   *)
(* left out.  A duration is one unit, so the cached counters and playable  *)
(* run of `_refresh_derived' are represented by the set of indices they    *)
(* were computed from (field counted).  JobStatus.FAILED and the chunk     *)
(* statuses QUEUED, STALE, REPROCESSING and MAX_RETRIES_EXCEEDED are       *)
(* assigned by no code path and have no counterpart here.                  *)
(***************************************************************************)
EXTENDS Integers, FiniteSets

CONSTANTS
  Voices,       \* voice ids a user may choose
  NoVoice,      \* the voice of a take that does not exist
  Models,       \* (model, language) pairs: the rest of the batching key
  MaxChunks,    \* bound: pieces the longest modelled text is cut into
  MaxVersion,   \* highest version the API lets a chunk reach (3 in the code)
  MaxPlan,      \* bound: plan_version at which voice changes stop
  MaxAttempts,  \* chunk_max_attempts
  PlanAhead     \* plan_ahead_chunks

\* Bounds on the configuration: `Field(ge=1)' in RuntimeConfig, and API limits.
ASSUME SizesAssumption ==
  /\ MaxChunks \in Nat \ {0}
  /\ MaxVersion \in Nat
  /\ MaxPlan \in Nat \ {0}
  /\ MaxAttempts \in Nat \ {0}
  /\ PlanAhead \in Nat \ {0}
  /\ Models # {}

Indices  == 0 .. (MaxChunks - 1)
Versions == 0 .. MaxVersion
Slots    == Indices \X Versions    \* <<chunk index, version>>

JobStatuses  == {"queued", "rendering", "paused", "playing", "completed"}
TakeStatuses == {"none", "planned", "rendering", "written", "failed"}
Places       == {"new", "live", "trashed", "gone"}
Pending      == {"planned", "rendering"}
Revoiceable  == {"planned", "failed"}

\* One ChunkRecord; a slot that holds no record has status "none".
Take == [status     : TakeStatuses,
         plan       : 0 .. MaxPlan,
         voice      : Voices \cup {NoVoice},
         deprecated : BOOLEAN,
         attempts   : 0 .. MaxAttempts]

NoTake == [status |-> "none", plan |-> 0, voice |-> NoVoice,
           deprecated |-> TRUE, attempts |-> 0]

NoVersion == -1

\* One Job row.  `place' is where the row is: not yet created, live, in the
\* trash (deleted_at set), or deleted for good.
Job == [place     : Places,
        status    : JobStatuses,
        listening : BOOLEAN,                      \* is_active_listening
        plan      : 1 .. MaxPlan,                 \* plan_version
        voice     : Voices \cup {NoVoice},
        model     : Models,
        length    : 0 .. MaxChunks,               \* pieces in source_text
        next      : 0 .. MaxChunks,               \* next_chunk_index
        exhausted : BOOLEAN,                      \* planner_cursor.offset < 0
        active    : [Indices -> Versions \cup {NoVersion}],
        takes     : [Slots -> Take],
        counted   : SUBSET Indices]               \* see _refresh_derived

NewJob(n, v, m) ==
  [place |-> "live", status |-> "queued", listening |-> FALSE, plan |-> 1,
   voice |-> v, model |-> m, length |-> n, next |-> 0, exhausted |-> FALSE,
   active |-> [i \in Indices |-> NoVersion],
   takes |-> [s \in Slots |-> NoTake], counted |-> {}]

-----------------------------------------------------------------------------
(* Reading a job *)

Exists(j, s)     == j.takes[s].status # "none"
LiveTake(j, s)   == Exists(j, s) /\ ~j.takes[s].deprecated
Written(j, s)    == j.takes[s].status = "written"
Finished(status) == status = "completed"

\* Job.has_unfinished_chunks: only live takes keep a job unfinished.
Unfinished(j) ==
  \E s \in Slots : LiveTake(j, s) /\ j.takes[s].status \in Pending

\* Wrong variant: every take of the current plan is ranked, done or not.
RenderableSlotsDoneToo(j) ==
  IF j.place # "live" \/ j.status = "paused" THEN {}
  ELSE {s \in Slots : LiveTake(j, s) /\ j.takes[s].plan = j.plan}

\* The takes `renderable_chunks' would yield for one job.
RenderableSlots(j) ==
  IF j.place # "live" \/ j.status = "paused" THEN {}
  ELSE {s \in Slots : /\ LiveTake(j, s)
                      /\ j.takes[s].status = "planned"
                      /\ j.takes[s].plan = j.plan}

\* Wrong variant: takes that were given up use up the plan-ahead.
PlannedAheadFailedToo(j) ==
  {s \in Slots : /\ LiveTake(j, s)
                 /\ j.takes[s].status \in Pending \cup {"failed"}
                 /\ j.takes[s].plan = j.plan}

\* Work of the current plan generation: what plan-ahead is counted in.
PlannedAhead(j) ==
  {s \in Slots : /\ LiveTake(j, s)
                 /\ j.takes[s].status \in Pending
                 /\ j.takes[s].plan = j.plan}

-----------------------------------------------------------------------------
(* Status and derived state *)

\* Wrong variant: completion is decided by the planner cursor alone.
SettleOnExhaustion(j) ==
  IF j.status \in {"paused", "completed"} THEN j
  ELSE IF j.exhausted
       THEN [j EXCEPT !.status = "completed", !.listening = FALSE]
       ELSE [j EXCEPT !.status = IF j.listening THEN "playing" ELSE "queued"]

\* Wrong variant: a finished batch rewrites the status of a paused job.
SettleIgnoringPause(j) ==
  IF j.status = "completed" THEN j
  ELSE IF j.exhausted /\ ~Unfinished(j)
       THEN [j EXCEPT !.status = "completed", !.listening = FALSE]
       ELSE [j EXCEPT !.status = IF j.listening THEN "playing" ELSE "queued"]

Settle(j) ==
  IF j.status \in {"paused", "completed"} THEN j
  ELSE IF j.exhausted /\ ~Unfinished(j)
       THEN [j EXCEPT !.status = "completed", !.listening = FALSE]
       ELSE [j EXCEPT !.status = IF j.listening THEN "playing" ELSE "queued"]

\* The indices whose live take is written: what the counters, the playable
\* run and the timeline describe.
WrittenIndices(j) ==
  {i \in Indices : \E v \in Versions :
                      LiveTake(j, <<i, v>>) /\ Written(j, <<i, v>>)}

Refresh(j) == [j EXCEPT !.counted = WrittenIndices(j)]

\* Job.activate_chunk_version, the only writer of `deprecated' after planning.
ActivateVersion(j, i, v) ==
  [j EXCEPT
    !.active[i] = v,
    !.takes = [s \in Slots |->
                 IF s[1] = i /\ Exists(j, s)
                 THEN [j.takes[s] EXCEPT !.deprecated = (s[2] # v)]
                 ELSE j.takes[s]]]

-----------------------------------------------------------------------------
(* Voice changes *)

\* Wrong variant: a re-voiced take keeps the generation it was planned under.
ApplyVoiceKeepingPlan(j, t) ==
  [t EXCEPT !.status = "planned", !.voice = j.voice, !.attempts = 0]

ApplyVoice(j, t) ==
  [t EXCEPT !.status = "planned", !.voice = j.voice, !.plan = j.plan,
            !.attempts = 0]

\* The condition of _requeue_superseded_chunk.
Superseded(j, t) == ~t.deprecated /\ t.plan # j.plan

\* Wrong variant: an in-flight take is re-pointed at once, under the worker.
RevoiceInFlight(j, t, full) ==
  IF t.deprecated THEN t
  ELSE IF full \/ t.status \in Revoiceable \cup {"rendering"}
       THEN ApplyVoice(j, t) ELSE t

\* What set_voice does to one take; `j' already has the new voice and plan.
Revoice(j, t, full) ==
  IF t.deprecated THEN t
  ELSE IF t.status = "rendering"
       THEN IF full THEN t ELSE [t EXCEPT !.plan = j.plan]
       ELSE IF full \/ t.status \in Revoiceable THEN ApplyVoice(j, t) ELSE t

\* Whether set_voice put at least one take back in the queue.
RevoicesSome(j, full) ==
  \E s \in Slots : /\ LiveTake(j, s)
                   /\ j.takes[s].status # "rendering"
                   /\ full \/ j.takes[s].status \in Revoiceable

SetVoice(j, v, full) ==
  LET pointed == [j EXCEPT !.voice = v, !.plan = @ + 1]
      revoiced == Refresh([pointed EXCEPT
                    !.takes = [s \in Slots |-> Revoice(pointed, j.takes[s], full)]])
  IN  IF RevoicesSome(j, full) \/ full
      THEN Settle([revoiced EXCEPT
                     !.status = IF Finished(@) THEN "queued" ELSE @])
      ELSE revoiced

-----------------------------------------------------------------------------
(* Planning *)

\* The skips of _ensure_planned_chunks and _needs_more_planning, whose lookahead
\* cap is in RenderQueue (HeldBack).
NeedsPlanning(j) ==
  /\ j.place = "live"
  /\ j.status \notin {"paused", "completed"}
  /\ ~j.exhausted
  /\ Cardinality(PlannedAhead(j)) < PlanAhead

\* The planning loop for one job: add_planned_chunk until enough work is
\* planned or the text ends, then finish_planning if the loop asked for a
\* piece beyond the end.
PlanChunks(j) ==
  LET room  == PlanAhead - Cardinality(PlannedAhead(j))
      left  == j.length - j.next
      n     == IF left < room THEN left ELSE room
      fresh == j.next .. (j.next + n - 1)
      planned ==
        [j EXCEPT
          !.next = @ + n,
          !.exhausted = (n = left /\ n > 0),
          !.active = [i \in Indices |-> IF i \in fresh THEN 0 ELSE j.active[i]],
          !.takes = [s \in Slots |->
                       IF s[1] \in fresh /\ s[2] = 0
                       THEN [status |-> "planned", plan |-> j.plan,
                             voice |-> j.voice, deprecated |-> FALSE,
                             attempts |-> 0]
                       ELSE j.takes[s]]]
  IN  IF left < room THEN Settle([planned EXCEPT !.exhausted = TRUE])
      ELSE planned

-----------------------------------------------------------------------------
(* What the worker reports.  S is a set of slots of one job: the scheduler *)
(* marks a whole batch without awaiting, one chunk after the other.  The   *)
(* marks of different takes commute and Settle depends only on which live  *)
(* takes are pending, so the loop is one simultaneous map and one Settle.  *)

MarkRendering(j, S) ==
  [j EXCEPT !.status = IF @ = "paused" THEN @ ELSE "rendering",
            !.takes = [s \in Slots |->
                         IF s \in S THEN [j.takes[s] EXCEPT !.status = "rendering"]
                                    ELSE j.takes[s]]]

\* _requeue_chunk_locked, for the take.
Requeue(j, t) ==
  IF Superseded(j, t) THEN ApplyVoice(j, t) ELSE [t EXCEPT !.status = "planned"]

MarkPlanned(j, S) ==
  Settle([j EXCEPT !.takes = [s \in Slots |->
            IF s \in S THEN Requeue(j, j.takes[s]) ELSE j.takes[s]]])

\* Wrong variant: an attempt is counted even when the take is given up.
RetryOrFailCountingLast(j, t) ==
  IF t.attempts >= MaxAttempts
  THEN IF Superseded(j, t) THEN ApplyVoice(j, t)
                           ELSE [t EXCEPT !.status = "failed"]
  ELSE Requeue(j, [t EXCEPT !.attempts = @ + 1])

\* One chunk in _handle_batch_failure: mark_chunk_failed or mark_chunk_retry.
RetryOrFail(j, t) ==
  IF t.attempts + 1 >= MaxAttempts
  THEN IF Superseded(j, t) THEN ApplyVoice(j, t)
                           ELSE [t EXCEPT !.status = "failed"]
  ELSE Requeue(j, [t EXCEPT !.attempts = @ + 1])

\* Wrong variant: a failing batch fails the job.
MarkBatchFailedWithJob(j, S) ==
  Refresh([j EXCEPT !.status = "failed",
                    !.takes = [s \in Slots |->
                      IF s \in S THEN RetryOrFail(j, j.takes[s]) ELSE j.takes[s]]])

\* Wrong variant: giving up a take forgets to settle its job.
MarkBatchFailedUnsettled(j, S) ==
  Refresh([j EXCEPT !.takes = [s \in Slots |->
             IF s \in S THEN RetryOrFail(j, j.takes[s]) ELSE j.takes[s]]])

\* _handle_batch_failure, for the takes of one job; only giving one up
\* refreshes the counters.
MarkBatchFailed(j, S) ==
  LET marked == [j EXCEPT !.takes = [s \in Slots |->
                   IF s \in S THEN RetryOrFail(j, j.takes[s]) ELSE j.takes[s]]]
      gaveUp == \E s \in S : j.takes[s].attempts + 1 >= MaxAttempts
  IN  Settle(IF gaveUp THEN Refresh(marked) ELSE marked)

\* Wrong variant: stale audio is stored under the plan it was rendered for.
MarkWrittenRegardless(j, s) ==
  Settle(Refresh([j EXCEPT !.takes[s].status = "written"]))

\* Wrong variant: the counters are left for the next refresh.
MarkWrittenUnrefreshed(j, s) ==
  IF Superseded(j, j.takes[s])
  THEN [j EXCEPT !.takes[s] = ApplyVoice(j, @)]
  ELSE Settle([j EXCEPT !.takes[s].status = "written"])

\* A superseded take goes back to the queue, and that path does not settle.
MarkWritten(j, s) ==
  IF Superseded(j, j.takes[s])
  THEN [j EXCEPT !.takes[s] = ApplyVoice(j, @)]
  ELSE Settle(Refresh([j EXCEPT !.takes[s].status = "written"]))

-----------------------------------------------------------------------------
(* User commands on one job *)

ActivateJob(j) ==
  [j EXCEPT !.listening = TRUE,
            !.status = IF Finished(@) THEN @ ELSE "playing"]

PauseJob(j) ==
  [j EXCEPT !.listening = FALSE,
            !.status = IF Finished(@) THEN @ ELSE "paused"]

ResumeJob(j) == [j EXCEPT !.status = IF Finished(@) THEN @ ELSE "queued"]

UpdatePlayback(j, playing) ==
  IF Finished(j.status) THEN [j EXCEPT !.listening = playing]
  ELSE IF playing /\ j.status # "paused"
       THEN [j EXCEPT !.listening = TRUE, !.status = "playing"]
       ELSE j

\* expire_stale_listeners, for one job whose listener went silent.
ExpireListener(j) ==
  [j EXCEPT !.listening = FALSE,
            !.status = IF @ = "playing" THEN "queued" ELSE @]

\* _reactivate_locked.
Reactivate(j) ==
  IF Finished(j.status) THEN [j EXCEPT !.status = "queued", !.listening = FALSE]
  ELSE j

\* v is get_latest_chunk_version(i) + 1, and the API still allows it.
NextVersion(j, i, v) ==
  /\ v \in Versions \ {0}
  /\ Exists(j, <<i, v - 1>>)
  /\ \A w \in Versions : Exists(j, <<i, w>>) => w < v

\* Wrong variant: the new take is added beside the live one.
AddVersionBeside(j, i, v, voice) ==
  LET r == Reactivate(j)
  IN  Settle(Refresh([r EXCEPT !.takes[<<i, v>>] =
        [status |-> "planned", plan |-> r.plan, voice |-> voice,
         deprecated |-> FALSE, attempts |-> 0]]))

\* add_versioned_chunk: a new take of index i, live at once.
AddVersion(j, i, v, voice) ==
  LET r     == Reactivate(j)
      added == [r EXCEPT !.takes[<<i, v>>] =
                  [status |-> "planned", plan |-> r.plan, voice |-> voice,
                   deprecated |-> FALSE, attempts |-> 0]]
  IN  Settle(Refresh(ActivateVersion(added, i, v)))

\* set_active_chunk_version.
SwitchVersion(j, i, v) == Settle(Refresh(ActivateVersion(j, i, v)))

-----------------------------------------------------------------------------
(* What holds of one job between transactions; RenderQueue states these of *)
(* every row as its invariants.                                            *)

LiveTakesAgree(j) ==
  \A i \in Indices :
    IF i < j.next
    THEN /\ j.active[i] \in Versions
         /\ Exists(j, <<i, j.active[i]>>)
         /\ \A w \in Versions : LiveTake(j, <<i, w>>) <=> w = j.active[i]
    ELSE /\ j.active[i] = NoVersion
         /\ \A w \in Versions : ~Exists(j, <<i, w>>)

DoneIfCompleted(j) == Finished(j.status) => j.exhausted /\ ~Unfinished(j)

\* A take nothing will ever rank, and its job waits for it.
Orphaned(j, s) ==
  LiveTake(j, s) /\ j.takes[s].status = "planned" /\ j.takes[s].plan # j.plan

QueuedUnderPlan(j) == \A s \in Slots : ~Orphaned(j, s)

AttemptsBounded(j) ==
  \A s \in Slots :
    Exists(j, s) =>
      /\ j.takes[s].attempts < MaxAttempts
      /\ j.takes[s].status = "failed" => j.takes[s].attempts = MaxAttempts - 1
=============================================================================
