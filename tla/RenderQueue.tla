---------------------------- MODULE RenderQueue ----------------------------
(***************************************************************************)
(* The render queue of the server: the scheduler task (scheduler/service)  *)
(* turning planned takes into written ones in batches, interleaved with    *)
(* the commands users send over HTTP (api/router, library/service).        *)
(*                                                                         *)
(* Everything runs on one asyncio loop, so code between two awaits is one  *)
(* action.  The tick has three await points that let commands in: the      *)
(* memory probe before a dispatch (phase "probing"), the batch on the GPU  *)
(* ("rendering"), and the broadcast after each result ("applying").        *)
(*                                                                         *)
(* Left to other modules or out: which group wins and how large a batch    *)
(* may be (any nonempty part of one group, up to MaxBatch), the order in   *)
(* which a batch lists its chunks (any), seconds, and the model's state.   *)
(***************************************************************************)
EXTENDS JobAggregate

CONSTANTS
  Jobs,         \* job ids
  MaxBatch,     \* the largest batch candidate
  Commands,     \* the user commands this instance lets users send
  Lookahead     \* whether render_ahead_seconds > 0: planning may be held back

AllCommands ==
  {"activate", "pause", "resume", "playback", "voice", "reprocess", "switch",
   "trash", "purge", "delete"}

ASSUME InstanceAssumption ==
  /\ MaxBatch \in Nat \ {0}
  /\ Commands \subseteq AllCommands
  /\ Lookahead \in BOOLEAN

VARIABLES
  jobs,        \* the job table
  phase,       \* where the scheduler task is suspended
  ranked,      \* the takes ranked by this tick, held across the memory probe
  batch,       \* the dispatched takes whose outcome is not applied yet
  results,     \* the part of batch the worker returned audio for
  stranded     \* history: takes a requeue loop never got to (see RequeueAll)

vars == <<jobs, phase, ranked, batch, results, stranded>>
scheduler == <<phase, ranked, batch, results, stranded>>

Refs   == Jobs \X Slots      \* a reference to one ChunkRecord
Phases == {"idle", "probing", "rendering", "applying"}

Of(S, j)    == {s \in Slots : <<j, s>> \in S}     \* the slots of j that S refers to
TakeAt(r)   == jobs[r[1]].takes[r[2]]
InTable(j)  == jobs[j].place \in {"live", "trashed"}
StatusOf(r) == TakeAt(r).status
\* The batching key: chunks of one batch share model, language and voice.
GroupOf(r)  == <<jobs[r[1]].model, TakeAt(r).voice>>

Absent == [NewJob(0, NoVoice, CHOOSE m \in Models : TRUE) EXCEPT !.place = "new"]

Init ==
  /\ jobs = [j \in Jobs |-> Absent]
  /\ phase = "idle"
  /\ ranked = {} /\ batch = {} /\ results = {} /\ stranded = {}

-----------------------------------------------------------------------------
(* User commands.  Each is one transaction on a live row. *)

\* The row of j becomes k.
Update(j, k) ==
  /\ jobs[j].place = "live"
  /\ jobs' = [jobs EXCEPT ![j] = k]
  /\ UNCHANGED scheduler

CreateJob(j) ==
  /\ jobs[j].place = "new"
  /\ \E n \in 0 .. MaxChunks, v \in Voices, m \in Models :
       jobs' = [jobs EXCEPT ![j] = NewJob(n, v, m)]
  /\ UNCHANGED scheduler

Activate(j) == "activate" \in Commands /\ Update(j, ActivateJob(jobs[j]))
Pause(j)    == "pause" \in Commands /\ Update(j, PauseJob(jobs[j]))
Resume(j)   == "resume" \in Commands /\ Update(j, ResumeJob(jobs[j]))

ReportPlayback(j) ==
  /\ "playback" \in Commands
  /\ \E playing \in BOOLEAN : Update(j, UpdatePlayback(jobs[j], playing))

\* A partial change to the current voice returns early and changes nothing.
ChangeVoice(j) ==
  /\ "voice" \in Commands
  /\ jobs[j].plan < MaxPlan
  /\ \E v \in Voices, full \in BOOLEAN :
       /\ v = jobs[j].voice => full
       /\ Update(j, SetVoice(jobs[j], v, full))

Reprocess(j) ==
  /\ "reprocess" \in Commands
  /\ \E i \in Indices, v \in Versions, voice \in Voices :
       /\ NextVersion(jobs[j], i, v)
       /\ Update(j, AddVersion(jobs[j], i, v, voice))

\* Any take of the index may be made live, rendered or not.
SetActiveVersion(j) ==
  /\ "switch" \in Commands
  /\ \E i \in Indices, v \in Versions :
       /\ Exists(jobs[j], <<i, v>>)
       /\ Update(j, SwitchVersion(jobs[j], i, v))

\* Soft delete and restore touch only deleted_at, as far as the queue is
\* concerned; purge removes a trashed row, DELETE /jobs removes either kind.
Trash(j) ==
  /\ "trash" \in Commands
  /\ Update(j, [jobs[j] EXCEPT !.place = "trashed"])

Restore(j) ==
  /\ jobs[j].place = "trashed"
  /\ jobs' = [jobs EXCEPT ![j].place = "live"]
  /\ UNCHANGED scheduler

Remove(j) ==
  /\ \/ "purge" \in Commands /\ jobs[j].place = "trashed"
     \/ "delete" \in Commands /\ InTable(j)
  /\ jobs' = [jobs EXCEPT ![j].place = "gone"]
  /\ UNCHANGED scheduler

-----------------------------------------------------------------------------
(* The scheduler tick *)

\* expire_stale_listeners: the live jobs in S have been silent too long.
ExpireListeners ==
  /\ phase = "idle"
  /\ \E S \in SUBSET {j \in Jobs : jobs[j].place = "live" /\ jobs[j].listening} :
       /\ S # {}
       /\ jobs' = [j \in Jobs |-> IF j \in S THEN ExpireListener(jobs[j]) ELSE jobs[j]]
  /\ UNCHANGED scheduler

\* The jobs the lookahead cap of _needs_more_planning may hold back: it takes
\* buffered audio, so the playable run is not empty; how much there is beyond
\* the playhead, and which jobs opted out (render_to_end), is left open.
HeldBack == {j \in Jobs : Lookahead /\ 0 \in jobs[j].counted}

\* The rows after _ensure_planned_chunks, when the cap holds back `held'.
Planned(held) == [j \in Jobs |->
  IF NeedsPlanning(jobs[j]) /\ j \notin held THEN PlanChunks(jobs[j])
                                            ELSE jobs[j]]

\* Plan ahead, then rank.  Dispatch may still be skipped before ranking: the
\* provider is in ERROR, or nothing is renderable.
Plan ==
  /\ phase = "idle"
  /\ \E held \in SUBSET HeldBack : jobs' = Planned(held)
  /\ UNCHANGED scheduler

\* Wrong variant: ranking does not leave paused jobs out.
RankPausedToo ==
  /\ phase = "idle"
  /\ \E held \in SUBSET HeldBack :
       LET due == {r \in Refs : r[2] \in RenderableSlots([Planned(held)[r[1]]
                                            EXCEPT !.status = "queued"])}
       IN  /\ due # {}
           /\ jobs' = Planned(held)
           /\ ranked' = due
  /\ phase' = "probing"
  /\ UNCHANGED <<batch, results, stranded>>

\* _rank_renderable_chunks: the takes due after planning.
PlanAndRank ==
  /\ phase = "idle"
  /\ \E held \in SUBSET HeldBack :
       LET due == {r \in Refs : r[2] \in RenderableSlots(Planned(held)[r[1]])}
       IN  /\ due # {}
           /\ jobs' = Planned(held)
           /\ ranked' = due
  /\ phase' = "probing"
  /\ UNCHANGED <<batch, results, stranded>>

\* Memory readings missing, or live VRAM at the hard limit.
DispatchBlocked ==
  /\ phase = "probing"
  /\ phase' = "idle"
  /\ ranked' = {}
  /\ UNCHANGED <<jobs, batch, results, stranded>>

\* A ranked job left the table during the probe: get_job raises in _group_key
\* and the tick ends in run_forever's handler.
DispatchRaises ==
  /\ phase = "probing"
  /\ \E r \in ranked : jobs[r[1]].place # "live"
  /\ phase' = "idle"
  /\ ranked' = {}
  /\ UNCHANGED <<jobs, batch, results, stranded>>

\* Nothing is re-checked after the probe: the ranked takes are dispatched even
\* if their job was paused or they were superseded meanwhile.
DispatchBatch(b) ==
  /\ phase = "probing"
  /\ \A r \in ranked : jobs[r[1]].place = "live"
  /\ b # {} /\ Cardinality(b) <= MaxBatch
  /\ \A r, q \in b : GroupOf(r) = GroupOf(q)
  /\ jobs' = [j \in Jobs |-> IF Of(b, j) = {} THEN jobs[j]
                             ELSE MarkRendering(jobs[j], Of(b, j))]
  /\ batch' = b
  /\ phase' = "rendering"
  /\ ranked' = {}
  /\ UNCHANGED <<results, stranded>>

Dispatch == \E b \in SUBSET ranked : DispatchBatch(b)

-----------------------------------------------------------------------------
(* The worker's outcomes *)

\* Synthesis or packaging failed: every chunk is retried or given up; chunks
\* of a purged job are skipped (KeyError is caught per chunk).
BatchFails ==
  /\ phase = "rendering"
  /\ jobs' = [j \in Jobs |-> IF Of(batch, j) = {} \/ ~InTable(j) THEN jobs[j]
                             ELSE MarkBatchFailed(jobs[j], Of(batch, j))]
  /\ phase' = "idle"
  /\ batch' = {}
  /\ UNCHANGED <<ranked, results, stranded>>

\* for chunk in ...: mark_chunk_planned(chunk), with no handler: a purged job
\* raises out of the loop, and the takes after it stay as they are.
RequeueAll ==
  \E done \in SUBSET {r \in batch : InTable(r[1])} :
    /\ \/ done = batch
       \/ \E r \in batch : ~InTable(r[1])
    /\ jobs' = [j \in Jobs |-> IF Of(done, j) = {} THEN jobs[j]
                               ELSE MarkPlanned(jobs[j], Of(done, j))]
    /\ stranded' = stranded \cup {r \in batch \ done : InTable(r[1])}
    /\ batch' = {}
    /\ phase' = "idle"

\* The model could not be loaded (ModelVRAMError): no attempt is charged.
LoadFails ==
  /\ phase = "rendering"
  /\ RequeueAll
  /\ UNCHANGED <<ranked, results>>

\* Out of memory halves the batch until it fits, so the worker may return
\* audio for a half, a quarter, ... of it.
Shrinks(n) == {k \in 1 .. n : \E e \in 0 .. n : k = n \div (2 ^ e)}

RenderReturns(done) ==
  /\ phase = "rendering"
  /\ Cardinality(done) \in Shrinks(Cardinality(batch))
  /\ phase' = "applying"
  /\ results' = done
  /\ UNCHANGED <<jobs, ranked, batch, stranded>>

\* One result; the broadcast that follows it lets commands in.
ApplyResult ==
  /\ phase = "applying"
  /\ \E r \in results :
       /\ jobs' = IF InTable(r[1])
                  THEN [jobs EXCEPT ![r[1]] = MarkWritten(jobs[r[1]], r[2])]
                  ELSE jobs
       /\ results' = results \ {r}
       /\ batch' = batch \ {r}
  /\ UNCHANGED <<phase, ranked, stranded>>

\* What the worker did not return goes back to the queue.
RequeueLeftovers ==
  /\ phase = "applying"
  /\ results = {}
  /\ RequeueAll
  /\ UNCHANGED <<ranked, results>>

-----------------------------------------------------------------------------
User(j) ==
  \/ CreateJob(j) \/ Activate(j) \/ Pause(j) \/ Resume(j) \/ ReportPlayback(j)
  \/ ChangeVoice(j) \/ Reprocess(j) \/ SetActiveVersion(j)
  \/ Trash(j) \/ Restore(j) \/ Remove(j)

Tick == Plan \/ PlanAndRank

Scheduler ==
  \/ ExpireListeners \/ Tick \/ DispatchBlocked \/ DispatchRaises \/ Dispatch
  \/ BatchFails \/ LoadFails \/ (\E done \in SUBSET batch : RenderReturns(done))
  \/ ApplyResult \/ RequeueLeftovers

Next == (\E j \in Jobs : User(j)) \/ Scheduler

Spec == Init /\ [][Next]_vars

-----------------------------------------------------------------------------
(* Safety *)

\* Every variable has its type.  In particular no job is ever FAILED.
TypeOK ==
  /\ jobs \in [Jobs -> Job]
  /\ phase \in Phases
  /\ ranked \subseteq Refs
  /\ batch \subseteq Refs
  /\ results \subseteq batch
  /\ stranded \subseteq Refs

\* The RENDERING takes are exactly the batch in flight, apart from those a
\* raising requeue loop left behind (`_active_batch': "the rendering set is
\* the active batch").  While a batch is out, nothing else may take or leave
\* that status, whatever users do to its job.
FlightIsRendering ==
  \A r \in Refs : InTable(r[1]) =>
    (StatusOf(r) = "rendering" <=> r \in batch \cup stranded)

\* Each planned index has exactly one live take, the one active_chunk_version
\* names, and an index that is not planned yet has none (`activate_chunk_version':
\* the map and the deprecated flags "can never disagree").
OneLiveTake == \A j \in Jobs : InTable(j) => LiveTakesAgree(jobs[j])

\* A job becomes COMPLETED only when it is planned to the end of its text and
\* none of its live takes waits for the GPU, and from then on no report, voice
\* change or new take gives it work without taking it out of COMPLETED
\* (`has_unfinished_chunks', `_reactivate_locked', the end of `set_voice').
\* The one exception: on a completed job, a switch to a take that was never
\* rendered leaves the status as it is until that take is dispatched.
CompletionIsEarned ==
  [][\A j \in Jobs : DoneIfCompleted(jobs[j]) =>
       \/ DoneIfCompleted(jobs'[j])
       \/ SetActiveVersion(j) /\ Finished(jobs[j].status)]_vars

\* No live take is lost: one that waits in PLANNED waits under the current
\* plan version, so the next tick can rank it (manager.py:642, 260-262: a switch
\* is to "an already-rendered take", and what the scheduler can still act on "is
\* re-rendered rather than orphaned").  Refuted on a small instance (README).
NoOrphan == \A j \in Jobs : InTable(j) => QueuedUnderPlan(jobs[j])

\* What holds instead: voice changes, retries, requeues, late results, new takes
\* and plans orphan no take; the only step that does is a switch to a take that
\* was superseded before it was rendered.
OrphanedBySwitchOnly ==
  [][\A r \in Refs : Orphaned(jobs'[r[1]], r[2]) =>
       \/ Orphaned(jobs[r[1]], r[2])
       \/ SetActiveVersion(r[1]) /\ TakeAt(r).deprecated]_vars

\* The counters and the playable run were computed from the takes as they are
\* now: no path that changes what is written or live forgets _refresh_derived.
DerivedFresh ==
  \A j \in Jobs : InTable(j) => jobs[j].counted = WrittenIndices(jobs[j])

\* A take is given up exactly when its attempts run out, and a take in the
\* queue always has an attempt left (`_handle_batch_failure').
AttemptBudget == \A j \in Jobs : InTable(j) => AttemptsBounded(jobs[j])

\* A job shows RENDERING only while the GPU works on it or it has a take the
\* next tick can dispatch (`_settle_status': no job sits in RENDERING with
\* nothing in flight).
RenderingHasWork ==
  \A j \in Jobs : InTable(j) /\ jobs[j].status = "rendering" =>
    \/ Of(batch \cup stranded, j) # {}
    \/ \E s \in Slots : LiveTake(jobs[j], s) /\ jobs[j].takes[s].status = "planned"

\* A take left behind by a requeue loop is what the comment at
\* scheduler/service.py:850 rules out: "put back in the queue so it is rendered
\* on a later tick rather than left stuck in RENDERING".
NoneStranded == \A r \in stranded : ~InTable(r[1])

\* Pause is sticky: only resume and activate take a job out of PAUSED; no tick,
\* no batch outcome, no position report and no other command does.
PauseSticky ==
  [][\A j \in Jobs : jobs[j].status = "paused" =>
       jobs'[j].status = "paused" \/ Activate(j) \/ Resume(j)]_vars

\* Finished audio is never taken back except by a voice change: a take leaves
\* WRITTEN, or is re-voiced, only when its job's plan version moves.
WrittenStaysWritten ==
  [][\A r \in Refs : StatusOf(r) = "written" =>
       \/ StatusOf(r)' = "written" /\ TakeAt(r)'.voice = TakeAt(r).voice
       \/ jobs'[r[1]].plan > jobs[r[1]].plan]_vars

\* The takes a full re-render caught in flight: live, on the GPU, and still under
\* the plan version they were dispatched with.
CaughtInFlight(r) ==
  /\ InTable(r[1]) /\ StatusOf(r) = "rendering"
  /\ Superseded(jobs[r[1]], TakeAt(r))

\* Such a take stays as it is, loses its place to another take, or goes back to
\* the queue under the job's current voice and plan.
Revoiced(r) ==
  LET u == TakeAt(r)'
      k == jobs'[r[1]]
  IN  \/ u.deprecated
      \/ u.status = "rendering" /\ u.plan # k.plan
      \/ u.status = "planned" /\ u.voice = k.voice /\ u.plan = k.plan

\* `set_voice' of a take in flight: "for a full re-render it is requeued with the
\* new voice" (manager.py:275-276).  Refuted on a small instance (README).
FullRerenderHolds == [][\A r \in Refs : CaughtInFlight(r) => Revoiced(r)]_vars

\* What holds instead: a take in flight that a full re-render replaced is never
\* written in its old voice, through retries, failures, purges, switches and
\* further full re-renders, until a partial voice change pins it to the plan of
\* that moment (`set_voice': "it is written as-is instead of being requeued").
SupersededIsRevoiced ==
  [][\A r \in Refs : CaughtInFlight(r) =>
       \/ Revoiced(r)
       \/ jobs'[r[1]] = SetVoice(jobs[r[1]], jobs'[r[1]].voice, FALSE)]_vars

-----------------------------------------------------------------------------
(* Progress *)

Serves(j, S) == Of(S, j) # {}

\* Ticks keep coming, and a probe, a batch and a broadcast each end.
TickFairness ==
  /\ WF_vars(Plan)
  /\ WF_vars(PlanAndRank)
  /\ WF_vars(DispatchBlocked \/ DispatchRaises \/ Dispatch)
  /\ WF_vars(BatchFails \/ LoadFails \/ (\E done \in SUBSET batch : RenderReturns(done)))
  /\ WF_vars(ApplyResult)
  /\ WF_vars(RequeueLeftovers)

FairSpec == Spec /\ TickFairness

\* What rendering to the end needs beyond that: the dispatch policy gives every
\* job with ranked work a turn, and a job's batches do not all end in a model
\* that cannot be loaded.
TurnFairness ==
  \A j \in Jobs :
    /\ SF_vars(\E b \in SUBSET ranked : DispatchBatch(b) /\ Serves(j, b))
    /\ SF_vars(\/ BatchFails /\ Serves(j, batch)
               \/ \E done \in SUBSET batch : RenderReturns(done) /\ Serves(j, done))

\* A job nobody pauses or trashes, with no live take that was stranded by a
\* raising requeue loop (NoneStranded) or orphaned by a switch (NoOrphan).
Undisturbed(j) ==
  /\ jobs[j].place = "live"
  /\ jobs[j].status # "paused"
  /\ \A r \in stranded : r[1] = j => TakeAt(r).deprecated
  /\ QueuedUnderPlan(jobs[j])

Done(j) == jobs[j].exhausted /\ ~Unfinished(jobs[j])

\* However often it is re-voiced, reprocessed or switched meanwhile, and whatever
\* happens to the jobs it shares batches with: a job that is undisturbed from
\* some time on is rendered to the end, planned out with none of its live takes
\* left waiting, and is so again after each command that gives it new work
\* (with render_ahead_seconds = 0, its default).
RendersToEnd ==
  TurnFairness => \A j \in Jobs : <>[]Undisturbed(j) => []<>Done(j)

\* A pause that is left in place stops the GPU work of that job for good, even
\* if its model never loads: a batch ranked before the pause may still run, and
\* nothing after it.
PausedJobStops ==
  \A j \in Jobs :
    <>[](jobs[j].status = "paused") => <>[](Of(batch, j) = {})

\* The status a reader waits for: a job left alone and unpaused completes
\* (README.md: "the scheduler renders every non-paused job to the end").
NarrationCompletes ==
  TurnFairness =>
    \A j \in Jobs : <>[]Undisturbed(j) => <>(jobs[j].status = "completed")
=============================================================================
