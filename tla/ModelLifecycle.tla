--------------------------- MODULE ModelLifecycle ---------------------------
(***************************************************************************)
(* The resident speech model: ModelManager's state machine, the provider   *)
(* behind it and its single worker thread, driven by the scheduler tick    *)
(* (scheduler/service, synthesis/worker) and by the admin endpoints warm,  *)
(* evict, reset and config (api/router).                                   *)
(*                                                                         *)
(* The event loop and the worker thread run side by side.  A coroutine     *)
(* hands the thread a callable and is resumed after it returns; in between *)
(* any other coroutine may run, and the loop may resume the caller later   *)
(* than the thread finished (variable done).  A call that times out cannot *)
(* be interrupted: its thread carries on with nobody waiting.              *)
(*                                                                         *)
(* Left out: chunks and their statuses (see RenderQueue), seconds, memory  *)
(* readings, voice prompts, and failures of unloading itself.              *)
(***************************************************************************)
EXTENDS Naturals, FiniteSets, Sequences, SequencesExt

CONSTANTS
  Models,        \* model ids
  NoModel,
  DefaultModel,  \* default_model_id, what the warm endpoint loads
  Tick,          \* the scheduler task
  Admins,        \* admin requests that may be open at one time
  Nobody,        \* the owner of a call whose caller has given up
  AdminOps,      \* the admin operations this instance lets them send
  MaxSize        \* the largest batch candidate

ASSUME LifecycleAssumption ==
  /\ DefaultModel \in Models /\ NoModel \notin Models
  /\ Tick \notin Admins /\ Nobody \notin Admins \cup {Tick}
  /\ AdminOps \subseteq {"warm", "evict", "reset", "device"}
  /\ MaxSize \in Nat \ {0}

Callers == Admins \cup {Tick}
ModelStates ==
  {"unloaded", "loading", "warm_idle", "busy", "evicting", "not_enough_vram", "error"}

VARIABLES
  state, loaded,   \* ModelManager._state, ._loaded_model_id
  held,            \* the provider's _model and _loaded_model_id
  queue,           \* calls handed to the current executor; its thread takes the head
  started,         \* the thread is running the head of queue
  used,            \* the model object a running synthesis picked up
  zombies,         \* calls still running on executors that a reset replaced
  done,            \* finished calls whose caller the loop has not resumed yet
  pc, want,        \* where each caller is suspended; the model it asked for
  work,            \* has_renderable_chunks
  size,            \* chunks in the batch the tick is synthesizing
  missed,          \* history: the manager does not learn of held's last change
  meddled          \* history: an admin's warm or evict was open when the thread
                   \* began its call, or was sent since

manager  == <<state, loaded>>
executor == <<queue, started, used>>
ask      == <<want, work, size>>
vars == <<state, loaded, held, queue, started, used, zombies, done, pc, want,
          work, size, missed, meddled>>

Call   == [who : Callers \cup {Nobody}, model : Models,
           kind : {"load", "unload", "synth", "clear"}]
Answer == [who : Callers, result : {"ok", "vram", "oom", "error", "cancelled"}]

Suspended == {"loading", "synth", "clearing", "unloading"}   \* on the thread
InBatch   == {"announcing", "synth", "clearing", "packaging"}

Init ==
  /\ state = "unloaded" /\ loaded = NoModel /\ held = NoModel
  /\ queue = <<>> /\ started = FALSE /\ used = NoModel
  /\ zombies = {} /\ done = <<>>
  /\ pc = [c \in Callers |-> "idle"]
  /\ want = [c \in Callers |-> DefaultModel]
  /\ work \in BOOLEAN
  /\ size = 0
  /\ missed = FALSE /\ meddled = FALSE

-----------------------------------------------------------------------------
(* Steps several callers share *)

\* _call_in_worker: c is suspended until the thread has run the call.
Submit(c, kind, m, at) ==
  /\ queue' = Append(queue, [who |-> c, kind |-> kind, model |-> m])
  /\ pc' = [pc EXCEPT ![c] = at]

\* The loop resumes c with the result of its call.
Resumed(c, at, result) ==
  /\ pc[c] = at
  /\ done # <<>>
  /\ Head(done) = [who |-> c, result |-> result]
  /\ done' = Tail(done)

\* Where c goes once the model is resident; the tick has marked it busy.
Resident(c, m) ==
  /\ loaded' = m
  /\ state' = IF c = Tick THEN "busy"
              ELSE IF loaded = m /\ state \in {"warm_idle", "busy"} THEN state
              ELSE "warm_idle"
  /\ pc' = [pc EXCEPT ![c] = IF c = Tick THEN "announcing" ELSE "idle"]

\* ensure_loaded: at once when the manager or the provider already has m.
EnsureLoaded(c, m) ==
  /\ want' = [want EXCEPT ![c] = m]
  /\ \/ /\ (loaded = m /\ state \in {"warm_idle", "busy"}) \/ held = m
        /\ Resident(c, m)
        /\ queue' = queue
     \/ /\ ~(loaded = m /\ state \in {"warm_idle", "busy"}) /\ held # m
        /\ state' = "loading"
        /\ loaded' = loaded
        /\ Submit(c, "load", m, "loading")
  /\ meddled' = (meddled \/ c # Tick)
  /\ UNCHANGED <<held, started, used, zombies, done, work, missed>>

\* unload, which does nothing when there is nothing to unload.
Unload(c) ==
  /\ state # "unloaded"
  /\ state' = "evicting"
  /\ Submit(c, "unload", DefaultModel, "unloading")
  /\ meddled' = (meddled \/ c # Tick)
  /\ UNCHANGED <<loaded, held, started, used, zombies, done, ask, missed>>

\* Wrong variant: the end of a batch also clears an error.
MarkIdleAlways(s) == IF loaded # NoModel THEN "warm_idle" ELSE "unloaded"

\* mark_idle, in state s.
MarkIdle(s) ==
  IF s = "error" THEN s
  ELSE IF loaded # NoModel THEN "warm_idle" ELSE "unloaded"

\* What a reset leaves running: queued calls are cancelled, a running one is
\* abandoned.  A call that touches nothing and that nobody awaits is dropped.
Abandoned ==
  {c \in IF started THEN {Head(queue)} ELSE {} :
     c.who # Nobody \/ c.kind \in {"load", "unload"}}

Cancelled ==
  LET queued == IF started THEN Tail(queue) ELSE queue
  IN  [i \in 1 .. Len(queued) |-> [who |-> queued[i].who, result |-> "cancelled"]]

\* A load that has finished, but whose caller will only hear of it after the
\* reset, and then believe its model resident.
Overtaken == \E a \in ToSet(done) : pc[a.who] = "loading" /\ a.result = "ok"

\* Wrong variant: the replaced executor's queue is dropped without a word.
ResetSilently ==
  /\ state' = "unloaded" /\ loaded' = NoModel /\ held' = NoModel
  /\ queue' = <<>> /\ started' = FALSE /\ used' = NoModel
  /\ zombies' = zombies \cup Abandoned
  /\ done' = done
  /\ missed' = Overtaken

\* reset_provider: all of it between two awaits.
Reset ==
  /\ state' = "unloaded" /\ loaded' = NoModel /\ held' = NoModel
  /\ queue' = <<>> /\ started' = FALSE /\ used' = NoModel
  /\ zombies' = zombies \cup Abandoned
  /\ done' = done \o Cancelled
  /\ missed' = Overtaken

-----------------------------------------------------------------------------
(* The tick.  A tick that has nothing to dispatch, or waits for its recovery *)
(* deadline, changes nothing here and is a stuttering step.                 *)

\* _dispatch_tick: there is work and the breaker is closed.
Probe ==
  /\ pc[Tick] = "idle" /\ work /\ state # "error"
  /\ pc' = [pc EXCEPT ![Tick] = "probing"]
  /\ UNCHANGED <<manager, held, executor, zombies, done, ask, missed, meddled>>

\* Readings missing, or live VRAM at its limit and the deadline not reached.
Blocked ==
  /\ pc[Tick] = "probing"
  /\ pc' = [pc EXCEPT ![Tick] = "idle"]
  /\ UNCHANGED <<manager, held, executor, zombies, done, ask, missed, meddled>>

RecoverUnload == pc[Tick] = "probing" /\ Unload(Tick)

Dispatch ==
  /\ pc[Tick] = "probing"
  /\ \E m \in Models : EnsureLoaded(Tick, m)
  /\ size' \in 1 .. MaxSize

\* After the busy broadcast, synthesize_batch compares the model once ...
Synthesize ==
  /\ pc[Tick] = "announcing"
  /\ held = want[Tick]
  /\ Submit(Tick, "synth", want[Tick], "synth")
  /\ UNCHANGED <<manager, held, started, used, zombies, done, ask, missed, meddled>>

\* ... and raises if the provider holds another one: the batch has failed.
NotLoaded ==
  /\ pc[Tick] = "announcing"
  /\ held # want[Tick]
  /\ state' = MarkIdle(state)
  /\ pc' = [pc EXCEPT ![Tick] = "idle"]
  /\ UNCHANGED <<loaded, held, executor, zombies, done, ask, missed, meddled>>

SynthSucceeds ==
  /\ Resumed(Tick, "synth", "ok")
  /\ pc' = [pc EXCEPT ![Tick] = "packaging"]
  /\ UNCHANGED <<manager, held, executor, zombies, ask, missed, meddled>>

\* The CUDA cache is cleared on the thread before the batch is halved.
SynthOutOfMemory ==
  /\ Resumed(Tick, "synth", "oom")
  /\ Submit(Tick, "clear", want[Tick], "clearing")
  /\ UNCHANGED <<manager, held, started, used, zombies, ask, missed, meddled>>

\* The halved batch goes through the same check; a single chunk gives up.
Retry ==
  /\ Resumed(Tick, "clearing", "ok")
  /\ size > 1
  /\ size' = size \div 2
  /\ pc' = [pc EXCEPT ![Tick] = "announcing"]
  /\ UNCHANGED <<manager, held, executor, zombies, want, work, missed, meddled>>

BatchFails ==
  /\ \/ Resumed(Tick, "synth", "error")
     \/ Resumed(Tick, "clearing", "ok") /\ size = 1
  /\ state' = MarkIdle(state)
  /\ pc' = [pc EXCEPT ![Tick] = "idle"]
  /\ UNCHANGED <<loaded, held, executor, zombies, ask, missed, meddled>>

\* Packaging ended, well or not.
BatchEnds ==
  /\ pc[Tick] = "packaging"
  /\ state' = MarkIdle(state)
  /\ pc' = [pc EXCEPT ![Tick] = "idle"]
  /\ UNCHANGED <<loaded, held, executor, zombies, done, ask, missed, meddled>>

\* maybe_unload_idle.
IdleUnload ==
  /\ pc[Tick] = "idle"
  /\ ~work /\ loaded # NoModel /\ state # "busy"
  /\ Unload(Tick)

\* Wrong variant: the recovery forgets that the breaker is part of the state.
RecoverResetKeepingError ==
  /\ pc[Tick] = "idle" /\ work /\ state = "error"
  /\ loaded' = NoModel /\ held' = NoModel
  /\ queue' = <<>> /\ started' = FALSE /\ used' = NoModel
  /\ zombies' = zombies \cup Abandoned
  /\ done' = done \o Cancelled
  /\ missed' = Overtaken
  /\ UNCHANGED <<state, pc, ask, meddled>>

\* Dispatch has been blocked on the breaker past its deadline.
RecoverReset ==
  /\ pc[Tick] = "idle" /\ work /\ state = "error"
  /\ Reset
  /\ UNCHANGED <<pc, ask, meddled>>

-----------------------------------------------------------------------------
(* The admin endpoints *)

Warm(a) ==
  /\ pc[a] = "idle" /\ "warm" \in AdminOps
  /\ EnsureLoaded(a, DefaultModel)
  /\ UNCHANGED size

Evict(a) == pc[a] = "idle" /\ "evict" \in AdminOps /\ Unload(a)

AdminReset ==
  /\ "reset" \in AdminOps
  /\ Reset
  /\ UNCHANGED <<pc, ask, meddled>>

SetDevice ==
  /\ "device" \in AdminOps
  /\ state = "not_enough_vram"
  /\ state' = "unloaded"
  /\ UNCHANGED <<loaded, held, executor, zombies, done, pc, ask, missed, meddled>>

-----------------------------------------------------------------------------
(* What a caller of load_model or unload_model does when it is resumed *)

LoadSucceeds(c) ==
  /\ Resumed(c, "loading", "ok")
  /\ Resident(c, want[c])
  /\ UNCHANGED <<held, executor, zombies, ask, missed, meddled>>

LoadLacksVRAM(c) ==
  /\ Resumed(c, "loading", "vram")
  /\ state' = "not_enough_vram" /\ loaded' = NoModel
  /\ pc' = [pc EXCEPT ![c] = "idle"]
  /\ UNCHANGED <<held, executor, zombies, ask, missed, meddled>>

\* For the tick this blocks dispatch on memory; past the deadline it unloads.
LoadLacksVRAMTooLong ==
  /\ Resumed(Tick, "loading", "vram")
  /\ state' = "evicting" /\ loaded' = NoModel
  /\ Submit(Tick, "unload", DefaultModel, "unloading")
  /\ UNCHANGED <<held, started, used, zombies, ask, missed, meddled>>

\* Wrong variant: only a lack of VRAM is caught.
LoadErrsUncaught(c) ==
  /\ Resumed(c, "loading", "error")
  /\ pc' = [pc EXCEPT ![c] = "idle"]
  /\ UNCHANGED <<manager, held, executor, zombies, ask, missed, meddled>>

LoadErrs(c) ==
  /\ Resumed(c, "loading", "error")
  /\ state' = "error" /\ loaded' = NoModel
  /\ pc' = [pc EXCEPT ![c] = "idle"]
  /\ UNCHANGED <<held, executor, zombies, ask, missed, meddled>>

\* Wrong variant: the manager keeps the model id of what it unloaded.
UnloadReturnsForgetful(c) ==
  /\ Resumed(c, "unloading", "ok")
  /\ state' = "unloaded"
  /\ pc' = [pc EXCEPT ![c] = "idle"]
  /\ UNCHANGED <<loaded, held, executor, zombies, ask, missed, meddled>>

UnloadReturns(c) ==
  /\ Resumed(c, "unloading", "ok")
  /\ state' = "unloaded" /\ loaded' = NoModel
  /\ pc' = [pc EXCEPT ![c] = "idle"]
  /\ UNCHANGED <<held, executor, zombies, ask, missed, meddled>>

\* A list of calls or answers without the one c awaits, if it is there.
Without(s, c) ==
  IF \E i \in DOMAIN s : s[i].who = c
  THEN RemoveAt(s, CHOOSE i \in DOMAIN s : s[i].who = c)
  ELSE s

\* wait_for gives up on a load or a synthesis (evict and unload have no
\* deadline).  A queued call is withdrawn, a running one loses its caller, and
\* a result that is already there is thrown away.
TimesOut(c) ==
  LET orphan(call) == IF call.who = c THEN [call EXCEPT !.who = Nobody] ELSE call
      running == IF started THEN <<orphan(Head(queue))>> ELSE <<>>
      waiting == IF started THEN Tail(queue) ELSE queue
  IN  /\ pc[c] \in {"loading", "synth", "clearing"}
      /\ state' = IF pc[c] = "loading" THEN "error" ELSE MarkIdle("error")
      /\ pc' = [pc EXCEPT ![c] = "idle"]
      /\ queue' = running \o Without(waiting, c)
      /\ zombies' = {orphan(z) : z \in zombies}
      /\ done' = Without(done, c)
      /\ missed' = (missed \/ \E a \in ToSet(done) : a.who = c /\ pc[c] = "loading")
      /\ UNCHANGED <<loaded, held, started, used, want, work, size, meddled>>

\* CancelledError is not an Exception: no handler in between stops it.  The
\* batch's finally clause marks the model idle; run_forever re-raises, which
\* ends the scheduler task.
IsCancelled(c) ==
  /\ \E at \in Suspended : Resumed(c, at, "cancelled")
  /\ state' = IF pc[c] \in {"synth", "clearing"} THEN MarkIdle(state) ELSE state
  /\ pc' = [pc EXCEPT ![c] = IF c = Tick THEN "dead" ELSE "idle"]
  /\ UNCHANGED <<loaded, held, executor, zombies, ask, missed, meddled>>

-----------------------------------------------------------------------------
(* The worker thread, and the threads that resets left behind *)

\* A load first drops a different model; a synthesis picks up the model.
ThreadStarts ==
  /\ queue # <<>> /\ ~started
  /\ started' = TRUE
  /\ held' = IF Head(queue).kind = "load" /\ held # Head(queue).model
             THEN NoModel ELSE held
  /\ used' = IF Head(queue).kind = "synth" THEN held ELSE NoModel
  /\ meddled' = \E a \in Admins : pc[a] # "idle"
  /\ UNCHANGED <<manager, queue, zombies, done, pc, ask, missed>>

\* The outcomes of a call, and the model the provider holds after each.
Outcomes(call) ==
  IF call.kind = "load"
  THEN {<<"ok", call.model>>} \cup
       IF held = call.model THEN {} ELSE {<<"vram", held>>, <<"error", held>>}
  ELSE IF call.kind = "unload" THEN {<<"ok", NoModel>>}
  ELSE IF call.kind = "clear" THEN {<<"ok", held>>}
  ELSE {<<"error", held>>, <<"ok", held>>, <<"oom", held>>}

Finish(call, result, model) ==
  /\ held' = model
  /\ done' = IF call.who = Nobody THEN done
             ELSE Append(done, [who |-> call.who, result |-> result])
  /\ missed' = IF call.kind \in {"load", "unload"}
               THEN call.who = Nobody \/ (result # "ok" /\ model # NoModel)
               ELSE missed

\* Wrong variant: the thread never picks up its next call.
ThreadFinishesStuck ==
  /\ started
  /\ \E o \in Outcomes(Head(queue)) :
       /\ Head(queue).kind = "synth" /\ used = NoModel => o[1] = "error"
       /\ Finish(Head(queue), o[1], o[2])
  /\ queue' = Tail(queue) /\ started' = started /\ used' = NoModel
  /\ UNCHANGED <<manager, zombies, pc, ask, meddled>>

ThreadFinishes ==
  /\ started
  /\ \E o \in Outcomes(Head(queue)) :
       /\ Head(queue).kind = "synth" /\ used = NoModel => o[1] = "error"
       /\ Finish(Head(queue), o[1], o[2])
  /\ queue' = Tail(queue) /\ started' = FALSE /\ used' = NoModel
  /\ UNCHANGED <<manager, zombies, pc, ask, meddled>>

\* Identical calls that nobody awaits are one element, which may finish again.
ZombieFinishes ==
  /\ \E z \in zombies :
       /\ \E o \in Outcomes(z) : Finish(z, o[1], o[2])
       /\ \/ zombies' = zombies \ {z}
          \/ z.who = Nobody /\ zombies' = zombies
  /\ UNCHANGED <<manager, executor, pc, ask, meddled>>

\* Jobs are added, resumed, paused, finished.
WorkChanges ==
  /\ work' = ~work
  /\ UNCHANGED <<manager, held, executor, zombies, done, pc, want, size, missed, meddled>>

-----------------------------------------------------------------------------
TickStep ==
  \/ Blocked \/ RecoverUnload \/ Dispatch \/ Synthesize \/ NotLoaded
  \/ SynthSucceeds \/ SynthOutOfMemory \/ Retry \/ BatchFails \/ BatchEnds

Admin == AdminReset \/ SetDevice \/ \E a \in Admins : Warm(a) \/ Evict(a)

Caller(c) ==
  \/ LoadSucceeds(c) \/ LoadLacksVRAM(c) \/ LoadErrs(c)
  \/ UnloadReturns(c) \/ IsCancelled(c)

Next ==
  \/ Probe \/ TickStep \/ IdleUnload \/ RecoverReset \/ LoadLacksVRAMTooLong
  \/ Admin \/ (\E c \in Callers : Caller(c) \/ TimesOut(c))
  \/ ThreadStarts \/ ThreadFinishes \/ ZombieFinishes \/ WorkChanges

Spec == Init /\ [][Next]_vars

-----------------------------------------------------------------------------
(* Safety *)

\* Every variable has its type; the thread never runs a call it was not given.
TypeOK ==
  /\ state \in ModelStates /\ loaded \in Models \cup {NoModel}
  /\ held \in Models \cup {NoModel} /\ used \in Models \cup {NoModel}
  /\ queue \in Seq(Call) /\ done \in Seq(Answer) /\ zombies \subseteq Call
  /\ started \in BOOLEAN /\ (started => queue # <<>>)
  /\ pc \in [Callers -> {"idle", "probing", "packaging", "announcing", "dead"}
                          \cup Suspended]
  /\ want \in [Callers -> Models]
  /\ work \in BOOLEAN /\ size \in 0 .. MaxSize
  /\ missed \in BOOLEAN /\ meddled \in BOOLEAN

Calls   == ToSet(queue) \cup zombies
Promised == {c.who : c \in Calls} \cup {a.who : a \in ToSet(done)}

\* Whoever is suspended on the thread has a call that is queued, running, or
\* answered: no interleaving of deadlines, resets and late threads makes a
\* caller wait for a call that is gone (`reset': cancel_futures discards what
\* piled up "instead of replaying it", and tells those who wait).
NoLostCall == \A c \in Callers : pc[c] \in Suspended <=> c \in Promised

\* The state the admin views show is one somebody is working on: LOADING while
\* a load is awaited, EVICTING while an unload is, BUSY while the tick has a
\* batch (`ensure_loaded': a failed load "must still resolve the state out of
\* LOADING. Leaving it there made the model look permanently busy").
StateIsHonest ==
  /\ state = "loading"  => \E c \in Callers : pc[c] = "loading"
  /\ state = "evicting" => \E c \in Callers : pc[c] = "unloading"
  /\ state = "busy"     => pc[Tick] \in InBatch

\* When nothing is under way, the manager and the provider agree on the model
\* in memory, unless threads of two executors overlapped: the provider was last
\* changed by a call whose caller had given up, or was reset before the caller
\* of a finished load heard of it.  A disagreement does not heal: ensure_loaded
\* takes its fast path and every batch of that model fails as "not loaded".
Quiet ==
  /\ queue = <<>> /\ zombies = {} /\ done = <<>>
  /\ \A c \in Callers : pc[c] \notin Suspended

ManagerAgrees ==
  Quiet /\ ~missed /\ state \in {"unloaded", "warm_idle"} =>
    /\ loaded = held
    /\ state = "unloaded" <=> loaded = NoModel

\* The scheduler task outlives every tick (`run_forever': "Run the scheduling
\* loop, surviving any single tick's failure").
LoopSurvives == pc[Tick] # "dead"

\* The tick hands the thread a load or a synthesis.
TickDispatches ==
  /\ Len(queue') > Len(queue)
  /\ Last(queue').who = Tick /\ Last(queue').kind \in {"load", "synth"}

\* The thread is at work on a call that timed out.
Stuck == started /\ Head(queue).who = Nobody

\* The tick never hands the thread a load or a synthesis while it is stuck in a
\* call that timed out (`_dispatch_tick': "the worker thread may still be stuck.
\* Do not dispatch into it").  Refuted on a small instance (README).
NothingIntoStuckThread == [][TickDispatches => ~Stuck]_vars

\* What holds instead: deadlines, resets, late threads and the end of batches
\* never open the circuit breaker over a stuck thread.  Only an admin's warm or
\* evict does, one that was sent while the thread was at the call it is stuck in
\* or was still open when the thread began it; once a reset has given the
\* provider a new thread, the breaker guards it again.
SpareStuckThread == [][TickDispatches => ~Stuck \/ meddled]_vars

-----------------------------------------------------------------------------
(* Progress.  The event loop runs what is ready, deadlines expire and ticks   *)
(* recur; nothing is assumed of the thread's calls, which may hang for good. *)

Fairness ==
  /\ WF_vars(Probe) /\ WF_vars(TickStep) /\ WF_vars(RecoverReset)
  /\ WF_vars(ThreadStarts)
  /\ \A c \in Callers : WF_vars(Caller(c)) /\ WF_vars(TimesOut(c))

FairSpec == Spec /\ Fairness

\* A tripped breaker does not stay tripped while there is work: the supervisor
\* resets it, however the thread hangs and whatever admins do, provided the
\* tick itself is neither dead nor suspended in an unload.
BreakerIsReset ==
  <>[](state = "error" /\ work) => <>[](pc[Tick] \in {"dead", "unloading"})

\* Every tick ends (recovery.py:3: "The scheduling loop must always be able to
\* make progress, or at least surface why it cannot").
TicksEnd == []<>(pc[Tick] = "idle")
=============================================================================
