------------------------- MODULE RenderQueueProofs -------------------------
(***************************************************************************)
(* Theorems about RenderQueue, for any number of jobs, chunks, versions,   *)
(* voices and attempts.  The first part says, for one job record, what the *)
(* operators of JobAggregate preserve: Sound(j) is what every transaction  *)
(* leaves behind; Gentle(j, k) says what a change of a job from j to k may *)
(* do to takes the scheduler holds; Steady(j, k) that it neither completes *)
(* an unfinished job nor orphans a take; Tracks(j, k) which plan version   *)
(* and voice a take may end up with.                                       *)
(*                                                                         *)
(* The second part lifts these facts to the job table.  The inductive      *)
(* invariant IInv adds to the properties what makes them inductive: a      *)
(* ranked take is still PLANNED when the probe ends, the batch is empty    *)
(* outside a dispatch, and a take is RENDERING exactly while it is in      *)
(* flight or stranded.                                                     *)
(***************************************************************************)
EXTENDS RenderQueue, FiniteSetTheorems, TLAPS

-----------------------------------------------------------------------------
(* One job *)

Sound(j) ==
  /\ j \in Job
  /\ j.next <= j.length
  /\ LiveTakesAgree(j)
  /\ AttemptsBounded(j)
  /\ \A s \in Slots : ~Exists(j, s) => j.takes[s].deprecated
  /\ j.counted = WrittenIndices(j)

\* Every transaction but a switch of takes.
Steady(j, k) ==
  /\ DoneIfCompleted(j) => DoneIfCompleted(k)
  /\ \A s \in Slots : Orphaned(k, s) => Orphaned(j, s)

\* A switch of takes.
Switched(j, k) ==
  /\ DoneIfCompleted(j) => DoneIfCompleted(k) \/ Finished(j.status)
  /\ \A s \in Slots : Orphaned(k, s) => Orphaned(j, s) \/ j.takes[s].deprecated

\* j and k plan the same chunks and agree on which takes exist and are live.
SameShape(j, k) ==
  /\ k.active = j.active /\ k.next = j.next /\ k.length = j.length
  /\ \A s \in Slots : /\ Exists(k, s) <=> Exists(j, s)
                      /\ k.takes[s].deprecated = j.takes[s].deprecated

Gentle(j, k) ==
  /\ k.place = j.place
  /\ k.plan >= j.plan
  /\ \A s \in Slots :
       /\ k.takes[s].status = "rendering" <=> j.takes[s].status = "rendering"
       /\ j.takes[s].status = "planned" => k.takes[s].status = "planned"
       /\ j.takes[s].status = "written" =>
            \/ k.takes[s].status = "written" /\ k.takes[s].voice = j.takes[s].voice
            \/ k.plan > j.plan

\* A take keeps its plan version or moves to the job's, and a live one that was
\* superseded in flight stays that way until it waits under the job's voice.
Tracks(j, k) ==
  \A s \in Slots :
    /\ k.takes[s].plan \in {j.takes[s].plan, k.plan}
    /\ /\ j.takes[s].status = "rendering"
       /\ Superseded(j, j.takes[s])
       /\ ~k.takes[s].deprecated
       => \/ k.takes[s].status = "rendering" /\ k.takes[s].plan # k.plan
          \/ /\ k.takes[s].status = "planned"
             /\ k.takes[s].voice = k.voice /\ k.takes[s].plan = k.plan

\* No take is of a later plan version than its job.
Capped(j) == \A s \in Slots : j.takes[s].plan <= j.plan

-----------------------------------------------------------------------------
(* Facts about the building blocks *)

LEMMA SameShapeAgrees ==
  ASSUME NEW j, NEW k, LiveTakesAgree(j), SameShape(j, k)
  PROVE  LiveTakesAgree(k)
<1> SUFFICES ASSUME NEW i \in Indices
             PROVE  IF i < k.next
                    THEN /\ k.active[i] \in Versions
                         /\ Exists(k, <<i, k.active[i]>>)
                         /\ \A w \in Versions : LiveTake(k, <<i, w>>) <=> w = k.active[i]
                    ELSE /\ k.active[i] = NoVersion
                         /\ \A w \in Versions : ~Exists(k, <<i, w>>)
  BY DEF LiveTakesAgree
<1>1. \A w \in Versions : /\ Exists(k, <<i, w>>) <=> Exists(j, <<i, w>>)
                          /\ LiveTake(k, <<i, w>>) <=> LiveTake(j, <<i, w>>)
  BY DEF SameShape, Slots, LiveTake
<1>2. QED
  BY <1>1 DEF LiveTakesAgree, SameShape

\* The written live indices depend only on which live takes are written.
LEMMA SameWritten ==
  ASSUME NEW j, NEW k,
         \A s \in Slots : LiveTake(k, s) /\ Written(k, s)
                            <=> LiveTake(j, s) /\ Written(j, s)
  PROVE  WrittenIndices(k) = WrittenIndices(j)
<1>1. \A i \in Indices, v \in Versions :
         LiveTake(k, <<i, v>>) /\ Written(k, <<i, v>>)
           <=> LiveTake(j, <<i, v>>) /\ Written(j, <<i, v>>)
  BY DEF Slots
<1>2. QED
  BY <1>1 DEF WrittenIndices

LEMMA SettleFacts ==
  ASSUME NEW j \in Job
  PROVE  LET k == Settle(j)
         IN  /\ k \in Job
             /\ k.place = j.place /\ k.plan = j.plan /\ k.voice = j.voice
             /\ k.next = j.next /\ k.length = j.length /\ k.active = j.active
             /\ k.takes = j.takes /\ k.counted = j.counted
             /\ k.exhausted = j.exhausted
             /\ k.status = "paused" <=> j.status = "paused"
             /\ ~Finished(j.status) => DoneIfCompleted(k)
             /\ DoneIfCompleted(j) => DoneIfCompleted(k)
<1>1. /\ Settle(j) \in Job
      /\ Settle(j).place = j.place /\ Settle(j).plan = j.plan
      /\ Settle(j).voice = j.voice /\ Settle(j).next = j.next
      /\ Settle(j).length = j.length /\ Settle(j).active = j.active
      /\ Settle(j).takes = j.takes /\ Settle(j).counted = j.counted
      /\ Settle(j).exhausted = j.exhausted
      /\ Settle(j).status = "paused" <=> j.status = "paused"
  BY DEF Settle, Job, JobStatuses
<1>2. Unfinished(Settle(j)) <=> Unfinished(j)
  BY <1>1 DEF Unfinished, LiveTake, Exists
<1>3. ~Finished(j.status) => DoneIfCompleted(Settle(j))
  BY <1>1, <1>2 DEF DoneIfCompleted, Finished, Settle, Job, JobStatuses
<1>4. DoneIfCompleted(j) => DoneIfCompleted(Settle(j))
  BY <1>1, <1>2, <1>3 DEF DoneIfCompleted, Finished, Settle
<1>5. QED
  BY <1>1, <1>3, <1>4

LEMMA RefreshFacts ==
  ASSUME NEW j \in Job
  PROVE  /\ Refresh(j) \in Job
         /\ Refresh(j) = [j EXCEPT !.counted = WrittenIndices(j)]
         /\ Refresh(j).counted = WrittenIndices(Refresh(j))
         /\ Refresh(j).takes = j.takes
<1>1. /\ Refresh(j) \in Job
      /\ Refresh(j).counted = WrittenIndices(j)
      /\ Refresh(j).takes = j.takes
  BY DEF Refresh, Job, WrittenIndices
<1>2. WrittenIndices(Refresh(j)) = WrittenIndices(j)
  BY <1>1, SameWritten DEF LiveTake, Written, Exists
<1>3. QED
  BY <1>1, <1>2 DEF Refresh

LEMMA ApplyVoiceType ==
  ASSUME NEW j \in Job, NEW t \in Take
  PROVE  /\ ApplyVoice(j, t) \in Take
         /\ ApplyVoice(j, t).status = "planned"
         /\ ApplyVoice(j, t).voice = j.voice
         /\ ApplyVoice(j, t).plan = j.plan
         /\ ApplyVoice(j, t).deprecated = t.deprecated
         /\ ApplyVoice(j, t).attempts = 0
<1>1. j.plan \in 0 .. MaxPlan /\ j.voice \in Voices \cup {NoVoice}
  BY SizesAssumption DEF Job
<1>2. 0 \in 0 .. MaxAttempts
  BY SizesAssumption
<1>3. QED
  BY <1>1, <1>2 DEF ApplyVoice, Take, TakeStatuses

LEMMA RequeueType ==
  ASSUME NEW j \in Job, NEW t \in Take
  PROVE  /\ Requeue(j, t) \in Take
         /\ Requeue(j, t).status = "planned"
         /\ Requeue(j, t).deprecated = t.deprecated
         /\ Requeue(j, t).attempts \in {0, t.attempts}
         /\ ~t.deprecated => Requeue(j, t).plan = j.plan
         /\ Requeue(j, t).plan \in {t.plan, j.plan}
         /\ Superseded(j, t) => Requeue(j, t).voice = j.voice
  BY ApplyVoiceType DEF Requeue, Superseded, Take, TakeStatuses

LEMMA TakesFacts ==
  ASSUME NEW j \in Job, NEW f \in [Slots -> Take]
  PROVE  LET k == [j EXCEPT !.takes = f]
         IN  /\ k \in Job
             /\ k.takes = f
  BY DEF Job

-----------------------------------------------------------------------------
(* Commands that change only the status and the listener flag *)

\* k is j with another status and listener flag, and not newly completed.
OnlyStatus(j, k) ==
  /\ k \in Job
  /\ k.place = j.place /\ k.plan = j.plan /\ k.voice = j.voice
  /\ k.next = j.next /\ k.length = j.length /\ k.active = j.active
  /\ k.takes = j.takes /\ k.counted = j.counted
  /\ k.exhausted = j.exhausted
  /\ Finished(k.status) => Finished(j.status)

LEMMA OnlyStatusOK ==
  ASSUME NEW j, NEW k, Sound(j), OnlyStatus(j, k)
  PROVE  /\ Sound(k) /\ Gentle(j, k) /\ Tracks(j, k)
         /\ Steady(j, k)
<1>1. SameShape(j, k)
  BY DEF OnlyStatus, SameShape, Exists
<1>2. WrittenIndices(k) = WrittenIndices(j)
  BY SameWritten DEF OnlyStatus, LiveTake, Written, Exists
<1>3. AttemptsBounded(k)
  BY DEF OnlyStatus, Sound, AttemptsBounded, Exists
<1>4. Sound(k)
  BY <1>1, <1>2, <1>3, SameShapeAgrees DEF Sound, OnlyStatus, SameShape
<1>5. Gentle(j, k)
  BY DEF Gentle, OnlyStatus, Sound, Job
<1>6. Steady(j, k)
  BY DEF OnlyStatus, Steady, DoneIfCompleted, Orphaned, Unfinished, LiveTake, Exists
<1>7. Tracks(j, k)
  BY DEF OnlyStatus, Tracks, Superseded
<1>8. QED
  BY <1>4, <1>5, <1>6, <1>7

LEMMA CommandsOnlyStatus ==
  ASSUME NEW j \in Job, NEW playing \in BOOLEAN
  PROVE  /\ OnlyStatus(j, ActivateJob(j))
         /\ OnlyStatus(j, PauseJob(j))
         /\ OnlyStatus(j, ResumeJob(j))
         /\ OnlyStatus(j, ExpireListener(j))
         /\ OnlyStatus(j, UpdatePlayback(j, playing))
         /\ OnlyStatus(j, Reactivate(j))
<1>1. OnlyStatus(j, ActivateJob(j))
  BY DEF OnlyStatus, ActivateJob, Finished, Job, JobStatuses
<1>2. OnlyStatus(j, PauseJob(j))
  BY DEF OnlyStatus, PauseJob, Finished, Job, JobStatuses
<1>3. OnlyStatus(j, ResumeJob(j))
  BY DEF OnlyStatus, ResumeJob, Finished, Job, JobStatuses
<1>4. OnlyStatus(j, ExpireListener(j))
  BY DEF OnlyStatus, ExpireListener, Finished, Job, JobStatuses
<1>5. OnlyStatus(j, UpdatePlayback(j, playing))
  BY DEF OnlyStatus, UpdatePlayback, Finished, Job, JobStatuses
<1>6. OnlyStatus(j, Reactivate(j))
  BY DEF OnlyStatus, Reactivate, Finished, Job, JobStatuses
<1>7. QED
  BY <1>1, <1>2, <1>3, <1>4, <1>5, <1>6

-----------------------------------------------------------------------------
(* Voice changes *)

LEMMA RevoiceFacts ==
  ASSUME NEW q \in Job, NEW t \in Take, NEW full \in BOOLEAN,
         t.status = "none" => t.deprecated
  PROVE  LET u == Revoice(q, t, full)
         IN  /\ u \in Take
             /\ u.deprecated = t.deprecated
             /\ u.status = "none" <=> t.status = "none"
             /\ u.status = "rendering" <=> t.status = "rendering"
             /\ t.status = "planned" => u.status = "planned"
             /\ u.attempts \in {0, t.attempts}
             /\ u.status = "failed" => t.status = "failed" /\ u.attempts = t.attempts
             /\ ~u.deprecated /\ u.status = "planned" => u.plan = q.plan
             /\ u.plan \in {t.plan, q.plan}
             /\ full /\ t.status = "rendering" => u.plan = t.plan
             /\ \/ u.status = t.status
                \/ ~t.deprecated /\ t.status # "rendering"
                     /\ (full \/ t.status \in Revoiceable)
<1>1. [t EXCEPT !.plan = q.plan] \in Take
  BY SizesAssumption DEF Take, Job
<1>2. /\ [t EXCEPT !.plan = q.plan].status = t.status
      /\ [t EXCEPT !.plan = q.plan].deprecated = t.deprecated
      /\ [t EXCEPT !.plan = q.plan].attempts = t.attempts
      /\ [t EXCEPT !.plan = q.plan].plan = q.plan
  BY DEF Take
<1>3. CASE t.deprecated
  BY <1>3 DEF Revoice, Take
<1>4. CASE ~t.deprecated /\ t.status = "rendering"
  BY <1>1, <1>2, <1>4 DEF Revoice, Take
<1>5. CASE ~t.deprecated /\ t.status # "rendering" /\ (full \/ t.status \in Revoiceable)
  BY <1>5, ApplyVoiceType DEF Revoice
<1>6. CASE ~t.deprecated /\ t.status # "rendering" /\ ~(full \/ t.status \in Revoiceable)
  BY <1>6 DEF Revoice, Revoiceable, Take
<1>7. QED
  BY <1>3, <1>4, <1>5, <1>6 DEF Take

LEMMA SetVoiceOK ==
  ASSUME NEW j, Sound(j), j.plan < MaxPlan, NEW v \in Voices, NEW full \in BOOLEAN
  PROVE  /\ Sound(SetVoice(j, v, full)) /\ Gentle(j, SetVoice(j, v, full))
         /\ SetVoice(j, v, full).status = "paused" <=> j.status = "paused"
         /\ Steady(j, SetVoice(j, v, full))
         /\ SetVoice(j, v, full).voice = v
         /\ \A s \in Slots : SetVoice(j, v, full).takes[s].plan
                                \in {j.takes[s].plan, SetVoice(j, v, full).plan}
         /\ full /\ Capped(j) => Tracks(j, SetVoice(j, v, full))
         /\ Capped(j) => Capped(SetVoice(j, v, full))
<1> DEFINE pointed == [j EXCEPT !.voice = v, !.plan = @ + 1]
           f == [s \in Slots |-> Revoice(pointed, j.takes[s], full)]
           mapped == [pointed EXCEPT !.takes = f]
           revoiced == Refresh(mapped)
           woken == [revoiced EXCEPT !.status = IF Finished(@) THEN "queued" ELSE @]
           k == SetVoice(j, v, full)
<1>1. /\ pointed \in Job
      /\ pointed.plan = j.plan + 1 /\ pointed.takes = j.takes
      /\ pointed.place = j.place /\ pointed.next = j.next
      /\ pointed.length = j.length /\ pointed.active = j.active
      /\ pointed.exhausted = j.exhausted /\ pointed.status = j.status
      /\ pointed.voice = v
  <2>1. j \in Job /\ j.plan + 1 \in 1 .. MaxPlan
    BY SizesAssumption DEF Sound, Job
  <2>2. pointed = [j EXCEPT !.voice = v, !.plan = j.plan + 1]
    BY <2>1 DEF Job
  <2>3. QED
    BY <2>1, <2>2 DEF Job
<1>2. \A s \in Slots :
        /\ j.takes[s] \in Take
        /\ j.takes[s].status = "none" => j.takes[s].deprecated
  BY DEF Sound, Job, Exists
<1>3. f \in [Slots -> Take]
  BY <1>1, <1>2, RevoiceFacts
<1>4. /\ mapped \in Job /\ mapped.takes = f
      /\ mapped.plan = j.plan + 1 /\ mapped.place = j.place
      /\ mapped.next = j.next /\ mapped.length = j.length
      /\ mapped.active = j.active /\ mapped.exhausted = j.exhausted
      /\ mapped.status = j.status /\ mapped.voice = v
  BY <1>1, <1>3 DEF Job
<1>5. /\ revoiced \in Job /\ revoiced.takes = f
      /\ revoiced.plan = j.plan + 1 /\ revoiced.place = j.place
      /\ revoiced.next = j.next /\ revoiced.length = j.length
      /\ revoiced.active = j.active /\ revoiced.exhausted = j.exhausted
      /\ revoiced.status = j.status /\ revoiced.voice = v
      /\ revoiced.counted = WrittenIndices(revoiced)
  <2> HIDE DEF mapped
  <2>1. revoiced \in Job /\ revoiced.takes = mapped.takes
        /\ revoiced.counted = WrittenIndices(revoiced)
    BY <1>4, RefreshFacts
  <2>2. /\ revoiced.plan = mapped.plan /\ revoiced.place = mapped.place
        /\ revoiced.next = mapped.next /\ revoiced.length = mapped.length
        /\ revoiced.active = mapped.active /\ revoiced.status = mapped.status
        /\ revoiced.exhausted = mapped.exhausted /\ revoiced.voice = mapped.voice
    BY <1>4 DEF Refresh, Job
  <2>3. QED
    BY <1>4, <2>1, <2>2
<1>6. /\ woken \in Job /\ woken.takes = f /\ woken.counted = revoiced.counted
      /\ woken.plan = j.plan + 1 /\ woken.place = j.place
      /\ woken.next = j.next /\ woken.length = j.length
      /\ woken.active = j.active /\ woken.exhausted = j.exhausted
      /\ woken.voice = v
      /\ ~Finished(woken.status)
      /\ woken.status = "paused" <=> j.status = "paused"
  <2> HIDE DEF revoiced
  <2> QED
    BY <1>5 DEF Job, JobStatuses, Finished
<1>7. k = IF RevoicesSome(j, full) \/ full THEN Settle(woken) ELSE revoiced
  BY DEF SetVoice
<1> HIDE DEF k, woken, revoiced, mapped, f, pointed
<1>8. /\ k \in Job /\ k.takes = f /\ k.counted = revoiced.counted
      /\ k.plan = j.plan + 1 /\ k.place = j.place
      /\ k.next = j.next /\ k.length = j.length
      /\ k.active = j.active /\ k.exhausted = j.exhausted
      /\ k.voice = v
      /\ k.status = "paused" <=> j.status = "paused"
      /\ RevoicesSome(j, full) \/ full => DoneIfCompleted(k)
      /\ ~(RevoicesSome(j, full) \/ full) => k.status = j.status
  BY <1>5, <1>6, <1>7, SettleFacts
<1>9. \A s \in Slots : k.takes[s] = Revoice(pointed, j.takes[s], full)
  BY <1>8 DEF f
<1>10. SameShape(j, k)
  BY <1>1, <1>2, <1>8, <1>9, RevoiceFacts DEF SameShape, Exists
<1>11. k.counted = WrittenIndices(k)
  BY <1>5, <1>8, SameWritten DEF LiveTake, Written, Exists
<1>12. AttemptsBounded(k)
  BY <1>1, <1>2, <1>9, RevoiceFacts, SizesAssumption
     DEF AttemptsBounded, Exists, Sound
<1>13. Sound(k)
  BY <1>8, <1>10, <1>11, <1>12, SameShapeAgrees DEF Sound, SameShape
<1>14. Gentle(j, k)
  <2>1. \A s \in Slots :
          /\ k.takes[s].status = "rendering" <=> j.takes[s].status = "rendering"
          /\ j.takes[s].status = "planned" => k.takes[s].status = "planned"
    BY <1>1, <1>2, <1>9, RevoiceFacts
  <2>2. k.plan >= j.plan /\ k.plan > j.plan
    BY <1>8 DEF Sound, Job
  <2>3. QED
    BY <1>8, <2>1, <2>2 DEF Gentle
<1>15. Steady(j, k)
  <2>1. \A s \in Slots : ~Orphaned(k, s)
    BY <1>1, <1>2, <1>8, <1>9, RevoiceFacts DEF Orphaned, LiveTake
  <2>2. CASE ~(RevoicesSome(j, full) \/ full)
    <3>1. \A s \in Slots : k.takes[s].status = j.takes[s].status
      <4> SUFFICES ASSUME NEW s \in Slots PROVE k.takes[s].status = j.takes[s].status
        OBVIOUS
      <4>1. ~( ~j.takes[s].deprecated /\ j.takes[s].status # "rendering"
               /\ j.takes[s].status \in Revoiceable)
        BY <2>2 DEF RevoicesSome, LiveTake, Exists, Revoiceable
      <4>2. QED
        BY <1>1, <1>2, <1>9, <2>2, <4>1, RevoiceFacts
    <3>2. Unfinished(k) <=> Unfinished(j)
      BY <1>10, <3>1 DEF Unfinished, LiveTake, Exists, SameShape
    <3>3. QED
      BY <1>8, <2>1, <2>2, <3>2 DEF Steady, DoneIfCompleted
  <2>3. CASE RevoicesSome(j, full) \/ full
    BY <1>8, <2>1, <2>3 DEF Steady
  <2>4. QED
    BY <2>2, <2>3
<1>16. \A s \in Slots : /\ k.takes[s].plan \in {j.takes[s].plan, k.plan}
                        /\ j.takes[s].plan \in Int /\ j.plan \in Int /\ k.plan = j.plan + 1
  BY <1>1, <1>2, <1>8, <1>9, RevoiceFacts DEF Take, Sound, Job
<1>17. ASSUME full, Capped(j) PROVE Tracks(j, k)
  <2> SUFFICES ASSUME NEW s \in Slots, j.takes[s].status = "rendering"
               PROVE  k.takes[s].status = "rendering" /\ k.takes[s].plan # k.plan
    BY <1>16 DEF Tracks
  <2>1. k.takes[s].status = "rendering" /\ k.takes[s].plan = j.takes[s].plan
    <3>1. pointed \in Job /\ j.takes[s] \in Take /\ full = TRUE
      BY <1>1, <1>2, <1>17
    <3>2. Revoice(pointed, j.takes[s], full) = j.takes[s]
      BY <3>1 DEF Revoice
    <3> QED
      BY <1>9, <3>2
  <2> QED
    BY <1>16, <1>17, <2>1 DEF Capped
<1>18. Capped(j) => Capped(k)
  BY <1>16 DEF Capped
<1>19. QED
  BY <1>8, <1>13, <1>14, <1>15, <1>16, <1>17, <1>18 DEF k

-----------------------------------------------------------------------------
(* Planning *)

LEMMA PlannedAheadCount ==
  ASSUME NEW j
  PROVE  Cardinality(PlannedAhead(j)) \in Nat
<1>1. IsFiniteSet(Indices) /\ IsFiniteSet(Versions)
  BY FS_Interval, SizesAssumption DEF Indices, Versions
<1>2. IsFiniteSet(Slots)
  BY <1>1, FS_Product DEF Slots
<1>3. PlannedAhead(j) \in SUBSET Slots
  BY DEF PlannedAhead
<1>4. QED
  BY <1>2, <1>3, FS_Subset, FS_CardinalityType

LEMMA PlanChunksOK ==
  ASSUME NEW j, Sound(j), NeedsPlanning(j)
  PROVE  /\ Sound(PlanChunks(j)) /\ Gentle(j, PlanChunks(j)) /\ Tracks(j, PlanChunks(j))
         /\ Steady(j, PlanChunks(j))
<1> DEFINE room  == PlanAhead - Cardinality(PlannedAhead(j))
           left  == j.length - j.next
           n     == IF left < room THEN left ELSE room
           fresh == j.next .. (j.next + n - 1)
           new   == [status |-> "planned", plan |-> j.plan, voice |-> j.voice,
                     deprecated |-> FALSE, attempts |-> 0]
           act   == [i \in Indices |-> IF i \in fresh THEN 0 ELSE j.active[i]]
           f     == [s \in Slots |-> IF s[1] \in fresh /\ s[2] = 0
                                     THEN new ELSE j.takes[s]]
           planned == [j EXCEPT !.next = @ + n,
                                !.exhausted = (n = left /\ n > 0),
                                !.active = act, !.takes = f]
           ended == [planned EXCEPT !.exhausted = TRUE]
           k == PlanChunks(j)
<1>1. /\ j \in Job /\ left \in Nat /\ room \in Nat \ {0} /\ n \in Nat
      /\ j.next + n <= j.length /\ j.next \in Nat
      /\ j.next + n \in 0 .. MaxChunks
  BY PlannedAheadCount, SizesAssumption DEF Sound, Job, NeedsPlanning
<1>2. new \in Take
  BY <1>1, SizesAssumption DEF Take, TakeStatuses, Job
<1>3. f \in [Slots -> Take]
  BY <1>1, <1>2 DEF Job
<1>4. act \in [Indices -> Versions \cup {NoVersion}]
  BY <1>1, SizesAssumption DEF Job, Versions
<1>5. (n = left /\ n > 0) \in BOOLEAN
  OBVIOUS
<1> DEFINE nn == j.next + n
           ex == (n = left /\ n > 0)
<1>6. planned = [j EXCEPT !.next = nn, !.exhausted = ex, !.active = act, !.takes = f]
  BY <1>1 DEF Job
<1> HIDE DEF f, act, n, nn, ex
<1>7. /\ planned \in Job /\ planned.takes = f /\ planned.active = act
      /\ planned.next = nn /\ planned.length = j.length
      /\ planned.plan = j.plan /\ planned.place = j.place
      /\ planned.counted = j.counted /\ planned.status = j.status
      /\ planned.exhausted = ex
  BY <1>1, <1>3, <1>4, <1>5, <1>6 DEF Job, nn, ex
<1>8. /\ ended \in Job /\ ended.takes = f /\ ended.active = act
      /\ ended.next = nn /\ ended.length = j.length
      /\ ended.plan = j.plan /\ ended.place = j.place
      /\ ended.counted = j.counted /\ ended.status = j.status
  <2> HIDE DEF planned
  <2> QED
    BY <1>7 DEF Job
<1>9. k = IF left < room THEN Settle(ended) ELSE planned
  BY DEF PlanChunks, n, f, act
<1>10. ~Finished(j.status)
  BY DEF NeedsPlanning, Finished
<1> HIDE DEF k, planned, ended, left, room
<1>11. /\ k \in Job /\ k.takes = f /\ k.active = act
       /\ k.next = nn /\ k.length = j.length
       /\ k.plan = j.plan /\ k.place = j.place
       /\ k.counted = j.counted
       /\ DoneIfCompleted(k)
  BY <1>7, <1>8, <1>9, <1>10, SettleFacts DEF DoneIfCompleted
<1>12. \A s \in Slots :
         IF s[1] \in fresh /\ s[2] = 0
         THEN k.takes[s] = new /\ ~Exists(j, s)
         ELSE k.takes[s] = j.takes[s]
  <2> SUFFICES ASSUME NEW s \in Slots
               PROVE  IF s[1] \in fresh /\ s[2] = 0
                      THEN k.takes[s] = new /\ ~Exists(j, s)
                      ELSE k.takes[s] = j.takes[s]
    OBVIOUS
  <2>1. /\ s[1] \in Indices /\ s[2] \in Versions /\ s = <<s[1], s[2]>>
    BY DEF Slots
  <2>2. s[1] \in fresh => ~(s[1] < j.next)
    BY <1>1, <2>1, SizesAssumption DEF Indices
  <2>3. s[1] \in fresh => ~Exists(j, s)
    BY <2>1, <2>2 DEF Sound, LiveTakesAgree
  <2>4. QED
    BY <1>11, <2>3 DEF f
<1>13. QED
  <2>1. LiveTakesAgree(k)
    <3> SUFFICES ASSUME NEW i \in Indices
                 PROVE  IF i < k.next
                        THEN /\ k.active[i] \in Versions
                             /\ Exists(k, <<i, k.active[i]>>)
                             /\ \A w \in Versions : LiveTake(k, <<i, w>>) <=> w = k.active[i]
                        ELSE /\ k.active[i] = NoVersion
                             /\ \A w \in Versions : ~Exists(k, <<i, w>>)
      BY DEF LiveTakesAgree
    <3>1. i \in Nat /\ 0 \in Versions /\ \A w \in Versions : <<i, w>> \in Slots
      BY SizesAssumption DEF Indices, Versions, Slots
    <3>2. IF i < j.next
          THEN /\ j.active[i] \in Versions
               /\ Exists(j, <<i, j.active[i]>>)
               /\ \A w \in Versions : LiveTake(j, <<i, w>>) <=> w = j.active[i]
          ELSE /\ j.active[i] = NoVersion
               /\ \A w \in Versions : ~Exists(j, <<i, w>>)
      BY DEF Sound, LiveTakesAgree
    <3>3. CASE i \in fresh
      <4>1. /\ ~(i < j.next) /\ i < k.next /\ k.active[i] = 0
        BY <1>1, <1>11, <3>1, <3>3 DEF act, nn
      <4>2. /\ k.takes[<<i, 0>>] = new
            /\ \A w \in Versions : w # 0 => k.takes[<<i, w>>] = j.takes[<<i, w>>]
        BY <1>12, <3>1, <3>3
      <4>3. \A w \in Versions : w # 0 => ~LiveTake(k, <<i, w>>)
        BY <4>1, <4>2, <3>2 DEF LiveTake, Exists
      <4>4. Exists(k, <<i, 0>>) /\ LiveTake(k, <<i, 0>>)
        BY <4>2 DEF LiveTake, Exists
      <4>5. QED
        BY <4>1, <4>3, <4>4, <3>1
    <3>4. CASE i \notin fresh
      <4>1. /\ (i < k.next) <=> (i < j.next)
            /\ k.active[i] = j.active[i]
        BY <1>1, <1>11, <3>1, <3>4 DEF act, nn
      <4>2. \A w \in Versions : k.takes[<<i, w>>] = j.takes[<<i, w>>]
        BY <1>12, <3>1, <3>4
      <4>3. QED
        BY <4>1, <4>2, <3>2 DEF LiveTake, Exists
    <3>5. QED
      BY <3>3, <3>4
  <2>2. AttemptsBounded(k)
    BY <1>12, SizesAssumption DEF AttemptsBounded, Exists, Sound
  <2>3. WrittenIndices(k) = WrittenIndices(j)
    <3>1. \A s \in Slots : LiveTake(k, s) /\ Written(k, s)
                             <=> LiveTake(j, s) /\ Written(j, s)
      BY <1>12 DEF LiveTake, Written, Exists
    <3>2. QED
      BY <3>1, SameWritten
  <2>4. \A s \in Slots : ~Exists(k, s) => k.takes[s].deprecated
    BY <1>12 DEF Exists, Sound
  <2>5. Sound(k)
    BY <1>1, <1>11, <2>1, <2>2, <2>3, <2>4 DEF Sound, nn
  <2>6. Gentle(j, k)
    BY <1>1, <1>11, <1>12 DEF Gentle, Exists, Job
  <2>7. Steady(j, k)
    BY <1>11, <1>12 DEF Steady, Orphaned, LiveTake, Exists
  <2>8. Tracks(j, k)
    BY <1>11, <1>12 DEF Tracks, Exists, Superseded
  <2>9. QED
    BY <2>5, <2>6, <2>7, <2>8 DEF k

-----------------------------------------------------------------------------
(* Dispatch and its outcomes.  In k, the takes of S have left the GPU and   *)
(* every other take is as it was in j.                                      *)

Landed(j, k, S) ==
  /\ k.place = j.place /\ k.plan = j.plan
  /\ j.status = "paused" => k.status = "paused"
  /\ \A s \in Slots :
       IF s \in S THEN k.takes[s].status \in {"planned", "written", "failed"}
                  ELSE k.takes[s] = j.takes[s]

LEMMA MarkRenderingOK ==
  ASSUME NEW j, Sound(j), NEW S \in SUBSET Slots,
         \A s \in S : j.takes[s].status = "planned"
  PROVE  LET k == MarkRendering(j, S)
         IN  /\ Sound(k) /\ Tracks(j, k)
             /\ Steady(j, k)
             /\ k.place = j.place /\ k.plan = j.plan
             /\ j.status = "paused" => k.status = "paused"
             /\ \A s \in Slots :
                  IF s \in S THEN k.takes[s].status = "rendering"
                             ELSE k.takes[s] = j.takes[s]
<1> DEFINE f == [s \in Slots |->
                   IF s \in S THEN [j.takes[s] EXCEPT !.status = "rendering"]
                              ELSE j.takes[s]]
           st == IF j.status = "paused" THEN j.status ELSE "rendering"
           k == MarkRendering(j, S)
<1>1. f \in [Slots -> Take]
  BY DEF Sound, Job, Take, TakeStatuses
<1>2. st \in JobStatuses
  BY DEF Sound, Job, JobStatuses
<1>3. k = [j EXCEPT !.status = st, !.takes = f]
  BY DEF MarkRendering, Sound, Job
<1> HIDE DEF f, st
<1>4. /\ k \in Job /\ k.takes = f /\ k.status = st
      /\ k.place = j.place /\ k.plan = j.plan
      /\ k.next = j.next /\ k.length = j.length /\ k.active = j.active
      /\ k.exhausted = j.exhausted /\ k.counted = j.counted
  BY <1>1, <1>2, <1>3 DEF Sound, Job
<1> HIDE DEF k
<1>5. \A s \in Slots :
        /\ j.takes[s] \in Take
        /\ s \in S => k.takes[s] = [j.takes[s] EXCEPT !.status = "rendering"]
        /\ s \notin S => k.takes[s] = j.takes[s]
  BY <1>4 DEF f, Sound, Job
<1>6. \A s \in Slots :
        /\ s \in S => /\ k.takes[s].status = "rendering"
                      /\ j.takes[s].status = "planned"
        /\ k.takes[s].deprecated = j.takes[s].deprecated
        /\ k.takes[s].attempts = j.takes[s].attempts
        /\ k.takes[s].plan = j.takes[s].plan
  BY <1>5 DEF Take
<1>7. SameShape(j, k)
  BY <1>4, <1>5, <1>6 DEF SameShape, Exists
<1>8. WrittenIndices(k) = WrittenIndices(j)
  <2>1. \A s \in Slots : LiveTake(k, s) /\ Written(k, s)
                           <=> LiveTake(j, s) /\ Written(j, s)
    BY <1>5, <1>6 DEF LiveTake, Written, Exists
  <2>2. QED
    BY <2>1, SameWritten
<1>9. AttemptsBounded(k)
  <2>1. AttemptsBounded(j)
    BY DEF Sound
  <2> SUFFICES ASSUME NEW s \in Slots, Exists(k, s)
               PROVE  /\ k.takes[s].attempts < MaxAttempts
                      /\ k.takes[s].status = "failed" => k.takes[s].attempts = MaxAttempts - 1
    BY DEF AttemptsBounded
  <2>2. Exists(j, s) /\ k.takes[s].attempts = j.takes[s].attempts
    BY <1>6, <1>7 DEF SameShape
  <2>3. k.takes[s].status = "failed" => j.takes[s].status = "failed"
    BY <1>5, <1>6
  <2>4. QED
    BY <2>1, <2>2, <2>3 DEF AttemptsBounded
<1>10. Sound(k)
  BY <1>4, <1>7, <1>8, <1>9, SameShapeAgrees DEF Sound, SameShape
<1>11. Steady(j, k)
  <2>1. ~Finished(k.status)
    BY <1>4 DEF st, Finished
  <2>2. ASSUME NEW s \in Slots, Orphaned(k, s) PROVE Orphaned(j, s)
    <3>1. s \notin S
      BY <1>6, <2>2 DEF Orphaned
    <3>2. k.takes[s] = j.takes[s]
      BY <1>5, <3>1
    <3>3. QED
      BY <1>4, <2>2, <3>2 DEF Orphaned, LiveTake, Exists
  <2>3. QED
    BY <2>1, <2>2 DEF Steady, DoneIfCompleted
<1>12. j.status = "paused" => k.status = "paused"
  BY <1>4 DEF st
<1>13. Tracks(j, k)
  BY <1>4, <1>5, <1>6 DEF Tracks, Superseded
<1>14. QED
  BY <1>4, <1>5, <1>6, <1>10, <1>11, <1>12, <1>13 DEF k

\* A take t of j that comes back from the worker as u.
Reported(j, t, u) ==
  /\ u \in Take
  /\ u.status \in {"planned", "written", "failed"}
  /\ u.deprecated = t.deprecated
  /\ u.attempts < MaxAttempts
  /\ u.status = "failed" => u.attempts = MaxAttempts - 1
  /\ ~u.deprecated /\ u.status = "planned" => u.plan = j.plan
  /\ u.plan \in {t.plan, j.plan}
  /\ Superseded(j, t) => u.status = "planned" /\ u.voice = j.voice

\* Takes of S come back changed as g says; then the job may be refreshed and
\* is settled.
LEMMA LandedOK ==
  ASSUME NEW j, Sound(j), NEW S \in SUBSET Slots,
         \A s \in S : j.takes[s].status = "rendering",
         NEW g,
         \A s \in S : Reported(j, j.takes[s], g[s]),
         NEW m,
         m = [j EXCEPT !.takes = [s \in Slots |-> IF s \in S THEN g[s] ELSE j.takes[s]]],
         NEW q,
         \/ q = Refresh(m)
         \/ q = m /\ \A s \in S : g[s].status # "written",
         NEW k, k = Settle(q)
  PROVE  /\ Sound(k) /\ Landed(j, k, S) /\ Tracks(j, k)
         /\ Steady(j, k)
<1>0. \A s \in S :
        /\ g[s] \in Take
        /\ g[s].status \in {"planned", "written", "failed"}
        /\ g[s].deprecated = j.takes[s].deprecated
        /\ g[s].attempts < MaxAttempts
        /\ g[s].status = "failed" => g[s].attempts = MaxAttempts - 1
        /\ ~g[s].deprecated /\ g[s].status = "planned" => g[s].plan = j.plan
  BY DEF Reported
<1> DEFINE f == [s \in Slots |-> IF s \in S THEN g[s] ELSE j.takes[s]]
<1>1. f \in [Slots -> Take]
  BY <1>0 DEF Sound, Job
<1> HIDE DEF f
<1>2. /\ m \in Job /\ m.takes = f
      /\ m.place = j.place /\ m.plan = j.plan /\ m.status = j.status
      /\ m.voice = j.voice
      /\ m.next = j.next /\ m.length = j.length /\ m.active = j.active
      /\ m.exhausted = j.exhausted /\ m.counted = j.counted
  BY <1>1 DEF Sound, Job, f
<1>4. /\ q \in Job /\ q.takes = f
      /\ q.place = j.place /\ q.plan = j.plan /\ q.status = j.status
      /\ q.voice = j.voice
      /\ q.next = j.next /\ q.length = j.length /\ q.active = j.active
      /\ q.exhausted = j.exhausted
  <2>1. CASE q = m
    BY <1>2, <2>1
  <2>2. CASE q = Refresh(m)
    BY <1>2, <2>2, RefreshFacts DEF Refresh, Job
  <2>3. QED
    BY <2>1, <2>2
<1>5. /\ k \in Job /\ k.takes = f
      /\ k.place = j.place /\ k.plan = j.plan /\ k.voice = j.voice
      /\ k.next = j.next /\ k.length = j.length /\ k.active = j.active
      /\ k.exhausted = j.exhausted /\ k.counted = q.counted
      /\ j.status = "paused" <=> k.status = "paused"
      /\ ~Finished(j.status) => DoneIfCompleted(k)
      /\ DoneIfCompleted(q) => DoneIfCompleted(k)
  BY <1>4, SettleFacts
<1>6. \A s \in Slots :
        /\ s \in S => k.takes[s] = g[s] /\ j.takes[s].status = "rendering"
        /\ s \notin S => k.takes[s] = j.takes[s]
  BY <1>5 DEF f
<1>7. SameShape(j, k)
  BY <1>0, <1>5, <1>6 DEF SameShape, Exists
<1>8. k.counted = WrittenIndices(k)
  <2>1. WrittenIndices(k) = WrittenIndices(q)
    BY <1>4, <1>5, SameWritten DEF LiveTake, Written, Exists
  <2>2. CASE q = m /\ \A s \in S : g[s].status # "written"
    <3>2. \A s \in Slots : LiveTake(k, s) /\ Written(k, s)
                             <=> LiveTake(j, s) /\ Written(j, s)
      BY <1>6, <2>2 DEF LiveTake, Written, Exists
    <3>3. WrittenIndices(k) = WrittenIndices(j)
      BY <3>2, SameWritten
    <3>4. QED
      BY <1>2, <1>5, <2>2, <3>3 DEF Sound
  <2>3. CASE q = Refresh(m)
    BY <1>2, <1>5, <2>1, <2>3, RefreshFacts
  <2>4. QED
    BY <2>2, <2>3
<1>9. AttemptsBounded(k)
  BY <1>0, <1>6 DEF AttemptsBounded, Exists, Sound
<1>10. Sound(k)
  BY <1>5, <1>7, <1>8, <1>9, SameShapeAgrees DEF Sound, SameShape
<1>11. Landed(j, k, S)
  BY <1>0, <1>5, <1>6 DEF Landed
<1>12. Steady(j, k)
  <2>1. \A s \in Slots : Orphaned(k, s) => Orphaned(j, s)
    BY <1>0, <1>5, <1>6 DEF Orphaned, LiveTake, Exists
  <2>2. CASE ~Finished(j.status)
    BY <1>5, <2>1, <2>2 DEF Steady
  <2>3. ASSUME Finished(j.status), DoneIfCompleted(j) PROVE DoneIfCompleted(k)
    <3>1. j.exhausted /\ ~Unfinished(j)
      BY <2>3 DEF DoneIfCompleted
    <3>2. \A s \in S : j.takes[s].deprecated
      BY <3>1 DEF Unfinished, LiveTake, Exists, Pending
    <3>3. \A s \in Slots : ~(LiveTake(k, s) /\ k.takes[s].status \in Pending)
      BY <1>0, <1>6, <3>1, <3>2 DEF Unfinished, LiveTake, Exists
    <3>4. QED
      BY <1>5, <3>1, <3>3 DEF DoneIfCompleted, Unfinished
  <2>4. QED
    BY <2>1, <2>2, <2>3 DEF Steady
<1>13. Tracks(j, k)
  <2> SUFFICES ASSUME NEW s \in Slots
               PROVE  /\ k.takes[s].plan \in {j.takes[s].plan, k.plan}
                      /\ /\ j.takes[s].status = "rendering"
                         /\ Superseded(j, j.takes[s])
                         /\ ~k.takes[s].deprecated
                         => \/ k.takes[s].status = "rendering" /\ k.takes[s].plan # k.plan
                            \/ /\ k.takes[s].status = "planned"
                               /\ k.takes[s].voice = k.voice /\ k.takes[s].plan = k.plan
    BY DEF Tracks
  <2>1. CASE s \in S
    BY <1>0, <1>5, <1>6, <2>1 DEF Reported, Superseded
  <2>2. CASE s \notin S
    BY <1>5, <1>6, <2>2 DEF Superseded
  <2>3. QED
    BY <2>1, <2>2
<1>14. QED
  BY <1>10, <1>11, <1>12, <1>13

LEMMA MarkPlannedOK ==
  ASSUME NEW j, Sound(j), NEW S \in SUBSET Slots,
         \A s \in S : j.takes[s].status = "rendering"
  PROVE  /\ Sound(MarkPlanned(j, S)) /\ Landed(j, MarkPlanned(j, S), S)
         /\ Tracks(j, MarkPlanned(j, S))
         /\ Steady(j, MarkPlanned(j, S))
         /\ \A s \in S : MarkPlanned(j, S).takes[s].status = "planned"
<1> DEFINE g == [s \in Slots |-> Requeue(j, j.takes[s])]
           m == [j EXCEPT !.takes =
                   [s \in Slots |-> IF s \in S THEN g[s] ELSE j.takes[s]]]
           f == [s \in Slots |-> IF s \in S THEN Requeue(j, j.takes[s])
                                            ELSE j.takes[s]]
<1>1. j \in Job /\ \A s \in Slots : j.takes[s] \in Take
  BY DEF Sound, Job
<1>2. \A s \in S : Reported(j, j.takes[s], g[s]) /\ g[s].status = "planned"
  <2> SUFFICES ASSUME NEW s \in S
               PROVE  Reported(j, j.takes[s], g[s]) /\ g[s].status = "planned"
    OBVIOUS
  <2>1. g[s] = Requeue(j, j.takes[s]) /\ j.takes[s] \in Take
    BY <1>1
  <2>2. j.takes[s].attempts < MaxAttempts
    BY DEF Sound, AttemptsBounded, Exists
  <2>3. QED
    BY <1>1, <2>1, <2>2, RequeueType, SizesAssumption DEF Reported
<1>3. m = [j EXCEPT !.takes = f]
  OBVIOUS
<1>4. MarkPlanned(j, S) = Settle(m)
  BY <1>3 DEF MarkPlanned
<1> HIDE DEF g
<1>5. /\ Sound(MarkPlanned(j, S)) /\ Landed(j, MarkPlanned(j, S), S)
      /\ Tracks(j, MarkPlanned(j, S))
      /\ Steady(j, MarkPlanned(j, S))
  BY <1>2, <1>4, LandedOK
<1>6. \A s \in S : MarkPlanned(j, S).takes[s] = g[s]
  <2>1. [s \in Slots |-> IF s \in S THEN g[s] ELSE j.takes[s]] \in [Slots -> Take]
    BY <1>1, <1>2 DEF Reported
  <2>2. m \in Job /\ m.takes = [s \in Slots |-> IF s \in S THEN g[s] ELSE j.takes[s]]
    BY <1>1, <2>1, TakesFacts
  <2> HIDE DEF m
  <2>3. MarkPlanned(j, S).takes = m.takes
    BY <1>4, <2>2, SettleFacts
  <2>4. QED
    BY <2>2, <2>3
<1>7. QED
  BY <1>2, <1>5, <1>6

LEMMA RetryOrFailType ==
  ASSUME NEW j \in Job, NEW t \in Take, t.attempts < MaxAttempts
  PROVE  LET u == RetryOrFail(j, t)
         IN  /\ u \in Take
             /\ u.status \in {"planned", "failed"}
             /\ u.deprecated = t.deprecated
             /\ u.attempts < MaxAttempts
             /\ u.status = "failed" => u.attempts = MaxAttempts - 1
             /\ ~u.deprecated /\ u.status = "planned" => u.plan = j.plan
             /\ u.plan \in {t.plan, j.plan}
             /\ Superseded(j, t) => u.status = "planned" /\ u.voice = j.voice
<1>1. t.attempts \in Nat /\ MaxAttempts \in Nat \ {0}
  BY SizesAssumption DEF Take
<1>2. CASE t.attempts + 1 >= MaxAttempts
  <2>1. CASE Superseded(j, t)
    BY <1>1, <1>2, <2>1, ApplyVoiceType DEF RetryOrFail
  <2>2. CASE ~Superseded(j, t)
    <3>1. RetryOrFail(j, t) = [t EXCEPT !.status = "failed"]
      BY <1>2, <2>2 DEF RetryOrFail
    <3>2. /\ [t EXCEPT !.status = "failed"] \in Take
          /\ [t EXCEPT !.status = "failed"].status = "failed"
          /\ [t EXCEPT !.status = "failed"].deprecated = t.deprecated
          /\ [t EXCEPT !.status = "failed"].attempts = t.attempts
          /\ [t EXCEPT !.status = "failed"].plan = t.plan
      BY DEF Take, TakeStatuses
    <3>3. t.attempts = MaxAttempts - 1
      BY <1>1, <1>2
    <3>4. QED
      BY <2>2, <3>1, <3>2, <3>3
  <2>3. QED
    BY <2>1, <2>2
<1>3. CASE ~(t.attempts + 1 >= MaxAttempts)
  <2> DEFINE n == t.attempts + 1
             w == [t EXCEPT !.attempts = n]
  <2>1. n \in 0 .. MaxAttempts /\ n < MaxAttempts
    BY <1>1, <1>3
  <2> HIDE DEF n
  <2>2. /\ w \in Take /\ w.deprecated = t.deprecated /\ w.attempts = n
        /\ w.plan = t.plan /\ (Superseded(j, w) <=> Superseded(j, t))
    BY <2>1 DEF Take, Superseded
  <2>3. RetryOrFail(j, t) = Requeue(j, w)
    BY <1>3 DEF RetryOrFail, n, Take
  <2> HIDE DEF w
  <2>4. QED
    BY <1>1, <2>1, <2>2, <2>3, RequeueType
<1>4. QED
  BY <1>2, <1>3

LEMMA MarkBatchFailedOK ==
  ASSUME NEW j, Sound(j), NEW S \in SUBSET Slots,
         \A s \in S : j.takes[s].status = "rendering"
  PROVE  /\ Sound(MarkBatchFailed(j, S)) /\ Landed(j, MarkBatchFailed(j, S), S)
         /\ Tracks(j, MarkBatchFailed(j, S))
         /\ Steady(j, MarkBatchFailed(j, S))
<1> DEFINE g == [s \in Slots |-> RetryOrFail(j, j.takes[s])]
           m == [j EXCEPT !.takes =
                   [s \in Slots |-> IF s \in S THEN g[s] ELSE j.takes[s]]]
           f == [s \in Slots |-> IF s \in S THEN RetryOrFail(j, j.takes[s])
                                            ELSE j.takes[s]]
           gaveUp == \E s \in S : j.takes[s].attempts + 1 >= MaxAttempts
           q == IF gaveUp THEN Refresh(m) ELSE m
<1>1. j \in Job /\ \A s \in Slots : j.takes[s] \in Take
  BY DEF Sound, Job
<1>2. \A s \in S : Reported(j, j.takes[s], g[s]) /\ g[s].status # "written"
  <2> SUFFICES ASSUME NEW s \in S
               PROVE  Reported(j, j.takes[s], g[s]) /\ g[s].status # "written"
    OBVIOUS
  <2>1. g[s] = RetryOrFail(j, j.takes[s]) /\ j.takes[s] \in Take
    BY <1>1
  <2>2. j.takes[s].attempts < MaxAttempts
    BY DEF Sound, AttemptsBounded, Exists
  <2>3. QED
    BY <1>1, <2>1, <2>2, RetryOrFailType DEF Reported
<1>3. m = [j EXCEPT !.takes = f]
  OBVIOUS
<1>4. MarkBatchFailed(j, S) = Settle(q)
  BY <1>3 DEF MarkBatchFailed
<1> HIDE DEF g
<1>5. m = [j EXCEPT !.takes = [s \in Slots |-> IF s \in S THEN g[s] ELSE j.takes[s]]]
  OBVIOUS
<1>6. CASE gaveUp
  <2>1. MarkBatchFailed(j, S) = Settle(Refresh(m))
    BY <1>4, <1>6
  <2> HIDE DEF m
  <2>2. ASSUME NEW r, r = Refresh(m), NEW k, k = Settle(r)
        PROVE  Sound(k) /\ Landed(j, k, S) /\ Tracks(j, k) /\ Steady(j, k)
    <3>1. \/ r = Refresh(m)
          \/ r = m /\ \A s \in S : g[s].status # "written"
      BY <2>2
    <3> QED
      BY <1>2, <1>5, <2>2, <3>1, LandedOK
  <2> QED
    BY <2>1, <2>2
<1>7. CASE ~gaveUp
  <2>1. MarkBatchFailed(j, S) = Settle(m)
    BY <1>4, <1>7
  <2> HIDE DEF m
  <2>2. QED
    BY <1>2, <1>5, <2>1, LandedOK
<1>8. QED
  BY <1>6, <1>7

LEMMA MarkWrittenOK ==
  ASSUME NEW j, Sound(j), NEW s \in Slots, j.takes[s].status = "rendering"
  PROVE  /\ Sound(MarkWritten(j, s)) /\ Landed(j, MarkWritten(j, s), {s})
         /\ Tracks(j, MarkWritten(j, s))
         /\ Steady(j, MarkWritten(j, s))
<1>1. j \in Job /\ j.takes[s] \in Take /\ j.takes[s].attempts < MaxAttempts
  BY DEF Sound, Job, AttemptsBounded, Exists
<1>2. CASE ~Superseded(j, j.takes[s])
  <2> DEFINE g == [r \in Slots |-> [j.takes[s] EXCEPT !.status = "written"]]
             m == [j EXCEPT !.takes =
                     [r \in Slots |-> IF r \in {s} THEN g[r] ELSE j.takes[r]]]
  <2>1. /\ g[s] \in Take /\ g[s].status = "written"
        /\ g[s].deprecated = j.takes[s].deprecated
        /\ g[s].attempts < MaxAttempts
        /\ g[s].plan = j.takes[s].plan
    BY <1>1 DEF Take, TakeStatuses
  <2>2. [j EXCEPT !.takes[s].status = "written"] = m
    BY <1>1 DEF Job
  <2>3. MarkWritten(j, s) = Settle(Refresh(m))
    BY <1>2, <2>2 DEF MarkWritten
  <2> HIDE DEF g
  <2>4. \A r \in {s} : Reported(j, j.takes[r], g[r])
    BY <1>2, <2>1 DEF Reported
  <2>5. QED
    BY <2>3, <2>4, LandedOK
<1>3. CASE Superseded(j, j.takes[s])
  <2> DEFINE k == MarkWritten(j, s)
             f == [r \in Slots |-> IF r = s THEN ApplyVoice(j, j.takes[s])
                                            ELSE j.takes[r]]
  <2>1. f \in [Slots -> Take]
    BY <1>1, ApplyVoiceType DEF Job
  <2>2. k = [j EXCEPT !.takes = f]
    BY <1>1, <1>3 DEF MarkWritten, Job
  <2> HIDE DEF f, k
  <2>3. /\ k \in Job /\ k.takes = f
        /\ k.place = j.place /\ k.plan = j.plan /\ k.status = j.status
        /\ k.voice = j.voice
        /\ k.next = j.next /\ k.length = j.length /\ k.active = j.active
        /\ k.exhausted = j.exhausted /\ k.counted = j.counted
    BY <1>1, <2>1, <2>2 DEF Job
  <2>4. /\ k.takes[s].status = "planned" /\ k.takes[s].plan = j.plan
        /\ k.takes[s].deprecated = j.takes[s].deprecated
        /\ k.takes[s].attempts = 0 /\ k.takes[s].voice = j.voice
        /\ \A r \in Slots \ {s} : k.takes[r] = j.takes[r]
    BY <1>1, <2>3, ApplyVoiceType DEF f
  <2>5. SameShape(j, k)
    BY <2>3, <2>4 DEF SameShape, Exists
  <2>6. WrittenIndices(k) = WrittenIndices(j)
    <3>1. \A r \in Slots : LiveTake(k, r) /\ Written(k, r)
                             <=> LiveTake(j, r) /\ Written(j, r)
      BY <2>4 DEF LiveTake, Written, Exists
    <3>2. QED
      BY <3>1, SameWritten
  <2>7. AttemptsBounded(k)
    BY <2>4, SizesAssumption DEF AttemptsBounded, Exists, Sound
  <2>8. Sound(k)
    BY <2>3, <2>5, <2>6, <2>7, SameShapeAgrees DEF Sound, SameShape
  <2>9. Landed(j, k, {s})
    BY <2>3, <2>4 DEF Landed
  <2>10. Steady(j, k)
    <3>1. Unfinished(j)
      BY <1>3 DEF Unfinished, LiveTake, Exists, Pending, Superseded
    <3>2. DoneIfCompleted(j) => ~Finished(k.status)
      BY <2>3, <3>1 DEF DoneIfCompleted
    <3>3. \A r \in Slots : Orphaned(k, r) => Orphaned(j, r)
      BY <2>3, <2>4 DEF Orphaned, LiveTake, Exists
    <3>4. QED
      BY <3>2, <3>3 DEF Steady, DoneIfCompleted
  <2>11. Tracks(j, k)
    BY <2>3, <2>4 DEF Tracks, Superseded
  <2>12. QED
    BY <2>8, <2>9, <2>10, <2>11 DEF k
<1>4. QED
  BY <1>2, <1>3

-----------------------------------------------------------------------------
(* New takes and switches between takes *)

\* What LiveTakesAgree says of one index.
AgreesAt(j, i) ==
  IF i < j.next
  THEN /\ j.active[i] \in Versions
       /\ Exists(j, <<i, j.active[i]>>)
       /\ \A w \in Versions : LiveTake(j, <<i, w>>) <=> w = j.active[i]
  ELSE /\ j.active[i] = NoVersion
       /\ \A w \in Versions : ~Exists(j, <<i, w>>)

\* Making a take live repairs its index, whatever the flags there were before.
LEMMA ActivateOK ==
  ASSUME NEW j \in Job, j.next <= j.length, AttemptsBounded(j),
         \A s \in Slots : ~Exists(j, s) => j.takes[s].deprecated,
         NEW i \in Indices, NEW v \in Versions, i < j.next, Exists(j, <<i, v>>),
         \A h \in Indices \ {i} : AgreesAt(j, h)
  PROVE  LET k == Settle(Refresh(ActivateVersion(j, i, v)))
         IN  /\ Sound(k)
             /\ k.place = j.place /\ k.plan = j.plan
             /\ k.exhausted = j.exhausted
             /\ k.status = "paused" <=> j.status = "paused"
             /\ ~Finished(j.status) => DoneIfCompleted(k)
             /\ Finished(j.status) => k.status = j.status
             /\ \A s \in Slots :
                  /\ k.takes[s].status = j.takes[s].status
                  /\ k.takes[s].plan = j.takes[s].plan
                  /\ k.takes[s].voice = j.takes[s].voice
                  /\ LiveTake(k, s) => s = <<i, v>> \/ LiveTake(j, s)
<1> DEFINE f == [s \in Slots |-> IF s[1] = i /\ Exists(j, s)
                                 THEN [j.takes[s] EXCEPT !.deprecated = (s[2] # v)]
                                 ELSE j.takes[s]]
           act == [j.active EXCEPT ![i] = v]
           a == ActivateVersion(j, i, v)
           b == Refresh(a)
           k == Settle(b)
<1>1. f \in [Slots -> Take]
  BY ZenonT(60) DEF Job, Take
<1>2. act \in [Indices -> Versions \cup {NoVersion}]
  BY DEF Job
<1>3. a = [j EXCEPT !.active = act, !.takes = f]
  BY DEF ActivateVersion, Job
<1>4. \A s \in Slots :
        /\ f[s].status = j.takes[s].status
        /\ f[s].plan = j.takes[s].plan
        /\ f[s].voice = j.takes[s].voice
        /\ f[s].attempts = j.takes[s].attempts
        /\ f[s].deprecated = IF s[1] = i /\ Exists(j, s) THEN s[2] # v
                                                        ELSE j.takes[s].deprecated
  BY DEF Job, Take
<1> HIDE DEF f, act, a
<1>5. /\ a \in Job /\ a.takes = f /\ a.active = act
      /\ a.place = j.place /\ a.plan = j.plan /\ a.status = j.status
      /\ a.next = j.next /\ a.length = j.length /\ a.exhausted = j.exhausted
  BY <1>1, <1>2, <1>3 DEF Job
<1>6. /\ b \in Job /\ b.takes = f /\ b.active = act
      /\ b.place = j.place /\ b.plan = j.plan /\ b.status = j.status
      /\ b.next = j.next /\ b.length = j.length /\ b.exhausted = j.exhausted
      /\ b.counted = WrittenIndices(b)
  BY <1>5, RefreshFacts DEF Job
<1> HIDE DEF b
<1>7. /\ k \in Job /\ k.takes = f /\ k.active = act
      /\ k.place = j.place /\ k.plan = j.plan
      /\ k.next = j.next /\ k.length = j.length /\ k.exhausted = j.exhausted
      /\ k.counted = b.counted
      /\ k.status = "paused" <=> j.status = "paused"
      /\ ~Finished(j.status) => DoneIfCompleted(k)
  BY <1>6, SettleFacts
<1>8. Finished(j.status) => k.status = j.status
  BY <1>6 DEF Settle, Finished
<1> HIDE DEF k
<1>9. \A s \in Slots :
        /\ Exists(k, s) <=> Exists(j, s)
        /\ LiveTake(k, s) <=> IF s[1] = i THEN Exists(j, s) /\ s[2] = v
                                          ELSE LiveTake(j, s)
  BY <1>4, <1>7 DEF Exists, LiveTake
<1>10. LiveTakesAgree(k)
  <2> SUFFICES ASSUME NEW h \in Indices PROVE AgreesAt(k, h)
    BY DEF LiveTakesAgree, AgreesAt
  <2>1. \A w \in Versions : <<h, w>> \in Slots
    BY DEF Slots
  <2>2. CASE h = i
    <3>1. k.active[h] = v
      BY <1>7, <2>2 DEF act, Job
    <3>2. \A w \in Versions : LiveTake(k, <<h, w>>) <=> w = v
      BY <1>9, <2>1, <2>2
    <3>3. Exists(k, <<h, v>>)
      BY <1>9, <2>1, <2>2
    <3>4. QED
      BY <1>7, <2>2, <3>1, <3>2, <3>3 DEF AgreesAt
  <2>3. CASE h # i
    <3>1. k.active[h] = j.active[h]
      BY <1>7, <2>3 DEF act, Job
    <3>2. \A w \in Versions : /\ LiveTake(k, <<h, w>>) <=> LiveTake(j, <<h, w>>)
                              /\ Exists(k, <<h, w>>) <=> Exists(j, <<h, w>>)
      BY <1>9, <2>1, <2>3
    <3>3. AgreesAt(j, h)
      BY <2>3
    <3>4. QED
      BY <1>7, <3>1, <3>2, <3>3 DEF AgreesAt
  <2>4. QED
    BY <2>2, <2>3
<1>11. k.counted = WrittenIndices(k)
  <2>1. \A s \in Slots : LiveTake(k, s) /\ Written(k, s)
                           <=> LiveTake(b, s) /\ Written(b, s)
    BY <1>6, <1>7 DEF LiveTake, Written, Exists
  <2>2. QED
    BY <1>6, <1>7, <2>1, SameWritten
<1>12. AttemptsBounded(k)
  BY <1>4, <1>7, <1>9 DEF AttemptsBounded
<1>13. \A s \in Slots : ~Exists(k, s) => k.takes[s].deprecated
  BY <1>4, <1>7, <1>9
<1>14. Sound(k)
  BY <1>7, <1>10, <1>11, <1>12, <1>13 DEF Sound
<1>15. \A s \in Slots : LiveTake(k, s) => s = <<i, v>> \/ LiveTake(j, s)
  BY <1>9 DEF Slots
<1>16. QED
  BY <1>4, <1>7, <1>8, <1>14, <1>15 DEF k, b, a

LEMMA AddVersionOK ==
  ASSUME NEW j, Sound(j), NEW i \in Indices, NEW v \in Versions,
         NextVersion(j, i, v), NEW voice \in Voices
  PROVE  LET k == AddVersion(j, i, v, voice)
         IN  /\ Sound(k) /\ Gentle(j, k) /\ Tracks(j, k)
             /\ k.status = "paused" <=> j.status = "paused"
             /\ Steady(j, k)
<1> DEFINE r == Reactivate(j)
           new == [status |-> "planned", plan |-> r.plan, voice |-> voice,
                   deprecated |-> FALSE, attempts |-> 0]
           f == [r.takes EXCEPT ![<<i, v>>] = new]
           added == [r EXCEPT !.takes = f]
           k == AddVersion(j, i, v, voice)
<1>1. OnlyStatus(j, r) /\ ~Finished(r.status)
  <2>1. OnlyStatus(j, r)
    BY CommandsOnlyStatus DEF Sound
  <2>2. ~Finished(r.status)
    BY DEF Reactivate, Finished, Sound, Job
  <2>3. QED
    BY <2>1, <2>2
<1>2. r.status = "paused" <=> j.status = "paused"
  BY DEF Reactivate, Finished, Sound, Job
<1>3. Sound(r)
  BY <1>1, OnlyStatusOK
<1>4. /\ r \in Job /\ r.takes = j.takes /\ r.plan = j.plan /\ r.place = j.place
  BY <1>1 DEF OnlyStatus
<1> HIDE DEF r
<1>5. new \in Take
  BY <1>4, SizesAssumption DEF Take, TakeStatuses, Job
<1>6. <<i, v>> \in Slots /\ f \in [Slots -> Take]
  BY <1>4, <1>5 DEF Slots, Job
<1>7. f[<<i, v>>] = new /\ \A s \in Slots : s # <<i, v>> => f[s] = j.takes[s]
  BY <1>4, <1>6 DEF Job
<1>8. added = [r EXCEPT !.takes[<<i, v>>] = new]
  BY <1>4 DEF Job
<1>9. k = Settle(Refresh(ActivateVersion(added, i, v)))
  BY <1>8 DEF AddVersion, r
<1> HIDE DEF f, added, k
<1>10. /\ added \in Job /\ added.takes = f /\ added.active = r.active
       /\ added.next = r.next /\ added.length = r.length
       /\ added.place = r.place /\ added.plan = r.plan
       /\ added.status = r.status /\ added.exhausted = r.exhausted
  BY <1>4, <1>6 DEF added, Job
<1>11. i < r.next /\ ~Exists(j, <<i, v>>)
  <2>1. v - 1 \in Versions /\ ~(v < v)
    BY SizesAssumption DEF NextVersion, Versions
  <2>2. i < r.next
    BY <1>3, <1>4, <2>1, ZenonT(60) DEF NextVersion, Sound, LiveTakesAgree, Exists
  <2>3. QED
    BY <2>1, <2>2 DEF NextVersion
<1>12. \A s \in Slots : s # <<i, v>> =>
         /\ Exists(added, s) <=> Exists(r, s)
         /\ LiveTake(added, s) <=> LiveTake(r, s)
  BY <1>4, <1>7, <1>10 DEF Exists, LiveTake
<1>13. Exists(added, <<i, v>>)
  BY <1>7, <1>10 DEF Exists
<1>14. \A h \in Indices \ {i} : AgreesAt(added, h)
  <2> SUFFICES ASSUME NEW h \in Indices \ {i} PROVE AgreesAt(added, h)
    OBVIOUS
  <2>1. AgreesAt(r, h)
    BY <1>3 DEF Sound, LiveTakesAgree, AgreesAt
  <2>2. \A w \in Versions : /\ Exists(added, <<h, w>>) <=> Exists(r, <<h, w>>)
                            /\ LiveTake(added, <<h, w>>) <=> LiveTake(r, <<h, w>>)
    BY <1>12 DEF Slots
  <2>3. QED
    BY <1>10, <2>1, <2>2 DEF AgreesAt
<1>15. AttemptsBounded(added)
  <2>1. AttemptsBounded(r)
    BY <1>3 DEF Sound
  <2>2. \A s \in Slots : s # <<i, v>> => added.takes[s] = r.takes[s]
    BY <1>4, <1>7, <1>10
  <2>3. /\ added.takes[<<i, v>>].attempts = 0
        /\ added.takes[<<i, v>>].status = "planned"
    BY <1>7, <1>10
  <2>4. QED
    BY <2>1, <2>2, <2>3, SizesAssumption DEF AttemptsBounded, Exists
<1>16. \A s \in Slots : ~Exists(added, s) => added.takes[s].deprecated
  BY <1>3, <1>4, <1>7, <1>10, <1>12, <1>13 DEF Sound
<1>17. /\ Sound(k)
       /\ k.place = added.place /\ k.plan = added.plan
       /\ k.status = "paused" <=> added.status = "paused"
       /\ DoneIfCompleted(k)
       /\ \A s \in Slots :
            /\ k.takes[s].status = added.takes[s].status
            /\ k.takes[s].plan = added.takes[s].plan
            /\ k.takes[s].voice = added.takes[s].voice
            /\ LiveTake(k, s) => s = <<i, v>> \/ LiveTake(added, s)
  <2>1. added.next <= added.length /\ i < added.next
    BY <1>3, <1>10, <1>11 DEF Sound
  <2>2. ~Finished(added.status)
    BY <1>1, <1>10
  <2>3. QED
    BY <1>9, <1>10, <1>13, <1>14, <1>15, <1>16, <2>1, <2>2, ActivateOK
<1>18. Gentle(j, k)
  <2>1. j.takes[<<i, v>>].status = "none"
    BY <1>11 DEF Exists
  <2>2. k.takes[<<i, v>>].status = "planned"
    BY <1>6, <1>7, <1>10, <1>17
  <2>3. \A s \in Slots : s # <<i, v>> =>
          /\ k.takes[s].status = j.takes[s].status
          /\ k.takes[s].voice = j.takes[s].voice
    BY <1>7, <1>10, <1>17
  <2>4. k.place = j.place /\ k.plan >= j.plan
    BY <1>4, <1>10, <1>17 DEF Job
  <2>5. QED
    BY <2>1, <2>2, <2>3, <2>4 DEF Gentle
<1>19. Steady(j, k)
  <2> SUFFICES ASSUME NEW s \in Slots, Orphaned(k, s)
               PROVE  Orphaned(j, s)
    BY <1>17 DEF Steady
  <2>1. CASE s = <<i, v>>
    BY <1>7, <1>10, <1>17, <2>1 DEF Orphaned
  <2>2. CASE s # <<i, v>>
    <3>1. LiveTake(r, s) /\ r.takes[s].status = "planned"
      BY <1>4, <1>7, <1>10, <1>12, <1>17, <2>2 DEF Orphaned
    <3>2. j.takes[s].plan # j.plan
      BY <1>4, <1>7, <1>10, <1>17, <2>2 DEF Orphaned
    <3>3. QED
      BY <1>4, <3>1, <3>2 DEF Orphaned, LiveTake, Exists
  <2>3. QED
    BY <2>1, <2>2
<1>20. k.status = "paused" <=> j.status = "paused"
  BY <1>2, <1>10, <1>17
<1>21. Tracks(j, k)
  <2>1. k.plan = j.plan
    BY <1>4, <1>10, <1>17
  <2>2. j.takes[<<i, v>>].status = "none" /\ k.takes[<<i, v>>].plan = k.plan
    BY <1>4, <1>6, <1>7, <1>10, <1>11, <1>17 DEF Exists
  <2>3. \A s \in Slots : s # <<i, v>> =>
          /\ k.takes[s].status = j.takes[s].status
          /\ k.takes[s].plan = j.takes[s].plan
    BY <1>7, <1>10, <1>17
  <2>4. QED
    BY <2>1, <2>2, <2>3 DEF Tracks, Superseded
<1>22. QED
  BY <1>17, <1>18, <1>19, <1>20, <1>21 DEF k

LEMMA SwitchVersionOK ==
  ASSUME NEW j, Sound(j), NEW i \in Indices, NEW v \in Versions, Exists(j, <<i, v>>)
  PROVE  LET k == SwitchVersion(j, i, v)
         IN  /\ Sound(k) /\ Gentle(j, k) /\ Tracks(j, k)
             /\ k.status = "paused" <=> j.status = "paused"
             /\ Switched(j, k)
<1> DEFINE k == SwitchVersion(j, i, v)
<1>1. i < j.next
  BY DEF Sound, LiveTakesAgree, Exists
<1>2. \A h \in Indices \ {i} : AgreesAt(j, h)
  BY DEF Sound, LiveTakesAgree, AgreesAt
<1>3. k = Settle(Refresh(ActivateVersion(j, i, v)))
  BY DEF SwitchVersion
<1> HIDE DEF k
<1>4. /\ Sound(k)
      /\ k.place = j.place /\ k.plan = j.plan /\ k.exhausted = j.exhausted
      /\ k.status = "paused" <=> j.status = "paused"
      /\ ~Finished(j.status) => DoneIfCompleted(k)
      /\ Finished(j.status) => k.status = j.status
      /\ \A s \in Slots :
           /\ k.takes[s].status = j.takes[s].status
           /\ k.takes[s].plan = j.takes[s].plan
           /\ k.takes[s].voice = j.takes[s].voice
           /\ LiveTake(k, s) => s = <<i, v>> \/ LiveTake(j, s)
  BY <1>1, <1>2, <1>3, ActivateOK DEF Sound
<1>5. Gentle(j, k)
  BY <1>4 DEF Gentle, Sound, Job
<1>6. Switched(j, k)
  BY <1>4 DEF Switched, Orphaned, LiveTake, Exists
<1>7. Tracks(j, k)
  BY <1>4 DEF Tracks, Superseded
<1>8. QED
  BY <1>4, <1>5, <1>6, <1>7 DEF k

-----------------------------------------------------------------------------
(* New jobs *)

LEMMA NewJobOK ==
  ASSUME NEW n \in 0 .. MaxChunks, NEW v \in Voices \cup {NoVoice}, NEW m \in Models
  PROVE  LET k == NewJob(n, v, m)
         IN  /\ Sound(k) /\ DoneIfCompleted(k) /\ QueuedUnderPlan(k)
             /\ k.place = "live" /\ k.plan = 1
             /\ \A s \in Slots : k.takes[s].status = "none"
             /\ Capped(k)
<1> DEFINE k == NewJob(n, v, m)
<1>1. NoTake \in Take
  BY SizesAssumption DEF NoTake, Take, TakeStatuses
<1>2. k \in Job
  BY <1>1, SizesAssumption DEF NewJob, Job, JobStatuses, Places
<1>3. /\ k.next = 0 /\ k.length = n /\ k.counted = {} /\ k.status = "queued"
      /\ k.place = "live" /\ k.plan = 1
      /\ \A i \in Indices : k.active[i] = NoVersion
      /\ \A s \in Slots : k.takes[s] = NoTake
  BY DEF NewJob
<1> HIDE DEF k
<1>4. \A s \in Slots : ~Exists(k, s) /\ ~LiveTake(k, s) /\ k.takes[s].deprecated
                      /\ k.takes[s].status = "none"
  BY <1>3 DEF NoTake, Exists, LiveTake
<1>5. LiveTakesAgree(k)
  BY <1>3, <1>4 DEF LiveTakesAgree, Indices, Slots
<1>6. WrittenIndices(k) = {}
  BY <1>4 DEF WrittenIndices, Slots
<1>7. AttemptsBounded(k) /\ QueuedUnderPlan(k)
  BY <1>4 DEF AttemptsBounded, QueuedUnderPlan, Orphaned
<1>8. Sound(k)
  BY <1>2, <1>3, <1>4, <1>5, <1>6, <1>7 DEF Sound
<1>9. DoneIfCompleted(k)
  BY <1>3 DEF DoneIfCompleted, Finished
<1>10. Capped(k)
  BY <1>3 DEF Capped, NoTake
<1>11. QED
  BY <1>3, <1>4, <1>7, <1>8, <1>9, <1>10 DEF k

-----------------------------------------------------------------------------
(* Jobs that show RENDERING *)

\* A take waits for the GPU.
Waits(j) == \E s \in Slots : LiveTake(j, s) /\ j.takes[s].status = "planned"

\* Either k does not show RENDERING, or j did, and what waited still waits.
StaysBusy(j, k) ==
  k.status = "rendering" => j.status = "rendering" /\ (Waits(j) => Waits(k))

\* Settling takes a job out of RENDERING.
LEMMA SettledIsNotRendering ==
  ASSUME NEW j, Settle(j) \in Job
  PROVE  Settle(j).status # "rendering"
<1>1. CASE j.status \in {"paused", "completed"}
  BY <1>1 DEF Settle
<1>2. CASE j.status \notin {"paused", "completed"}
  <2> DEFINE v == IF j.exhausted /\ ~Unfinished(j) THEN "completed"
                  ELSE IF j.listening THEN "playing" ELSE "queued"
  <2>1. CASE j.exhausted /\ ~Unfinished(j)
    <3>1. Settle(j) = [j EXCEPT !.status = "completed", !.listening = FALSE]
      BY <1>2, <2>1 DEF Settle
    <3> QED
      BY <3>1 DEF Job
  <2>2. CASE ~(j.exhausted /\ ~Unfinished(j))
    <3>1. Settle(j) = [j EXCEPT !.status = IF j.listening THEN "playing" ELSE "queued"]
      BY <1>2, <2>2 DEF Settle
    <3> QED
      BY <3>1 DEF Job
  <2> QED
    BY <2>1, <2>2
<1> QED
  BY <1>1, <1>2

LEMMA CommandsStayBusy ==
  ASSUME NEW j \in Job, NEW playing \in BOOLEAN
  PROVE  /\ StaysBusy(j, ActivateJob(j))
         /\ StaysBusy(j, PauseJob(j))
         /\ StaysBusy(j, ResumeJob(j))
         /\ StaysBusy(j, ExpireListener(j))
         /\ StaysBusy(j, UpdatePlayback(j, playing))
<1>1. \A k : k.takes = j.takes /\ (k.status = "rendering" => j.status = "rendering")
               => StaysBusy(j, k)
  BY DEF StaysBusy, Waits, LiveTake, Exists
<1>2. /\ ActivateJob(j).takes = j.takes /\ PauseJob(j).takes = j.takes
      /\ ResumeJob(j).takes = j.takes /\ ExpireListener(j).takes = j.takes
      /\ UpdatePlayback(j, playing).takes = j.takes
  BY CommandsOnlyStatus DEF OnlyStatus
<1>3. ActivateJob(j).status # "rendering" /\ PauseJob(j).status # "rendering"
      /\ ResumeJob(j).status # "rendering"
  BY DEF ActivateJob, PauseJob, ResumeJob, Finished, Job
<1>4. ExpireListener(j).status = "rendering" => j.status = "rendering"
  BY DEF ExpireListener, Job
<1>5. UpdatePlayback(j, playing).status = "rendering" => j.status = "rendering"
  BY DEF UpdatePlayback, Finished, Job
<1> QED
  BY <1>1, <1>2, <1>3, <1>4, <1>5

LEMMA SetVoiceStaysBusy ==
  ASSUME NEW j, Sound(j), j.plan < MaxPlan, NEW v \in Voices, NEW full \in BOOLEAN
  PROVE  StaysBusy(j, SetVoice(j, v, full))
<1> DEFINE pointed == [j EXCEPT !.voice = v, !.plan = @ + 1]
           revoiced == Refresh([pointed EXCEPT
                         !.takes = [s \in Slots |-> Revoice(pointed, j.takes[s], full)]])
           k == SetVoice(j, v, full)
<1>1. k \in Job
  BY SetVoiceOK DEF Sound
<1>2. CASE RevoicesSome(j, full) \/ full
  <2>1. k = Settle([revoiced EXCEPT !.status = IF Finished(@) THEN "queued" ELSE @])
    BY <1>2 DEF SetVoice
  <2> QED
    BY <1>1, <2>1, SettledIsNotRendering DEF StaysBusy
<1>3. CASE ~(RevoicesSome(j, full) \/ full)
  <2>1. k = revoiced
    BY <1>3 DEF SetVoice
  <2>2. k.status = j.status
    BY <1>1, <2>1 DEF Refresh, Sound, Job
  <2>3. ~Waits(j)
    BY <1>3 DEF Waits, RevoicesSome, Revoiceable
  <2> QED
    BY <2>2, <2>3 DEF StaysBusy
<1> QED
  BY <1>2, <1>3

LEMMA VersionsStayBusy ==
  ASSUME NEW j, Sound(j), NEW i \in Indices, NEW v \in Versions
  PROVE  /\ \A voice \in Voices : NextVersion(j, i, v) => StaysBusy(j, AddVersion(j, i, v, voice))
         /\ Exists(j, <<i, v>>) => StaysBusy(j, SwitchVersion(j, i, v))
<1>1. ASSUME NEW voice \in Voices, NextVersion(j, i, v)
      PROVE  StaysBusy(j, AddVersion(j, i, v, voice))
  <2>1. AddVersion(j, i, v, voice) \in Job
    BY <1>1, AddVersionOK DEF Sound
  <2> QED
    BY <2>1, SettledIsNotRendering DEF AddVersion, StaysBusy
<1>2. ASSUME Exists(j, <<i, v>>)
      PROVE  StaysBusy(j, SwitchVersion(j, i, v))
  <2>1. SwitchVersion(j, i, v) \in Job
    BY <1>2, SwitchVersionOK DEF Sound
  <2> QED
    BY <2>1, SettledIsNotRendering DEF SwitchVersion, StaysBusy
<1> QED
  BY <1>1, <1>2

LEMMA PlanChunksStaysBusy ==
  ASSUME NEW j, Sound(j), NeedsPlanning(j)
  PROVE  StaysBusy(j, PlanChunks(j))
<1> DEFINE room  == PlanAhead - Cardinality(PlannedAhead(j))
           left  == j.length - j.next
           n     == IF left < room THEN left ELSE room
           fresh == j.next .. (j.next + n - 1)
           new   == [status |-> "planned", plan |-> j.plan, voice |-> j.voice,
                     deprecated |-> FALSE, attempts |-> 0]
           act   == [i \in Indices |-> IF i \in fresh THEN 0 ELSE j.active[i]]
           f     == [s \in Slots |-> IF s[1] \in fresh /\ s[2] = 0
                                     THEN new ELSE j.takes[s]]
           planned == [j EXCEPT !.next = @ + n,
                                !.exhausted = (n = left /\ n > 0),
                                !.active = act, !.takes = f]
           ended == [planned EXCEPT !.exhausted = TRUE]
           k == PlanChunks(j)
<1> SUFFICES StaysBusy(j, k)
  OBVIOUS
<1>1. k \in Job /\ j \in Job
  BY PlanChunksOK DEF Sound
<1>2. k = IF left < room THEN Settle(ended) ELSE planned
  BY DEF PlanChunks
<1>3. CASE left < room
  <2>1. k = Settle(ended)
    BY <1>2, <1>3
  <2> HIDE DEF ended
  <2>2. Settle(ended) \in Job
    BY <1>1, <2>1
  <2>3. Settle(ended).status # "rendering"
    BY <2>2, SettledIsNotRendering
  <2>4. k.status # "rendering"
    BY <2>1, <2>3
  <2> HIDE DEF k
  <2> QED
    BY <2>4 DEF StaysBusy
<1>4. CASE ~(left < room)
  <2>1. k.status = j.status /\ k.takes = f
    BY <1>1, <1>2, <1>4 DEF Job
  <2>2. \A s \in Slots : f[s] = j.takes[s] \/ f[s] = new
    OBVIOUS
  <2>3. new.status = "planned" /\ new.deprecated = FALSE
    OBVIOUS
  <2> HIDE DEF f, new, k
  <2>4. Waits(j) => Waits(k)
    BY <2>1, <2>2, <2>3 DEF Waits, LiveTake, Exists
  <2> QED
    BY <2>1, <2>4 DEF StaysBusy
<1> HIDE DEF k, room, left
<1> QED
  BY <1>3, <1>4

\* What the worker reports settles the job, or leaves the take waiting.
LEMMA ReportsStayBusy ==
  ASSUME NEW j, Sound(j), NEW S \in SUBSET Slots,
         \A s \in S : j.takes[s].status = "rendering"
  PROVE  /\ MarkPlanned(j, S).status # "rendering"
         /\ MarkBatchFailed(j, S).status # "rendering"
         /\ \A s \in S : MarkWritten(j, s).status = "rendering" => Waits(MarkWritten(j, s))
<1>1. MarkPlanned(j, S) \in Job
  BY MarkPlannedOK DEF Sound
<1>2. MarkBatchFailed(j, S) \in Job
  BY MarkBatchFailedOK DEF Sound
<1>3. ASSUME NEW s \in S, MarkWritten(j, s).status = "rendering"
      PROVE  Waits(MarkWritten(j, s))
  <2>1. MarkWritten(j, s) \in Job /\ j \in Job /\ s \in Slots /\ j.takes[s] \in Take
    BY MarkWrittenOK DEF Sound, Job
  <2>2. Superseded(j, j.takes[s])
    BY <1>3, <2>1, SettledIsNotRendering DEF MarkWritten
  <2>3. MarkWritten(j, s).takes[s] = ApplyVoice(j, j.takes[s])
    BY <2>1, <2>2 DEF MarkWritten, Job
  <2>4. MarkWritten(j, s).takes[s].status = "planned" /\ ~MarkWritten(j, s).takes[s].deprecated
    BY <2>1, <2>2, <2>3, ApplyVoiceType DEF Superseded
  <2> QED
    BY <2>1, <2>4 DEF Waits, LiveTake, Exists
<1> QED
  BY <1>1, <1>2, <1>3, SettledIsNotRendering DEF MarkPlanned, MarkBatchFailed

-----------------------------------------------------------------------------
(* The job table *)

\* What every row satisfies.
Fine(k) ==
  /\ Sound(k)
  /\ k.place = "new" => k = Absent

Flights ==
  /\ phase \in Phases
  /\ ranked \subseteq Refs /\ batch \subseteq Refs /\ stranded \subseteq Refs
  /\ results \subseteq batch
  /\ batch \cap stranded = {}
  /\ phase \in {"idle", "probing"} => batch = {}
  /\ phase # "probing" => ranked = {}
  /\ phase # "applying" => results = {}
  /\ \A r \in ranked : StatusOf(r) = "planned"
  /\ \A r \in Refs : jobs[r[1]].place # "gone" =>
       (StatusOf(r) = "rendering" <=> r \in batch \cup stranded)

IInv ==
  /\ jobs \in [Jobs -> Job]
  /\ \A j \in Jobs : Fine(jobs[j])
  /\ Flights

-----------------------------------------------------------------------------
(* How one row may change *)

\* A change that leaves what the scheduler holds alone.
Calm(j, k) ==
  /\ j.place = "gone" => k.place = "gone"
  /\ \A s \in Slots :
       /\ k.takes[s].status = "rendering" <=> j.takes[s].status = "rendering"
       /\ j.takes[s].status = "planned" => k.takes[s].status = "planned"

\* A change that keeps finished audio, as WrittenStaysWritten demands.
KeptAudio(j, k) ==
  \A s \in Slots : j.takes[s].status = "written" =>
    \/ k.takes[s].status = "written" /\ k.takes[s].voice = j.takes[s].voice
    \/ k.plan > j.plan

\* A change that moreover completes no unfinished job and orphans no take.
Kept(j, k) == KeptAudio(j, k) /\ Steady(j, k)

StaysPaused(j, k) == j.status = "paused" => k.status = "paused"

LEMMA AbsentFine ==
  /\ Absent \in Job
  /\ Fine(Absent) /\ Capped(Absent)
  /\ Absent.place = "new" /\ Absent.status = "queued"
  /\ \A s \in Slots : Absent.takes[s].status = "none"
<1> DEFINE m == CHOOSE x \in Models : TRUE
           b == NewJob(0, NoVoice, m)
<1>1. m \in Models
  BY SizesAssumption
<1>2. /\ Sound(b) /\ Capped(b)
      /\ \A s \in Slots : b.takes[s].status = "none"
  <2>1. 0 \in 0 .. MaxChunks /\ NoVoice \in Voices \cup {NoVoice}
    BY SizesAssumption
  <2> HIDE DEF m
  <2>2. QED
    BY <1>1, <2>1, NewJobOK
<1>3. Absent = [b EXCEPT !.place = "new"]
  BY DEF Absent
<1>4. b.status = "queued"
  BY DEF NewJob
<1> HIDE DEF b
<1>5. /\ Absent \in Job /\ Absent.place = "new" /\ Absent.status = "queued"
      /\ Absent.takes = b.takes /\ Absent.active = b.active
      /\ Absent.next = b.next /\ Absent.length = b.length
      /\ Absent.plan = b.plan /\ Absent.counted = b.counted
      /\ Absent.exhausted = b.exhausted
  BY <1>2, <1>3, <1>4 DEF Sound, Job, Places
<1>6. Sound(Absent)
  <2>1. SameShape(b, Absent)
    BY <1>5 DEF SameShape, Exists
  <2>2. WrittenIndices(Absent) = WrittenIndices(b)
    BY <1>5, SameWritten DEF LiveTake, Written, Exists
  <2>3. AttemptsBounded(Absent)
    BY <1>2, <1>5 DEF Sound, AttemptsBounded, Exists
  <2>4. QED
    BY <1>2, <1>5, <2>1, <2>2, <2>3, SameShapeAgrees DEF Sound, SameShape
<1>7. QED
  BY <1>2, <1>5, <1>6 DEF Fine, Capped

\* A gentle change of a live row keeps everything.
LEMMA GentleFacts ==
  ASSUME NEW j, NEW k, Fine(j), j.place = "live", Sound(k), Gentle(j, k),
         Steady(j, k)
  PROVE  Fine(k) /\ Calm(j, k) /\ Kept(j, k)
BY DEF Fine, Gentle, Calm, Kept, KeptAudio

\* Moving a row between the library, the trash and nowhere.
LEMMA MoveFacts ==
  ASSUME NEW j, Fine(j), j.place # "gone", NEW p \in {"live", "trashed", "gone"}
  PROVE  LET k == [j EXCEPT !.place = p]
         IN  Fine(k) /\ Calm(j, k) /\ Kept(j, k) /\ StaysPaused(j, k)
<1> DEFINE k == [j EXCEPT !.place = p]
<1>1. /\ k \in Job /\ k.place = p /\ k.status = j.status
      /\ k.takes = j.takes /\ k.active = j.active
      /\ k.next = j.next /\ k.length = j.length
      /\ k.plan = j.plan /\ k.counted = j.counted
      /\ k.exhausted = j.exhausted
  BY DEF Fine, Sound, Job, Places
<1> HIDE DEF k
<1>2. SameShape(j, k)
  BY <1>1 DEF SameShape, Exists
<1>3. WrittenIndices(k) = WrittenIndices(j)
  BY <1>1, SameWritten DEF LiveTake, Written, Exists
<1>4. AttemptsBounded(k)
  BY <1>1 DEF Fine, Sound, AttemptsBounded, Exists
<1>5. Sound(k)
  BY <1>1, <1>2, <1>3, <1>4, SameShapeAgrees DEF Fine, Sound, SameShape
<1>6. Steady(j, k)
  BY <1>1 DEF Steady, DoneIfCompleted, Unfinished, Finished, Orphaned, LiveTake, Exists
<1>7. Fine(k)
  BY <1>1, <1>5 DEF Fine
<1>8. Calm(j, k) /\ Kept(j, k) /\ StaysPaused(j, k)
  BY <1>1, <1>6 DEF Calm, Kept, KeptAudio, StaysPaused
<1>9. QED
  BY <1>7, <1>8 DEF k

-----------------------------------------------------------------------------
(* Lifting to the job table *)

\* Calm changes of rows by anyone but the worker preserve the invariant.
LEMMA CalmStep ==
  ASSUME IInv, UNCHANGED scheduler, jobs' \in [Jobs -> Job],
         \A j \in Jobs : Fine(jobs'[j]) /\ Calm(jobs[j], jobs'[j])
  PROVE  IInv'
<1>1. \A r \in Refs :
        /\ jobs'[r[1]].place # "gone" => jobs[r[1]].place # "gone"
        /\ StatusOf(r)' = "rendering" <=> StatusOf(r) = "rendering"
        /\ StatusOf(r) = "planned" => StatusOf(r)' = "planned"
  BY DEF Calm, StatusOf, TakeAt, Refs
<1>2. Flights'
  BY <1>1 DEF IInv, Flights, scheduler
<1>3. QED
  BY <1>2 DEF IInv, Fine, Absent

\* One row changes.
LEMMA UpdateStep ==
  ASSUME IInv, NEW j \in Jobs, NEW k, Fine(k), Calm(jobs[j], k),
         jobs' = [jobs EXCEPT ![j] = k], UNCHANGED scheduler
  PROVE  /\ IInv'
         /\ jobs'[j] = k
         /\ \A i \in Jobs : i # j => jobs'[i] = jobs[i] /\ Kept(jobs[i], jobs'[i])
<1>1. jobs' \in [Jobs -> Job] /\ jobs'[j] = k /\ \A i \in Jobs : i # j => jobs'[i] = jobs[i]
  BY DEF IInv, Fine, Sound
<1>2. \A i \in Jobs : Fine(jobs'[i]) /\ Calm(jobs[i], jobs'[i])
  BY <1>1 DEF IInv, Calm
<1>3. \A i \in Jobs : i # j => Kept(jobs[i], jobs'[i])
  BY <1>1 DEF Kept, KeptAudio, Steady
<1>4. QED
  BY <1>1, <1>2, <1>3, CalmStep

\* What every step but a switch of takes achieves.
Preserves ==
  /\ IInv'
  /\ \A i \in Jobs : Kept(jobs[i], jobs'[i])

\* What every step achieves.
Maintains ==
  /\ IInv'
  /\ \A i \in Jobs :
       /\ KeptAudio(jobs[i], jobs'[i])
       /\ \/ Steady(jobs[i], jobs'[i])
          \/ SetActiveVersion(i) /\ Switched(jobs[i], jobs'[i])

\* What every step but the commands that resume a job achieves.
KeepsPaused == \A i \in Jobs : StaysPaused(jobs[i], jobs'[i])

LEMMA GentleUpdate ==
  ASSUME IInv, NEW j \in Jobs, NEW k, Update(j, k),
         Sound(k), Gentle(jobs[j], k), Steady(jobs[j], k)
  PROVE  /\ Preserves
         /\ StaysPaused(jobs[j], k) => KeepsPaused
<1>1. Fine(jobs[j]) /\ jobs[j].place = "live"
  BY DEF IInv, Update
<1>2. Fine(k) /\ Calm(jobs[j], k) /\ Kept(jobs[j], k)
  BY <1>1, GentleFacts DEF Fine
<1>3. QED
  BY <1>2, UpdateStep DEF Update, Preserves, KeepsPaused, StaysPaused

-----------------------------------------------------------------------------
(* User commands *)

LEMMA CreateJobStep ==
  ASSUME IInv, NEW j \in Jobs, CreateJob(j)
  PROVE  Preserves /\ KeepsPaused
<1>1. PICK n \in 0 .. MaxChunks, v \in Voices, m \in Models :
        jobs' = [jobs EXCEPT ![j] = NewJob(n, v, m)]
  BY DEF CreateJob
<1> DEFINE k == NewJob(n, v, m)
<1>2. /\ Sound(k) /\ DoneIfCompleted(k) /\ QueuedUnderPlan(k) /\ k.place = "live"
      /\ \A s \in Slots : k.takes[s].status = "none"
  BY NewJobOK
<1>3. jobs[j] = Absent
  BY DEF CreateJob, IInv, Fine
<1> HIDE DEF k
<1>4. Fine(k) /\ Calm(jobs[j], k) /\ Kept(jobs[j], k) /\ StaysPaused(jobs[j], k)
  BY <1>2, <1>3, AbsentFine
     DEF Fine, Calm, Kept, KeptAudio, Steady, QueuedUnderPlan, StaysPaused
<1>5. jobs' = [jobs EXCEPT ![j] = k] /\ UNCHANGED scheduler
  BY <1>1 DEF CreateJob, k
<1>6. QED
  BY <1>4, <1>5, UpdateStep DEF Preserves, KeepsPaused, StaysPaused

LEMMA StatusCommandStep ==
  ASSUME IInv, NEW j \in Jobs, Activate(j) \/ Resume(j)
  PROVE  Preserves /\ \A i \in Jobs : i # j => StaysPaused(jobs[i], jobs'[i])
<1>1. jobs[j] \in Job /\ Sound(jobs[j])
  BY DEF IInv, Fine
<1>2. PICK k \in {ActivateJob(jobs[j]), ResumeJob(jobs[j])} : Update(j, k)
  BY DEF Activate, Resume
<1>3. OnlyStatus(jobs[j], k)
  BY <1>1, CommandsOnlyStatus
<1>4. Sound(k) /\ Gentle(jobs[j], k) /\ Steady(jobs[j], k)
  BY <1>1, <1>3, OnlyStatusOK
<1>5. \A i \in Jobs : i # j => jobs'[i] = jobs[i]
  BY <1>2 DEF Update, IInv
<1>6. QED
  BY <1>2, <1>4, <1>5, GentleUpdate DEF StaysPaused

LEMMA PauseStep ==
  ASSUME IInv, NEW j \in Jobs, Pause(j) \/ ReportPlayback(j)
  PROVE  Preserves /\ KeepsPaused
<1>1. jobs[j] \in Job /\ Sound(jobs[j])
  BY DEF IInv, Fine
<1>2. PICK k : /\ Update(j, k)
               /\ \/ k = PauseJob(jobs[j])
                  \/ \E playing \in BOOLEAN : k = UpdatePlayback(jobs[j], playing)
  BY DEF Pause, ReportPlayback
<1>3. OnlyStatus(jobs[j], k)
  BY <1>1, <1>2, CommandsOnlyStatus
<1>4. Sound(k) /\ Gentle(jobs[j], k) /\ Steady(jobs[j], k)
  BY <1>1, <1>3, OnlyStatusOK
<1>5. StaysPaused(jobs[j], k)
  BY <1>1, <1>2 DEF StaysPaused, PauseJob, UpdatePlayback, Finished, Job
<1>6. QED
  BY <1>2, <1>4, <1>5, GentleUpdate

LEMMA ChangeVoiceStep ==
  ASSUME IInv, NEW j \in Jobs, ChangeVoice(j)
  PROVE  Preserves /\ KeepsPaused
<1>1. Sound(jobs[j]) /\ jobs[j].plan < MaxPlan
  BY DEF IInv, Fine, ChangeVoice
<1>2. PICK v \in Voices, full \in BOOLEAN : Update(j, SetVoice(jobs[j], v, full))
  BY DEF ChangeVoice
<1> DEFINE k == SetVoice(jobs[j], v, full)
<1>3. /\ Sound(k) /\ Gentle(jobs[j], k) /\ StaysPaused(jobs[j], k)
      /\ Steady(jobs[j], k)
  BY <1>1, SetVoiceOK DEF StaysPaused
<1>4. QED
  BY <1>2, <1>3, GentleUpdate

LEMMA ReprocessStep ==
  ASSUME IInv, NEW j \in Jobs, Reprocess(j)
  PROVE  Preserves /\ KeepsPaused
<1>1. Sound(jobs[j])
  BY DEF IInv, Fine
<1>2. PICK i \in Indices, v \in Versions, voice \in Voices :
        NextVersion(jobs[j], i, v) /\ Update(j, AddVersion(jobs[j], i, v, voice))
  BY DEF Reprocess
<1> DEFINE k == AddVersion(jobs[j], i, v, voice)
<1>3. /\ Sound(k) /\ Gentle(jobs[j], k) /\ StaysPaused(jobs[j], k)
      /\ Steady(jobs[j], k)
  BY <1>1, <1>2, AddVersionOK DEF StaysPaused
<1>4. QED
  BY <1>2, <1>3, GentleUpdate

\* Switching to a take without audio may orphan it, or leave its job COMPLETED.
LEMMA SetActiveVersionStep ==
  ASSUME IInv, NEW j \in Jobs, SetActiveVersion(j)
  PROVE  Maintains /\ KeepsPaused
<1>1. Fine(jobs[j]) /\ Sound(jobs[j])
  BY DEF IInv, Fine
<1>2. PICK i \in Indices, v \in Versions :
        /\ Exists(jobs[j], <<i, v>>)
        /\ Update(j, SwitchVersion(jobs[j], i, v))
  BY DEF SetActiveVersion
<1> DEFINE k == SwitchVersion(jobs[j], i, v)
<1>3. /\ Sound(k) /\ Gentle(jobs[j], k) /\ StaysPaused(jobs[j], k)
      /\ Switched(jobs[j], k)
  BY <1>1, <1>2, SwitchVersionOK DEF StaysPaused
<1>4. jobs' = [jobs EXCEPT ![j] = k] /\ UNCHANGED scheduler /\ jobs[j].place = "live"
  BY <1>2 DEF Update
<1> HIDE DEF k
<1>5. Fine(k) /\ Calm(jobs[j], k) /\ KeptAudio(jobs[j], k)
  BY <1>1, <1>3, <1>4 DEF Fine, Gentle, Calm, KeptAudio
<1>6. /\ IInv' /\ jobs'[j] = k
      /\ \A h \in Jobs : h # j => jobs'[h] = jobs[h] /\ Kept(jobs[h], jobs'[h])
  BY <1>4, <1>5, UpdateStep
<1>7. QED
  BY <1>3, <1>5, <1>6 DEF Maintains, KeepsPaused, StaysPaused, Kept

LEMMA MoveStep ==
  ASSUME IInv, NEW j \in Jobs, Trash(j) \/ Restore(j) \/ Remove(j)
  PROVE  Preserves /\ KeepsPaused
<1>1. PICK p \in {"live", "trashed", "gone"} :
        /\ jobs' = [jobs EXCEPT ![j] = [jobs[j] EXCEPT !.place = p]]
        /\ UNCHANGED scheduler
  <2>1. CASE Trash(j)
    BY <2>1 DEF Trash, Update
  <2>2. CASE Restore(j)
    <3>1. jobs' = [jobs EXCEPT ![j] = [jobs[j] EXCEPT !.place = "live"]]
      BY <2>2 DEF Restore, IInv
    <3>2. QED
      BY <2>2, <3>1 DEF Restore
  <2>3. CASE Remove(j)
    <3>1. jobs' = [jobs EXCEPT ![j] = [jobs[j] EXCEPT !.place = "gone"]]
      BY <2>3 DEF Remove, IInv
    <3>2. QED
      BY <2>3, <3>1 DEF Remove
  <2>4. QED
    BY <2>1, <2>2, <2>3
<1>2. Fine(jobs[j]) /\ jobs[j].place # "gone"
  BY DEF IInv, Trash, Restore, Remove, Update, InTable
<1> DEFINE k == [jobs[j] EXCEPT !.place = p]
<1>3. Fine(k) /\ Calm(jobs[j], k) /\ Kept(jobs[j], k) /\ StaysPaused(jobs[j], k)
  BY <1>2, MoveFacts
<1> HIDE DEF k
<1>4. jobs' = [jobs EXCEPT ![j] = k] /\ UNCHANGED scheduler
  BY <1>1 DEF k
<1>5. QED
  BY <1>3, <1>4, UpdateStep DEF Preserves, KeepsPaused, StaysPaused

-----------------------------------------------------------------------------
(* The scheduler tick *)

\* Rows that change as a function of the old table.
LEMMA RowsFine ==
  ASSUME NEW f, jobs' = f, f \in [Jobs -> Job], \A j \in Jobs : Fine(f[j])
  PROVE  (jobs \in [Jobs -> Job] /\ \A j \in Jobs : Fine(jobs[j]))'
BY DEF Fine, Absent

LEMMA ExpireListenersStep ==
  ASSUME IInv, ExpireListeners
  PROVE  Preserves /\ KeepsPaused
<1>1. \A j \in Jobs : jobs[j] \in Job /\ Fine(jobs[j]) /\ Sound(jobs[j])
  BY DEF IInv, Fine
<1>2. PICK S \in SUBSET {j \in Jobs : jobs[j].place = "live" /\ jobs[j].listening} :
        jobs' = [j \in Jobs |-> IF j \in S THEN ExpireListener(jobs[j]) ELSE jobs[j]]
  BY DEF ExpireListeners
<1>3. ASSUME NEW j \in Jobs
      PROVE  /\ jobs'[j] \in Job /\ Fine(jobs'[j]) /\ Calm(jobs[j], jobs'[j])
             /\ Kept(jobs[j], jobs'[j]) /\ StaysPaused(jobs[j], jobs'[j])
  <2> DEFINE k == ExpireListener(jobs[j])
  <2>1. CASE j \notin S
    BY <1>1, <1>2, <2>1 DEF Calm, Kept, KeptAudio, Steady, StaysPaused
  <2>2. CASE j \in S
    <3>1. OnlyStatus(jobs[j], k)
      BY <1>1, CommandsOnlyStatus
    <3>2. StaysPaused(jobs[j], k)
      BY <1>1 DEF StaysPaused, ExpireListener, Job
    <3>3. jobs'[j] = k /\ jobs[j].place = "live"
      BY <1>2, <2>2
    <3> HIDE DEF k
    <3>4. Sound(k) /\ Gentle(jobs[j], k) /\ Steady(jobs[j], k)
      BY <1>1, <3>1, OnlyStatusOK
    <3>5. Fine(k) /\ Calm(jobs[j], k) /\ Kept(jobs[j], k)
      BY <1>1, <3>3, <3>4, GentleFacts DEF Fine
    <3>6. QED
      BY <3>2, <3>3, <3>4, <3>5 DEF Sound
  <2>3. QED
    BY <2>1, <2>2
<1>4. jobs' \in [Jobs -> Job]
  BY <1>2, <1>3
<1>5. IInv'
  BY <1>3, <1>4, CalmStep DEF ExpireListeners
<1>6. QED
  BY <1>3, <1>5 DEF Preserves, KeepsPaused

\* Planning ahead leaves the rows fine and calm, whatever the cap holds back.
LEMMA PlannedFacts ==
  ASSUME IInv, NEW held
  PROVE  /\ Planned(held) \in [Jobs -> Job]
         /\ \A j \in Jobs :
              /\ Fine(Planned(held)[j]) /\ Calm(jobs[j], Planned(held)[j])
              /\ Kept(jobs[j], Planned(held)[j]) /\ StaysPaused(jobs[j], Planned(held)[j])
<1> DEFINE rows == Planned(held)
<1>1. \A i \in Jobs : jobs[i] \in Job /\ Fine(jobs[i]) /\ Sound(jobs[i])
  BY DEF IInv, Fine
<1>2. ASSUME NEW i \in Jobs, NeedsPlanning(jobs[i])
      PROVE  LET k == PlanChunks(jobs[i])
             IN  /\ k \in Job /\ Fine(k) /\ Calm(jobs[i], k) /\ Kept(jobs[i], k)
                 /\ StaysPaused(jobs[i], k)
  <2> DEFINE k == PlanChunks(jobs[i])
  <2>1. Sound(k) /\ Gentle(jobs[i], k) /\ Steady(jobs[i], k)
    BY <1>1, <1>2, PlanChunksOK
  <2> HIDE DEF k
  <2>2. jobs[i].place = "live" /\ jobs[i].status # "paused"
    BY <1>2 DEF NeedsPlanning
  <2>3. Fine(k) /\ Calm(jobs[i], k) /\ Kept(jobs[i], k)
    BY <1>1, <2>1, <2>2, GentleFacts DEF Fine
  <2>4. QED
    BY <2>1, <2>2, <2>3 DEF Sound, StaysPaused, k
<1>3. ASSUME NEW i \in Jobs
      PROVE  /\ rows[i] \in Job /\ Fine(rows[i]) /\ Calm(jobs[i], rows[i])
             /\ Kept(jobs[i], rows[i]) /\ StaysPaused(jobs[i], rows[i])
  <2>1. CASE NeedsPlanning(jobs[i]) /\ i \notin held
    <3>1. rows[i] = PlanChunks(jobs[i])
      BY <2>1 DEF Planned
    <3>2. QED
      BY <1>2, <2>1, <3>1
  <2>2. CASE ~(NeedsPlanning(jobs[i]) /\ i \notin held)
    <3>1. rows[i] = jobs[i]
      BY <2>2 DEF Planned
    <3> HIDE DEF rows
    <3>2. QED
      BY <1>1, <3>1 DEF Calm, Kept, KeptAudio, Steady, StaysPaused
  <2>3. QED
    BY <2>1, <2>2
<1>4. rows \in [Jobs -> Job]
  BY <1>3 DEF Planned
<1>5. QED
  BY <1>3, <1>4

LEMMA PlanStep ==
  ASSUME IInv, Plan
  PROVE  Preserves /\ KeepsPaused
<1>1. PICK held \in SUBSET HeldBack : jobs' = Planned(held)
  BY DEF Plan
<1>2. IInv'
  BY <1>1, PlannedFacts, CalmStep DEF Plan
<1>3. QED
  BY <1>1, <1>2, PlannedFacts DEF Preserves, KeepsPaused

\* After planning, what is ranked is PLANNED and so is none of it in flight.
LEMMA PlanAndRankStep ==
  ASSUME IInv, PlanAndRank
  PROVE  Preserves /\ KeepsPaused
<1>1. PICK held \in SUBSET HeldBack :
        /\ jobs' = Planned(held)
        /\ ranked' = {r \in Refs : r[2] \in RenderableSlots(Planned(held)[r[1]])}
  BY DEF PlanAndRank
<1>0. /\ phase = "idle" /\ phase' = "probing"
      /\ batch' = batch /\ results' = results /\ stranded' = stranded
  BY DEF PlanAndRank
<1>2. (jobs \in [Jobs -> Job] /\ \A j \in Jobs : Fine(jobs[j]))'
  BY <1>1, PlannedFacts, RowsFine
<1>3. \A r \in Refs :
        /\ jobs'[r[1]].place # "gone" => jobs[r[1]].place # "gone"
        /\ StatusOf(r)' = "rendering" <=> StatusOf(r) = "rendering"
  BY <1>1, PlannedFacts DEF Calm, StatusOf, TakeAt, Refs
<1>4. \A r \in ranked' : StatusOf(r)' = "planned"
  BY <1>1 DEF RenderableSlots, StatusOf, TakeAt
<1>5. ranked' \subseteq Refs
  BY <1>1
<1>6. Flights'
  BY <1>0, <1>3, <1>4, <1>5 DEF Flights, IInv, Phases
<1>7. IInv'
  BY <1>2, <1>6 DEF IInv
<1>8. QED
  BY <1>1, <1>7, PlannedFacts DEF Preserves, KeepsPaused

\* The table is untouched and the probe ends without a dispatch, or the worker
\* returns audio.
LEMMA QuietStep ==
  ASSUME IInv, \/ DispatchBlocked \/ DispatchRaises
               \/ \E done \in SUBSET batch : RenderReturns(done)
  PROVE  Preserves /\ KeepsPaused
<1>1. jobs' = jobs /\ batch' = batch /\ stranded' = stranded
  BY DEF DispatchBlocked, DispatchRaises, RenderReturns
<1>2. \/ phase = "probing" /\ phase' = "idle" /\ ranked' = {} /\ results' = results
      \/ /\ phase = "rendering" /\ phase' = "applying"
         /\ ranked' = ranked /\ results' \subseteq batch
  BY DEF DispatchBlocked, DispatchRaises, RenderReturns
<1>3. Flights'
  BY <1>1, <1>2 DEF IInv, Flights, Phases, StatusOf, TakeAt
<1>4. IInv'
  BY <1>1, <1>3 DEF IInv, Fine, Absent
<1>5. QED
  BY <1>1, <1>4 DEF Preserves, KeepsPaused, Kept, KeptAudio, Steady, StaysPaused

-----------------------------------------------------------------------------
(* Dispatch and the worker's outcomes *)

LEMMA OfFacts ==
  ASSUME NEW S \in SUBSET Refs, NEW r \in Refs
  PROVE  /\ r[1] \in Jobs /\ r[2] \in Slots
         /\ Of(S, r[1]) \in SUBSET Slots
         /\ r \in S <=> r[2] \in Of(S, r[1])
BY DEF Refs, Of

LEMMA DispatchStep ==
  ASSUME IInv, Dispatch
  PROVE  Preserves /\ KeepsPaused
<1>1. PICK b \in SUBSET ranked : DispatchBatch(b)
  BY DEF Dispatch
<1>2. /\ phase = "probing" /\ phase' = "rendering"
      /\ \A r \in ranked : jobs[r[1]].place = "live"
      /\ jobs' = [j \in Jobs |-> IF Of(b, j) = {} THEN jobs[j]
                                 ELSE MarkRendering(jobs[j], Of(b, j))]
      /\ batch' = b /\ ranked' = {} /\ results' = results /\ stranded' = stranded
  BY <1>1 DEF DispatchBatch
<1>3. /\ b \in SUBSET Refs /\ batch = {} /\ results = {}
      /\ \A r \in b : StatusOf(r) = "planned" /\ jobs[r[1]].place = "live"
  BY <1>2 DEF IInv, Flights
<1>4. \A j \in Jobs : jobs[j] \in Job /\ Fine(jobs[j]) /\ Sound(jobs[j])
  BY DEF IInv, Fine
<1>5. ASSUME NEW j \in Jobs
      PROVE  /\ jobs'[j] \in Job /\ Fine(jobs'[j]) /\ jobs'[j].place = jobs[j].place
             /\ Kept(jobs[j], jobs'[j]) /\ StaysPaused(jobs[j], jobs'[j])
             /\ \A s \in Slots :
                  IF s \in Of(b, j) THEN jobs'[j].takes[s].status = "rendering"
                                    ELSE jobs'[j].takes[s] = jobs[j].takes[s]
  <2>1. CASE Of(b, j) = {}
    BY <1>2, <1>4, <2>1 DEF Kept, KeptAudio, Steady, StaysPaused
  <2>2. CASE Of(b, j) # {}
    <3> DEFINE S == Of(b, j)
               k == MarkRendering(jobs[j], S)
    <3>1. S \in SUBSET Slots /\ \A s \in S : <<j, s>> \in b
      BY DEF Of
    <3>2. \A s \in S : jobs[j].takes[s].status = "planned"
      BY <1>3, <3>1 DEF StatusOf, TakeAt
    <3>3. jobs[j].place = "live"
      BY <1>3, <2>2, <3>1
    <3>4. jobs'[j] = k
      BY <1>2, <2>2
    <3> HIDE DEF S, k
    <3>5. /\ Sound(k) /\ Steady(jobs[j], k)
          /\ k.place = jobs[j].place /\ k.plan = jobs[j].plan
          /\ StaysPaused(jobs[j], k)
          /\ \A s \in Slots : IF s \in S THEN k.takes[s].status = "rendering"
                                         ELSE k.takes[s] = jobs[j].takes[s]
      BY <1>4, <3>1, <3>2, MarkRenderingOK DEF k, StaysPaused
    <3>6. Kept(jobs[j], k)
      BY <3>2, <3>5 DEF Kept, KeptAudio
    <3>7. Fine(k) /\ k \in Job
      BY <1>4, <3>3, <3>5 DEF Fine, Sound
    <3>8. QED
      BY <3>4, <3>5, <3>6, <3>7 DEF S
  <2>3. QED
    BY <2>1, <2>2
<1>6. jobs' \in [Jobs -> Job]
  BY <1>2, <1>5
<1>7. (jobs \in [Jobs -> Job] /\ \A j \in Jobs : Fine(jobs[j]))'
  BY <1>5, <1>6, RowsFine
<1>8. \A r \in Refs :
        /\ jobs'[r[1]].place = jobs[r[1]].place
        /\ StatusOf(r)' = "rendering" <=> StatusOf(r) = "rendering" \/ r \in b
  BY <1>3, <1>5, OfFacts, SMTT(60) DEF StatusOf, TakeAt
<1>9. b \cap stranded = {}
  <2> SUFFICES ASSUME NEW r \in b, r \in stranded PROVE FALSE
    OBVIOUS
  <2>1. r \in Refs /\ StatusOf(r) = "planned" /\ jobs[r[1]].place # "gone"
    BY <1>3
  <2>2. QED
    BY <2>1 DEF IInv, Flights
<1>10. Flights'
  BY <1>2, <1>3, <1>8, <1>9 DEF IInv, Flights, Phases
<1>11. QED
  BY <1>5, <1>7, <1>10 DEF IInv, Preserves, KeepsPaused

\* A row that was never created has nothing in flight.
LEMMA BatchInTable ==
  ASSUME IInv
  PROVE  \A r \in Refs : r \in batch /\ jobs[r[1]].place # "gone" => InTable(r[1])
<1> SUFFICES ASSUME NEW r \in Refs, r \in batch, jobs[r[1]].place # "gone"
             PROVE  jobs[r[1]].place # "new"
  BY DEF InTable, IInv, Fine, Job, Places, Refs
<1>1. r[1] \in Jobs /\ r[2] \in Slots /\ jobs[r[1]].takes[r[2]].status = "rendering"
  BY DEF IInv, Flights, StatusOf, TakeAt, Refs
<1>2. QED
  BY <1>1, AbsentFine DEF IInv, Fine

\* The takes of S, all in flight, land; the rest of the table stays.
LEMMA LandRows ==
  ASSUME IInv, NEW S \in SUBSET {r \in batch : InTable(r[1])},
         jobs' \in [Jobs -> Job],
         \A j \in Jobs :
           IF Of(S, j) = {} THEN jobs'[j] = jobs[j]
           ELSE /\ Sound(jobs'[j]) /\ Steady(jobs[j], jobs'[j])
                /\ Landed(jobs[j], jobs'[j], Of(S, j))
  PROVE  /\ (jobs \in [Jobs -> Job] /\ \A j \in Jobs : Fine(jobs[j]))'
         /\ \A r \in Refs :
              /\ jobs'[r[1]].place = jobs[r[1]].place
              /\ StatusOf(r)' = "rendering" <=> StatusOf(r) = "rendering" /\ r \notin S
         /\ \A j \in Jobs : Kept(jobs[j], jobs'[j]) /\ StaysPaused(jobs[j], jobs'[j])
<1>1. S \in SUBSET Refs /\ \A r \in S : InTable(r[1]) /\ StatusOf(r) = "rendering"
  BY DEF IInv, Flights, InTable
<1>2. ASSUME NEW j \in Jobs
      PROVE  /\ Fine(jobs'[j]) /\ jobs'[j].place = jobs[j].place
             /\ Kept(jobs[j], jobs'[j]) /\ StaysPaused(jobs[j], jobs'[j])
             /\ \A s \in Slots :
                  IF s \in Of(S, j) THEN jobs'[j].takes[s].status # "rendering"
                                    ELSE jobs'[j].takes[s] = jobs[j].takes[s]
  <2>1. CASE Of(S, j) = {}
    BY <2>1 DEF IInv, Kept, KeptAudio, Steady, StaysPaused
  <2>2. CASE Of(S, j) # {}
    <3>1. \A s \in Of(S, j) : <<j, s>> \in S
      BY DEF Of
    <3>2. InTable(j) /\ \A s \in Of(S, j) : jobs[j].takes[s].status = "rendering"
      BY <1>1, <2>2, <3>1 DEF StatusOf, TakeAt
    <3>3. /\ Sound(jobs'[j]) /\ Steady(jobs[j], jobs'[j])
          /\ Landed(jobs[j], jobs'[j], Of(S, j))
      BY <2>2
    <3>4. Kept(jobs[j], jobs'[j]) /\ StaysPaused(jobs[j], jobs'[j])
      BY <3>2, <3>3 DEF Landed, Kept, KeptAudio, StaysPaused
    <3>5. Fine(jobs'[j])
      BY <3>2, <3>3 DEF IInv, Fine, Landed, InTable
    <3>6. QED
      BY <3>3, <3>4, <3>5 DEF Landed
  <2>3. QED
    BY <2>1, <2>2
<1>3. (jobs \in [Jobs -> Job] /\ \A j \in Jobs : Fine(jobs[j]))'
  BY <1>2, RowsFine
<1>4. \A r \in Refs :
        /\ jobs'[r[1]].place = jobs[r[1]].place
        /\ StatusOf(r)' = "rendering" <=> StatusOf(r) = "rendering" /\ r \notin S
  BY <1>1, <1>2, OfFacts DEF StatusOf, TakeAt
<1>5. QED
  BY <1>2, <1>3, <1>4

LEMMA BatchFailsStep ==
  ASSUME IInv, BatchFails
  PROVE  Preserves /\ KeepsPaused
<1> DEFINE S == {r \in batch : InTable(r[1])}
<1>1. /\ phase = "rendering" /\ phase' = "idle" /\ batch' = {}
      /\ ranked' = ranked /\ results' = results /\ stranded' = stranded
      /\ jobs' = [j \in Jobs |-> IF Of(batch, j) = {} \/ ~InTable(j) THEN jobs[j]
                                 ELSE MarkBatchFailed(jobs[j], Of(batch, j))]
  BY DEF BatchFails
<1>2. \A j \in Jobs : jobs[j] \in Job /\ Sound(jobs[j])
  BY DEF IInv, Fine
<1>3. \A j \in Jobs :
        IF Of(S, j) = {} THEN jobs'[j] = jobs[j]
        ELSE /\ Sound(jobs'[j]) /\ Steady(jobs[j], jobs'[j])
             /\ Landed(jobs[j], jobs'[j], Of(S, j))
  <2> SUFFICES ASSUME NEW j \in Jobs
               PROVE  IF Of(S, j) = {} THEN jobs'[j] = jobs[j]
                      ELSE /\ Sound(jobs'[j]) /\ Steady(jobs[j], jobs'[j])
                           /\ Landed(jobs[j], jobs'[j], Of(S, j))
    OBVIOUS
  <2>1. CASE ~InTable(j)
    BY <1>1, <2>1 DEF Of
  <2>2. CASE InTable(j)
    <3>1. Of(S, j) = Of(batch, j)
      BY <2>2 DEF Of
    <3>2. \A s \in Of(batch, j) : jobs[j].takes[s].status = "rendering"
      BY <2>2 DEF Of, IInv, Flights, InTable, StatusOf, TakeAt, Refs
    <3>3. Of(batch, j) \in SUBSET Slots
      BY DEF Of
    <3>4. CASE Of(batch, j) = {}
      BY <1>1, <3>1, <3>4
    <3>5. CASE Of(batch, j) # {}
      <4>1. jobs'[j] = MarkBatchFailed(jobs[j], Of(batch, j))
        BY <1>1, <2>2, <3>5
      <4>2. QED
        BY <1>2, <3>1, <3>2, <3>3, <3>5, <4>1, MarkBatchFailedOK
    <3>6. QED
      BY <3>4, <3>5
  <2>3. QED
    BY <2>1, <2>2
<1>4. jobs' \in [Jobs -> Job]
  BY <1>1, <1>2, <1>3 DEF Sound
<1>5. /\ (jobs \in [Jobs -> Job] /\ \A j \in Jobs : Fine(jobs[j]))'
      /\ \A r \in Refs :
           /\ jobs'[r[1]].place = jobs[r[1]].place
           /\ StatusOf(r)' = "rendering" <=> StatusOf(r) = "rendering" /\ r \notin S
      /\ \A j \in Jobs : Kept(jobs[j], jobs'[j]) /\ StaysPaused(jobs[j], jobs'[j])
  BY <1>3, <1>4, LandRows
<1>6. \A r \in Refs : r \in batch /\ jobs[r[1]].place # "gone" => r \in S
  BY BatchInTable
<1>7. Flights'
  BY <1>1, <1>5, <1>6 DEF IInv, Flights, Phases
<1>8. QED
  BY <1>5, <1>7 DEF IInv, Preserves, KeepsPaused

LEMMA RequeueAllStep ==
  ASSUME IInv, RequeueAll, UNCHANGED <<ranked, results>>,
         phase = "rendering" \/ (phase = "applying" /\ results = {})
  PROVE  Preserves /\ KeepsPaused
<1>1. PICK done \in SUBSET {r \in batch : InTable(r[1])} :
        /\ jobs' = [j \in Jobs |-> IF Of(done, j) = {} THEN jobs[j]
                                   ELSE MarkPlanned(jobs[j], Of(done, j))]
        /\ stranded' = stranded \cup {r \in batch \ done : InTable(r[1])}
  BY DEF RequeueAll
<1>2. /\ phase' = "idle" /\ batch' = {}
      /\ ranked' = ranked /\ results' = results /\ ranked = {} /\ results = {}
  BY DEF RequeueAll, IInv, Flights
<1>3. \A j \in Jobs : jobs[j] \in Job /\ Sound(jobs[j])
  BY DEF IInv, Fine
<1>4. \A j \in Jobs :
        IF Of(done, j) = {} THEN jobs'[j] = jobs[j]
        ELSE /\ Sound(jobs'[j]) /\ Steady(jobs[j], jobs'[j])
             /\ Landed(jobs[j], jobs'[j], Of(done, j))
  <2> SUFFICES ASSUME NEW j \in Jobs, Of(done, j) # {}
               PROVE  /\ Sound(jobs'[j]) /\ Steady(jobs[j], jobs'[j])
                      /\ Landed(jobs[j], jobs'[j], Of(done, j))
    BY <1>1
  <2>1. \A s \in Of(done, j) : jobs[j].takes[s].status = "rendering"
    BY DEF Of, IInv, Flights, InTable, StatusOf, TakeAt, Refs
  <2>2. Of(done, j) \in SUBSET Slots
    BY DEF Of
  <2>3. jobs'[j] = MarkPlanned(jobs[j], Of(done, j))
    BY <1>1
  <2>4. QED
    BY <1>3, <2>1, <2>2, <2>3, MarkPlannedOK
<1>5. jobs' \in [Jobs -> Job]
  BY <1>1, <1>3, <1>4 DEF Sound
<1>6. /\ (jobs \in [Jobs -> Job] /\ \A j \in Jobs : Fine(jobs[j]))'
      /\ \A r \in Refs :
           /\ jobs'[r[1]].place = jobs[r[1]].place
           /\ StatusOf(r)' = "rendering" <=> StatusOf(r) = "rendering" /\ r \notin done
      /\ \A j \in Jobs : Kept(jobs[j], jobs'[j]) /\ StaysPaused(jobs[j], jobs'[j])
  BY <1>4, <1>5, LandRows
<1>7. \A r \in Refs : r \in batch /\ jobs[r[1]].place # "gone" => InTable(r[1])
  BY BatchInTable
<1>8. Flights'
  BY <1>1, <1>2, <1>6, <1>7 DEF IInv, Flights, Phases
<1>9. QED
  BY <1>6, <1>8 DEF IInv, Preserves, KeepsPaused

LEMMA ApplyResultStep ==
  ASSUME IInv, ApplyResult
  PROVE  Preserves /\ KeepsPaused
<1>1. PICK r \in results :
        /\ jobs' = IF InTable(r[1])
                   THEN [jobs EXCEPT ![r[1]] = MarkWritten(jobs[r[1]], r[2])]
                   ELSE jobs
        /\ results' = results \ {r}
        /\ batch' = batch \ {r}
  BY DEF ApplyResult
<1>2. /\ phase = "applying" /\ phase' = phase /\ ranked' = ranked
      /\ stranded' = stranded /\ ranked = {}
  BY DEF ApplyResult, IInv, Flights
<1>3. r \in Refs /\ r \in batch
  BY DEF IInv, Flights
<1> DEFINE S == IF InTable(r[1]) THEN {r} ELSE {}
<1>4. S \in SUBSET {q \in batch : InTable(q[1])}
  BY <1>3
<1>5. jobs \in [Jobs -> Job] /\ r[1] \in Jobs /\ r[2] \in Slots
      /\ \A j \in Jobs : jobs[j] \in Job /\ Sound(jobs[j])
  BY <1>3 DEF IInv, Fine, Refs
<1>6. /\ jobs' \in [Jobs -> Job]
      /\ \A j \in Jobs :
           IF Of(S, j) = {} THEN jobs'[j] = jobs[j]
           ELSE /\ Sound(jobs'[j]) /\ Steady(jobs[j], jobs'[j])
                /\ Landed(jobs[j], jobs'[j], Of(S, j))
  <2>1. CASE ~InTable(r[1])
    BY <1>1, <1>5, <2>1 DEF Of
  <2>2. CASE InTable(r[1])
    <3> DEFINE k == MarkWritten(jobs[r[1]], r[2])
    <3>1. jobs[r[1]].takes[r[2]].status = "rendering"
      BY <1>3, <2>2 DEF IInv, Flights, InTable, StatusOf, TakeAt
    <3>2. /\ Sound(k) /\ Landed(jobs[r[1]], k, {r[2]})
          /\ Steady(jobs[r[1]], k)
      BY <1>5, <3>1, MarkWrittenOK
    <3>3. jobs' = [jobs EXCEPT ![r[1]] = k]
      BY <1>1, <2>2
    <3> HIDE DEF k
    <3>4. Of(S, r[1]) = {r[2]} /\ \A j \in Jobs : j # r[1] => Of(S, j) = {}
      <4>1. r = <<r[1], r[2]>>
        BY <1>3 DEF Refs
      <4>2. \A j \in Jobs, s \in Slots : <<j, s>> \in S <=> j = r[1] /\ s = r[2]
        BY <2>2, <4>1
      <4>3. QED
        BY <1>5, <4>2 DEF Of
    <3>5. jobs' \in [Jobs -> Job]
      BY <1>5, <3>2, <3>3 DEF Sound
    <3>6. jobs'[r[1]] = k /\ \A j \in Jobs : j # r[1] => jobs'[j] = jobs[j]
      BY <1>5, <3>3
    <3> HIDE DEF S
    <3>7. ASSUME NEW j \in Jobs
          PROVE  IF Of(S, j) = {} THEN jobs'[j] = jobs[j]
                 ELSE /\ Sound(jobs'[j]) /\ Steady(jobs[j], jobs'[j])
                      /\ Landed(jobs[j], jobs'[j], Of(S, j))
      BY <3>2, <3>4, <3>6
    <3>8. QED
      BY <3>5, <3>7
  <2>3. QED
    BY <2>1, <2>2
<1>7. /\ (jobs \in [Jobs -> Job] /\ \A j \in Jobs : Fine(jobs[j]))'
      /\ \A q \in Refs :
           /\ jobs'[q[1]].place = jobs[q[1]].place
           /\ StatusOf(q)' = "rendering" <=> StatusOf(q) = "rendering" /\ q \notin S
      /\ \A j \in Jobs : Kept(jobs[j], jobs'[j]) /\ StaysPaused(jobs[j], jobs'[j])
  BY <1>4, <1>6, LandRows
<1>8. jobs[r[1]].place # "gone" => S = {r}
  BY <1>3, BatchInTable
<1>9. \A q \in Refs : jobs[q[1]].place # "gone" => (q \in S <=> q = r)
  BY <1>8
<1>10. r \notin stranded
  BY <1>3 DEF IInv, Flights
<1>11. Flights'
  BY <1>1, <1>2, <1>7, <1>9, <1>10 DEF IInv, Flights, Phases
<1>12. QED
  BY <1>7, <1>11 DEF IInv, Preserves, KeepsPaused

-----------------------------------------------------------------------------
(* The inductive step *)

LEMMA InitFine == ASSUME Init PROVE IInv
<1>1. jobs = [j \in Jobs |-> Absent]
  BY DEF Init
<1>2. jobs \in [Jobs -> Job] /\ \A j \in Jobs : jobs[j] = Absent /\ Fine(jobs[j])
  BY <1>1, AbsentFine
<1>3. \A r \in Refs : StatusOf(r) # "rendering"
  BY <1>2, AbsentFine DEF StatusOf, TakeAt, Refs
<1>4. Flights
  BY <1>3 DEF Init, Flights, Phases
<1>5. QED
  BY <1>2, <1>4 DEF IInv

LEMMA UserStep ==
  ASSUME IInv, NEW j \in Jobs, User(j)
  PROVE  Maintains /\ (KeepsPaused \/ /\ Activate(j) \/ Resume(j)
                                      /\ \A i \in Jobs : i # j => StaysPaused(jobs[i], jobs'[i]))
<1>1. Preserves => Maintains
  BY DEF Preserves, Maintains, Kept
<1>2. QED
  BY <1>1, CreateJobStep, StatusCommandStep, PauseStep, ChangeVoiceStep, ReprocessStep,
     SetActiveVersionStep, MoveStep
     DEF User

LEMMA SchedulerStep ==
  ASSUME IInv, Scheduler
  PROVE  Preserves /\ KeepsPaused
<1>1. CASE ExpireListeners
  BY <1>1, ExpireListenersStep
<1>2. CASE Tick
  BY <1>2, PlanStep, PlanAndRankStep DEF Tick
<1>3. CASE \/ DispatchBlocked \/ DispatchRaises
           \/ \E done \in SUBSET batch : RenderReturns(done)
  BY <1>3, QuietStep
<1>4. CASE Dispatch
  BY <1>4, DispatchStep
<1>5. CASE BatchFails
  BY <1>5, BatchFailsStep
<1>6. CASE LoadFails \/ RequeueLeftovers
  <2>1. /\ RequeueAll /\ UNCHANGED <<ranked, results>>
        /\ phase = "rendering" \/ (phase = "applying" /\ results = {})
    BY <1>6 DEF LoadFails, RequeueLeftovers
  <2>2. QED
    BY <2>1, RequeueAllStep
<1>7. CASE ApplyResult
  BY <1>7, ApplyResultStep
<1>8. QED
  BY <1>1, <1>2, <1>3, <1>4, <1>5, <1>6, <1>7 DEF Scheduler

LEMMA StutterStep == ASSUME IInv, UNCHANGED vars PROVE IInv'
BY DEF IInv, vars, Fine, Absent, Flights, StatusOf, TakeAt

-----------------------------------------------------------------------------
(* Jobs that show RENDERING *)

Outstanding(j) == Of(batch \cup stranded, j)

\* What RenderingHasWork says of one job.
Busy(j) ==
  InTable(j) /\ jobs[j].status = "rendering" => Outstanding(j) # {} \/ Waits(jobs[j])

LEMMA BusyRow ==
  ASSUME NEW j \in Jobs, Busy(j), InTable(j)' => InTable(j),
         StaysBusy(jobs[j], jobs'[j]), Outstanding(j) \subseteq Outstanding(j)'
  PROVE  Busy(j)'
<1>1. Waits(jobs[j])' <=> Waits(jobs'[j])
  BY DEF Waits, LiveTake, Exists
<1> QED
  BY <1>1 DEF Busy, StaysBusy

\* A row that keeps its takes and its status.
LEMMA SameStaysBusy ==
  ASSUME NEW j, NEW k, k.takes = j.takes, k.status = j.status
  PROVE  StaysBusy(j, k)
BY DEF StaysBusy, Waits, LiveTake, Exists

\* No user command takes away the work of a job that shows RENDERING.
LEMMA UserStaysBusy ==
  ASSUME IInv, NEW j \in Jobs, User(j), \A i \in Jobs : Busy(i)
  PROVE  \A i \in Jobs : Busy(i)'
<1>1. jobs \in [Jobs -> Job] /\ jobs[j] \in Job /\ Sound(jobs[j])
  BY DEF IInv, Fine
<1>2. UNCHANGED scheduler
  BY DEF User, CreateJob, Activate, Pause, Resume, ReportPlayback, ChangeVoice,
         Reprocess, SetActiveVersion, Trash, Restore, Remove, Update
<1>3. \A i \in Jobs : Outstanding(i)' = Outstanding(i)
  BY <1>2 DEF scheduler, Outstanding, Of
<1>4. ASSUME NEW k, jobs' = [jobs EXCEPT ![j] = k],
             \/ k.status # "rendering"
             \/ /\ k.place \in {"live", "trashed"} => InTable(j)
                /\ StaysBusy(jobs[j], k)
      PROVE  \A i \in Jobs : Busy(i)'
  <2>1. jobs'[j] = k /\ \A i \in Jobs : i # j => jobs'[i] = jobs[i]
    BY <1>1, <1>4
  <2>2. CASE k.status # "rendering"
    <3>1. Busy(j)'
      BY <2>1, <2>2 DEF Busy
    <3>2. \A i \in Jobs : i # j => Busy(i)'
      BY <1>3, <2>1, BusyRow, SameStaysBusy DEF InTable
    <3> QED
      BY <3>1, <3>2
  <2>3. CASE /\ k.place \in {"live", "trashed"} => InTable(j)
             /\ StaysBusy(jobs[j], k)
    <3>1. \A i \in Jobs : StaysBusy(jobs[i], jobs'[i])
      BY <2>1, <2>3, SameStaysBusy
    <3>2. \A i \in Jobs : InTable(i)' => InTable(i)
      BY <2>1, <2>3 DEF InTable
    <3> QED
      BY <1>3, <3>1, <3>2, BusyRow
  <2> QED
    BY <1>4, <2>2, <2>3
<1>5. ASSUME NEW k, Update(j, k), StaysBusy(jobs[j], k)
      PROVE  \A i \in Jobs : Busy(i)'
  BY <1>4, <1>5 DEF Update, InTable
<1>6. CASE CreateJob(j)
  <2>1. PICK n \in 0 .. MaxChunks, v \in Voices, m \in Models :
          jobs' = [jobs EXCEPT ![j] = NewJob(n, v, m)]
    BY <1>6 DEF CreateJob
  <2>2. NewJob(n, v, m).status # "rendering"
    BY DEF NewJob
  <2> QED
    BY <1>4, <2>1, <2>2
<1>7. CASE Activate(j) \/ Pause(j) \/ Resume(j) \/ ReportPlayback(j)
  <2>1. PICK k : /\ Update(j, k)
                 /\ \/ k \in {ActivateJob(jobs[j]), PauseJob(jobs[j]), ResumeJob(jobs[j])}
                    \/ \E playing \in BOOLEAN : k = UpdatePlayback(jobs[j], playing)
    BY <1>7 DEF Activate, Pause, Resume, ReportPlayback
  <2>2. StaysBusy(jobs[j], k)
    BY <1>1, <2>1, CommandsStayBusy
  <2> QED
    BY <1>5, <2>1, <2>2
<1>8. CASE ChangeVoice(j)
  <2>1. PICK v \in Voices, full \in BOOLEAN : Update(j, SetVoice(jobs[j], v, full))
    BY <1>8 DEF ChangeVoice
  <2>2. StaysBusy(jobs[j], SetVoice(jobs[j], v, full))
    BY <1>1, <1>8, SetVoiceStaysBusy DEF ChangeVoice
  <2> QED
    BY <1>5, <2>1, <2>2
<1>9. CASE Reprocess(j) \/ SetActiveVersion(j)
  <2>1. PICK k :
          /\ Update(j, k)
          /\ \E i \in Indices, v \in Versions :
               \/ \E voice \in Voices :
                    NextVersion(jobs[j], i, v) /\ k = AddVersion(jobs[j], i, v, voice)
               \/ Exists(jobs[j], <<i, v>>) /\ k = SwitchVersion(jobs[j], i, v)
    BY <1>9 DEF Reprocess, SetActiveVersion
  <2>2. StaysBusy(jobs[j], k)
    BY <1>1, <2>1, VersionsStayBusy
  <2> QED
    BY <1>5, <2>1, <2>2
<1>10. CASE Trash(j) \/ Restore(j) \/ Remove(j)
  <2>1. PICK p \in {"live", "trashed", "gone"} :
          /\ jobs' = [jobs EXCEPT ![j] = [jobs[j] EXCEPT !.place = p]]
          /\ p # "gone" => InTable(j)
    <3>1. CASE Trash(j)
      BY <3>1 DEF Trash, Update, InTable
    <3>2. CASE Restore(j)
      <4>1. jobs' = [jobs EXCEPT ![j] = [jobs[j] EXCEPT !.place = "live"]]
        BY <1>1, <3>2 DEF Restore
      <4> QED
        BY <3>2, <4>1 DEF Restore, InTable
    <3>3. CASE Remove(j)
      <4>1. jobs' = [jobs EXCEPT ![j] = [jobs[j] EXCEPT !.place = "gone"]]
        BY <1>1, <3>3 DEF Remove
      <4> QED
        BY <4>1
    <3> QED
      BY <1>10, <3>1, <3>2, <3>3
  <2> DEFINE k == [jobs[j] EXCEPT !.place = p]
  <2>2. k.takes = jobs[j].takes /\ k.status = jobs[j].status /\ k.place = p
    BY <1>1 DEF Job
  <2> HIDE DEF k
  <2>3. StaysBusy(jobs[j], k)
    BY <2>2, SameStaysBusy
  <2>4. jobs' = [jobs EXCEPT ![j] = k]
    BY <2>1 DEF k
  <2> QED
    BY <1>4, <2>1, <2>2, <2>3, <2>4
<1> QED
  BY <1>6, <1>7, <1>8, <1>9, <1>10 DEF User

\* Neither does a tick: planning adds takes, and a dispatched take is in flight.
LEMMA TickStaysBusy ==
  ASSUME IInv, \A i \in Jobs : Busy(i),
         ExpireListeners \/ Tick \/ Dispatch
  PROVE  \A i \in Jobs : Busy(i)'
<1> SUFFICES ASSUME NEW i \in Jobs PROVE Busy(i)'
  OBVIOUS
<1>1. jobs[i] \in Job /\ Sound(jobs[i]) /\ Busy(i)
  BY DEF IInv, Fine
<1>2. CASE ExpireListeners
  <2>1. PICK S \in SUBSET {j \in Jobs : jobs[j].place = "live" /\ jobs[j].listening} :
          jobs' = [j \in Jobs |-> IF j \in S THEN ExpireListener(jobs[j]) ELSE jobs[j]]
    BY <1>2 DEF ExpireListeners
  <2>2. jobs'[i] = IF i \in S THEN ExpireListener(jobs[i]) ELSE jobs[i]
    BY <2>1
  <2>3. StaysBusy(jobs[i], jobs'[i])
    BY <1>1, <2>2, CommandsStayBusy, SameStaysBusy
  <2>4. InTable(i)' => InTable(i)
    BY <1>1, <2>2 DEF InTable, ExpireListener, Job
  <2>5. Outstanding(i)' = Outstanding(i)
    BY <1>2 DEF ExpireListeners, scheduler, Outstanding, Of
  <2> QED
    BY <1>1, <2>3, <2>4, <2>5, BusyRow
<1>3. CASE Tick
  <2>1. batch' = batch /\ stranded' = stranded /\ \E held : jobs' = Planned(held)
    BY <1>3 DEF Tick, Plan, PlanAndRank, scheduler
  <2>2. \/ jobs'[i] = PlanChunks(jobs[i]) /\ NeedsPlanning(jobs[i])
        \/ jobs'[i] = jobs[i]
    BY <2>1 DEF Planned
  <2>3. StaysBusy(jobs[i], jobs'[i])
    BY <1>1, <2>2, PlanChunksStaysBusy, SameStaysBusy
  <2>4. InTable(i)' => InTable(i)
    BY <2>2 DEF InTable, NeedsPlanning
  <2>5. Outstanding(i)' = Outstanding(i)
    BY <2>1 DEF Outstanding, Of
  <2> QED
    BY <1>1, <2>3, <2>4, <2>5, BusyRow
<1>4. CASE Dispatch
  <2>1. PICK b \in SUBSET ranked : DispatchBatch(b)
    BY <1>4 DEF Dispatch
  <2>2. /\ jobs' = [j \in Jobs |-> IF Of(b, j) = {} THEN jobs[j]
                                   ELSE MarkRendering(jobs[j], Of(b, j))]
        /\ batch' = b /\ stranded' = stranded /\ batch = {}
    BY <2>1 DEF DispatchBatch, IInv, Flights
  <2>3. CASE Of(b, i) = {}
    <3>1. jobs'[i] = jobs[i]
      BY <2>2, <2>3
    <3>2. Outstanding(i) \subseteq Outstanding(i)'
      BY <2>2 DEF Outstanding, Of
    <3> QED
      BY <1>1, <3>1, <3>2, BusyRow, SameStaysBusy DEF InTable
  <2>4. CASE Of(b, i) # {}
    BY <2>2, <2>4 DEF Busy, Outstanding, Of
  <2> QED
    BY <2>3, <2>4
<1> QED
  BY <1>2, <1>3, <1>4

\* And when a flight ends, its jobs are settled or a take of theirs waits again.
LEMMA OutcomeStaysBusy ==
  ASSUME IInv, \A i \in Jobs : Busy(i),
         BatchFails \/ RequeueAll
  PROVE  \A i \in Jobs : Busy(i)'
<1> SUFFICES ASSUME NEW i \in Jobs, InTable(i)' PROVE Busy(i)'
  BY DEF Busy
<1>1. jobs[i] \in Job /\ Sound(jobs[i]) /\ Busy(i)
  BY DEF IInv, Fine
<1>2. Of(batch, i) \in SUBSET Slots
  BY DEF Of
<1>3. InTable(i) => \A s \in Of(batch, i) : jobs[i].takes[s].status = "rendering"
  BY DEF Of, IInv, Flights, InTable, StatusOf, TakeAt, Refs
<1>4. CASE BatchFails
  <2>1. jobs'[i] = IF Of(batch, i) = {} \/ ~InTable(i) THEN jobs[i]
                   ELSE MarkBatchFailed(jobs[i], Of(batch, i))
    BY <1>4 DEF BatchFails
  <2>2. CASE Of(batch, i) # {} /\ InTable(i)
    <3>1. jobs'[i].status # "rendering"
      BY <1>1, <1>2, <1>3, <2>1, <2>2, ReportsStayBusy
    <3> QED
      BY <3>1 DEF Busy
  <2>3. CASE ~(Of(batch, i) # {} /\ InTable(i))
    <3>1. jobs'[i] = jobs[i] /\ InTable(i) /\ Of(batch, i) = {}
      BY <2>1, <2>3 DEF InTable
    <3>2. Outstanding(i) \subseteq Outstanding(i)'
      BY <1>4, <3>1 DEF BatchFails, Outstanding, Of
    <3> QED
      BY <1>1, <3>1, <3>2, BusyRow, SameStaysBusy
  <2> QED
    BY <2>2, <2>3
<1>5. CASE RequeueAll
  <2>1. PICK done \in SUBSET {r \in batch : InTable(r[1])} :
          /\ jobs' = [j \in Jobs |-> IF Of(done, j) = {} THEN jobs[j]
                                     ELSE MarkPlanned(jobs[j], Of(done, j))]
          /\ stranded' = stranded \cup {r \in batch \ done : InTable(r[1])}
    BY <1>5 DEF RequeueAll
  <2>2. jobs'[i] = IF Of(done, i) = {} THEN jobs[i]
                   ELSE MarkPlanned(jobs[i], Of(done, i))
    BY <2>1
  <2>3. CASE Of(done, i) # {}
    <3>1. InTable(i) /\ Of(done, i) \in SUBSET Of(batch, i)
      BY <2>3 DEF Of
    <3>2. jobs'[i].status # "rendering"
      BY <1>1, <1>2, <1>3, <2>2, <2>3, <3>1, ReportsStayBusy
    <3> QED
      BY <3>2 DEF Busy
  <2>4. CASE Of(done, i) = {}
    <3>1. jobs'[i] = jobs[i] /\ InTable(i)
      BY <2>2, <2>4 DEF InTable
    <3>2. \A s \in Outstanding(i) : <<i, s>> \in stranded'
      BY <2>1, <2>4, <3>1 DEF Outstanding, Of
    <3>3. Outstanding(i) \subseteq Outstanding(i)'
      BY <3>2 DEF Outstanding, Of
    <3> QED
      BY <1>1, <3>1, <3>3, BusyRow, SameStaysBusy
  <2> QED
    BY <2>3, <2>4
<1> QED
  BY <1>4, <1>5

LEMMA ApplyStaysBusy ==
  ASSUME IInv, \A i \in Jobs : Busy(i), ApplyResult
  PROVE  \A i \in Jobs : Busy(i)'
<1>1. PICK r \in results :
        /\ jobs' = IF InTable(r[1])
                   THEN [jobs EXCEPT ![r[1]] = MarkWritten(jobs[r[1]], r[2])]
                   ELSE jobs
        /\ batch' = batch \ {r}
        /\ stranded' = stranded
  BY DEF ApplyResult
<1>2. r \in Refs /\ r \in batch /\ jobs \in [Jobs -> Job]
  BY DEF IInv, Flights
<1>3. r[1] \in Jobs /\ r[2] \in Slots
  BY <1>2 DEF Refs
<1>4. ASSUME NEW i \in Jobs, i # r[1] PROVE Busy(i)'
  <2>1. jobs'[i] = jobs[i]
    BY <1>1, <1>2, <1>4
  <2>2. Outstanding(i) \subseteq Outstanding(i)'
    BY <1>1, <1>4 DEF Outstanding, Of
  <2> QED
    BY <2>1, <2>2, BusyRow, SameStaysBusy DEF InTable
<1>5. Busy(r[1])'
  <2> DEFINE j == jobs[r[1]]
             k == MarkWritten(j, r[2])
  <2>1. CASE ~InTable(r[1])
    BY <1>1, <2>1 DEF Busy, InTable
  <2>2. CASE InTable(r[1])
    <3>1. jobs'[r[1]] = k
      BY <1>1, <1>2, <1>3, <2>2
    <3>2. Sound(j) /\ j.takes[r[2]].status = "rendering"
      BY <1>2, <1>3, <2>2 DEF IInv, Fine, Flights, InTable, StatusOf, TakeAt
    <3>3. k.status = "rendering" => Waits(k)
      <4>1. {r[2]} \in SUBSET Slots /\ \A s \in {r[2]} : j.takes[s].status = "rendering"
        BY <1>3, <3>2
      <4> HIDE DEF j
      <4> QED
        BY <3>2, <4>1, ReportsStayBusy
    <3> HIDE DEF k
    <3>4. Waits(jobs[r[1]])' <=> Waits(jobs'[r[1]])
      BY <1>1 DEF Waits, LiveTake, Exists
    <3> QED
      BY <3>1, <3>3, <3>4 DEF Busy
  <2> QED
    BY <2>1, <2>2
<1> QED
  BY <1>4, <1>5

LEMMA BusyStep ==
  ASSUME IInv, \A i \in Jobs : Busy(i), [Next]_vars
  PROVE  \A i \in Jobs : Busy(i)'
<1>1. CASE \/ DispatchBlocked \/ DispatchRaises \/ UNCHANGED vars
           \/ \E done \in SUBSET batch : RenderReturns(done)
  <2>1. jobs' = jobs /\ batch' = batch /\ stranded' = stranded
    BY <1>1 DEF DispatchBlocked, DispatchRaises, RenderReturns, vars
  <2> QED
    BY <2>1 DEF Busy, InTable, Outstanding, Of, Waits, LiveTake, Exists
<1>2. CASE \E j \in Jobs : User(j)
  BY <1>2, UserStaysBusy
<1>3. CASE ExpireListeners \/ Tick \/ Dispatch
  BY <1>3, TickStaysBusy
<1>4. CASE BatchFails \/ LoadFails \/ RequeueLeftovers
  BY <1>4, OutcomeStaysBusy DEF LoadFails, RequeueLeftovers
<1>5. CASE ApplyResult
  BY <1>5, ApplyStaysBusy
<1> QED
  BY <1>1, <1>2, <1>3, <1>4, <1>5 DEF Next, Scheduler

-----------------------------------------------------------------------------
(* Takes superseded in flight *)

\* The row's plan version does not go back, and its takes track it unless a
\* partial voice change pinned them.
Follows(j, k) ==
  /\ k.plan >= j.plan
  /\ \A s \in Slots : k.takes[s].plan \in {j.takes[s].plan, k.plan}
  /\ Tracks(j, k) \/ k = SetVoice(j, k.voice, FALSE)

\* A row that exists follows its past, and no take outruns its job.
Orderly(i) ==
  /\ jobs[i].place # "new" => Follows(jobs[i], jobs'[i])
  /\ Capped(jobs'[i])

LEMMA FollowsStaysCapped ==
  ASSUME NEW j \in Job, NEW k \in Job, Capped(j), Follows(j, k)
  PROVE  Capped(k)
<1>1. \A s \in Slots : j.takes[s].plan \in Int /\ j.plan \in Int /\ k.plan \in Int
  BY DEF Job, Take
<1> QED
  BY <1>1 DEF Capped, Follows

LEMMA SameFollows ==
  ASSUME NEW j \in Job, NEW k, k.takes = j.takes, k.plan = j.plan
  PROVE  Follows(j, k)
<1>1. k.plan >= j.plan
  BY DEF Job
<1>2. Tracks(j, k)
  BY DEF Tracks, Superseded
<1> QED
  BY <1>1, <1>2 DEF Follows

\* Every command keeps the table in order.
LEMMA UserOrderly ==
  ASSUME IInv, \A i \in Jobs : Capped(jobs[i]),
         NEW j \in Jobs, User(j)
  PROVE  \A i \in Jobs : Orderly(i)
<1>1. jobs \in [Jobs -> Job] /\ jobs[j] \in Job /\ Sound(jobs[j]) /\ Capped(jobs[j])
  BY DEF IInv, Fine
<1>2. ASSUME NEW k, jobs' = [jobs EXCEPT ![j] = k], Capped(k),
             jobs[j].place # "new" => Follows(jobs[j], k)
      PROVE  \A i \in Jobs : Orderly(i)
  <2> SUFFICES ASSUME NEW i \in Jobs PROVE Orderly(i)
    OBVIOUS
  <2>1. CASE i = j
    <3>1. jobs'[i] = k
      BY <1>1, <1>2, <2>1
    <3> QED
      BY <1>2, <2>1, <3>1 DEF Orderly
  <2>2. CASE i # j
    <3>1. jobs'[i] = jobs[i] /\ jobs[i] \in Job
      BY <1>1, <1>2, <2>2
    <3> QED
      BY <3>1, SameFollows DEF Orderly
  <2> QED
    BY <2>1, <2>2
<1>3. ASSUME NEW k, Update(j, k), k \in Job, Follows(jobs[j], k)
      PROVE  \A i \in Jobs : Orderly(i)
  <2>1. jobs' = [jobs EXCEPT ![j] = k] /\ Capped(k)
    BY <1>1, <1>3, FollowsStaysCapped DEF Update
  <2> QED
    BY <1>2, <1>3, <2>1
<1>4. CASE CreateJob(j)
  <2>1. PICK n \in 0 .. MaxChunks, v \in Voices, m \in Models :
          jobs' = [jobs EXCEPT ![j] = NewJob(n, v, m)]
    BY <1>4 DEF CreateJob
  <2>2. Capped(NewJob(n, v, m))
    BY NewJobOK
  <2> QED
    BY <1>2, <1>4, <2>1, <2>2 DEF CreateJob
<1>5. CASE Activate(j) \/ Pause(j) \/ Resume(j) \/ ReportPlayback(j)
  <2>1. PICK k : /\ Update(j, k)
                 /\ \/ k \in {ActivateJob(jobs[j]), PauseJob(jobs[j]), ResumeJob(jobs[j])}
                    \/ \E playing \in BOOLEAN : k = UpdatePlayback(jobs[j], playing)
    BY <1>5 DEF Activate, Pause, Resume, ReportPlayback
  <2>2. OnlyStatus(jobs[j], k)
    BY <1>1, <2>1, CommandsOnlyStatus
  <2>3. k \in Job /\ Follows(jobs[j], k)
    BY <1>1, <2>2, OnlyStatusOK DEF OnlyStatus, Follows, Tracks, Gentle
  <2> QED
    BY <1>3, <2>1, <2>3
<1>6. CASE ChangeVoice(j)
  <2>1. PICK v \in Voices, full \in BOOLEAN : Update(j, SetVoice(jobs[j], v, full))
    BY <1>6 DEF ChangeVoice
  <2>2. jobs[j].plan < MaxPlan
    BY <1>6 DEF ChangeVoice
  <2> DEFINE k == SetVoice(jobs[j], v, full)
  <2>3. /\ Sound(k) /\ Gentle(jobs[j], k) /\ k.voice = v
        /\ \A s \in Slots : k.takes[s].plan \in {jobs[j].takes[s].plan, k.plan}
        /\ full => Tracks(jobs[j], k)
    BY <1>1, <2>2, SetVoiceOK
  <2>4. ~full => k = SetVoice(jobs[j], k.voice, FALSE)
    <3>1. ~full => full = FALSE
      OBVIOUS
    <3> QED
      BY <2>3, <3>1
  <2> HIDE DEF k
  <2>5. k \in Job /\ Follows(jobs[j], k)
    BY <2>3, <2>4 DEF Sound, Follows, Gentle
  <2> QED
    BY <1>3, <2>1, <2>5 DEF k
<1>7. CASE Reprocess(j) \/ SetActiveVersion(j)
  <2>1. PICK k :
          /\ Update(j, k)
          /\ \E i \in Indices, v \in Versions :
               \/ \E voice \in Voices :
                    NextVersion(jobs[j], i, v) /\ k = AddVersion(jobs[j], i, v, voice)
               \/ Exists(jobs[j], <<i, v>>) /\ k = SwitchVersion(jobs[j], i, v)
    BY <1>7 DEF Reprocess, SetActiveVersion
  <2>2. Sound(k) /\ Gentle(jobs[j], k) /\ Tracks(jobs[j], k)
    BY <1>1, <2>1, AddVersionOK, SwitchVersionOK
  <2>3. k \in Job /\ Follows(jobs[j], k)
    BY <2>2 DEF Sound, Follows, Tracks, Gentle
  <2> QED
    BY <1>3, <2>1, <2>3
<1>8. CASE Trash(j) \/ Restore(j) \/ Remove(j)
  <2>1. PICK p : jobs' = [jobs EXCEPT ![j] = [jobs[j] EXCEPT !.place = p]]
    <3>1. CASE Trash(j)
      BY <3>1 DEF Trash, Update
    <3>2. CASE Restore(j)
      <4>1. jobs' = [jobs EXCEPT ![j] = [jobs[j] EXCEPT !.place = "live"]]
        BY <1>1, <3>2 DEF Restore
      <4> QED
        BY <4>1
    <3>3. CASE Remove(j)
      <4>1. jobs' = [jobs EXCEPT ![j] = [jobs[j] EXCEPT !.place = "gone"]]
        BY <1>1, <3>3 DEF Remove
      <4> QED
        BY <4>1
    <3> QED
      BY <1>8, <3>1, <3>2, <3>3
  <2> DEFINE k == [jobs[j] EXCEPT !.place = p]
  <2>2. k.takes = jobs[j].takes /\ k.plan = jobs[j].plan
    BY <1>1 DEF Job
  <2> HIDE DEF k
  <2>3. Follows(jobs[j], k)
    BY <1>1, <2>2, SameFollows
  <2>4. Capped(k)
    BY <1>1, <2>2 DEF Capped
  <2>5. jobs' = [jobs EXCEPT ![j] = k]
    BY <2>1 DEF k
  <2> QED
    BY <1>2, <2>3, <2>4, <2>5
<1> QED
  BY <1>4, <1>5, <1>6, <1>7, <1>8 DEF User

\* So does every step of the scheduler.
LEMMA SchedulerOrderly ==
  ASSUME IInv, IInv', \A i \in Jobs : Capped(jobs[i]), Scheduler
  PROVE  \A i \in Jobs : Orderly(i)
<1> SUFFICES ASSUME NEW i \in Jobs PROVE Follows(jobs[i], jobs'[i])
  <2>1. \A i \in Jobs : jobs[i] \in Job /\ jobs'[i] \in Job
    BY DEF IInv
  <2> QED
    BY <2>1, FollowsStaysCapped DEF Orderly
<1>1. jobs[i] \in Job /\ Sound(jobs[i]) /\ Follows(jobs[i], jobs[i])
  BY SameFollows DEF IInv, Fine
<1>2. \A S : Of(S, i) \in SUBSET Slots
  BY DEF Of
<1>3. InTable(i) => \A s \in Of(batch, i) : jobs[i].takes[s].status = "rendering"
  BY DEF Of, IInv, Flights, InTable, StatusOf, TakeAt, Refs
<1>4. CASE jobs' = jobs
  BY <1>1, <1>4
<1>5. CASE ExpireListeners
  <2>1. PICK S \in SUBSET {j \in Jobs : jobs[j].place = "live" /\ jobs[j].listening} :
          jobs' = [j \in Jobs |-> IF j \in S THEN ExpireListener(jobs[j]) ELSE jobs[j]]
    BY <1>5 DEF ExpireListeners
  <2>2. jobs'[i] = IF i \in S THEN ExpireListener(jobs[i]) ELSE jobs[i]
    BY <2>1
  <2>3. Follows(jobs[i], ExpireListener(jobs[i]))
    BY <1>1, CommandsOnlyStatus, OnlyStatusOK DEF Follows, Tracks, Gentle
  <2> QED
    BY <1>1, <2>2, <2>3
<1>6. CASE Tick
  <2>0. \E held : jobs' = Planned(held)
    BY <1>6 DEF Tick, Plan, PlanAndRank
  <2>1. \/ jobs'[i] = PlanChunks(jobs[i]) /\ NeedsPlanning(jobs[i])
        \/ jobs'[i] = jobs[i]
    BY <2>0 DEF Planned
  <2>2. NeedsPlanning(jobs[i]) => Follows(jobs[i], PlanChunks(jobs[i]))
    BY <1>1, PlanChunksOK DEF Follows, Tracks, Gentle
  <2> QED
    BY <1>1, <2>1, <2>2
<1>7. CASE Dispatch
  <2>1. PICK b \in SUBSET ranked : DispatchBatch(b)
    BY <1>7 DEF Dispatch
  <2>2. jobs'[i] = IF Of(b, i) = {} THEN jobs[i] ELSE MarkRendering(jobs[i], Of(b, i))
    BY <2>1 DEF DispatchBatch
  <2>3. \A s \in Of(b, i) : jobs[i].takes[s].status = "planned"
    BY <2>1 DEF IInv, Flights, Of, StatusOf, TakeAt
  <2>4. /\ Tracks(jobs[i], MarkRendering(jobs[i], Of(b, i)))
        /\ MarkRendering(jobs[i], Of(b, i)).plan = jobs[i].plan
    BY <1>1, <1>2, <2>3, MarkRenderingOK
  <2>5. Follows(jobs[i], MarkRendering(jobs[i], Of(b, i)))
    BY <1>1, <2>4 DEF Follows, Tracks, Job
  <2> QED
    BY <1>1, <2>2, <2>5
<1>8. CASE BatchFails
  <2>1. jobs'[i] = IF Of(batch, i) = {} \/ ~InTable(i) THEN jobs[i]
                   ELSE MarkBatchFailed(jobs[i], Of(batch, i))
    BY <1>8 DEF BatchFails
  <2>2. InTable(i) => /\ Tracks(jobs[i], MarkBatchFailed(jobs[i], Of(batch, i)))
                      /\ MarkBatchFailed(jobs[i], Of(batch, i)).plan = jobs[i].plan
    BY <1>1, <1>2, <1>3, MarkBatchFailedOK DEF Landed
  <2>3. InTable(i) => Follows(jobs[i], MarkBatchFailed(jobs[i], Of(batch, i)))
    BY <1>1, <2>2 DEF Follows, Tracks, Job
  <2> QED
    BY <1>1, <2>1, <2>3
<1>9. CASE RequeueAll
  <2>1. PICK done \in SUBSET {r \in batch : InTable(r[1])} :
          jobs' = [j \in Jobs |-> IF Of(done, j) = {} THEN jobs[j]
                                   ELSE MarkPlanned(jobs[j], Of(done, j))]
    BY <1>9 DEF RequeueAll
  <2>2. jobs'[i] = IF Of(done, i) = {} THEN jobs[i]
                   ELSE MarkPlanned(jobs[i], Of(done, i))
    BY <2>1
  <2>3. Of(done, i) # {} => \A s \in Of(done, i) : jobs[i].takes[s].status = "rendering"
    BY <1>3 DEF Of
  <2>4. Of(done, i) # {} => /\ Tracks(jobs[i], MarkPlanned(jobs[i], Of(done, i)))
                            /\ MarkPlanned(jobs[i], Of(done, i)).plan = jobs[i].plan
    BY <1>1, <1>2, <2>3, MarkPlannedOK DEF Landed
  <2>5. Of(done, i) # {} => Follows(jobs[i], MarkPlanned(jobs[i], Of(done, i)))
    BY <1>1, <2>4 DEF Follows, Tracks, Job
  <2> QED
    BY <1>1, <2>2, <2>5
<1>10. CASE ApplyResult
  <2>1. PICK r \in results :
          jobs' = IF InTable(r[1])
                  THEN [jobs EXCEPT ![r[1]] = MarkWritten(jobs[r[1]], r[2])]
                  ELSE jobs
    BY <1>10 DEF ApplyResult
  <2>2. r \in Refs /\ r \in batch /\ r[2] \in Slots /\ jobs \in [Jobs -> Job]
    BY DEF IInv, Flights, Refs
  <2>3. CASE r[1] = i /\ InTable(i)
    <3>1. jobs'[i] = MarkWritten(jobs[i], r[2])
      BY <2>1, <2>2, <2>3
    <3>2. jobs[i].takes[r[2]].status = "rendering"
      BY <2>2, <2>3 DEF IInv, Flights, InTable, StatusOf, TakeAt
    <3>3. Tracks(jobs[i], jobs'[i]) /\ jobs'[i].plan = jobs[i].plan
      BY <1>1, <2>2, <3>1, <3>2, MarkWrittenOK DEF Landed
    <3> QED
      BY <1>1, <3>3 DEF Follows, Tracks, Job
  <2>4. CASE ~(r[1] = i /\ InTable(i))
    <3>1. jobs'[i] = jobs[i]
      BY <2>1, <2>2, <2>4
    <3> QED
      BY <1>1, <3>1
  <2> QED
    BY <2>3, <2>4
<1> QED
  BY <1>4, <1>5, <1>6, <1>7, <1>8, <1>9, <1>10
     DEF Scheduler, DispatchBlocked, DispatchRaises, RenderReturns, LoadFails,
         RequeueLeftovers

-----------------------------------------------------------------------------
(* Theorems *)

\* The inductive invariant holds in every reachable state, whatever commands
\* users send and however ticks, batches and outcomes interleave with them.
THEOREM Invariance == Spec => []IInv
<1>1. Init => IInv
  BY InitFine
<1>2. IInv /\ [Next]_vars => IInv'
  BY UserStep, SchedulerStep, StutterStep DEF Next, Preserves, Maintains
<1>3. QED
  BY <1>1, <1>2, PTL DEF Spec

\* Every variable keeps its type (the record types of JobAggregate).
THEOREM TypeCorrect == Spec => []TypeOK
<1>1. IInv => TypeOK
  BY DEF IInv, Flights, TypeOK
<1>2. QED
  BY <1>1, Invariance, PTL

\* The rendering takes are the batch in flight and the stranded ones.
THEOREM FlightsMatchRows == Spec => []FlightIsRendering
<1>1. IInv => FlightIsRendering
  BY DEF IInv, Flights, FlightIsRendering, InTable
<1>2. QED
  BY <1>1, Invariance, PTL

\* One live take per planned index, named by active_chunk_version.
THEOREM LiveTakeIsUnique == Spec => []OneLiveTake
<1>1. IInv => OneLiveTake
  BY DEF IInv, Fine, Sound, OneLiveTake
<1>2. QED
  BY <1>1, Invariance, PTL

\* Counters and playable run are never stale.
THEOREM DerivedStateIsFresh == Spec => []DerivedFresh
<1>1. IInv => DerivedFresh
  BY DEF IInv, Fine, Sound, DerivedFresh
<1>2. QED
  BY <1>1, Invariance, PTL

\* Takes are given up exactly when their attempts run out.
THEOREM AttemptsAreBudgeted == Spec => []AttemptBudget
<1>1. IInv => AttemptBudget
  BY DEF IInv, Fine, Sound, AttemptBudget
<1>2. QED
  BY <1>1, Invariance, PTL

\* Every step keeps finished audio, and is steady or a switch of takes.
LEMMA NextMaintains ==
  ASSUME IInv, Next
  PROVE  Maintains
<1>1. Preserves => Maintains
  BY DEF Preserves, Maintains, Kept
<1>2. QED
  BY <1>1, UserStep, SchedulerStep DEF Next

\* A job that is completed was finished, and one that is completed and finished
\* gets work without leaving COMPLETED by a switch of takes only.
THEOREM CompletionIsReal == Spec => CompletionIsEarned
<1> DEFINE Earned == \A j \in Jobs : DoneIfCompleted(jobs[j]) =>
                       \/ DoneIfCompleted(jobs'[j])
                       \/ SetActiveVersion(j) /\ Finished(jobs[j].status)
<1>1. IInv /\ [Next]_vars => [Earned]_vars
  <2> SUFFICES ASSUME IInv, Next PROVE Earned
    BY DEF Earned
  <2>1. QED
    BY NextMaintains DEF Maintains, Steady, Switched
<1>2. QED
  BY <1>1, Invariance, PTL DEF Spec, CompletionIsEarned

\* Whatever users and batches do, the only step that leaves a live take waiting
\* under an old plan version is a switch to a superseded take.
THEOREM SwitchesOrphanOnly == Spec => OrphanedBySwitchOnly
<1> DEFINE Guarded == \A r \in Refs : Orphaned(jobs'[r[1]], r[2]) =>
                        \/ Orphaned(jobs[r[1]], r[2])
                        \/ SetActiveVersion(r[1]) /\ TakeAt(r).deprecated
<1>1. IInv /\ [Next]_vars => [Guarded]_vars
  <2> SUFFICES ASSUME IInv, Next, NEW r \in Refs, Orphaned(jobs'[r[1]], r[2])
               PROVE  \/ Orphaned(jobs[r[1]], r[2])
                      \/ SetActiveVersion(r[1]) /\ TakeAt(r).deprecated
    BY DEF Guarded
  <2>1. r[1] \in Jobs /\ r[2] \in Slots
    BY DEF Refs
  <2>2. QED
    BY <2>1, NextMaintains DEF Maintains, Steady, Switched, TakeAt
<1>2. QED
  BY <1>1, Invariance, PTL DEF Spec, OrphanedBySwitchOnly

\* Finished audio is taken back by a voice change only.
THEOREM AudioIsKept == Spec => WrittenStaysWritten
<1> DEFINE Keeps == \A r \in Refs : StatusOf(r) = "written" =>
                      \/ StatusOf(r)' = "written" /\ TakeAt(r)'.voice = TakeAt(r).voice
                      \/ jobs'[r[1]].plan > jobs[r[1]].plan
<1>1. IInv /\ [Next]_vars => [Keeps]_vars
  <2> SUFFICES ASSUME IInv, Next PROVE Keeps
    BY DEF Keeps
  <2>1. \A i \in Jobs : KeptAudio(jobs[i], jobs'[i])
    BY NextMaintains DEF Maintains
  <2>2. QED
    BY <2>1 DEF KeptAudio, StatusOf, TakeAt, Refs
<1>2. QED
  BY <1>1, Invariance, PTL DEF Spec, WrittenStaysWritten

\* Only the user who paused a job, or a listener who activates it, ends a pause.
THEOREM PauseIsSticky == Spec => PauseSticky
<1> DEFINE Sticky == \A j \in Jobs : jobs[j].status = "paused" =>
                       jobs'[j].status = "paused" \/ Activate(j) \/ Resume(j)
<1>1. IInv /\ [Next]_vars => [Sticky]_vars
  <2> SUFFICES ASSUME IInv, Next PROVE Sticky
    BY DEF Sticky
  <2>1. ASSUME NEW j \in Jobs, User(j) PROVE Sticky
    <3>1. \A i \in Jobs : \/ StaysPaused(jobs[i], jobs'[i])
                          \/ i = j /\ (Activate(j) \/ Resume(j))
      BY <2>1, UserStep DEF KeepsPaused
    <3>2. QED
      BY <3>1 DEF StaysPaused
  <2>2. CASE Scheduler
    BY <2>2, SchedulerStep DEF KeepsPaused, StaysPaused
  <2>3. QED
    BY <2>1, <2>2 DEF Next
<1>2. QED
  BY <1>1, Invariance, PTL DEF Spec, PauseSticky

\* A job shows RENDERING only with a take on the GPU, stranded, or in the queue.
THEOREM RenderingIsHonest == Spec => []RenderingHasWork
<1> DEFINE AllBusy == \A i \in Jobs : Busy(i)
<1>1. Init => AllBusy
  <2> SUFFICES ASSUME Init, NEW i \in Jobs PROVE Busy(i)
    OBVIOUS
  <2>1. jobs[i] = Absent
    BY DEF Init
  <2> QED
    BY <2>1, AbsentFine DEF Busy
<1>2. IInv /\ AllBusy /\ [Next]_vars => AllBusy'
  BY BusyStep
<1>3. AllBusy => RenderingHasWork
  BY DEF Busy, RenderingHasWork, Waits, Outstanding
<1> QED
  BY <1>1, <1>2, <1>3, Invariance, PTL DEF Spec

\* A live take that a full re-render caught in flight stays marked until it waits
\* under the current voice and plan version, or a partial voice change pins it.
THEOREM SupersededTakesAreRevoiced == Spec => SupersededIsRevoiced
<1> DEFINE AllCapped == \A i \in Jobs : Capped(jobs[i])
           Step == \A r \in Refs : CaughtInFlight(r) =>
                     \/ Revoiced(r)
                     \/ jobs'[r[1]] = SetVoice(jobs[r[1]], jobs'[r[1]].voice, FALSE)
<1>1. Init => AllCapped
  BY AbsentFine DEF Init
<1>2. ASSUME IInv, AllCapped, Next
      PROVE  \A i \in Jobs : Orderly(i)
  <2>1. IInv'
    BY <1>2, NextMaintains DEF Maintains
  <2> QED
    BY <1>2, <2>1, UserOrderly, SchedulerOrderly DEF Next
<1>3. IInv /\ AllCapped /\ [Next]_vars => AllCapped'
  <2>1. CASE Next
    BY <1>2, <2>1 DEF Orderly, Capped
  <2>2. CASE UNCHANGED vars
    BY <2>2 DEF vars, Capped
  <2> QED
    BY <2>1, <2>2
<1>4. IInv /\ AllCapped /\ [Next]_vars => [Step]_vars
  <2> SUFFICES ASSUME IInv, AllCapped, Next, NEW r \in Refs, CaughtInFlight(r)
               PROVE  \/ Revoiced(r)
                      \/ jobs'[r[1]] = SetVoice(jobs[r[1]], jobs'[r[1]].voice, FALSE)
    BY DEF Step
  <2>1. r[1] \in Jobs /\ r[2] \in Slots
    BY DEF Refs
  <2>2. Follows(jobs[r[1]], jobs'[r[1]])
    BY <1>2, <2>1 DEF Orderly, CaughtInFlight, InTable
  <2>3. TakeAt(r) = jobs[r[1]].takes[r[2]] /\ TakeAt(r)' = jobs'[r[1]].takes[r[2]]
    BY DEF TakeAt
  <2>4. Tracks(jobs[r[1]], jobs'[r[1]]) => Revoiced(r)
    BY <2>1, <2>3 DEF Tracks, CaughtInFlight, StatusOf, Revoiced
  <2> QED
    BY <2>2, <2>4 DEF Follows
<1> QED
  BY <1>1, <1>3, <1>4, Invariance, PTL DEF Spec, SupersededIsRevoiced
=============================================================================
