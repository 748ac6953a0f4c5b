------------------------------ MODULE Conveyor ------------------------------
(***************************************************************************)
(* The two controls of the reader that seek (components/ChunkConveyor.tsx  *)
(* with features/reader/conveyor-physics.ts, and WaveformTimeline.tsx),    *)
(* over the chunks of Waveforms, which may change during a gesture.        *)
(*                                                                         *)
(* Time is whole seconds and a pixel is one of them, so that a tap is a    *)
(* press released where it began.  Decay takes one off the speed in every  *)
(* frame, the settle spring passes its target once and rests: the shape of *)
(* the motion is kept, its numbers are not.  Of the player the position    *)
(* that is displayed is kept.                                              *)
(***************************************************************************)
EXTENDS Waveforms, Timeline

CONSTANTS
  Reach,        \* pointers are at -Reach .. Reach from the centre of the strip
  Default,      \* length a chunk without audio is drawn with
  Starts,       \* what to begin with: chunks, motion, whether the peaks are there, and
                \* changes, presses and misses that are used up
  MaxPresses    \* bound: presses on the strip and on the timeline

ASSUME ConveyorAssumption ==
  /\ {Reach, MaxPresses} \subseteq Nat /\ Default \in Nat \ {0}
  /\ \A s \in Starts :
       /\ s.chunks \in [Slot -> [status : {"planned", "written", "failed"}, length : Nat, take : Nat]]
       /\ s.motion \in {"animated", "reduced"} /\ s.settled \in BOOLEAN
       /\ {s.changes, s.presses, s.misses} \subseteq Nat

VARIABLES
  strip,    \* the conveyor
  scrub,    \* the timeline
  player,   \* what the page displays of the player
  hist      \* counts of the bounded events, and the last seek

conveyorVars == <<chunks, wave, strip, scrub, player, hist>>

-----------------------------------------------------------------------------
(* Layout *)

\* clampSeconds
ClampSeconds(s, max) == Lesser(Greater(0, s), max)

SumOf(f, S) == FoldFunctionOnSet(+, 0, f, S)

\* deriveTimelineSlots: what has no audio is drawn with a default length.
Drawn == [i \in Slot |-> IF chunks[i].length > 0 THEN chunks[i].length ELSE Default]
Audio == [i \in Slot |-> chunks[i].length]

\* buildCumulativeStartTimes, totalSlotDuration, slotIndexAtSeconds
StartTime(i) == SumOf(Drawn, 0 .. i - 1)
TotalSeconds == SumOf(Drawn, Slot)
SlotIndexAtSeconds(s) == CHOOSE i \in Slot : /\ i = 0 \/ StartTime(i) <= s
                                             /\ \A k \in Slot : k > i => StartTime(k) > s

\* isRenderedState: every state of a slot whose chunk is written is one.
IsRendered(i) == chunks[i].status = "written"

\* anchorOffset, and the audio of the stream: the written run from the anchor.
AnchorOffset == SumOf(Audio, 0 .. player.anchor - 1)
RenderedRun ==
  SumOf(Audio, {i \in Slot : i >= player.anchor /\ \A k \in player.anchor .. i : IsRendered(k)})

\* bounds
MaxSeekSeconds   == AnchorOffset + RenderedRun     \* displayRenderedDurationSeconds
MaxVisualSeconds == Greater(TotalSeconds, MaxSeekSeconds)

\* displayTimeSeconds
PlayheadSeconds == IF player.override # -1 THEN player.override ELSE player.time + AnchorOffset

\* idleCenterSeconds
IdleCenter == IF strip.motion = "animated" THEN PlayheadSeconds
              ELSE StartTime(SlotIndexAtSeconds(PlayheadSeconds))

\* advanceSmoothedPlayhead: a whole second is no drift, the strip snaps to it.
SmoothedPlayhead == ClampSeconds(IdleCenter, MaxVisualSeconds)

-----------------------------------------------------------------------------
(* Gestures *)

NoGesture == [phase |-> "none"]

\* gestureCenterSeconds
Center(g) == g.base + g.offset

Dragging(base, x) == [phase |-> "dragging", base |-> base, offset |-> 0, from |-> x, x |-> x]

\* A speed of 2 is that of the spring on its way back.
Settling(base, offset, target, speed, allows) ==
  [phase |-> "settling", base |-> base, offset |-> offset, target |-> target,
   speed |-> speed, allows |-> allows]

\* updateDrag: the track follows the finger.
UpdateDrag(g, x) ==
  [g EXCEPT !.x = x, !.offset = ClampSeconds(g.base - (x - g.from), MaxVisualSeconds) - g.base]

\* endDrag: a tap, a flick with some speed, or a drop.
TargetOf(base, offset, limit) == ClampSeconds(base + offset, limit) - base

EndTap(g) ==
  LET allows == IsRendered(SlotIndexAtSeconds(g.base + g.x))
      offset == TargetOf(g.base, g.x, MaxVisualSeconds)
      target == TargetOf(g.base, offset, IF allows THEN MaxVisualSeconds ELSE MaxSeekSeconds)
  IN  Settling(g.base, IF strip.motion = "reduced" THEN target ELSE offset, target, 0, allows)

EndDrop(g) ==
  LET target == TargetOf(g.base, g.offset, MaxSeekSeconds)
  IN  Settling(g.base, IF strip.motion = "reduced" THEN target ELSE g.offset, target, 0, FALSE)

EndFlick(g, speed) ==
  [phase |-> "coasting", base |-> g.base, offset |-> g.offset, speed |-> speed]

\* isTap
IsTap(g) == g.x = g.from

\* velocityFromSamples, isFlick, pxPerMsToStripSpeed: what a release can give the
\* strip, 0 for one slower than a flick and with reduced motion.
StripSpeeds == IF strip.motion = "reduced" THEN {0} ELSE -2 .. 2

Slower(v) == IF v > 0 THEN v - 1 ELSE IF v < 0 THEN v + 1 ELSE 0

\* advanceConveyor while coasting: no further than what is rendered, and at the
\* end of the momentum the spring takes over.
Coast(g) ==
  LET free   == g.offset + g.speed
      offset == TargetOf(g.base, free, MaxSeekSeconds)
      speed  == IF offset # free THEN 0 ELSE Slower(g.speed)
  IN  IF speed # 0 THEN [g EXCEPT !.offset = offset, !.speed = speed]
      ELSE Settling(g.base, offset, offset, IF offset # free THEN 0 ELSE g.speed, FALSE)

\* stepSettleSpring, isSettleAtRest
AtRest(g) == g.offset = g.target /\ g.speed = 0
Spring(g) ==
  LET side == IF g.offset # g.target THEN g.target - g.offset ELSE g.speed
  IN  IF g.speed = 2 THEN [g EXCEPT !.offset = g.target, !.speed = 0]
      ELSE [g EXCEPT !.offset = g.target + (IF side > 0 THEN 1 ELSE -1), !.speed = 2]

\* A frame of a gesture that is not at rest.
Advance(g) == IF g.phase = "coasting" THEN Coast(g) ELSE Spring(g)

\* Wrong variant: the bounds were those of the release.
RestWhereReleased(g) == g.base + g.target

\* restSeconds: the target within the bounds of now.
RestSeconds(g) ==
  ClampSeconds(g.base + g.target, IF g.allows THEN MaxVisualSeconds ELSE MaxSeekSeconds)

\* The last seek, until the player has landed; n tells one from the next.
NoSeek == [by |-> "none", n |-> 0]

Init ==
  \E s \in Starts :
    /\ chunks = s.chunks /\ WaveInit(s.settled)
    /\ strip = [gesture |-> NoGesture, shown |-> 0, motion |-> s.motion]
    /\ scrub = [held |-> FALSE, at |-> 0, suppress |-> -1, click |-> -1,
             scrubbed |-> FALSE]                   \* the click to come is that of a scrub
    /\ player = [anchor |-> 0, override |-> -1, time |-> 0]
    /\ hist = [changes |-> s.changes, presses |-> s.presses, misses |-> s.misses, owed |-> FALSE,
               sought |-> NoSeek]

-----------------------------------------------------------------------------
(* Seeking *)

\* onSeek: the page anchors the stream at the chunk and displays the target.
Seek(by, i, s) ==
  /\ player' = [player EXCEPT !.anchor = i, !.override = s]
  /\ hist' = [hist EXCEPT !.owed = @ /\ by # "strip",
                          !.sought = [by |-> by, n |-> 1 - @.n]]

MayPress == hist.presses < MaxPresses /\ scrub.click = -1

\* The stream has the target, or as far as it goes.
Lands ==
  /\ player.override # -1
  /\ player' = [player EXCEPT !.override = -1,
                  !.time = ClampSeconds(player.override - AnchorOffset, RenderedRun)]
  /\ hist' = [hist EXCEPT !.sought = NoSeek]
  /\ UNCHANGED <<chunks, wave, strip, scrub>>

Plays ==
  /\ player.override = -1 /\ player.time < RenderedRun
  /\ player' = [player EXCEPT !.time = @ + 1]
  /\ UNCHANGED <<chunks, wave, strip, scrub, hist>>

-----------------------------------------------------------------------------
(* The conveyor *)

\* Of the idle strip a frame, or the effect that draws it when it does not slide.
DrawIdle ==
  /\ strip.gesture = NoGesture /\ strip.shown # SmoothedPlayhead
  /\ strip' = [strip EXCEPT !.shown = SmoothedPlayhead]
  /\ UNCHANGED <<chunks, wave, scrub>> /\ UNCHANGED <<player, hist>>

With(g) == [strip EXCEPT !.gesture = g, !.shown = Center(g)]

\* handlePointerDown: while a pointer drags the strip another one takes over, and
\* what the first does from then on is ignored.
PointerDown(x) ==
  /\ MayPress
  /\ hist' = [hist EXCEPT !.presses = @ + 1, !.owed = FALSE]
  /\ strip' = With(Dragging(strip.shown, x))
  /\ UNCHANGED <<chunks, wave, scrub, player>>

PointerMove(x) ==
  /\ strip.gesture.phase = "dragging" /\ x # strip.gesture.x
  /\ strip' = With(UpdateDrag(strip.gesture, x))
  /\ UNCHANGED <<chunks, wave, scrub>> /\ UNCHANGED <<player, hist>>

PointerUp ==
  LET g == strip.gesture
  IN  /\ g.phase = "dragging"
      /\ \E h \in IF IsTap(g) THEN {EndTap(g)}
                  ELSE {IF v = 0 THEN EndDrop(g) ELSE EndFlick(g, v) : v \in StripSpeeds} :
           strip' = With(h)
      /\ hist' = [hist EXCEPT !.owed = TRUE]
      /\ UNCHANGED <<chunks, wave, scrub, player>>

PointerCancel ==
  /\ strip.gesture.phase = "dragging"
  /\ strip' = [strip EXCEPT !.gesture = NoGesture]
  /\ UNCHANGED <<chunks, wave, scrub>> /\ UNCHANGED <<player, hist>>

\* commitSeek
CommitSeek(s) ==
  LET at == ClampSeconds(s, MaxVisualSeconds)
  IN  /\ Seek("strip", SlotIndexAtSeconds(at), at)
      /\ strip' = [strip EXCEPT !.gesture = NoGesture]

\* A frame of the animation: rest is reported and committed at once.
Frame ==
  LET g == strip.gesture
      resting == g.phase = "settling" /\ AtRest(g)
  IN  /\ g.phase \in {"coasting", "settling"}
      /\ \/ ~resting /\ strip' = With(Advance(g)) /\ UNCHANGED <<player, hist>>
         \/ resting /\ CommitSeek(RestSeconds(g))
      /\ UNCHANGED <<chunks, wave, scrub>>

-----------------------------------------------------------------------------
(* The timeline *)

\* computeTimelinePositionSeconds: what a pointer over the bars is mapped to.
TimelinePositions == 0 .. TotalSeconds

\* handlePointerDown on the slot at s: one that failed is opened at its start.
ScrubDown(s) ==
  LET i == SlotIndexAtSeconds(s)
  IN  /\ MayPress
      /\ IF chunks[i].status = "failed"
         THEN /\ player' = [player EXCEPT !.anchor = i, !.override = StartTime(i)]
              /\ hist' = [hist EXCEPT !.presses = @ + 1, !.sought = [by |-> "press", n |-> 1 - @.n]]
              /\ scrub' = [scrub EXCEPT !.click = i]
         ELSE /\ hist' = [hist EXCEPT !.presses = @ + 1]
              /\ scrub' = [scrub EXCEPT !.held = TRUE, !.at = s, !.suppress = i]
              /\ UNCHANGED player
      /\ UNCHANGED <<chunks, wave, strip>>

ScrubMove(s) ==
  /\ scrub.held /\ s # scrub.at
  /\ scrub' = [scrub EXCEPT !.at = s]
  /\ UNCHANGED <<chunks, wave, strip>> /\ UNCHANGED <<player, hist>>

\* The seek is sent on release; the browser's click on the slot that was pressed
\* comes after it.
ScrubUp ==
  /\ scrub.held
  /\ LET at == Lesser(scrub.at, TotalSeconds)
     IN  Seek("timeline", SlotIndexAtSeconds(at), at)
  /\ scrub' = [scrub EXCEPT !.held = FALSE, !.at = 0, !.click = scrub.suppress,
                     !.scrubbed = scrub.suppress # -1]
  /\ UNCHANGED <<chunks, wave, strip>>

ScrubCancel ==
  /\ scrub.held
  /\ scrub' = [scrub EXCEPT !.held = FALSE, !.at = 0]
  /\ UNCHANGED <<chunks, wave, strip>> /\ UNCHANGED <<player, hist>>

\* handleActivate: a click, or a key on the slot.  The click of a scrub is the
\* one to be ignored.
Activate(i) ==
  /\ IF scrub.suppress = i
     THEN /\ scrub' = [scrub EXCEPT !.suppress = -1, !.click = -1, !.scrubbed = FALSE]
          /\ UNCHANGED <<player, hist>>
     ELSE /\ scrub' = [scrub EXCEPT !.click = -1, !.scrubbed = FALSE]
          /\ IF chunks[i].status = "failed" THEN UNCHANGED <<player, hist>> ELSE Seek("click", i, StartTime(i))
  /\ UNCHANGED <<chunks, wave, strip>>

Click  == scrub.click # -1 /\ Activate(scrub.click)
Key(i) == ~scrub.held /\ MayPress /\ Activate(i)

-----------------------------------------------------------------------------
Change ==
  /\ hist.changes < MaxChanges
  /\ \E i \in Slot : ChunkChanges(i)
  /\ hist' = [hist EXCEPT !.changes = @ + 1]
  /\ UNCHANGED <<strip, scrub, player>>

Hook == HookRuns /\ UNCHANGED <<strip, scrub, player, hist>>

Miss ==
  /\ hist.misses < MaxMisses /\ FetchDone(FALSE)
  /\ hist' = [hist EXCEPT !.misses = @ + 1]
  /\ UNCHANGED <<strip, scrub, player>>

Next ==
  \/ Change \/ Hook \/ Miss
  \/ Lands \/ Plays \/ DrawIdle
  \/ \E x \in -Reach .. Reach : PointerDown(x) \/ PointerMove(x)
  \/ PointerUp \/ PointerCancel \/ Frame
  \/ \E s \in TimelinePositions : ScrubDown(s) \/ ScrubMove(s)
  \/ ScrubUp \/ ScrubCancel \/ Click
  \/ \E i \in Slot : Key(i)

\* Fetches are answered and the page's effects run; nothing is assumed of users.
Spec == Init /\ [][Next]_conveyorVars /\ WF_conveyorVars(Hook)

-----------------------------------------------------------------------------
\* A press on the strip seeks at most once: after it was released, when the strip
\* is at rest and no pointer that it follows is down.  However the chunks change
\* while the strip is dragged, coasts and settles, it seeks to where it rests, or
\* to the end of what is rendered by then ("a commit that lands past the rendered
\* audio clamps to the boundary"), which is that of the document after a tap on a
\* chunk that had audio.  The click that ends a scrub does not seek again.
CommitAimed ==
  [][hist'.sought \notin {hist.sought, NoSeek} =>
       CASE hist'.sought.by = "strip" ->
              /\ hist.owed /\ strip.gesture.phase = "settling"
              /\ player'.override = Lesser(strip.shown, IF strip.gesture.allows THEN MaxVisualSeconds
                                                         ELSE MaxSeekSeconds)
         [] hist'.sought.by = "click" -> ~scrub.scrubbed
         [] OTHER -> TRUE]_conveyorVars
=============================================================================
