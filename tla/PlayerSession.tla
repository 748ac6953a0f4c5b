--------------------------- MODULE PlayerSession ---------------------------
(***************************************************************************)
(* The app-level player of the web client: the reader page that owns the   *)
(* document (features/reader/ReaderPage.tsx), the player store             *)
(* (player/player-store.ts), the provider that owns the audio element      *)
(* (player/PlayerProvider.tsx) and the playback half of                    *)
(* useMediaSourcePlayer (lib/media-source.ts).  Buffering, windowing and   *)
(* eviction are the subject of MediaStream; here a stream only grows.      *)
(*                                                                         *)
(* A written chunk lasts one unit, longer than every tolerance of the      *)
(* code, and other chunks last 0.  The effects React runs in the commit    *)
(* that follows a state change belong to the action that made the change   *)
(* (Commit).  What happens later is an action of its own: queued events of *)
(* the element, animation frames, the effect that resumes playback, and    *)
(* answers of the server.                                                  *)
(***************************************************************************)
EXTENDS Integers, Sequences, FiniteSets

CONSTANTS
  Jobs,        \* jobs of one folder in their order, 1 .. n
  Length,      \* Length[j]: chunks of job j
  EndFires,    \* external: may the element fire 'ended' at the end of a stream
  MaxClicks    \* bound: what the listener does

ASSUME SessionAssumption ==
  /\ IsFiniteSet(Jobs) /\ Jobs # {} /\ Jobs = 1 .. Cardinality(Jobs)
  /\ Length \in [Jobs -> Nat \ {0}]
  /\ EndFires \in BOOLEAN
  /\ MaxClicks \in Nat

VARIABLES
  srv,     \* the server: what is rendered, saved positions, heard chunks
  ui,      \* page, player store, hook with its element, queued events
  calls,   \* activations of a job the page or the mini-player awaits
  hist     \* history: what the listener asked for and what was played

vars == <<srv, ui, calls, hist>>

NoJob  == 0
NoSeek == -1
NoManifest == -1

Longest == CHOOSE n \in {Length[j] : j \in Jobs} : \A j \in Jobs : Length[j] <= n
Chunk   == 0 .. (Longest - 1)
Status  == {"none", "pending", "written", "failed"}

Page  == [job : Jobs \cup {NoJob},   \* NoJob: a page that is not the reader
          loaded : BOOLEAN,
          play : BOOLEAN,            \* ?play=1, not yet consumed
          known : [Chunk -> Status]]

Store == [job : Jobs \cup {NoJob}, terminal : BOOLEAN,
          chunks : {NoManifest} \cup (0 .. Longest),   \* length of the stream's manifest
          anchor : Chunk, offset : 0 .. Longest, duration : 0 .. Longest,
          seek : {NoSeek} \cup (0 .. 2 * Longest), intent : BOOLEAN]

Hook  == [open : BOOLEAN, key : (Jobs \cup {NoJob}) \X Chunk,
          buf : 0 .. Longest, time : 0 .. Longest, paused : BOOLEAN,
          snap : [time : 0 .. Longest, buf : 0 .. Longest, paused : BOOLEAN],
          playing : BOOLEAN, waiting : BOOLEAN, ended : BOOLEAN, blocked : BOOLEAN,
          due : BOOLEAN]             \* a dependency of the resume effect changed

MediaEvent == {"play", "pause", "waiting", "playing", "ended"}

UI == [page : Page, store : Store, hook : Hook, events : Seq(MediaEvent),
       pend : SUBSET Chunk,          \* pendingHeardRef
       gesture : BOOLEAN]            \* external: the browser lets audio play

ActivateCall == [job : Jobs, from : {"play", "seek"}]

-----------------------------------------------------------------------------
(* What the page derives from the chunks it knows *)

Unknown == [c \in Chunk |-> "none"]

Written(known)    == {c \in Chunk : known[c] = "written"}
Duration(known)   == Cardinality(Written(known))
Before(known, c)  == Cardinality({d \in Written(known) : d < c})
Terminal(known)   == \A c \in Chunk : known[c] # "pending"

\* contiguousReadyChunks: the written run from the anchor on.
RunLength(known, a) ==
  Cardinality({c \in Chunk : c >= a /\ \A d \in a .. c : known[d] = "written"})

ChunkAt(known, position) ==
  CHOOSE c \in Chunk :
    /\ known[c] # "none" /\ Before(known, c) <= position
    /\ \A d \in Chunk : known[d] # "none" /\ Before(known, d) <= position => d <= c

ResumePosition(known, saved) ==
  IF Terminal(known) /\ Duration(known) > 0 /\ saved >= Duration(known) THEN 0 ELSE saved

StartChunk(known, saved) ==
  LET place == ResumePosition(known, saved)
  IN  IF place = 0 THEN 0 ELSE ChunkAt(known, place)

Rendered(u)      == IF u.store.chunks = NoManifest THEN 0 ELSE u.store.chunks
Primed(u)        == u.hook.buf > 0
BufferedAhead(u) == u.hook.snap.buf > u.hook.time
Position(u)      == IF u.store.seek # NoSeek THEN u.store.seek
                    ELSE u.hook.snap.time + u.store.offset
AtJobEnd(position, duration) == duration > 0 /\ position >= duration

-----------------------------------------------------------------------------
(* The hook: element, snapshots, streams *)

Pause(u) ==
  IF u.hook.paused THEN u
  ELSE [u EXCEPT !.hook.paused = TRUE, !.events = Append(@, "pause")]

Play(u) ==
  IF ~u.hook.paused THEN u
  ELSE [u EXCEPT !.hook.paused = FALSE, !.hook.blocked = FALSE,
                 !.events = @ \o <<"play", IF u.hook.time < u.hook.buf
                                           THEN "playing" ELSE "waiting">>]

\* The playhead rests at the end of what is rendered of an unfinished job.
StoppedAtBoundary(u, now) ==
  /\ u.store.intent /\ ~u.store.terminal /\ Rendered(u) > 0
  /\ now.time >= Rendered(u) /\ now.buf <= now.time /\ now.time <= u.hook.snap.time

\* updatePlaybackState
Update(u, force) ==
  LET h == u.hook
      now == [time |-> h.time, buf |-> h.buf, paused |-> h.paused]
      advanced == now.time > h.snap.time
      terminalEnded ==
        /\ u.store.seek = NoSeek /\ u.store.intent /\ u.store.terminal
        /\ Rendered(u) > 0 /\ now.buf >= Rendered(u)
        /\ now.time > 0 /\ now.time >= now.buf /\ ~advanced
      boundary == StoppedAtBoundary(u, now)
  IN  IF terminalEnded
      THEN [Pause(u) EXCEPT !.hook.snap = now, !.hook.playing = FALSE,
                            !.hook.waiting = FALSE, !.hook.ended = TRUE]
      ELSE IF ~force /\ now = h.snap THEN u
      ELSE [u EXCEPT !.hook.snap = now,
                     !.hook.playing = ~now.paused /\ ~boundary /\ (advanced \/ @),
                     !.hook.waiting = boundary \/ (~now.paused /\ ~advanced /\ @)]

PausePlayback(u) == Update(Pause(u), TRUE)

\* Wrong variant: the events of the old stream are still delivered.
TearDownHalf(u) ==
  [u EXCEPT !.hook = [@ EXCEPT !.open = FALSE, !.buf = 0, !.time = 0, !.paused = TRUE,
                               !.ended = FALSE, !.blocked = FALSE]]

\* The clean-up of the stream effect.  Emptying the element drops the events
\* it had queued, the one of the pause before it included.
TearDown(u) ==
  [u EXCEPT !.hook = [@ EXCEPT !.open = FALSE, !.buf = 0, !.time = 0, !.paused = TRUE,
                               !.ended = FALSE, !.blocked = FALSE],
            !.events = <<>>]

\* The stream effect: a stream for the key of the store.
OpenStream(u) ==
  LET t == TearDown(u)
  IN  [t EXCEPT !.hook = [@ EXCEPT !.open = TRUE,
                                   !.key = <<u.store.job, u.store.anchor>>,
                                   !.snap = [time |-> 0, buf |-> 0, paused |-> TRUE],
                                   !.playing = FALSE, !.waiting = FALSE]]

Stream(u) ==
  CASE u.store.chunks = NoManifest /\ u.hook.open -> TearDown(u)
    [] u.store.chunks # NoManifest
       /\ ~(u.hook.open /\ u.hook.key = <<u.store.job, u.store.anchor>>) -> OpenStream(u)
    [] OTHER -> u

-----------------------------------------------------------------------------
(* The page hands its document to the player *)

SetSource(u) ==
  LET p == u.page
  IN  IF p.job = NoJob THEN u
      ELSE [u EXCEPT
        !.store.chunks   = IF p.loaded THEN RunLength(p.known, u.store.anchor) ELSE NoManifest,
        !.store.offset   = Before(p.known, u.store.anchor),
        !.store.duration = Duration(p.known)]

\* A reader page mounts: nothing is loaded yet.  The anchor stays: the effect
\* that resets it to 0 is undone by setSource, whose closure holds the old one.
OpenPage(u, j, play) ==
  Stream(SetSource([u EXCEPT !.page = [job |-> j, loaded |-> FALSE, play |-> play,
                                       known |-> Unknown]]))

\* openJob
OpenJob(u) ==
  LET j == u.page.job
      t == Terminal(u.page.known)
  IN  IF u.store.job = j THEN [u EXCEPT !.store.terminal = t]
      ELSE [u EXCEPT
        !.store = [job |-> j, terminal |-> t, chunks |-> NoManifest, anchor |-> 0,
                   offset |-> 0, duration |-> 0, seek |-> NoSeek,
                   intent |-> u.store.job = NoJob /\ @.intent]]

\* The effect that collects heard chunks: the manifest's starts count from the
\* anchor, the position from the start of the job.
ChunksPlayed(u) ==
  {c \in Chunk : /\ u.store.anchor <= c /\ c < u.store.anchor + u.store.chunks
                 /\ c - u.store.anchor + 1 <= u.hook.snap.time + u.store.offset}

CollectHeard(u) ==
  IF u.store.chunks = NoManifest \/ ~u.hook.playing \/ u.hook.waiting \/ u.store.seek # NoSeek
  THEN u
  ELSE [u EXCEPT !.pend = @ \cup ChunksPlayed(u)]

\* seekToSeconds
Place(u, t) ==
  LET h == u.hook
      news == IF h.paused THEN <<>>
              ELSE IF t = h.buf THEN <<"waiting">>
              ELSE IF h.time = h.buf THEN <<"playing">> ELSE <<>>
  IN  Update([u EXCEPT !.hook.time = t, !.hook.ended = FALSE, !.events = @ \o news], TRUE)

\* A position of the job, in the seconds of the stream.
StreamTime(u, position) == IF position > u.store.offset THEN position - u.store.offset ELSE 0

\* Wrong variant: the very end of the stream is not part of it.
ApplySeekStrict(u) ==
  LET target == StreamTime(u, u.store.seek)
  IN  IF u.store.seek = NoSeek \/ ~Primed(u) \/ target >= u.hook.snap.buf THEN u
      ELSE [Place(u, target) EXCEPT !.store.seek = NoSeek]

\* The effect that applies a pending seek once the stream holds its target.
ApplySeek(u) ==
  LET target == StreamTime(u, u.store.seek)
  IN  IF u.store.seek = NoSeek \/ ~Primed(u) \/ target > u.hook.snap.buf THEN u
      ELSE [Place(u, target) EXCEPT !.store.seek = NoSeek]

\* The playerState effect, which turns a stop at the rendered end into waiting.
MarkStalled(u) ==
  LET h == u.hook
  IN  [u EXCEPT !.hook.waiting =
         @ \/ /\ u.store.intent /\ ~u.store.terminal /\ Primed(u) /\ Rendered(u) > 0
              /\ h.snap.time >= Rendered(u) /\ h.snap.buf <= h.snap.time]

\* Wrong variant: the intent outlives the job.
ClearAtEndNever(u) == u

\* A terminal job whose playhead rests at the end has finished.
ClearAtEnd(u) ==
  [u EXCEPT !.store.intent =
     @ /\ ~(/\ u.store.terminal /\ ~u.hook.playing /\ Rendered(u) > 0
            /\ u.hook.snap.time >= Rendered(u))]

\* resolveAutoAdvance, with continuous play on.
NextJob(u) ==
  IF /\ u.store.job + 1 \in Jobs /\ u.store.terminal
     /\ AtJobEnd(u.store.offset + Rendered(u), u.store.duration)
  THEN u.store.job + 1 ELSE NoJob

\* Wrong variant: audio that arrives does not rerun the effect.
ResumeInputsUnbuffered(u) == <<u.hook.blocked, u.store.intent, u.store.seek>>

ResumeInputs(u) ==
  <<u.hook.snap.buf, u.hook.blocked, Primed(u), u.hook.waiting, u.store.intent, u.store.seek>>

HeardInputs(u) ==
  <<u.store.offset, u.hook.snap.time, u.hook.playing, u.hook.waiting, u.store.chunks>>

\* The last chunk of the job is settled: there is nothing left to wait for.
TurnsTerminal(u, v) ==
  IF v.store.terminal /\ ~u.store.terminal
  THEN Update([v EXCEPT !.hook.waiting = FALSE], TRUE) ELSE v

\* The effects of the commit in which state u became v.
Commit(u, v) ==
  LET a == Stream(SetSource(v))
      b == TurnsTerminal(u, a)
      m == MarkStalled(ApplySeek(b))
      c == ClearAtEnd(IF HeardInputs(m) # HeardInputs(u) THEN CollectHeard(m) ELSE m)
      d == [c EXCEPT !.hook.due = @ \/ ResumeInputs(c) # ResumeInputs(u)]
  IN  IF d.hook.ended /\ ~u.hook.ended /\ NextJob(d) # NoJob
      THEN OpenPage(d, NextJob(d), TRUE)
      ELSE d

\* syncPlayback: the position and the heard chunks.  A report that fails is
\* made up for by a later one: the chunks stay pending.
Report(u) ==
  /\ u.store.job # NoJob
  /\ \/ /\ srv' = [srv EXCEPT !.saved[u.store.job] = Position(u)]
        /\ ui' = [u EXCEPT !.pend = {}]
     \/ /\ ui' = u
        /\ UNCHANGED srv

\* The app as it starts: another page than the reader, or the reader of job j,
\* opened by its address and not yet loaded.
Arrived(j) ==
  [page  |-> [job |-> j, loaded |-> FALSE, play |-> FALSE, known |-> Unknown],
   store |-> [job |-> NoJob, terminal |-> FALSE, chunks |-> NoManifest, anchor |-> 0,
              offset |-> 0, duration |-> 0, seek |-> NoSeek, intent |-> FALSE],
   hook  |-> [open |-> FALSE, key |-> <<NoJob, 0>>, buf |-> 0, time |-> 0, paused |-> TRUE,
              snap |-> [time |-> 0, buf |-> 0, paused |-> TRUE], playing |-> FALSE,
              waiting |-> FALSE, ended |-> FALSE, blocked |-> FALSE, due |-> FALSE],
   events |-> <<>>, pend |-> {}, gesture |-> FALSE]

\* All jobs are rendered, each heard to its end or none of them, and the app
\* starts at the reader; or all but one are still to be rendered and it starts
\* elsewhere.
Init ==
  /\ \E full \in {Jobs} \cup {{j} : j \in Jobs}, done \in {Jobs, {}} :
       /\ done \subseteq full
       /\ srv = [status |-> [j \in Jobs |-> [c \in Chunk |->
                    IF c >= Length[j] THEN "none"
                    ELSE IF j \in full THEN "written" ELSE "pending"]],
                 saved  |-> [j \in Jobs |-> IF j \in done THEN Length[j] ELSE 0]]
       /\ ui = Arrived(IF full = Jobs THEN 1 ELSE NoJob)
  /\ calls = {}
  /\ hist = [clicks |-> 0, asked |-> "none", overrun |-> FALSE, earned |-> FALSE]

-----------------------------------------------------------------------------
(* The server *)

\* mark_chunk_written, mark_chunk_failed: the chunks of a job are settled in
\* order, as they are dispatched in order and a batch that fails is retried from
\* its first chunk; a chunk may fail for good.
Render(j) ==
  /\ \E c \in Chunk, outcome \in {"written", "failed"} :
       /\ srv.status[j][c] = "pending"
       /\ \A d \in Chunk : d < c => srv.status[j][d] # "pending"
       /\ srv' = [srv EXCEPT !.status[j][c] = outcome]
  /\ UNCHANGED <<ui, calls, hist>>

-----------------------------------------------------------------------------
(* The reader page and the controls *)

\* requestUserGesturePlay, the results it can have: the browser may refuse to
\* play as long as there was no gesture.
Attempts(u) ==
  IF ~Primed(u) \/ ~BufferedAhead(u) THEN {Update(u, TRUE)}
  ELSE {Play([u EXCEPT !.hook.blocked = FALSE])}
       \cup (IF u.gesture THEN {} ELSE {[u EXCEPT !.hook.blocked = TRUE]})

\* handlePlay: an unfinished job is activated before anything plays.
Plays(u) ==
  LET v == [u EXCEPT !.store.intent = TRUE]
  IN  IF u.store.terminal THEN Attempts(v) ELSE {v}

Activates(u, from) ==
  IF u.store.terminal THEN calls ELSE calls \cup {[job |-> u.store.job, from |-> from]}

\* The answer a mounted page waited for: openJob, setSource and the restored
\* position in one commit, with the anchor of the render before it; then ?play=1.
CanLoad == ui.page.job # NoJob /\ ~ui.page.loaded

LoadPage ==
  /\ CanLoad
  /\ LET j == ui.page.job
         known == srv.status[j]
         place == ResumePosition(known, srv.saved[j])
         opened == OpenJob([ui EXCEPT !.page = [@ EXCEPT !.loaded = TRUE, !.known = known,
                                                         !.play = FALSE]])
         placed == IF place = 0 THEN [opened EXCEPT !.store.anchor = ui.store.anchor]
                   ELSE [opened EXCEPT !.store.anchor = ChunkAt(known, place),
                                       !.store.seek = place]
     IN  /\ \E v \in IF ui.page.play THEN Plays(placed) ELSE {placed} : ui' = Commit(ui, v)
         /\ calls' = IF ui.page.play THEN Activates(placed, "play") ELSE calls
         /\ hist' = [hist EXCEPT !.earned = FALSE,
                                 !.asked = IF ui.page.play THEN "play" ELSE @,
                                 !.overrun = @ /\ ~ui.page.play]
  /\ UNCHANGED srv

\* A later refresh or event brings the page up to date.
CanSync == ui.page.loaded /\ ui.page.known # srv.status[ui.page.job]

\* The page takes over what the server has.
Synced(u) ==
  LET v == OpenJob([u EXCEPT !.page.known = srv.status[u.page.job]])
  IN  [v EXCEPT !.store.anchor = IF v.page.known[@] = "none" THEN 0 ELSE @]

SyncPage ==
  /\ CanSync
  /\ ui' = Commit(ui, Synced(ui))
  /\ UNCHANGED <<srv, calls, hist>>

Click == /\ hist.clicks < MaxClicks

Clicked(h) == [h EXCEPT !.clicks = @ + 1]

\* A link: a page of the app other than the reader, or the reader of a job,
\* asked to play by the link or because the player was.
Navigate ==
  /\ Click
  /\ \E j \in (Jobs \cup {NoJob}) \ {ui.page.job}, play \in BOOLEAN :
       /\ j = NoJob => ~play
       /\ ui' = IF j = NoJob
                THEN [ui EXCEPT !.page = [job |-> j, loaded |-> FALSE, play |-> FALSE,
                                          known |-> Unknown]]
                ELSE Commit(ui, OpenPage(ui, j, play))
  /\ hist' = Clicked(hist)
  /\ UNCHANGED <<srv, calls>>

\* The reader's controls work on a loaded document, the mini-player's elsewhere.
HasControls == ui.page.loaded \/ (ui.page.job = NoJob /\ ui.store.job # NoJob)

\* handleTogglePlay, when nothing plays or is meant to.
PressPlay ==
  /\ Click /\ HasControls /\ ~ui.store.intent /\ ~ui.hook.playing
  /\ \E v \in Plays([ui EXCEPT !.gesture = TRUE]) : ui' = Commit(ui, v)
  /\ calls' = Activates(ui, "play")
  /\ hist' = [Clicked(hist) EXCEPT !.asked = "play", !.overrun = FALSE]
  /\ UNCHANGED srv

\* handleTogglePlay otherwise.
PressPause ==
  /\ Click /\ HasControls /\ (ui.store.intent \/ ui.hook.playing)
  /\ ui' = Commit(ui, [PausePlayback(ui) EXCEPT !.store.intent = FALSE, !.gesture = TRUE])
  /\ hist' = [Clicked(hist) EXCEPT !.asked = "pause",
                !.overrun = "play" \in {ui.events[i] : i \in DOMAIN ui.events}]
  /\ UNCHANGED <<srv, calls>>

\* handleReplay, on the card shown at the end.
Replay ==
  /\ Click /\ ui.page.loaded /\ ui.store.terminal /\ ~ui.hook.playing
  /\ AtJobEnd(Position(ui), ui.store.duration)
  /\ \E v \in Attempts([ui EXCEPT !.store.anchor = 0, !.store.seek = 0,
                                   !.store.intent = TRUE, !.gesture = TRUE]) :
        ui' = Commit(ui, v)
  /\ hist' = [Clicked(hist) EXCEPT !.asked = "play", !.overrun = FALSE, !.earned = TRUE]
  /\ UNCHANGED <<srv, calls>>

\* handleSeekToChunk
SeekTo(c, position) ==
  LET u == [ui EXCEPT !.store.anchor = c, !.store.seek = position, !.gesture = TRUE]
      loaded == Primed(ui) /\ StreamTime(ui, position) <= ui.hook.buf
      v == IF c = ui.store.anchor /\ ~loaded THEN OpenStream(u) ELSE u
  IN  /\ IF ui.store.intent /\ ui.store.terminal
         THEN \E w \in Attempts(v) : ui' = Commit(ui, w)
         ELSE ui' = Commit(ui, v)
      /\ calls' = IF ui.store.intent THEN Activates(ui, "seek") ELSE calls
      /\ hist' = [Clicked(hist) EXCEPT !.earned = TRUE]
      /\ UNCHANGED srv

SeekChunk ==
  /\ Click /\ ui.page.loaded
  /\ \E c \in Chunk : ui.page.known[c] # "none" /\ SeekTo(c, Before(ui.page.known, c))

\* What the keys and the buttons skip by: some seconds, one unit here.
Deltas == {-1, 1}

\* skipTargetSeconds
SkipTarget(u, delta) ==
  LET t == u.hook.snap.time + delta
  IN  IF t < 0 THEN 0 ELSE IF t > Rendered(u) THEN Rendered(u) ELSE t

\* Where a skip goes that does not leave the stream: no further than what is
\* appended.
SkipWithin(t) ==
  /\ ui' = Commit(ui, [Place(ui, IF t <= ui.hook.buf THEN t ELSE ui.hook.buf)
                          EXCEPT !.gesture = TRUE])
  /\ hist' = [Clicked(hist) EXCEPT !.earned = TRUE]
  /\ UNCHANGED <<srv, calls>>

\* handleSkip: of a stream that holds nothing the page seeks to the chunk.
Skip ==
  /\ Click /\ ui.page.loaded /\ Rendered(ui) > 0
  /\ \E delta \in Deltas :
       LET t == SkipTarget(ui, delta)
       IN  IF Primed(ui) THEN SkipWithin(t)
           ELSE SeekTo(ChunkAt(ui.page.known, t + ui.store.offset), t + ui.store.offset)

\* The mini-player's skip, away from the reader.
MiniSkip ==
  /\ Click /\ ui.page.job = NoJob /\ ui.store.job # NoJob /\ Rendered(ui) > 0
  /\ \E delta \in Deltas : SkipWithin(SkipTarget(ui, delta))

\* handleVoiceChange with a full re-render: every chunk is planned again and the
\* audio epoch, part of the stream's key, moves on.
Revoice ==
  /\ Click /\ ui.page.loaded
  /\ LET j == ui.page.job
         again == [c \in Chunk |-> IF c < Length[j] THEN "pending" ELSE "none"]
         u == [PausePlayback(ui) EXCEPT !.store.intent = FALSE, !.store.seek = NoSeek,
                 !.store.anchor = 0, !.gesture = TRUE, !.page.known = again]
     IN  /\ srv' = [srv EXCEPT !.status[j] = again]
         /\ ui' = Commit(ui, OpenStream(OpenJob(u)))
         /\ hist' = [Clicked(hist) EXCEPT !.asked = "pause",
                !.overrun = "play" \in {ui.events[i] : i \in DOMAIN ui.events}]
  /\ UNCHANGED calls

\* The listener waits for audio, and none came for RENDERING_STALL_SECONDS.
Stalled(u) == u.store.intent /\ ~u.store.terminal /\ u.hook.waiting

\* handleRetryRender: a refresh and an activation, whose answer is merged.
RetryRender ==
  /\ Click /\ ui.page.loaded /\ Stalled(ui)
  /\ ui' = Commit(ui, Synced([ui EXCEPT !.gesture = TRUE]))
  /\ hist' = Clicked(hist)
  /\ UNCHANGED <<srv, calls>>

\* The activation is answered, or fails.
Activated ==
  /\ \E call \in calls :
       /\ calls' = calls \ {call}
       /\ \/ /\ \E v \in Attempts(ui) : ui' = Commit(ui, v)
             /\ hist' = [hist EXCEPT !.overrun = @ \/ ~ui.store.intent]
          \/ /\ ui' = Commit(ui, [ui EXCEPT !.store.intent = FALSE,
                                  !.store.seek = IF call.from = "seek" THEN NoSeek ELSE @])
             /\ UNCHANGED hist
  /\ UNCHANGED srv

-----------------------------------------------------------------------------
(* The element and the hook *)

\* The next chunk of the manifest is appended to the stream.
CanAppend == ui.hook.open /\ ui.hook.buf < Rendered(ui)

AppendChunk ==
  /\ CanAppend
  /\ LET stalled == ~ui.hook.paused /\ ui.hook.time = ui.hook.buf
         u == [ui EXCEPT !.hook.buf = @ + 1,
                         !.events = IF stalled THEN Append(@, "playing") ELSE @]
     IN  ui' = Commit(ui, Update(u, TRUE))
  /\ UNCHANGED <<srv, calls, hist>>

\* A chunk is played; a frame has been drawn since the one before.
CanPlay == ~ui.hook.paused /\ ui.hook.time < ui.hook.buf /\ ui.hook.time = ui.hook.snap.time

PlayChunk ==
  /\ CanPlay
  /\ LET u == [ui EXCEPT !.hook.time = @ + 1]
         atEnd == u.hook.time = u.hook.buf
     IN  \/ ui' = IF atEnd THEN [u EXCEPT !.events = Append(@, "waiting")] ELSE u
         \/ /\ EndFires /\ atEnd /\ u.hook.buf = Rendered(u)
            /\ ui' = [u EXCEPT !.hook.paused = TRUE, !.events = @ \o <<"pause", "ended">>]
  /\ hist' = [hist EXCEPT !.earned = TRUE]
  /\ UNCHANGED <<srv, calls>>

\* An animation frame.
CanTick ==
  /\ ui.store.intent \/ ui.hook.playing \/ ui.hook.waiting
  /\ Commit(ui, Update(ui, FALSE)) # ui

Tick ==
  /\ CanTick
  /\ ui' = Commit(ui, Update(ui, FALSE))
  /\ UNCHANGED <<srv, calls, hist>>

\* Wrong variant: whatever is buffered is played.
ResumeAlways ==
  /\ ui.hook.due
  /\ LET u == [ui EXCEPT !.hook.due = FALSE]
         ready == ~u.hook.blocked /\ u.store.seek = NoSeek /\ Primed(u) /\ BufferedAhead(u)
     IN  \E v \in IF ready THEN Attempts(u) ELSE {u} : ui' = Commit(u, v)
  /\ UNCHANGED <<srv, calls, hist>>

\* The effect that resumes playback once there is audio.
Resume ==
  /\ ui.hook.due
  /\ LET u == [ui EXCEPT !.hook.due = FALSE]
         ready == /\ u.store.intent /\ ~u.hook.blocked /\ u.store.seek = NoSeek
                  /\ Primed(u) /\ BufferedAhead(u) /\ (u.hook.paused \/ u.hook.waiting)
     IN  \E v \in IF ready THEN Attempts(u) ELSE {u} : ui' = Commit(u, v)
  /\ UNCHANGED <<srv, calls, hist>>

\* The handlers of the element's events, the hook's and the provider's.
Handled(u, event) ==
  LET h(playing, waiting, ended, blocked) ==
        Update([u EXCEPT !.hook = [@ EXCEPT !.playing = playing, !.waiting = waiting,
                                            !.ended = ended, !.blocked = blocked]], TRUE)
      k == u.hook
      done == Rendered(u) > 0 /\ (u.store.terminal \/ k.time < Rendered(u))
  IN  CASE event = "play" -> [h(TRUE, FALSE, FALSE, FALSE) EXCEPT !.store.intent = @ \/ u.store.terminal]
        [] event = "pause" -> [h(FALSE, k.waiting, k.ended, k.blocked)
                                 EXCEPT !.store.intent = @ /\ ~u.store.terminal]
        [] event = "waiting" -> h(FALSE, TRUE, k.ended, k.blocked)
        [] event = "playing" -> h(TRUE, FALSE, FALSE, FALSE)
        [] event = "ended" -> [h(FALSE, k.waiting, u.store.terminal, k.blocked)
                                 EXCEPT !.store.intent = @ /\ ~done]

Deliver ==
  /\ ui.events # <<>>
  /\ LET event == Head(ui.events)
         u == [ui EXCEPT !.events = Tail(@)]
         v == Commit(u, Handled(u, event))
     IN  IF event = "playing" THEN ui' = v /\ UNCHANGED srv ELSE Report(v)
  /\ UNCHANGED <<calls, hist>>

\* The reports of the interval, of an applied seek and of a page that is hidden.
Flush ==
  /\ Report(ui)
  /\ UNCHANGED <<calls, hist>>

\* What happens without the listener: the browser's tasks and frames, React's
\* effects, and the answers to requests.
System ==
  \/ LoadPage \/ SyncPage \/ Activated
  \/ AppendChunk \/ PlayChunk \/ Tick \/ Resume \/ Deliver

Next ==
  \/ \E j \in Jobs : Render(j)
  \/ Navigate \/ PressPlay \/ PressPause \/ Replay \/ SeekChunk \/ Skip \/ MiniSkip \/ Revoice
  \/ RetryRender
  \/ System \/ Flush

CanStep ==
  \/ CanLoad \/ CanSync \/ calls # {} \/ CanAppend \/ CanPlay \/ CanTick
  \/ ui.hook.due \/ ui.events # <<>>

\* WF_vars(System) with its enabling condition written out.
Fairness == []<>~CanStep \/ []<><<System>>_vars

Spec == Init /\ [][Next]_vars /\ Fairness

-----------------------------------------------------------------------------
\* The shape of the state; in particular the hook never buffers past the
\* longest job and the playhead never leaves it.
TypeOK ==
  /\ srv \in [status : [Jobs -> [Chunk -> Status]], saved : [Jobs -> 0 .. 2 * Longest]]
  /\ ui \in UI
  /\ calls \subseteq ActivateCall

\* resolveAutoAdvance leaves a job only after something of it was played or the
\* listener moved within it: opening a finished job never flips past it.
AdvanceEarned ==
  [][ui'.page.job # ui.page.job /\ hist'.clicks = hist.clicks => hist'.earned]_vars

\* After the listener's last word was pause, no effect, frame or event of the
\* element starts the audio or the intent again.  The exceptions, named by
\* overrun, are a play event that was already queued and the answer to an
\* activation, after which handlePlay plays without looking at the intent.
PauseHolds ==
  hist.asked = "pause" /\ ~hist.overrun => ui.hook.paused /\ ~ui.store.intent

\* A wish to play that has reached the end of a finished job is dropped, by the
\* hook, by the element's ended event or by the provider's effect: it never
\* keeps the player "playing" with nothing left to play.
SettlesAtEnd ==
  (/\ ui.store.intent /\ ui.store.terminal /\ ui.store.seek = NoSeek
   /\ Rendered(ui) > 0 /\ ui.hook.time >= Rendered(ui))
  ~> (~ui.store.intent \/ ui.hook.time < Rendered(ui) \/ Rendered(ui) = 0)

\* A wish to play that the browser does not block reaches the end of what is
\* rendered: every stall, restart of the stream and late chunk is resumed by
\* the effect on playerState.
PlaysOn ==
  (ui.store.intent /\ ui.store.seek = NoSeek /\ ui.hook.time < Rendered(ui))
  ~> (\/ ui.hook.time >= Rendered(ui)
      \/ ~ui.store.intent \/ ui.hook.blocked \/ ui.store.seek # NoSeek)

\* A pending seek whose target the stream's manifest holds is applied, its very
\* end included; until then the position shown and saved is the target.
SeekLands ==
  (ui.store.seek # NoSeek /\ Rendered(ui) > 0 /\ StreamTime(ui, ui.store.seek) <= Rendered(ui))
  ~> (ui.store.seek = NoSeek \/ Rendered(ui) = 0 \/ StreamTime(ui, ui.store.seek) > Rendered(ui))

\* What resumePositionSeconds is documented to decide, "where playback should
\* start when a job is opened": the stream of a job just opened is anchored at
\* the chunk of its saved position, at its first chunk without one.
OpensAtResume ==
  [][ui'.page.loaded /\ ~ui.page.loaded /\ ui.store.job # ui.page.job =>
       ui'.store.anchor = StartChunk(srv.status[ui.page.job], srv.saved[ui.page.job])]_vars
=============================================================================
