# A verification project for readflow

readflow turns long texts into narrated audio. A FastAPI server keeps the
library, cuts each text into chunks, and renders them on one GPU through a
scheduler loop; a React client streams the finished chunks through a
`MediaSource`, follows the server over a WebSocket, and reports what was heard.

This directory models the parts of server and client in which an ordering, a
failure or a deadline decides whether a text is narrated completely, once and
in the right voice, whether the library survives any sequence of edits, and
whether the client plays, shows and sends what its user means. TLC checks the
models on small instances; TLAPS proves most of their safety properties for
every size: those of the render queue, the model's lifecycle, the library, the
live feed and the admin page.

Files: a module per component (below), `*MC.tla` (values for model checking),
`*.cfg` (one per run), `*Proofs.tla` (theorems), `PROJECT.json` (components,
runs, mutants, map to the source, findings, hazards, theorems). Source paths
below are relative to `src/`.

## The system

| Component | State | Operations | Talks to |
| --- | --- | --- | --- |
| Job aggregate (`server/app/jobs`) | job rows: status, plan version, chunk takes, active version per index, cached counters | create, plan, mark rendering / written / failed / retry / planned, set voice, add and switch version, activate, pause, resume, playback | scheduler, API, library (same rows) |
| Scheduler (`server/app/scheduler/service.py`) | ranked chunks and the batch in flight, stall clock, warnings, residency | tick: expire listeners, plan ahead, rank, probe memory, dispatch, apply results, requeue; supervise | job aggregate, worker, model manager, hub |
| Recovery (`scheduler/recovery.py`) | attempts so far | plan a reset or an unload with back-off | scheduler |
| Model manager, provider, worker (`server/app/synthesis`) | model state, loaded ids, one-thread executor, prompt cache | load, unload, synthesize, reset, mark busy / idle / error, idle unload | scheduler tick, admin endpoints, one native thread |
| Library (`server/app/library/service.py`, `tree.py`) | folders, job positions, trash entries | create, reorder, move, delete, delete folder only, restore, purge | job rows |
| Listening progress (`library/progress*.py`, `playback.py`) | position, heard chunk versions, audio epoch | record, mark read, up-next | jobs, scheduler (folder warming) |
| Database (`server/app/db/memory.py`) | tables of shared objects, undo journal | transaction, commit, roll back | everything above |
| Planner (`server/app/chunking`) | cursor in the job | next piece of text | scheduler |
| API, hub (`server/app/api`, `core/hub.py`) | WebSocket connections | HTTP commands, broadcasts bounded by a timeout | all services |
| Media store (`server/app/media`) | files | write segments, peaks, export | worker, API |
| Live client, store (`web/src/lib/live-client.ts`, `state/store.ts`) | socket, snapshot, reconnect and stale timers | connect, merge snapshot, apply event | API |
| Media stream (`web/src/lib/media-source.ts`, `media-window.ts`) | append queue, window cursor, source buffer | fill window, append, evict, seek, restart | media endpoints, player |
| Player, reader (`web/src/player`, `features/reader`) | session, position, auto-advance | play, seek, advance, report heard | media stream, API |
| Pages (`features/library`, `features/admin`, `features/jobs`) | forms | call the API | API |

Server code runs on one asyncio loop, client code on one browser task queue:
between two awaits nothing else of the same process runs, so an action is the
code between two awaits, with the effects React runs in the commit that follows
a state change. What is hard lies across awaits (the memory probe, the batch on
the GPU, each broadcast, each fetch and append), in the worker thread that
cannot be interrupted, in deadlines, resets and restarts that race late
answers, in events that are lost or overtaken by the answers of requests, and
in long sequences of legal commands.

## Modules and their correspondence to the code

### JobAggregate: one job

A job is a record. `takes` maps `<<index, version>>` to a take (`ChunkRecord`)
with its status, plan version, voice, `deprecated` flag and attempts; a slot
with status "none" holds no record. Each operator is one `JobManager` method
applied to the whole record, trailing `_refresh_derived` and `_settle_status`
included. The cached counters are abstracted to the set of indices they were
computed from (`counted`); when a path forgets the refresh the set is stale.
Statuses that no code path assigns are absent, and `TypeOK` checks that.

### RenderQueue: jobs, the tick and its users

`phase` is where the scheduler task is suspended: `idle`, `probing` (memory
probe), `rendering` (batch on the GPU), `applying` (broadcast after each
result). `ranked` is the list held across the probe, `batch` what is in flight,
`results` what the worker returned. The dispatch policy is left open: any
nonempty part of one (model, voice) group up to `MaxBatch` may be dispatched, so
what holds here holds for every policy. `stranded` is a history variable: takes
that a requeue loop never reached because it raised. User commands are the
handlers of `api/router.py`; `Trash`, `Restore` and `Remove` are the library's
as far as the queue sees them. A constant, `Commands`, selects what users send.
`HeldBack` is the lookahead cap (`service.py:424-433`): with `Lookahead` a job
that has audio may be held back for any cycle, whatever its chunks last;
without it `render_ahead_seconds` is 0, the default.

### ModelLifecycle: the resident model and its thread

`state` and `loaded` are the manager's, `held` is the provider's, `queue` and
`started` the single-worker executor, `zombies` the calls still running on
executors that a reset replaced, `done` the answers the loop has not delivered
yet, `pc` where each caller (the tick, admin requests) is suspended. Deadlines
(`TimesOut`) withdraw a queued call or orphan a running one. Answers are
delivered in the order they came: each takes the same hops through the loop.
Calls that nobody awaits and that are alike are merged, and may finish again.
`missed` is a history variable: the provider was last changed by a call whose
caller had given up, or a reset overtook a finished load. `meddled` is another:
an admin's warm or evict was open when the thread began its call, or was sent
since.

### Library: the tree and the trash

One record per folder or job (`parent`, `position`, where it is, and its trash
entry), one action per method of `LibraryService`. A subtree is the least set
closed under live children, which is what the code's stack walk computes.
Re-indexing gives an item its rank among its siblings. A trash entry is named
by its root item: an item is the root of at most one entry at a time.

### MediaStream: the window of audio in the browser

`st` is the hook's refs (append queue, window cursor, locks, indexes appended),
the SourceBuffer as the sequence of chunks it holds, and the asynchronous calls
that are out: each remembers the stream it belongs to (`gen`), which the code
cannot see. A step of a call is the code between two awaits of
`processQueue`, `recoverFromBufferQuota` or `evictPlayedAudio`. `OpenStream` is the
restart of the stream effect; old calls go on, as they do in the code.
`crossed` is a history variable: a call of an older stream resumed in a new one.

### PlayerSession: the one player

`ui` has a part per owner: `page` (the reader page and the document it knows),
`store` (player-store), `hook` (element and playback half of
`useMediaSourcePlayer`), the queued `events` of the element, heard chunks to
report. `Commit` runs the effects in the code's order: source, stream, terminal
job, pending seek, stall, end, heard chunks, auto-advance. `calls` are
activations the server has not answered. A written chunk lasts one unit.

### LiveFeed and LiveLink: following the server

`app` is the live client with its timers and sockets, the store's status, and
the page with its requests; `srv` the job on the server; `calls` answers to
commands of the page. A detail and a manifest are two requests, read by the
server at different moments. `LiveLink` is the abstract specification of the
client (a link is off, being made, or on) and `LiveFeed!LinkRefines` is the
refinement: the retaining page is `wanted`, the store's status is the link.

### Shelf, Console, Pages: the pages that send commands

`Shelf` EXTENDS `Library`: the page's commands are served by the actions of the
server's library, in an order the page does not decide. `tasks` are requests at
their stages (sent, served, read, answered), `page` what is mounted: snapshot,
selection, dialog, drag, refresh timer. `Console` is the admin page: `queue`
the server, `con` the store and the tab, `asks` the requests. `Pages` is the
router, which mounts one of them at a time.

### Waveforms, Conveyor, Timeline: the strip

`Waveforms` is the hook that fetches peaks one after the other while chunks
change. `Conveyor` extends it with the two controls that seek; a pixel is a
second. `Timeline` has the pure functions of the reader as operators and
recursive functions; `ConveyorMC` compares them with definitions that do not
compute (the assumptions `IndexIsLastBegun` to `TextIsWhole`, evaluated by run
Strip over all bounded inputs), and `ConveyorProofs` proves them for inputs of
any size.

Where the client's modules have steps of the server (chunks that are written,
takes that are replaced, commands that are served, ticks and broadcasts), these
are mapped to the server's code. External are the browser, the network and the
listener: `Settles`, `Cut`, `Drop`, `CanPlay`, `Plays` and the like.

## What is checked

Bounds are in the `.cfg` files. Deadlock checking is off everywhere: a server
with no jobs and no requests may rest, and so may a page nobody touches.

| Run | Instance | Properties | Result |
| --- | --- | --- | --- |
| Takes | 1 job, 2 chunks, 2 takes each, 2 voices, partial and full voice changes, switches to any take, lookahead cap, 1 attempt | TypeOK, OneLiveTake, DerivedFresh, CompletionIsEarned, OrphanedBySwitchOnly, WrittenStaysWritten | pass, @Takes |
| TwoJobs | 2 jobs, 1 chunk, 2 voices, partial and full voice changes, 2 attempts, deletions | FlightIsRendering, AttemptBudget, RenderingHasWork, PauseSticky, SupersededIsRevoiced | pass, @TwoJobs |
| Progress | 2 jobs, 2 chunks planned 1 ahead, batches of 2, 1 attempt, voice changes, purges, pauses, fairness | RendersToEnd, PausedJobStops | pass, @Progress |
| Lifecycle | 2 models, 1 admin, every admin command | TypeOK, NoLostCall, StateIsHonest, ManagerAgrees, SpareStuckThread | pass, @Lifecycle |
| Breaker | 1 model, batch of 2, 1 admin, every admin command, fairness | BreakerIsReset | pass, @Breaker |
| Library | 3 folders, 1 job, lists of up to 2, deletion of live and trashed jobs | RootedTree, DistinctPositions, EntriesIntact, BundleStaysWhole, OrderKept | pass, @Library |
| Media | 3 chunks of 2 s, quota 4 s, 1 restart, 5 calls | PrefixUnlessCrossed, NothingLost | pass, @Media |
| Player | 2 jobs of 2 and 1 chunks, 2 clicks | PauseHolds, AdvanceEarned, SettlesAtEnd, PlaysOn, SeekLands | pass, @Player |
| Feed | 2 chunks, 1 retry, 2 upsets | OneLink, LinkRefines, CatchesUp | pass, @Feed |
| Pages | 2 folders, 2 jobs, 2 chunks; 4 library and 4 admin openings | ServedAsMeant, NewJobShows, DraftBelongs, QueueFollows | pass, @Pages |
| Strip | 2 chunks of up to 2 s, 3 changes, 2 presses | CommitAimed, PeaksArrive | pass, @Strip |
| StaleAnchor | as Player | OpensAtResume | violated, see Findings |

The runs of RenderQueue send every form of the commands they name: a switch may
name any version there is, a voice change is partial (the API's default) or
full. `SYMMETRY` (jobs and voices alike) is used in Takes and TwoJobs, which
check no liveness; without it Progress has no room for a second version, so
`RendersToEnd` was also checked for one job of two chunks, planned one ahead,
with two takes each and two attempts: reprocessed and re-voiced in part or in
full between two voices (325,453 states), and reprocessed, switched to any take
and paused (66,448).

Why the bounds are enough to be interesting. A take's fate depends on its
status, its plan against the job's, and whether it is live; two versions, two
plans and two voices give every combination, two chunks let one be in flight
while another waits, and with `PlanAhead` 1 the second is planned only after
the first has left the queue. Batches mix jobs only with two jobs: there a
purged job makes the requeue loop raise before the other job's take is reached.
Attempts 1 and 2 are the boundary and one above it; a third plan version is
what a second voice change during a flight needs. In Progress a failed chunk is given up at once, and must not use up the
plan-ahead: otherwise the second chunk would never be planned. The executor queue needs the tick and one admin;
with resets it still produces abandoned threads of two generations. Three
folders are what a nested selection with a third folder as its destination
needs; two folders with two jobs were checked as well.

Media: the quota is two chunks of three, so the third needs an eviction, and
with a lookahead of three seconds a second refill; one restart is two streams,
the old one's calls included; five calls leave room for those of two
streams. Player: auto-advance needs two jobs, a gap or an anchor other than
0 needs two chunks; two clicks give every pair of commands at any moment of
rendering, where one job is to be rendered and the other is done; a full
re-render makes both unfinished. Where both are done the app starts at the
reader, so that a click is left for the mini-player after leaving it. Feed: two chunks distinguish behind from done; an upset is a lost,
refused or muted connection, a failed request, a restart, a re-render or a
change of page, and two of them give every pair (drop and re-render, leave and
come back). Pages: the openings in `PagesMC` each leave a budget where it
matters: nested rows, siblings with the same position, a trash with a folder
in it, a job that renders while others create. Strip: two chunks give a gap
before or after the audio; three changes are render, reprocess and re-render of
a chunk while its neighbour is fetched.

Every property has a mutant: a plausible wrong version of one mapped operator
under which TLC finds the property violated (`PROJECT.json`, and the operators
marked "Wrong variant").

### Fairness

`RenderQueue!FairSpec`: ticks recur (`run_forever` sleeps a bounded time and
goes on), and a probe, a batch and a broadcast end: each has a deadline or is
bounded by one (`worker.py:157-183`, `hub.py:15`). `RendersToEnd` assumes two
more things, stated as `TurnFairness` inside the property and not in the
specification: the dispatch policy gives each job with ranked work a turn again
and again, and its batches do not all end in a model that cannot be loaded.
Neither is guaranteed by this module. No fairness is assumed of users. What
`RendersToEnd` says of a job holds once nobody pauses or trashes it and none of
its live takes is stranded or orphaned (`Undisturbed`); the observations say
how that comes about.

`ModelLifecycle!FairSpec`: the event loop runs what is ready, ticks recur and
deadlines expire. Nothing is assumed of the thread: `ThreadFinishes` may never
happen, which is the case the circuit breaker exists for.

The client's specifications assume that the browser runs what is queued
(events, timers, effects, frames) and that requests are answered or fail.
Nothing is assumed of users, of rendering, or that a connection stays. Weak
fairness of a union of such steps is written with its enabling condition
spelled out (`[]<>~CanStep \/ []<><<System>>_vars`), which is the same
condition and cheaper to check. One condition per component is enough because
each of the steps uses up what enables it. Media has no liveness property:
what continues a stream is the listener's progress.

## What is proved

The theorems hold for every value of the constants that satisfies the modules'
named assumptions, which TLC evaluates in every run. Each is preceded by an
inductive invariant, `IInv` (of Pages, `ShelfInv` and `ConsoleInv`), and a
theorem or lemma that it is one.

| Module | Theorem | Statement |
| --- | --- | --- |
| RenderQueueProofs | TypeCorrect | `Spec => []TypeOK` |
| | FlightsMatchRows | `Spec => []FlightIsRendering` |
| | LiveTakeIsUnique | `Spec => []OneLiveTake` |
| | DerivedStateIsFresh | `Spec => []DerivedFresh` |
| | AttemptsAreBudgeted | `Spec => []AttemptBudget` |
| | CompletionIsReal | `Spec => CompletionIsEarned` |
| | SwitchesOrphanOnly | `Spec => OrphanedBySwitchOnly` |
| | AudioIsKept | `Spec => WrittenStaysWritten` |
| | PauseIsSticky | `Spec => PauseSticky` |
| | RenderingIsHonest | `Spec => []RenderingHasWork` |
| | SupersededTakesAreRevoiced | `Spec => SupersededIsRevoiced` |
| ModelLifecycleProofs | TypeCorrect | `Spec => []TypeOK` |
| | NoCallIsLost | `Spec => []NoLostCall` |
| | StateStaysHonest | `Spec => []StateIsHonest` |
| | ManagerStaysAgreed | `Spec => []ManagerAgrees` |
| | StuckThreadIsSpared | `Spec => SpareStuckThread` |
| LibraryProofs | TreeStaysRooted | `Spec => []RootedTree` |
| | PositionsStayDistinct | `Spec => []DistinctPositions` |
| | EntriesStayIntact | `Spec => []EntriesIntact` |
| | BundlesStayWhole | `Spec => BundleStaysWhole` |
| | OrderStaysKept | `Spec => OrderKept` |
| LiveFeedProofs | OneLinkHolds | `Spec => []OneLink` |
| | LinkIsImplemented | `Spec => Abstract!Init /\ [][Abstract!Next]_(Abstract!vars)` |
| MediaStreamProofs | StreamStaysPrefix | `Spec => []PrefixUnlessCrossed` |
| | NothingGetsLost | `Spec => []NothingLost` |
| PagesProofs | CommandsDoAsMeant | `PagesSpec => ServedAsMeant` |
| | DraftsStayTheirs | `PagesSpec => []DraftBelongs` |
| PlayerSessionProofs | TypeCorrect | `Spec => []TypeOK` |
| | PauseIsKept | `Spec => []PauseHolds` |
| | AdvanceIsEarned | `Spec => AdvanceEarned` |
| ConveyorProofs | CommitsStayAimed | `Spec => CommitAimed` |
| | SlotIndexesAgree, VisibleSlotsOverlap, HighlightIsAtPlayhead | the scan, the searches and the highlight agree on the slots |
| | PeaksSurvivePooling | `MaxPool` loses no peak and makes none up |
| | TextStaysWhole | the blocks of `ReaderTextSegments` are the text |
| | ClampIsConstant, ClampKeepsFill, ClampKeepsDimming | about the clamped playhead |

No theorem has a hypothesis on what users or administrators send: `Commands`
and `AdminOps` are any sets, switches name any version, voice changes are of
either kind, trashed jobs may be deleted. Where the unrestricted command breaks what one would
like to have, the property says so itself: TLC refutes the strong form on a
small instance (Observations), and the theorem is about what is left, the
exception named by the command that makes it.

| Refuted | Proved | Exception |
| --- | --- | --- |
| `NoOrphan` | `OrphanedBySwitchOnly` | a switch to a take that is superseded and was never rendered |
| `FullRerenderHolds` | `SupersededIsRevoiced` | a partial voice change while the take is in flight |
| `NothingIntoStuckThread` | `SpareStuckThread` | an admin's warm or evict during the call that hangs, or open when it began |
| (a COMPLETED job has no live work) | `CompletionIsEarned` | a switch on a completed job |
| (every trash entry has its root) | `EntriesIntact`, `BundleStaysWhole` | `DELETE /jobs` of a trashed job |

*RenderQueue.* None of the invariants is inductive alone. That the RENDERING
takes are the batch needs that `ranked` refers to takes that are PLANNED, which
needs that nothing but a dispatch takes a take out of PLANNED while the probe
is awaited, which needs the one-live-take invariant for the version commands.
`IInv` is therefore the conjunction of the type invariant, the per-job
invariants of every row and the relation between rows and scheduler variables
per phase. The first part of `RenderQueueProofs` proves once, for one job record, what each
operator of `JobAggregate` preserves; the second has one lemma per action that
cites these. That RENDERING means work needs one thing more: a
transaction that leaves the status leaves work (`StaysBusy`), also when the
take it changes is the last one. That a superseded take is revoiced needs that
no take is of a later plan version than its job (`Capped`).

*ModelLifecycle.* `Wired` ties the thread's queue, the calls abandoned threads
still run, and the answers to the callers: every suspended caller has exactly
one call or one answer, of the kind and model it waits for, and no call or
answer is for anybody else. Enqueueing, answering, giving up and cancelling the
queue are each proved to keep it, as facts about sequences, whatever the
caller does next. `Honest` and `Believed` carry the displayed state along the
suspensions of its owner. `ManagerAgrees` speaks of moments of rest only; its
inductive form says that the manager will believe what the provider holds once
the answers that are still out have been taken (`Settled`). The breaker needs
`OnlyTick`: while the thread runs a call during which no admin warmed or
evicted (`meddled`), all administrators are at rest, and if its caller has
given up, the state is ERROR with the tick at rest, or the tick is dead or waits
for an unload. A reset gives a new thread, and its first call starts afresh.

*Library.* `RootedTree` asks for a path; its inductive form `Grounded` says that
a set that contains the root and, with a parent, its children contains all. It is kept because
`reparent` refuses a target below what is moved, in a selection one item at a
time, and because a restored bundle hangs on a place that is live. Restores
also need that an entry's row remembers where its root was (`Recorded`) and
that what is trashed below the root hangs on its own entry (`Parented`).

*LiveFeed.* `OneLink` needs what each flag of the client implies of the others
(`Sockets`, `Retained`, `Single`), and that a page retains the client exactly
when it is of a kind that does. The same invariant makes each step of the
client a step of `LiveLink` or none; that is the safety part of the refinement
`LinkRefines`.

*MediaStream.* What was appended, what is queued and what the window's cursor
has passed lie end to end (`Windowed`), one call at a time holds the queue lock
(`Locked`), and the loop is at work on the head of the queue (`Aims`): that is
why an append continues the buffer, and why a dropped queue puts the cursor
back to where the buffer ends. The synchronous parts of the hook are functions
on its state, and each has a lemma of its own; a call that resumes in a newer
stream sets `crossed`, and nothing is claimed from then on. `Room`, a bound of
the model, leaves a slot for the call that a step may start.

*Pages.* `ServedAsMeant` compares what a command does with what the page showed
when it was given. The invariant says that the tables are `Sound`, which
`LibraryProofs` keeps for every operation, also those of other tabs; that a
command under way is one that can be given (`Proper`); and that one given on an
up-to-date listing fits the tables (`Apt`) for as long as nothing has changed
them. `ServeAsMeant` then takes the operations one by one. The work is in
the lists: siblings have one order, in which the page lists and the server
numbers them (`SortedInOrder`, `OneOrder`); a drop moves one element and keeps
the others in order (`ReorderMoves`, `DropOrders`); and what the page sends for
a selection is what the server takes for its outermost items (`TopCovers`,
`TopIsOutermost`). The assumption on `Starts` is that a library to begin with is
`Sound`, as the empty one is and every one the operations lead to.

A draft belongs to the selection because every way to select another
take closes the editor, and the one way to clear the selection with the editor
open (the cross of the sidebar) also hides the button that sends the draft.

*PlayerSession.* A commit runs the effects of page, store and hook one after the
other, each on what the ones before it left; each effect has a lemma, and
`Gentle(u, v)` sums up that none of them starts the audio unless the intent
says so. `PauseHolds` then needs that after a pause not only the audio rests and
the intent is off, but no play event is queued either (`Quiet`); the two ways
out are the ones `overrun` names. `AdvanceEarned` needs more: the hook's stream is
open exactly for the store's manifest (`StreamOK`), which is the written run from
the anchor of what the page knows (`LoadedOK`), which is never ahead of the
server (`Behind`); a seek that is pending lands at the start of its stream unless
the anchor is the job's last chunk (`Aimed`); and until something was played or
sought within the job no ended event is queued and the playhead is at 0
(`Unheard`). A position saved at the very end breaks that last form: in a
finished job of one chunk the playhead is placed at the end, and rests there
(`Rests`) with the intent off, without which the hook does not report an end. The module assumes that there is a job; the page of an empty folder
has nothing to play.

*Conveyor.* A strip that moves by itself is owed a seek, shows where its
gesture is, and has a target that is not before the start of the strip: the
spring may overshoot, the target may not. So what is sought at rest is what is
shown, cut off at one bound only. Chunks may change at any moment because the
bounds are naturals for any lengths: sums of durations are folds, and
`SumIsNat` is proved from the library's definition by induction on the size of
the set. That the click of a scrub seeks nothing needs that it is on the slot
whose activation is suppressed, or on none.

*Timeline.* The clamped playhead may stand for the true one: outside a slot the
value does not change, every bar is filled alike, and a played slot recedes
alike, except at its very end, where the clamp adds its epsilon. The unit of
these integers is that epsilon. The loops are recursive functions, and what they
compute is proved for inputs of any size. The library's induction theorems
cannot be cited for that, because they take an operator as a parameter, so the
induction is written out: the set of indices (distances, sizes) where a claim
fails has a least element, and the one before it refutes it. The same argument
shows that the function which the recursive definition chooses exists at all.
Functions of two arguments recurse over pairs for the prover's sake.

Only model-checked: the fairness that `LinkRefines`
adds to its safety part, and every liveness property (fairness and `ENABLED` are
outside the prover's reach). `ShownOnce`, about sequences of takes, is compared
on bounded inputs.

## Findings

*StaleAnchor* (`ReaderPage.tsx:285`): the effect that hands the loaded document
to the player calls `setSource` with the anchor of the render before it, in the
same commit in which `openJob` has reset it. The next job, also one opened by
auto-advance, starts where the last one was anchored unless it has a saved
position, or stays silent if it has fewer chunks.

### Observations without a run

Found while modelling; those in the first list were shown by TLC on small
instances of the properties named, which the modules still state.

Server, refuted expectations:

- `NoneStranded`: the loops that put chunks back (`service.py:853`, `804`) are
  not guarded against a purged job, as their neighbours are; the takes after it
  stay RENDERING, although the comment at `service.py:850` says they are not
  left stuck.
- `FullRerenderHolds`: a partial voice change (the API's default) that follows
  a full re-render pins the take in flight to the current plan
  (`manager.py:294`), and audio of the replaced voice is kept.
  `SupersededIsRevoiced` is what holds.
- `NoOrphan`: switching to a superseded take that was never rendered
  (`manager.py:655`) leaves a live PLANNED take that no tick ranks; the job
  never completes, or shows COMPLETED with work left. `OrphanedBySwitchOnly`
  and `CompletionIsEarned` are what holds.
- `NarrationCompletes`: the last chunk is written during a pause
  (`manager.py:168`); resume does not settle, and the finished job stays QUEUED.
- `NothingIntoStuckThread`: `_dispatch_tick` looks at the model state before it
  ranks and probes. An admin's warm that begins during the probe and times out
  trips the breaker, and the tick, resumed, calls `ensure_loaded` all the same:
  ERROR becomes LOADING and a load is queued behind the stuck call
  (`router.py:696`, against `service.py:298-301` and `model_manager.py:122`). A
  warm sent in ERROR, and an evict, clear it just so. `SpareStuckThread` is what
  holds.
- `LoopSurvives`: a provider reset cancels the tick's queued call;
  CancelledError is re-raised all the way (`service.py:191`) and ends the
  scheduler task.
- `TicksEnd`: the idle unload (`model_manager.py:153`) has no deadline and can
  wait for a stuck thread for ever, with the tick.

Live feed, a refuted expectation:

- `VanishedIsCaught`: a server that restarted no longer has the job, and
  `ReaderPage.tsx:600-604` counts on the refetch of a reconnect to find out. It
  is one request: when it fails, `refreshReaderState` (546-556) only sets an
  error, the retry effect (618-631) is for pages without a document, and
  polling is off while the link is open (517-520).

Media stream, a refuted expectation:

- `QueueServed`: the window is filled while a removal holds the lock;
  `processQueue` returns at once (`media-source.ts:660`), and its only caller
  fills no window while the queue is not empty (`757`): no chunk of it is
  fetched until the stream is reopened.

Server, others:

- A job paused during the memory probe is still dispatched once
  (`service.py:738`, `784-785`); `PausedJobStops` allows that one batch.
- `mark_chunk_written` of a superseded take requeues it without settling
  (`manager.py:453-456`).
- A hard delete while the batch is packaged re-creates the media directory.
- A load that outlives a reset and then finishes leaves the manager WARM with
  one model and the provider with another; every batch fails until an evict or
  an idle unload (`missed` excludes this from `ManagerAgrees`).
- A warm queued between the check at `provider.py:266` and the synthesis makes
  the batch speak with another model.
- An item restored in the same call as the folder it goes into is ordered among
  the folder's members by submission time, not appended as the comment at
  `library/service.py:442-443` says.
- `DELETE /jobs` of a trashed job leaves its trash entry, which can no longer
  be restored, and takes it out of its bundle (`EntriesIntact` and
  `BundleStaysWhole` name both); every hard delete leaves the progress row.

Media stream (the cases `crossed` excludes): after the awaits of an append the
loop of an old stream shifts the queue of the new one (`media-source.ts:685`),
and its `finally` releases the new loop's lock (`727`).

Player:

- A skip within the stream marks the chunks it jumps over as heard, and with an
  anchor other than 0 the position counts from the start of the job while the
  chunks' starts count from the anchor (`heard.ts:6-8` says seeking over a chunk
  never marks it).
- The answer to an activation plays although the listener has paused since, or
  is in another job; an activation that fails clears the wish to play and leaves
  the audio running (`overrun` in `PauseHolds`).
- Between the mount of a page and its load, the interval report saves the
  position of the job before. A remount tears down the stream of the same job,
  contrary to `ReaderPage.tsx:269-271`. A job all of whose chunks failed spins
  for ever when asked to play.

Live feed (the cases `CutOff` excludes; `hist.behind` holds the reason). The
page is told that the link is open, and shows less than is written, because

- events between its first load and the first connection were lost, which
  refetches nothing (`unheard`);
- events were on a socket that was closed at the end of the grace of `release`
  (`closed`);
- an answer that was read before an event was merged after it (`overwritten`);
- a refetch failed, the one after a reconnect included: it is not retried, and
  there is no polling while the link is open (`failed`;
  `ReaderPage.tsx:546-556`, `615-616`);
- the hub forgot a slow socket but left it open, so that pings are answered and
  no event comes;
- a close event that came after the client was retained again made a second
  connection (`hist.late`).

Chunks that fail for good are broadcast by
no event. The store ignores `library_changed` (`store.ts:242`) although
`events.ts:113` says clients refetch on it; only pages that look at the last
event do (`LibraryPage.tsx:92-111`).

Library and trash pages: refreshes have no request number, so an older answer
can hide what a newer one showed; a late completion clears a newer selection or
closes whichever dialog is open; rows hidden by a filter stay selected; what
cannot be a target is fixed when the dialog opens; "Empty trash" also purges
what was trashed after its dialog opened (`TrashPage.tsx:206`).

Admin page: the configuration is saved as a whole from a form filled once, so
another tab's edits are overwritten, and edits made during a save are lost; a
late answer to a reprocess closes the editor of another chunk; changes that
leave the signature as it was (a new take, a depth that comes back between two
ticks) are not followed, although the comment at `QueueInspector.tsx:329-331`
promises a live view.

Strip:

- A take switched while its peaks are being fetched is not fetched again and
  keeps the old peaks (`useChunkWaveforms.ts:97-103`; `crossed`).
- The strip is laid out with 4 s for a chunk without audio
  (`reader-model.ts:433-437`) while anchor and playhead use true durations
  (`210-216`): after a gap a seek lands elsewhere than it was tapped.
- A second pointer takes the drag over, and its release can commit while the
  first is down. `endDrag` measures speed over the whole gesture
  (`conveyor-physics.ts:271-274`), so a pause before the release still reads as
  a flick. A cancelled scrub swallows the next activation of its slot.
- The clamped playhead dims a slot one epsilon early (`ClampKeepsDimming`).

## Hazards and plan

`PROJECT.json` lists the hazards at their lines, with the properties that watch
them and, where none does, why. Every safety property the runs check is stated by a
theorem; what is left is liveness.

## Not modelled

The dispatch policy (priority bands, residency, batch sizes): RenderQueue
leaves every choice open instead. Of the lookahead cap it has that a job with
audio may be held back (`HeldBack`), not by how much; `RendersToEnd` is for
`render_ahead_seconds` = 0, since a job that is held back for good is not
rendered on. Voice changes of both kinds end with `MaxPlan`. The server's
listening progress; the client's reports are in PlayerSession. Audio synthesis
and packaging (outcomes are chosen freely), ffmpeg and files, text segmentation (a source of
a fixed number of pieces), seconds and floating-point durations (lengths are
small whole numbers, tolerances 0 or one unit), telemetry, configuration and
start-up. In the client: layout and styling, the canvas and the numbers of the
animation, settings, downloads, read marks, voice uploads, renaming, and the
forms' validation. There is no persistence to crash out of: the database is in
memory and a restart begins empty (`LiveFeed!Restart`).
