------------------------------ MODULE Console ------------------------------
(***************************************************************************)
(* The admin page of the web client (features/admin): the overview with    *)
(* its form for the runtime configuration and its model buttons, and the   *)
(* queue inspector, which follows the scheduler's ticks and reprocesses    *)
(* chunks.  A tab is mounted anew each time it is opened.                  *)
(*                                                                         *)
(* Of the queue the depth, the batch being rendered and the take of each   *)
(* chunk are kept, of the configuration one value, of a draft the chunk    *)
(* and take it was started from.  A request is read by the server and      *)
(* answered in separate steps.                                             *)
(***************************************************************************)
EXTENDS Integers, FiniteSets

CONSTANTS
  Chunk,        \* chunks of the queue
  Openings,     \* tabs to begin with, just opened: [tab, and shifts, moves and
                \* losses that are used up]
  MaxTake,      \* bound: takes of a chunk
  MaxShifts,    \* bound: changes the scheduler and other tabs make
  MaxMoves,     \* bound: what the user does
  MaxLosses,    \* bound: failed requests
  MaxAsks       \* bound: requests under way

ASSUME ConsoleAssumption ==
  /\ IsFiniteSet(Chunk)
  /\ \A o \in Openings : o.tab \in {"overview", "queue"}
  /\ {MaxTake, MaxShifts, MaxMoves, MaxLosses} \subseteq Nat /\ MaxAsks \in Nat \ {0}

VARIABLES
  queue,   \* the server: what the scheduler works on, and the configuration
  con,     \* the page and what the store knows of the server
  asks,    \* requests under way
  tally    \* counts of the bounded events, and whether news is owed

consoleVars == <<queue, con, asks, tally>>

NoTick == [depth |-> -1, batch |-> -1]       \* nothing known of the scheduler
NoKey  == <<"none", 0>>
Key(c) == <<c, queue.take[c]>>               \* chunkKey: a take of a chunk
Tick   == [depth |-> queue.depth, batch |-> queue.batch]
None   == [c \in Chunk |-> -1]
NoView == [take |-> None, last |-> None, paused |-> FALSE]

\* A tab as it is mounted.
NoQueue == [view |-> NoView, selected |-> NoKey, editing |-> FALSE, draft |-> NoKey,
            pending |-> FALSE]
NoForm == -1

\* queue_snapshot: what GET /admin/queue answers.
View == [take |-> queue.take, last |-> queue.last, paused |-> queue.paused]

-----------------------------------------------------------------------------
(* Requests *)

Free == Cardinality(asks) < MaxAsks

NewAsk(as, op) ==
  [id |-> CHOOSE n \in 1 .. Cardinality(as) + 1 : \A a \in as : a.id # n,
   op |-> op, step |-> "sent", mine |-> TRUE, chunk |-> NoKey, draft |-> NoKey,
   tick |-> NoTick, config |-> NoForm, view |-> NoView, recent |-> FALSE,
   after |-> "none"]                     \* the command a load follows

Asked(op) == asks \cup {NewAsk(asks, op)}

\* Requests of a tab that is closed: commands are carried out all the same,
\* what the overview has sent still reaches the store.
Closed(as) == {[a EXCEPT !.mine = FALSE] : a \in {b \in as : b.op # "load"}}

\* Wrong variant: the depth alone tells whether the tick has changed.
SignatureDepth(t) == t.depth

\* schedulerSignature
Signature(t) == t

\* The store's scheduler state changes; an open queue tab loads when the
\* signature does.
WithTick(c, t, as) ==
  /\ con' = [c EXCEPT !.tick = t]
  /\ asks' = IF c.tab = "queue" /\ Signature(t) # Signature(c.tick)
             THEN as \cup {NewAsk(as, "load")} ELSE as

\* The first configuration the overview sees fills its form, no later one.
FormFilled(c) ==
  IF c.tab = "overview" /\ c.form = NoForm THEN [c EXCEPT !.form = c.config] ELSE c

\* The admin page as it is opened; tab "closed" when another page is shown.
Opened(o) ==
  /\ queue = [depth |-> 0, batch |-> 0, paused |-> FALSE, config |-> 0,
              take |-> [c \in Chunk |-> 0],        \* the active takes
              last |-> [c \in Chunk |-> 0]]        \* the latest ones
  /\ con = [tab |-> o.tab, tick |-> NoTick, config |-> NoForm,   \* adminState
            form |-> NoForm, model |-> FALSE, q |-> NoQueue,
            line |-> NoTick]                       \* a tick on its way
  /\ asks = LET sync == {NewAsk({}, "sync")}
            IN  CASE o.tab = "overview" -> sync
                  [] o.tab = "queue"    -> sync \cup {NewAsk(sync, "load")}
                  [] o.tab = "closed"   -> {}
  /\ tally = [shifts |-> o.shifts, moves |-> o.moves, losses |-> o.losses, owed |-> FALSE]

\* The page opens on the overview; the other tab may be opened at once.
ConsoleInit == \E o \in Openings : Opened(o)

-----------------------------------------------------------------------------
(* The server *)

\* reprocess_chunk: a new take, and the active one.
Retaken(c) == [queue EXCEPT !.last[c] = @ + 1, !.take[c] = queue.last[c] + 1]

\* The scheduler plans, starts a batch or ends one; a batch is known by when it
\* was started, so none comes back.  Other tabs reprocess chunks, pause the job
\* and change the configuration.
Shift ==
  /\ tally.shifts < MaxShifts
  /\ \/ \E d \in 0 .. 1 : d # queue.depth /\ queue' = [queue EXCEPT !.depth = d]
     \/ queue' = [queue EXCEPT !.batch = @ + 1]
     \/ \E c \in Chunk : queue.last[c] < MaxTake /\ queue' = Retaken(c)
     \/ queue' = [queue EXCEPT !.config = 1 - @]
     \/ queue' = [queue EXCEPT !.paused = ~@]
  /\ tally' = [tally EXCEPT !.shifts = @ + 1]
  /\ UNCHANGED <<con, asks>>

\* _broadcast_scheduler_state, every planning cycle.
Broadcast ==
  /\ con.line = NoTick
  /\ con' = [con EXCEPT !.line = Tick]
  /\ UNCHANGED <<queue, asks, tally>>

\* A request is served.
Handle(a) ==
  LET done(b) == asks' = (asks \ {a}) \cup {[b EXCEPT !.step = "answer"]}
      refused == asks' = (asks \ {a}) \cup {[a EXCEPT !.step = "refused"]}
  IN  /\ a.step = "sent"
      /\ UNCHANGED <<con, tally>>
      /\ \/ /\ a.op = "load"
            /\ done([a EXCEPT !.view = View, !.recent = TRUE]) /\ UNCHANGED queue
         \/ /\ a.op = "sync"
            /\ done([a EXCEPT !.tick = Tick, !.config = queue.config]) /\ UNCHANGED queue
         \/ /\ a.op = "save"
            /\ queue' = [queue EXCEPT !.config = a.config] /\ done(a)
         \/ /\ a.op = "reprocess"            \* by index, whatever take was shown
            /\ IF queue.last[a.chunk[1]] < MaxTake
               THEN queue' = Retaken(a.chunk[1]) /\ done(a)
               ELSE refused /\ UNCHANGED queue
         \/ /\ a.op = "activate"
            /\ queue' = [queue EXCEPT !.take[a.chunk[1]] = a.config] /\ done(a)
         \/ /\ a.op \in {"pause", "resume"}
            /\ queue' = [queue EXCEPT !.paused = a.op = "pause"] /\ done(a)
         \/ a.op = "model" /\ done(a) /\ UNCHANGED queue

\* A request or its answer is lost.
Lost(a) ==
  /\ tally.losses < MaxLosses /\ a.step = "sent"
  /\ asks' = (asks \ {a}) \cup {[a EXCEPT !.step = "refused"]}
  /\ tally' = [tally EXCEPT !.losses = @ + 1]
  /\ UNCHANGED <<queue, con>>

-----------------------------------------------------------------------------
(* What reaches the client *)

\* The link is lost and back, with a tick that was on its way; the client asks
\* for everything again.
Reconnect ==
  /\ tally.losses < MaxLosses
  /\ con' = [con EXCEPT !.line = NoTick]
  /\ asks' = Asked("sync")
  /\ tally' = [tally EXCEPT !.losses = @ + 1]
  /\ UNCHANGED queue

\* scheduler_state, which the store takes once it has the admin state: an answer that was read before it will not show it.
TickArrives ==
  LET known == con.config # NoForm
      news == known /\ con.tab = "queue" /\ con.line # con.tick
      old  == {IF a.op = "load" THEN [a EXCEPT !.recent = FALSE] ELSE a : a \in asks}
  IN  /\ con.line # NoTick
      /\ WithTick([con EXCEPT !.line = NoTick], IF known THEN con.line ELSE con.tick,
                  IF news THEN old ELSE asks)
      /\ tally' = [tally EXCEPT !.owed = @ \/ news]
      /\ UNCHANGED queue

\* syncSnapshot; a failed one leaves the page without what it did not have.
Synced(a) ==
  /\ a.op = "sync" /\ a.step \in {"answer", "refused"}
  /\ IF a.step = "refused" THEN con' = con /\ asks' = asks \ {a}
     ELSE WithTick(FormFilled([con EXCEPT !.config = a.config]), a.tick, asks \ {a})
  /\ UNCHANGED <<queue, tally>>

Unedited(q) == [q EXCEPT !.editing = FALSE, !.draft = NoKey]

\* What the end of an action does: the buttons are back, and a reprocess closes
\* the editor that is open by then.
Ended(c, op) ==
  IF op = "none" THEN c
  ELSE [c EXCEPT !.q = [(IF op = "reprocess" THEN Unedited(@) ELSE @) EXCEPT !.pending = FALSE]]

\* load: whichever answer comes last is shown.
Loaded(a) ==
  /\ a.op = "load" /\ a.step \in {"answer", "refused"}
  /\ con' = Ended(IF a.step = "refused" THEN con ELSE [con EXCEPT !.q.view = a.view], a.after)
  /\ asks' = asks \ {a}
  /\ tally' = [tally EXCEPT !.owed = @ /\ a.step = "answer" /\ ~a.recent]
  /\ UNCHANGED queue

\* handleSubmit: the answer takes the place of the form, and the store goes
\* back to what the page knew of the scheduler when the form was sent.
Saved(a) ==
  /\ a.op = "save" /\ a.step \in {"answer", "refused"}
  /\ IF a.step = "refused" THEN con' = con /\ asks' = asks \ {a}
     ELSE WithTick([con EXCEPT !.config = a.config,
                               !.form = IF a.mine THEN a.config ELSE @],
                   a.tick, asks \ {a})
  /\ UNCHANGED <<queue, tally>>

\* handleWarmModel, handleEvictModel, handleResetModel: finally idle.
ModelDone(a) ==
  /\ a.op = "model" /\ a.step \in {"answer", "refused"}
  /\ con' = [con EXCEPT !.model = @ /\ ~a.mine]
  /\ asks' = asks \ {a}
  /\ UNCHANGED <<queue, tally>>

\* runAction: after the command a load, and only after it the end.
Acted(a) ==
  /\ a.op \in {"reprocess", "activate", "pause", "resume"}
  /\ a.step \in {"answer", "refused"}
  /\ IF a.step = "answer" /\ a.mine
     THEN /\ asks' = (asks \ {a}) \cup {[NewAsk(asks, "load") EXCEPT !.after = a.op]}
          /\ con' = con
     ELSE /\ asks' = asks \ {a}
          /\ con' = IF a.mine THEN Ended(con, a.op) ELSE con
  /\ UNCHANGED <<queue, tally>>

-----------------------------------------------------------------------------
(* What the user does *)

UserStep == tally.moves < MaxMoves /\ tally' = [tally EXCEPT !.moves = @ + 1]

OpenTab(tab) ==
  /\ UserStep /\ con.tab # tab /\ Free
  /\ con' = FormFilled([con EXCEPT !.tab = tab, !.q = NoQueue, !.form = NoForm,
                                   !.model = FALSE])
  /\ asks' = IF tab = "queue" THEN Closed(asks) \cup {NewAsk(asks, "load")} ELSE Closed(asks)
  /\ UNCHANGED queue

EditForm ==
  /\ UserStep /\ con.tab = "overview" /\ con.form # NoForm
  /\ con' = [con EXCEPT !.form = 1 - @]
  /\ UNCHANGED <<queue, asks>>

SaveForm ==
  /\ UserStep /\ con.tab = "overview" /\ con.form # NoForm /\ Free
  /\ asks' = asks \cup {[NewAsk(asks, "save") EXCEPT !.config = con.form, !.tick = con.tick]}
  /\ UNCHANGED <<queue, con>>

UseModel ==
  /\ UserStep /\ con.tab = "overview" /\ con.form # NoForm /\ ~con.model /\ Free
  /\ con' = [con EXCEPT !.model = TRUE]
  /\ asks' = Asked("model")
  /\ UNCHANGED queue

\* selected: the take is still listed.
Shown(k)  == k # NoKey /\ con.q.view # NoView /\ con.q.view.take[k[1]] = k[2]
Sidebar   == con.tab = "queue" /\ Shown(con.q.selected)

\* Wrong variant: the editor stays open when another chunk is selected.
SelectOnly(q, k) == [q EXCEPT !.selected = k]

\* selectChunk
Select(q, k) == [Unedited(q) EXCEPT !.selected = k]

SelectChunk(c) ==
  /\ UserStep /\ con.tab = "queue" /\ con.q.view # NoView
  /\ con' = [con EXCEPT !.q = Select(@, <<c, con.q.view.take[c]>>)]
  /\ UNCHANGED <<queue, asks>>

\* The cross of the sidebar; the editor is not closed with it.
CloseSidebar ==
  /\ UserStep /\ Sidebar
  /\ con' = [con EXCEPT !.q.selected = NoKey]
  /\ UNCHANGED <<queue, asks>>

StartEditing ==
  /\ UserStep /\ Sidebar /\ ~con.q.pending
  /\ con' = [con EXCEPT !.q.editing = TRUE, !.q.draft = con.q.selected]
  /\ UNCHANGED <<queue, asks>>

CancelEditing ==
  /\ UserStep /\ Sidebar /\ con.q.editing
  /\ con' = [con EXCEPT !.q = Unedited(@)]
  /\ UNCHANGED <<queue, asks>>

RunAction(op, take) ==
  /\ UserStep /\ Sidebar /\ ~con.q.pending /\ Free
  /\ con' = [con EXCEPT !.q.pending = TRUE]
  /\ asks' = asks \cup {[NewAsk(asks, op) EXCEPT
                           !.chunk = con.q.selected,
                           !.draft = IF op = "reprocess" THEN con.q.draft ELSE NoKey,
                           !.config = take]}
  /\ UNCHANGED queue

\* The takes the detail of the selected chunk offers.
Versions == 0 .. con.q.view.last[con.q.selected[1]]

SubmitReprocess == con.q.editing /\ RunAction("reprocess", NoForm)
SetActive(v) == /\ Sidebar /\ v # con.q.selected[2]
                /\ v \in Versions
                /\ RunAction("activate", v)
PauseResume == RunAction(IF con.q.view.paused THEN "resume" ELSE "pause", NoForm)

RefreshQueue ==
  /\ UserStep /\ con.tab = "queue" /\ ~con.q.pending /\ Free
  /\ asks' = Asked("load")
  /\ UNCHANGED <<queue, con>>

-----------------------------------------------------------------------------
Answering ==
  \E a \in asks : \/ Handle(a) \/ Synced(a) \/ Loaded(a) \/ Saved(a)
                  \/ ModelDone(a) \/ Acted(a)

UserMoves ==
  \/ \E tab \in {"overview", "queue"} : OpenTab(tab)
  \/ EditForm \/ SaveForm \/ UseModel
  \/ \E c \in Chunk : SelectChunk(c)
  \/ CloseSidebar \/ StartEditing \/ CancelEditing
  \/ SubmitReprocess \/ \E v \in 0 .. MaxTake : SetActive(v)
  \/ PauseResume \/ RefreshQueue

ConsoleNext ==
  \/ Shift \/ Broadcast \/ Reconnect \/ TickArrives
  \/ Answering
  \/ \E a \in asks : Lost(a)
  \/ UserMoves

\* Requests are served and answered, and the ticks of the scheduler come.
ConsoleFairness ==
  /\ []<>(asks = {}) \/ []<><<Answering>>_consoleVars
  /\ []<>(con.line = NoTick) \/ []<><<TickArrives>>_consoleVars
  /\ []<>(con.tab = "closed") \/ []<><<Broadcast>>_consoleVars

-----------------------------------------------------------------------------
(* Properties *)

\* A reprocess never sends the text of one chunk, or of one take of it, to
\* another: whatever is selected, closed, refreshed or answered between opening
\* the editor and sending the draft, the draft was started from what the request
\* names (`selectChunk' closes the editor, the cross of the sidebar does not).
DraftBelongs == \A a \in asks : a.op = "reprocess" => a.draft = a.chunk

\* A tick that tells something new is followed by a view that was read after it,
\* unless a load fails or the tab is left ("refetch the full queue only when that
\* tick actually changes ... so the view stays live without polling").
QueueFollows ==
  tally.owed /\ con.tab = "queue" ~> ~tally.owed \/ con.tab # "queue"
=============================================================================
