------------------------------ MODULE LiveFeed ------------------------------
(***************************************************************************)
(* How the web client follows the server: the live client with its socket  *)
(* and timers (lib/live-client.ts), the store its events go to             *)
(* (state/store.ts), the hub they come from (server/app/core/hub.py), and  *)
(* the reader page that merges events, answers of requests and answers of  *)
(* its own commands into one document (features/reader/ReaderPage.tsx,     *)
(* reader-model.ts).                                                       *)
(*                                                                         *)
(* One job is followed: the set of its written chunks.  One page is shown  *)
(* at a time.  Handlers of events and answers, with the effects of the     *)
(* render they cause, are atomic; requests are read by the server and      *)
(* answered in separate steps.  Of the clocks only the order is kept: a    *)
(* link that answers pings never gets stale, a silent one may.             *)
(***************************************************************************)
EXTENDS Integers, Sequences, FiniteSets

CONSTANTS
  Chunk,        \* the chunks of the job, 1 .. n
  MaxRetries,   \* INITIAL_LOAD_MAX_RETRIES
  MaxUpsets     \* bound: connections lost or muted, failed requests, restarts,
                \* re-renders and page changes, together

ASSUME FeedAssumption ==
  /\ IsFiniteSet(Chunk) /\ Chunk = 1 .. Cardinality(Chunk)
  /\ {MaxRetries, MaxUpsets} \subseteq Nat

VARIABLES
  srv,    \* the server: the job
  app,    \* the live client, the store and the page
  calls,  \* answers to commands of the page that are under way
  hist    \* the count of the bounded events, whether a close event came late, and
          \* why the page may be behind

vars == <<srv, app, calls, hist>>

Nothing == {0}    \* no set of chunks

Event == [type : {"chunk"}, chunk : Chunk, done : BOOLEAN]
         \cup [type : {"detail"}, written : SUBSET Chunk]
         \cup [type : {"open", "error", "close"}]

Socket == [link : {"none", "new", "up", "silent", "down"},
           hub : BOOLEAN,             \* among the connections of the hub
           queue : Seq(Event)]        \* what the browser has still to deliver
NoSocket == [link |-> "none", hub |-> FALSE, queue |-> <<>>]

\* A request for the detail and the manifest: what the server read for each.
Fetch == [job : {"none", "asked", "gone", "open", "done"},
          chunks : (SUBSET Chunk) \cup {Nothing}, crossed : BOOLEAN]
NoFetch  == [job |-> "none",  chunks |-> Nothing, crossed |-> FALSE]
NewFetch == [job |-> "asked", chunks |-> Nothing, crossed |-> FALSE]

Page == [kind : {"plain", "live", "reader"},   \* live: a page that retains the link
         job : {"none", "open", "done"},       \* the detail
         chunks : SUBSET Chunk,                \* the manifest
         missing : BOOLEAN, loading : BOOLEAN, retries : 0 .. MaxRetries,
         fetch : Fetch, queued : BOOLEAN,
         on : BOOLEAN]                         \* retains the live client

App == [started : BOOLEAN, release : BOOLEAN, reconnect : BOOLEAN,
        again : BOOLEAN,              \* reconnectAttempt > 0
        socket : Socket,
        closing : Nat,                \* replaced sockets with a close event to come
        leaked : Nat,                 \* replaced sockets that are still up
        status : {"idle", "connecting", "open", "reconnecting", "error"},
        stale : BOOLEAN,
        page : Page]

\* Why the page may be behind the server although its link is open: it did not
\* hear of a change before its first connection; the change was still on its way
\* to the socket that was closed when the grace ended; an older answer replaced
\* it; or the refetch that was to bring it failed.
Reasons == {"unheard", "closed", "overwritten", "failed"}

Done(w) == w = Chunk

-----------------------------------------------------------------------------
(* The live client *)

\* setSocketState: the part of the store the pages read of the link.
SetSocketState(a, status, stale) == [a EXCEPT !.status = status, !.stale = stale]

ScheduleReconnect(a) ==
  IF ~a.started \/ a.reconnect THEN a
  ELSE SetSocketState([a EXCEPT !.again = TRUE, !.reconnect = TRUE], "reconnecting", a.stale)

\* connect: the socket it replaces, if there is one, goes on by itself.
Connect(a) ==
  IF ~a.started THEN a
  ELSE [SetSocketState(a, IF a.again THEN "reconnecting" ELSE "connecting", FALSE) EXCEPT
                 !.leaked  = IF a.socket.link \in {"none", "down"} THEN @ ELSE @ + 1,
                 !.closing = IF a.socket.link = "down" THEN @ + 1 ELSE @,
                 !.socket  = [link |-> "new", hub |-> FALSE, queue |-> <<>>]]

\* The page that retains the client is its only subscriber.
Retain(a) ==
  LET b == [a EXCEPT !.release = FALSE]
  IN  IF b.started THEN b ELSE Connect([b EXCEPT !.started = TRUE])

Release(a) == [a EXCEPT !.release = TRUE]

\* Wrong variant: the timers of a stopped client run on.
StopOnly(a) ==
  [SetSocketState(a, "idle", FALSE) EXCEPT
     !.started = FALSE, !.again = FALSE, !.release = FALSE,
     !.closing = IF a.socket.link = "none" THEN @ ELSE @ + 1, !.socket = NoSocket]

\* clearTimers, of which the reconnect timer is kept here.
ClearTimers(a) == [a EXCEPT !.reconnect = FALSE]

\* stop: the socket is closed; its close event comes later.
Stop(a) ==
  [SetSocketState(ClearTimers(a), "idle", FALSE) EXCEPT
     !.started = FALSE, !.again = FALSE, !.release = FALSE,
     !.closing = IF a.socket.link = "none" THEN @ ELSE @ + 1, !.socket = NoSocket]

\* markActivity: the stale timer starts anew.
MarkActivity(a) == SetSocketState(a, a.status, FALSE)

\* The listeners of the current socket.
OnOpen(a) == MarkActivity(SetSocketState([a EXCEPT !.again = FALSE], "open", FALSE))

OnError(a) == SetSocketState(a, "error", a.stale)

\* Wrong variant: the close of a socket that failed to open is not answered.
OnCloseOnce(a) == IF a.status = "error" THEN a ELSE ScheduleReconnect(a)

\* The close event of any socket.  intentionalClose is set by stop and cleared
\* by connect, so it adds nothing to the test of started.
OnClose(a) == ScheduleReconnect(a)

-----------------------------------------------------------------------------
(* The reader page *)

\* refreshReaderState: one request at a time, and one more to follow it.
Refresh(a) ==
  IF a.page.fetch # NoFetch THEN [a EXCEPT !.page.queued = TRUE]
  ELSE [a EXCEPT !.page.fetch = NewFetch]

\* useAppBootstrap(!loading && !!job && !isJobTerminal)
Bootstrap(a) ==
  LET p == a.page
      on == CASE p.kind = "reader" -> ~p.loading /\ p.job = "open"
              [] OTHER -> p.kind = "live"
      b == [a EXCEPT !.page.on = on]
  IN  CASE on /\ ~p.on -> Retain(b)
        [] p.on /\ ~on -> Release(b)
        [] OTHER -> b

\* Wrong variant: a link that came back is taken to have missed nothing.
EffectsTrusting(a, b) == Bootstrap(b)

\* The effects of the render in which a became b: a link that came back
\* revalidates the page, a first connection does not.
Effects(a, b) ==
  LET back == /\ b.page.kind = "reader" /\ b.status = "open"
              /\ a.status \notin {"open", "connecting"}
  IN  Bootstrap(IF back THEN Refresh([b EXCEPT !.page.retries = 0]) ELSE b)

\* applyJobPatch.  Before the first answer of the server what an event puts
\* into the manifest is replaced by that answer.
PatchSummary(a, done) == [a EXCEPT !.page.job = IF done THEN "done" ELSE "open"]

UpsertChunk(chunks, c) == chunks \cup {c}

PatchChunk(a, e) ==
  PatchSummary([a EXCEPT !.page.chunks = UpsertChunk(@, e.chunk)], e.done)

PatchDetail(a, w) == PatchSummary([a EXCEPT !.page.chunks = w], Done(w))

\* The page's effect on lastEvent.
PageEvent(a, e) ==
  IF a.page.job = "none" THEN a
  ELSE IF e.type = "chunk" THEN PatchChunk(a, e)
  ELSE PatchDetail(a, e.written)

\* The message listener: the store passes on every event that has a job.
OnMessage(a, e) == PageEvent(MarkActivity(a), e)

NoPage(kind) ==
  [kind |-> kind, job |-> "none", chunks |-> {}, missing |-> FALSE,
   loading |-> kind = "reader", retries |-> 0, fetch |-> NoFetch, queued |-> FALSE, on |-> FALSE]

\* A page replaces another: its release precedes the retain of the new one.
Mount(a, kind) ==
  LET left == IF a.page.on THEN Release(a) ELSE a
      new  == [left EXCEPT !.page = NoPage(kind)]
  IN  IF kind = "reader" THEN Refresh(new) ELSE Bootstrap(new)

\* The end of a request, with the one that was queued behind it.
Settled(a) ==
  LET b == [a EXCEPT !.page.fetch = NoFetch, !.page.queued = FALSE, !.page.loading = FALSE]
  IN  Bootstrap(IF a.page.queued THEN Refresh(b) ELSE b)

-----------------------------------------------------------------------------
(* The server.  What it broadcasts reaches the sockets the hub knows.       *)

\* The page holds, or is being sent, what was read before this moment.
Holds(a) == a.page.job # "none" \/ a.page.fetch.chunks # Nothing

\* A request that was read before a change the page will not see after it.
Cross(a) == [a EXCEPT !.page.fetch.crossed = @ \/ a.page.fetch.chunks # Nothing]

Broadcast(a, e) ==
  IF a.socket.hub THEN [a EXCEPT !.socket.queue = Append(@, e)] ELSE Cross(a)

\* The page will not hear of it: it has not asked for the link yet, or waits
\* for its first connection, and after that one nothing is fetched again.
Missed(a) ==
  ~a.socket.hub /\ Holds(a) /\ (~a.page.on \/ a.status \in {"idle", "connecting"})

\* The first of the reasons is kept.
Behind(h, reason, when) ==
  [h EXCEPT !.behind = IF when /\ @ = "no" THEN reason ELSE @]

\* Something the page did not ask for, within the bound.
Upset == hist.upsets < MaxUpsets
Count(h) == [h EXCEPT !.upsets = @ + 1]

Init ==
  /\ srv = [job |-> TRUE, written |-> {}]
  /\ \E kind \in {"plain", "live", "reader"} :
       app = Mount([started |-> FALSE, release |-> FALSE, reconnect |-> FALSE, again |-> FALSE,
                    socket |-> NoSocket, closing |-> 0, leaked |-> 0,
                    status |-> "idle", stale |-> FALSE, page |-> NoPage("plain")], kind)
  /\ calls = {}
  /\ hist = [upsets |-> 0, behind |-> "no", late |-> FALSE]

\* A chunk is written, in order.
WriteChunk ==
  /\ srv.job
  /\ \E c \in Chunk \ srv.written :
       /\ \A d \in Chunk : d < c => d \in srv.written
       /\ srv' = [srv EXCEPT !.written = @ \cup {c}]
       /\ app' = Broadcast(app, [type |-> "chunk", chunk |-> c, done |-> Done(srv'.written)])
  /\ hist' = Behind(hist, "unheard", Missed(app))
  /\ UNCHANGED calls

\* The voice is changed with a full re-render, by this page or elsewhere.
Rerender ==
  /\ Upset /\ srv.job /\ srv.written # {}
  /\ srv' = [srv EXCEPT !.written = {}]
  /\ app' = Broadcast(app, [type |-> "detail", written |-> {}])
  /\ \/ UNCHANGED calls
     \/ /\ app.page.job # "none"
        /\ calls' = calls \cup {[written |-> {}, crossed |-> FALSE]}
  /\ hist' = Behind(Count(hist), "unheard", Missed(app))

Accept ==
  /\ app.socket.link = "new"
  /\ app' = [app EXCEPT !.socket = [link |-> "up", hub |-> TRUE,
                                    queue |-> <<[type |-> "open"]>>]]
  /\ UNCHANGED <<srv, calls, hist>>

\* Every connection is gone; the events that say so are queued.
Cut(a) ==
  [a EXCEPT !.socket = IF @.link \in {"none", "down"} THEN @
                       ELSE [link |-> "down", hub |-> FALSE,
                             queue |-> @.queue \o <<[type |-> "error"], [type |-> "close"]>>],
            !.leaked = 0, !.closing = @ + a.leaked]

\* The connection is refused or lost.
Drop ==
  /\ Upset /\ app.socket.link \in {"new", "up", "silent"}
  /\ app' = Cut(app)
  /\ hist' = Count(hist)
  /\ UNCHANGED <<srv, calls>>

\* The server restarts: connections are lost, and the job with them.
Restart ==
  /\ Upset /\ srv.job
  /\ srv' = [srv EXCEPT !.job = FALSE]
  /\ app' = Cut(app)
  /\ hist' = Count(hist)
  /\ UNCHANGED calls

\* A delivery takes too long: the hub forgets the socket and leaves it open, to
\* answer its pings.  Or the peer is gone without a word.
Mute ==
  /\ Upset /\ app.socket.hub
  /\ \E link \in {"up", "silent"} :
       app' = [app EXCEPT !.socket.hub = FALSE, !.socket.link = link]
  /\ hist' = Count(hist)
  /\ UNCHANGED <<srv, calls>>

-----------------------------------------------------------------------------
(* The live client *)

\* An event of the current socket is delivered.
SocketEvent ==
  /\ app.socket.queue # <<>>
  /\ LET e == Head(app.socket.queue)
         a == [app EXCEPT !.socket.queue = Tail(@)]
         news == e.type \in {"chunk", "detail"}
     IN  /\ app' = Effects(app,
                     CASE e.type = "open"  -> OnOpen(a)
                       [] e.type = "error" -> OnError(a)
                       [] e.type = "close" -> OnClose([a EXCEPT !.socket = NoSocket])
                       [] OTHER -> OnMessage(Cross(a), e))
         /\ calls' = IF news THEN {[c EXCEPT !.crossed = TRUE] : c \in calls} ELSE calls
  /\ UNCHANGED <<srv, hist>>

\* The close event of a socket that was replaced.
OldClose ==
  /\ app.closing > 0
  /\ app' = Effects(app, OnClose([app EXCEPT !.closing = @ - 1]))
  /\ \/ ~app.started /\ UNCHANGED hist
     \/ Upset /\ app.started /\ hist' = [Count(hist) EXCEPT !.late = TRUE]
  /\ UNCHANGED <<srv, calls>>

ReconnectFires ==
  /\ app.reconnect
  /\ app' = Effects(app, Connect([app EXCEPT !.reconnect = FALSE]))
  /\ UNCHANGED <<srv, calls, hist>>

\* The grace is over: what the closed socket had still to deliver is lost.
ReleaseFires ==
  /\ app.release
  /\ LET a == [app EXCEPT !.release = FALSE]
         lost == /\ ~a.page.on /\ Holds(a)
                 /\ \E i \in DOMAIN a.socket.queue : a.socket.queue[i].type \in {"chunk", "detail"}
         b == IF lost THEN Cross(a) ELSE a
     IN  /\ app' = Effects(app, IF b.page.on THEN b ELSE Stop(b))
         /\ hist' = Behind(hist, "closed", lost)
  /\ UNCHANGED <<srv, calls>>

\* Nothing was heard for STALE_AFTER_MS.
StaleFires ==
  /\ app.socket.link = "silent" /\ app.socket.queue = <<>> /\ ~app.stale
  /\ app' = SetSocketState(app, app.status, TRUE)
  /\ UNCHANGED <<srv, calls, hist>>

-----------------------------------------------------------------------------
(* The page *)

Visit ==
  /\ Upset
  /\ \E kind \in {"plain", "live", "reader"} \ {app.page.kind} : app' = Mount(app, kind)
  /\ calls' = {}
  /\ hist' = [Count(hist) EXCEPT !.behind = "no"]
  /\ UNCHANGED srv

\* The server answers one of the two requests.
FetchRead ==
  /\ app.page.fetch # NoFetch
  /\ \/ /\ app.page.fetch.job = "asked"
        /\ app' = [app EXCEPT !.page.fetch.job = IF ~srv.job THEN "gone"
                                                 ELSE IF Done(srv.written) THEN "done" ELSE "open"]
     \/ /\ app.page.fetch.chunks = Nothing
        /\ app' = IF srv.job THEN [app EXCEPT !.page.fetch.chunks = srv.written]
                  ELSE [app EXCEPT !.page.fetch.job = "gone"]
  /\ UNCHANGED <<srv, calls, hist>>

\* Both answers are there, or the first says that the job is gone.
FetchAnswer ==
  /\ LET f == app.page.fetch
     IN  \/ /\ f.job \in {"open", "done"} /\ f.chunks # Nothing
            /\ app' = Settled([app EXCEPT !.page.job = f.job, !.page.chunks = f.chunks])
            /\ hist' = [hist EXCEPT !.behind = IF f.crossed THEN "overwritten" ELSE "no"]
            /\ calls' = {[c EXCEPT !.crossed = TRUE] : c \in calls}
         \/ /\ f.job = "gone"
            /\ app' = Settled([app EXCEPT !.page.missing = TRUE])
            /\ UNCHANGED <<calls, hist>>
  /\ UNCHANGED srv

\* A page without a document retries, one without a link polls, and a queued
\* request follows; otherwise nothing makes up for the request that failed.
FetchFails ==
  /\ Upset /\ app.page.fetch # NoFetch
  /\ app' = Settled(app)
  /\ hist' = Behind(Count(hist), "failed",
                    /\ app.page.job # "none" /\ ~app.page.queued
                    /\ app.status = "open" /\ ~app.stale)
  /\ UNCHANGED <<srv, calls>>

\* A job the server does not know sends the listener back to the library.
Redirect ==
  /\ app.page.missing /\ ~app.page.loading
  /\ app' = Mount(app, "plain")
  /\ calls' = {}
  /\ UNCHANGED <<srv, hist>>

Retry ==
  /\ app.page.kind = "reader" /\ app.page.job = "none" /\ ~app.page.missing
  /\ app.page.retries < MaxRetries
  /\ app' = Refresh([app EXCEPT !.page.retries = @ + 1])
  /\ UNCHANGED <<srv, calls, hist>>

\* The page polls as long as there is no link to rely on.
PollingFallback ==
  app.page.kind = "reader" /\ app.page.job = "open" /\ (app.status # "open" \/ app.stale)

Poll ==
  /\ PollingFallback
  /\ ~app.page.queued
  /\ app' = Refresh(app)
  /\ UNCHANGED <<srv, calls, hist>>

\* The answer to the page's own re-render is merged like an event.
CallAnswer ==
  /\ \E c \in calls :
       /\ calls' = calls \ {c}
       /\ app' = Bootstrap(PatchDetail(app, c.written))
       /\ hist' = Behind(hist, "overwritten", c.crossed)
  /\ UNCHANGED srv

Next ==
  \/ WriteChunk \/ Rerender \/ Accept \/ Drop \/ Restart \/ Mute
  \/ SocketEvent \/ OldClose \/ ReconnectFires \/ ReleaseFires \/ StaleFires
  \/ Visit \/ FetchRead \/ FetchAnswer \/ FetchFails \/ Redirect \/ Retry \/ Poll \/ CallAnswer

\* The browser, the network and the server go on; what the listener and the
\* scheduler do is up to them.  Each of these steps ends what enables it, so
\* that one condition for the link and one for the page is enough.
LinkSteps == Accept \/ SocketEvent \/ OldClose \/ ReconnectFires \/ StaleFires \/ Retry
PageSteps == FetchRead \/ FetchAnswer \/ Poll

CanLink ==
  \/ app.socket.link = "new" \/ app.socket.queue # <<>> \/ app.reconnect
  \/ app.closing > 0 /\ (app.started => Upset)
  \/ app.socket.link = "silent" /\ ~app.stale
  \/ app.page.kind = "reader" /\ app.page.job = "none" /\ ~app.page.missing
     /\ app.page.retries < MaxRetries
CanPage ==
  \/ app.page.fetch # NoFetch
  \/ PollingFallback

Fairness ==
  /\ []<>~CanLink \/ []<><<LinkSteps>>_vars
  /\ []<>~CanPage \/ []<><<PageSteps>>_vars

Spec == Init /\ [][Next]_vars
FairSpec == Spec /\ Fairness

-----------------------------------------------------------------------------
\* The shape of the server, of what the browser keeps and of the answers under way.
TypeOK ==
  /\ srv \in [job : BOOLEAN, written : SUBSET Chunk]
  /\ app \in App
  /\ calls \subseteq [written : SUBSET Chunk, crossed : BOOLEAN]

\* There is a socket, or a timer that will make one, as long as a page retains
\* the client or its grace runs, and neither otherwise (stop clears the timers
\* that would bring a stopped client back); no connection is replaced while it
\* is up, unless the close event of a stopped socket came after a new retain.
OneLink ==
  /\ app.page.on => app.started
  /\ app.started => /\ app.page.on \/ app.release
                    /\ app.socket # NoSocket \/ app.reconnect
  /\ ~app.started => ~app.reconnect /\ app.socket = NoSocket
  /\ app.leaked > 0 => hist.late

\* The live client implements LiveLink: what its pages see is the status.
Abstract == INSTANCE LiveLink WITH
  wanted <- app.page.on,
  link <- IF ~app.started THEN "off" ELSE IF app.status = "open" THEN "on" ELSE "trying"

LinkRefines == Abstract!Spec

Reading == app.page.kind = "reader" /\ app.page.job = "open" /\ srv.job

\* The page is told that the link is open, and there is nothing it would fetch
\* again, for one of the Reasons, or because the hub has dropped a socket that
\* still answers pings, or because the close event of a stopped socket came
\* late.  A first connection refetches nothing, and a refetch that fails while
\* the link is open is neither retried (that is for pages without a document)
\* nor made up for by polling (that is for pages without a link).
CutOff ==
  /\ app.status = "open" /\ ~app.stale
  /\ hist.behind \in Reasons \/ hist.late \/ (app.socket.link = "up" /\ ~app.socket.hub)

\* A page that shows an unfinished document shows all the chunks that are
\* written, sooner or later, whatever was lost with the connection: by events,
\* by the refetch of a link that came back, if that succeeds, or by polling
\* while there is none; unless it is cut off.
CatchesUp ==
  Reading ~> (app.page.chunks = srv.written \/ CutOff \/ ~Reading)

\* The page retains the link for a job that the server no longer has.
Vanished ==
  /\ app.page.kind = "reader" /\ app.page.job # "none" /\ ~app.page.missing
  /\ app.page.on /\ ~srv.job

\* The revalidation after a reconnect is what catches a job that vanished while
\* the tab stayed open (ReaderPage's effect on websocketStatus).  Refuted on a
\* small instance (README): one failed request, and the page stays as it is.
VanishedIsCaught == Vanished /\ app.status = "reconnecting" ~> ~Vanished
=============================================================================
