--------------------------- MODULE LiveFeedProofs ---------------------------
(***************************************************************************)
(* Theorems about LiveFeed, for any number of chunks, retries and upsets:  *)
(* its types, the one link, and that the live client takes only the steps  *)
(* that LiveLink allows.                                                   *)
(***************************************************************************)
EXTENDS LiveFeed, SequenceTheorems, TLAPS

\* A client that is started has a socket or a timer for one, and a stopped
\* client has neither.
Sockets(a) ==
  /\ a.socket.link = "none" => a.socket = NoSocket
  /\ a.started => a.socket.link # "none" \/ a.reconnect
  /\ ~a.started => ~a.reconnect /\ a.socket.link = "none"

\* The client is started for a page that retains it, or for its grace.
Retained(a) ==
  /\ a.page.on => a.started
  /\ a.started => a.page.on \/ a.release

\* The timer replaces no socket, so that none goes on by itself.
Single(a) ==
  /\ a.leaked = 0
  /\ a.reconnect => a.socket.link = "none"

\* Whether a page retains the client.
Wants(p) ==
  IF p.kind = "reader" THEN ~p.loading /\ p.job = "open" ELSE p.kind = "live"

\* What the pages see of the link.
LinkOf(a) == IF ~a.started THEN "off" ELSE IF a.status = "open" THEN "on" ELSE "trying"

\* Nothing of the link has changed, except that it may have been asked for.
SameLink(a, b) ==
  /\ b.reconnect = a.reconnect /\ b.leaked = a.leaked
  /\ b.socket.link = a.socket.link \/ (~a.started /\ ~b.reconnect)
  /\ LinkOf(b) = LinkOf(a) \/ (LinkOf(a) = "off" /\ LinkOf(b) = "trying" /\ b.page.on)

-----------------------------------------------------------------------------
(* The live client *)

LEMMA SocketTypes ==
  /\ NoSocket \in Socket /\ NoSocket.link = "none"
  /\ LET n == [link |-> "new", hub |-> FALSE, queue |-> <<>>]
     IN  n \in Socket /\ n.link = "new" /\ n # NoSocket
BY DEF NoSocket, Socket

LEMMA SetSocketStateOK ==
  ASSUME NEW a \in App, NEW status \in {"idle", "connecting", "open", "reconnecting", "error"},
         NEW stale \in BOOLEAN
  PROVE  LET b == SetSocketState(a, status, stale)
         IN  /\ b \in App /\ b.status = status
             /\ b.started = a.started /\ b.release = a.release /\ b.page = a.page
             /\ b.reconnect = a.reconnect /\ b.socket = a.socket /\ b.leaked = a.leaked
BY DEF SetSocketState, App

LEMMA ConnectOK ==
  ASSUME NEW a \in App, a.started
  PROVE  LET b == Connect(a)
         IN  /\ b \in App /\ b.started /\ b.page = a.page /\ b.release = a.release
             /\ b.reconnect = a.reconnect
             /\ b.socket.link = "new" /\ b.socket # NoSocket
             /\ b.leaked = IF a.socket.link \in {"none", "down"} THEN a.leaked ELSE a.leaked + 1
             /\ b.status \in {"reconnecting", "connecting"}
<1> DEFINE n == [link |-> "new", hub |-> FALSE, queue |-> <<>>]
           s == SetSocketState(a, IF a.again THEN "reconnecting" ELSE "connecting", FALSE)
           l == IF a.socket.link \in {"none", "down"} THEN s.leaked ELSE s.leaked + 1
           k == IF a.socket.link = "down" THEN s.closing + 1 ELSE s.closing
           b == [s EXCEPT !.leaked = l, !.closing = k, !.socket = n]
<1>1. /\ s \in App /\ s.status \in {"reconnecting", "connecting"}
      /\ s.started = a.started /\ s.release = a.release /\ s.page = a.page
      /\ s.reconnect = a.reconnect /\ s.socket = a.socket /\ s.leaked = a.leaked
  BY SetSocketStateOK
<1>2. n \in Socket /\ n.link = "new" /\ n # NoSocket
  BY SocketTypes
<1>3. Connect(a) = b
  BY <1>1 DEF Connect
<1> HIDE DEF s, n
<1>4. l \in Nat /\ k \in Nat
  BY <1>1 DEF App
<1> HIDE DEF l, k
<1>5. /\ b \in App /\ b.started /\ b.page = a.page /\ b.release = a.release
      /\ b.reconnect = a.reconnect /\ b.socket = n /\ b.status = s.status
      /\ b.leaked = l
  BY <1>1, <1>2, <1>4 DEF App
<1> HIDE DEF b
<1>6. QED
  BY <1>1, <1>2, <1>3, <1>5 DEF l

LEMMA RetainOK ==
  ASSUME NEW a \in App, Sockets(a)
  PROVE  LET b == Retain(a)
         IN  /\ b \in App /\ Sockets(b) /\ b.started /\ b.page = a.page
             /\ b.reconnect = a.reconnect /\ b.leaked = a.leaked
             /\ a.started => b.socket = a.socket /\ LinkOf(b) = LinkOf(a)
             /\ ~a.started => LinkOf(b) = "trying"
<1> DEFINE b == [a EXCEPT !.release = FALSE]
           c == [b EXCEPT !.started = TRUE]
<1>1. b \in App /\ c \in App /\ c.started
  BY DEF App
<1>2. CASE a.started
  BY <1>1, <1>2 DEF Retain, App, Sockets, LinkOf
<1>3. CASE ~a.started
  <2>1. Retain(a) = Connect(c)
    BY <1>3 DEF Retain, App
  <2>2. c.page = a.page /\ c.reconnect = a.reconnect /\ c.leaked = a.leaked
        /\ c.socket = a.socket
    BY DEF App
  <2> HIDE DEF c
  <2>3. QED
    BY <1>1, <1>3, <2>1, <2>2, ConnectOK DEF Sockets, LinkOf
<1>4. QED
  BY <1>2, <1>3

LEMMA StopOK ==
  ASSUME NEW a \in App
  PROVE  LET b == Stop(a)
         IN  /\ b \in App /\ ~b.started /\ ~b.release /\ ~b.reconnect
             /\ b.socket = NoSocket /\ b.page = a.page /\ b.leaked = a.leaked
<1> DEFINE r == [a EXCEPT !.reconnect = FALSE]
           s == SetSocketState(r, "idle", FALSE)
           k == IF a.socket.link = "none" THEN s.closing ELSE s.closing + 1
<1>1. r \in App /\ r.page = a.page /\ r.leaked = a.leaked /\ ~r.reconnect
  BY DEF App
<1> HIDE DEF r
<1>2. s \in App /\ s.page = a.page /\ s.leaked = a.leaked /\ ~s.reconnect
  BY <1>1, SetSocketStateOK, ZenonT(60)
<1>3. Stop(a) = [s EXCEPT !.started = FALSE, !.again = FALSE, !.release = FALSE,
                          !.closing = k, !.socket = NoSocket]
  BY DEF Stop, ClearTimers, r
<1> HIDE DEF s
<1>4. k \in Nat
  BY <1>2 DEF App
<1> HIDE DEF k
<1>5. QED
  BY <1>2, <1>3, <1>4, SocketTypes DEF App

LEMMA ScheduleReconnectOK ==
  ASSUME NEW a \in App
  PROVE  LET b == ScheduleReconnect(a)
         IN  /\ b \in App /\ b.started = a.started /\ b.release = a.release
             /\ b.page = a.page /\ b.socket = a.socket /\ b.leaked = a.leaked
             /\ b.reconnect = (a.reconnect \/ a.started)
             /\ b = a \/ (a.started /\ b.status = "reconnecting")
BY DEF ScheduleReconnect, SetSocketState, App

\* The listeners of the socket change the status and the timer only.
LEMMA ListenersOK ==
  ASSUME NEW a \in App
  PROVE  /\ \A b \in {OnOpen(a), OnError(a), MarkActivity(a)} :
              /\ b \in App /\ b.started = a.started /\ b.release = a.release
              /\ b.page = a.page /\ b.socket = a.socket /\ b.leaked = a.leaked
              /\ b.reconnect = a.reconnect
         /\ OnOpen(a).status = "open" /\ OnError(a).status = "error"
         /\ MarkActivity(a).status = a.status
BY ZenonT(60) DEF OnOpen, OnError, MarkActivity, SetSocketState, App

-----------------------------------------------------------------------------
(* The page *)

\* Only the page is changed, and not what it thinks of the link.
OnlyPage(a, b) == \E p \in Page : b = [a EXCEPT !.page = p]

LEMMA OnlyPageKeeps ==
  ASSUME NEW a \in App, NEW b, OnlyPage(a, b)
  PROVE  /\ b \in App /\ b.page \in Page
         /\ b.started = a.started /\ b.release = a.release /\ b.reconnect = a.reconnect
         /\ b.socket = a.socket /\ b.leaked = a.leaked /\ b.status = a.status
BY DEF OnlyPage, App

LEMMA RefreshOK ==
  ASSUME NEW a \in App
  PROVE  LET b == Refresh(a)
         IN  /\ OnlyPage(a, b)
             /\ b.page.on = a.page.on /\ Wants(b.page) = Wants(a.page)
<1> DEFINE p == IF a.page.fetch # NoFetch THEN [a.page EXCEPT !.queued = TRUE]
                ELSE [a.page EXCEPT !.fetch = NewFetch]
<1>1. NewFetch \in Fetch
  BY DEF NewFetch, Fetch, Nothing
<1>2. a.page \in Page
  BY DEF App
<1>3. p \in Page /\ p.on = a.page.on /\ p.kind = a.page.kind /\ p.job = a.page.job
      /\ p.loading = a.page.loading
  BY <1>1, <1>2 DEF Page
<1>4. Refresh(a) = [a EXCEPT !.page = p]
  BY DEF Refresh, App
<1> HIDE DEF p
<1>5. [a EXCEPT !.page = p].page = p
  BY DEF App
<1>6. QED
  BY <1>3, <1>4, <1>5 DEF OnlyPage, Wants

\* The page is in step with the link after every render.
LEMMA BootstrapOK ==
  ASSUME NEW a \in App, Sockets(a), Retained(a)
  PROVE  LET b == Bootstrap(a)
         IN  /\ b \in App /\ Sockets(b) /\ Retained(b) /\ SameLink(a, b)
             /\ b.page.on = Wants(b.page) /\ Wants(b.page) = Wants(a.page)
             /\ b.page = [a.page EXCEPT !.on = Wants(a.page)]
<1> DEFINE w == Wants(a.page)
           p == [a.page EXCEPT !.on = w]
           c == [a EXCEPT !.page = p]
<1>1. a.page \in Page /\ w \in BOOLEAN
  BY DEF App, Page, Wants
<1>2. w = CASE a.page.kind = "reader" -> ~a.page.loading /\ a.page.job = "open"
            [] OTHER -> a.page.kind = "live"
  BY DEF Wants
<1>3. Bootstrap(a) = CASE w /\ ~a.page.on -> Retain(c)
                       [] a.page.on /\ ~w -> Release(c)
                       [] OTHER -> c
  BY <1>2 DEF Bootstrap, App
<1> HIDE DEF w
<1>4. p \in Page /\ p.on = w /\ p.kind = a.page.kind /\ p.job = a.page.job
      /\ p.loading = a.page.loading
  BY <1>1 DEF Page
<1>5. Wants(p) = w
  BY <1>4 DEF Wants, w
<1> HIDE DEF p
<1>6. /\ c \in App /\ c.page = p
      /\ c.started = a.started /\ c.release = a.release /\ c.reconnect = a.reconnect
      /\ c.socket = a.socket /\ c.leaked = a.leaked /\ c.status = a.status
  BY <1>4 DEF App
<1> HIDE DEF c
<1>7. Sockets(c) /\ LinkOf(c) = LinkOf(a)
  BY <1>6 DEF Sockets, LinkOf
<1>8. CASE w /\ ~a.page.on
  <2>1. Bootstrap(a) = Retain(c)
    BY <1>3, <1>8
  <2>2. QED
    BY <1>1, <1>4, <1>5, <1>6, <1>7, <1>8, <2>1, RetainOK, ZenonT(60) DEF Retained, SameLink, LinkOf, Sockets, w, p
<1>9. CASE a.page.on /\ ~w
  <2>1. Bootstrap(a) = [c EXCEPT !.release = TRUE]
    BY <1>3, <1>9 DEF Release
  <2> DEFINE d == [c EXCEPT !.release = TRUE]
  <2>2. /\ d \in App /\ d.page = p /\ d.release
        /\ d.started = a.started /\ d.reconnect = a.reconnect
        /\ d.socket = a.socket /\ d.leaked = a.leaked /\ d.status = a.status
    BY <1>6 DEF App
  <2> HIDE DEF d
  <2>3. Sockets(d) /\ Retained(d) /\ SameLink(a, d)
    BY <1>4, <1>9, <2>2 DEF Retained, SameLink, LinkOf, Sockets
  <2>4. QED
    BY <1>4, <1>5, <2>1, <2>2, <2>3 DEF d, w, p
<1>10. CASE w = a.page.on
  BY <1>1, <1>3, <1>4, <1>5, <1>6, <1>7, <1>10 DEF Retained, SameLink, w, p
<1>11. QED
  BY <1>1, <1>8, <1>9, <1>10 DEF App, Page

\* What every operator that renders a page establishes.
Settles(a, b) ==
  /\ b \in App /\ Sockets(b) /\ Retained(b) /\ SameLink(a, b)
  /\ b.page.on = Wants(b.page)

LEMMA OnlyPageSound ==
  ASSUME NEW a \in App, NEW b, OnlyPage(a, b)
  PROVE  /\ Sockets(a) => Sockets(b)
         /\ LinkOf(b) = LinkOf(a)
         /\ b.page.on = a.page.on => (Retained(a) => Retained(b))
         /\ b.page.on = a.page.on => SameLink(a, b)
         /\ \A c : OnlyPage(b, c) => OnlyPage(a, c)
         /\ \A c : SameLink(b, c) => SameLink(a, c)
<1>1. /\ b \in App /\ b.page \in Page
      /\ b.started = a.started /\ b.release = a.release /\ b.reconnect = a.reconnect
      /\ b.socket = a.socket /\ b.leaked = a.leaked /\ b.status = a.status
  BY OnlyPageKeeps
<1>2. ASSUME NEW c, OnlyPage(b, c) PROVE OnlyPage(a, c)
  BY <1>2, ZenonT(60) DEF OnlyPage, App
<1>3. QED
  BY <1>1, <1>2 DEF Sockets, Retained, SameLink, LinkOf

LEMMA EffectsOK ==
  ASSUME NEW a, NEW b \in App, Sockets(b), Retained(b)
  PROVE  LET c == Effects(a, b)
         IN  Settles(b, c) /\ c.page.on = Wants(b.page)
<1> DEFINE p == [b.page EXCEPT !.retries = 0]
           r == [b EXCEPT !.page = p]
<1>1. b.page \in Page /\ MaxRetries \in Nat
  BY FeedAssumption DEF App
<1>2. p \in Page /\ p.on = b.page.on /\ Wants(p) = Wants(b.page)
  BY <1>1 DEF Page, Wants
<1>3. r = [b EXCEPT !.page.retries = 0] /\ r.page = p
  BY DEF App
<1> HIDE DEF p
<1>4. OnlyPage(b, r)
  BY <1>2 DEF OnlyPage
<1> HIDE DEF r
<1>5. Effects(a, b) = Bootstrap(Refresh(r)) \/ Effects(a, b) = Bootstrap(b)
  BY <1>3 DEF Effects
<1>6. r \in App
  BY <1>4, OnlyPageKeeps
<1>7. /\ OnlyPage(b, Refresh(r))
      /\ Refresh(r).page.on = b.page.on /\ Wants(Refresh(r).page) = Wants(b.page)
  BY <1>2, <1>3, <1>4, <1>6, RefreshOK, OnlyPageSound
<1>8. /\ Refresh(r) \in App /\ Sockets(Refresh(r)) /\ Retained(Refresh(r))
      /\ \A c : SameLink(Refresh(r), c) => SameLink(b, c)
  BY <1>7, OnlyPageKeeps, OnlyPageSound
<1>9. QED
  BY <1>5, <1>7, <1>8, BootstrapOK DEF Settles

LEMMA SettledOK ==
  ASSUME NEW a \in App, Sockets(a), Retained(a)
  PROVE  Settles(a, Settled(a))
<1> DEFINE p == [a.page EXCEPT !.fetch = NoFetch, !.queued = FALSE, !.loading = FALSE]
           b == [a EXCEPT !.page = p]
<1>1. a.page \in Page /\ NoFetch \in Fetch
  BY DEF App, NoFetch, Fetch, Nothing
<1>2. p \in Page /\ p.on = a.page.on
  BY <1>1 DEF Page
<1>3. b = [a EXCEPT !.page.fetch = NoFetch, !.page.queued = FALSE, !.page.loading = FALSE]
  BY DEF App
<1>4. b.page = p
  BY DEF App
<1> HIDE DEF p
<1>5. OnlyPage(a, b)
  BY <1>2 DEF OnlyPage
<1>6. Settled(a) = Bootstrap(IF a.page.queued THEN Refresh(b) ELSE b)
  BY <1>3 DEF Settled
<1> HIDE DEF b
<1>7. b \in App
  BY <1>5, OnlyPageKeeps
<1> DEFINE c == IF a.page.queued THEN Refresh(b) ELSE b
<1>8. OnlyPage(a, c) /\ c.page.on = a.page.on
  BY <1>2, <1>4, <1>5, <1>7, RefreshOK, OnlyPageSound
<1> HIDE DEF c
<1>9. /\ c \in App /\ Sockets(c) /\ Retained(c)
      /\ \A d : SameLink(c, d) => SameLink(a, d)
  BY <1>8, OnlyPageKeeps, OnlyPageSound
<1>10. QED
  BY <1>6, <1>9, BootstrapOK DEF Settles, c

LEMMA MountOK ==
  ASSUME NEW a \in App, Sockets(a), Retained(a), NEW kind \in {"plain", "live", "reader"}
  PROVE  Settles(a, Mount(a, kind))
<1> DEFINE left == IF a.page.on THEN Release(a) ELSE a
           p    == NoPage(kind)
           n    == [left EXCEPT !.page = p]
<1>1. p \in Page /\ p.on = FALSE /\ (kind = "reader" => Wants(p) = FALSE)
  BY FeedAssumption DEF NoPage, NoFetch, Page, Fetch, Nothing, Wants
<1>2. /\ left \in App
      /\ left.started = a.started /\ left.reconnect = a.reconnect /\ left.socket = a.socket
      /\ left.leaked = a.leaked /\ left.status = a.status
      /\ a.started => left.release
  BY DEF Release, App, Retained
<1>3. Mount(a, kind) = IF kind = "reader" THEN Refresh(n) ELSE Bootstrap(n)
  BY DEF Mount
<1> HIDE DEF left, p
<1>4. /\ n \in App /\ n.page = p /\ OnlyPage(left, n)
      /\ n.started = a.started /\ n.reconnect = a.reconnect /\ n.socket = a.socket
      /\ n.leaked = a.leaked /\ n.status = a.status /\ n.release = left.release
  BY <1>1, <1>2 DEF App, OnlyPage
<1> HIDE DEF n
<1>5. /\ Sockets(n) /\ Retained(n) /\ SameLink(a, n)
      /\ \A c : SameLink(n, c) => SameLink(a, c)
  BY <1>1, <1>2, <1>4 DEF Sockets, Retained, SameLink, LinkOf
<1>6. CASE kind = "reader"
  <2>1. /\ OnlyPage(n, Refresh(n)) /\ Refresh(n).page.on = FALSE
        /\ Wants(Refresh(n).page) = FALSE
    BY <1>1, <1>4, <1>6, RefreshOK
  <2>2. QED
    BY <1>1, <1>3, <1>4, <1>5, <1>6, <2>1, OnlyPageKeeps, OnlyPageSound DEF Settles
<1>7. CASE kind # "reader"
  BY <1>3, <1>4, <1>5, <1>7, BootstrapOK DEF Settles
<1>8. QED
  BY <1>6, <1>7

-----------------------------------------------------------------------------
(* The invariant, and what one step may do to the link *)

History == [upsets : Nat, behind : Reasons \cup {"no"}, late : BOOLEAN]

IInv ==
  /\ srv \in [job : BOOLEAN, written : SUBSET Chunk]
  /\ calls \subseteq [written : SUBSET Chunk, crossed : BOOLEAN]
  /\ hist \in History
  /\ app \in App /\ Sockets(app) /\ Retained(app)
  /\ app.page.on = Wants(app.page)
  /\ ~hist.late => Single(app)

\* A step of LiveLink, or none, seen on two states of the client.
LinkMoves(a, b) ==
  \/ b.page.on = a.page.on /\ LinkOf(b) = LinkOf(a)
  \/ /\ ~a.page.on /\ b.page.on
     /\ LinkOf(b) = IF LinkOf(a) = "off" THEN "trying" ELSE LinkOf(a)
  \/ a.page.on /\ ~b.page.on /\ LinkOf(b) = LinkOf(a)
  \/ ~a.page.on /\ ~b.page.on /\ LinkOf(a) # "off" /\ LinkOf(b) = "off"
  \/ b.page.on = a.page.on /\ LinkOf(a) = "trying" /\ LinkOf(b) = "on"
  \/ b.page.on = a.page.on /\ LinkOf(a) = "on" /\ LinkOf(b) = "trying"

\* The client after a step: sound, and moved as LiveLink allows.
Moved ==
  /\ app' \in App /\ Sockets(app') /\ Retained(app')
  /\ app'.page.on = Wants(app'.page)
  /\ LinkMoves(app, app')

LEMMA SettlesMoves ==
  ASSUME NEW a \in App, Retained(a), NEW b, Settles(a, b)
  PROVE  LinkMoves(a, b)
<1>1. a.page.on \in BOOLEAN /\ b.page.on \in BOOLEAN
  BY DEF App, Page, Settles
<1>2. QED
  BY <1>1 DEF Settles, SameLink, LinkMoves, LinkOf, Retained

\* A step that renders the page of a client whose link it has left alone.
LEMMA SettledStep ==
  ASSUME IInv, NEW a, OnlyPage(app, a), a.page.on = app.page.on, Settles(a, app')
  PROVE  Moved /\ (Single(app) => Single(app'))
<1>1. /\ a.leaked = app.leaked /\ a.reconnect = app.reconnect /\ a.socket = app.socket
      /\ SameLink(app, app')
  BY OnlyPageKeeps, OnlyPageSound DEF IInv, Settles
<1>2. Settles(app, app')
  BY <1>1 DEF Settles
<1>3. LinkMoves(app, app')
  BY <1>2, SettlesMoves DEF IInv
<1>4. Single(app) => Single(app')
  <2> SUFFICES ASSUME Single(app) PROVE Single(app')
    OBVIOUS
  <2>1. app'.leaked = 0 /\ app'.reconnect = app.reconnect
    BY <1>1 DEF SameLink, Single
  <2>2. QED
    BY <1>1, <2>1 DEF SameLink, Single
<1>5. QED
  BY <1>2, <1>3, <1>4 DEF Moved, Settles

\* A step that changes neither the page's use of the link nor the link.
LEMMA CalmStep ==
  ASSUME IInv, OnlyPage(app, app'),
         app'.page.on = app.page.on, Wants(app'.page) = Wants(app.page)
  PROVE  Moved /\ (Single(app) => Single(app'))
<1>1. /\ app'.leaked = app.leaked /\ app'.reconnect = app.reconnect
      /\ app'.socket = app.socket /\ app' \in App
      /\ Sockets(app') /\ Retained(app') /\ LinkOf(app') = LinkOf(app)
  BY OnlyPageKeeps, OnlyPageSound DEF IInv
<1>2. QED
  BY <1>1 DEF IInv, Moved, LinkMoves, Single

-----------------------------------------------------------------------------
(* The initial state and the steps of the server and the network *)

LEMMA InitOK == Init => IInv /\ LinkOf(app) = IF app.page.on THEN "trying" ELSE "off"
<1> SUFFICES ASSUME Init PROVE IInv /\ LinkOf(app) = IF app.page.on THEN "trying" ELSE "off"
  OBVIOUS
<1> DEFINE a == [started |-> FALSE, release |-> FALSE, reconnect |-> FALSE, again |-> FALSE,
                 socket |-> NoSocket, closing |-> 0, leaked |-> 0,
                 status |-> "idle", stale |-> FALSE, page |-> NoPage("plain")]
<1>1. NoPage("plain") \in Page /\ NoPage("plain").on = FALSE
  BY FeedAssumption DEF NoPage, NoFetch, Page, Fetch, Nothing
<1>2. /\ a \in App /\ ~a.started /\ ~a.page.on /\ ~a.reconnect
      /\ a.leaked = 0 /\ a.socket = NoSocket
  BY <1>1, SocketTypes DEF App
<1>3. PICK kind \in {"plain", "live", "reader"} : app = Mount(a, kind)
  BY DEF Init
<1> HIDE DEF a
<1>4. Sockets(a) /\ Retained(a)
  BY <1>2, SocketTypes DEF Sockets, Retained
<1>5. Settles(a, app)
  BY <1>2, <1>3, <1>4, MountOK
<1>6. Single(app)
  BY <1>2, <1>5, SocketTypes DEF Settles, SameLink, Single
<1>7. LinkOf(app) = IF app.page.on THEN "trying" ELSE "off"
  <2>1. LinkOf(a) = "off"
    BY <1>2 DEF LinkOf
  <2>2. app.page.on \in BOOLEAN
    BY <1>5 DEF Settles, App, Page
  <2>3. QED
    BY <1>5, <2>1, <2>2 DEF Settles, SameLink, Retained, LinkOf
<1>8. QED
  BY <1>5, <1>6, <1>7 DEF Init, IInv, Settles, History

\* A request that was read before a change is marked, nothing else.
LEMMA CrossOK ==
  ASSUME NEW a \in App
  PROVE  LET b == Cross(a)
         IN  OnlyPage(a, b) /\ b.page.on = a.page.on /\ Wants(b.page) = Wants(a.page)
<1> DEFINE f == [a.page.fetch EXCEPT !.crossed = @ \/ a.page.fetch.chunks # Nothing]
           p == [a.page EXCEPT !.fetch = f]
<1>1. a.page \in Page /\ a.page.fetch \in Fetch
  BY DEF App, Page
<1>2. f \in Fetch
  BY <1>1 DEF Fetch
<1>3. Cross(a) = [a EXCEPT !.page = p]
  BY <1>1 DEF Cross, App, Page
<1> HIDE DEF f
<1>4. p \in Page /\ p.on = a.page.on /\ Wants(p) = Wants(a.page)
  BY <1>1, <1>2 DEF Page, Wants
<1> HIDE DEF p
<1>5. [a EXCEPT !.page = p].page = p
  BY DEF App
<1>6. QED
  BY <1>3, <1>4, <1>5 DEF OnlyPage

\* The socket is changed, and no socket is made or lost.
OnlySocket(a, b) ==
  \E k \in Socket : /\ b = [a EXCEPT !.socket = k]
                    /\ a.socket.link # "none" /\ k.link # "none"

LEMMA SocketStep ==
  ASSUME IInv, OnlySocket(app, app')
  PROVE  Moved /\ (Single(app) => Single(app'))
<1>1. PICK k \in Socket : /\ app' = [app EXCEPT !.socket = k]
                          /\ app.socket.link # "none" /\ k.link # "none"
  BY DEF OnlySocket
<1>2. /\ app' \in App /\ app'.socket = k /\ app'.page = app.page
      /\ app'.started = app.started /\ app'.release = app.release
      /\ app'.reconnect = app.reconnect /\ app'.leaked = app.leaked
      /\ app'.status = app.status
  BY <1>1 DEF IInv, App
<1>3. QED
  BY <1>1, <1>2 DEF IInv, Sockets, Retained, Single, Moved, LinkMoves, LinkOf

LEMMA BroadcastOK ==
  ASSUME IInv, NEW e \in Event
  PROVE  LET b == Broadcast(app, e)
         IN  \/ OnlySocket(app, b)
             \/ /\ OnlyPage(app, b)
                /\ b.page.on = app.page.on /\ Wants(b.page) = Wants(app.page)
<1> DEFINE k == [app.socket EXCEPT !.queue = Append(@, e)]
<1>1. CASE app.socket.hub
  <2>1. app.socket \in Socket
    BY DEF IInv, App
  <2>2. app.socket # NoSocket
    BY <1>1 DEF NoSocket
  <2>3. app.socket.link # "none"
    BY <2>2 DEF IInv, Sockets
  <2>4. k \in Socket /\ k.link = app.socket.link
    BY <2>1 DEF Socket
  <2>5. Broadcast(app, e) = [app EXCEPT !.socket = k]
    BY <1>1, <2>1 DEF Broadcast, IInv, App, Socket
  <2> HIDE DEF k
  <2>6. QED
    BY <2>3, <2>4, <2>5 DEF OnlySocket
<1>2. CASE ~app.socket.hub
  BY <1>2, CrossOK DEF Broadcast, IInv
<1>3. QED
  BY <1>1, <1>2

\* What a step does to the client, and the invariant with it.
LEMMA Lifted ==
  ASSUME IInv, Moved,
         srv' \in [job : BOOLEAN, written : SUBSET Chunk],
         calls' \subseteq [written : SUBSET Chunk, crossed : BOOLEAN],
         hist' \in History,
         ~hist'.late => ~hist.late /\ (Single(app) => Single(app'))
  PROVE  IInv' /\ LinkMoves(app, app')
BY DEF IInv, Moved, Sockets, Retained, Single, Wants

LEMMA Histories ==
  ASSUME IInv
  PROVE  /\ hist \in History
         /\ Count(hist) \in History /\ Count(hist).late = hist.late
         /\ \A h \in History, r \in Reasons \cup {"no"} :
              [h EXCEPT !.behind = r] \in History /\ [h EXCEPT !.behind = r].late = h.late
         /\ \A h \in History, r \in Reasons, w \in BOOLEAN :
              Behind(h, r, w) \in History /\ Behind(h, r, w).late = h.late
         /\ \A h \in History, b \in BOOLEAN :
              [h EXCEPT !.late = b] \in History /\ [h EXCEPT !.late = b].late = b
         /\ Reasons = {"unheard", "closed", "overwritten", "failed"}
<1>1. Count(hist) \in History /\ Count(hist).late = hist.late
  BY DEF IInv, Count, History
<1>2. ASSUME NEW h \in History, NEW r \in Reasons \cup {"no"}
      PROVE  [h EXCEPT !.behind = r] \in History /\ [h EXCEPT !.behind = r].late = h.late
  BY DEF History
<1>3. ASSUME NEW h \in History, NEW r \in Reasons, NEW w \in BOOLEAN
      PROVE  Behind(h, r, w) \in History /\ Behind(h, r, w).late = h.late
  BY <1>2 DEF History, Behind
<1>4. ASSUME NEW h \in History, NEW b \in BOOLEAN
      PROVE  [h EXCEPT !.late = b] \in History /\ [h EXCEPT !.late = b].late = b
  BY DEF History
<1>5. QED
  BY <1>1, <1>2, <1>3, <1>4 DEF IInv, Reasons

LEMMA BroadcastStep ==
  ASSUME IInv, NEW e \in Event, app' = Broadcast(app, e)
  PROVE  Moved /\ (Single(app) => Single(app'))
BY BroadcastOK, SocketStep, CalmStep

LEMMA MissedBoolean == ASSUME IInv PROVE Missed(app) \in BOOLEAN
BY DEF Missed

LEMMA WriteChunkStep == ASSUME IInv, WriteChunk PROVE IInv' /\ LinkMoves(app, app')
<1> PICK c \in Chunk \ srv.written :
       /\ srv' = [srv EXCEPT !.written = @ \cup {c}]
       /\ app' = Broadcast(app, [type |-> "chunk", chunk |-> c, done |-> Done(srv'.written)])
  BY DEF WriteChunk
<1>1. [type |-> "chunk", chunk |-> c, done |-> Done(srv'.written)] \in Event
  BY DEF Event, Done
<1>2. srv' \in [job : BOOLEAN, written : SUBSET Chunk]
  BY DEF IInv
<1>3. Missed(app) \in BOOLEAN /\ hist' = Behind(hist, "unheard", Missed(app))
  BY MissedBoolean DEF WriteChunk
<1>4. /\ hist' \in History /\ hist'.late = hist.late
  <2>1. "unheard" \in Reasons /\ hist \in History
    BY Histories
  <2>2. PICK w \in BOOLEAN : hist' = Behind(hist, "unheard", w)
    BY <1>3
  <2> QED
    BY <2>1, <2>2, Histories
<1>5. UNCHANGED calls
  BY DEF WriteChunk
<1>6. Moved /\ (Single(app) => Single(app'))
  BY <1>1, BroadcastStep
<1>7. QED
  BY <1>2, <1>4, <1>5, <1>6, Lifted DEF IInv

LEMMA RerenderStep == ASSUME IInv, Rerender PROVE IInv' /\ LinkMoves(app, app')
<1>1. [type |-> "detail", written |-> {}] \in Event
  BY DEF Event
<1>2. Moved /\ (Single(app) => Single(app'))
  BY <1>1, BroadcastStep DEF Rerender
<1>3. srv' \in [job : BOOLEAN, written : SUBSET Chunk]
  BY DEF IInv, Rerender
<1>4. calls' \subseteq [written : SUBSET Chunk, crossed : BOOLEAN]
  <2>1. [written |-> {}, crossed |-> FALSE] \in [written : SUBSET Chunk, crossed : BOOLEAN]
    OBVIOUS
  <2>2. calls' \subseteq calls \cup {[written |-> {}, crossed |-> FALSE]}
    BY DEF Rerender
  <2>3. QED
    BY <2>1, <2>2 DEF IInv
<1>5. Missed(app) \in BOOLEAN /\ hist' = Behind(Count(hist), "unheard", Missed(app))
  BY MissedBoolean DEF Rerender
<1>6. /\ hist' \in History /\ hist'.late = hist.late
  BY <1>5, Histories
<1>7. QED
  BY <1>2, <1>3, <1>4, <1>6, Lifted

LEMMA AcceptStep == ASSUME IInv, Accept PROVE IInv' /\ LinkMoves(app, app')
<1> DEFINE k == [link |-> "up", hub |-> TRUE, queue |-> <<[type |-> "open"]>>]
<1>1. [type |-> "open"] \in Event
  BY DEF Event
<1>2. k \in Socket /\ k.link = "up"
  BY <1>1 DEF Socket
<1>3. app' = [app EXCEPT !.socket = k] /\ app.socket.link = "new" /\ UNCHANGED <<srv, calls, hist>>
  BY DEF Accept
<1> HIDE DEF k
<1>4. OnlySocket(app, app')
  BY <1>2, <1>3 DEF OnlySocket
<1>5. QED
  BY <1>3, <1>4, SocketStep, Lifted DEF IInv

LEMMA MuteStep == ASSUME IInv, Mute PROVE IInv' /\ LinkMoves(app, app')
<1>1. PICK link \in {"up", "silent"} :
        app' = [app EXCEPT !.socket.hub = FALSE, !.socket.link = link]
  BY DEF Mute
<1> DEFINE k == [app.socket EXCEPT !.hub = FALSE, !.link = link]
<1>2. app.socket \in Socket
  BY DEF IInv, App
<1>3. app' = [app EXCEPT !.socket = k]
  BY <1>1, <1>2 DEF IInv, App, Socket
<1>4. k \in Socket /\ k.link # "none"
  BY <1>2 DEF Socket
<1>5. app.socket.link # "none"
  BY DEF Mute, NoSocket, IInv, Sockets
<1> HIDE DEF k
<1>6. OnlySocket(app, app')
  BY <1>3, <1>4, <1>5 DEF OnlySocket
<1>7. QED
  BY <1>6, SocketStep, Lifted, Histories DEF IInv, Mute

LEMMA CutOK ==
  ASSUME NEW a \in App
  PROVE  LET b == Cut(a)
         IN  /\ b \in App /\ b.page = a.page
             /\ b.started = a.started /\ b.release = a.release
             /\ b.reconnect = a.reconnect /\ b.leaked = 0 /\ b.status = a.status
             /\ b.socket.link = "none" <=> a.socket.link = "none"
             /\ b.socket.link = "none" => b.socket = a.socket
<1> DEFINE k == IF a.socket.link \in {"none", "down"} THEN a.socket
                ELSE [link |-> "down", hub |-> FALSE,
                      queue |-> a.socket.queue \o <<[type |-> "error"], [type |-> "close"]>>]
           n == a.closing + a.leaked
<1>1. a.socket \in Socket /\ a.socket.queue \in Seq(Event)
  BY DEF App, Socket
<1>2. <<[type |-> "error"], [type |-> "close"]>> \in Seq(Event)
  BY DEF Event
<1>3. k \in Socket /\ (k.link = "none" <=> a.socket.link = "none")
      /\ (k.link = "none" => k = a.socket)
  BY <1>1, <1>2 DEF Socket
<1>4. n \in Nat
  BY DEF App
<1>5. Cut(a) = [a EXCEPT !.socket = k, !.leaked = 0, !.closing = n]
  BY DEF Cut, App
<1> HIDE DEF k, n
<1> DEFINE b == [a EXCEPT !.socket = k, !.leaked = 0, !.closing = n]
<1>6. /\ b \in App /\ b.socket = k /\ b.page = a.page
      /\ b.started = a.started /\ b.release = a.release
      /\ b.reconnect = a.reconnect /\ b.leaked = 0 /\ b.status = a.status
  BY <1>3, <1>4 DEF App
<1> HIDE DEF b
<1>7. QED
  BY <1>3, <1>5, <1>6 DEF b

LEMMA CutStep ==
  ASSUME IInv, app' = Cut(app)
  PROVE  Moved /\ (Single(app) => Single(app'))
BY CutOK DEF IInv, Sockets, Retained, Single, Moved, LinkMoves, LinkOf

LEMMA DropStep == ASSUME IInv, Drop PROVE IInv' /\ LinkMoves(app, app')
BY CutStep, Lifted, Histories DEF IInv, Drop

LEMMA RestartStep == ASSUME IInv, Restart PROVE IInv' /\ LinkMoves(app, app')
<1>1. srv' \in [job : BOOLEAN, written : SUBSET Chunk]
  BY DEF IInv, Restart
<1>2. QED
  BY <1>1, CutStep, Lifted, Histories DEF IInv, Restart

-----------------------------------------------------------------------------
(* The steps of the live client *)

\* A client that differs from the current one in its link, not in its page.
Relinked(a) ==
  /\ a \in App /\ Sockets(a) /\ Retained(a) /\ a.page = app.page
  /\ \/ LinkOf(a) = LinkOf(app)
     \/ {LinkOf(a), LinkOf(app)} = {"trying", "on"}
     \/ ~a.page.on /\ LinkOf(app) # "off" /\ LinkOf(a) = "off"

\* The client after the effects of a step that did not concern its page.
LEMMA RelinkedStep ==
  ASSUME IInv, NEW a, Relinked(a), app' = Effects(app, a)
  PROVE  Moved /\ (Single(a) => Single(app'))
<1>1. Settles(a, app') /\ app'.page.on = Wants(a.page)
  BY EffectsOK DEF Relinked
<1>2. app'.page.on = app.page.on /\ a.page.on = app.page.on
  BY <1>1 DEF IInv, Relinked
<1>3. app.page.on \in BOOLEAN
  BY DEF IInv, App, Page
<1>4. LinkOf(app') = LinkOf(a)
  BY <1>1, <1>2 DEF Settles, SameLink, Relinked, Retained, LinkOf
<1>5. LinkMoves(app, app')
  BY <1>2, <1>3, <1>4 DEF Relinked, LinkMoves, LinkOf
<1>6. Single(a) => Single(app')
  BY <1>1 DEF Settles, SameLink, Single
<1>7. QED
  BY <1>1, <1>5, <1>6 DEF Settles, Moved

\* The socket with its first event taken.
LEMMA TakenOK ==
  ASSUME IInv, app.socket.queue # <<>>
  PROVE  LET a == [app EXCEPT !.socket.queue = Tail(@)]
             e == Head(app.socket.queue)
         IN  /\ a \in App /\ a.page = app.page /\ a.started /\ app.started
             /\ a.socket.link = app.socket.link /\ a.socket.link # "none"
             /\ a.release = app.release /\ a.reconnect = app.reconnect
             /\ a.leaked = app.leaked /\ a.status = app.status
             /\ e \in Event
<1> DEFINE k == [app.socket EXCEPT !.queue = Tail(@)]
<1>1. app \in App /\ app.socket \in Socket /\ app.socket.queue \in Seq(Event)
  BY DEF IInv, App, Socket
<1>2. k \in Socket /\ k.link = app.socket.link
  BY <1>1 DEF Socket
<1>3. app.socket # NoSocket
  BY DEF NoSocket
<1>4. app.socket.link # "none" /\ app.started
  BY <1>1, <1>3 DEF IInv, Sockets, App
<1>5. Head(app.socket.queue) \in Event
  BY <1>1
<1>6. [app EXCEPT !.socket.queue = Tail(@)] = [app EXCEPT !.socket = k]
  BY <1>1 DEF App, Socket
<1> HIDE DEF k
<1>7. LET a == [app EXCEPT !.socket = k]
      IN  /\ a \in App /\ a.page = app.page /\ a.started = app.started /\ a.socket = k
          /\ a.release = app.release /\ a.reconnect = app.reconnect
          /\ a.leaked = app.leaked /\ a.status = app.status
  BY <1>1, <1>2 DEF App
<1>8. QED
  BY <1>2, <1>4, <1>5, <1>6, <1>7

LEMMA MessageOK ==
  ASSUME NEW a \in App, NEW e \in Event, e.type \in {"chunk", "detail"}
  PROVE  OnlyPage(a, PageEvent(a, e)) /\ PageEvent(a, e).page.on = a.page.on
<1>1. a.page \in Page
  BY DEF App
<1>2. /\ e.type = "chunk" => e.chunk \in Chunk
      /\ e.type = "detail" => e.written \in SUBSET Chunk
  BY DEF Event
<1> DEFINE Put(w, job) == [[a EXCEPT !.page.chunks = w] EXCEPT !.page.job = job]
<1>3. ASSUME NEW w \in SUBSET Chunk, NEW job \in {"open", "done"}
      PROVE  OnlyPage(a, Put(w, job)) /\ Put(w, job).page.on = a.page.on
  <2> DEFINE p == [a.page EXCEPT !.chunks = w, !.job = job]
             b == Put(w, job)
  <2>1. p \in Page /\ p.on = a.page.on
    BY <1>1 DEF Page
  <2>2. b = [a EXCEPT !.page = p]
    BY <1>1 DEF App, Page
  <2> HIDE DEF p
  <2>3. [a EXCEPT !.page = p].page = p
    BY DEF App
  <2> HIDE DEF b
  <2>4. QED
    BY <2>1, <2>2, <2>3 DEF OnlyPage, b
<1>4. CASE a.page.job = "none"
  <2>1. PageEvent(a, e) = a
    BY <1>4 DEF PageEvent
  <2>2. OnlyPage(a, a)
    BY <1>1 DEF OnlyPage, App
  <2>3. QED
    BY <2>1, <2>2
<1>5. CASE a.page.job # "none" /\ e.type = "chunk"
  <2> DEFINE w == a.page.chunks \cup {e.chunk}
             job == IF e.done THEN "done" ELSE "open"
  <2>1. w \in SUBSET Chunk /\ job \in {"open", "done"}
    BY <1>1, <1>2, <1>5 DEF Page
  <2>2. PageEvent(a, e) = Put(w, job)
    BY <1>5 DEF PageEvent, PatchChunk, PatchSummary, UpsertChunk
  <2> HIDE DEF w, job, Put
  <2>3. QED
    BY <1>3, <2>1, <2>2
<1>6. CASE a.page.job # "none" /\ e.type = "detail"
  <2> DEFINE w == e.written
             job == IF Done(e.written) THEN "done" ELSE "open"
  <2>1. w \in SUBSET Chunk /\ job \in {"open", "done"}
    BY <1>2, <1>6
  <2>2. PageEvent(a, e) = Put(w, job)
    BY <1>6 DEF PageEvent, PatchDetail, PatchSummary
  <2> HIDE DEF w, job, Put
  <2>3. QED
    BY <1>3, <2>1, <2>2
<1>7. QED
  BY <1>4, <1>5, <1>6

LEMMA CallsCrossed ==
  ASSUME IInv
  PROVE  {[c EXCEPT !.crossed = TRUE] : c \in calls} \subseteq [written : SUBSET Chunk, crossed : BOOLEAN]
BY DEF IInv

LEMMA SocketEventStep == ASSUME IInv, SocketEvent PROVE IInv' /\ LinkMoves(app, app')
<1> DEFINE e == Head(app.socket.queue)
           a == [app EXCEPT !.socket.queue = Tail(@)]
<1>1. /\ a \in App /\ a.page = app.page /\ a.started /\ app.started
      /\ a.socket.link = app.socket.link /\ a.socket.link # "none"
      /\ a.release = app.release /\ a.reconnect = app.reconnect
      /\ a.leaked = app.leaked /\ a.status = app.status
      /\ e \in Event
  BY TakenOK DEF SocketEvent
<1>2. app' = Effects(app, CASE e.type = "open"  -> OnOpen(a)
                            [] e.type = "error" -> OnError(a)
                            [] e.type = "close" -> OnClose([a EXCEPT !.socket = NoSocket])
                            [] OTHER -> OnMessage(Cross(a), e))
  BY DEF SocketEvent
<1>3. srv' = srv /\ hist' = hist
  BY DEF SocketEvent
<1>4. calls' \subseteq [written : SUBSET Chunk, crossed : BOOLEAN]
  BY CallsCrossed DEF SocketEvent, IInv
<1>5. app \in App /\ Sockets(app) /\ Retained(app)
  BY DEF IInv
<1> HIDE DEF e, a
<1>6. Sockets(a) /\ Retained(a) /\ (Single(app) => Single(a))
  BY <1>1, <1>5 DEF Sockets, Retained, Single
<1>7. Moved /\ (Single(app) => Single(app'))
  <2>1. CASE e.type = "open"
    <3> DEFINE b == OnOpen(a)
    <3>1. /\ b \in App /\ b.started = a.started /\ b.release = a.release /\ b.page = a.page
          /\ b.socket = a.socket /\ b.leaked = a.leaked /\ b.reconnect = a.reconnect
          /\ b.status = "open"
      BY <1>1, ListenersOK
    <3>2. app' = Effects(app, b)
      BY <1>2, <2>1
    <3> HIDE DEF b
    <3>3. Relinked(b) /\ (Single(app) => Single(b))
      BY <1>1, <1>6, <3>1 DEF Relinked, Sockets, Retained, Single, LinkOf
    <3>4. QED
      BY <3>2, <3>3, RelinkedStep
  <2>2. CASE e.type = "error"
    <3> DEFINE b == OnError(a)
    <3>1. /\ b \in App /\ b.started = a.started /\ b.release = a.release /\ b.page = a.page
          /\ b.socket = a.socket /\ b.leaked = a.leaked /\ b.reconnect = a.reconnect
          /\ b.status = "error"
      BY <1>1, ListenersOK
    <3>2. app' = Effects(app, b)
      BY <1>2, <2>2
    <3> HIDE DEF b
    <3>3. Relinked(b) /\ (Single(app) => Single(b))
      BY <1>1, <1>6, <3>1 DEF Relinked, Sockets, Retained, Single, LinkOf
    <3>4. QED
      BY <3>2, <3>3, RelinkedStep
  <2>3. CASE e.type = "close"
    <3> DEFINE c == [a EXCEPT !.socket = NoSocket]
               b == ScheduleReconnect(c)
    <3>1. /\ c \in App /\ c.started /\ c.release = a.release /\ c.page = a.page
          /\ c.socket = NoSocket /\ c.leaked = a.leaked /\ c.reconnect = a.reconnect
          /\ c.status = a.status
      BY <1>1, SocketTypes DEF App
    <3>2. app' = Effects(app, b)
      BY <1>2, <2>3 DEF OnClose
    <3> HIDE DEF c
    <3>3. /\ b \in App /\ b.started /\ b.release = a.release
          /\ b.page = a.page /\ b.socket = NoSocket /\ b.leaked = a.leaked
          /\ b.reconnect /\ (b.status = a.status \/ b.status = "reconnecting")
      BY <3>1, ScheduleReconnectOK
    <3> HIDE DEF b
    <3>4. Relinked(b) /\ (Single(app) => Single(b))
      BY <1>1, <1>6, <3>3, SocketTypes DEF Relinked, Sockets, Retained, Single, LinkOf
    <3>5. QED
      BY <3>2, <3>4, RelinkedStep
  <2>4. CASE e.type \in {"chunk", "detail"}
    <3> DEFINE c == Cross(a)
               m == MarkActivity(c)
               b == PageEvent(m, e)
    <3>1. OnlyPage(a, c) /\ c.page.on = a.page.on /\ c \in App
      BY <1>1, CrossOK, OnlyPageKeeps
    <3>2. app' = Effects(app, b)
      BY <1>2, <2>4 DEF OnMessage
    <3> HIDE DEF c
    <3>3. /\ m \in App /\ m.started = c.started /\ m.release = c.release
          /\ m.page = c.page /\ m.socket = c.socket /\ m.leaked = c.leaked
          /\ m.reconnect = c.reconnect /\ m.status = c.status
      BY <3>1, ListenersOK
    <3> HIDE DEF m
    <3>4. OnlyPage(m, b) /\ b.page.on = m.page.on
      BY <1>1, <2>4, <3>3, MessageOK
    <3> HIDE DEF b
    <3>5. /\ b \in App /\ b.page.on = app.page.on /\ b.started = app.started
          /\ b.release = app.release /\ b.reconnect = app.reconnect
          /\ b.socket = a.socket /\ b.leaked = app.leaked /\ b.status = app.status
      <4>1. /\ c.started = a.started /\ c.release = a.release /\ c.reconnect = a.reconnect
            /\ c.socket = a.socket /\ c.leaked = a.leaked /\ c.status = a.status
        BY <1>1, <3>1, OnlyPageKeeps
      <4>2. /\ b \in App /\ b.started = m.started /\ b.release = m.release
            /\ b.reconnect = m.reconnect /\ b.socket = m.socket /\ b.leaked = m.leaked
            /\ b.status = m.status
        BY <3>3, <3>4, OnlyPageKeeps
      <4>3. QED
        BY <1>1, <3>1, <3>3, <3>4, <4>1, <4>2
    <3>6. /\ Sockets(b) /\ Retained(b) /\ LinkOf(b) = LinkOf(app)
          /\ (Single(app) => Single(b))
      BY <1>1, <1>5, <1>6, <3>5 DEF Sockets, Retained, Single, LinkOf
    <3>7. Settles(b, app')
      BY <3>2, <3>5, <3>6, EffectsOK
    <3>8. LinkMoves(b, app')
      BY <3>5, <3>6, <3>7, SettlesMoves
    <3>9. LinkMoves(app, app')
      BY <3>5, <3>6, <3>8 DEF LinkMoves
    <3>10. QED
      BY <3>6, <3>7, <3>9 DEF Moved, Settles, SameLink, Single
  <2>5. QED
    BY <1>1, <2>1, <2>2, <2>3, <2>4 DEF Event
<1>8. QED
  BY <1>3, <1>4, <1>7, Lifted DEF IInv

LEMMA OldCloseStep == ASSUME IInv, OldClose PROVE IInv' /\ LinkMoves(app, app')
<1> DEFINE a == [app EXCEPT !.closing = @ - 1]
           b == ScheduleReconnect(a)
<1>1. app \in App /\ Sockets(app) /\ Retained(app)
  BY DEF IInv
<1>2. app.closing - 1 \in Nat
  BY <1>1 DEF OldClose, App
<1>3. /\ a \in App /\ a.started = app.started /\ a.release = app.release /\ a.page = app.page
      /\ a.socket = app.socket /\ a.leaked = app.leaked /\ a.reconnect = app.reconnect
      /\ a.status = app.status
  BY <1>1, <1>2 DEF App
<1>4. app' = Effects(app, b) /\ UNCHANGED <<srv, calls>>
  BY DEF OldClose, OnClose
<1> HIDE DEF a
<1>5. /\ b \in App /\ b.started = app.started /\ b.release = app.release
      /\ b.page = app.page /\ b.socket = app.socket /\ b.leaked = app.leaked
      /\ b.reconnect = (app.reconnect \/ app.started)
      /\ b = a \/ (app.started /\ b.status = "reconnecting")
  BY <1>3, ScheduleReconnectOK
<1> HIDE DEF b
<1>6. Relinked(b) /\ (~app.started => (Single(app) => Single(b)))
  BY <1>1, <1>3, <1>5 DEF Relinked, Sockets, Retained, Single, LinkOf
<1>7. Moved /\ (Single(b) => Single(app'))
  BY <1>4, <1>6, RelinkedStep
<1>8. hist' \in History /\ (~hist'.late => ~app.started /\ ~hist.late)
  <2>1. CASE ~app.started /\ UNCHANGED hist
    BY <2>1, Histories
  <2>2. CASE hist' = [Count(hist) EXCEPT !.late = TRUE]
    BY <2>2, Histories
  <2>3. QED
    BY <2>1, <2>2 DEF OldClose
<1>9. QED
  BY <1>4, <1>6, <1>7, <1>8, Lifted DEF IInv

LEMMA ReconnectStep == ASSUME IInv, ReconnectFires PROVE IInv' /\ LinkMoves(app, app')
<1> DEFINE a == [app EXCEPT !.reconnect = FALSE]
           b == Connect(a)
<1>1. app \in App /\ Sockets(app) /\ Retained(app) /\ app.started
  BY DEF IInv, ReconnectFires, Sockets
<1>2. /\ a \in App /\ a.started /\ a.release = app.release /\ a.page = app.page
      /\ a.socket = app.socket /\ a.leaked = app.leaked /\ ~a.reconnect
  BY <1>1 DEF App
<1>3. app' = Effects(app, b) /\ UNCHANGED <<srv, calls, hist>> /\ app.reconnect
  BY DEF ReconnectFires
<1> HIDE DEF a
<1>4. /\ b \in App /\ b.started /\ b.page = app.page /\ b.release = app.release
      /\ ~b.reconnect /\ b.socket.link = "new" /\ b.socket # NoSocket
      /\ b.leaked = IF app.socket.link \in {"none", "down"} THEN app.leaked ELSE app.leaked + 1
      /\ b.status \in {"reconnecting", "connecting"}
  BY <1>2, ConnectOK
<1> HIDE DEF b
<1>5. Relinked(b) /\ (Single(app) => Single(b))
  BY <1>1, <1>3, <1>4 DEF Relinked, Sockets, Retained, Single, LinkOf
<1>6. Moved /\ (Single(b) => Single(app'))
  BY <1>3, <1>5, RelinkedStep
<1>7. QED
  BY <1>3, <1>5, <1>6, Lifted DEF IInv

LEMMA ReleaseStep == ASSUME IInv, ReleaseFires PROVE IInv' /\ LinkMoves(app, app')
<1> DEFINE a == [app EXCEPT !.release = FALSE]
           lost == /\ ~a.page.on /\ Holds(a)
                   /\ \E i \in DOMAIN a.socket.queue :
                        a.socket.queue[i].type \in {"chunk", "detail"}
           b == IF lost THEN Cross(a) ELSE a
           c == IF b.page.on THEN b ELSE Stop(b)
<1>1. /\ app' = Effects(app, c)
      /\ hist' = Behind(hist, "closed", lost)
      /\ UNCHANGED <<srv, calls>>
  BY DEF ReleaseFires
<1>2. app \in App /\ Sockets(app) /\ Retained(app) /\ app.page.on = Wants(app.page)
  BY DEF IInv
<1>3. /\ a \in App /\ a.started = app.started /\ a.page = app.page
      /\ a.socket = app.socket /\ a.leaked = app.leaked /\ a.reconnect = app.reconnect
      /\ a.status = app.status
  BY <1>2 DEF App
<1>4. lost \in BOOLEAN
  OBVIOUS
<1> HIDE DEF a, lost
<1>5. /\ b \in App /\ b.started = app.started /\ b.socket = app.socket
      /\ b.leaked = app.leaked /\ b.reconnect = app.reconnect /\ b.status = app.status
      /\ b.page.on = app.page.on /\ Wants(b.page) = Wants(app.page)
  BY <1>3, <1>4, CrossOK, OnlyPageKeeps
<1> HIDE DEF b
<1>6. b.page.on \in BOOLEAN
  BY <1>5 DEF App, Page
<1>7. /\ c \in App /\ Sockets(c) /\ Retained(c) /\ (Single(app) => Single(c))
      /\ c.page.on = app.page.on /\ Wants(c.page) = Wants(app.page)
      /\ IF app.page.on THEN LinkOf(c) = LinkOf(app) ELSE LinkOf(c) = "off"
  <2>1. CASE b.page.on
    BY <1>2, <1>5, <2>1 DEF Sockets, Retained, Single, LinkOf
  <2>2. CASE ~b.page.on
    BY <1>2, <1>5, <2>2, StopOK, SocketTypes DEF Sockets, Retained, Single, LinkOf
  <2>3. QED
    BY <2>1, <2>2
<1>8. app' = Effects(app, c)
  BY <1>1
<1> HIDE DEF c
<1>9. Settles(c, app') /\ app'.page.on = app.page.on
  BY <1>2, <1>7, <1>8, EffectsOK
<1>10. LinkOf(app') = LinkOf(c)
  BY <1>7, <1>9 DEF Settles, SameLink, Retained, LinkOf
<1>11. LinkMoves(app, app')
  BY <1>5, <1>6, <1>7, <1>9, <1>10 DEF LinkMoves
<1>12. Moved /\ (Single(c) => Single(app'))
  BY <1>9, <1>11 DEF Moved, Settles, SameLink, Single
<1>13. hist' \in History /\ hist'.late = hist.late
  BY <1>1, <1>4, Histories
<1>14. QED
  BY <1>1, <1>7, <1>12, <1>13, Lifted DEF IInv

LEMMA StaleStep == ASSUME IInv, StaleFires PROVE IInv' /\ LinkMoves(app, app')
<1>1. app \in App /\ app.status \in {"idle", "connecting", "open", "reconnecting", "error"}
  BY DEF IInv, App
<1>2. /\ app' \in App /\ app'.status = app.status
      /\ app'.started = app.started /\ app'.release = app.release /\ app'.page = app.page
      /\ app'.reconnect = app.reconnect /\ app'.socket = app.socket /\ app'.leaked = app.leaked
  BY <1>1, SetSocketStateOK, ZenonT(60) DEF StaleFires
<1>3. Moved /\ (Single(app) => Single(app'))
  BY <1>2 DEF IInv, Moved, Sockets, Retained, Single, LinkMoves, LinkOf
<1>4. QED
  BY <1>3, Lifted DEF StaleFires, IInv

-----------------------------------------------------------------------------
(* The steps of the page *)

LEMMA VisitStep == ASSUME IInv, Visit \/ Redirect PROVE IInv' /\ LinkMoves(app, app')
<1>1. PICK kind \in {"plain", "live", "reader"} : app' = Mount(app, kind)
  BY DEF Visit, Redirect
<1>2. Settles(app, app')
  BY <1>1, MountOK DEF IInv
<1>3. OnlyPage(app, app)
  BY DEF OnlyPage, IInv, App
<1>4. Moved /\ (Single(app) => Single(app'))
  BY <1>2, <1>3, SettledStep
<1>5. calls' = {} /\ srv' = srv
  BY DEF Visit, Redirect
<1>6. hist' \in History /\ hist'.late = hist.late
  <2>1. CASE UNCHANGED hist
    BY <2>1, Histories
  <2>2. CASE hist' = [Count(hist) EXCEPT !.behind = "no"]
    BY <2>2, Histories
  <2>3. QED
    BY <2>1, <2>2 DEF Visit, Redirect
<1>7. QED
  BY <1>4, <1>5, <1>6, Lifted DEF IInv

LEMMA FetchReadStep == ASSUME IInv, FetchRead PROVE IInv' /\ LinkMoves(app, app')
<1>1. app.page \in Page /\ app.page.fetch \in Fetch /\ srv.written \in SUBSET Chunk
  BY DEF IInv, App, Page
<1>2. PICK f \in Fetch : app' = [app EXCEPT !.page.fetch = f]
  <2>1. ASSUME NEW job \in {"gone", "done", "open"}
        PROVE  /\ [app.page.fetch EXCEPT !.job = job] \in Fetch
               /\ [app EXCEPT !.page.fetch.job = job]
                    = [app EXCEPT !.page.fetch = [app.page.fetch EXCEPT !.job = job]]
    BY <1>1 DEF IInv, App, Page, Fetch
  <2>2. /\ [app.page.fetch EXCEPT !.chunks = srv.written] \in Fetch
        /\ [app EXCEPT !.page.fetch.chunks = srv.written]
             = [app EXCEPT !.page.fetch = [app.page.fetch EXCEPT !.chunks = srv.written]]
    BY <1>1 DEF IInv, App, Page, Fetch
  <2>3. \/ \E job \in {"gone", "done", "open"} : app' = [app EXCEPT !.page.fetch.job = job]
        \/ app' = [app EXCEPT !.page.fetch.chunks = srv.written]
    BY DEF FetchRead
  <2>4. QED
    BY <2>1, <2>2, <2>3
<1> DEFINE p == [app.page EXCEPT !.fetch = f]
<1>3. app' = [app EXCEPT !.page = p]
  BY <1>2 DEF IInv, App
<1>4. p \in Page /\ p.on = app.page.on /\ Wants(p) = Wants(app.page)
  BY <1>1 DEF Page, Wants
<1> HIDE DEF p
<1>5. app'.page = p
  BY <1>3 DEF IInv, App
<1>6. OnlyPage(app, app')
  BY <1>3, <1>4 DEF OnlyPage
<1>7. QED
  BY <1>4, <1>5, <1>6, CalmStep, Lifted DEF FetchRead, IInv

\* A request that has ended, whatever it has put into the page.
LEMMA EndStep ==
  ASSUME IInv, NEW p \in Page, p.on = app.page.on, app' = Settled([app EXCEPT !.page = p])
  PROVE  Moved /\ (Single(app) => Single(app'))
<1> DEFINE a == [app EXCEPT !.page = p]
<1>1. app \in App /\ Sockets(app) /\ Retained(app)
  BY DEF IInv
<1>2. OnlyPage(app, a) /\ a.page.on = app.page.on
  BY <1>1 DEF OnlyPage, App
<1> HIDE DEF a
<1>3. a \in App /\ Sockets(a) /\ Retained(a)
  BY <1>1, <1>2, OnlyPageKeeps, OnlyPageSound
<1>4. Settles(a, app')
  BY <1>3, SettledOK DEF a
<1>5. QED
  BY <1>2, <1>4, SettledStep

LEMMA FetchAnswerStep == ASSUME IInv, FetchAnswer PROVE IInv' /\ LinkMoves(app, app')
<1> DEFINE f == app.page.fetch
<1>1. app.page \in Page /\ f \in Fetch
  BY DEF IInv, App, Page
<1>2. CASE /\ f.job \in {"open", "done"} /\ f.chunks # Nothing
           /\ app' = Settled([app EXCEPT !.page.job = f.job, !.page.chunks = f.chunks])
           /\ hist' = [hist EXCEPT !.behind = IF f.crossed THEN "overwritten" ELSE "no"]
           /\ calls' = {[c EXCEPT !.crossed = TRUE] : c \in calls}
  <2> DEFINE p == [app.page EXCEPT !.job = f.job, !.chunks = f.chunks]
  <2>1. f.chunks \in SUBSET Chunk /\ f.crossed \in BOOLEAN
    BY <1>1, <1>2 DEF Fetch
  <2>2. p \in Page /\ p.on = app.page.on
    BY <1>1, <1>2, <2>1 DEF Page
  <2>3. [app EXCEPT !.page.job = f.job, !.page.chunks = f.chunks] = [app EXCEPT !.page = p]
    BY <1>1 DEF IInv, App, Page
  <2>4. Moved /\ (Single(app) => Single(app'))
    BY <1>2, <2>2, <2>3, EndStep
  <2>5. hist' \in History /\ hist'.late = hist.late
    <3>1. (IF f.crossed THEN "overwritten" ELSE "no") \in Reasons \cup {"no"}
      BY DEF Reasons
    <3> QED
      BY <1>2, <3>1, Histories
  <2>6. QED
    BY <1>2, <2>4, <2>5, CallsCrossed, Lifted DEF IInv, FetchAnswer
<1>3. CASE /\ app' = Settled([app EXCEPT !.page.missing = TRUE])
           /\ UNCHANGED <<calls, hist>>
  <2> DEFINE p == [app.page EXCEPT !.missing = TRUE]
  <2>1. p \in Page /\ p.on = app.page.on
    BY <1>1 DEF Page
  <2>2. [app EXCEPT !.page.missing = TRUE] = [app EXCEPT !.page = p]
    BY DEF IInv, App
  <2>3. Moved /\ (Single(app) => Single(app'))
    BY <1>3, <2>1, <2>2, EndStep
  <2>4. QED
    BY <1>3, <2>3, Lifted DEF IInv, FetchAnswer
<1>4. QED
  BY <1>2, <1>3 DEF FetchAnswer

LEMMA FetchFailsStep == ASSUME IInv, FetchFails PROVE IInv' /\ LinkMoves(app, app')
<1>1. app.page \in Page /\ app = [app EXCEPT !.page = app.page]
  BY DEF IInv, App
<1>2. Moved /\ (Single(app) => Single(app'))
  BY <1>1, EndStep DEF FetchFails
<1> DEFINE last == /\ app.page.job # "none" /\ ~app.page.queued
                   /\ app.status = "open" /\ ~app.stale
<1>a. last \in BOOLEAN /\ hist' = Behind(Count(hist), "failed", last)
  BY DEF FetchFails
<1> HIDE DEF last
<1>3. hist' \in History /\ hist'.late = hist.late
  <2>1. "failed" \in Reasons /\ Count(hist) \in History
    BY Histories
  <2>2. PICK w \in BOOLEAN : hist' = Behind(Count(hist), "failed", w)
    BY <1>a
  <2> QED
    BY <2>1, <2>2, Histories
<1>4. QED
  BY <1>2, <1>3, Lifted DEF IInv, FetchFails

LEMMA RefreshStep == ASSUME IInv, Retry \/ Poll PROVE IInv' /\ LinkMoves(app, app')
<1>1. app.page \in Page
  BY DEF IInv, App
<1>2. PICK p \in Page : /\ app' = Refresh([app EXCEPT !.page = p])
                        /\ p.on = app.page.on /\ Wants(p) = Wants(app.page)
  <2>1. CASE Retry
    <3> DEFINE p == [app.page EXCEPT !.retries = @ + 1]
    <3>1. p \in Page /\ p.on = app.page.on /\ Wants(p) = Wants(app.page)
      BY <1>1, <2>1, FeedAssumption DEF Retry, Page, Wants
    <3>2. app' = Refresh([app EXCEPT !.page = p])
      BY <1>1, <2>1 DEF Retry, IInv, App, Page
    <3>3. QED
      BY <3>1, <3>2
  <2>2. CASE Poll
    <3>1. app = [app EXCEPT !.page = app.page]
      BY DEF IInv, App
    <3>2. QED
      BY <1>1, <2>2, <3>1 DEF Poll
  <2>3. QED
    BY <2>1, <2>2
<1> DEFINE a == [app EXCEPT !.page = p]
<1>3. OnlyPage(app, a) /\ a.page = p /\ a \in App
  BY DEF OnlyPage, IInv, App
<1> HIDE DEF a
<1>4. /\ OnlyPage(app, app') /\ app'.page.on = app.page.on
      /\ Wants(app'.page) = Wants(app.page)
  <2>1. app' = Refresh(a)
    BY <1>2 DEF a
  <2>2. OnlyPage(a, app') /\ app'.page.on = p.on /\ Wants(app'.page) = Wants(p)
    BY <1>3, <2>1, RefreshOK
  <2>3. QED
    BY <1>2, <1>3, <2>2, OnlyPageSound DEF IInv
<1>5. QED
  BY <1>4, CalmStep, Lifted DEF IInv, Retry, Poll

LEMMA CallAnswerStep == ASSUME IInv, CallAnswer PROVE IInv' /\ LinkMoves(app, app')
<1>1. PICK c \in calls :
        /\ calls' = calls \ {c}
        /\ app' = Bootstrap(PatchDetail(app, c.written))
        /\ hist' = Behind(hist, "overwritten", c.crossed)
  BY DEF CallAnswer
<1> DEFINE job == IF Done(c.written) THEN "done" ELSE "open"
           p == [app.page EXCEPT !.chunks = c.written, !.job = job]
           a == [app EXCEPT !.page = p]
<1>2. c.written \in SUBSET Chunk /\ app.page \in Page /\ app \in App
  BY DEF IInv, App
<1>3. p \in Page /\ p.on = app.page.on
  BY <1>2 DEF Page
<1>4. PatchDetail(app, c.written) = a
  BY <1>2 DEF PatchDetail, PatchSummary, App, Page
<1> HIDE DEF p
<1>5. OnlyPage(app, a) /\ a.page.on = app.page.on
  BY <1>2, <1>3 DEF OnlyPage, App
<1> HIDE DEF a
<1>6. a \in App /\ Sockets(a) /\ Retained(a)
  BY <1>2, <1>5, OnlyPageKeeps, OnlyPageSound DEF IInv
<1>7. Settles(a, app')
  BY <1>1, <1>4, <1>6, BootstrapOK DEF Settles
<1>8. Moved /\ (Single(app) => Single(app'))
  BY <1>5, <1>7, SettledStep
<1>9. hist' \in History /\ hist'.late = hist.late
  <2>1. c.crossed \in BOOLEAN
    BY DEF IInv
  <2> QED
    BY <1>1, <2>1, Histories
<1>10. QED
  BY <1>1, <1>8, <1>9, Lifted DEF IInv, CallAnswer

LEMMA StepOK == ASSUME IInv, [Next]_vars PROVE IInv' /\ LinkMoves(app, app')
<1>1. CASE Next
  BY <1>1, WriteChunkStep, RerenderStep, AcceptStep, DropStep, RestartStep, MuteStep,
     SocketEventStep, OldCloseStep, ReconnectStep, ReleaseStep, StaleStep,
     VisitStep, FetchReadStep, FetchAnswerStep, FetchFailsStep, RefreshStep,
     CallAnswerStep DEF Next
<1>2. CASE UNCHANGED vars
  <2>1. app' = app /\ srv' = srv /\ calls' = calls /\ hist' = hist
    BY <1>2 DEF vars
  <2>2. QED
    BY <2>1 DEF IInv, Sockets, Retained, Single, Wants, LinkMoves, LinkOf
<1>3. QED
  BY <1>1, <1>2

-----------------------------------------------------------------------------
(* The theorems *)

\* The invariant from which the others follow.
THEOREM Invariance == Spec => []IInv
BY InitOK, StepOK, PTL DEF Spec

\* Whatever is lost, answered late or left, server, client and page keep their
\* shape (the state of live-client.ts, store.ts and ReaderPage.tsx).
THEOREM TypeCorrect == Spec => []TypeOK
<1>1. IInv => TypeOK
  BY DEF IInv, TypeOK
<1>2. QED
  BY <1>1, Invariance, PTL

\* The client holds one socket, or a timer for the next, exactly while a page
\* retains it or its grace runs (retain, release and stop of live-client.ts).
THEOREM OneLinkHolds == Spec => []OneLink
<1>1. IInv => OneLink
  BY SocketTypes DEF IInv, OneLink, Sockets, Retained, Single, App
<1>2. QED
  BY <1>1, Invariance, PTL

\* The live client implements LiveLink step by step: for its pages the link is
\* only asked for, left, closed, made and lost as LiveLink says.
THEOREM LinkIsImplemented == Spec => Abstract!Init /\ [][Abstract!Next]_(Abstract!vars)
<1>1. Init => Abstract!Init
  <2>1. IInv => app.page.on \in BOOLEAN
    BY DEF IInv, App, Page
  <2>2. QED
    BY <2>1, InitOK DEF Abstract!Init, LinkOf
<1>2. IInv /\ [Next]_vars => [Abstract!Next]_(Abstract!vars)
  <2> SUFFICES ASSUME IInv, [Next]_vars PROVE [Abstract!Next]_(Abstract!vars)
    OBVIOUS
  <2>1. LinkMoves(app, app') /\ IInv'
    BY StepOK
  <2>2. app.page.on \in BOOLEAN /\ app'.page.on \in BOOLEAN
    BY <2>1 DEF IInv, App, Page
  <2>3. QED
    BY <2>1, <2>2 DEF LinkMoves, LinkOf, Abstract!Next, Abstract!Ask, Abstract!Leave,
       Abstract!Close, Abstract!ComesUp, Abstract!IsLost, Abstract!vars
<1>3. QED
  BY <1>1, <1>2, Invariance, PTL DEF Spec
=============================================================================
