------------------------------- MODULE Shelf -------------------------------
(***************************************************************************)
(* The library page and the trash page of the web client                   *)
(* (features/library), over the server's library: what a page shows, what  *)
(* the user has chosen in it, and the requests that are under way.         *)
(*                                                                         *)
(* A page is mounted anew on every change of the path (the error boundary  *)
(* of App.tsx is keyed by it): nothing of its state survives, the answers  *)
(* to its requests go nowhere, and commands that were sent are carried out *)
(* all the same.  A request is served, read and answered in separate       *)
(* steps.  The other tabs and devices of the user are Elsewhere.  Titles,  *)
(* read states and errors shown are left out; a search matches Found.      *)
(***************************************************************************)
EXTENDS Library, Sequences

Ext == INSTANCE SequencesExt

CONSTANTS
  Starts,       \* the libraries and pages to begin with: [rows, trash, on, and steps and
                \* faults that are used up]
  Rendering,    \* jobs whose rendering goes on, so that their events come
  Found,        \* what the search field or the read filter matches
  MaxSteps,     \* bound: what the user does: clicks, commands, ways to a page
  MaxEdits,     \* bound: what others do to the library
  MaxFaults,    \* bound: failed requests
  MaxFlight     \* bound: requests under way

ASSUME ShelfAssumption ==
  /\ Rendering \subseteq Jobs /\ Found \subseteq Items
  /\ {MaxSteps, MaxEdits, MaxFaults} \subseteq Nat
  /\ MaxFlight \in Nat \ {0}
  /\ \A s \in Starts : Sound(s.rows, s.trash) /\ s.faults \in Nat

VARIABLES
  page,    \* the page that is mounted
  tasks,   \* its requests, and commands of earlier pages
  hist     \* counts of the bounded events, and what the page was told

shelfVars == <<rows, trash, page, tasks, hist>>

\* What GET /library shows of the tables, and an empty listing.
Snapshot(r) == [x \in Items |-> IF r[x].state = "live" THEN r[x] ELSE NoRow("gone")]
Blank == [x \in Items |-> NoRow("gone")]

NoDialog == [kind |-> "none", items |-> <<>>, excluded |-> {}, chosen |-> {},
             busy |-> FALSE, current |-> TRUE]

NoCommand == [op |-> "none", items |-> <<>>, place |-> Root, chosen |-> {},
              order |-> [folders |-> <<>>, jobs |-> <<>>], at |-> NoEntry]

NoPage(on, f) ==
  [on |-> on, folder |-> f, loading |-> on # "reader", loaded |-> FALSE,
   snap |-> Blank, bin |-> {},            \* snapshot, entries
   selection |-> {}, anchor |-> NoEntry, organize |-> FALSE,
   filter |-> "none", dialog |-> NoDialog, drag |-> NoEntry, timer |-> "off"]

-----------------------------------------------------------------------------
(* library-model.ts *)

\* The order of the server's lists, which every stable sort here keeps.
Sorted(r, S) ==
  CHOOSE q \in Ext!SetToSeqs(S) : \A i, k \in DOMAIN q : i < k => Before(r, q[i], q[k])

\* folderContents: folders, then jobs.
FolderContents(r, p) == [folders |-> Sorted(r, Kids(r, Folders, p)),
                         jobs    |-> Sorted(r, Kids(r, Jobs, p))]

\* filterLibrary: a query finds folders and jobs, a read state only jobs.
FilterLibrary(r, filter) ==
  LET found == Live(r) \cap Found
  IN  [folders |-> IF filter = "query" THEN Sorted(r, found \cap Folders) ELSE <<>>,
       jobs    |-> Sorted(r, found \cap Jobs)]

VisibleIds(p) ==
  LET listing == IF p.filter # "none" THEN FilterLibrary(p.snap, p.filter)
                 ELSE FolderContents(p.snap, p.folder)
  IN  listing.folders \o listing.jobs

JobsInFolders(r, F) ==
  {j \in Live(r) \cap Jobs : \E f \in F : r[j].parent \in Below(r, f)}

\* selectionItems: ids that the listing no longer has are dropped.
SelectionItems(r, S) ==
  LET folders == Live(r) \cap S \cap Folders
  IN  Sorted(r, folders)
        \o Sorted(r, (Live(r) \cap S \cap Jobs) \ JobsInFolders(r, folders))

ToggleSelection(S, x) == IF x \in S THEN S \ {x} ELSE S \cup {x}

RangeSelection(ids, anchor, x) ==
  IF {anchor, x} \subseteq Members(ids)
  THEN {ids[i] : i \in {k \in DOMAIN ids : \E a, b \in DOMAIN ids :
          /\ {ids[a], ids[b]} = {anchor, x} /\ a <= k /\ k <= b}}
  ELSE {x}

\* reorderIds: x is taken out and put where the target was.
ReorderIds(ids, x, target) ==
  LET at(y)   == CHOOSE i \in DOMAIN ids : ids[i] = y
      without == IF x \in Members(ids) THEN Ext!RemoveAt(ids, at(x)) ELSE ids
      end     == Len(without) + 1
  IN  Ext!InsertAt(without, IF at(target) > end THEN end ELSE at(target), x)

ExcludedTargets(r, items) == UNION {Below(r, f) : f \in Members(items) \cap Folders}

\* MoveDialog: the destinations follow the listing, the exclusions do not.
Destinations(p) == {Root} \cup ((Live(p.snap) \cap Folders) \ p.dialog.excluded)

-----------------------------------------------------------------------------
(* Requests *)

Room == Cardinality(tasks) < MaxFlight
FreeId(ts) == CHOOSE n \in 1 .. MaxFlight + 1 : \A t \in ts : t.id # n

Task(ts, c, step, then, fresh) ==
  [id |-> FreeId(ts), cmd |-> c, step |-> step, then |-> then, mine |-> TRUE,
   fresh |-> fresh, snap |-> Blank, bin |-> {}]

\* refresh: a request of its own, whatever others are under way.
Refresh(ts) == ts \cup {Task(ts, NoCommand, "done", "none", FALSE)}

\* Something the user does, within the bound.
Step == hist.steps < MaxSteps /\ hist' = [hist EXCEPT !.steps = @ + 1]

\* What the user acts on is what the server has.
Current ==
  /\ page.dialog.current
  /\ IF page.on = "trash" THEN page.bin = Entries ELSE page.snap = Snapshot(rows)

\* run: the command, then a refresh.
Run(c, then, p) ==
  /\ Room /\ Step
  /\ tasks' = tasks \cup {Task(tasks, c, "command", then, Current)}
  /\ page' = p
  /\ UNCHANGED vars

Unselected(p) == [p EXCEPT !.selection = {}, !.anchor = NoEntry]

\* What follows a request: clearSelection after a move, and the end of a
\* dialog, whichever dialog is open by then.
Finish(p, t) ==
  CASE t.then = "clear" -> Unselected(p)
    [] t.then = "close" -> IF t.step = "refused" /\ t.cmd.op = "create job"
                           THEN [p EXCEPT !.dialog.busy = FALSE]
                           ELSE [p EXCEPT !.dialog = NoDialog]
    [] OTHER -> p

\* A command that the server changes something for makes other views old.
Outdated(ts) == {[t EXCEPT !.fresh = FALSE] : t \in ts}

\* The path changes: the old page is gone with the timer it had, and the last
\* event in the store makes the new one fetch twice.  v counts the step.
Enter(on, f, ts, v) ==
  LET kept == {[t EXCEPT !.mine = FALSE, !.then = "none"] : t \in {u \in ts : u.step = "command"}}
  IN  /\ \E timer \in {"off"} \cup (IF on = "library" /\ hist.event THEN {"set"} ELSE {}) :
           page' = [NoPage(on, f) EXCEPT !.timer = timer]
      /\ tasks' = IF on = "reader" THEN kept ELSE Refresh(kept)
      /\ hist' = [hist EXCEPT !.steps = @ + v, !.news = {}, !.told = {}]
      /\ UNCHANGED vars

Begun(s) ==
  /\ rows = s.rows /\ trash = s.trash
  /\ page = NoPage(s.on, Root)
  /\ tasks = IF s.on = "reader" THEN {} ELSE Refresh({})
  /\ hist = [steps |-> s.steps, edits |-> 0, faults |-> s.faults,
             failed |-> FALSE,    \* some request failed
             event |-> FALSE,     \* lastEvent is one that makes the page fetch
             news |-> {},         \* jobs whose job_created is on its way
             told |-> {}]         \* jobs the page was told of and has not listed yet

ShelfInit == \E s \in Starts : Begun(s)

-----------------------------------------------------------------------------
(* Moving about *)

Visit(on, f) == hist.steps < MaxSteps /\ Room /\ Enter(on, f, tasks, 1)

Shows(on) == page.on = on /\ page.loaded /\ page.dialog.kind = "none"

\* openFolder by a row, the tree or the path above the rows.
OpenFolder(f) ==
  /\ Shows("library") /\ f \in {Root} \cup (Live(page.snap) \cap Folders)
  /\ f # page.folder
  /\ Visit("library", f)

\* openJob and playFolder: the reader takes over.
OpenJob(j) ==
  /\ Shows("library") /\ j \in Live(page.snap) \cap Jobs
  /\ Visit("reader", Root)

OpenTrash == Shows("library") /\ Visit("trash", Root)
Back      == page.on # "library" /\ ~page.loading /\ Visit("library", Root)

\* The button of a page that has no listing.
Retry ==
  /\ page.on = "library" /\ ~page.loading /\ ~page.loaded /\ Room
  /\ tasks' = Refresh(tasks)
  /\ UNCHANGED <<rows, trash, page, hist>>

-----------------------------------------------------------------------------
(* Choosing *)

Here == UNCHANGED <<rows, trash, tasks>>
Click(p) == Step /\ page' = p /\ Here

ToggleOrganize ==
  /\ Shows("library")
  /\ Click(IF page.organize THEN [Unselected(page) EXCEPT !.organize = FALSE, !.drag = NoEntry]
           ELSE [page EXCEPT !.organize = TRUE])

SetFilter(filter) ==
  /\ Shows("library") /\ page.filter # filter
  /\ Click([page EXCEPT !.filter = filter, !.drag = NoEntry])

ToggleSelected(x, shift) ==
  /\ Shows("library") /\ page.organize /\ x \in Members(VisibleIds(page))
  /\ Click(IF shift /\ page.anchor # NoEntry
           THEN [page EXCEPT !.selection = RangeSelection(VisibleIds(page), page.anchor, x)]
           ELSE [page EXCEPT !.selection = ToggleSelection(@, x), !.anchor = x])

SelectAll ==
  /\ Shows("library") /\ page.organize
  /\ Click([page EXCEPT !.selection = Members(VisibleIds(page))])

ToggleEntry(x) ==
  /\ Shows("trash") /\ x \in page.bin
  /\ Click([page EXCEPT !.selection = ToggleSelection(@, x)])

\* A row is picked up; it is dropped on a row of the same list or given up.
DragStart(x) ==
  /\ Shows("library") /\ page.organize /\ page.drag = NoEntry
  /\ x \in Members(VisibleIds(page))
  /\ Click([page EXCEPT !.drag = x])

DragEnd ==
  /\ page.drag # NoEntry
  /\ Click([page EXCEPT !.drag = NoEntry])

\* Dialogs: a move takes its items and their exclusions from the moment it is
\* opened, a purge its entries.
OpenDialog(d) == Click([page EXCEPT !.dialog = d])

MoveOf(items, chosen) ==
  [NoDialog EXCEPT !.kind = "move", !.items = items, !.chosen = chosen,
                   !.excluded = ExcludedTargets(page.snap, items)]

OpenMove(x) ==
  /\ Shows("library") /\ x \in Members(VisibleIds(page))
  /\ OpenDialog(MoveOf(<<x>>, {x}))

BulkMove ==
  /\ Shows("library") /\ page.organize /\ page.selection # {}
  /\ OpenDialog(MoveOf(SelectionItems(page.snap, page.selection), page.selection))

OpenPrompt(kind) == Shows("library") /\ OpenDialog([NoDialog EXCEPT !.kind = kind])

OpenPurge ==
  /\ Shows("trash") /\ page.bin # {}
  /\ \/ page.selection # {}
        /\ OpenDialog([NoDialog EXCEPT !.kind = "purge", !.chosen = page.selection])
     \/ OpenDialog([NoDialog EXCEPT !.kind = "empty", !.chosen = page.bin])

\* Escape, the backdrop and the button, also while the dialog is busy.
Cancel ==
  /\ page.dialog.kind # "none"
  /\ OpenDialog(NoDialog)

-----------------------------------------------------------------------------
(* Commands *)

Command(op, items, chosen) ==
  [NoCommand EXCEPT !.op = op, !.items = items, !.chosen = chosen]

\* rowAction: delete, and mark-read as the one that leaves the tree alone.
RowDelete(x) ==
  /\ Shows("library") /\ x \in Members(VisibleIds(page))
  /\ Run(Command("delete", <<x>>, {x}), "none", page)

RowMark(x) ==
  /\ Shows("library") /\ x \in Members(VisibleIds(page))
  /\ Run(Command("mark", <<x>>, {x}), "none", page)

RowDeleteOnly(f) ==
  /\ Shows("library") /\ f \in Members(VisibleIds(page)) \cap Folders
  /\ Run(Command("lift", <<f>>, {f}), "none", page)

BulkDelete ==
  /\ Shows("library") /\ page.organize /\ page.selection # {}
  /\ Run(Command("delete", SelectionItems(page.snap, page.selection), page.selection),
         "none", Unselected(page))

\* Unlike the other two it keeps the selection.
BulkRead ==
  /\ Shows("library") /\ page.organize /\ page.selection # {}
  /\ Run(Command("mark", SelectionItems(page.snap, page.selection), page.selection), "none", page)

\* Wrong variant: a row may be dropped on a row of the other kind.
DropOnAny(x, target) == TRUE

\* reorder of LibraryPane: same kind, and a target that is listed.
DropOn(x, target) == KindOf(x) = KindOf(target)

Drop(target) ==
  LET x == page.drag
      listed == FolderContents(page.snap, page.folder)
      ids == IF target \in Folders THEN listed.folders ELSE listed.jobs
      order == IF target \in Folders
               THEN [listed EXCEPT !.folders = ReorderIds(ids, x, target)]
               ELSE [listed EXCEPT !.jobs = ReorderIds(ids, x, target)]
  IN  /\ Shows("library") /\ page.filter = "none"
      /\ x \notin {NoEntry, target} /\ target \in Members(ids) /\ DropOn(x, target)
      /\ Run([Command("reorder", <<>>, {x}) EXCEPT
                !.place = page.folder, !.order = order, !.at = target],
             "none", [page EXCEPT !.drag = NoEntry])

SubmitMove(p) ==
  /\ page.dialog.kind = "move" /\ p \in Destinations(page)
  /\ Run([Command("move", page.dialog.items, page.dialog.chosen) EXCEPT !.place = p],
         "clear", [page EXCEPT !.dialog = NoDialog])

\* The forms stay open, busy, until their command is done.
Submit(op) ==
  /\ ~page.dialog.busy
  /\ Run([Command(op, <<>>, {}) EXCEPT !.place = page.folder],
         "close", [page EXCEPT !.dialog.busy = TRUE])

SubmitPrompt == page.dialog.kind = "folder" /\ Submit("create folder")

\* The folder was put into the form's data when it was filled in; a change of
\* the model may have to be confirmed before it is sent.
SubmitJob == page.dialog.kind = "job" /\ Submit("create job")

RestoreEntries(S) ==
  /\ Shows("trash") /\ page.bin # {}
  /\ S = page.selection \/ \E x \in page.bin : S = {x}
  /\ S # {}
  /\ Run(Command("restore", Ext!SetToSeq(S), S), "none", page)

SubmitPurge ==
  /\ page.dialog.kind \in {"purge", "empty"}
  /\ Run(Command(page.dialog.kind, <<>>, page.dialog.chosen), "none",
         [page EXCEPT !.dialog = NoDialog])

-----------------------------------------------------------------------------
(* The server *)

Accepts(c) ==
  CASE c.op \in {"create folder", "create job"} -> IsPlace(c.place)
    [] c.op = "reorder" ->
         /\ IsPlace(c.place)
         /\ Members(c.order.folders) = Kids(rows, Folders, c.place)
         /\ Members(c.order.jobs) = Kids(rows, Jobs, c.place)
    [] c.op = "move" ->
         /\ IsPlace(c.place) /\ Members(c.items) \subseteq Live(rows)
         /\ \A f \in Members(c.items) \cap Folders : c.place \notin Below(rows, f)
    [] c.op \in {"delete", "lift", "mark"} -> Members(c.items) \subseteq Live(rows)
    [] c.op = "restore" -> Members(c.items) \subseteq Entries
    [] c.op = "purge"   -> c.chosen \subseteq Entries
    [] OTHER -> TRUE

\* Bound: a command that creates waits when no id is left.
HasId(c) ==
  \/ c.op \notin {"create folder", "create job"}
  \/ \E x \in IF c.op = "create job" THEN Jobs ELSE Folders : rows[x].state = "new"

\* What a command does that changes the tree.
Perform(c) ==
  CASE c.op = "create folder" -> \E f \in Folders : Create(f, c.place)
    [] c.op = "create job"    -> \E j \in Jobs : Create(j, c.place)
    [] c.op = "reorder" ->
         /\ Reorder(c.place)
         /\ \A s \in {c.order.folders, c.order.jobs} : \A i \in DOMAIN s :
              rows'[s[i]].position = i - 1
    [] c.op = "move"    -> Move(c.items, c.place)
    [] c.op = "delete"  -> Delete(Members(c.items))
    [] c.op = "lift"    -> DeleteFolderOnly(c.items[1])
    [] c.op = "restore" -> Restore(c.items)
    [] c.op = "purge"   -> Purge(c.chosen)
    [] c.op = "empty"   -> Purge(Entries)

\* A mark, a list that became empty, a trash that was emptied already.
Idle(c) ==
  \/ c.op = "mark"
  \/ c.op \in {"move", "delete"} /\ c.items = <<>>
  \/ c.op = "empty" /\ Entries = {}

\* The link is kept while the page shows a job that renders.
Linked == page.on = "library" /\ page.loaded /\ Live(page.snap) \cap Rendering # {}

Created == {j \in Jobs : rows[j].state = "new" /\ rows'[j].state = "live"}
Announce(h) == IF Linked THEN [h EXCEPT !.news = @ \cup Created] ELSE h

\* Of an answered command only its kind counts.
Answered(t, step) ==
  IF ~t.mine THEN {}
  ELSE {[t EXCEPT !.step = step, !.fresh = FALSE, !.cmd = [NoCommand EXCEPT !.op = t.cmd.op]]}

Serve(t) ==
  /\ t.step = "command"
  /\ \/ /\ Accepts(t.cmd) /\ ~Idle(t.cmd)
        /\ HasId(t.cmd) /\ Perform(t.cmd)
        /\ tasks' = Outdated(tasks \ {t}) \cup Answered(t, "done")
     \/ /\ Accepts(t.cmd) /\ Idle(t.cmd)
        /\ UNCHANGED vars
        /\ tasks' = (tasks \ {t}) \cup Answered(t, "done")
     \/ /\ ~Accepts(t.cmd)
        /\ UNCHANGED vars
        /\ tasks' = (tasks \ {t}) \cup Answered(t, "refused")
  /\ hist' = Announce(hist)
  /\ UNCHANGED page

\* The library as another tab or device of the user changes it.  All that the
\* link says of it, but for a new job, is library_changed, which the store
\* does not pass on.
Elsewhere ==
  /\ hist.edits < MaxEdits
  /\ \/ \E x \in Items, p \in Places : Create(x, p)
     \/ \E x \in Live(rows), p \in Places : Move(<<x>>, p)
     \/ \E x \in Live(rows) : Delete({x})
     \/ \E x \in Entries : Restore(<<x>>)
  /\ tasks' = Outdated(tasks)
  /\ hist' = Announce([hist EXCEPT !.edits = @ + 1])
  /\ UNCHANGED page

\* GET /library or GET /trash is read; TrashPage has dropped its selection
\* when its command was done.
Read(t) ==
  /\ t.step = "done" /\ page.on # "reader"
  /\ tasks' = (tasks \ {t}) \cup
       {IF page.on = "trash" THEN [t EXCEPT !.step = "answer", !.bin = Entries]
        ELSE [t EXCEPT !.step = "answer", !.snap = Snapshot(rows)]}
  /\ page' = IF page.on = "trash" /\ t.cmd.op # "none" THEN [page EXCEPT !.selection = {}] ELSE page
  /\ UNCHANGED <<rows, trash, hist>>

-----------------------------------------------------------------------------
(* Answers, events and timers *)

\* The listing is replaced; a page whose folder is not in it goes to the root.
Arrive(t) ==
  LET p == Finish([page EXCEPT
             !.snap = t.snap, !.bin = t.bin, !.loaded = TRUE, !.loading = FALSE,
             !.dialog.current = page.dialog.kind = "none"
                                  \/ (@ /\ t.snap = page.snap /\ t.bin = page.bin)], t)
      lost == page.on = "library" /\ page.folder \notin {Root} \cup Live(t.snap)
  IN  /\ t.step = "answer"
      /\ IF lost THEN Enter("library", Root, tasks \ {t}, 0)
         ELSE /\ page' = p /\ tasks' = tasks \ {t}
              /\ hist' = [hist EXCEPT !.told = @ \ Live(t.snap)]
              /\ UNCHANGED vars

\* A refused command is not followed by a refresh.
Refused(t) ==
  /\ t.step = "refused"
  /\ page' = Finish(page, t) /\ tasks' = tasks \ {t}
  /\ UNCHANGED <<rows, trash, hist>>

\* A request is lost on its way, or its answer is.  A page that cannot load
\* the trash shows none.
Fails(t) ==
  /\ hist.faults < MaxFaults /\ t.mine /\ t.step \in {"command", "done"}
  /\ \/ /\ t.cmd.op # "none"
        /\ tasks' = (tasks \ {t}) \cup Answered(t, "refused")
        /\ UNCHANGED page
     \/ /\ t.step = "done"
        /\ tasks' = tasks \ {t}
        /\ page' = Finish([page EXCEPT !.loading = FALSE,
                                       !.loaded = @ \/ page.on = "trash"], t)
  /\ hist' = [hist EXCEPT !.faults = @ + 1, !.failed = TRUE]
  /\ UNCHANGED vars

\* Wrong variant: every event starts the wait anew.
OnEventAgain(p) == [p EXCEPT !.timer = "set"]

\* The effect on lastEvent: one refetch per burst.
OnEvent(p) == IF p.timer # "off" THEN p ELSE [p EXCEPT !.timer = "set"]

\* job_created reaches the page.
Deliver(j) ==
  /\ j \in hist.news
  /\ page' = OnEvent(page)
  /\ hist' = [hist EXCEPT !.news = @ \ {j}, !.told = @ \cup {j}, !.event = TRUE]
  /\ UNCHANGED <<rows, trash, tasks>>

\* Any other event of a job that renders.
JobEvent ==
  /\ Linked
  /\ page' = OnEvent(page)
  /\ hist' = [hist EXCEPT !.event = TRUE]
  /\ UNCHANGED <<rows, trash, tasks>>

TimerAges ==
  /\ page.timer = "set" /\ page' = [page EXCEPT !.timer = "due"]
  /\ UNCHANGED hist /\ Here

TimerFires ==
  /\ page.timer = "due" /\ Room
  /\ page' = [page EXCEPT !.timer = "off"]
  /\ tasks' = Refresh(tasks)
  /\ UNCHANGED <<rows, trash, hist>>

-----------------------------------------------------------------------------
\* The server and the network at work on the requests.
Answers == \E t \in tasks : Serve(t) \/ Read(t) \/ Arrive(t) \/ Refused(t)

ShelfNext ==
  \/ \E f \in Places : OpenFolder(f)
  \/ \E j \in Jobs : OpenJob(j)
  \/ OpenTrash \/ Back \/ Retry
  \/ ToggleOrganize
  \/ \E filter \in {"none", "query", "state"} : SetFilter(filter)
  \/ \E x \in Items, shift \in BOOLEAN : ToggleSelected(x, shift)
  \/ SelectAll
  \/ \E x \in Items : \/ ToggleEntry(x) \/ DragStart(x) \/ Drop(x) \/ OpenMove(x)
                      \/ RowDelete(x) \/ RowMark(x)
  \/ DragEnd \/ BulkMove
  \/ \E kind \in {"folder", "job"} : OpenPrompt(kind)
  \/ OpenPurge \/ Cancel
  \/ \E f \in Folders : RowDeleteOnly(f)
  \/ BulkDelete \/ BulkRead
  \/ \E p \in Places : SubmitMove(p)
  \/ SubmitPrompt \/ SubmitJob
  \/ \E S \in SUBSET Items : RestoreEntries(S)
  \/ SubmitPurge
  \/ Answers
  \/ \E t \in tasks : Fails(t)
  \/ Elsewhere
  \/ \E j \in Jobs : Deliver(j)
  \/ JobEvent \/ TimerAges \/ TimerFires

\* Requests are served, read and answered, and timers go off; no fairness for
\* what users and other tabs do, nor for events.  Each conjunct is weak fairness
\* of a group of actions, with its guard written out.
CanAnswer == \E t \in tasks : t.step # "command" \/ HasId(t.cmd)

CanTick == page.timer = "set" \/ (page.timer = "due" /\ Room)
Ticks   == TimerAges \/ TimerFires

ShelfFairness ==
  /\ []<>~CanAnswer \/ []<><<Answers>>_shelfVars
  /\ []<>~CanTick   \/ []<><<Ticks>>_shelfVars

-----------------------------------------------------------------------------
(* Properties *)

\* What a set of rows holds: themselves and all that is inside them.
Inside(S) ==
  {y \in Live(rows) : \/ y \in S
                      \/ \E f \in S \cap Folders : rows[y].parent \in Below(rows, f)}

\* The chosen rows that are not inside another chosen row.
Outermost(S) == {x \in S : x \notin Inside(S \ {x})}

\* What the user means by a command, in terms of what was shown.
Meant(c) ==
  LET S == c.chosen \cap Live(rows)
      parentsKept(T) == \A y \in Live(rows') \ T : rows'[y].parent = rows[y].parent
  IN  CASE c.op = "delete" -> Live(rows') = Live(rows) \ Inside(S) /\ parentsKept({})
        [] c.op = "lift" ->
             /\ Live(rows') = Live(rows) \ S
             /\ \A f \in S : \A y \in Live(rows') :
                  rows'[y].parent = IF rows[y].parent = f THEN rows[f].parent ELSE rows[y].parent
        [] c.op = "move" ->
             /\ Live(rows') = Live(rows) /\ parentsKept(Outermost(S))
             /\ \A x \in Outermost(S) :
                  /\ rows'[x].parent = c.place
                  /\ \A y \in Kids(rows, KindOf(x), c.place) \ S : Before(rows', y, x)
        [] c.op = "reorder" ->
             \A x \in S \cap Kids(rows, Items, c.place) :
               /\ Rank(rows', x) = Rank(rows, c.at)
               /\ \A y, z \in Kids(rows, Items, c.place) \ {x} :
                    KindOf(y) = KindOf(z) => (Before(rows', y, z) <=> Before(rows, y, z))
        [] c.op \in {"create folder", "create job"} ->
             \E x \in Items :
               /\ Live(rows') = Live(rows) \cup {x} /\ x \notin Live(rows)
               /\ rows'[x].parent = c.place /\ parentsKept({x})
        [] c.op = "restore" ->
             c.chosen \subseteq Entries =>
               Live(rows') = Live(rows) \cup {y \in Items : rows[y].entry \in c.chosen}
        [] c.op \in {"purge", "empty"} ->
             c.op = "empty" \/ c.chosen \subseteq Entries =>
               {y \in Items : rows'[y].state = "gone" /\ rows[y].state # "gone"}
                 = {y \in Items : rows[y].entry \in c.chosen}
        [] OTHER -> UNCHANGED vars

\* The id of a task that waits for the server now and not in the next state.
IsServed(t) ==
  /\ t.step = "command"
  /\ ~\E u \in tasks' : u.id = t.id /\ u.step = "command"

\* A command given on a listing that is still what the server has is accepted
\* and does to the tree what the page let the user mean by it: overlapping
\* selections trash and move every item once, no folder is offered as a target
\* that the server would refuse, a dropped row takes the place it was dropped
\* on (`selectionItems', `excludedTargets', `reorder': "a cross-kind drop has
\* no meaning").
ServedAsMeant ==
  [][\A t \in tasks :
       t.fresh /\ IsServed(t) /\ hist'.faults = hist.faults =>
         Meant(t.cmd)]_shelfVars

\* A job that another tab creates while this page follows a rendering job comes
\* to be listed, however many events of that job keep coming ("clearing there
\* would let a steady stream of chunk events postpone the refresh indefinitely"),
\* unless the page is left, a request fails or the job is deleted.
Unlisted == \E j \in hist.told : rows[j].state = "live"

NewJobShows == Unlisted ~> ~Unlisted \/ hist.failed
=============================================================================
