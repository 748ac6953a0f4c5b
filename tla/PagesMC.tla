------------------------------ MODULE PagesMC ------------------------------
EXTENDS Pages
CONSTANTS f1, f2, j1, j2
In(p, n) == [state |-> "live", parent |-> p, position |-> n, entry |-> NoEntry]
Nowhere == [x \in Items |-> NoEntry]
MCAge == [x \in Items |-> CASE x = f1 -> 4 [] x = f2 -> 3 [] x = j1 -> 2 [] x = j2 -> 1]
Start(r, t, on, used) ==
  [rows |-> r, trash |-> t, on |-> on, steps |-> used[1], faults |-> used[2]]
\* A job in a folder in a folder; rows side by side; a folder in the trash;
\* a job that renders, with room for new rows and fewer steps.
MCStarts == {
  Start([x \in Items |-> CASE x = f1 -> In(Root, 0) [] x = f2 -> In(f1, 0)
                            [] x = j1 -> In(f2, 0) [] x = j2 -> NoRow("gone")],
        Nowhere, "library", <<1, 1>>),
  Start([x \in Items |-> CASE x = f1 -> In(Root, 0) [] x = f2 -> In(Root, 1)
                            [] x = j1 -> In(Root, 0) [] x = j2 -> NoRow("gone")],
        Nowhere, "library", <<1, 1>>),
  Start([x \in Items |-> CASE x = f1 -> In(Root, 0) [] x = j1 -> In(Root, 0)
                            [] x = f2 -> [In(f1, 0) EXCEPT !.state = "trashed", !.entry = f2]
                            [] x = j2 -> NoRow("gone")],
        [Nowhere EXCEPT ![f2] = f1], "trash", <<1, 0>>),
  Start([x \in Items |-> CASE x = f1 -> In(Root, 0) [] x = j2 -> In(Root, 0)
                            [] OTHER -> NoRow("new")],
        Nowhere, "library", <<3, 1>>)}

\* The overview with few moves, the queue with the most moves and nothing else
\* going on, and with fewer while the scheduler shifts or a request is lost.
Opening(tab, shifts, moves, losses) ==
  [tab |-> tab, shifts |-> shifts, moves |-> moves, losses |-> losses]
MCOpenings == {Opening("overview", 0, 2, 1), Opening("queue", 1, 0, 1),
               Opening("queue", 0, 1, 1), Opening("queue", 0, 3, 0)}
=============================================================================
