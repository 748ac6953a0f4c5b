------------------------------- MODULE Pages -------------------------------
(***************************************************************************)
(* The router of the web client (app/App.tsx) over the pages of Shelf and  *)
(* the admin page of Console.  One of them is mounted at a time, and what  *)
(* one keeps does not outlive it, so that a behaviour is followed from the *)
(* opening of the library, the trash or the admin page, within the pages   *)
(* of its own module.                                                      *)
(***************************************************************************)
EXTENDS Shelf, Console

pagesVars == <<shelfVars, consoleVars>>

NoShelf ==
  Begun([rows |-> Blank, trash |-> [x \in Items |-> NoEntry], on |-> "reader",
         steps |-> 0, faults |-> 0])
NoConsole == Opened([tab |-> "closed", shifts |-> 0, moves |-> 0, losses |-> 0])

AdminShown == con.tab # "closed"

PagesInit == \/ ShelfInit /\ NoConsole
             \/ NoShelf /\ ConsoleInit

PagesNext == \/ ~AdminShown /\ ShelfNext /\ UNCHANGED consoleVars
             \/ AdminShown /\ ConsoleNext /\ UNCHANGED shelfVars

\* Each fairness condition holds of itself for the part that is not shown.
PagesSpec ==
  PagesInit /\ [][PagesNext]_pagesVars /\ ShelfFairness /\ ConsoleFairness
=============================================================================
