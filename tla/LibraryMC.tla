----------------------------- MODULE LibraryMC -----------------------------
(* Ids for checking Library on small instances. *)
EXTENDS Library
CONSTANTS f1, f2, f3, j1, j2

OldestFirst == [x \in Items |->
  IF x = f1 THEN 0 ELSE IF x = f2 THEN 1 ELSE IF x = f3 THEN 2
  ELSE IF x = j1 THEN 3 ELSE 4]
=============================================================================
