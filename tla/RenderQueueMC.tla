--------------------------- MODULE RenderQueueMC ---------------------------
(* Model values for checking RenderQueue on small instances.  No operator   *)
(* of the model prefers one job or one voice to another, so the safety runs *)
(* may treat them as interchangeable; the liveness runs do not.             *)
EXTENDS RenderQueue, TLC
CONSTANTS j1, j2, v1, v2, m1

Alike == Permutations({j1, j2}) \cup Permutations({v1, v2})
=============================================================================
