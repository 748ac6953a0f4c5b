-------------------------- MODULE ModelLifecycleMC --------------------------
(* Model values for checking ModelLifecycle on small instances. *)
EXTENDS ModelLifecycle
CONSTANTS m1, m2, a1, a2
=============================================================================
