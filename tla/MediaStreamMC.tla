--------------------------- MODULE MediaStreamMC ---------------------------
(* Instances of MediaStream for model checking. *)
EXTENDS MediaStream
=============================================================================
