------------------------------ MODULE LiveLink ------------------------------
(***************************************************************************)
(* What the live client (web/src/lib/live-client.ts) promises to the pages *)
(* that retain it: a link that is off, being made, or on.  It is made only  *)
(* for a page that wants it, given up only when none does, and as long as  *)
(* one goes on wanting it, it comes up, and comes back when it is lost.    *)
(***************************************************************************)
VARIABLES
  wanted,   \* a page retains the client
  link      \* "off", "trying" or "on"

vars == <<wanted, link>>

Init == wanted \in BOOLEAN /\ link = IF wanted THEN "trying" ELSE "off"

\* A page asks for the link, or goes on with the one another page left.
Ask ==
  /\ ~wanted /\ wanted' = TRUE
  /\ link' = IF link = "off" THEN "trying" ELSE link

\* The last page leaves; the link is kept for a moment.
Leave == wanted /\ wanted' = FALSE /\ UNCHANGED link

Close == ~wanted /\ link # "off" /\ link' = "off" /\ UNCHANGED wanted

ComesUp == link = "trying" /\ link' = "on" /\ UNCHANGED wanted

IsLost == link = "on" /\ link' = "trying" /\ UNCHANGED wanted

Next == Ask \/ Leave \/ Close \/ ComesUp \/ IsLost

\* However often it is lost, a link that stays wanted is on again.
ComesBack == wanted ~> (link = "on" \/ ~wanted)

Spec == Init /\ [][Next]_vars /\ ComesBack
=============================================================================
