--------------------------- MODULE MCProjectBoard ---------------------------
(* One foreign change, two drags, two turns away or back, one lost request. *)
EXTENDS ProjectBoard

\* The inspector shows the Work Item that is dragged first.
MCCard == Foreign \cup {1}
=============================================================================
