--------------------------- MODULE MCEventStream ----------------------------
(* Two changes, two logins of the page, two failures. *)
EXTENDS EventStream
CONSTANTS c1, c2
MCChange == {c1, c2}
=============================================================================
