--------------------------- MODULE MCLiveMeeting ----------------------------
(* Small instances of LiveMeeting for TLC. *)
EXTENDS LiveMeeting, TLC

\* The handlers are interchangeable.
WorkerSymmetry == Permutations(Worker)

=============================================================================
