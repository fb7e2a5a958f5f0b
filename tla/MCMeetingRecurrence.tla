------------------------ MODULE MCMeetingRecurrence -------------------------
(* Small instances of MeetingRecurrence for TLC. *)
EXTENDS MeetingRecurrence, TLC

\* The handlers are interchangeable.
WorkerSymmetry == Permutations(Worker)
=============================================================================
