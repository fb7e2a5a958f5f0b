---------------------------- MODULE MCWorkBoard ----------------------------
EXTENDS WorkBoard, TLC

(* the default "todo" and a "done" status; a third may be created *)
MCDefinitions ==
    <<[category |-> "todo", active |-> TRUE, default |-> TRUE],
      [category |-> "done", active |-> TRUE, default |-> FALSE]>>
Requests == Permutations(Worker) \cup Permutations(Type)
MCItem == 1..3
MCStatus == 1..3
=============================================================================
