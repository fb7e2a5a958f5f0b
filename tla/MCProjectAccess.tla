-------------------------- MODULE MCProjectAccess ---------------------------
(* Small instances of ProjectAccess for TLC. *)
EXTENDS ProjectAccess, TLC

\* Accounts and Work Items are interchangeable; Projects have an order.
AccessSymmetry == Permutations(User) \cup Permutations(Item)

=============================================================================
