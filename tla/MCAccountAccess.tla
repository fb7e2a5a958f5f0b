-------------------------- MODULE MCAccountAccess --------------------------
EXTENDS AccountAccess, TLC

Alike == Permutations(Token) \cup Permutations(Worker) \cup Permutations(Browser)
         \cup Permutations(Session)
=============================================================================
