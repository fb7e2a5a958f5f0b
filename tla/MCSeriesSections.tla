-------------------------- MODULE MCSeriesSections --------------------------
EXTENDS SeriesSections

Alike == Permutations(Section) \cup Permutations(Worker)
=============================================================================
