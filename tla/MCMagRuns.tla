------------------------------ MODULE MCMagRuns ------------------------------
\* Symmetry for model checking MagRuns: its specification never tells two run
\* ids, two sessions or two actors apart, and only safety is checked.
EXTENDS MagRuns

Symmetry == Permutations(Runs) \cup Permutations(Sessions) \cup Permutations(Actors)
=============================================================================
