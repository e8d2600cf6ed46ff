---------------------------- MODULE MCQconnClient ----------------------------
EXTENDS QconnClient, TLC

\* Callers are interchangeable; no liveness is checked with this symmetry.
CallerSymmetry == Permutations(Callers)
=============================================================================
