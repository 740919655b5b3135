----------------------------- MODULE MCHealthRun -----------------------------
\* The instances TLC checks: the starts of the process are symmetric.
EXTENDS HealthRun, TLC

RunSymmetry == Permutations(Runs)
=============================================================================
