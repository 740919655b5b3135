----------------------------- MODULE MCOpsAgent -----------------------------
\* The instances TLC checks: button presses and agent runs are symmetric.
EXTENDS OpsAgent, TLC

PressSymmetry == Permutations(Clicks) \cup Permutations(Agents)
=============================================================================
