--------------------------- MODULE MCCheckpoints ---------------------------
\* The instance TLC checks.
EXTENDS Checkpoints
=============================================================================
