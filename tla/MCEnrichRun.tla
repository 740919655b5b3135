---------------------------- MODULE MCEnrichRun ----------------------------
\* The instances TLC checks: chunks and blocks, and the symmetric targets.
EXTENDS EnrichRun, TLC

CONSTANTS t1, t2, t3

OneChunk == <<Targets>>
TwoChunks == <<{t1, t2}, {t3}>>

AcquirePersist == <<"acquire", "persist">>
DetectToPersist == <<"detect", "names", "editorial", "persist">>

TargetSymmetry == Permutations(Targets)
=============================================================================
