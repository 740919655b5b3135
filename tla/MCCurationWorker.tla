-------------------------- MODULE MCCurationWorker --------------------------
\* The instances TLC checks, with the cron workers as a symmetry set.
EXTENDS CurationWorker, TLC

CronSymmetry == Permutations(CronWorkers)
=============================================================================
