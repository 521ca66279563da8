----------------------------- MODULE MCCronRuns -----------------------------
(* Small instances of CronRuns for TLC.                                    *)
EXTENDS CronRuns, TLC

CONSTANTS m1, w1, w2, e1, e2

WorkerSymmetry == Permutations(Worker) \cup Permutations(Editor)
=============================================================================
