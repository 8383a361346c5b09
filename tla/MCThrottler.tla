----------------------------- MODULE MCThrottler -----------------------------
(***************************************************************************)
(* Model-checking instance of Throttler.  The unit costs 1/4/16 are the    *)
(* code's; the gauge takes one value per pressure level (MaxTotalSize 8:   *)
(* 0 is low, 3 is medium, 5 is high).  32 permits let two calls hold 16    *)
(* each, so a second acquisition of 16 can find the semaphore empty.       *)
(***************************************************************************)
EXTENDS Throttler, TLC

CONSTANTS t1, t2, t3

MCTasks == {t1, t2, t3}
MCSizes == {0, 3, 5}

TaskSymmetry == Permutations(MCTasks)
=============================================================================
