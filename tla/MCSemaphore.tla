---------------------------- MODULE MCSemaphore ----------------------------
(* Instances of Semaphore for TLC.                                         *)
EXTENDS Semaphore, TLC

CONSTANTS t1, t2, t3, t4

MCTasks == {t1, t2, t3, t4}
MCThree == {t1, t2, t3}

\* No operator names a task.
MCSymmetry == Permutations(Task)
=============================================================================
