--------------------------- MODULE MCSemaphoreSmp ---------------------------
(* Instances of SemaphoreSmp for TLC.                                      *)
EXTENDS SemaphoreSmp, TLC

CONSTANTS c0, c1, t1, t2, t3

MCCore == {c0, c1}
MCIrqCore == {c0}
MCTask == {t1, t2, t3}

\* No operator names a task.
MCSymmetry == Permutations(Task)
=============================================================================
