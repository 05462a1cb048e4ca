------------------------------ MODULE MCSched ------------------------------
(* Instances of Sched for TLC.                                             *)
EXTENDS Sched, TLC

CONSTANTS c0, c1, t1, t2, t3

MCCore     == {c0, c1}
MCTwoTask  == {t1, t2}
MCThree    == {t1, t2, t3}
MCOneCore  == {c0}

MCMinCounter == -1

\* Tasks are interchangeable until they are listed, and no operator tells
\* them apart by name.  Only the runs without liveness properties use it.
MCSymmetry == Permutations(Task)
=============================================================================
