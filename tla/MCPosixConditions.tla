------------------------- MODULE MCPosixConditions -------------------------
(* Values of the constants for the runs of PosixConditions. *)
EXTENDS PosixConditions, TLC

CONSTANTS t1, t2, t3, manual, auto, sem, mut1

MaxSem2 == [s \in Semaphores |-> 2]
InitSem1 == [s \in Semaphores |-> 1]

MixedLists == {<<mut1>>, <<sem, auto>>, <<auto, mut1>>}
LiveLists == {<<mut1>>, <<sem, manual>>, <<sem, sem>>}
SemList == {<<sem>>}

\* Every thread may do what every other may.
ThreadSymmetry == Permutations(Threads)
=============================================================================
