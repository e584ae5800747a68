------------------------------ MODULE MCKernel ------------------------------
(* Instances of Kernel for TLC.                                             *)
EXTENDS Kernel

CONSTANTS r, a, b, c

AllMutexes == [s \in Sems |-> 1]

(* The first semaphore is an empty signal, the others count two units.      *)
SignalAndCounter == [s \in Sems |-> IF s = 1 THEN 0 ELSE 2]
=============================================================================
