---------------------------- MODULE MCKernelMutex ----------------------------
(* A small instance of KernelMutex: one mutex, a task of the lower priority  *)
(* and two of the higher, that wait for a while.                             *)
EXTENDS KernelMutex

LowAndTwoHigh == [t \in Users |-> IF t = 1 THEN 1 ELSE 2]
AWhile == {[waits |-> {"finite"}, nested |-> FALSE]}
=============================================================================
