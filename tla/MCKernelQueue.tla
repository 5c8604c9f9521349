--------------------------- MODULE MCKernelQueue ----------------------------
EXTENDS KernelQueue, TLC

CONSTANTS measure, water, wifi, x, y

\* Two tasks of one priority and one above.
MCPriority == (measure :> 2 @@ water :> 2 @@ wifi :> 3)
=============================================================================
