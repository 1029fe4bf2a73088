------------------------------- MODULE MCKernel -------------------------------
EXTENDS Kernel

CONSTANTS p1, p2, e1, e2

MCThreads == {p1, p2}
MCEvents == {e1, e2}
MCEventLists == {{}, MCEvents}
MCStatic == [p \in MCThreads |-> IF p = p1 THEN {e1} ELSE {}]
=============================================================================
