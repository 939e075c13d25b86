------------------------- MODULE MCMachineLifecycle -------------------------
EXTENDS MachineLifecycle, TLC

CONSTANTS m1, v1, v2, v3, n1, n2

Symmetry == Permutations(Names)
=============================================================================
