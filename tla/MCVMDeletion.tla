---------------------------- MODULE MCVMDeletion ----------------------------
EXTENDS VMDeletion, TLC

CONSTANTS p1, p2, os, home, other

=============================================================================
