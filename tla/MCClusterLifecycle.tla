------------------------- MODULE MCClusterLifecycle -------------------------
EXTENDS ClusterLifecycle, TLC

CONSTANTS x, e1, vip

OneAddon == <<"cni">>
=============================================================================
