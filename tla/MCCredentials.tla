---------------------------- MODULE MCCredentials ----------------------------
\* Instances of Credentials for TLC.
EXTENDS Credentials

CONSTANTS i1, i2, m1

\* As deployed: the environment of the container names no Xen Orchestra.
NoEnv == None
=============================================================================
