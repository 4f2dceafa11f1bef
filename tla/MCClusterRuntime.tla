-------------------------- MODULE MCClusterRuntime --------------------------
\* Instances of ClusterRuntime for TLC.
EXTENDS ClusterRuntime
=============================================================================
