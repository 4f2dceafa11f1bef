-------------------------- MODULE MCMinerSessions ---------------------------
\* Instances of MinerSessions for TLC.
EXTENDS MinerSessions
=============================================================================
