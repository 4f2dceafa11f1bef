----------------------------- MODULE MCVarDiff -----------------------------
\* Instance of VarDiff for TLC.
EXTENDS VarDiff
=============================================================================
