-------------------------- MODULE MCAccessControl --------------------------
\* Instance of AccessControl for TLC.
EXTENDS AccessControl
=============================================================================
