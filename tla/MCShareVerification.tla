------------------------ MODULE MCShareVerification ------------------------
\* Instance of ShareVerification for TLC.
EXTENDS ShareVerification
=============================================================================
