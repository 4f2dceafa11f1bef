--------------------------- MODULE MCUpstreamPool ---------------------------
\* A small instance of UpstreamPool for TLC.
EXTENDS UpstreamPool

\* "No block template yet" as a login reply only, or as a getjob reply too.
PendingLogin == {"login"}
PendingLoginOrGetJob == {"login", "getjob"}
=============================================================================
