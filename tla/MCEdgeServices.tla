--------------------------- MODULE MCEdgeServices ---------------------------
EXTENDS EdgeServices

=============================================================================
