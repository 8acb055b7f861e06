--------------------------- MODULE MCStatsChannel ---------------------------
\* Instance of StatsChannel for TLC.
EXTENDS StatsChannel
=============================================================================
