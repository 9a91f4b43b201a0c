------------------------- MODULE MCTopologicalSort --------------------------
EXTENDS TopologicalSort
Three == 1..3
=============================================================================
