------------------------------ MODULE MCTables -------------------------------
\* Two threads, an atomic list, and a table and a list in the region.
EXTENDS Tables
==============================================================================
