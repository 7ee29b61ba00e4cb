------------------------ MODULE MCInterpreterThreads -------------------------
\* Two clients, two slots and two threads: both slots are in use at a time, and
\* the first is used again after a join.
EXTENDS InterpreterThreads
==============================================================================
