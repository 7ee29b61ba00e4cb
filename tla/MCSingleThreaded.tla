--------------------------- MODULE MCSingleThreaded ---------------------------
(* SingleThreaded for TLC: two threads, two jobs and one job for all.      *)
EXTENDS SingleThreaded

CONSTANTS t1, t2

\* The first thread schedules all jobs, from outside of jobs or inside them;
\* the second can only execute them.
HandleOf == [j \in Jobs |-> t1]
==============================================================================
