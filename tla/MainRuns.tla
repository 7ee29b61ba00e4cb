------------------------------- MODULE MainRuns -------------------------------
(***************************************************************************)
(* The runs of Scheduler::main (src/shared.cc) in threads that are no      *)
(* workers: waitJob() and closeThreadPool() call it where a pool has no    *)
(* threads of its own, also inside a job that such a run executes.  What   *)
(* these runs are, and what a job may expect of them.                      *)
(***************************************************************************)
EXTENDS JobGraph

VARIABLES
  stack,    \* the runs of Scheduler::main of each thread, the innermost first
  current   \* currentJobRef of each thread

\* A run of Scheduler::main: info->job, the job it executes, and whether that
\* job has called waitJob() itself.
Run(info) == [info |-> info, job |-> NoJob, nested |-> FALSE]

Top(t) == Head(stack[t])

\* t executes a job.
InJob(t) == stack[t] # <<>> /\ Top(t).job # NoJob

\* The threads that have begun to execute j and are not done with it.
ExecutedBy(j) ==
  {t \in DOMAIN stack : \E i \in DOMAIN stack[t] : stack[t][i].job = j}

\* The jobs that j still waits for, itself included.
Missing(j) ==
  {k \in Jobs : \A T \in SUBSET Jobs :
     j \in T /\ (\A n \in T : deps[n] \ done \subseteq T) => k \in T}

\* waitJob() returns without a result only if the job waits for one that is
\* being executed: the caller itself, a job that called it, or another thread.
\* closeThreadPool() leaves only such jobs behind.
NoJobGivenUp ==
  [][\A t \in DOMAIN stack :
       Len(stack'[t]) < Len(stack[t]) =>
         \A j \in (attached \cap Jobs) \ done :
           Top(t).info \in {j, NoJob} =>
             \E k \in Missing(j) : ExecutedBy(k) # {}]_stack

\* jobCancelled() and currentJob() without an argument mean the job that is
\* executed, until that job calls waitJob(): then there may be no current job,
\* but never another one.
CurrentJob ==
  \A t \in DOMAIN stack : InJob(t) =>
    \/ current[t] = Top(t).job
    \/ current[t] = NoJob /\ Top(t).nested
==============================================================================
