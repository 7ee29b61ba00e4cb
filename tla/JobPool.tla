------------------------------- MODULE JobPool --------------------------------
(***************************************************************************)
(* What a thread pool of src/shared.cc promises about jobs, whether it has *)
(* threads of its own or none: a job starts when its dependencies are done *)
(* and not before, once; cancelling a job that has not started cancels all *)
(* that depend on it.  Queues, locks, wake-ups and the lists of dependents *)
(* are left out.                                                           *)
(*                                                                         *)
(* The code keeps the promise to start a job once for jobs of which a      *)
(* dependency was not done when they were scheduled, or that have none;    *)
(* the others are in the set again.                                        *)
(***************************************************************************)
CONSTANT Jobs

VARIABLES attached, deps, again, running, done, cancelled, ran

poolvars == <<attached, deps, again, running, done, cancelled, ran>>

PoolInit ==
  /\ attached = {} /\ again = {}
  /\ deps = [j \in Jobs |-> {}]
  /\ running = {} /\ done = {} /\ cancelled = {} /\ ran = {}

Started(j) == j \in cancelled \cup running \cup done

\* The jobs in S and, unless they have started, all that depend on them.
WithDependents(S, dps) ==
  {k \in Jobs : \A T \in SUBSET Jobs :
     (S \subseteq T /\ \A n \in Jobs :
        (\E j \in T : ~Started(j) /\ j \in dps[n]) => n \in T) => k \in T}

Drop(S, dps) ==
  LET C == WithDependents(S, dps)
  IN /\ cancelled' = cancelled \cup C
     /\ done' = done \cup {j \in C : ~Started(j)}

Add(js, ds) ==
  LET doomed == ds \cap cancelled # {}
  IN /\ js \cap attached = {} /\ ds \subseteq attached
     /\ attached' = attached \cup js
     /\ deps' = [j \in Jobs |-> IF j \in js THEN ds ELSE deps[j]]
     /\ again' = IF ds # {} /\ (doomed \/ ds \subseteq done) THEN again \cup js
                                                            ELSE again
     /\ IF doomed THEN Drop(js, deps') ELSE UNCHANGED <<cancelled, done>>
     /\ UNCHANGED <<running, ran>>

CancelJob(j) ==
  /\ j \in attached
  /\ Drop({j}, deps)
  /\ UNCHANGED <<attached, deps, again, running, ran>>

Start(j) ==
  /\ j \in attached \ cancelled
  /\ deps[j] \subseteq done
  /\ j \in ran => j \in again
  /\ running' = running \cup {j}
  /\ ran' = ran \cup {j}
  /\ UNCHANGED <<attached, deps, again, done, cancelled>>

Finish(j) ==
  /\ j \in running \cup again
  /\ j \in ran
  /\ running' = running \ {j}
  /\ done' = done \cup {j}
  /\ UNCHANGED <<attached, deps, again, cancelled, ran>>

\* The second copy of a job that is cancelled while it runs.
Discard(j) ==
  /\ j \in again \cap cancelled
  /\ done' = done \cup {j}
  /\ UNCHANGED <<attached, deps, again, running, cancelled, ran>>

PoolNext ==
  \/ \E js \in (SUBSET Jobs) \ {{}}, ds \in SUBSET attached : Add(js, ds)
  \/ \E j \in Jobs : CancelJob(j) \/ Start(j) \/ Finish(j) \/ Discard(j)

PoolSpec == PoolInit /\ [][PoolNext]_poolvars
==============================================================================
