------------------------------ MODULE MCWaiting ------------------------------
(* A lock with its conditions, and a synchronisation variable, for TLC.      *)
(* They share no state: in each behaviour one of the two is in use, and the  *)
(* other one stays as it was created.                                        *)
EXTENDS Monitor, SyncVar

VARIABLE use

\* Of the initial states of Monitor, the one that SyncVar starts beside.
MonitorIdle == cond = [t \in Threads |-> CHOOSE c \in Conds : TRUE]

WaitingInit ==
  /\ Init /\ VarInit
  /\ use \in {"monitor", "variable"}
  /\ use # "monitor" => MonitorIdle

WaitingNext ==
  /\ \/ use = "monitor" /\ Next /\ UNCHANGED syncVars
     \/ use = "variable" /\ VarNext /\ UNCHANGED vars
  /\ UNCHANGED use

WaitingSpec ==
  /\ WaitingInit
  /\ [][WaitingNext]_<<use, vars, syncVars>>
  /\ VarFairness
==============================================================================
