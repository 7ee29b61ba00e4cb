------------------------------ MODULE MCObjects ------------------------------
(* Tables, lists and the region, a channel, and the values and references    *)
(* that objects hold, for TLC.  They share no state: in each behaviour one   *)
(* of the three is in use, and the other two stay as they were created.      *)
EXTENDS Tables, Channel, MCSharedValues

VARIABLE use

\* Of the initial states of SharedValues, the one the other two start beside.
ValuesIdle == held[t1] = None /\ \A t \in Interpreters : currRing[t] = NoRing

ObjectsInit ==
  /\ Init /\ ChannelInit /\ ValuesInit
  /\ use \in {"tables", "channel", "values"}
  /\ use # "values" => ValuesIdle

ObjectsNext ==
  /\ \/ use = "tables" /\ Next /\ UNCHANGED <<channelVars, valueVars>>
     \/ use = "channel" /\ ChannelNext /\ UNCHANGED <<vars, valueVars>>
     \/ use = "values" /\ ValuesNext /\ UNCHANGED <<vars, channelVars>>
  /\ UNCHANGED use

ObjectsSpec ==
  /\ ObjectsInit
  /\ [][ObjectsNext]_<<use, vars, channelVars, valueVars>>
  /\ ChannelFairness
==============================================================================
