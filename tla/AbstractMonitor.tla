--------------------------- MODULE AbstractMonitor ---------------------------
(***************************************************************************)
(* What the classes Lock and ConditionVariable of src/thread.h promise to  *)
(* the code that uses them: a re-entrant monitor.  At most one thread is   *)
(* inside, a waiting thread gives the monitor up completely and comes back *)
(* to the nesting depth it had, and a signal reaches a sleeping thread     *)
(* whenever there is one.  Monitor.tla refines this module.                *)
(***************************************************************************)
EXTENDS Naturals

CONSTANTS Threads,     \* the threads that share the lock
          Conds,       \* the condition variables built on the lock
          NoThread,    \* "nobody": the value of no_thread
          Recursive,   \* the argument of Lock's constructor
          MaxDepth     \* bound on re-entry, for model checking

VARIABLES holder,      \* the thread inside the monitor, or NoThread
          depth,       \* how often it has entered
          asleep,      \* asleep[c]: threads blocked on condition c
          notified,    \* notified[c]: threads woken, not yet back inside
          kept,        \* kept[t]: the depth t returns to after a wait
          failed       \* ThreadError() has stopped the program

vars == <<holder, depth, asleep, notified, kept, failed>>

Init ==
  /\ holder = NoThread
  /\ depth = 0
  /\ asleep = [c \in Conds |-> {}]
  /\ notified = [c \in Conds |-> {}]
  /\ kept = [t \in Threads |-> 0]
  /\ failed = FALSE

Outside(t) == \A c \in Conds : t \notin asleep[c] \cup notified[c]

Enter(t) ==
  /\ holder = NoThread
  /\ Outside(t)
  /\ holder' = t
  /\ depth' = 1
  /\ UNCHANGED <<asleep, notified, kept, failed>>

Reenter(t) ==
  /\ holder = t
  /\ Recursive
  /\ depth < MaxDepth
  /\ depth' = depth + 1
  /\ UNCHANGED <<holder, asleep, notified, kept, failed>>

Leave(t) ==
  /\ holder = t
  /\ depth' = depth - 1
  /\ holder' = IF depth = 1 THEN NoThread ELSE t
  /\ UNCHANGED <<asleep, notified, kept, failed>>

Sleep(t, c) ==
  /\ holder = t
  /\ asleep' = [asleep EXCEPT ![c] = @ \cup {t}]
  /\ kept' = [kept EXCEPT ![t] = depth]
  /\ holder' = NoThread
  /\ depth' = 0
  /\ UNCHANGED <<notified, failed>>

Wake(c, S) ==
  /\ asleep' = [asleep EXCEPT ![c] = @ \ S]
  /\ notified' = [notified EXCEPT ![c] = @ \cup S]
  /\ UNCHANGED <<holder, depth, kept, failed>>

\* The holder wakes one sleeper, if there is one.
Signal(t, c) ==
  /\ holder = t
  /\ \E u \in asleep[c] : Wake(c, {u})

Broadcast(t, c) ==
  /\ holder = t
  /\ Wake(c, asleep[c])

\* POSIX allows a wait to return without a signal.
SpuriousWake(c) == \E u \in asleep[c] : Wake(c, {u})

Return(t, c) ==
  /\ t \in notified[c]
  /\ holder = NoThread
  /\ holder' = t
  /\ depth' = kept[t]
  /\ notified' = [notified EXCEPT ![c] = @ \ {t}]
  /\ UNCHANGED <<asleep, kept, failed>>

Fail ==
  /\ failed' = TRUE
  /\ UNCHANGED <<holder, depth, asleep, notified, kept>>

Next ==
  /\ ~failed
  /\ \/ \E t \in Threads : Enter(t) \/ Reenter(t) \/ Leave(t)
     \/ \E t \in Threads, c \in Conds :
          Sleep(t, c) \/ Signal(t, c) \/ Broadcast(t, c) \/ Return(t, c)
     \/ \E c \in Conds : SpuriousWake(c)
     \/ Fail

Spec == Init /\ [][Next]_vars
==============================================================================
