------------------------------- MODULE Channel -------------------------------
(***************************************************************************)
(* The class SingularChannel of src/shared.cc and the commands sendChannel *)
(* and receiveChannel.  Each critical section of the channel's lock is one *)
(* step; the lock and the condition behave as AbstractMonitor specifies.   *)
(* A send signals one receiver, and a receiver that leaves items behind    *)
(* signals another.                                                        *)
(***************************************************************************)
EXTENDS Naturals, Sequences, FiniteSets

CONSTANTS Senders, Receivers,
          MaxSends     \* bound on the items of a sender, for model checking

ASSUME ReceiversAssumption == IsFiniteSet(Receivers)
ASSUME MaxSendsAssumption == MaxSends \in Nat

VARIABLES q,          \* the items in the channel: <<sender, number>>
          receiving,  \* the threads inside receive()
          asleep,     \* those of them blocked on the condition
          sent,       \* history: how many items each sender has sent
          got         \* history: the items each receiver got, in order

channelVars == <<q, receiving, asleep, sent, got>>

Items == Senders \X (Nat \ {0})

ChannelInit ==
  /\ q = <<>>
  /\ receiving = {} /\ asleep = {}
  /\ sent = [s \in Senders |-> 0]
  /\ got = [r \in Receivers |-> <<>>]

\* cond.signal(); SignalNobody is a bug for the properties to find, like the other
\* variants below that no action uses.
SignalNobody == UNCHANGED asleep
SignalReceiver ==
  IF asleep = {} THEN UNCHANGED asleep
                 ELSE \E r \in asleep : asleep' = asleep \ {r}

\* sendChannel().
Send(s) ==
  /\ sent[s] < MaxSends
  /\ sent' = [sent EXCEPT ![s] = @ + 1]
  /\ q' = Append(q, <<s, sent'[s]>>)
  /\ SignalReceiver
  /\ UNCHANGED <<receiving, got>>

\* receiveChannel() has been called; r competes for the lock.
ReceiveBegin(r) ==
  /\ r \notin receiving
  /\ receiving' = receiving \cup {r}
  /\ UNCHANGED <<q, asleep, sent, got>>

InReceive(r) == r \in receiving
CanTest(r) == r \in receiving \ asleep

\* The test of the loop in receive() fails.
WaitItem(r) ==
  /\ CanTest(r) /\ q = <<>>
  /\ asleep' = asleep \cup {r}
  /\ UNCHANGED <<q, receiving, sent, got>>

\* What front() and pop() take; Newest is q.back().
Newest == q[Len(q)]
Oldest == Head(q)

\* It succeeds: receive() takes the oldest item.
Take(r) ==
  /\ CanTest(r) /\ q # <<>>
  /\ got' = [got EXCEPT ![r] = Append(@, Oldest)]
  /\ q' = Tail(q)
  /\ receiving' = receiving \ {r}
  /\ IF q' # <<>> THEN SignalReceiver ELSE UNCHANGED asleep
  /\ UNCHANGED sent

SpuriousReceive(r) ==
  /\ r \in asleep
  /\ asleep' = asleep \ {r}
  /\ UNCHANGED <<q, receiving, sent, got>>

ChannelNext ==
  \/ \E s \in Senders : Send(s)
  \/ \E r \in Receivers :
       ReceiveBegin(r) \/ WaitItem(r) \/ Take(r) \/ SpuriousReceive(r)

ChannelSpec == ChannelInit /\ [][ChannelNext]_channelVars

\* A receiver that can go on gets the lock in the end.
ChannelFairness == \A r \in Receivers : WF_channelVars(WaitItem(r) \/ Take(r))

-----------------------------------------------------------------------------
\* The channel holds items, and only threads inside receive() sleep.
ChannelTypeOK ==
  /\ q \in Seq(Items)
  /\ receiving \subseteq Receivers
  /\ asleep \subseteq receiving
  /\ sent \in [Senders -> Nat]
  /\ got \in [Receivers -> Seq(Items)]

\* No wake-up is lost: while a receiver sleeps, as many others are awake as
\* there are items.  One signal per send keeps it so, although the thread it
\* wakes may find its item taken by one that has just entered receive().
EnoughAwake == asleep # {} => Cardinality(receiving \ asleep) >= Len(q)

InOrder(items) ==
  \A i, k \in DOMAIN items :
    i < k /\ items[i][1] = items[k][1] => items[i][2] < items[k][2]

\* The numbers of the items of s among some items.
Numbers(items, s) == {items[i][2] : i \in {k \in DOMAIN items : items[k][1] = s}}

\* Of what a sender has sent, the channel holds the last items, in order; each
\* of the earlier ones was got by one receiver, once, and every receiver got
\* its share in the order it was sent.  No item is lost, given twice or
\* overtaken, whichever receivers take part.
FirstInFirstOut ==
  /\ InOrder(q) /\ \A r \in Receivers : InOrder(got[r])
  /\ \A s \in Senders : \E n \in 0 .. sent[s] :
       /\ Numbers(q, s) = (n + 1) .. sent[s]
       /\ UNION {Numbers(got[r], s) : r \in Receivers} = 1 .. n
       /\ \A r1, r2 \in Receivers :
            r1 # r2 => Numbers(got[r1], s) \cap Numbers(got[r2], s) = {}

\* An item and a waiting thread find each other.
Served == q # <<>> /\ receiving # {} ~> q = <<>> \/ receiving = {}
==============================================================================
