---------------------------- MODULE ChannelProofs ----------------------------
(***************************************************************************)
(* Channel for any number of senders, receivers and items: its types, that *)
(* no receiver sleeps on while there is an item for it, and that the items *)
(* come out once and in order.                                             *)
(***************************************************************************)
EXTENDS Channel, FiniteSetTheorems, SequenceTheorems, TLAPS

USE ReceiversAssumption, MaxSendsAssumption

awake == receiving \ asleep

IInv == ChannelTypeOK /\ EnoughAwake /\ FirstInFirstOut

\* The threads awake inside receive() can be counted.
LEMMA AwakeFinite == ChannelTypeOK => IsFiniteSet(awake)
BY FS_Subset DEF ChannelTypeOK, awake

\* Every step keeps the types.
LEMMA TypeNext == ChannelTypeOK /\ [ChannelNext]_channelVars => ChannelTypeOK'
<1> SUFFICES ASSUME ChannelTypeOK, [ChannelNext]_channelVars PROVE ChannelTypeOK'
  OBVIOUS
<1>1. ASSUME SignalReceiver PROVE asleep' \subseteq asleep
  BY <1>1 DEF SignalReceiver
<1>2. ASSUME NEW s \in Senders, Send(s) PROVE ChannelTypeOK'
  <2>1. <<s, sent[s] + 1>> \in Items /\ sent' \in [Senders -> Nat]
    BY <1>2 DEF Send, Items, ChannelTypeOK
  <2>2. sent'[s] = sent[s] + 1
    BY <1>2 DEF Send, ChannelTypeOK
  <2>3. q' \in Seq(Items)
    BY <1>2, <2>1, <2>2 DEF Send, ChannelTypeOK
  <2> QED BY <1>1, <1>2, <2>1, <2>3 DEF Send, ChannelTypeOK
<1>3. ASSUME NEW r \in Receivers, Take(r) PROVE ChannelTypeOK'
  <2>1. Head(q) \in Items /\ Tail(q) \in Seq(Items)
    BY <1>3, HeadTailProperties DEF Take, ChannelTypeOK
  <2>2. got' \in [Receivers -> Seq(Items)]
    BY <1>3, <2>1 DEF Take, Oldest, ChannelTypeOK
  <2>3. asleep' \subseteq asleep
    BY <1>1, <1>3 DEF Take
  <2> QED BY <1>3, <2>1, <2>2, <2>3 DEF Take, CanTest, ChannelTypeOK
<1>4. ASSUME NEW r \in Receivers, ReceiveBegin(r) \/ WaitItem(r) \/ SpuriousReceive(r)
      PROVE  ChannelTypeOK'
  BY <1>4 DEF ReceiveBegin, WaitItem, SpuriousReceive, CanTest, ChannelTypeOK
<1>5. CASE UNCHANGED channelVars
  BY <1>5 DEF channelVars, ChannelTypeOK
<1> QED BY <1>2, <1>3, <1>4, <1>5 DEF ChannelNext

\* One signal per send keeps as many receivers awake as there are items.
LEMMA AwakeNext == IInv /\ [ChannelNext]_channelVars => EnoughAwake'
<1> SUFFICES ASSUME ChannelTypeOK, EnoughAwake, [ChannelNext]_channelVars, asleep' # {}
             PROVE  Cardinality(awake') >= Len(q')
  BY DEF IInv, EnoughAwake, awake
<1> DEFINE n == Cardinality(awake)
<1>1. IsFiniteSet(awake) /\ n \in Nat /\ Len(q) \in Nat
  BY AwakeFinite, FS_CardinalityType, LenProperties DEF ChannelTypeOK
<1>2. asleep # {} => n >= Len(q)
  BY DEF EnoughAwake, awake
<1> HIDE DEF n
<1>3. ASSUME SignalReceiver, asleep # {}, receiving' = receiving
      PROVE  Cardinality(awake') = n + 1
  <2>1. PICK r \in asleep : asleep' = asleep \ {r}
    BY <1>3 DEF SignalReceiver
  <2>2. awake' = awake \cup {r} /\ r \notin awake
    BY <1>3, <2>1 DEF awake, ChannelTypeOK
  <2> QED BY <1>1, <2>2, FS_AddElement DEF n
<1>4. ASSUME NEW s \in Senders, Send(s) PROVE Cardinality(awake') >= Len(q')
  <2>1. Len(q') = Len(q) + 1
    BY <1>4, AppendProperties DEF Send, ChannelTypeOK, Items
  <2>2. asleep # {}
    BY <1>4 DEF Send, SignalReceiver
  <2>3. Cardinality(awake') = n + 1
    BY <1>3, <1>4, <2>2 DEF Send
  <2> QED BY <1>1, <1>2, <2>1, <2>2, <2>3
<1>5. ASSUME NEW r \in Receivers, Take(r) PROVE Cardinality(awake') >= Len(q')
  <2>1. Len(q') = Len(q) - 1 /\ Len(q) > 0
    BY <1>5, HeadTailProperties DEF Take, ChannelTypeOK
  <2>2. r \in awake /\ r \notin asleep /\ receiving' = receiving \ {r}
    BY <1>5 DEF Take, CanTest, awake
  <2>3. asleep # {} /\ asleep' \subseteq asleep
    BY <1>5 DEF Take, SignalReceiver
  <2>4. Cardinality(awake \ {r}) = n - 1
    BY <1>1, <2>2, FS_RemoveElement DEF n
  <2>5. awake \ {r} \subseteq awake' /\ IsFiniteSet(awake')
    <3>1. awake' \subseteq Receivers
      BY <2>2 DEF awake, ChannelTypeOK
    <3>2. IsFiniteSet(awake')
      BY <3>1, FS_Subset
    <3> QED BY <2>2, <2>3, <3>2 DEF awake
  <2>6. Cardinality(awake \ {r}) <= Cardinality(awake')
    BY <2>5, FS_Subset
  <2>7. Cardinality(awake') \in Nat
    BY <2>5, FS_CardinalityType
  <2> QED BY <1>1, <1>2, <2>1, <2>3, <2>4, <2>6, <2>7
<1>6. ASSUME NEW r \in Receivers, WaitItem(r) PROVE Cardinality(awake') >= Len(q')
  <2>1. Len(q') = 0
    BY <1>6 DEF WaitItem
  <2>2. IsFiniteSet(awake')
    BY <1>6, FS_Subset DEF WaitItem, awake, ChannelTypeOK
  <2> QED BY <2>1, <2>2, FS_CardinalityType
<1>7. ASSUME NEW r \in Receivers, ReceiveBegin(r) \/ SpuriousReceive(r)
      PROVE  Cardinality(awake') >= Len(q')
  <2>1. awake' = awake \cup {r} /\ r \notin awake /\ asleep # {} /\ q' = q
    BY <1>7 DEF ReceiveBegin, SpuriousReceive, awake, ChannelTypeOK
  <2>2. Cardinality(awake') = n + 1
    BY <1>1, <2>1, FS_AddElement DEF n
  <2> QED BY <1>1, <1>2, <2>1, <2>2
<1>8. CASE UNCHANGED channelVars
  BY <1>2, <1>8 DEF channelVars, awake, n
<1> QED BY <1>4, <1>5, <1>6, <1>7, <1>8 DEF ChannelNext

\* What Numbers and InOrder make of one more item, and of one less.
LEMMA Appended ==
  ASSUME NEW u \in Seq(Items), NEW m \in Items, NEW s \in Senders
  PROVE  /\ Numbers(Append(u, m), s) =
              Numbers(u, s) \cup (IF m[1] = s THEN {m[2]} ELSE {})
         /\ InOrder(u) /\ (\A n \in Numbers(u, m[1]) : n < m[2])
              => InOrder(Append(u, m))
<1> DEFINE v == Append(u, m)
<1>1. /\ DOMAIN v = 1 .. Len(u) + 1 /\ DOMAIN u = 1 .. Len(u) /\ Len(u) \in Nat
      /\ v[Len(u) + 1] = m /\ \A i \in 1 .. Len(u) : v[i] = u[i]
  BY AppendProperties, LenProperties DEF Items
<1>2. \A i \in DOMAIN u : u[i] \in Items
  BY ElementOfSeq, <1>1
<1> HIDE DEF v
<1>3. Numbers(v, s) = Numbers(u, s) \cup (IF m[1] = s THEN {m[2]} ELSE {})
  <2>1. ASSUME NEW n \in Numbers(v, s)
        PROVE  n \in Numbers(u, s) \cup (IF m[1] = s THEN {m[2]} ELSE {})
    <3>1. PICK i \in DOMAIN v : v[i][1] = s /\ n = v[i][2]
      BY <2>1 DEF Numbers
    <3>2. CASE i = Len(u) + 1
      BY <1>1, <3>1, <3>2
    <3>3. CASE i \in DOMAIN u
      BY <1>1, <3>1, <3>3 DEF Numbers
    <3> QED BY <1>1, <3>2, <3>3
  <2>2. ASSUME NEW n \in Numbers(u, s) PROVE n \in Numbers(v, s)
    <3>1. PICK i \in DOMAIN u : u[i][1] = s /\ n = u[i][2]
      BY <2>2 DEF Numbers
    <3> QED BY <1>1, <3>1 DEF Numbers
  <2>3. m[1] = s => m[2] \in Numbers(v, s)
    <3> SUFFICES ASSUME m[1] = s PROVE m[2] \in Numbers(v, s)
      OBVIOUS
    <3>1. Len(u) + 1 \in DOMAIN v
      BY <1>1
    <3> QED BY <1>1, <3>1 DEF Numbers
  <2> QED BY <2>1, <2>2, <2>3
<1>4. ASSUME InOrder(u), \A n \in Numbers(u, m[1]) : n < m[2]
      PROVE  InOrder(v)
  <2> SUFFICES ASSUME NEW i \in DOMAIN v, NEW k \in DOMAIN v,
                      i < k, v[i][1] = v[k][1]
               PROVE  v[i][2] < v[k][2]
    BY DEF InOrder
  <2>1. i \in DOMAIN u /\ v[i] = u[i]
    BY <1>1
  <2>2. CASE k \in DOMAIN u
    BY <1>1, <1>4, <2>1, <2>2 DEF InOrder
  <2>3. CASE k = Len(u) + 1
    <3>1. u[i][2] \in Numbers(u, m[1])
      BY <1>1, <2>1, <2>3 DEF Numbers
    <3> QED BY <1>1, <1>4, <2>1, <2>3, <3>1
  <2> QED BY <1>1, <2>2, <2>3
<1> QED BY <1>3, <1>4 DEF v

\* The same for the item at the front.
LEMMA Removed ==
  ASSUME NEW u \in Seq(Items), u # <<>>, NEW s \in Senders
  PROVE  /\ Numbers(u, s) =
              Numbers(Tail(u), s) \cup (IF Head(u)[1] = s THEN {Head(u)[2]} ELSE {})
         /\ InOrder(u) => InOrder(Tail(u))
         /\ InOrder(u) /\ Head(u)[1] = s
              => \A n \in Numbers(Tail(u), s) : Head(u)[2] < n
<1> DEFINE v == Tail(u)
<1>1. /\ DOMAIN u = 1 .. Len(u) /\ Len(u) \in Nat \ {0} /\ Head(u) = u[1]
      /\ DOMAIN v = 1 .. Len(u) - 1 /\ \A i \in DOMAIN v : v[i] = u[i + 1]
  BY HeadTailProperties, LenProperties, EmptySeq
<1> HIDE DEF v
<1>2. ASSUME NEW n \in Numbers(v, s)
      PROVE  \E i \in DOMAIN u : i > 1 /\ u[i][1] = s /\ n = u[i][2]
  <2>1. PICK i \in DOMAIN v : v[i][1] = s /\ n = v[i][2]
    BY <1>2 DEF Numbers
  <2>2. i + 1 \in DOMAIN u /\ i + 1 > 1 /\ u[i + 1] = v[i]
    BY <1>1
  <2> QED BY <2>1, <2>2
<1>3. Numbers(u, s) = Numbers(v, s) \cup (IF Head(u)[1] = s THEN {Head(u)[2]} ELSE {})
  <2>1. ASSUME NEW n \in Numbers(u, s)
        PROVE  n \in Numbers(v, s) \cup (IF Head(u)[1] = s THEN {Head(u)[2]} ELSE {})
    <3>1. PICK i \in DOMAIN u : u[i][1] = s /\ n = u[i][2]
      BY <2>1 DEF Numbers
    <3>2. CASE i = 1
      BY <1>1, <3>1, <3>2
    <3>3. CASE i # 1
      <4>1. i - 1 \in DOMAIN v /\ v[i - 1] = u[i]
        BY <1>1, <3>3
      <4> QED BY <3>1, <4>1 DEF Numbers
    <3> QED BY <3>2, <3>3
  <2>2. Numbers(v, s) \subseteq Numbers(u, s)
    BY <1>2 DEF Numbers
  <2>3. Head(u)[1] = s => Head(u)[2] \in Numbers(u, s)
    <3>1. 1 \in DOMAIN u
      BY <1>1
    <3> QED BY <1>1, <3>1 DEF Numbers
  <2> QED BY <2>1, <2>2, <2>3
<1>4. ASSUME InOrder(u) PROVE InOrder(v)
  <2> SUFFICES ASSUME NEW i \in DOMAIN v, NEW k \in DOMAIN v,
                      i < k, v[i][1] = v[k][1]
               PROVE  v[i][2] < v[k][2]
    BY DEF InOrder
  <2>1. /\ i + 1 \in DOMAIN u /\ k + 1 \in DOMAIN u /\ i + 1 < k + 1
        /\ v[i] = u[i + 1] /\ v[k] = u[k + 1]
    BY <1>1
  <2> QED BY <1>4, <2>1 DEF InOrder
<1>5. ASSUME InOrder(u), Head(u)[1] = s, NEW n \in Numbers(v, s)
      PROVE  Head(u)[2] < n
  <2>1. PICK i \in DOMAIN u : i > 1 /\ u[i][1] = s /\ n = u[i][2]
    BY <1>2, <1>5
  <2>2. 1 \in DOMAIN u
    BY <1>1
  <2> QED BY <1>1, <1>5, <2>1, <2>2 DEF InOrder
<1> QED BY <1>3, <1>4, <1>5 DEF v

\* A send adds the next number of its sender at the end of the channel, and
\* the oldest item of the channel is the next one of its sender to be got.
LEMMA OrderNext == ChannelTypeOK /\ FirstInFirstOut /\ [ChannelNext]_channelVars => FirstInFirstOut'
<1> SUFFICES ASSUME ChannelTypeOK, FirstInFirstOut, [ChannelNext]_channelVars PROVE FirstInFirstOut'
  OBVIOUS
<1>1. ASSUME NEW s \in Senders, Send(s) PROVE FirstInFirstOut'
  <2> DEFINE m == <<s, sent[s] + 1>>
  <2>1. m \in Items /\ q' = Append(q, m) /\ got' = got /\ sent[s] \in Nat
    BY <1>1 DEF Send, Items, ChannelTypeOK
  <2>2. sent' = [sent EXCEPT ![s] = @ + 1] /\ q \in Seq(Items)
    BY <1>1 DEF Send, ChannelTypeOK
  <2> HIDE DEF m
  <2>3. m[1] = s /\ m[2] = sent[s] + 1
    BY DEF m
  <2>4. \A n \in Numbers(q, s) : n < sent[s] + 1
    BY <2>1 DEF FirstInFirstOut
  <2>5. InOrder(q')
    BY <2>1, <2>2, <2>3, <2>4, Appended DEF FirstInFirstOut
  <2>6. ASSUME NEW u \in Senders
        PROVE  \E n \in 0 .. sent'[u] :
                 /\ Numbers(q', u) = (n + 1) .. sent'[u]
                 /\ UNION {Numbers(got'[r], u) : r \in Receivers} = 1 .. n
                 /\ \A r1, r2 \in Receivers :
                      r1 # r2 => Numbers(got'[r1], u) \cap Numbers(got'[r2], u) = {}
    <3>1. PICK n \in 0 .. sent[u] :
             /\ Numbers(q, u) = (n + 1) .. sent[u]
             /\ UNION {Numbers(got[r], u) : r \in Receivers} = 1 .. n
             /\ \A r1, r2 \in Receivers :
                  r1 # r2 => Numbers(got[r1], u) \cap Numbers(got[r2], u) = {}
      BY DEF FirstInFirstOut
    <3>2. Numbers(q', u) = Numbers(q, u) \cup (IF u = s THEN {sent[s] + 1} ELSE {})
      BY <2>1, <2>2, <2>3, Appended
    <3>3. sent[u] \in Nat /\ sent'[u] = IF u = s THEN sent[s] + 1 ELSE sent[u]
      BY <2>2 DEF ChannelTypeOK
    <3>4. n \in 0 .. sent'[u] /\ Numbers(q', u) = (n + 1) .. sent'[u]
      BY <3>1, <3>2, <3>3
    <3> QED BY <2>1, <3>1, <3>4
  <2> QED BY <2>1, <2>5, <2>6 DEF FirstInFirstOut
<1>2. ASSUME NEW r \in Receivers, Take(r) PROVE FirstInFirstOut'
  <2> DEFINE h == Head(q)
  <2>1. q \in Seq(Items) /\ q # <<>> /\ q' = Tail(q) /\ sent' = sent
    BY <1>2 DEF Take, ChannelTypeOK
  <2>2. h \in Items /\ got[r] \in Seq(Items)
    BY <2>1, HeadTailProperties DEF ChannelTypeOK
  <2>3. got' = [got EXCEPT ![r] = Append(@, h)] /\ got \in [Receivers -> Seq(Items)]
    BY <1>2 DEF Take, Oldest, ChannelTypeOK
  <2> HIDE DEF h
  <2>4. h[1] \in Senders /\ h[2] \in Nat
    BY <2>2 DEF Items
  <2>5. InOrder(q')
    BY <2>1, Removed, <2>4 DEF FirstInFirstOut
  <2>6. PICK n \in 0 .. sent[h[1]] :
           /\ Numbers(q, h[1]) = (n + 1) .. sent[h[1]]
           /\ UNION {Numbers(got[x], h[1]) : x \in Receivers} = 1 .. n
           /\ \A r1, r2 \in Receivers :
                r1 # r2 => Numbers(got[r1], h[1]) \cap Numbers(got[r2], h[1]) = {}
    BY <2>4 DEF FirstInFirstOut
  <2>7. /\ Numbers(q, h[1]) = Numbers(q', h[1]) \cup {h[2]}
        /\ \A k \in Numbers(q', h[1]) : h[2] < k
    BY <2>1, <2>4, Removed DEF h, FirstInFirstOut
  <2>8. sent[h[1]] \in Nat
    BY <2>4 DEF ChannelTypeOK
  <2>9. h[2] = n + 1 /\ Numbers(q', h[1]) = (n + 2) .. sent[h[1]] /\ n + 1 <= sent[h[1]]
    <3>1. h[2] \in (n + 1) .. sent[h[1]]
      BY <2>6, <2>7
    <3>2. n + 1 \in Numbers(q', h[1]) \cup {h[2]}
      BY <2>6, <2>7, <2>8, <3>1
    <3>3. h[2] = n + 1
      BY <2>4, <2>7, <2>8, <3>1, <3>2
    <3>4. Numbers(q', h[1]) = {k \in (n + 1) .. sent[h[1]] : k # n + 1}
      BY <2>6, <2>7, <3>3, <2>8
    <3> QED BY <2>8, <3>1, <3>3, <3>4
  <2>10. ASSUME NEW u \in Senders
         PROVE  /\ Numbers(got'[r], u) =
                     Numbers(got[r], u) \cup (IF u = h[1] THEN {h[2]} ELSE {})
                /\ \A x \in Receivers \ {r} : got'[x] = got[x]
    BY <2>2, <2>3, Appended
  <2>11. \A x \in Receivers : InOrder(got'[x])
    <3>1. Numbers(got[r], h[1]) \subseteq 1 .. n
      BY <2>6
    <3>2. \A k \in Numbers(got[r], h[1]) : k < h[2]
      BY <2>8, <2>9, <3>1
    <3>3. InOrder(got'[r])
      BY <2>2, <2>3, <2>4, <3>2, Appended DEF FirstInFirstOut
    <3> QED BY <2>4, <2>10, <3>3 DEF FirstInFirstOut
  <2>12. ASSUME NEW u \in Senders
         PROVE  \E k \in 0 .. sent'[u] :
                  /\ Numbers(q', u) = (k + 1) .. sent'[u]
                  /\ UNION {Numbers(got'[x], u) : x \in Receivers} = 1 .. k
                  /\ \A r1, r2 \in Receivers :
                       r1 # r2 => Numbers(got'[r1], u) \cap Numbers(got'[r2], u) = {}
    <3>1. CASE u = h[1]
      <4>1. UNION {Numbers(got'[x], u) : x \in Receivers} = (1 .. n) \cup {n + 1}
        BY <2>6, <2>9, <2>10, <3>1
      <4>2. ASSUME NEW x \in Receivers PROVE n + 1 \notin Numbers(got[x], u)
        <5>1. Numbers(got[x], u) \subseteq 1 .. n
          BY <2>6, <3>1
        <5>2. n \in Nat /\ n + 1 \notin 1 .. n
          BY <2>8
        <5> QED BY <5>1, <5>2
      <4>3. \A r1, r2 \in Receivers :
              r1 # r2 => Numbers(got'[r1], u) \cap Numbers(got'[r2], u) = {}
        BY <2>6, <2>9, <2>10, <3>1, <4>2
      <4>4. n + 1 \in 0 .. sent'[u] /\ (1 .. n) \cup {n + 1} = 1 .. (n + 1)
            /\ (n + 2) .. sent[u] = ((n + 1) + 1) .. sent'[u]
        BY <2>1, <2>8, <2>9, <3>1
      <4> QED BY <2>9, <3>1, <4>1, <4>3, <4>4
    <3>2. CASE u # h[1]
      <4>1. Numbers(q', u) = Numbers(q, u)
        <5>1. Numbers(q, u) =
                Numbers(q', u) \cup (IF h[1] = u THEN {h[2]} ELSE {})
          BY <2>1, Removed DEF h
        <5> QED BY <5>1, <3>2
      <4>2. \A x \in Receivers : Numbers(got'[x], u) = Numbers(got[x], u)
        BY <2>10, <3>2
      <4> QED BY <2>1, <4>1, <4>2 DEF FirstInFirstOut
    <3> QED BY <3>1, <3>2
  <2> QED BY <2>5, <2>11, <2>12 DEF FirstInFirstOut
<1>3. ASSUME NEW r \in Receivers, ReceiveBegin(r) \/ WaitItem(r) \/ SpuriousReceive(r)
      PROVE  q' = q /\ got' = got /\ sent' = sent
  BY <1>3 DEF ReceiveBegin, WaitItem, SpuriousReceive
<1>4. CASE q' = q /\ got' = got /\ sent' = sent
  BY <1>4 DEF FirstInFirstOut
<1> QED BY <1>1, <1>2, <1>3, <1>4 DEF ChannelNext, channelVars

\* The inductive invariant: the types, no receiver that sleeps although there is
\* an item for it, and the order of the items.
THEOREM Invariance == ChannelSpec => []IInv
<1>1. ChannelInit => IInv
  <2>1. ChannelInit => ChannelTypeOK /\ EnoughAwake
    BY DEF ChannelInit, ChannelTypeOK, EnoughAwake
  <2>2. ASSUME ChannelInit, NEW s \in Senders
        PROVE  /\ Numbers(q, s) = 1 .. sent[s] /\ 0 \in 0 .. sent[s]
               /\ \A r \in Receivers : Numbers(got[r], s) = {}
    BY <2>2 DEF ChannelInit, Numbers
  <2>3. ChannelInit => FirstInFirstOut
    <3> SUFFICES ASSUME ChannelInit PROVE FirstInFirstOut
      OBVIOUS
    <3>1. InOrder(q) /\ \A r \in Receivers : InOrder(got[r])
      BY DEF ChannelInit, InOrder
    <3>2. ASSUME NEW s \in Senders
          PROVE  UNION {Numbers(got[r], s) : r \in Receivers} = 1 .. 0
      BY <2>2
    <3> QED BY <2>2, <3>1, <3>2 DEF FirstInFirstOut
  <2> QED BY <2>1, <2>3 DEF IInv
<1>2. IInv /\ [ChannelNext]_channelVars => IInv'
  BY TypeNext, AwakeNext, OrderNext DEF IInv
<1> QED BY <1>1, <1>2, PTL DEF ChannelSpec

\* Type correctness alone.
THEOREM TypeCorrect == ChannelSpec => []ChannelTypeOK
BY Invariance, PTL DEF IInv

\* No wake-up is lost between send() and receive().
THEOREM NoWakeupLost == ChannelSpec => []EnoughAwake
BY Invariance, PTL DEF IInv

\* Items come out of the channel once each, those of a sender in order.
THEOREM OnceInOrder == ChannelSpec => []FirstInFirstOut
BY Invariance, PTL DEF IInv
==============================================================================
