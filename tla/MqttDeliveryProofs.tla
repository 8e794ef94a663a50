------------------------- MODULE MqttDeliveryProofs -------------------------
(***************************************************************************)
(* Theorems about MqttDelivery, for any messages, ids and number of        *)
(* faults: the types of the state and of what is under way, that flash     *)
(* holds what RAM holds, that a message which wants an answer is kept      *)
(* until Astarte has it, that the cache holds messages of the session only,*)
(* that a QoS 2 message is received once, and that what the broker has     *)
(* done with is received.                                                  *)
(***************************************************************************)
EXTENDS MqttDelivery, WellFoundedInduction, FiniteSetTheorems, SequenceTheorems, TLAPS

\* A non-empty set of numbers has a least one.
LEMMA LeastExists ==
    ASSUME NEW N \in SUBSET Nat, N # {}
    PROVE  \E n \in N : \A k \in N : n <= k
<1>1. PICK n \in N : \A k \in N : ~ (<<k, n>> \in OpToRel(<, Nat))
  BY WFMin, NatLessThanWellFounded
<1>2. \A k \in N : ~ (k < n)
  BY <1>1 DEF OpToRel
<1> QED BY <1>2

LEMMA Constants ==
    /\ Len(OutKinds) \in Nat /\ Len(InKinds) \in Nat /\ MaxId \in Nat /\ MaxId > 1
    /\ MaxDrops \in Nat /\ MaxReboots \in Nat /\ MaxFailures \in Nat
    /\ MaxForgets \in Nat /\ MaxKvErrors \in Nat
BY KindAssumption, BoundAssumption

\* A queue of packets, without its first and with one more.
LEMMA TailOf ==
    ASSUME NEW S, NEW q \in Seq(S), q # <<>>
    PROVE  /\ Tail(q) \in Seq(S) /\ Len(q) \in Nat \ {0} /\ Len(Tail(q)) = Len(q) - 1
           /\ Head(q) = q[1] /\ Head(q) \in S
           /\ \A k \in 1 .. Len(Tail(q)) : Tail(q)[k] = q[k + 1]
OBVIOUS

LEMMA AppendOf ==
    ASSUME NEW S, NEW q \in Seq(S), NEW p \in S
    PROVE  /\ Append(q, p) \in Seq(S) /\ Len(q) \in Nat /\ Len(Append(q, p)) = Len(q) + 1
           /\ Append(q, p)[Len(q) + 1] = p
           /\ \A k \in 1 .. Len(q) : Append(q, p)[k] = q[k]
OBVIOUS

LEMMA OneBefore ==
    ASSUME NEW S, NEW p \in Seq(S), NEW q \in Seq(S), Len(p) = 1
    PROVE  /\ Len(p \o q) = 1 + Len(q) /\ Len(q) \in Nat
           /\ \A k \in 1 .. 1 + Len(q) : (p \o q)[k] = IF k <= 1 THEN p[k] ELSE q[k - 1]
<1>1. Len(p \o q) = Len(p) + Len(q)
  BY ConcatProperties, Zenon
<1>2. \A k \in 1 .. Len(p) + Len(q) :
        (p \o q)[k] = IF k <= Len(p) THEN p[k] ELSE q[k - Len(p)]
  BY ConcatProperties, Zenon
<1>3. Len(q) \in Nat
  OBVIOUS
<1> QED BY <1>1, <1>2, <1>3, Zenon

\* A fault is counted, and the count of no other one goes back.
LEMMA StrikeType ==
    ASSUME faults \in Bounds, NEW kind, NEW max, Can(kind, max), Strikes(kind),
           \/ kind = "drops" /\ max = MaxDrops
           \/ kind = "reboots" /\ max = MaxReboots
           \/ kind = "failures" /\ max = MaxFailures
           \/ kind = "forgets" /\ max = MaxForgets
           \/ kind = "kv" /\ max = MaxKvErrors
    PROVE  /\ faults' \in Bounds
           /\ faults.kv \in Nat /\ faults'.kv \in Nat /\ faults.kv <= faults'.kv
           /\ faults.reboots \in Nat /\ faults'.reboots \in Nat
           /\ faults.reboots <= faults'.reboots
           /\ kind = "kv" => faults'.kv # 0
           /\ kind = "reboots" => faults'.reboots # 0
<1>1. CASE kind = "drops" /\ max = MaxDrops
  BY <1>1, Constants DEF Bounds, Can, Strikes
<1>2. CASE kind = "reboots" /\ max = MaxReboots
  BY <1>2, Constants DEF Bounds, Can, Strikes
<1>3. CASE kind = "failures" /\ max = MaxFailures
  BY <1>3, Constants DEF Bounds, Can, Strikes
<1>4. CASE kind = "forgets" /\ max = MaxForgets
  BY <1>4, Constants DEF Bounds, Can, Strikes
<1>5. CASE kind = "kv" /\ max = MaxKvErrors
  BY <1>5, Constants DEF Bounds, Can, Strikes
<1> QED BY <1>1, <1>2, <1>3, <1>4, <1>5

LEMMA AckType ==
    ASSUME NEW i \in Ids
    PROVE  /\ \A type \in {"PUBACK", "PUBREC", "PUBREL", "PUBCOMP"} : Ack(type, i) \in ToBroker
           /\ \A type \in {"PUBACK", "PUBREC", "PUBREL", "PUBCOMP", "SUBACK"} :
                  Ack(type, i) \in ToDevice
BY DEF Ack, ToBroker, ToDevice

LEMMA SendType ==
    ASSUME TypeOK, NEW p \in ToBroker, Send(p)
    PROVE  to_broker' \in Seq(ToBroker) /\ faults' \in Bounds
<1>1. CASE link = "up" /\ to_broker' = Append(to_broker, p) /\ UNCHANGED faults
  BY <1>1 DEF TypeOK
<1>2. CASE link # "up" /\ UNCHANGED <<to_broker, faults>>
  BY <1>2 DEF TypeOK
<1>3. CASE Can("failures", MaxFailures) /\ Strikes("failures") /\ UNCHANGED to_broker
  BY <1>3, StrikeType DEF TypeOK
<1> QED BY <1>1, <1>2, <1>3 DEF Send

LEMMA KvErrorType ==
    ASSUME TypeOK, Can("kv", MaxKvErrors), Strikes("kv")
    PROVE  faults' \in Bounds /\ faults'.kv # 0
BY StrikeType DEF TypeOK

LEMMA AvailableIdFree ==
    ASSUME TypeOK, Free # {} PROVE AvailableId \in Free /\ AvailableId \in Ids
<1> DEFINE T == {After(i) : i \in Free}
<1>1. T \in SUBSET Nat /\ T # {}
  <2>1. last_message_id \in 0 .. MaxId
    BY DEF TypeOK
  <2>2. ASSUME NEW i \in Free PROVE After(i) \in Nat
    <3>1. i \in 1 .. MaxId
      BY DEF Free, Ids
    <3> QED BY <2>1, <3>1, Constants DEF After
  <2> QED BY <2>2
<1>2. \E n \in T : \A k \in T : n <= k
  BY <1>1, LeastExists
<1>3. \E i \in Free : \A j \in Free : After(i) <= After(j)
  BY <1>2
<1>4. AvailableId \in Free
  BY <1>3 DEF AvailableId
<1> QED BY <1>4 DEF Free

LEMMA MessagePacket ==
    ASSUME NEW n \in Keeps, NEW i \in Ids
    PROVE  PacketOf(n, i) \in ToBroker /\ PacketOf(n, i).type \in {"PUBLISH", "SUBSCRIBE"}
BY Constants DEF PacketOf, ToBroker, Keeps, Ids

LEMMA InitType == ASSUME Init PROVE TypeOK
<1>1. broker \in Session
  BY DEF Init, NoSession, Session
<1>2. faults \in Bounds
  BY Constants DEF Init, Bounds
<1>3. begun \in [out : 0 .. Len(OutKinds), in : 0 .. Len(InKinds)]
  BY Constants DEF Init
<1>4. excused \in [out : SUBSET Sent, in : SUBSET Incoming]
  BY DEF Init
<1>5. delivered \in [Sent -> 0 .. 2] /\ received \in [Incoming -> 0 .. 2]
  BY DEF Init
<1>6. to_broker \in Seq(ToBroker) /\ to_device \in Seq(ToDevice) /\ busy \in Calling
  BY DEF Init, Calling
<1>7. /\ out_msgs \in [Ids -> Keeps \cup {None}] /\ out_flash \in [Ids -> Keeps \cup {None}]
      /\ in_msgs \subseteq Ids /\ in_flash \subseteq Ids
  BY DEF Init
<1>8. /\ last_message_id \in 0 .. MaxId
      /\ link \in {"down", "connecting", "up"} /\ online \in BOOLEAN
  <2>1. last_message_id = 0 /\ link = "down" /\ online = FALSE
    BY DEF Init
  <2>2. 0 \in 0 .. MaxId
    BY Constants
  <2> QED BY <2>1, <2>2
<1> QED BY <1>1, <1>2, <1>3, <1>4, <1>5, <1>6, <1>7, <1>8 DEF TypeOK

LEMMA BeginType == ASSUME TypeOK, NEW n \in Sent, Begin(n) PROVE TypeOK'
<1>1. begun' \in [out : 0 .. Len(OutKinds), in : 0 .. Len(InKinds)]
  <2>1. begun \in [out : 0 .. Len(OutKinds), in : 0 .. Len(InKinds)] /\ n \in 0 .. Len(OutKinds)
    BY Constants DEF TypeOK, Sent
  <2>2. begun' = [begun EXCEPT !.out = n]
    BY DEF Begin
  <2> QED BY <2>1, <2>2
<1> USE DEF TypeOK, net, history
<1>2. CASE OutKinds[n] = "qos0"
  <2>1. PacketOf(n, 0) \in ToBroker /\ PacketOf(n, 0).type \in {"PUBLISH", "SUBSCRIBE"}
    BY <1>2 DEF PacketOf, ToBroker
  <2>2. busy' \in Calling
    BY <1>2, <2>1 DEF Begin, Calling
  <2> QED BY <1>1, <1>2, <2>2 DEF Begin
<1>3. CASE OutKinds[n] # "qos0"
  <2>1. n \in Keeps /\ AvailableId \in Ids
    BY <1>3, AvailableIdFree DEF Begin, Keeps
  <2>2. busy' \in Calling
    BY <1>3, <2>1, MessagePacket DEF Begin, Calling
  <2>3. faults' \in Bounds
    BY <1>3, KvErrorType DEF Begin
  <2>4. last_message_id' \in 0 .. MaxId
    BY <1>3, <2>1 DEF Begin, Ids
  <2>5. out_msgs' \in [Ids -> Keeps \cup {None}] /\ out_flash' \in [Ids -> Keeps \cup {None}]
    BY <1>3, <2>1 DEF Begin
  <2> QED BY <1>1, <1>3, <2>2, <2>3, <2>4, <2>5 DEF Begin
<1> QED BY <1>2, <1>3

LEMMA SendingType ==
    ASSUME TypeOK, SendIt \/ (\E i \in Ids : ResendOut(i) \/ ResendIn(i)) PROVE TypeOK'
<1>1. CASE SendIt
  <2>1. busy.packet \in ToBroker
    BY <1>1 DEF SendIt, TypeOK, Calling, Idle
  <2> QED BY <1>1, <2>1, SendType DEF SendIt, TypeOK, caches, history, Calling
<1>2. ASSUME NEW i \in Ids, ResendOut(i) PROVE TypeOK'
  <2>1. PacketOf(out_msgs[i], i) \in ToBroker
    BY <1>2, MessagePacket DEF ResendOut, TypeOK
  <2> QED BY <1>2, <2>1, SendType DEF ResendOut, TypeOK, caches, history
<1>3. ASSUME NEW i \in Ids, ResendIn(i) PROVE TypeOK'
  BY <1>3, AckType, SendType DEF ResendIn, TypeOK, caches, history
<1> QED BY <1>1, <1>2, <1>3

LEMMA SaysType ==
    ASSUME TypeOK, NEW type, Receives(type), type # "PUBLISH", type # "CONNACK"
    PROVE  Head(to_device).id \in Ids /\ to_device' \in Seq(ToDevice)
<1>1. Head(to_device) \in ToDevice /\ to_device' \in Seq(ToDevice)
  BY TailOf DEF TypeOK, Receives
<1> QED BY <1>1 DEF ToDevice, Receives

LEMMA AcknowledgedType ==
    ASSUME TypeOK, NEW type \in {"PUBACK", "PUBCOMP", "SUBACK"}, Acknowledged(type)
    PROVE  TypeOK'
<1> DEFINE i == Head(to_device).id
<1>1. i \in Ids /\ to_device' \in Seq(ToDevice)
  BY SaysType DEF Acknowledged
<1>2. /\ out_msgs' \in [Ids -> Keeps \cup {None}] /\ out_flash' \in [Ids -> Keeps \cup {None}]
      /\ faults' \in Bounds
  <2>1. CASE out_msgs[i] = None
    BY <2>1 DEF Acknowledged, TypeOK
  <2>2. ASSUME NEW fails \in BOOLEAN, ForgetFlash(i, fails)
        PROVE  out_flash' \in [Ids -> Keeps \cup {None}] /\ faults' \in Bounds
    BY <1>1, <2>2, KvErrorType DEF ForgetFlash, TypeOK
  <2>3. CASE out_msgs[i] # None
    BY <1>1, <2>2, <2>3 DEF Acknowledged, TypeOK
  <2> QED BY <2>1, <2>3
<1> QED BY <1>1, <1>2 DEF Acknowledged, TypeOK, history

LEMMA OnPubrecType == ASSUME TypeOK, OnPubrec PROVE TypeOK'
<1>1. Ack("PUBREL", Head(to_device).id) \in ToBroker /\ to_device' \in Seq(ToDevice)
  BY SaysType, AckType DEF OnPubrec
<1> QED BY <1>1, SendType DEF OnPubrec, TypeOK, caches, history

LEMMA OnPubrelType == ASSUME TypeOK, OnPubrel PROVE TypeOK'
<1>1. Ack("PUBCOMP", Head(to_device).id) \in ToBroker /\ to_device' \in Seq(ToDevice)
  BY SaysType, AckType DEF OnPubrel
<1> QED BY <1>1, SendType DEF OnPubrel, TypeOK, history

LEMMA OnPublishType == ASSUME TypeOK, OnPublish PROVE TypeOK'
<1> DEFINE p == Head(to_device)
<1>1. p \in ToDevice /\ p.type = "PUBLISH" /\ to_device' \in Seq(ToDevice)
  BY TailOf DEF TypeOK, OnPublish, Receives
<1>2. p.msg \in Incoming /\ p.id \in Ids \cup {0} /\ (p.id = 0 <=> InKinds[p.msg] = "qos0")
  BY <1>1 DEF ToDevice
<1>3. [pc |-> "deliver", id |-> p.id, msg |-> p.msg] \in Calling
  BY <1>2 DEF Calling
<1>4. busy' \in Calling /\ to_broker' \in Seq(ToBroker) /\ faults' \in Bounds
  <2>1. CASE InKinds[p.msg] = "qos0"
    BY <1>3, <2>1 DEF OnPublish, TypeOK
  <2>2. CASE InKinds[p.msg] = "qos1"
    <3>1. Ack("PUBACK", p.id) \in ToBroker
      BY <1>2, <2>2, AckType
    <3> QED BY <1>3, <2>2, <3>1, SendType DEF OnPublish
  <2>3. CASE InKinds[p.msg] = "qos2"
    <3>1. Ack("PUBREC", p.id) \in ToBroker /\ p.id \in Ids
      BY <1>2, <2>3, AckType
    <3>2. Idle \in Calling /\ [pc |-> "store", id |-> p.id, msg |-> p.msg] \in Calling
      BY <1>2, <3>1 DEF Calling
    <3> QED BY <2>3, <3>1, <3>2, SendType DEF OnPublish
  <2> QED BY <1>2, <2>1, <2>2, <2>3, KindAssumption
<1> QED BY <1>1, <1>4 DEF OnPublish, TypeOK, caches, history

LEMMA CallsType == ASSUME TypeOK, Store \/ Deliver PROVE TypeOK'
<1>1. CASE Store
  <2>1. busy \in [pc : {"store"}, id : Ids, msg : Incoming]
    BY <1>1 DEF Store, TypeOK, Calling, Idle
  <2>2. busy' \in [pc : {"deliver"}, id : Ids \cup {0}, msg : Incoming] /\ busy.id \in Ids
    BY <1>1, <2>1 DEF Store
  <2>3. busy' \in Calling
    BY <2>2 DEF Calling
  <2>4. faults' \in Bounds
    BY <1>1, KvErrorType DEF Store, TypeOK
  <2> QED BY <1>1, <2>2, <2>3, <2>4 DEF Store, TypeOK, net, history
<1>2. CASE Deliver
  <2>1. busy.msg \in Incoming
    BY <1>2 DEF Deliver, TypeOK, Calling, Idle
  <2>2. received' \in [Incoming -> 0 .. 2] /\ busy' \in Calling
    BY <1>2, <2>1 DEF Deliver, TypeOK, Counted, Calling
  <2> QED BY <1>2, <2>2 DEF Deliver, TypeOK, net, caches
<1> QED BY <1>1, <1>2

LEMMA OnConnackType == ASSUME TypeOK, OnConnack PROVE TypeOK'
<1>1. to_device' \in Seq(ToDevice)
  BY TailOf DEF OnConnack, Receives, TypeOK
<1>2. CASE Head(to_device).present
  BY <1>1, <1>2 DEF OnConnack, TypeOK, caches
<1>3. CASE ~Head(to_device).present
  <2>1. excused' \in [out : SUBSET Sent, in : SUBSET Incoming]
    <3>1. begun.out \in 0 .. Len(OutKinds) /\ excused \in [out : SUBSET Sent, in : SUBSET Incoming]
      BY DEF TypeOK
    <3>2. 1 .. begun.out \in SUBSET Sent
      BY <3>1, Constants DEF Sent
    <3>3. excused' = [excused EXCEPT !.out = 1 .. begun.out]
      BY <1>3 DEF OnConnack
    <3> QED BY <3>1, <3>2, <3>3
  <2>2. out_flash' \in [Ids -> Keeps \cup {None}] /\ out_msgs' \in [Ids -> Keeps \cup {None}]
    BY <1>3 DEF OnConnack, TypeOK
  <2> QED BY <1>1, <1>3, <2>1, <2>2 DEF OnConnack, TypeOK
<1> QED BY <1>2, <1>3

LEMMA BrokerReceivesType == ASSUME TypeOK, BrokerReceives PROVE TypeOK'
<1> DEFINE p == Head(to_broker)
<1>1. p \in ToBroker /\ to_broker' \in Seq(ToBroker)
  BY TailOf DEF BrokerReceives, TypeOK
<1> SUFFICES broker' \in Session /\ to_device' \in Seq(ToDevice) /\ delivered' \in [Sent -> 0 .. 2]
  BY <1>1 DEF BrokerReceives, TypeOK, caches
<1>2. CASE p.type = "PUBLISH" /\ BrokerGetsPublish(p)
  <2>1. p.msg \in Sent /\ p.id \in Ids \cup {0} /\ (p.id = 0 <=> OutKinds[p.msg] = "qos0")
    BY <1>1, <1>2 DEF ToBroker
  <2>2. delivered' \in [Sent -> 0 .. 2]
    BY <1>2, <2>1 DEF BrokerGetsPublish, TypeOK, Counted
  <2>3. broker' \in Session
    BY <1>2, <2>1 DEF BrokerGetsPublish, TypeOK, Session
  <2>4. to_device' \in Seq(ToDevice)
    <3>1. CASE OutKinds[p.msg] = "qos0"
      BY <1>2, <3>1 DEF BrokerGetsPublish, TypeOK
    <3>2. CASE OutKinds[p.msg] # "qos0"
      <4>1. Ack("PUBACK", p.id) \in ToDevice /\ Ack("PUBREC", p.id) \in ToDevice
        BY <2>1, <3>2, AckType
      <4>2. \E a \in ToDevice : to_device' = Append(to_device, a)
        BY <1>2, <3>2, <4>1 DEF BrokerGetsPublish, Answer
      <4> QED BY <4>2 DEF TypeOK
    <3> QED BY <3>1, <3>2
  <2> QED BY <2>2, <2>3, <2>4
<1>3. CASE /\ p.type = "SUBSCRIBE" /\ delivered' = Counted(delivered, p.msg)
           /\ Answer(Ack("SUBACK", p.id)) /\ UNCHANGED broker
  <2>1. p.msg \in Sent /\ p.id \in Ids
    BY <1>1, <1>3 DEF ToBroker
  <2>2. delivered' \in [Sent -> 0 .. 2]
    BY <1>3, <2>1 DEF TypeOK, Counted
  <2> QED BY <1>3, <2>1, <2>2, AckType DEF TypeOK, Answer
<1>4. CASE p.type \notin {"PUBLISH", "SUBSCRIBE"} /\ BrokerGets(p)
  <2>1. p.id \in Ids
    BY <1>1, <1>4 DEF ToBroker
  <2>2. delivered' = delivered
    BY <1>4 DEF BrokerGets
  <2>3. to_device' \in Seq(ToDevice)
    <3>1. UNCHANGED to_device \/ \E a \in ToDevice : to_device' = Append(to_device, a)
      <4>1. Ack("PUBCOMP", p.id) \in ToDevice /\ Ack("PUBREL", p.id) \in ToDevice
        BY <2>1, AckType
      <4> QED BY <1>4, <4>1, Zenon DEF BrokerGets, Answer
    <3>2. to_device \in Seq(ToDevice)
      BY DEF TypeOK
    <3> QED BY <3>1, <3>2, AppendOf
  <2>4. broker' \in Session
    <3>1. CASE broker' = [broker EXCEPT !.seen = @ \ {p.id}]
      BY <3>1 DEF TypeOK, Session
    <3>2. CASE broker' = [broker EXCEPT !.pending[p.id] = None]
      BY <2>1, <3>2 DEF TypeOK, Session
    <3>3. CASE broker.pending[p.id] # None /\ broker' = [broker EXCEPT !.pending[p.id].type = "PUBREL"]
      <4>1. broker.pending[p.id] \in [msg : BrokerKeeps, type : {"PUBLISH", "PUBREL"}]
        BY <2>1, <3>3 DEF TypeOK, Session
      <4>2. [broker.pending[p.id] EXCEPT !.type = "PUBREL"]
                \in [msg : BrokerKeeps, type : {"PUBLISH", "PUBREL"}]
        BY <4>1
      <4> QED BY <2>1, <3>3, <4>2 DEF TypeOK, Session
    <3>4. CASE UNCHANGED broker
      BY <3>4 DEF TypeOK
    <3> QED BY <1>4, <3>1, <3>2, <3>3, <3>4 DEF BrokerGets
  <2> QED BY <2>2, <2>3, <2>4 DEF TypeOK
<1> QED BY <1>2, <1>3, <1>4 DEF BrokerReceives, BrokerGets

LEMMA BrokerSendsType == ASSUME TypeOK, NEW n \in Incoming, BrokerSends(n) PROVE TypeOK'
<1>1. begun' \in [out : 0 .. Len(OutKinds), in : 0 .. Len(InKinds)]
  <2>1. begun \in [out : 0 .. Len(OutKinds), in : 0 .. Len(InKinds)] /\ n \in 0 .. Len(InKinds)
    BY Constants DEF TypeOK, Incoming
  <2>2. begun' = [begun EXCEPT !.in = n]
    BY DEF BrokerSends
  <2> QED BY <2>1, <2>2
<1>2. CASE InKinds[n] = "qos0"
  <2>1. [type |-> "PUBLISH", id |-> 0, msg |-> n] \in ToDevice
    BY <1>2 DEF ToDevice
  <2>2. to_device' = Append(to_device, [type |-> "PUBLISH", id |-> 0, msg |-> n])
    BY <1>2 DEF BrokerSends, Answer
  <2>3. to_device' \in Seq(ToDevice)
    BY <2>1, <2>2 DEF TypeOK
  <2> QED BY <1>1, <1>2, <2>3 DEF BrokerSends, TypeOK, caches, history
<1>3. CASE InKinds[n] # "qos0"
  <2> DEFINE i == CHOOSE j \in Unused : TRUE
  <2>1. i \in Ids /\ n \in BrokerKeeps
    BY <1>3 DEF BrokerSends, Unused, BrokerKeeps
  <2>2. [type |-> "PUBLISH", id |-> i, msg |-> n] \in ToDevice
    <3> HIDE DEF i
    <3>1. i # 0
      BY <2>1, Constants DEF Ids
    <3> QED BY <1>3, <2>1, <3>1 DEF ToDevice
  <2>3. [msg |-> n, type |-> "PUBLISH"] \in [msg : BrokerKeeps, type : {"PUBLISH", "PUBREL"}]
    BY <2>1
  <2> HIDE DEF i
  <2>4. broker' = [broker EXCEPT !.pending[i] = [msg |-> n, type |-> "PUBLISH"]]
    BY <1>3 DEF BrokerSends, i
  <2>5. broker' \in Session
    BY <2>1, <2>3, <2>4 DEF TypeOK, Session
  <2>6. to_device' \in Seq(ToDevice)
    <3>1. \/ UNCHANGED to_device
          \/ to_device' = Append(to_device, [type |-> "PUBLISH", id |-> i, msg |-> n])
      BY <1>3, Zenon DEF BrokerSends, Answer, i
    <3>2. to_device \in Seq(ToDevice)
      BY DEF TypeOK
    <3> QED BY <2>2, <3>1, <3>2, AppendOf
  <2> QED BY <1>1, <2>5, <2>6 DEF BrokerSends, TypeOK, caches, history
<1> QED BY <1>2, <1>3

LEMMA UsedCount == Cardinality(Ids \ Unused) \in Nat
<1>1. IsFiniteSet(Ids)
  BY Constants, FS_Interval DEF Ids
<1>2. IsFiniteSet(Ids \ Unused)
  BY <1>1, FS_Subset
<1> QED BY <1>2, FS_CardinalityType

LEMMA ConnectType == ASSUME TypeOK, Connect PROVE TypeOK'
<1>1. PICK ids \in [1 .. Cardinality(Ids \ Unused) -> Ids \ Unused] :
        to_device' = <<[type |-> "CONNACK", present |-> broker.present]>>
                         \o [k \in DOMAIN ids |-> Pending(ids[k])]
  BY DEF Connect
<1>2. ASSUME NEW i \in Ids \ Unused PROVE Pending(i) \in ToDevice
  <2>1. broker.pending[i] \in [msg : BrokerKeeps, type : {"PUBLISH", "PUBREL"}]
    BY DEF TypeOK, Session, Unused
  <2>2. CASE broker.pending[i].type = "PUBREL"
    BY <2>2, AckType DEF Pending
  <2>3. CASE broker.pending[i].type # "PUBREL"
    BY <2>1, <2>3, Constants DEF Pending, ToDevice, BrokerKeeps, Ids
  <2> QED BY <2>2, <2>3
<1>3. Cardinality(Ids \ Unused) \in Nat
  BY UsedCount
<1>4. [k \in DOMAIN ids |-> Pending(ids[k])] \in Seq(ToDevice)
  <2> DEFINE n == Cardinality(Ids \ Unused)
             again == [k \in DOMAIN ids |-> Pending(ids[k])]
  <2>1. n \in Nat /\ DOMAIN ids = 1 .. n
    BY <1>3
  <2>2. again \in [1 .. n -> ToDevice]
    BY <1>2, <2>1
  <2> HIDE DEF n, again
  <2>3. again \in Seq(ToDevice)
    BY <2>1, <2>2
  <2> QED BY <2>3 DEF again
<1>5. <<[type |-> "CONNACK", present |-> broker.present]>> \in Seq(ToDevice)
  BY DEF ToDevice, TypeOK, Session
<1>6. to_device' \in Seq(ToDevice)
  <2> DEFINE again == [k \in DOMAIN ids |-> Pending(ids[k])]
             first == <<[type |-> "CONNACK", present |-> broker.present]>>
  <2> HIDE DEF again, first
  <2> QED BY <1>1, <1>4, <1>5, ConcatProperties DEF again, first
<1>7. broker' \in Session
  BY DEF Connect, TypeOK, Session
<1> QED BY <1>6, <1>7 DEF Connect, TypeOK, caches, history

LEMMA FaultType == ASSUME TypeOK, Drop \/ Reboot \/ Forget PROVE TypeOK'
<1>1. CASE Drop
  <2>1. faults' \in Bounds
    BY <1>1, StrikeType DEF Drop, TypeOK
  <2>2. to_broker' \in Seq(ToBroker) /\ to_device' \in Seq(ToDevice)
    BY <1>1 DEF Drop, Cut
  <2> QED BY <1>1, <2>1, <2>2 DEF Drop, Cut, TypeOK, caches, history
<1>2. CASE Reboot
  <2>1. faults' \in Bounds
    BY <1>2, StrikeType DEF Reboot, TypeOK
  <2>2. to_broker' \in Seq(ToBroker) /\ to_device' \in Seq(ToDevice) /\ busy' \in Calling
    BY <1>2 DEF Reboot, Cut, Calling
  <2>3. last_message_id' \in 0 .. MaxId
    BY <1>2, Constants DEF Reboot
  <2> QED BY <1>2, <2>1, <2>2, <2>3 DEF Reboot, Cut, TypeOK, history
<1>3. CASE Forget
  <2>1. broker' \in Session
    BY <1>3 DEF Forget, NoSession, Session
  <2>2. excused' \in [out : SUBSET Sent, in : SUBSET Incoming]
    BY <1>3, Constants DEF Forget, TypeOK, Sent, Incoming
  <2>3. faults' \in Bounds
    BY <1>3, StrikeType DEF Forget, TypeOK
  <2> QED BY <1>3, <2>1, <2>2, <2>3 DEF Forget, TypeOK, caches, net
<1> QED BY <1>1, <1>2, <1>3

LEMMA TypeStep == ASSUME TypeOK, [Next]_vars PROVE TypeOK'
<1>1. CASE UNCHANGED vars
  BY <1>1 DEF vars, TypeOK, caches, net, history
<1>2. CASE Next
  BY <1>2, BeginType, SendingType, AcknowledgedType, OnPubrecType, OnPubrelType, OnPublishType,
     CallsType, OnConnackType, BrokerReceivesType, BrokerSendsType, ConnectType, FaultType
     DEF Next, Calls, DeviceReceives
<1> QED BY <1>1, <1>2

\* Every variable keeps its type, and every packet under way has an id that
\* fits what it is about.
THEOREM TypeCorrect == Spec => []TypeOK
<1>1. Init => TypeOK
  BY InitType
<1>2. TypeOK /\ [Next]_vars => TypeOK'
  BY TypeStep
<1> QED BY <1>1, <1>2, PTL DEF Spec

-----------------------------------------------------------------------------
(* What flash holds: a write that fails is counted before the two copies   *)
(* can differ, and a reboot reads what they have in common.                *)

\* A PUBLISH is not answered, or with an acknowledgement.
LEMMA OnPublishCases ==
    ASSUME TypeOK, OnPublish
    PROVE  /\ busy'.pc \in {"idle", "store", "deliver"}
           /\ \/ UNCHANGED <<to_broker, faults>>
              \/ \E i \in Ids, type \in {"PUBACK", "PUBREC"} : Send(Ack(type, i))
<1> DEFINE p == Head(to_device)
<1>1. p \in ToDevice /\ p.type = "PUBLISH"
  BY TailOf DEF TypeOK, OnPublish, Receives
<1>2. p.msg \in Incoming /\ p.id \in Ids \cup {0} /\ (p.id = 0 <=> InKinds[p.msg] = "qos0")
  BY <1>1 DEF ToDevice
<1>3. CASE InKinds[p.msg] = "qos0"
  BY <1>3 DEF OnPublish
<1>4. CASE InKinds[p.msg] = "qos1"
  BY <1>2, <1>4 DEF OnPublish
<1>5. CASE InKinds[p.msg] = "qos2"
  BY <1>2, <1>5 DEF OnPublish, Idle
<1> QED BY <1>2, <1>3, <1>4, <1>5, KindAssumption

\* At most one fault strikes in a step.
LEMMA Struck ==
    ASSUME TypeOK, Next
    PROVE  \/ UNCHANGED faults
           \/ Can("drops", MaxDrops) /\ Strikes("drops")
           \/ Can("reboots", MaxReboots) /\ Strikes("reboots")
           \/ Can("failures", MaxFailures) /\ Strikes("failures")
           \/ Can("forgets", MaxForgets) /\ Strikes("forgets")
           \/ Can("kv", MaxKvErrors) /\ Strikes("kv")
<1>1. ASSUME NEW n \in Sent, Begin(n)
      PROVE  UNCHANGED faults \/ (Can("kv", MaxKvErrors) /\ Strikes("kv"))
  BY <1>1 DEF Begin
<1>2. ASSUME NEW p, Send(p)
      PROVE  UNCHANGED faults \/ (Can("failures", MaxFailures) /\ Strikes("failures"))
  BY <1>2 DEF Send
<1>3. ASSUME \E i \in Ids : ResendOut(i) \/ ResendIn(i)
      PROVE  UNCHANGED faults \/ (Can("failures", MaxFailures) /\ Strikes("failures"))
  BY <1>2, <1>3 DEF ResendOut, ResendIn
<1>4. ASSUME Calls
      PROVE  \/ UNCHANGED faults \/ (Can("failures", MaxFailures) /\ Strikes("failures"))
             \/ Can("kv", MaxKvErrors) /\ Strikes("kv")
  BY <1>2, <1>4 DEF Calls, SendIt, Store, Deliver
<1>5. ASSUME NEW type, Acknowledged(type)
      PROVE  UNCHANGED faults \/ (Can("kv", MaxKvErrors) /\ Strikes("kv"))
  BY <1>5 DEF Acknowledged, ForgetFlash
<1>6. ASSUME OnPubrec \/ OnPubrel \/ OnPublish \/ OnConnack
      PROVE  UNCHANGED faults \/ (Can("failures", MaxFailures) /\ Strikes("failures"))
  BY <1>2, <1>6, OnPublishCases, Zenon DEF OnPubrec, OnPubrel, OnConnack
<1>7. ASSUME DeviceReceives
      PROVE  \/ UNCHANGED faults \/ (Can("failures", MaxFailures) /\ Strikes("failures"))
             \/ Can("kv", MaxKvErrors) /\ Strikes("kv")
  BY <1>5, <1>6, <1>7, Zenon DEF DeviceReceives
<1>8. ASSUME BrokerReceives \/ (\E n \in Incoming : BrokerSends(n)) \/ Connect
      PROVE  UNCHANGED faults
  BY <1>8 DEF BrokerReceives, BrokerSends, Connect
<1> QED BY <1>1, <1>3, <1>4, <1>7, <1>8 DEF Next, Drop, Reboot, Forget

\* Faults are counted up.
LEMMA FaultsGrow ==
    ASSUME TypeOK, Next
    PROVE  /\ faults.kv \in Nat /\ faults'.kv \in Nat /\ faults.kv <= faults'.kv
           /\ faults.reboots \in Nat /\ faults'.reboots \in Nat
           /\ faults.reboots <= faults'.reboots
<1>1. faults \in Bounds /\ faults.kv \in Nat /\ faults.reboots \in Nat
  BY Constants DEF TypeOK, Bounds
<1> QED BY <1>1, Struck, StrikeType

Synced == faults.kv = 0 => out_flash = out_msgs /\ in_flash = in_msgs

LEMMA SyncedStep == ASSUME TypeOK, Synced, Next PROVE Synced'
<1> SUFFICES ASSUME faults'.kv = 0 PROVE out_flash' = out_msgs' /\ in_flash' = in_msgs'
  BY DEF Synced
<1>1. faults.kv = 0 /\ out_flash = out_msgs /\ in_flash = in_msgs
  BY FaultsGrow DEF Synced
<1>2. ~ (Can("kv", MaxKvErrors) /\ Strikes("kv"))
  BY KvErrorType
<1>3. ASSUME NEW n \in Sent, Begin(n) PROVE out_flash' = out_msgs' /\ in_flash' = in_msgs'
  BY <1>1, <1>2, <1>3 DEF Begin
<1>4. ASSUME NEW type, Acknowledged(type) PROVE out_flash' = out_msgs' /\ in_flash' = in_msgs'
  BY <1>1, <1>2, <1>4 DEF Acknowledged, ForgetFlash
<1>5. CASE OnPubrel
  BY <1>1, <1>5 DEF OnPubrel
<1>6. CASE Store
  BY <1>1, <1>2, <1>6 DEF Store
<1>7. CASE OnConnack
  <2>1. CASE Head(to_device).present
    BY <1>1, <1>7, <2>1 DEF OnConnack, caches
  <2>2. CASE ~Head(to_device).present
    BY <1>1, <1>7, <2>2 DEF OnConnack, TypeOK
  <2> QED BY <2>1, <2>2
<1>8. CASE Reboot
  BY <1>1, <1>8 DEF Reboot
<1>9. CASE UNCHANGED caches
  BY <1>1, <1>9 DEF caches
<1> QED BY <1>3, <1>4, <1>5, <1>6, <1>7, <1>8, <1>9 DEF Next, Calls, DeviceReceives, SendIt,
       ResendOut, ResendIn, Deliver, OnPubrec, OnPublish, BrokerReceives, BrokerSends, Connect,
       Drop, Forget

\* Once every write to flash has succeeded, flash and RAM hold the same ids and
\* messages whenever no call is half done: what astarte_mqtt_caching_restore_from_flash
\* finds at the next boot is what was there.
THEOREM FlashIsMirror == Spec => []FlashMirrorsCache
<1>1. Init => TypeOK /\ Synced
  BY InitType DEF Init, Synced
<1>2. TypeOK /\ Synced /\ [Next]_vars => (TypeOK /\ Synced)'
  <2>1. ASSUME TypeOK, Synced, UNCHANGED vars PROVE Synced'
    BY <2>1 DEF vars, caches, Synced
  <2> QED BY <2>1, TypeStep, SyncedStep
<1>3. Synced => FlashMirrorsCache
  BY DEF Synced, FlashMirrorsCache
<1> QED BY <1>1, <1>2, <1>3, PTL DEF Spec

-----------------------------------------------------------------------------
(* Who owns an id.  A packet that asks for an answer, or the answer that   *)
(* it gets, is about the message which the cache holds under its id; with  *)
(* Window = 1 there is one of them under way at most for each id, so that  *)
(* an answer never meets an id that was given to another message.          *)

Asks(p) == p.type \in {"PUBLISH", "SUBSCRIBE", "PUBREL"} /\ p.id # 0
Answers(p) == p.type \in {"PUBACK", "PUBREC", "PUBCOMP", "SUBACK"}

\* The message of the id has reached Astarte.
Has(out, dlv, i) == out[i] # None /\ dlv[out[i]] > 0

AskOwned(out, dlv, p) ==
    /\ p.type = "PUBREL" => Has(out, dlv, p.id)
    /\ p.type # "PUBREL" => out[p.id] = p.msg
AnswerOwned(out, dlv, seen, p) ==
    /\ Has(out, dlv, p.id)
    /\ p.type = "PUBACK" => OutKinds[out[p.id]] = "qos1"
    /\ p.type = "SUBACK" => OutKinds[out[p.id]] = "sub"
    /\ p.type = "PUBCOMP" => p.id \notin seen

\* Nothing under way is about the id.
Fresh(i, up, down) ==
    /\ \A k \in 1 .. Len(up) : Asks(up[k]) => up[k].id # i
    /\ \A k \in 1 .. Len(down) : Answers(down[k]) => down[k].id # i

Fine(out, dlv, seen, up, down) ==
    /\ \A k \in 1 .. Len(up) : Asks(up[k]) => AskOwned(out, dlv, up[k])
    /\ \A k \in 1 .. Len(down) : Answers(down[k]) => AnswerOwned(out, dlv, seen, down[k])
    /\ \A j, k \in 1 .. Len(up) :
        j # k /\ Asks(up[j]) /\ Asks(up[k]) => up[j].id # up[k].id
    /\ \A j, k \in 1 .. Len(down) :
        j # k /\ Answers(down[j]) /\ Answers(down[k]) => down[j].id # down[k].id
    /\ \A j \in 1 .. Len(up), k \in 1 .. Len(down) :
        Asks(up[j]) /\ Answers(down[k]) => up[j].id # down[k].id

\* One more packet to the broker.
LEMMA AppendUp ==
    ASSUME NEW out, NEW dlv, NEW seen, NEW up \in Seq(ToBroker), NEW down \in Seq(ToDevice),
           NEW p \in ToBroker, Fine(out, dlv, seen, up, down),
           Asks(p) => AskOwned(out, dlv, p) /\ Fresh(p.id, up, down)
    PROVE  Fine(out, dlv, seen, Append(up, p), down)
<1> DEFINE more == Append(up, p)
<1>1. /\ Len(more) = Len(up) + 1 /\ Len(up) \in Nat
      /\ more[Len(up) + 1] = p /\ \A k \in 1 .. Len(up) : more[k] = up[k]
  BY AppendOf
<1> HIDE DEF more
<1>2. \A k \in 1 .. Len(more) : k \in 1 .. Len(up) \/ k = Len(up) + 1
  BY <1>1
<1>3. \A k \in 1 .. Len(more) : Asks(more[k]) => AskOwned(out, dlv, more[k])
  BY <1>1, <1>2 DEF Fine
<1>4. \A j, k \in 1 .. Len(more) :
        j # k /\ Asks(more[j]) /\ Asks(more[k]) => more[j].id # more[k].id
  BY <1>1, <1>2 DEF Fine, Fresh
<1>5. \A j \in 1 .. Len(more), k \in 1 .. Len(down) :
        Asks(more[j]) /\ Answers(down[k]) => more[j].id # down[k].id
  BY <1>1, <1>2 DEF Fine, Fresh
<1> QED BY <1>3, <1>4, <1>5 DEF Fine, more

\* One more packet to the device.
LEMMA AppendDown ==
    ASSUME NEW out, NEW dlv, NEW seen, NEW up \in Seq(ToBroker), NEW down \in Seq(ToDevice),
           NEW p \in ToDevice, Fine(out, dlv, seen, up, down),
           Answers(p) => AnswerOwned(out, dlv, seen, p) /\ Fresh(p.id, up, down)
    PROVE  Fine(out, dlv, seen, up, Append(down, p))
<1> DEFINE more == Append(down, p)
<1>1. /\ Len(more) = Len(down) + 1 /\ Len(down) \in Nat
      /\ more[Len(down) + 1] = p /\ \A k \in 1 .. Len(down) : more[k] = down[k]
  BY AppendOf
<1> HIDE DEF more
<1>2. \A k \in 1 .. Len(more) : k \in 1 .. Len(down) \/ k = Len(down) + 1
  BY <1>1
<1>3. \A k \in 1 .. Len(more) : Answers(more[k]) => AnswerOwned(out, dlv, seen, more[k])
  BY <1>1, <1>2 DEF Fine
<1>4. \A j, k \in 1 .. Len(more) :
        j # k /\ Answers(more[j]) /\ Answers(more[k]) => more[j].id # more[k].id
  BY <1>1, <1>2 DEF Fine, Fresh
<1>5. \A j \in 1 .. Len(up), k \in 1 .. Len(more) :
        Asks(up[j]) /\ Answers(more[k]) => up[j].id # more[k].id
  BY <1>1, <1>2 DEF Fine, Fresh
<1> QED BY <1>3, <1>4, <1>5 DEF Fine, more

\* The broker takes the first packet: nothing else is about its id.
LEMMA TailUp ==
    ASSUME NEW out, NEW dlv, NEW seen, NEW up \in Seq(ToBroker), NEW down \in Seq(ToDevice),
           Fine(out, dlv, seen, up, down), up # <<>>
    PROVE  /\ Fine(out, dlv, seen, Tail(up), down)
           /\ Asks(Head(up)) =>
                AskOwned(out, dlv, Head(up)) /\ Fresh(Head(up).id, Tail(up), down)
<1> DEFINE less == Tail(up)
<1>1. /\ Len(less) = Len(up) - 1 /\ Len(up) \in Nat \ {0}
      /\ Head(up) = up[1] /\ \A k \in 1 .. Len(less) : less[k] = up[k + 1]
  BY TailOf
<1> HIDE DEF less
<1>2. /\ 1 \in 1 .. Len(up)
      /\ \A k \in 1 .. Len(less) : k + 1 \in 1 .. Len(up) /\ k + 1 # 1
      /\ \A j, k \in 1 .. Len(less) : j # k => j + 1 # k + 1
  BY <1>1
<1>3. \A k \in 1 .. Len(less) : Asks(less[k]) => AskOwned(out, dlv, less[k])
  BY <1>1, <1>2 DEF Fine
<1>4. \A j, k \in 1 .. Len(less) :
        j # k /\ Asks(less[j]) /\ Asks(less[k]) => less[j].id # less[k].id
  BY <1>1, <1>2 DEF Fine
<1>5. \A j \in 1 .. Len(less), k \in 1 .. Len(down) :
        Asks(less[j]) /\ Answers(down[k]) => less[j].id # down[k].id
  BY <1>1, <1>2 DEF Fine
<1>6. Asks(Head(up)) => AskOwned(out, dlv, Head(up)) /\ Fresh(Head(up).id, less, down)
  BY <1>1, <1>2 DEF Fine, Fresh
<1> QED BY <1>3, <1>4, <1>5, <1>6 DEF Fine, less

\* The device takes the first packet.
LEMMA TailDown ==
    ASSUME NEW out, NEW dlv, NEW seen, NEW up \in Seq(ToBroker), NEW down \in Seq(ToDevice),
           Fine(out, dlv, seen, up, down), down # <<>>
    PROVE  /\ Fine(out, dlv, seen, up, Tail(down))
           /\ Answers(Head(down)) =>
                /\ AnswerOwned(out, dlv, seen, Head(down))
                /\ Fresh(Head(down).id, up, Tail(down))
<1> DEFINE less == Tail(down)
<1>1. /\ Len(less) = Len(down) - 1 /\ Len(down) \in Nat \ {0}
      /\ Head(down) = down[1] /\ \A k \in 1 .. Len(less) : less[k] = down[k + 1]
  BY TailOf
<1> HIDE DEF less
<1>2. /\ 1 \in 1 .. Len(down)
      /\ \A k \in 1 .. Len(less) : k + 1 \in 1 .. Len(down) /\ k + 1 # 1
      /\ \A j, k \in 1 .. Len(less) : j # k => j + 1 # k + 1
  BY <1>1
<1>3. \A k \in 1 .. Len(less) : Answers(less[k]) => AnswerOwned(out, dlv, seen, less[k])
  BY <1>1, <1>2 DEF Fine
<1>4. \A j, k \in 1 .. Len(less) :
        j # k /\ Answers(less[j]) /\ Answers(less[k]) => less[j].id # less[k].id
  BY <1>1, <1>2 DEF Fine
<1>5. \A j \in 1 .. Len(up), k \in 1 .. Len(less) :
        Asks(up[j]) /\ Answers(less[k]) => up[j].id # less[k].id
  BY <1>1, <1>2 DEF Fine
<1>6. Answers(Head(down)) =>
        AnswerOwned(out, dlv, seen, Head(down)) /\ Fresh(Head(down).id, up, less)
  BY <1>1, <1>2 DEF Fine, Fresh
<1> QED BY <1>3, <1>4, <1>5, <1>6 DEF Fine, less

\* The last packet to the broker is lost, or all of them but the last.
LEMMA LoseUp ==
    ASSUME NEW out, NEW dlv, NEW seen, NEW up \in Seq(ToBroker), NEW down \in Seq(ToDevice),
           NEW p \in ToBroker, Fine(out, dlv, seen, Append(up, p), down)
    PROVE  Fine(out, dlv, seen, up, down) /\ Fine(out, dlv, seen, <<p>>, <<>>)
<1> DEFINE more == Append(up, p)
<1>1. /\ Len(more) = Len(up) + 1 /\ Len(up) \in Nat
      /\ more[Len(up) + 1] = p /\ \A k \in 1 .. Len(up) : more[k] = up[k]
  BY AppendOf
<1>2. Fine(out, dlv, seen, more, down)
  OBVIOUS
<1> HIDE DEF more
<1>3. Len(up) + 1 \in 1 .. Len(more) /\ \A k \in 1 .. Len(up) : k \in 1 .. Len(more)
  BY <1>1
<1>4. Fine(out, dlv, seen, up, down)
  BY <1>1, <1>2, <1>3 DEF Fine
<1>5. Asks(p) => AskOwned(out, dlv, p)
  BY <1>1, <1>2, <1>3 DEF Fine
<1>6. Len(<<p>>) = 1 /\ <<p>>[1] = p /\ Len(<<>>) = 0
  OBVIOUS
<1> DEFINE one == <<p>>
<1> HIDE DEF one
<1>7. Fine(out, dlv, seen, one, <<>>)
  BY <1>5, <1>6 DEF Fine, one
<1> QED BY <1>4, <1>7 DEF one

\* An id that nothing under way is about may change hands.
LEMMA Hands ==
    ASSUME NEW out, NEW dlv, NEW seen, NEW up \in Seq(ToBroker), NEW down \in Seq(ToDevice),
           NEW out2, NEW dlv2, NEW seen2, NEW x,
           \A i \in Ids : out[i] \in Keeps \cup {None},
           \A n \in Sent : dlv[n] > 0 => dlv2[n] > 0,
           \A i \in Ids : i # x => out2[i] = out[i] /\ (i \in seen2 => i \in seen),
           Fine(out, dlv, seen, up, down), Fresh(x, up, down)
    PROVE  Fine(out2, dlv2, seen2, up, down)
<1>1. \A i \in Ids : i # x /\ Has(out, dlv, i) => Has(out2, dlv2, i) /\ out2[i] = out[i]
  BY DEF Has, Keeps
<1>2. ASSUME NEW k \in 1 .. Len(up), Asks(up[k]) PROVE AskOwned(out2, dlv2, up[k])
  <2>1. up[k] \in ToBroker
    OBVIOUS
  <2>2. up[k].id \in Ids /\ up[k].id # x
    BY <1>2, <2>1 DEF ToBroker, Asks, Fresh
  <2>3. AskOwned(out, dlv, up[k])
    BY <1>2 DEF Fine
  <2> QED BY <1>1, <2>2, <2>3 DEF AskOwned
<1>3. ASSUME NEW k \in 1 .. Len(down), Answers(down[k])
      PROVE  AnswerOwned(out2, dlv2, seen2, down[k])
  <2>1. down[k] \in ToDevice
    OBVIOUS
  <2>2. down[k].id \in Ids /\ down[k].id # x
    BY <1>3, <2>1 DEF ToDevice, Answers, Fresh
  <2>3. AnswerOwned(out, dlv, seen, down[k])
    BY <1>3 DEF Fine
  <2> QED BY <1>1, <2>2, <2>3 DEF AnswerOwned
<1> QED BY <1>2, <1>3 DEF Fine

-----------------------------------------------------------------------------
(* A connection begins with nothing under way, and with a CONNACK.         *)

Quiet ==
    /\ link = "down" => to_broker = <<>> /\ to_device = <<>>
    /\ link = "connecting" => to_broker = <<>>
    /\ \A k \in 1 .. Len(to_device) :
        /\ link = "connecting" => ~Answers(to_device[k])
        /\ to_device[k].type = "CONNACK" =>
            k = 1 /\ link = "connecting" /\ (to_device[k].present \/ broker.seen = {})
    /\ ~broker.present => broker.seen = {} /\ link = "down"

\* A connection that holds: no CONNACK is under way any more.
LEMMA UpStep ==
    ASSUME TypeOK, Quiet, link = "up", link' = "up", broker'.present = broker.present,
           \/ UNCHANGED to_device
           \/ to_device # <<>> /\ to_device' = Tail(to_device)
           \/ \E p \in ToDevice : p.type # "CONNACK" /\ to_device' = Append(to_device, p)
    PROVE  Quiet'
<1>1. to_device \in Seq(ToDevice) /\ \A k \in 1 .. Len(to_device) : to_device[k].type # "CONNACK"
  BY DEF TypeOK, Quiet
<1>2. \A k \in 1 .. Len(to_device') : to_device'[k].type # "CONNACK"
  <2>1. CASE UNCHANGED to_device
    BY <1>1, <2>1
  <2>2. CASE to_device # <<>> /\ to_device' = Tail(to_device)
    <3>1. \A k \in 1 .. Len(to_device') :
            to_device'[k] = to_device[k + 1] /\ k + 1 \in 1 .. Len(to_device)
      BY <1>1, <2>2, TailOf
    <3> QED BY <1>1, <3>1
  <2>3. ASSUME NEW p \in ToDevice, p.type # "CONNACK", to_device' = Append(to_device, p)
        PROVE  \A k \in 1 .. Len(to_device') : to_device'[k].type # "CONNACK"
    <3>1. \A k \in 1 .. Len(to_device') : to_device'[k] = p \/
            (to_device'[k] = to_device[k] /\ k \in 1 .. Len(to_device))
      BY <1>1, <2>3, AppendOf
    <3> QED BY <1>1, <2>3, <3>1
  <2> QED BY <2>1, <2>2, <2>3
<1>3. broker.present
  BY DEF Quiet, TypeOK, Session
<1> QED BY <1>2, <1>3 DEF Quiet

\* What a connection starts with.
LEMMA ConnectQueue ==
    ASSUME TypeOK, Connect
    PROVE  /\ to_device' # <<>> /\ to_device'[1] = [type |-> "CONNACK", present |-> broker.present]
           /\ \A k \in 1 .. Len(to_device') :
                k # 1 => to_device'[k].type \in {"PUBLISH", "PUBREL"}
<1> DEFINE n == Cardinality(Ids \ Unused)
           first == <<[type |-> "CONNACK", present |-> broker.present]>>
<1>1. PICK ids \in [1 .. n -> Ids \ Unused] :
        to_device' = first \o [k \in DOMAIN ids |-> Pending(ids[k])]
  BY DEF Connect
<1> DEFINE again == [k \in DOMAIN ids |-> Pending(ids[k])]
<1>2. n \in Nat
  BY UsedCount
<1>3. \A i \in Ids : Pending(i).type \in {"PUBLISH", "PUBREL"}
  BY DEF Pending, Ack
<1> DEFINE T == {[type |-> "CONNACK", present |-> broker.present]} \cup {Pending(i) : i \in Ids}
<1>4. again \in Seq(T) /\ \A k \in 1 .. Len(again) : again[k].type \in {"PUBLISH", "PUBREL"}
  <2> HIDE DEF n
  <2> QED BY <1>2, <1>3
<1>5. first \in Seq(T) /\ Len(first) = 1
  OBVIOUS
<1>6. first[1] = [type |-> "CONNACK", present |-> broker.present]
  OBVIOUS
<1> HIDE DEF first, again, T
<1>7. /\ Len(first \o again) = 1 + Len(again) /\ Len(again) \in Nat
      /\ \A k \in 1 .. 1 + Len(again) :
            (first \o again)[k] = IF k <= 1 THEN first[k] ELSE again[k - 1]
  <2>1. again \in Seq(T) /\ first \in Seq(T) /\ Len(first) = 1
    BY <1>4, <1>5
  <2> QED BY <2>1, OneBefore
<1>8. to_device' = first \o again
  BY <1>1 DEF again
<1>9. to_device'[1] = first[1] /\ Len(to_device') >= 1
  BY <1>7, <1>8
<1>10. \A k \in 1 .. Len(to_device') : k # 1 => to_device'[k] = again[k - 1] /\ k - 1 \in 1 .. Len(again)
  BY <1>7, <1>8
<1> QED BY <1>4, <1>6, <1>9, <1>10

\* A packet goes to the broker only over a connection that holds.
LEMMA SendQuiet ==
    ASSUME NEW p, Send(p) PROVE link = "up" \/ UNCHANGED to_broker
BY DEF Send

LEMMA QuietStep == ASSUME TypeOK, Quiet, Next PROVE Quiet'
<1>1. CASE UNCHANGED <<link, to_device, broker>> /\ (link = "up" \/ UNCHANGED to_broker)
  BY <1>1 DEF Quiet
<1>2. ASSUME NEW n \in Sent, Begin(n) PROVE Quiet'
  BY <1>1, <1>2 DEF Begin, net
<1>3. ASSUME NEW i \in Ids, ResendOut(i) \/ ResendIn(i) PROVE Quiet'
  BY <1>1, <1>3, SendQuiet DEF ResendOut, ResendIn
<1>4. CASE Calls
  BY <1>1, <1>4, SendQuiet DEF Calls, SendIt, Store, Deliver, net
<1>5. ASSUME NEW type, Receives(type), link = "up", UNCHANGED <<link, broker>> PROVE Quiet'
  BY <1>5, UpStep DEF Receives
<1>6. CASE OnConnack
  <2>1. /\ to_device \in Seq(ToDevice) /\ to_device # <<>> /\ to_device' = Tail(to_device)
        /\ link' = "up" /\ UNCHANGED <<to_broker, broker>> /\ link = "connecting"
    BY <1>6 DEF OnConnack, Receives, TypeOK
  <2>2. \A k \in 1 .. Len(to_device') :
          to_device'[k] = to_device[k + 1] /\ k + 1 \in 1 .. Len(to_device) /\ k + 1 # 1
    BY <2>1, TailOf
  <2> QED BY <2>1, <2>2 DEF Quiet
<1>7. CASE DeviceReceives
  BY <1>5, <1>6, <1>7 DEF DeviceReceives, Acknowledged, OnPubrec, OnPubrel, OnPublish
<1>8. CASE BrokerReceives
  <2>1. link = "up" /\ link' = "up"
    BY <1>8 DEF BrokerReceives, Quiet, TypeOK
  <2> DEFINE p == Head(to_broker)
  <2>2. p \in ToBroker
    BY <1>8, TailOf DEF BrokerReceives, TypeOK
  <2>3. broker'.present = broker.present
    BY <1>8 DEF BrokerReceives, BrokerGets, BrokerGetsPublish, TypeOK, Session
  <2>4. \/ UNCHANGED to_device
        \/ \E a \in ToDevice : a.type # "CONNACK" /\ to_device' = Append(to_device, a)
    <3>1. CASE p.type = "PUBLISH" /\ OutKinds[p.msg] = "qos0"
      BY <1>8, <3>1 DEF BrokerReceives, BrokerGets, BrokerGetsPublish
    <3>2. CASE ~ (p.type = "PUBLISH" /\ OutKinds[p.msg] = "qos0")
      <4>1. p.id \in Ids
        BY <2>2, <3>2 DEF ToBroker
      <4>2. \A type \in {"PUBACK", "PUBREC", "SUBACK", "PUBCOMP", "PUBREL"} :
              Ack(type, p.id) \in ToDevice /\ Ack(type, p.id).type # "CONNACK"
        BY <4>1, AckType DEF Ack
      <4>3. CASE p.type = "PUBLISH"
        BY <1>8, <3>2, <4>2, <4>3 DEF BrokerReceives, BrokerGets, BrokerGetsPublish, Answer
      <4>4. CASE p.type # "PUBLISH"
        BY <1>8, <4>2, <4>4 DEF BrokerReceives, BrokerGets, Answer
      <4> QED BY <4>3, <4>4
    <3> QED BY <3>1, <3>2
  <2> QED BY <2>1, <2>3, <2>4, UpStep
<1>9. ASSUME NEW n \in Incoming, BrokerSends(n) PROVE Quiet'
  <2>1. /\ broker.present /\ broker'.present /\ broker'.seen = broker.seen
        /\ UNCHANGED <<link, to_broker>>
    BY <1>9 DEF BrokerSends, TypeOK, Session
  <2>2. CASE UNCHANGED to_device
    BY <2>1, <2>2 DEF Quiet
  <2>3. ASSUME NEW p, p.type = "PUBLISH", link # "down", to_device' = Append(to_device, p)
        PROVE  Quiet'
    <3>1. /\ Len(to_device) \in Nat /\ Len(to_device') = Len(to_device) + 1
          /\ \A k \in 1 .. Len(to_device) : to_device'[k] = to_device[k]
          /\ to_device'[Len(to_device) + 1] = p
      BY <2>3, TypeOK DEF TypeOK
    <3>2. \A k \in 1 .. Len(to_device') : k \in 1 .. Len(to_device) \/ to_device'[k] = p
      BY <3>1
    <3> QED BY <2>1, <2>3, <3>1, <3>2 DEF Quiet, Answers
  <2>4. \/ UNCHANGED to_device
        \/ \E p : p.type = "PUBLISH" /\ link # "down" /\ to_device' = Append(to_device, p)
    BY <1>9 DEF BrokerSends, Answer
  <2> QED BY <2>2, <2>3, <2>4
<1>10. CASE Connect
  <2>1. to_broker' = <<>> /\ link' = "connecting" /\ broker'.present /\ broker'.seen = broker.seen
    BY <1>10 DEF Connect, Quiet, TypeOK, Session
  <2>2. ~broker.present => broker.seen = {}
    BY DEF Quiet
  <2>3. \A k \in 1 .. Len(to_device') : ~Answers(to_device'[k])
    BY <1>10, ConnectQueue DEF Answers
  <2>4. \A k \in 1 .. Len(to_device') : to_device'[k].type = "CONNACK" =>
          k = 1 /\ to_device'[k].present = broker.present
    BY <1>10, ConnectQueue
  <2> QED BY <2>1, <2>2, <2>3, <2>4 DEF Quiet
<1>11. CASE Drop \/ Reboot
  <2>1. link' = "down" /\ to_broker' = <<>> /\ to_device' = <<>> /\ UNCHANGED broker
    BY <1>11 DEF Drop, Reboot, Cut
  <2>2. 1 .. Len(to_device') = {}
    BY <2>1
  <2> QED BY <2>1, <2>2 DEF Quiet
<1>12. CASE Forget
  BY <1>12 DEF Forget, NoSession, net, Quiet
<1> QED BY <1>2, <1>3, <1>4, <1>7, <1>8, <1>9, <1>10, <1>11, <1>12 DEF Next

-----------------------------------------------------------------------------
(* At least once, with Window = 1.                                         *)

\* The packets to the broker, the one that a call is about to send included.
Up == IF busy.pc = "send" THEN Append(to_broker, busy.packet) ELSE to_broker

SeenOwned ==
    \A i \in broker.seen : Has(out_msgs, delivered, i) /\ OutKinds[out_msgs[i]] = "qos2"
Safe == \A n \in Sent : Wanted(n) => delivered[n] > 0 \/ \E i \in Ids : out_msgs[i] = n
Main == Fine(out_msgs, delivered, broker.seen, Up, to_device) /\ SeenOwned /\ Safe

LEMMA UpType ==
    ASSUME TypeOK
    PROVE  /\ Up \in Seq(ToBroker) /\ to_device \in Seq(ToDevice)
           /\ busy.pc = "send" => busy.packet \in ToBroker /\ to_broker \in Seq(ToBroker)
<1>1. to_broker \in Seq(ToBroker) /\ to_device \in Seq(ToDevice) /\ busy \in Calling
  BY DEF TypeOK
<1>2. busy.pc = "send" => busy.packet \in ToBroker
  BY <1>1 DEF Calling, Idle
<1> QED BY <1>1, <1>2, AppendOf DEF Up

\* A step that touches neither a message nor its owners.
LEMMA SafeSame ==
    ASSUME Safe, SeenOwned, UNCHANGED <<out_msgs, delivered, excused>>,
           begun'.out = begun.out, broker'.seen \subseteq broker.seen
    PROVE  Safe' /\ SeenOwned'
BY DEF Safe, SeenOwned, Wanted

\* A packet that asks for nothing is sent, or lost.
LEMMA SendUp ==
    ASSUME TypeOK, NEW p \in ToBroker, Send(p), busy = Idle, busy'.pc # "send",
           NEW out, NEW dlv, NEW seen, NEW down \in Seq(ToDevice),
           Fine(out, dlv, seen, to_broker, down),
           Asks(p) => AskOwned(out, dlv, p) /\ Fresh(p.id, to_broker, down)
    PROVE  Fine(out, dlv, seen, Up', down)
<1>1. to_broker \in Seq(ToBroker)
  BY DEF TypeOK
<1>2. Up' = to_broker \/ Up' = Append(to_broker, p)
  BY DEF Send, Up
<1> QED BY <1>1, <1>2, AppendUp

LEMMA BeginMain == ASSUME TypeOK, Main, NEW n \in Sent, Begin(n) PROVE Main'
<1> DEFINE f(out, up) == Fine(out, delivered, broker.seen, up, to_device)
<1>1. /\ to_broker \in Seq(ToBroker) /\ to_device \in Seq(ToDevice) /\ Up = to_broker
      /\ UNCHANGED <<to_device, to_broker, delivered, broker, excused>>
      /\ begun.out = n - 1 /\ begun'.out = n
  BY DEF TypeOK, Up, Idle, Begin, net, history
<1>2. CASE OutKinds[n] = "qos0"
  <2>1. PacketOf(n, 0) \in ToBroker /\ ~Asks(PacketOf(n, 0))
    BY <1>2 DEF PacketOf, ToBroker, Asks
  <2>2. Up' = Append(to_broker, PacketOf(n, 0)) /\ out_msgs' = out_msgs
    BY <1>1, <1>2 DEF Begin, Up
  <2>3. f(out_msgs, Up')
    BY <1>1, <2>1, <2>2, AppendUp DEF Main
  <2>4. Safe'
    BY <1>1, <1>2, <2>2, Constants DEF Main, Safe, Wanted, Sent, TypeOK
  <2>5. SeenOwned'
    BY <1>1, <2>2 DEF Main, SeenOwned
  <2> QED BY <1>1, <2>2, <2>3, <2>4, <2>5 DEF Main
<1>3. CASE OutKinds[n] # "qos0"
  <2> DEFINE x == AvailableId
  <2>1. x \in Ids /\ out_msgs[x] = None /\ n \in Keeps
    BY <1>3, AvailableIdFree DEF Begin, Free, Keeps
  <2> HIDE DEF x
  <2>2. /\ out_msgs' = [out_msgs EXCEPT ![x] = n]
        /\ Up' = Append(to_broker, PacketOf(n, x))
    BY <1>1, <1>3 DEF Begin, Up, x
  <2>3. PacketOf(n, x) \in ToBroker
    BY <2>1, MessagePacket
  <2>4. None \notin Sent
    BY BoundAssumption, Constants DEF Sent
  <2>5. Fresh(x, to_broker, to_device)
    <3>1. \A k \in 1 .. Len(to_broker) : to_broker[k] \in ToBroker
      BY <1>1
    <3>2. ASSUME NEW k \in 1 .. Len(to_broker), Asks(to_broker[k]) PROVE to_broker[k].id # x
      <4>1. AskOwned(out_msgs, delivered, to_broker[k])
        BY <1>1, <3>2 DEF Main, Fine
      <4>2. to_broker[k].type # "PUBREL" => to_broker[k].msg \in Sent
        BY <3>1, <3>2 DEF ToBroker, Asks
      <4> QED BY <2>1, <2>4, <4>1, <4>2 DEF AskOwned, Has
    <3>3. ASSUME NEW k \in 1 .. Len(to_device), Answers(to_device[k]) PROVE to_device[k].id # x
      <4>1. AnswerOwned(out_msgs, delivered, broker.seen, to_device[k])
        BY <3>3 DEF Main, Fine
      <4> QED BY <2>1, <4>1 DEF AnswerOwned, Has
    <3> QED BY <3>2, <3>3 DEF Fresh
  <2>6. f(out_msgs', to_broker)
    <3>1. \A i \in Ids : out_msgs[i] \in Keeps \cup {None}
      BY DEF TypeOK
    <3>2. \A i \in Ids : i # x => out_msgs'[i] = out_msgs[i]
      BY <2>2 DEF TypeOK
    <3> QED BY <1>1, <2>5, <3>1, <3>2, Hands DEF Main
  <2>7. AskOwned(out_msgs', delivered, PacketOf(n, x)) /\ PacketOf(n, x).id = x
    BY <2>1, <2>2 DEF AskOwned, PacketOf, TypeOK
  <2>8. f(out_msgs', Up')
    BY <1>1, <2>2, <2>3, <2>5, <2>6, <2>7, AppendUp
  <2>9. Safe'
    <3>1. \A i \in Ids : out_msgs[i] # None => out_msgs'[i] = out_msgs[i]
      BY <2>1, <2>2 DEF TypeOK
    <3>2. \A m \in Sent : m # n /\ m <= n => m <= begun.out
      BY <1>1, Constants DEF Sent
    <3>3. out_msgs'[x] = n
      BY <2>1, <2>2 DEF TypeOK
    <3> QED BY <1>1, <2>1, <2>4, <3>1, <3>2, <3>3 DEF Main, Safe, Wanted
  <2>10. SeenOwned'
    <3>1. \A i \in broker.seen : i \in Ids
      BY DEF TypeOK, Session
    <3>2. \A i \in Ids : out_msgs[i] # None => out_msgs'[i] = out_msgs[i]
      BY <2>1, <2>2 DEF TypeOK
    <3> QED BY <1>1, <3>1, <3>2 DEF Main, SeenOwned, Has
  <2> QED BY <1>1, <2>8, <2>9, <2>10 DEF Main
<1> QED BY <1>2, <1>3

LEMMA SendingMain ==
    ASSUME TypeOK, Main, Window = 1, SendIt \/ (\E i \in Ids : ResendOut(i) \/ ResendIn(i))
    PROVE  Main'
<1>1. CASE SendIt
  <2>1. /\ Up = Append(to_broker, busy.packet) /\ (Up' = Up \/ Up' = to_broker)
        /\ UNCHANGED <<out_msgs, delivered, excused, begun, broker, to_device>>
    BY <1>1 DEF SendIt, Send, Up, Idle, caches, history
  <2>2. Fine(out_msgs, delivered, broker.seen, Up', to_device)
    BY <1>1, <2>1, UpType, LoseUp DEF SendIt, Main
  <2> QED BY <2>1, <2>2, SafeSame DEF Main
<1>2. ASSUME NEW i \in Ids, ResendOut(i) \/ ResendIn(i) PROVE Main'
  <2>1. to_broker = <<>> /\ to_device = <<>> /\ busy = Idle /\ Up = <<>>
    <3>1. Len(to_broker) + Len(to_device) < 1
      BY <1>2 DEF ResendOut, ResendIn, Polling
    <3>2. Len(to_broker) \in Nat /\ Len(to_device) \in Nat
      BY DEF TypeOK
    <3>3. Len(to_broker) = 0 /\ Len(to_device) = 0
      BY <3>1, <3>2
    <3> QED BY <1>2, <3>3 DEF TypeOK, ResendOut, ResendIn, Polling, Up, Idle
  <2>2. UNCHANGED <<out_msgs, delivered, excused, begun, broker, to_device, busy>>
    BY <1>2 DEF ResendOut, ResendIn, caches, history
  <2>3. PICK p \in ToBroker : Send(p) /\ (Asks(p) => AskOwned(out_msgs, delivered, p))
    <3>1. CASE ResendOut(i)
      <4>1. PacketOf(out_msgs[i], i) \in ToBroker
        BY <3>1, MessagePacket DEF ResendOut, TypeOK
      <4>2. AskOwned(out_msgs, delivered, PacketOf(out_msgs[i], i))
        BY DEF AskOwned, PacketOf
      <4> QED BY <3>1, <4>1, <4>2 DEF ResendOut
    <3>2. CASE ResendIn(i)
      <4>1. Ack("PUBREC", i) \in ToBroker /\ ~Asks(Ack("PUBREC", i))
        BY AckType DEF Ack, Asks
      <4> QED BY <3>2, <4>1 DEF ResendIn
    <3> QED BY <1>2, <3>1, <3>2
  <2>4. Fresh(p.id, to_broker, to_device)
    <3>1. 1 .. Len(<<>>) = {}
      OBVIOUS
    <3> QED BY <2>1, <3>1 DEF Fresh
  <2>5. Fine(out_msgs, delivered, broker.seen, Up', to_device)
    <3>1. busy'.pc # "send" /\ to_device \in Seq(ToDevice)
      BY <2>1, <2>2 DEF Idle, TypeOK
    <3> QED BY <2>1, <2>3, <2>4, <3>1, SendUp DEF Main
  <2> QED BY <2>2, <2>5, SafeSame DEF Main
<1> QED BY <1>1, <1>2

\* The device takes a packet.
LEMMA Received ==
    ASSUME TypeOK, Main, NEW type, Receives(type)
    PROVE  /\ busy = Idle /\ Up = to_broker /\ to_device # <<>> /\ Head(to_device).type = type
           /\ to_broker \in Seq(ToBroker) /\ to_device \in Seq(ToDevice)
           /\ to_device' \in Seq(ToDevice) /\ Head(to_device) \in ToDevice
           /\ Fine(out_msgs, delivered, broker.seen, to_broker, to_device')
           /\ Answers(Head(to_device)) =>
                /\ Head(to_device).id \in Ids
                /\ AnswerOwned(out_msgs, delivered, broker.seen, Head(to_device))
                /\ Fresh(Head(to_device).id, to_broker, to_device')
<1>1. /\ busy = Idle /\ Up = to_broker /\ to_device # <<>> /\ Head(to_device).type = type
      /\ to_broker \in Seq(ToBroker) /\ to_device \in Seq(ToDevice)
      /\ to_device' = Tail(to_device)
  BY DEF Receives, Up, Idle, TypeOK
<1>2. to_device' \in Seq(ToDevice) /\ Head(to_device) \in ToDevice
  BY <1>1, TailOf
<1>3. Answers(Head(to_device)) => Head(to_device).id \in Ids
  BY <1>2 DEF Answers, ToDevice
<1> QED BY <1>1, <1>2, <1>3, TailDown DEF Main

LEMMA AcknowledgedMain ==
    ASSUME TypeOK, Main, NEW type \in {"PUBACK", "PUBCOMP", "SUBACK"}, Acknowledged(type)
    PROVE  Main'
<1> DEFINE p == Head(to_device)
           x == p.id
<1>1. Receives(type)
  BY DEF Acknowledged
<1>2. /\ p.type = type /\ x \in Ids /\ AnswerOwned(out_msgs, delivered, broker.seen, p)
      /\ Fresh(x, to_broker, to_device')
      /\ Fine(out_msgs, delivered, broker.seen, to_broker, to_device')
      /\ to_broker \in Seq(ToBroker) /\ to_device' \in Seq(ToDevice) /\ busy = Idle
  BY <1>1, Received DEF Answers
<1> HIDE DEF p, x
<1>3. /\ out_msgs' = [out_msgs EXCEPT ![x] = None]
      /\ UNCHANGED <<busy, to_broker, delivered, excused, broker, begun>>
  BY <1>2 DEF Acknowledged, AnswerOwned, Has, history, p, x
<1>4. /\ \A i \in Ids : out_msgs[i] \in Keeps \cup {None}
      /\ \A i \in Ids : i # x => out_msgs'[i] = out_msgs[i]
      /\ broker.seen \subseteq Ids
  BY <1>3 DEF TypeOK, Session
<1>5. Fine(out_msgs', delivered, broker.seen, to_broker, to_device')
  BY <1>2, <1>4, Hands
<1>6. Up' = to_broker
  BY <1>2, <1>3 DEF Up, Idle
<1>7. x \notin broker.seen
  BY <1>2 DEF AnswerOwned, Main, SeenOwned, x
<1>8. SeenOwned'
  BY <1>3, <1>4, <1>7 DEF Main, SeenOwned, Has
<1>9. Safe'
  <2>1. \A n \in Sent : out_msgs[x] = n => delivered[n] > 0
    BY <1>2 DEF AnswerOwned, Has, x
  <2> QED BY <1>3, <1>4, <2>1 DEF Main, Safe, Wanted
<1> QED BY <1>3, <1>5, <1>6, <1>8, <1>9 DEF Main

LEMMA AnsweredMain == ASSUME TypeOK, Main, OnPubrec \/ OnPubrel \/ OnPublish PROVE Main'
<1>1. ASSUME NEW type, Receives(type), NEW p \in ToBroker, busy'.pc # "send",
             UNCHANGED to_broker \/ Send(p),
             Asks(p) => AskOwned(out_msgs, delivered, p) /\ Fresh(p.id, to_broker, to_device'),
             UNCHANGED <<out_msgs, delivered, excused, begun, broker>>
      PROVE  Main'
  <2>1. /\ to_device' \in Seq(ToDevice) /\ busy = Idle
        /\ Fine(out_msgs, delivered, broker.seen, to_broker, to_device')
    BY <1>1, Received
  <2>2. Fine(out_msgs, delivered, broker.seen, Up', to_device')
    <3>1. CASE UNCHANGED to_broker
      BY <1>1, <2>1, <3>1 DEF Up
    <3>2. CASE Send(p)
      BY <1>1, <2>1, <3>2, SendUp
    <3> QED BY <1>1, <3>1, <3>2
  <2> QED BY <1>1, <2>2, SafeSame DEF Main
<1>2. CASE OnPubrec
  <2> DEFINE p == Head(to_device)
  <2>1. Receives("PUBREC")
    BY <1>2 DEF OnPubrec
  <2>2. /\ p.id \in Ids /\ AnswerOwned(out_msgs, delivered, broker.seen, p)
        /\ Fresh(p.id, to_broker, to_device') /\ busy = Idle
    BY <2>1, Received DEF Answers
  <2>3. /\ Ack("PUBREL", p.id) \in ToBroker
        /\ AskOwned(out_msgs, delivered, Ack("PUBREL", p.id))
        /\ Ack("PUBREL", p.id).id = p.id
    BY <2>2, AckType DEF AnswerOwned, AskOwned, Ack
  <2>4. /\ busy'.pc # "send" /\ Send(Ack("PUBREL", p.id))
        /\ UNCHANGED <<out_msgs, delivered, excused, begun, broker>>
    BY <1>2, <2>2 DEF OnPubrec, Idle, caches, history
  <2> QED BY <1>1, <2>1, <2>2, <2>3, <2>4
<1>3. CASE OnPubrel
  <2>1. Receives("PUBREL") /\ Send(Ack("PUBCOMP", Head(to_device).id))
    BY <1>3 DEF OnPubrel
  <2>2. Ack("PUBCOMP", Head(to_device).id) \in ToBroker /\ ~Asks(Ack("PUBCOMP", Head(to_device).id))
    BY <2>1, SaysType, AckType DEF Ack, Asks
  <2>3. busy'.pc # "send" /\ UNCHANGED <<out_msgs, delivered, excused, begun, broker>>
    BY <1>3, <2>1, Received DEF OnPubrel, Idle, history
  <2> QED BY <1>1, <2>1, <2>2, <2>3
<1>4. CASE OnPublish
  <2>1. /\ Receives("PUBLISH") /\ busy'.pc # "send"
        /\ UNCHANGED <<out_msgs, delivered, excused, begun, broker>>
    BY <1>4, OnPublishCases DEF OnPublish, caches, history
  <2>2. PICK i \in Ids, type \in {"PUBACK", "PUBREC"} : UNCHANGED to_broker \/ Send(Ack(type, i))
    <3>1. 1 \in Ids
      BY Constants DEF Ids
    <3> QED BY <1>4, <3>1, OnPublishCases
  <2>3. Ack(type, i) \in ToBroker /\ ~Asks(Ack(type, i))
    BY AckType DEF Ack, Asks
  <2> QED BY <1>1, <2>1, <2>2, <2>3
<1> QED BY <1>2, <1>3, <1>4

LEMMA OnConnackMain == ASSUME TypeOK, Quiet, Main, OnConnack PROVE Main'
<1>1. Receives("CONNACK") /\ link = "connecting"
  BY DEF OnConnack
<1>2. /\ to_broker = <<>> /\ UNCHANGED <<busy, to_broker, broker, begun, delivered>>
      /\ busy = Idle /\ to_device # <<>> /\ Head(to_device).type = "CONNACK"
      /\ to_device \in Seq(ToDevice) /\ to_device' = Tail(to_device)
      /\ Fine(out_msgs, delivered, broker.seen, to_broker, to_device')
  BY <1>1, Received DEF OnConnack, Quiet, Receives
<1>3. Up' = <<>>
  BY <1>2 DEF Up, Idle
<1>4. CASE Head(to_device).present
  <2>1. UNCHANGED <<out_msgs, excused>>
    BY <1>4 DEF OnConnack, caches
  <2> QED BY <1>2, <1>3, <2>1, SafeSame DEF Main
<1>5. CASE ~Head(to_device).present
  <2>1. excused' = [excused EXCEPT !.out = 1 .. begun.out]
    BY <1>5 DEF OnConnack
  <2>2. \A k \in 1 .. Len(to_device') : ~Answers(to_device'[k])
    <3>1. \A k \in 1 .. Len(to_device') :
            to_device'[k] = to_device[k + 1] /\ k + 1 \in 1 .. Len(to_device)
      BY <1>2, TailOf
    <3> QED BY <1>1, <3>1 DEF Quiet
  <2>3. broker.seen = {}
    <3>1. Head(to_device) = to_device[1] /\ 1 \in 1 .. Len(to_device)
      BY <1>2, TailOf
    <3> QED BY <1>2, <1>5, <3>1 DEF Quiet
  <2>4. Fine(out_msgs', delivered', broker'.seen, <<>>, to_device')
    <3>1. 1 .. Len(<<>>) = {}
      OBVIOUS
    <3> QED BY <2>2, <3>1 DEF Fine
  <2>5. SeenOwned'
    BY <1>2, <2>3 DEF SeenOwned
  <2>6. Safe'
    BY <1>2, <2>1, Constants DEF Safe, Wanted, TypeOK, Sent
  <2> QED BY <1>3, <2>4, <2>5, <2>6 DEF Main
<1> QED BY <1>4, <1>5

LEMMA CountedUp ==
    ASSUME NEW dlv \in [Sent -> 0 .. 2], NEW n \in Sent
    PROVE  /\ Counted(dlv, n)[n] > 0
           /\ \A m \in Sent : dlv[m] > 0 => Counted(dlv, n)[m] > 0
BY DEF Counted

\* The broker answers with a, if it answers: what it says has to be true of the
\* message under the id of the packet it got.
LEMMA BrokerAnswers ==
    ASSUME TypeOK, Main, BrokerReceives, NEW p, p = Head(to_broker), NEW a \in ToDevice,
           UNCHANGED to_device \/ Answer(a),
           \A n \in Sent : delivered[n] > 0 => delivered'[n] > 0,
           Answers(a) => Asks(p) /\ a.id = p.id
                            /\ AnswerOwned(out_msgs, delivered', broker'.seen, a),
           \A i \in broker'.seen : i \in broker.seen \/
               (Asks(p) /\ i = p.id /\ Has(out_msgs, delivered', i) /\ OutKinds[out_msgs[i]] = "qos2")
    PROVE  Main'
<1> DEFINE rest == IF busy.pc = "send" THEN Append(Tail(to_broker), busy.packet)
                   ELSE Tail(to_broker)
           f(up, down) == Fine(out_msgs, delivered', broker'.seen, up, down)
<1>1. /\ to_broker \in Seq(ToBroker) /\ to_device \in Seq(ToDevice) /\ to_broker # <<>>
      /\ to_broker' = Tail(to_broker) /\ UNCHANGED <<busy, out_msgs, excused, begun>>
      /\ p \in ToBroker /\ Tail(to_broker) \in Seq(ToBroker)
  BY TailOf DEF BrokerReceives, TypeOK, caches
<1>2. /\ Up' = rest /\ rest = Tail(Up) /\ Up # <<>> /\ Head(Up) = p
      /\ rest \in Seq(ToBroker) /\ Up \in Seq(ToBroker)
  <2>1. CASE busy.pc # "send"
    BY <1>1, <2>1 DEF Up
  <2>2. CASE busy.pc = "send"
    <3>1. busy.packet \in ToBroker
      BY <2>2, UpType
    <3>2. /\ Tail(Append(to_broker, busy.packet)) = Append(Tail(to_broker), busy.packet)
          /\ Head(Append(to_broker, busy.packet)) = Head(to_broker)
          /\ Append(to_broker, busy.packet) # <<>>
      BY <1>1, <3>1
    <3> QED BY <1>1, <2>2, <3>1, <3>2, AppendOf DEF Up
  <2> QED BY <2>1, <2>2
<1> HIDE DEF rest
<1>3. /\ Fine(out_msgs, delivered, broker.seen, rest, to_device)
      /\ Asks(p) => Fresh(p.id, rest, to_device)
  BY <1>1, <1>2, TailUp DEF Main
<1>4. \A i \in Ids : out_msgs[i] \in Keeps \cup {None}
  BY DEF TypeOK
<1>5. f(rest, to_device)
  <2>1. CASE Asks(p)
    <3>1. \A i \in Ids : i # p.id /\ i \in broker'.seen => i \in broker.seen
      OBVIOUS
    <3>2. Fresh(p.id, rest, to_device)
      BY <1>3, <2>1
    <3> QED BY <1>1, <1>2, <1>3, <1>4, <3>1, <3>2, Hands
  <2>2. CASE ~Asks(p)
    <3>1. Fresh(0, rest, to_device)
      <4>1. \A k \in 1 .. Len(to_device) : to_device[k] \in ToDevice
        BY <1>1
      <4>2. \A k \in 1 .. Len(to_device) : Answers(to_device[k]) => to_device[k].id # 0
        BY <4>1, Constants DEF Answers, ToDevice, Ids
      <4> QED BY <4>2 DEF Fresh, Asks
    <3>2. \A i \in broker'.seen : i \in broker.seen
      BY <2>2
    <3> QED BY <1>1, <1>2, <1>3, <1>4, <3>1, <3>2, Hands
  <2> QED BY <2>1, <2>2
<1>6. f(rest, to_device')
  <2>1. CASE UNCHANGED to_device
    BY <1>5, <2>1
  <2>2. CASE to_device' = Append(to_device, a)
    BY <1>1, <1>2, <1>3, <1>5, <2>2, AppendDown
  <2> QED BY <2>1, <2>2 DEF Answer
<1>7. SeenOwned'
  <2>1. \A i \in Ids : Has(out_msgs, delivered, i) => Has(out_msgs, delivered', i)
    BY <1>4 DEF Has, Keeps
  <2>2. broker.seen \subseteq Ids
    BY DEF TypeOK, Session
  <2> QED BY <1>1, <2>1, <2>2 DEF SeenOwned, Main
<1>8. Safe'
  BY <1>1 DEF Safe, Wanted, Main
<1> QED BY <1>1, <1>2, <1>6, <1>7, <1>8 DEF Main

LEMMA BrokerReceivesMain == ASSUME TypeOK, Main, BrokerReceives PROVE Main'
<1> DEFINE p == Head(to_broker)
           x == p.id
<1>1. /\ BrokerGets(p) /\ p \in ToBroker /\ Up # <<>> /\ Up \in Seq(ToBroker)
      /\ to_device \in Seq(ToDevice) /\ Head(Up) = p
  <2>1. to_broker \in Seq(ToBroker) /\ to_broker # <<>>
    BY DEF BrokerReceives, TypeOK
  <2>2. /\ Up \in Seq(ToBroker) /\ to_device \in Seq(ToDevice)
        /\ busy.pc = "send" => busy.packet \in ToBroker
    BY UpType
  <2>3. Up # <<>> /\ Head(Up) = p
    BY <2>1, <2>2 DEF Up
  <2> QED BY <2>1, <2>2, <2>3, TailOf DEF BrokerReceives
<1>2. Asks(p) => AskOwned(out_msgs, delivered, p)
  BY <1>1, TailUp DEF Main
<1>3. delivered \in [Sent -> 0 .. 2] /\ broker \in Session /\ None \notin Sent
  BY BoundAssumption, Constants DEF TypeOK, Sent
<1>4. PICK none \in ToDevice : ~Answers(none)
  <2>1. [type |-> "CONNACK", present |-> TRUE] \in ToDevice
    BY DEF ToDevice
  <2> QED BY <2>1 DEF Answers
<1> HIDE DEF p
<1>5. \A type \in {"PUBACK", "PUBREC", "PUBREL", "PUBCOMP", "SUBACK"} : x \in Ids =>
        Ack(type, x) \in ToDevice /\ Ack(type, x).type = type /\ Ack(type, x).id = x
  BY AckType DEF Ack
<1>6. CASE p.type = "PUBLISH" /\ BrokerGetsPublish(p)
  <2>1. p.msg \in Sent /\ (x = 0 <=> OutKinds[p.msg] = "qos0") /\ x \in Ids \cup {0}
    BY <1>1, <1>6 DEF ToBroker
  <2>2. \A n \in Sent : delivered[n] > 0 => delivered'[n] > 0
    BY <1>3, <1>6, <2>1, CountedUp DEF BrokerGetsPublish
  <2>3. CASE OutKinds[p.msg] = "qos0"
    <3>1. UNCHANGED <<to_device, broker>>
      BY <1>6, <2>3 DEF BrokerGetsPublish
    <3> QED BY <1>4, <2>2, <3>1, BrokerAnswers DEF p
  <2>4. CASE OutKinds[p.msg] # "qos0"
    <3>1. x \in Ids /\ x # 0 /\ Asks(p) /\ out_msgs[x] = p.msg
      BY <1>2, <1>6, <2>1, <2>4 DEF Asks, AskOwned
    <3>2. Has(out_msgs, delivered', x)
      <4>1. CASE OutKinds[p.msg] = "qos2" /\ x \in broker.seen
        BY <1>3, <2>1, <2>2, <3>1, <4>1 DEF Has, Main, SeenOwned
      <4>2. CASE ~ (OutKinds[p.msg] = "qos2" /\ x \in broker.seen)
        <5>1. delivered' = Counted(delivered, p.msg)
          BY <1>6, <4>2 DEF BrokerGetsPublish
        <5> QED BY <1>3, <2>1, <3>1, <5>1, CountedUp DEF Has
      <4> QED BY <4>1, <4>2
    <3>3. \A i \in broker'.seen : i \in broker.seen \/ (i = x /\ OutKinds[out_msgs[x]] = "qos2")
      BY <1>3, <1>6, <3>1 DEF BrokerGetsPublish, Session
    <3>4. PICK type \in {"PUBACK", "PUBREC"} :
            Answer(Ack(type, x)) /\ (type = "PUBACK" => OutKinds[p.msg] = "qos1")
      BY <1>6, <2>4 DEF BrokerGetsPublish
    <3>5. AnswerOwned(out_msgs, delivered', broker'.seen, Ack(type, x))
      BY <1>5, <3>1, <3>2, <3>4 DEF AnswerOwned
    <3> QED BY <1>5, <2>2, <3>1, <3>2, <3>3, <3>4, <3>5, BrokerAnswers DEF p
  <2> QED BY <2>3, <2>4
<1>7. CASE /\ p.type = "SUBSCRIBE" /\ delivered' = Counted(delivered, p.msg)
           /\ Answer(Ack("SUBACK", x)) /\ UNCHANGED broker
  <2>1. p.msg \in Sent /\ OutKinds[p.msg] = "sub" /\ x \in Ids /\ x # 0
    BY <1>1, <1>7 DEF ToBroker
  <2>2. /\ Asks(p) /\ out_msgs[x] = p.msg /\ delivered'[p.msg] > 0
        /\ \A n \in Sent : delivered[n] > 0 => delivered'[n] > 0
    BY <1>2, <1>3, <1>7, <2>1, CountedUp DEF Asks, AskOwned
  <2>3. AnswerOwned(out_msgs, delivered', broker'.seen, Ack("SUBACK", x))
    BY <1>3, <1>5, <2>1, <2>2 DEF AnswerOwned, Has
  <2> QED BY <1>5, <1>7, <2>1, <2>2, <2>3, BrokerAnswers DEF p
<1>8. CASE /\ p.type = "PUBREL" /\ broker' = [broker EXCEPT !.seen = @ \ {x}]
           /\ Answer(Ack("PUBCOMP", x)) /\ UNCHANGED delivered
  <2>1. x \in Ids /\ x # 0
    BY <1>1, <1>8, Constants DEF ToBroker, Ids
  <2>2. Asks(p) /\ Has(out_msgs, delivered, x)
    BY <1>2, <1>8, <2>1 DEF Asks, AskOwned
  <2>3. broker'.seen = broker.seen \ {x}
    BY <1>3, <1>8 DEF Session
  <2>4. AnswerOwned(out_msgs, delivered', broker'.seen, Ack("PUBCOMP", x))
    BY <1>5, <1>8, <2>1, <2>2, <2>3 DEF AnswerOwned
  <2> QED BY <1>5, <1>8, <2>1, <2>2, <2>3, <2>4, BrokerAnswers DEF p
<1>9. CASE /\ p.type \in {"PUBACK", "PUBCOMP", "PUBREC"} /\ UNCHANGED delivered
           /\ UNCHANGED to_device \/ Answer(Ack("PUBREL", x))
           /\ broker'.seen = broker.seen
  <2>1. x \in Ids
    BY <1>1, <1>9 DEF ToBroker
  <2>2. Ack("PUBREL", x) \in ToDevice /\ ~Answers(Ack("PUBREL", x))
    BY <1>5, <2>1 DEF Answers
  <2> QED BY <1>9, <2>2, BrokerAnswers DEF p
<1>10. broker' = [broker EXCEPT !.pending[x] = None]
           \/ broker' = [broker EXCEPT !.pending[x].type = "PUBREL"] \/ UNCHANGED broker
       => broker'.seen = broker.seen
  BY <1>3 DEF Session
<1> QED BY <1>1, <1>6, <1>7, <1>8, <1>9, <1>10 DEF BrokerGets

LEMMA BrokerSendsMain == ASSUME TypeOK, Main, NEW n \in Incoming, BrokerSends(n) PROVE Main'
<1>1. /\ UNCHANGED <<to_broker, busy, out_msgs, delivered, excused>>
      /\ broker'.seen = broker.seen /\ begun'.out = begun.out
  BY DEF BrokerSends, caches, history, TypeOK, Session
<1>2. Up' = Up
  BY <1>1 DEF Up
<1>3. to_device' \in Seq(ToDevice)
  BY BrokerSendsType DEF TypeOK
<1>4. Fine(out_msgs, delivered, broker.seen, Up, to_device')
  <2>1. CASE UNCHANGED to_device
    BY <2>1 DEF Main
  <2>2. ASSUME NEW p, p.type = "PUBLISH", Answer(p)
        PROVE  Fine(out_msgs, delivered, broker.seen, Up, to_device')
    <3>1. /\ to_device \in Seq(ToDevice) /\ to_device' = Append(to_device, p)
          /\ Up \in Seq(ToBroker)
      BY <2>2, UpType DEF Answer
    <3>2. p \in ToDevice
      <4>1. to_device'[Len(to_device) + 1] = p /\ Len(to_device) + 1 \in 1 .. Len(to_device')
        BY <3>1
      <4> QED BY <1>3, <4>1
    <3> QED BY <2>2, <3>1, <3>2, AppendDown DEF Answers, Main
  <2> QED BY <2>1, <2>2 DEF BrokerSends
<1> QED BY <1>1, <1>2, <1>4, SafeSame DEF Main

LEMMA ConnectMain == ASSUME TypeOK, Quiet, Main, Connect PROVE Main'
<1>1. /\ UNCHANGED <<to_broker, busy, out_msgs, delivered, excused, begun>>
      /\ to_broker = <<>> /\ busy = Idle /\ broker'.seen = broker.seen
  BY DEF Connect, Quiet, caches, history, TypeOK, Session
<1>2. Up' = <<>>
  BY <1>1 DEF Up, Idle
<1>3. Fine(out_msgs, delivered, broker.seen, <<>>, to_device')
  <2>1. 1 .. Len(<<>>) = {}
    OBVIOUS
  <2>2. \A k \in 1 .. Len(to_device') : ~Answers(to_device'[k])
    BY ConnectQueue DEF Answers
  <2> QED BY <2>1, <2>2 DEF Fine
<1> QED BY <1>1, <1>2, <1>3, SafeSame DEF Main

LEMMA FaultMain ==
    ASSUME TypeOK, Quiet, Synced, Main, Drop \/ Reboot \/ Forget, Kept' PROVE Main'
<1>1. 1 .. Len(<<>>) = {}
  OBVIOUS
<1>2. CASE Drop
  <2>1. /\ UNCHANGED <<busy, out_msgs, delivered, excused, broker, begun>>
        /\ to_broker' = <<>> /\ to_device' = <<>>
    BY <1>2 DEF Drop, Cut, caches, history
  <2>2. Fine(out_msgs, delivered, broker.seen, Up', <<>>)
    <3>1. CASE busy.pc = "send"
      <4>1. busy.packet \in ToBroker /\ to_broker \in Seq(ToBroker) /\ to_device \in Seq(ToDevice)
        BY <3>1, UpType
      <4>2. Up' = Append(<<>>, busy.packet)
        BY <2>1, <3>1 DEF Up
      <4>3. Append(<<>>, busy.packet) = <<busy.packet>>
        OBVIOUS
      <4>4. Fine(out_msgs, delivered, broker.seen, Append(to_broker, busy.packet), to_device)
        BY <3>1 DEF Main, Up
      <4> QED BY <4>1, <4>2, <4>3, <4>4, LoseUp
    <3>2. CASE busy.pc # "send"
      BY <1>1, <2>1, <3>2 DEF Up, Fine
    <3> QED BY <3>1, <3>2
  <2> QED BY <2>1, <2>2, SafeSame DEF Main
<1>3. CASE Reboot
  <2>1. out_flash = out_msgs
    <3>1. faults.kv = 0
      BY <1>3, StrikeType DEF Reboot, Kept, TypeOK, Strikes, Bounds
    <3> QED BY <3>1 DEF Synced
  <2>2. /\ UNCHANGED <<out_msgs, delivered, excused, broker, begun>>
        /\ Up' = <<>> /\ to_device' = <<>>
    BY <1>3, <2>1 DEF Reboot, Cut, history, Up, Idle
  <2>3. Fine(out_msgs, delivered, broker.seen, <<>>, <<>>)
    BY <1>1 DEF Fine
  <2> QED BY <2>2, <2>3, SafeSame DEF Main
<1>4. CASE Forget
  <2>1. /\ UNCHANGED <<busy, out_msgs, delivered, begun, to_broker, to_device>>
        /\ broker'.seen = {} /\ excused'.out = 1 .. begun.out /\ to_device = <<>>
    BY <1>4 DEF Forget, NoSession, caches, net, Quiet
  <2>2. Up' = Up
    BY <2>1 DEF Up
  <2>3. Fine(out_msgs, delivered, {}, Up, to_device)
    BY <1>1, <2>1 DEF Main, Fine
  <2>4. SeenOwned' /\ Safe'
    BY <2>1, Constants DEF SeenOwned, Safe, Wanted, TypeOK, Sent
  <2> QED BY <2>1, <2>2, <2>3, <2>4 DEF Main
<1> QED BY <1>2, <1>3, <1>4

LEMMA MainStep ==
    ASSUME Window = 1, TypeOK, Quiet, Synced, Main, Next, Kept' PROVE Main'
<1>1. CASE Store \/ Deliver
  <2>1. /\ UNCHANGED <<out_msgs, delivered, excused, broker, begun, to_broker, to_device>>
        /\ busy.pc # "send" /\ busy'.pc # "send"
    <3>1. CASE Store
      BY <3>1 DEF Store, net, history, TypeOK, Calling, Idle
    <3>2. CASE Deliver
      BY <3>2 DEF Deliver, net, caches, Idle
    <3> QED BY <1>1, <3>1, <3>2
  <2>2. Up' = Up
    BY <2>1 DEF Up
  <2> QED BY <2>1, <2>2, SafeSame DEF Main
<1> QED BY <1>1, BeginMain, SendingMain, AcknowledgedMain, AnsweredMain, OnConnackMain,
       BrokerReceivesMain, BrokerSendsMain, ConnectMain, FaultMain
       DEF Next, Calls, DeviceReceives

IInv == TypeOK /\ Synced /\ Quiet /\ (Kept => Main)

LEMMA InitInv == ASSUME Init PROVE IInv
<1>1. 1 .. Len(<<>>) = {}
  OBVIOUS
<1>2. Up = <<>> /\ broker.seen = {} /\ to_device = <<>> /\ to_broker = <<>> /\ link = "down"
  BY DEF Init, Up, Idle, NoSession
<1>3. Quiet
  BY <1>1, <1>2 DEF Quiet
<1>4. Main
  BY <1>1, <1>2, Constants DEF Main, Fine, SeenOwned, Safe, Wanted, Init, Sent
<1>5. Synced
  BY DEF Synced, Init
<1> QED BY <1>3, <1>4, <1>5, InitType DEF IInv

LEMMA InvStep == ASSUME Window = 1, IInv, [Next]_vars PROVE IInv'
<1>1. CASE UNCHANGED vars
  <2>1. Synced' /\ Quiet' /\ (Kept => Main)'
    BY <1>1 DEF vars, caches, net, history, IInv, Synced, Quiet, Kept, Main, SeenOwned, Safe,
       Wanted, Up
  <2> QED BY <2>1, TypeStep DEF IInv
<1>2. CASE Next
  <2>1. Kept' => Kept
    BY <1>2, FaultsGrow DEF Kept, IInv
  <2>2. (Kept => Main)'
    BY <1>2, <2>1, MainStep DEF IInv
  <2> QED BY <1>2, <2>2, TypeStep, SyncedStep, QuietStep DEF IInv
<1> QED BY <1>1, <1>2

\* A message that wants an answer is in the cache until Astarte has it, for any
\* messages, ids, losses of connection and of power, as long as no packet is
\* sent again while its first copy is under way.
THEOREM NothingForgotten == ASSUME Window = 1 PROVE Spec => []AtLeastOnce
<1>1. Init => IInv
  BY InitInv
<1>2. IInv /\ [Next]_vars => IInv'
  BY InvStep
<1>3. IInv => AtLeastOnce
  BY DEF IInv, AtLeastOnce, Main, Safe
<1> QED BY <1>1, <1>2, <1>3, PTL DEF Spec


-----------------------------------------------------------------------------
(* The session a client is in.                                             *)

\* Faults are counted up, those of the connection and of the broker included.
LEMMA FaultsOnlyGrow ==
    ASSUME TypeOK, Next
    PROVE  /\ faults.drops \in Nat /\ faults'.drops \in Nat /\ faults.drops <= faults'.drops
           /\ faults.reboots \in Nat /\ faults'.reboots \in Nat
           /\ faults.reboots <= faults'.reboots
           /\ faults.forgets \in Nat /\ faults'.forgets \in Nat
           /\ faults.forgets <= faults'.forgets
<1>1. /\ faults \in Bounds /\ faults.drops \in Nat /\ faults.reboots \in Nat
      /\ faults.forgets \in Nat
  BY Constants DEF TypeOK, Bounds
<1> USE DEF Bounds, Strikes
<1>2. CASE UNCHANGED faults
  BY <1>1, <1>2
<1>3. CASE Strikes("drops")
  BY <1>1, <1>3
<1>4. CASE Strikes("reboots")
  BY <1>1, <1>4
<1>5. CASE Strikes("failures")
  BY <1>1, <1>5
<1>6. CASE Strikes("forgets")
  BY <1>1, <1>6
<1>7. CASE Strikes("kv")
  BY <1>1, <1>7
<1> HIDE DEF Bounds, Strikes
<1> QED BY <1>2, <1>3, <1>4, <1>5, <1>6, <1>7, Struck

\* What the cache holds is of the session the broker has.
Clean == \A i \in Ids : out_msgs[i] # None => out_msgs[i] \notin excused.out

\* The broker is about to say that it has lost the session.
Told == to_device # <<>> /\ to_device[1] = [type |-> "CONNACK", present |-> FALSE]

ToldApart ==
    /\ excused.out \subseteq 1 .. begun.out
    /\ faults.reboots = 0 /\ faults.drops = 0 /\ link # "up" => ~online /\ begun.out = 0
    /\ faults.reboots = 0 /\ faults.drops <= 1 =>
        \/ Clean
        \/ /\ faults.drops = 1
           /\ \/ link = "down" /\ ~broker.present
              \/ link = "connecting" /\ Told

\* A step within a connection, or before it, that keeps to the messages of the cache.
LEMMA KeptApart ==
    ASSUME TypeOK, ToldApart, faults.drops = faults'.drops, faults.reboots <= faults'.reboots,
           faults.reboots \in Nat, faults'.reboots \in Nat,
           UNCHANGED <<link, online, excused>>, begun'.out = begun.out,
           \A i \in Ids : out_msgs'[i] \in {None, out_msgs[i]},
           link = "down" => broker'.present = broker.present,
           link = "connecting" /\ Told => Told'
    PROVE  ToldApart'
<1>1. faults'.reboots = 0 => faults.reboots = 0
  OBVIOUS
<1>2. Clean => Clean'
  BY DEF Clean
<1> HIDE DEF Clean, Told
<1> QED BY <1>1, <1>2 DEF ToldApart

\* The first packet to the device stays first.
LEMMA StillTold ==
    ASSUME TypeOK, Told, NEW p, to_device' = Append(to_device, p) \/ UNCHANGED to_device
    PROVE  Told'
<1>1. to_device \in Seq(ToDevice) /\ to_device # <<>>
  BY DEF TypeOK, Told
<1>2. CASE to_device' = Append(to_device, p)
  <2>1. to_device' # <<>> /\ to_device'[1] = to_device[1]
    BY <1>1, <1>2
  <2> QED BY <2>1 DEF Told
<1>3. CASE UNCHANGED to_device
  BY <1>3 DEF Told
<1> QED BY <1>2, <1>3

\* The broker answers, if it does, and keeps the session.
LEMMA BrokerAnswersOnce ==
    ASSUME TypeOK, BrokerReceives
    PROVE  /\ broker'.present = broker.present
           /\ \/ UNCHANGED to_device
              \/ \E p \in ToDevice : /\ p.type \notin {"CONNACK", "PUBLISH"}
                                     /\ to_device' = Append(to_device, p)
<1> DEFINE p == Head(to_broker)
<1>1. p \in ToBroker
  BY TailOf DEF BrokerReceives, TypeOK
<1>2. broker'.present = broker.present
  BY DEF BrokerReceives, BrokerGets, BrokerGetsPublish, TypeOK, Session
<1>3. CASE p.type = "PUBLISH" /\ OutKinds[p.msg] = "qos0"
  BY <1>2, <1>3 DEF BrokerReceives, BrokerGets, BrokerGetsPublish
<1>4. CASE ~ (p.type = "PUBLISH" /\ OutKinds[p.msg] = "qos0")
  <2>1. p.id \in Ids
    BY <1>1, <1>4 DEF ToBroker
  <2>2. \A type \in {"PUBACK", "PUBREC", "SUBACK", "PUBCOMP", "PUBREL"} :
          Ack(type, p.id) \in ToDevice /\ Ack(type, p.id).type \notin {"CONNACK", "PUBLISH"}
    BY <2>1, AckType DEF Ack
  <2>3. CASE p.type = "PUBLISH"
    BY <1>2, <1>4, <2>2, <2>3 DEF BrokerReceives, BrokerGets, BrokerGetsPublish, Answer
  <2>4. CASE p.type # "PUBLISH"
    BY <1>2, <2>2, <2>4 DEF BrokerReceives, BrokerGets, Answer
  <2> QED BY <2>3, <2>4
<1> QED BY <1>3, <1>4

LEMMA ToldApartStep == ASSUME TypeOK, Quiet, ToldApart, Next PROVE ToldApart'
<1>1. /\ faults.drops \in Nat /\ faults'.drops \in Nat /\ faults.drops <= faults'.drops
      /\ faults.reboots \in Nat /\ faults'.reboots \in Nat /\ faults.reboots <= faults'.reboots
  BY FaultsOnlyGrow
<1>2. ASSUME ~Drop PROVE faults'.drops = faults.drops
  <2>1. faults \in Bounds
    BY DEF TypeOK
  <2>2. ASSUME NEW p, Send(p) PROVE faults'.drops = faults.drops
    BY <2>1, <2>2 DEF Send, Strikes, Bounds
  <2>3. CASE \/ UNCHANGED faults \/ Strikes("reboots") \/ Strikes("failures")
             \/ Strikes("forgets") \/ Strikes("kv")
    BY <2>1, <2>3 DEF Strikes, Bounds
  <2>4. ASSUME NEW n \in Sent, Begin(n) PROVE faults'.drops = faults.drops
    BY <2>3, <2>4 DEF Begin
  <2>5. ASSUME NEW i \in Ids, ResendOut(i) \/ ResendIn(i) PROVE faults'.drops = faults.drops
    BY <2>2, <2>5 DEF ResendOut, ResendIn
  <2>6. CASE Calls
    BY <2>2, <2>3, <2>6 DEF Calls, SendIt, Store, Deliver
  <2>7. ASSUME NEW type, Acknowledged(type) PROVE faults'.drops = faults.drops
    BY <2>3, <2>7 DEF Acknowledged, ForgetFlash
  <2>8. CASE DeviceReceives
    <3>1. OnPublish => faults'.drops = faults.drops
      BY <2>2, <2>3, OnPublishCases
    <3> QED BY <2>2, <2>3, <2>7, <2>8, <3>1 DEF DeviceReceives, OnPubrec, OnPubrel, OnConnack
  <2>9. CASE BrokerReceives \/ (\E n \in Incoming : BrokerSends(n)) \/ Connect \/ Reboot \/ Forget
    BY <2>3, <2>9 DEF BrokerReceives, BrokerSends, Connect, Reboot, Forget
  <2> QED BY <1>2, <2>4, <2>5, <2>6, <2>8, <2>9 DEF Next
<1>3. ASSUME NEW n \in Sent, Begin(n) PROVE ToldApart'
  <2>1. /\ UNCHANGED <<link, online, excused, broker, to_device>> /\ online
        /\ begun.out = n - 1 /\ begun'.out = n /\ excused.out \subseteq 1 .. n - 1
        /\ faults'.drops = faults.drops
    BY <1>2, <1>3 DEF Begin, net, history, TypeOK, ToldApart, Drop, caches
  <2>2. \A i \in Ids : out_msgs'[i] \in {n, out_msgs[i]}
    BY <1>3 DEF Begin, TypeOK
  <2>3. n \notin excused.out /\ 1 .. n - 1 \subseteq 1 .. n
    BY <2>1, Constants DEF Sent
  <2>4. Clean => Clean'
    BY <2>1, <2>2, <2>3 DEF Clean
  <2>5. Told => Told'
    BY <2>1 DEF Told
  <2> HIDE DEF Clean, Told
  <2> QED BY <1>1, <2>1, <2>3, <2>4, <2>5 DEF ToldApart
<1>4. CASE \/ (\E i \in Ids : ResendOut(i) \/ ResendIn(i)) \/ Calls
           \/ OnPubrec \/ OnPubrel \/ OnPublish \/ (\E type : Acknowledged(type))
  <2>1. /\ UNCHANGED <<link, online, excused, begun, broker>>
        /\ link # "up" => UNCHANGED to_device
    BY <1>4 DEF ResendOut, ResendIn, Calls, SendIt, Store, Deliver, OnPubrec, OnPubrel, OnPublish,
       Acknowledged, history, net
  <2>2. \A i \in Ids : out_msgs'[i] \in {None, out_msgs[i]}
    <3>1. ASSUME NEW type, Acknowledged(type) PROVE \A i \in Ids : out_msgs'[i] \in {None, out_msgs[i]}
      BY <3>1 DEF Acknowledged, TypeOK
    <3> QED BY <1>4, <3>1 DEF ResendOut, ResendIn, Calls, SendIt, Store, Deliver, OnPubrec, OnPubrel,
          OnPublish, caches
  <2>3. ~Drop
    BY <1>4, <2>1 DEF Drop, Cut
  <2> QED BY <1>1, <1>2, <2>1, <2>2, <2>3, KeptApart DEF Told
<1>5. CASE OnConnack
  <2>1. /\ link = "connecting" /\ to_device # <<>> /\ Head(to_device).type = "CONNACK"
        /\ link' = "up" /\ UNCHANGED <<begun, broker, faults>>
    BY <1>5 DEF OnConnack, Receives
  <2>2. CASE Head(to_device).present
    <3>1. UNCHANGED <<out_msgs, excused>>
      BY <1>5, <2>2 DEF OnConnack, caches
    <3>2. ~Told
      BY <2>1, <2>2, TailOf DEF Told, TypeOK
    <3> QED BY <1>1, <2>1, <3>1, <3>2 DEF ToldApart, Clean
  <2>3. CASE ~Head(to_device).present
    <3>1. (\A i \in Ids : out_msgs'[i] = None) /\ excused'.out = 1 .. begun.out
      BY <1>5, <2>3 DEF OnConnack, TypeOK
    <3> QED BY <1>1, <2>1, <3>1 DEF ToldApart, Clean
  <2> QED BY <2>2, <2>3
<1>6. CASE BrokerReceives
  <2>1. UNCHANGED <<link, online, excused, begun, out_msgs, faults>>
    BY <1>6 DEF BrokerReceives, BrokerGets, BrokerGetsPublish, caches
  <2> QED BY <1>1, <1>6, <2>1, BrokerAnswersOnce, KeptApart, StillTold
<1>7. ASSUME NEW n \in Incoming, BrokerSends(n) PROVE ToldApart'
  <2>1. /\ UNCHANGED <<link, online, excused, out_msgs, faults>> /\ begun'.out = begun.out
        /\ broker'.present = broker.present
    BY <1>7 DEF BrokerSends, caches, history, TypeOK, Session
  <2>2. UNCHANGED to_device \/ \E p : to_device' = Append(to_device, p)
    BY <1>7 DEF BrokerSends, Answer
  <2> QED BY <1>1, <2>1, <2>2, KeptApart, StillTold
<1>8. CASE Connect
  <2>1. /\ UNCHANGED <<online, excused, out_msgs, faults, begun>>
        /\ link = "down" /\ link' = "connecting"
    BY <1>8 DEF Connect, caches, history
  <2>2. ~broker.present => Told'
    BY <1>8, ConnectQueue DEF Told, TypeOK, Session
  <2>3. Clean => Clean'
    BY <2>1 DEF Clean
  <2> HIDE DEF Clean, Told
  <2> QED BY <1>1, <2>1, <2>2, <2>3 DEF ToldApart
<1>9. CASE Drop
  <2>1. UNCHANGED <<excused, out_msgs, begun>> /\ link' = "down" /\ online' \in {online, FALSE}
    BY <1>9 DEF Drop, Cut, caches, history
  <2>2. faults'.drops = faults.drops + 1
    BY <1>9 DEF Drop, Strikes, TypeOK, Bounds
  <2>3. Clean => Clean'
    BY <2>1 DEF Clean
  <2> HIDE DEF Clean, Told
  <2> QED BY <1>1, <2>1, <2>2, <2>3 DEF ToldApart
<1>10. CASE Reboot
  <2>1. faults'.reboots # 0 /\ UNCHANGED <<excused, begun>>
    BY <1>10, StrikeType DEF Reboot, TypeOK, history
  <2> QED BY <2>1 DEF ToldApart
<1>11. CASE Forget
  <2>1. /\ UNCHANGED <<begun, link, online, out_msgs>> /\ link = "down" /\ ~broker'.present
        /\ excused'.out = 1 .. begun.out /\ faults'.drops = faults.drops
    BY <1>2, <1>11 DEF Forget, Drop, NoSession, caches, net
  <2>2. begun.out = 0 => Clean'
    BY <2>1 DEF Clean
  <2> HIDE DEF Clean, Told
  <2> QED BY <1>1, <2>1, <2>2 DEF ToldApart
<1> QED BY <1>3, <1>4, <1>5, <1>6, <1>7, <1>8, <1>9, <1>10, <1>11 DEF Next, Calls, DeviceReceives

\* The cache of a client that is connected holds no message of a session the broker
\* has lost: the CONNACK that says so empties it, unless power or a second connection
\* was lost on the way.
THEOREM SessionsToldApart == Spec => []NoStaleSession
<1>1. Init => TypeOK /\ Quiet /\ ToldApart
  <2>1. ASSUME Init PROVE Quiet
    BY <2>1, InitInv DEF IInv
  <2>2. ASSUME Init PROVE ToldApart
    <3>1. excused.out = {} /\ online = FALSE /\ begun.out = 0 /\ \A i \in Ids : out_msgs[i] = None
      BY <2>2 DEF Init
    <3> QED BY <3>1 DEF ToldApart, Clean
  <2> QED BY <2>1, <2>2, InitType
<1>2. TypeOK /\ Quiet /\ ToldApart /\ [Next]_vars => (TypeOK /\ Quiet /\ ToldApart)'
  <2>1. ASSUME UNCHANGED vars, Quiet, ToldApart PROVE Quiet' /\ ToldApart'
    BY <2>1 DEF vars, caches, net, history, Quiet, ToldApart, Clean, Told
  <2> QED BY <2>1, TypeStep, QuietStep, ToldApartStep
<1>3. TypeOK /\ ToldApart => NoStaleSession
  BY Constants DEF ToldApart, NoStaleSession, Clean, TypeOK, Bounds
<1> QED BY <1>1, <1>2, <1>3, PTL DEF Spec

-----------------------------------------------------------------------------
(* What the broker has pending for the device, and what of it is under way. *)

Waits(pend, i, n) == pend[i] # None /\ pend[i].msg = n
First(pend, i, n) == Waits(pend, i, n) /\ pend[i].type = "PUBLISH"
IsPublish(p, i, n) == p.type = "PUBLISH" /\ p.id = i /\ p.msg = n
IsPubrel(p, i) == p.type = "PUBREL" /\ p.id = i

\* Every message has one id at most and is under way once at most, and a PUBREL of
\* an earlier message of the id goes before it.
Numbered(pend, down, last) ==
    /\ \A n \in Incoming : n > last =>
        /\ \A i \in Ids : ~Waits(pend, i, n)
        /\ \A k \in 1 .. Len(down) : down[k].type = "PUBLISH" => down[k].msg # n
    /\ \A i, j \in Ids, n \in Incoming : Waits(pend, i, n) /\ Waits(pend, j, n) => i = j
    /\ \A i, j \in Ids, n \in Incoming, k \in 1 .. Len(down) :
        Waits(pend, i, n) /\ IsPublish(down[k], j, n) => i = j
    /\ \A j, k \in 1 .. Len(down) :
        /\ down[j].type = "PUBLISH" /\ down[k].type = "PUBLISH"
        /\ down[j].msg = down[k].msg
        => j = k
    /\ \A i \in Ids, n \in Incoming, j, k \in 1 .. Len(down) :
        First(pend, i, n) /\ IsPubrel(down[j], i) /\ IsPublish(down[k], i, n) => j < k

\* What keeps a message that was taken from being taken again: its id is held until
\* its PUBREL comes, and then it is not sent any more.
Guarded(n, pend, down, held) ==
    /\ \A i \in Ids, k \in 1 .. Len(down) : IsPublish(down[k], i, n) =>
        i \in held /\ \A j \in 1 .. Len(down) : IsPubrel(down[j], i) => k < j
    /\ \A i \in Ids : First(pend, i, n) =>
        i \in held /\ \A j \in 1 .. Len(down) : ~IsPubrel(down[j], i)

LEMMA TailNumbered ==
    ASSUME NEW pend, NEW down \in Seq(ToDevice), NEW last, Numbered(pend, down, last),
           down # <<>>
    PROVE  Numbered(pend, Tail(down), last)
<1> DEFINE less == Tail(down)
<1>1. /\ Len(less) = Len(down) - 1 /\ Len(down) \in Nat \ {0}
      /\ \A k \in 1 .. Len(less) : less[k] = down[k + 1]
  BY TailOf
<1> HIDE DEF less
<1>2. \A k \in 1 .. Len(less) : k + 1 \in 1 .. Len(down)
  BY <1>1
<1>3. \A j, k \in 1 .. Len(less) : (j + 1 = k + 1 => j = k) /\ (j + 1 < k + 1 => j < k)
  OBVIOUS
<1>4. \A n \in Incoming : n > last =>
        \A k \in 1 .. Len(less) : less[k].type = "PUBLISH" => less[k].msg # n
  BY <1>1, <1>2 DEF Numbered
<1>5. \A i, j \in Ids, n \in Incoming, k \in 1 .. Len(less) :
        Waits(pend, i, n) /\ IsPublish(less[k], j, n) => i = j
  BY <1>1, <1>2 DEF Numbered
<1>6. \A j, k \in 1 .. Len(less) :
        less[j].type = "PUBLISH" /\ less[k].type = "PUBLISH" /\ less[j].msg = less[k].msg => j = k
  BY <1>1, <1>2, <1>3 DEF Numbered
<1>7. \A i \in Ids, n \in Incoming, j, k \in 1 .. Len(less) :
        First(pend, i, n) /\ IsPubrel(less[j], i) /\ IsPublish(less[k], i, n) => j < k
  BY <1>1, <1>2, <1>3 DEF Numbered
<1> QED BY <1>4, <1>5, <1>6, <1>7 DEF Numbered, less

LEMMA FewerNumbered ==
    ASSUME NEW pend, NEW down \in Seq(ToDevice), NEW last, Numbered(pend, down, last),
           NEW pend2,
           \A i \in Ids, n \in Incoming : Waits(pend2, i, n) => Waits(pend, i, n),
           \A i \in Ids, n \in Incoming : First(pend2, i, n) => First(pend, i, n)
    PROVE  Numbered(pend2, down, last)
BY DEF Numbered

LEMMA AppendNumbered ==
    ASSUME NEW pend, NEW down \in Seq(ToDevice), NEW last, Numbered(pend, down, last),
           NEW p \in ToDevice, p.type # "PUBLISH",
           \A i \in Ids, n \in Incoming : IsPubrel(p, i) => ~First(pend, i, n)
    PROVE  Numbered(pend, Append(down, p), last)
<1> DEFINE more == Append(down, p)
<1>1. /\ Len(more) = Len(down) + 1 /\ Len(down) \in Nat
      /\ more[Len(down) + 1] = p /\ \A k \in 1 .. Len(down) : more[k] = down[k]
  BY AppendOf
<1> HIDE DEF more
<1>2. \A k \in 1 .. Len(more) : (k \in 1 .. Len(down) /\ more[k] = down[k]) \/ more[k] = p
  BY <1>1
<1>3. \A n \in Incoming : n > last =>
        \A k \in 1 .. Len(more) : more[k].type = "PUBLISH" => more[k].msg # n
  BY <1>2 DEF Numbered
<1>4. \A i, j \in Ids, n \in Incoming, k \in 1 .. Len(more) :
        Waits(pend, i, n) /\ IsPublish(more[k], j, n) => i = j
  BY <1>2 DEF Numbered, IsPublish
<1>5. \A j, k \in 1 .. Len(more) :
        more[j].type = "PUBLISH" /\ more[k].type = "PUBLISH" /\ more[j].msg = more[k].msg => j = k
  BY <1>2 DEF Numbered
<1>6. \A i \in Ids, n \in Incoming, j, k \in 1 .. Len(more) :
        First(pend, i, n) /\ IsPubrel(more[j], i) /\ IsPublish(more[k], i, n) => j < k
  BY <1>2 DEF Numbered, IsPublish
<1> QED BY <1>3, <1>4, <1>5, <1>6 DEF Numbered, more

\* The next message of the broker: pend2 has it under the id x, which was free.
LEMMA NextNumbered ==
    ASSUME NEW pend, NEW down \in Seq(ToDevice), NEW n \in Incoming,
           Numbered(pend, down, n - 1),
           NEW pend2, NEW x \in Ids \cup {0}, NEW p \in ToDevice, NEW down2,
           p.type = "PUBLISH" /\ p.id = x /\ p.msg = n,
           down2 = Append(down, p) \/ down2 = down,
           \A i \in Ids, m \in Incoming : i # x => (Waits(pend2, i, m) <=> Waits(pend, i, m)),
           \A i \in Ids, m \in Incoming : i # x => (First(pend2, i, m) <=> First(pend, i, m)),
           \A m \in Incoming : x \in Ids /\ Waits(pend2, x, m) => m = n
    PROVE  Numbered(pend2, down2, n)
<1>1. /\ n \in Nat /\ \A m \in Incoming : m \in Nat /\ (m > n => m > n - 1 /\ m # n)
  BY Constants DEF Incoming
<1>2. n > n - 1
  BY <1>1
<1>3. /\ \A i \in Ids : ~Waits(pend, i, n)
      /\ \A k \in 1 .. Len(down) : down[k].type = "PUBLISH" => down[k].msg # n
  BY <1>2 DEF Numbered
<1>4. \A i \in Ids, m \in Incoming : Waits(pend2, i, m) => IF i = x THEN m = n ELSE m # n /\ Waits(pend, i, m)
  BY <1>3
<1>5. \A i, j \in Ids, m \in Incoming : Waits(pend2, i, m) /\ Waits(pend2, j, m) => i = j
  BY <1>4 DEF Numbered
<1>6. \A m \in Incoming : m > n => \A i \in Ids : ~Waits(pend2, i, m)
  BY <1>1, <1>4 DEF Numbered
<1>7. CASE down2 = down
  <2>1. \A m \in Incoming : m > n =>
          \A k \in 1 .. Len(down) : down[k].type = "PUBLISH" => down[k].msg # m
    BY <1>1 DEF Numbered
  <2>2. \A i, j \in Ids, m \in Incoming, k \in 1 .. Len(down) :
          Waits(pend2, i, m) /\ IsPublish(down[k], j, m) => i = j
    BY <1>3, <1>4 DEF Numbered, IsPublish
  <2>3. \A i \in Ids, m \in Incoming, j, k \in 1 .. Len(down) :
          First(pend2, i, m) /\ IsPubrel(down[j], i) /\ IsPublish(down[k], i, m) => j < k
    BY <1>3, <1>4 DEF Numbered, IsPublish, First
  <2> QED BY <1>5, <1>6, <1>7, <2>1, <2>2, <2>3 DEF Numbered
<1>8. CASE down2 = Append(down, p)
  <2>1. /\ Len(down2) = Len(down) + 1 /\ Len(down) \in Nat
        /\ down2[Len(down) + 1] = p /\ \A k \in 1 .. Len(down) : down2[k] = down[k]
    BY <1>8, AppendOf
  <2>2. \A k \in 1 .. Len(down2) :
          (k \in 1 .. Len(down) /\ down2[k] = down[k]) \/ (k = Len(down) + 1 /\ down2[k] = p)
    BY <2>1
  <2>3. \A m \in Incoming : m > n =>
          \A k \in 1 .. Len(down2) : down2[k].type = "PUBLISH" => down2[k].msg # m
    BY <1>1, <2>2 DEF Numbered
  <2>4. \A i, j \in Ids, m \in Incoming, k \in 1 .. Len(down2) :
          Waits(pend2, i, m) /\ IsPublish(down2[k], j, m) => i = j
    BY <1>3, <1>4, <2>2 DEF Numbered, IsPublish
  <2>5. \A j, k \in 1 .. Len(down2) :
          down2[j].type = "PUBLISH" /\ down2[k].type = "PUBLISH" /\ down2[j].msg = down2[k].msg => j = k
    BY <1>3, <2>2 DEF Numbered
  <2>6. \A i \in Ids, m \in Incoming, j, k \in 1 .. Len(down2) :
          First(pend2, i, m) /\ IsPubrel(down2[j], i) /\ IsPublish(down2[k], i, m) => j < k
    <3> SUFFICES ASSUME NEW i \in Ids, NEW m \in Incoming, NEW j \in 1 .. Len(down2),
                        NEW k \in 1 .. Len(down2), First(pend2, i, m), IsPubrel(down2[j], i),
                        IsPublish(down2[k], i, m)
                 PROVE  j < k
      OBVIOUS
    <3>1. j \in 1 .. Len(down) /\ down2[j] = down[j]
      BY <2>2 DEF IsPubrel
    <3>2. CASE k = Len(down) + 1
      BY <2>1, <3>1, <3>2
    <3>3. CASE k \in 1 .. Len(down) /\ down2[k] = down[k]
      <4>1. m # n
        BY <1>3, <3>3 DEF IsPublish
      <4>2. i # x
        BY <1>4, <4>1 DEF First
      <4> QED BY <3>1, <3>3, <4>2 DEF Numbered
    <3> QED BY <2>2, <3>2, <3>3
  <2> QED BY <1>5, <1>6, <2>3, <2>4, <2>5, <2>6 DEF Numbered
<1> QED BY <1>7, <1>8

LEMMA TailGuarded ==
    ASSUME NEW pend, NEW down \in Seq(ToDevice), NEW n \in Incoming, NEW held,
           Guarded(n, pend, down, held), down # <<>>
    PROVE  /\ Guarded(n, pend, Tail(down), held)
           /\ \A x : IsPubrel(Head(down), x) => Guarded(n, pend, Tail(down), held \ {x})
<1> DEFINE less == Tail(down)
<1>1. /\ Len(less) = Len(down) - 1 /\ Len(down) \in Nat \ {0} /\ Head(down) = down[1]
      /\ \A k \in 1 .. Len(less) : less[k] = down[k + 1]
  BY TailOf
<1> HIDE DEF less
<1>2. 1 \in 1 .. Len(down) /\ \A k \in 1 .. Len(less) : k + 1 \in 1 .. Len(down) /\ ~(k + 1 < 1)
  BY <1>1
<1>3. \A j, k \in 1 .. Len(less) : j + 1 < k + 1 => j < k
  OBVIOUS
<1>4. Guarded(n, pend, less, held)
  BY <1>1, <1>2, <1>3 DEF Guarded
<1>5. ASSUME NEW x, IsPubrel(Head(down), x) PROVE Guarded(n, pend, less, held \ {x})
  <2>1. IsPubrel(down[1], x)
    BY <1>1, <1>5
  <2>2. \A k \in 1 .. Len(less), i \in Ids : IsPublish(less[k], i, n) => i # x
    BY <1>1, <1>2, <2>1 DEF Guarded
  <2>3. \A i \in Ids : First(pend, i, n) => i # x
    BY <1>2, <2>1 DEF Guarded
  <2> QED BY <1>4, <2>2, <2>3 DEF Guarded
<1> QED BY <1>4, <1>5 DEF less

LEMMA MoreGuarded ==
    ASSUME NEW pend, NEW down \in Seq(ToDevice), NEW n \in Incoming, NEW held,
           Guarded(n, pend, down, held),
           NEW pend2, NEW held2, held \cap Ids \subseteq held2,
           \A i \in Ids : First(pend2, i, n) => First(pend, i, n)
    PROVE  Guarded(n, pend2, down, held2)
BY DEF Guarded

LEMMA AppendGuarded ==
    ASSUME NEW pend, NEW down \in Seq(ToDevice), NEW n \in Incoming, NEW held,
           Guarded(n, pend, down, held), NEW p \in ToDevice,
           \A i \in Ids : ~IsPublish(p, i, n) /\ (IsPubrel(p, i) => ~First(pend, i, n))
    PROVE  Guarded(n, pend, Append(down, p), held)
<1> DEFINE more == Append(down, p)
<1>1. /\ Len(more) = Len(down) + 1 /\ Len(down) \in Nat
      /\ more[Len(down) + 1] = p /\ \A k \in 1 .. Len(down) : more[k] = down[k]
  BY AppendOf
<1> HIDE DEF more
<1>2. \A k \in 1 .. Len(more) :
        (k \in 1 .. Len(down) /\ more[k] = down[k]) \/ (k = Len(down) + 1 /\ more[k] = p)
  BY <1>1
<1>3. ASSUME NEW i \in Ids, NEW k \in 1 .. Len(more), IsPublish(more[k], i, n)
      PROVE  i \in held /\ \A j \in 1 .. Len(more) : IsPubrel(more[j], i) => k < j
  <2>1. k \in 1 .. Len(down) /\ IsPublish(down[k], i, n)
    BY <1>2, <1>3
  <2> QED BY <1>1, <1>2, <2>1 DEF Guarded
<1>4. ASSUME NEW i \in Ids, First(pend, i, n)
      PROVE  i \in held /\ \A j \in 1 .. Len(more) : ~IsPubrel(more[j], i)
  BY <1>2, <1>4 DEF Guarded
<1> QED BY <1>3, <1>4 DEF Guarded, more

-----------------------------------------------------------------------------
(* What the broker does to the messages it has pending.                    *)

LEMMA BrokerGetsCases ==
    ASSUME TypeOK, BrokerReceives, NEW p, p = Head(to_broker)
    PROVE  \/ /\ p.type \in {"PUBLISH", "SUBSCRIBE", "PUBREL"}
              /\ broker'.pending = broker.pending
              /\ \/ UNCHANGED to_device
                 \/ \E a \in ToDevice : /\ a.type \in {"PUBACK", "PUBREC", "PUBCOMP", "SUBACK"}
                                        /\ to_device' = Append(to_device, a)
           \/ /\ p.type \in {"PUBACK", "PUBCOMP"} /\ p.id \in Ids /\ UNCHANGED to_device
              /\ broker'.pending = [broker.pending EXCEPT ![p.id] = None]
           \/ /\ p.type = "PUBREC" /\ p.id \in Ids /\ broker.pending[p.id] # None
              /\ broker'.pending = [broker.pending EXCEPT ![p.id].type = "PUBREL"]
              /\ to_device' = Append(to_device, Ack("PUBREL", p.id))
           \/ /\ p.type = "PUBREC" /\ p.id \in Ids /\ broker.pending[p.id] = None
              /\ UNCHANGED broker
              /\ UNCHANGED to_device \/ to_device' = Append(to_device, Ack("PUBREL", p.id))
<1>1. p \in ToBroker /\ BrokerGets(p)
  BY TailOf DEF BrokerReceives, TypeOK
<1>2. broker \in Session
  BY DEF TypeOK
<1>3. CASE p.type = "PUBLISH" /\ BrokerGetsPublish(p)
  <2>1. broker'.pending = broker.pending
    BY <1>2, <1>3 DEF BrokerGetsPublish, Session
  <2>2. CASE OutKinds[p.msg] = "qos0"
    BY <1>3, <2>1, <2>2 DEF BrokerGetsPublish
  <2>3. CASE OutKinds[p.msg] # "qos0"
    <3>1. p.id \in Ids
      BY <1>1, <1>3, <2>3 DEF ToBroker
    <3>2. \A type \in {"PUBACK", "PUBREC"} : Ack(type, p.id) \in ToDevice /\ Ack(type, p.id).type = type
      BY <3>1, AckType DEF Ack
    <3>3. \E type \in {"PUBACK", "PUBREC"} : to_device' = Append(to_device, Ack(type, p.id))
      BY <1>3, <2>3 DEF BrokerGetsPublish, Answer
    <3> QED BY <1>3, <2>1, <3>2, <3>3
  <2> QED BY <2>2, <2>3
<1>4. CASE /\ p.type = "SUBSCRIBE" /\ delivered' = Counted(delivered, p.msg)
           /\ Answer(Ack("SUBACK", p.id)) /\ UNCHANGED broker
  <2>1. p.id \in Ids
    BY <1>1, <1>4 DEF ToBroker
  <2>2. Ack("SUBACK", p.id) \in ToDevice /\ Ack("SUBACK", p.id).type = "SUBACK"
    BY <2>1, AckType DEF Ack
  <2> QED BY <1>4, <2>2 DEF Answer
<1>5. CASE /\ p.type = "PUBREL" /\ broker' = [broker EXCEPT !.seen = @ \ {p.id}]
           /\ Answer(Ack("PUBCOMP", p.id)) /\ UNCHANGED delivered
  <2>1. p.id \in Ids
    BY <1>1, <1>5 DEF ToBroker
  <2>2. Ack("PUBCOMP", p.id) \in ToDevice /\ Ack("PUBCOMP", p.id).type = "PUBCOMP"
    BY <2>1, AckType DEF Ack
  <2>3. broker'.pending = broker.pending
    BY <1>2, <1>5 DEF Session
  <2> QED BY <1>5, <2>2, <2>3 DEF Answer
<1>6. CASE /\ p.type \in {"PUBACK", "PUBCOMP"}
           /\ broker' = [broker EXCEPT !.pending[p.id] = None]
           /\ UNCHANGED <<to_device, delivered>>
  <2>1. p.id \in Ids
    BY <1>1, <1>6 DEF ToBroker
  <2>2. broker'.pending = [broker.pending EXCEPT ![p.id] = None]
    BY <1>2, <1>6, <2>1 DEF Session
  <2> QED BY <1>6, <2>1, <2>2
<1>7. CASE /\ p.type = "PUBREC" /\ broker.pending[p.id] # None
           /\ broker' = [broker EXCEPT !.pending[p.id].type = "PUBREL"]
           /\ Answer(Ack("PUBREL", p.id)) /\ UNCHANGED delivered
  <2>1. p.id \in Ids
    BY <1>1, <1>7 DEF ToBroker
  <2>2. broker'.pending = [broker.pending EXCEPT ![p.id].type = "PUBREL"]
    BY <1>2, <1>7, <2>1 DEF Session
  <2> QED BY <1>7, <2>1, <2>2 DEF Answer
<1>8. CASE /\ p.type = "PUBREC" /\ broker.pending[p.id] = None
           /\ Answer(Ack("PUBREL", p.id)) \/ UNCHANGED to_device
           /\ UNCHANGED <<broker, delivered>>
  <2>1. p.id \in Ids
    BY <1>1, <1>8 DEF ToBroker
  <2> QED BY <1>8, <2>1 DEF Answer
<1> QED BY <1>1, <1>3, <1>4, <1>5, <1>6, <1>7, <1>8 DEF BrokerGets

\* What an answer of the broker does to what is pending, one message at a time: it is
\* acknowledged, or it is not sent any more, or nothing happens.
LEMMA PendingShrinks ==
    ASSUME TypeOK, BrokerReceives
    PROVE  /\ \A i \in Ids, n \in Incoming :
                Waits(broker'.pending, i, n) => Waits(broker.pending, i, n)
           /\ \A i \in Ids, n \in Incoming :
                First(broker'.pending, i, n) => First(broker.pending, i, n)
           /\ \/ UNCHANGED to_device
              \/ \E a \in ToDevice :
                    /\ a.type \notin {"PUBLISH", "CONNACK"} /\ to_device' = Append(to_device, a)
                    /\ \A i \in Ids, n \in Incoming :
                        IsPubrel(a, i) => ~First(broker'.pending, i, n)
<1> DEFINE p == Head(to_broker)
           x == p.id
<1>1. broker.pending \in [Ids -> [msg : BrokerKeeps, type : {"PUBLISH", "PUBREL"}] \cup {None}]
  BY DEF TypeOK, Session
<1>2. x \in Ids => Ack("PUBREL", x) \in ToDevice /\ Ack("PUBREL", x).type = "PUBREL"
                    /\ Ack("PUBREL", x).id = x
  BY AckType DEF Ack
<1> HIDE DEF p
<1> USE DEF Waits, First, IsPubrel
<1>3. CASE /\ p.type \in {"PUBLISH", "SUBSCRIBE", "PUBREL"}
           /\ broker'.pending = broker.pending
           /\ \/ UNCHANGED to_device
              \/ \E a \in ToDevice : /\ a.type \in {"PUBACK", "PUBREC", "PUBCOMP", "SUBACK"}
                                     /\ to_device' = Append(to_device, a)
  BY <1>3
<1>4. CASE /\ x \in Ids /\ UNCHANGED to_device
           /\ broker'.pending = [broker.pending EXCEPT ![x] = None]
  BY <1>1, <1>4
<1>5. CASE /\ x \in Ids /\ broker.pending[x] # None
           /\ broker'.pending = [broker.pending EXCEPT ![x].type = "PUBREL"]
           /\ to_device' = Append(to_device, Ack("PUBREL", x))
  <2>1. broker.pending[x] \in [msg : BrokerKeeps, type : {"PUBLISH", "PUBREL"}]
    BY <1>1, <1>5
  <2>2. broker'.pending[x].type = "PUBREL" /\ broker'.pending[x].msg = broker.pending[x].msg
    BY <1>1, <1>5, <2>1
  <2>3. \A i \in Ids : i # x => broker'.pending[i] = broker.pending[i]
    BY <1>1, <1>5
  <2> QED BY <1>2, <1>5, <2>2, <2>3
<1>6. CASE /\ x \in Ids /\ broker.pending[x] = None /\ UNCHANGED broker
           /\ UNCHANGED to_device \/ to_device' = Append(to_device, Ack("PUBREL", x))
  BY <1>2, <1>6
<1> QED BY <1>3, <1>4, <1>5, <1>6, BrokerGetsCases DEF p

\* The broker takes its next message: under a free id, or under none.
LEMMA BrokerSendsCases ==
    ASSUME TypeOK, NEW n \in Incoming, BrokerSends(n)
    PROVE  \E x \in Ids \cup {0}, p \in ToDevice :
            /\ p = [type |-> "PUBLISH", id |-> x, msg |-> n]
            /\ to_device' = Append(to_device, p) \/ (UNCHANGED to_device /\ link = "down")
            /\ \/ x = 0 /\ UNCHANGED broker /\ link = "up" /\ InKinds[n] = "qos0"
               \/ /\ x \in Ids /\ broker.pending[x] = None /\ InKinds[n] # "qos0"
                  /\ broker'.pending =
                        [broker.pending EXCEPT ![x] = [msg |-> n, type |-> "PUBLISH"]]
<1>1. CASE InKinds[n] = "qos0"
  <2>1. [type |-> "PUBLISH", id |-> 0, msg |-> n] \in ToDevice
    BY <1>1 DEF ToDevice
  <2> QED BY <1>1, <2>1 DEF BrokerSends, Answer
<1>2. CASE InKinds[n] # "qos0"
  <2> DEFINE x == CHOOSE j \in Unused : TRUE
  <2>1. x \in Ids /\ broker.pending[x] = None
    BY <1>2 DEF BrokerSends, Unused
  <2>2. [type |-> "PUBLISH", id |-> x, msg |-> n] \in ToDevice
    <3> HIDE DEF x
    <3>1. x # 0
      BY <2>1, Constants DEF Ids
    <3> QED BY <1>2, <2>1, <3>1 DEF ToDevice
  <2>3. /\ broker' = [broker EXCEPT !.pending[x] = [msg |-> n, type |-> "PUBLISH"]]
        /\ \/ UNCHANGED to_device /\ link = "down"
           \/ to_device' = Append(to_device, [type |-> "PUBLISH", id |-> x, msg |-> n])
    BY <1>2, Zenon DEF BrokerSends, Answer
  <2> HIDE DEF x
  <2>4. broker'.pending = [broker.pending EXCEPT ![x] = [msg |-> n, type |-> "PUBLISH"]]
    BY <2>1, <2>3 DEF TypeOK, Session
  <2> QED BY <1>2, <2>1, <2>2, <2>3, <2>4
<1> QED BY <1>1, <1>2

\* A connection starts with every message that is pending, once.
LEMMA ConnectSends ==
    ASSUME TypeOK, Connect
    PROVE  /\ \A k \in 1 .. Len(to_device') : k # 1 =>
                \E i \in Ids : broker.pending[i] # None /\ to_device'[k] = Pending(i)
           /\ \A j, k \in 1 .. Len(to_device') : j # 1 /\ k # 1 =>
                \A i \in Ids : to_device'[j] = Pending(i) /\ to_device'[k] = Pending(i) => j = k
<1> DEFINE n == Cardinality(Ids \ Unused)
           first == <<[type |-> "CONNACK", present |-> broker.present]>>
<1>1. PICK ids \in [1 .. n -> Ids \ Unused] :
        /\ \A a, b \in DOMAIN ids : a < b => ids[a] < ids[b]
        /\ to_device' = first \o [k \in DOMAIN ids |-> Pending(ids[k])]
  BY DEF Connect
<1> DEFINE again == [k \in DOMAIN ids |-> Pending(ids[k])]
<1>2. n \in Nat
  BY UsedCount
<1> DEFINE T == {[type |-> "CONNACK", present |-> broker.present]} \cup {Pending(i) : i \in Ids}
<1>3. /\ again \in Seq(T) /\ Len(again) = n
      /\ \A k \in 1 .. n : again[k] = Pending(ids[k]) /\ ids[k] \in Ids /\ broker.pending[ids[k]] # None
  <2>1. DOMAIN ids = 1 .. n /\ \A k \in 1 .. n : ids[k] \in Ids /\ broker.pending[ids[k]] # None
    BY <1>1 DEF Unused
  <2>2. \A k \in 1 .. n : again[k] = Pending(ids[k]) /\ again[k] \in T
    BY <2>1
  <2>3. again \in Seq(T) /\ Len(again) = n
    <3>1. again \in [1 .. n -> T]
      BY <2>1, <2>2
    <3> HIDE DEF again, n, T
    <3> QED BY <1>2, <3>1
  <2> QED BY <2>1, <2>2, <2>3
<1>4. first \in Seq(T) /\ Len(first) = 1
  OBVIOUS
<1>5. \A j, k \in 1 .. n : j # k => ids[j] # ids[k]
  <2>1. \A i \in Ids : i \in Nat
    BY Constants DEF Ids
  <2>2. DOMAIN ids = 1 .. n
    BY <1>1
  <2> HIDE DEF n
  <2>3. \A j, k \in 1 .. n : j < k => ids[j] < ids[k]
    BY <1>1, <2>2
  <2> SUFFICES ASSUME NEW j \in 1 .. n, NEW k \in 1 .. n, j # k PROVE ids[j] # ids[k]
    OBVIOUS
  <2>4. ids[j] \in Nat /\ ids[k] \in Nat /\ (j < k \/ k < j)
    BY <1>2, <1>3, <2>1
  <2> QED BY <2>3, <2>4
<1>6. \A i, j \in Ids : Pending(i) = Pending(j) => i = j
  BY DEF Pending, Ack
<1> HIDE DEF first, again, T, n
<1>7. /\ Len(first \o again) = 1 + Len(again) /\ Len(again) \in Nat
      /\ \A k \in 1 .. 1 + Len(again) :
            (first \o again)[k] = IF k <= 1 THEN first[k] ELSE again[k - 1]
  <2>1. again \in Seq(T) /\ first \in Seq(T) /\ Len(first) = 1
    BY <1>3, <1>4
  <2> QED BY <2>1, OneBefore
<1>8. to_device' = first \o again
  BY <1>1 DEF again
<1>9. \A k \in 1 .. Len(to_device') : k # 1 => to_device'[k] = again[k - 1] /\ k - 1 \in 1 .. n
  BY <1>2, <1>3, <1>7, <1>8
<1>10. \A j, k \in 1 .. Len(to_device') : j # k => j - 1 # k - 1
  OBVIOUS
<1>11. \A k \in 1 .. Len(to_device') : k # 1 =>
        \E i \in Ids : broker.pending[i] # None /\ to_device'[k] = Pending(i)
  BY <1>3, <1>9
<1>12. ASSUME NEW j \in 1 .. Len(to_device'), NEW k \in 1 .. Len(to_device'), j # 1, k # 1,
              NEW i \in Ids, to_device'[j] = Pending(i), to_device'[k] = Pending(i)
       PROVE  j = k
  <2>1. Pending(ids[j - 1]) = Pending(i) /\ Pending(ids[k - 1]) = Pending(i)
    BY <1>3, <1>9, <1>12
  <2>2. ids[j - 1] = i /\ ids[k - 1] = i
    BY <1>3, <1>6, <1>9, <1>12, <2>1
  <2> QED BY <1>5, <1>9, <1>10, <1>12, <2>2
<1> QED BY <1>11, <1>12

-----------------------------------------------------------------------------
(* Once, whatever Window is.                                               *)

\* A call is handing a message to the application, or has handed it over.
Takes == busy.pc \in {"store", "deliver"}
Taken(n) == received[n] > 0 \/ (Takes /\ busy.msg = n)

\* The ids that are in the cache, or about to be for the message n.
Holds(n) == in_msgs \cup {i \in Ids : busy.pc = "store" /\ busy.id = i /\ busy.msg = n}

Single(n) == InKinds[n] = "qos2" /\ n \notin excused.in
OnceFor(n) ==
    /\ received[n] <= 1 /\ (Takes /\ busy.msg = n => received[n] = 0)
    /\ Taken(n) => Guarded(n, broker.pending, to_device, Holds(n))
Once == \A n \in Incoming : Single(n) => OnceFor(n)

\* A session starts with messages that the device has not seen.
Entering ==
    /\ link = "connecting" => ~Takes
    /\ ~broker.present => \A i \in Ids : broker.pending[i] = None
    /\ Told => \A i \in Ids, n \in Incoming :
        Waits(broker.pending, i, n)
            \/ (\E k \in 1 .. Len(to_device) : IsPublish(to_device[k], i, n))
        => received[n] = 0

Ordered ==
    /\ Numbered(broker.pending, to_device, begun.in)
    /\ \A n \in Incoming : n > begun.in => ~Taken(n)

LEMMA QueueTypes ==
    ASSUME TypeOK
    PROVE  /\ to_device \in Seq(ToDevice) /\ to_broker \in Seq(ToBroker)
           /\ begun.in \in Nat /\ received \in [Incoming -> 0 .. 2]
           /\ broker.pending
                \in [Ids -> [msg : BrokerKeeps, type : {"PUBLISH", "PUBREL"}] \cup {None}]
           /\ in_msgs \subseteq Ids /\ busy \in Calling
           /\ \A n \in Incoming : n \in Nat
BY Constants DEF TypeOK, Session, Incoming

\* A call that has nothing to do with what the broker sends.
LEMMA SendingKeeps ==
    ASSUME TypeOK,
           \/ \E n \in Sent : Begin(n)
           \/ SendIt \/ \E i \in Ids : ResendOut(i) \/ ResendIn(i)
    PROVE  /\ UNCHANGED <<in_msgs, broker, to_device, received, excused, link>>
           /\ begun'.in = begun.in /\ ~Takes /\ ~Takes'
<1>1. ASSUME NEW n \in Sent, Begin(n)
      PROVE  /\ UNCHANGED <<in_msgs, broker, to_device, received, excused, link>>
             /\ begun'.in = begun.in /\ ~Takes /\ ~Takes'
  BY <1>1 DEF Begin, net, history, TypeOK, Takes, Idle
<1> QED BY <1>1 DEF SendIt, ResendOut, ResendIn, Polling, caches, history, Takes, Idle

\* A packet to the device is taken off the queue by a client that is idle.
LEMMA ReceivingKeeps ==
    ASSUME TypeOK, NEW type, Receives(type)
    PROVE  /\ to_device' = Tail(to_device) /\ to_device # <<>> /\ ~Takes
           /\ Head(to_device) = to_device[1] /\ to_device[1] \in ToDevice
           /\ to_device[1].type = type /\ 1 \in 1 .. Len(to_device)
<1>1. to_device \in Seq(ToDevice) /\ to_device # <<>> /\ to_device' = Tail(to_device)
  BY DEF Receives, TypeOK
<1> QED BY <1>1, TailOf DEF Receives, Takes, Idle

\* A PUBLISH is taken, or known already.
LEMMA OnPublishTakes ==
    ASSUME TypeOK, OnPublish, NEW p, p = Head(to_device)
    PROVE  /\ p.msg \in Incoming /\ p.id \in Ids \cup {0} /\ (p.id = 0 <=> InKinds[p.msg] = "qos0")
           /\ \/ /\ InKinds[p.msg] # "qos2"
                 /\ busy' = [pc |-> "deliver", id |-> p.id, msg |-> p.msg]
              \/ InKinds[p.msg] = "qos2" /\ p.id \in in_msgs /\ busy' = Idle
              \/ /\ InKinds[p.msg] = "qos2" /\ p.id \notin in_msgs /\ p.id \in Ids
                 /\ busy' = [pc |-> "store", id |-> p.id, msg |-> p.msg]
<1>1. p \in ToDevice /\ p.type = "PUBLISH"
  BY TailOf DEF TypeOK, OnPublish, Receives
<1>2. p.msg \in Incoming /\ p.id \in Ids \cup {0} /\ (p.id = 0 <=> InKinds[p.msg] = "qos0")
  BY <1>1 DEF ToDevice
<1>3. CASE InKinds[p.msg] = "qos0"
  BY <1>2, <1>3 DEF OnPublish
<1>4. CASE InKinds[p.msg] = "qos1"
  BY <1>2, <1>4 DEF OnPublish
<1>5. CASE InKinds[p.msg] = "qos2"
  BY <1>2, <1>5 DEF OnPublish
<1> QED BY <1>2, <1>3, <1>4, <1>5, KindAssumption

LEMMA DeliverCounts ==
    ASSUME TypeOK, Deliver
    PROVE  /\ busy.msg \in Incoming /\ UNCHANGED <<in_msgs, broker, to_device, excused, begun, link>>
           /\ received'[busy.msg] = IF received[busy.msg] = 2 THEN 2 ELSE received[busy.msg] + 1
           /\ \A n \in Incoming : n # busy.msg => received'[n] = received[n]
           /\ busy' = Idle /\ busy.pc = "deliver"
<1>1. busy.msg \in Incoming
  BY DEF Deliver, TypeOK, Calling, Idle
<1> QED BY <1>1 DEF Deliver, TypeOK, Counted, caches, net

LEMMA OrderedStep == ASSUME TypeOK, Quiet, Ordered, Next PROVE Ordered'
<1>1. /\ to_device \in Seq(ToDevice) /\ begun.in \in Nat /\ received \in [Incoming -> 0 .. 2]
      /\ broker.pending \in [Ids -> [msg : BrokerKeeps, type : {"PUBLISH", "PUBREL"}] \cup {None}]
      /\ \A n \in Incoming : n \in Nat
  BY QueueTypes
<1>2. ASSUME UNCHANGED <<broker, received>>, begun'.in = begun.in,
             UNCHANGED to_device \/ (to_device # <<>> /\ to_device' = Tail(to_device)),
             Takes' => Takes /\ busy'.msg = busy.msg
      PROVE  Ordered'
  <2>1. Numbered(broker.pending, to_device', begun.in)
    BY <1>1, <1>2, TailNumbered DEF Ordered
  <2>2. \A n \in Incoming : Taken(n)' => Taken(n)
    BY <1>2 DEF Taken
  <2> QED BY <1>2, <2>1, <2>2 DEF Ordered
<1>3. CASE (\E n \in Sent : Begin(n)) \/ SendIt \/ \E i \in Ids : ResendOut(i) \/ ResendIn(i)
  BY <1>2, <1>3, SendingKeeps
<1>4. CASE Store
  BY <1>2, <1>4 DEF Store, net, history, Takes, TypeOK, Calling, Idle
<1>5. CASE Deliver
  <2>1. \A n \in Incoming : n > begun.in => ~Taken(n)'
    BY <1>5, DeliverCounts DEF Taken, Takes, Idle, Ordered
  <2> QED BY <1>5, <2>1, DeliverCounts DEF Ordered
<1>6. ASSUME NEW type, Acknowledged(type) PROVE Ordered'
  BY <1>2, <1>6, ReceivingKeeps DEF Acknowledged, history, Takes
<1>7. CASE OnPubrec \/ OnPubrel
  BY <1>2, <1>7, ReceivingKeeps DEF OnPubrec, OnPubrel, history, Takes
<1>8. CASE OnConnack
  <2>1. UNCHANGED <<broker, received, begun, busy>> /\ Receives("CONNACK")
    BY <1>8 DEF OnConnack
  <2> QED BY <1>2, <2>1, ReceivingKeeps DEF Takes
<1>9. CASE OnPublish
  <2> DEFINE p == Head(to_device)
  <2>1. /\ to_device' = Tail(to_device) /\ to_device # <<>> /\ ~Takes /\ p = to_device[1]
        /\ p.type = "PUBLISH" /\ 1 \in 1 .. Len(to_device)
        /\ UNCHANGED <<broker, received, begun>>
    BY <1>9, ReceivingKeeps DEF OnPublish, history
  <2>2. p.msg \in Incoming /\ (Takes' => busy'.msg = p.msg)
    BY <1>9, OnPublishTakes DEF Takes, Idle
  <2>3. ~(p.msg > begun.in)
    BY <2>1, <2>2 DEF Ordered, Numbered
  <2>4. \A n \in Incoming : n > begun.in => ~Taken(n)'
    BY <2>1, <2>2, <2>3 DEF Ordered, Taken
  <2> QED BY <1>1, <2>1, <2>4, TailNumbered DEF Ordered
<1>10. CASE BrokerReceives
  <2>1. UNCHANGED <<received, begun, busy>>
    BY <1>10 DEF BrokerReceives
  <2>2. Numbered(broker'.pending, to_device, begun.in)
    BY <1>1, <1>10, PendingShrinks, FewerNumbered DEF Ordered
  <2>3. Numbered(broker'.pending, to_device', begun.in)
    BY <1>1, <1>10, <2>2, PendingShrinks, AppendNumbered
  <2> QED BY <2>1, <2>3 DEF Ordered, Taken, Takes
<1>11. ASSUME NEW n \in Incoming, BrokerSends(n) PROVE Ordered'
  <2>1. UNCHANGED <<received, busy>> /\ begun.in = n - 1 /\ begun'.in = n
    BY <1>11 DEF BrokerSends, history, TypeOK
  <2>2. PICK x \in Ids \cup {0}, p \in ToDevice :
            /\ p = [type |-> "PUBLISH", id |-> x, msg |-> n]
            /\ to_device' = Append(to_device, p) \/ (UNCHANGED to_device /\ link = "down")
            /\ \/ x = 0 /\ UNCHANGED broker
               \/ /\ x \in Ids /\ broker.pending[x] = None
                  /\ broker'.pending =
                        [broker.pending EXCEPT ![x] = [msg |-> n, type |-> "PUBLISH"]]
    BY <1>11, BrokerSendsCases
  <2>3. p.type = "PUBLISH" /\ p.id = x /\ p.msg = n
    BY <2>2
  <2>4. \A i \in Ids : i # x => broker'.pending[i] = broker.pending[i]
    BY <1>1, <2>2
  <2>5. \A m \in Incoming : x \in Ids /\ Waits(broker'.pending, x, m) => m = n
    <3>1. 0 \notin Ids
      BY Constants DEF Ids
    <3> QED BY <1>1, <2>2, <3>1 DEF Waits
  <2>6. Numbered(broker'.pending, to_device', n)
    <3>1. Numbered(broker.pending, to_device, n - 1)
      BY <2>1 DEF Ordered
    <3>2. \A i \in Ids, m \in Incoming : i # x =>
            /\ Waits(broker'.pending, i, m) <=> Waits(broker.pending, i, m)
            /\ First(broker'.pending, i, m) <=> First(broker.pending, i, m)
      BY <2>4 DEF Waits, First
    <3> QED BY <1>1, <2>2, <2>3, <2>5, <3>1, <3>2, NextNumbered
  <2>7. \A m \in Incoming : m > n => m > n - 1
    BY <1>1
  <2> QED BY <2>1, <2>6, <2>7 DEF Ordered, Taken, Takes
<1>12. CASE Connect
  <2>1. UNCHANGED <<received, busy, begun>> /\ broker'.pending = broker.pending
    BY <1>12 DEF Connect, history, TypeOK, Session
  <2>2. to_device' \in Seq(ToDevice) /\ to_device'[1].type = "CONNACK"
    BY <1>12, ConnectType, ConnectQueue DEF TypeOK
  <2>3. \A k \in 1 .. Len(to_device') : to_device'[k].type \in {"PUBLISH", "PUBREL"} =>
          \E i \in Ids : broker.pending[i] # None /\ to_device'[k] = Pending(i)
    BY <1>12, <2>2, ConnectSends
  <2>4. \A i \in Ids :
          /\ Pending(i).id = i
          /\ Pending(i).type = "PUBLISH" => Pending(i).msg = broker.pending[i].msg
          /\ Pending(i).type = "PUBREL" => broker.pending[i].type = "PUBREL"
    BY DEF Pending, Ack
  <2>5. \A k \in 1 .. Len(to_device') : to_device'[k].type = "PUBLISH" =>
          \E i \in Ids : /\ Waits(broker.pending, i, to_device'[k].msg)
                         /\ to_device'[k].id = i /\ to_device'[k] = Pending(i)
    BY <2>3, <2>4 DEF Waits
  <2>6. \A k \in 1 .. Len(to_device') : to_device'[k].type = "PUBLISH" => to_device'[k].msg \in Incoming
    BY <2>2 DEF ToDevice
  <2>7. \A i \in Ids, k \in 1 .. Len(to_device') :
          IsPubrel(to_device'[k], i) => broker.pending[i].type = "PUBREL"
    BY <2>3, <2>4 DEF IsPubrel
  <2>8. \A j, k \in 1 .. Len(to_device') :
          /\ to_device'[j].type = "PUBLISH" /\ to_device'[k].type = "PUBLISH"
          /\ to_device'[j].msg = to_device'[k].msg
          => j = k
    <3> SUFFICES ASSUME NEW j \in 1 .. Len(to_device'), NEW k \in 1 .. Len(to_device'),
                        to_device'[j].type = "PUBLISH", to_device'[k].type = "PUBLISH",
                        to_device'[j].msg = to_device'[k].msg
                 PROVE  j = k
      OBVIOUS
    <3>1. PICK i \in Ids : Waits(broker.pending, i, to_device'[j].msg) /\ to_device'[j] = Pending(i)
      BY <2>5
    <3>2. PICK h \in Ids : Waits(broker.pending, h, to_device'[k].msg) /\ to_device'[k] = Pending(h)
      BY <2>5
    <3>3. i = h
      BY <2>6, <3>1, <3>2 DEF Ordered, Numbered
    <3> QED BY <1>12, <2>2, <3>1, <3>2, <3>3, ConnectSends
  <2>9. Numbered(broker.pending, to_device', begun.in)
    <3>1. \A n \in Incoming : n > begun.in =>
            \A k \in 1 .. Len(to_device') : to_device'[k].type = "PUBLISH" => to_device'[k].msg # n
      BY <2>5 DEF Ordered, Numbered
    <3>2. \A i, j \in Ids, n \in Incoming, k \in 1 .. Len(to_device') :
            Waits(broker.pending, i, n) /\ IsPublish(to_device'[k], j, n) => i = j
      BY <2>5 DEF Ordered, Numbered, IsPublish
    <3>3. \A i \in Ids, n \in Incoming, j, k \in 1 .. Len(to_device') :
            First(broker.pending, i, n) /\ IsPubrel(to_device'[j], i)
              /\ IsPublish(to_device'[k], i, n) => j < k
      BY <2>7 DEF First
    <3> QED BY <2>8, <3>1, <3>2, <3>3 DEF Ordered, Numbered
  <2> QED BY <2>1, <2>9 DEF Ordered, Taken, Takes
<1>13. CASE Drop \/ Reboot
  <2>1. /\ UNCHANGED <<broker, begun, received>> /\ to_device' = <<>>
        /\ Takes' => Takes /\ busy'.msg = busy.msg
    <3>1. CASE Drop
      BY <3>1 DEF Drop, Cut, history, Takes
    <3>2. CASE Reboot
      BY <3>2 DEF Reboot, Cut, history, Takes, Idle
    <3> QED BY <1>13, <3>1, <3>2
  <2>2. 1 .. Len(to_device') = {}
    BY <2>1
  <2> QED BY <2>1, <2>2 DEF Ordered, Numbered, Taken
<1>14. CASE Forget
  <2>1. /\ UNCHANGED <<begun, received, busy>> /\ to_device = <<>> /\ to_device' = <<>>
        /\ \A i \in Ids : broker'.pending[i] = None
    BY <1>14 DEF Forget, net, NoSession, Quiet
  <2>2. 1 .. Len(to_device') = {}
    BY <2>1
  <2> QED BY <2>1, <2>2 DEF Ordered, Numbered, Taken, Takes, Waits, First
<1> QED BY <1>3, <1>4, <1>5, <1>6, <1>7, <1>8, <1>9, <1>10, <1>11, <1>12, <1>13, <1>14
    DEF Next, Calls, DeviceReceives
LEMMA EnteringStep == ASSUME TypeOK, Quiet, Ordered, Entering, Next PROVE Entering'
<1>1. Quiet'
  BY QuietStep
<1>2. Told' => link' = "connecting"
  <2>1. Told' => 1 \in 1 .. Len(to_device')
    <3>1. to_device' \in Seq(ToDevice)
      BY TypeStep DEF TypeOK
    <3> QED BY <3>1 DEF Told
  <2> QED BY <1>1, <2>1 DEF Quiet, Told
<1>3. ASSUME UNCHANGED <<link, broker, to_device, received>>, ~Takes' \/ UNCHANGED busy
      PROVE  Entering'
  BY <1>3 DEF Entering, Told, Takes
<1>4. ASSUME link # "connecting", link' # "connecting", ~broker'.present => ~broker.present,
             ~broker'.present => UNCHANGED broker
      PROVE  Entering'
  BY <1>2, <1>4 DEF Entering
<1>5. CASE (\E n \in Sent : Begin(n)) \/ SendIt \/ \E i \in Ids : ResendOut(i) \/ ResendIn(i)
  BY <1>3, <1>5, SendingKeeps
<1>6. CASE Store \/ Deliver
  <2>1. Takes /\ UNCHANGED <<link, broker>>
    BY <1>6 DEF Store, Deliver, net, Takes
  <2> QED BY <1>4, <2>1 DEF Entering
<1>7. CASE DeviceReceives
  <2>1. UNCHANGED broker /\ link' = "up"
    BY <1>7 DEF DeviceReceives, Acknowledged, OnPubrec, OnPubrel, OnPublish, OnConnack
  <2> QED BY <1>2, <2>1 DEF Entering
<1>8. CASE BrokerReceives
  <2>1. UNCHANGED link /\ link = "up" /\ broker.present
    BY <1>8 DEF BrokerReceives, Quiet, TypeOK, Session
  <2> QED BY <1>4, <1>8, <2>1, BrokerAnswersOnce
<1>9. ASSUME NEW n \in Incoming, BrokerSends(n) PROVE Entering'
  <2>1. /\ UNCHANGED <<link, busy, received>> /\ broker'.present /\ begun.in = n - 1
    BY <1>9 DEF BrokerSends, net, history, TypeOK, Session
  <2>2. PICK x \in Ids \cup {0}, p \in ToDevice :
            /\ p = [type |-> "PUBLISH", id |-> x, msg |-> n]
            /\ to_device' = Append(to_device, p) \/ (UNCHANGED to_device /\ link = "down")
            /\ \/ x = 0 /\ UNCHANGED broker
               \/ /\ x \in Ids /\ broker.pending[x] = None
                  /\ broker'.pending =
                        [broker.pending EXCEPT ![x] = [msg |-> n, type |-> "PUBLISH"]]
    BY <1>9, BrokerSendsCases
  <2>3. received[n] = 0
    <3>1. n > begun.in
      BY <2>1, QueueTypes
    <3> QED BY <3>1, QueueTypes DEF Ordered, Taken
  <2>4. ASSUME Told' PROVE \A i \in Ids, m \in Incoming :
          Waits(broker'.pending, i, m)
            \/ (\E k \in 1 .. Len(to_device') : IsPublish(to_device'[k], i, m))
          => received[m] = 0
    <3>1. to_device \in Seq(ToDevice) /\ to_device' = Append(to_device, p)
      BY <1>2, <2>1, <2>2, <2>4 DEF TypeOK
    <3>2. /\ Len(to_device') = Len(to_device) + 1 /\ Len(to_device) \in Nat
          /\ to_device'[Len(to_device) + 1] = p
          /\ \A k \in 1 .. Len(to_device) : to_device'[k] = to_device[k]
      BY <3>1, AppendOf
    <3>3. Told
      <4>1. to_device # <<>>
        <5>1. to_device = <<>> => to_device'[1] = p
          BY <3>2
        <5>2. p.type = "PUBLISH"
          BY <2>2
        <5> QED BY <2>4, <5>1, <5>2 DEF Told
      <4>2. 1 \in 1 .. Len(to_device)
        BY <3>1, <4>1
      <4> QED BY <2>4, <3>2, <4>1, <4>2 DEF Told
    <3>4. \A k \in 1 .. Len(to_device') :
            (k \in 1 .. Len(to_device) /\ to_device'[k] = to_device[k]) \/ to_device'[k] = p
      <4>1. \A k \in 1 .. Len(to_device') : k \in 1 .. Len(to_device) \/ k = Len(to_device) + 1
        BY <3>2
      <4> QED BY <3>2, <4>1
    <3>5. \A i \in Ids, m \in Incoming :
            Waits(broker'.pending, i, m) => m = n \/ Waits(broker.pending, i, m)
      <4>1. broker.pending
              \in [Ids -> [msg : BrokerKeeps, type : {"PUBLISH", "PUBREL"}] \cup {None}]
        BY QueueTypes
      <4>2. CASE UNCHANGED broker
        BY <4>2
      <4>3. CASE broker'.pending = [broker.pending EXCEPT ![x] = [msg |-> n, type |-> "PUBLISH"]]
        BY <4>1, <4>3 DEF Waits
      <4> QED BY <2>2, <4>2, <4>3
    <3>6. \A i \in Ids, m \in Incoming, k \in 1 .. Len(to_device') :
            IsPublish(to_device'[k], i, m) =>
                m = n \/ (k \in 1 .. Len(to_device) /\ IsPublish(to_device[k], i, m))
      BY <2>2, <3>4 DEF IsPublish
    <3> QED BY <2>3, <3>3, <3>5, <3>6 DEF Entering
  <2> QED BY <2>1, <2>4 DEF Entering, Takes
<1>10. CASE Connect
  <2>1. /\ busy = Idle /\ UNCHANGED <<busy, received>> /\ broker'.present
        /\ broker'.pending = broker.pending
    BY <1>10 DEF Connect, history, TypeOK, Session
  <2>2. ASSUME Told' PROVE \A i \in Ids, n \in Incoming :
          ~Waits(broker.pending, i, n) /\ \A k \in 1 .. Len(to_device') : ~IsPublish(to_device'[k], i, n)
    <3>1. ~broker.present
      BY <1>10, <2>2, ConnectQueue DEF Told, TypeOK, Session
    <3>2. \A i \in Ids : broker.pending[i] = None
      BY <3>1 DEF Entering
    <3>3. \A k \in 1 .. Len(to_device') : k = 1
      BY <1>10, <3>2, ConnectSends
    <3> QED BY <2>2, <3>2, <3>3 DEF Told, Waits, IsPublish
  <2>3. ~Takes'
    BY <2>1 DEF Takes, Idle
  <2> QED BY <2>1, <2>2, <2>3 DEF Entering
<1>11. CASE Drop \/ Reboot
  <2>1. link' = "down" /\ UNCHANGED broker
    BY <1>11 DEF Drop, Reboot, Cut
  <2> QED BY <1>2, <2>1 DEF Entering
<1>12. CASE Forget
  <2>1. link' = "down" /\ \A i \in Ids : broker'.pending[i] = None
    BY <1>12 DEF Forget, net, NoSession
  <2> QED BY <1>2, <2>1 DEF Entering
<1> QED BY <1>5, <1>6, <1>7, <1>8, <1>9, <1>10, <1>11, <1>12 DEF Next, Calls

LEMMA OnPublishOnce ==
    ASSUME TypeOK, Ordered, OnPublish, NEW n \in Incoming, InKinds[n] = "qos2", OnceFor(n)
    PROVE  OnceFor(n)'
<1> DEFINE p == Head(to_device)
<1>1. /\ to_device' = Tail(to_device) /\ to_device # <<>> /\ ~Takes /\ p = to_device[1]
      /\ p.type = "PUBLISH" /\ 1 \in 1 .. Len(to_device) /\ to_device \in Seq(ToDevice)
      /\ UNCHANGED <<broker, received, begun, in_msgs>>
  BY ReceivingKeeps DEF OnPublish, history, caches, TypeOK
<1>2. Holds(n) = in_msgs
  BY <1>1 DEF Holds, Takes
<1>3. Taken(n) <=> received[n] > 0
  BY <1>1 DEF Taken
<1>4. received[n] \in 0 .. 2
  BY QueueTypes
<1>5. /\ p.msg \in Incoming
      /\ \/ /\ InKinds[p.msg] # "qos2"
            /\ busy' = [pc |-> "deliver", id |-> p.id, msg |-> p.msg]
         \/ InKinds[p.msg] = "qos2" /\ p.id \in in_msgs /\ busy' = Idle
         \/ /\ InKinds[p.msg] = "qos2" /\ p.id \notin in_msgs /\ p.id \in Ids
            /\ busy' = [pc |-> "store", id |-> p.id, msg |-> p.msg]
  BY OnPublishTakes
<1> HIDE DEF p
<1>6. CASE ~(busy'.pc = "store" /\ busy'.msg = n)
  <2>1. ~(Takes' /\ busy'.msg = n)
    BY <1>5, <1>6 DEF Takes, Idle
  <2>2. Holds(n)' = in_msgs
    BY <1>1, <1>6 DEF Holds
  <2>3. Taken(n)' => Taken(n)
    BY <1>1, <2>1 DEF Taken
  <2>4. Taken(n) => Guarded(n, broker.pending, to_device', in_msgs)
    BY <1>1, <1>2, TailGuarded DEF OnceFor
  <2> QED BY <1>1, <2>1, <2>2, <2>3, <2>4 DEF OnceFor
<1>7. CASE busy'.pc = "store" /\ busy'.msg = n
  <2>1. p.msg = n /\ p.id \notin in_msgs /\ p.id \in Ids /\ busy'.id = p.id
    BY <1>5, <1>7 DEF Idle
  <2>2. IsPublish(to_device[1], p.id, n)
    BY <1>1, <2>1 DEF IsPublish
  <2>3. ~Taken(n) /\ received[n] = 0
    <3>1. Taken(n) => p.id \in in_msgs
      BY <1>1, <1>2, <2>1, <2>2 DEF OnceFor, Guarded
    <3> QED BY <1>3, <1>4, <2>1, <3>1
  <2>4. p.id \in Holds(n)'
    BY <1>7, <2>1 DEF Holds
  <2>5. Guarded(n, broker.pending, to_device', Holds(n)')
    <3> DEFINE held == Holds(n)'
               less == Tail(to_device)
    <3>1. /\ Len(less) = Len(to_device) - 1 /\ Len(to_device) \in Nat \ {0}
          /\ \A k \in 1 .. Len(less) : less[k] = to_device[k + 1]
      BY <1>1, TailOf
    <3>2. p.id \in held /\ to_device' = less
      BY <1>1, <2>4
    <3> HIDE DEF held, less
    <3>3. \A k \in 1 .. Len(less) : k + 1 \in 1 .. Len(to_device) /\ k + 1 # 1 /\ ~(k + 1 < 1)
      BY <3>1
    <3>4. \A i \in Ids, k \in 1 .. Len(less) : ~IsPublish(less[k], i, n)
      BY <1>1, <2>2, <3>1, <3>3 DEF Ordered, Numbered, IsPublish
    <3>5. \A i \in Ids : First(broker.pending, i, n) => i = p.id
      BY <1>1, <2>1, <2>2 DEF Ordered, Numbered, First
    <3>6. \A i \in Ids : First(broker.pending, i, n) =>
            \A j \in 1 .. Len(less) : ~IsPubrel(less[j], i)
      <4> SUFFICES ASSUME NEW i \in Ids, First(broker.pending, i, n), NEW j \in 1 .. Len(less),
                          IsPubrel(less[j], i)
                   PROVE  FALSE
        OBVIOUS
      <4>1. j + 1 \in 1 .. Len(to_device) /\ ~(j + 1 < 1) /\ IsPubrel(to_device[j + 1], i)
        BY <3>1, <3>3
      <4>2. IsPublish(to_device[1], i, n)
        BY <2>2, <3>5
      <4> QED BY <1>1, <4>1, <4>2 DEF Ordered, Numbered
    <3>7. Guarded(n, broker.pending, less, held)
      BY <3>2, <3>4, <3>5, <3>6 DEF Guarded
    <3> QED BY <3>2, <3>7 DEF held
  <2> QED BY <1>1, <2>3, <2>5 DEF OnceFor
<1> QED BY <1>6, <1>7

LEMMA OnceForStep ==
    ASSUME TypeOK, Quiet, Synced, Ordered, Entering, Next, Kept', NEW n \in Incoming,
           InKinds[n] = "qos2", OnceFor(n), ~Forget
    PROVE  OnceFor(n)'
<1>1. /\ to_device \in Seq(ToDevice) /\ begun.in \in Nat /\ received \in [Incoming -> 0 .. 2]
      /\ broker.pending \in [Ids -> [msg : BrokerKeeps, type : {"PUBLISH", "PUBREL"}] \cup {None}]
      /\ in_msgs \subseteq Ids /\ n \in Nat
  BY QueueTypes
<1>2. ASSUME UNCHANGED <<in_msgs, broker, received>>, ~Takes, ~Takes',
             UNCHANGED to_device \/ (to_device # <<>> /\ to_device' = Tail(to_device))
      PROVE  OnceFor(n)'
  <2>1. Holds(n) = in_msgs /\ Holds(n)' = in_msgs
    BY <1>2 DEF Holds, Takes
  <2>2. Taken(n)' <=> Taken(n)
    BY <1>2 DEF Taken
  <2>3. Taken(n) => Guarded(n, broker.pending, to_device, in_msgs)
    BY <2>1 DEF OnceFor
  <2>4. Taken(n) => Guarded(n, broker.pending, to_device', in_msgs)
    <3>1. CASE UNCHANGED to_device
      BY <2>3, <3>1
    <3>2. CASE to_device # <<>> /\ to_device' = Tail(to_device)
      BY <1>1, <2>3, <3>2, TailGuarded
    <3> QED BY <1>2, <3>1, <3>2
  <2>5. received'[n] <= 1 /\ UNCHANGED broker
    BY <1>2 DEF OnceFor
  <2> QED BY <1>2, <2>1, <2>2, <2>4, <2>5 DEF OnceFor
<1>3. CASE (\E m \in Sent : Begin(m)) \/ SendIt \/ \E i \in Ids : ResendOut(i) \/ ResendIn(i)
  BY <1>2, <1>3, SendingKeeps
<1>4. CASE Store
  <2>1. /\ UNCHANGED <<broker, received, to_device>> /\ busy.pc = "store" /\ busy'.pc = "deliver"
        /\ busy'.msg = busy.msg /\ in_msgs' = in_msgs \cup {busy.id}
    BY <1>4 DEF Store, net, history, TypeOK, Calling, Idle
  <2>2. Takes /\ Takes' /\ (Taken(n)' <=> Taken(n)) /\ Holds(n) \subseteq Holds(n)'
    BY <2>1 DEF Takes, Taken, Holds
  <2>3. Taken(n)' => Guarded(n, broker.pending, to_device, Holds(n)')
    BY <1>1, <2>2, MoreGuarded DEF OnceFor
  <2> QED BY <2>1, <2>2, <2>3 DEF OnceFor
<1>5. CASE Deliver
  <2>1. /\ UNCHANGED <<in_msgs, broker, to_device>> /\ ~Takes' /\ Takes
        /\ received'[busy.msg] = IF received[busy.msg] = 2 THEN 2 ELSE received[busy.msg] + 1
        /\ \A m \in Incoming : m # busy.msg => received'[m] = received[m]
    BY <1>5, DeliverCounts DEF Takes, Idle
  <2>2. Holds(n)' = in_msgs /\ Holds(n) = in_msgs
    BY <1>5, <2>1, DeliverCounts DEF Holds, Takes
  <2>3. Taken(n)' => Taken(n)
    BY <2>1 DEF Taken
  <2>4. received'[n] <= 1
    BY <1>1, <2>1 DEF OnceFor
  <2> QED BY <2>1, <2>2, <2>3, <2>4 DEF OnceFor
<1>6. ASSUME NEW type, Acknowledged(type) PROVE OnceFor(n)'
  BY <1>2, <1>6, ReceivingKeeps DEF Acknowledged, history, Takes
<1>7. CASE OnPubrec
  BY <1>2, <1>7, ReceivingKeeps DEF OnPubrec, history, Takes, caches
<1>8. CASE OnPubrel
  <2> DEFINE x == Head(to_device).id
  <2>1. /\ to_device' = Tail(to_device) /\ to_device # <<>> /\ ~Takes /\ ~Takes'
        /\ IsPubrel(Head(to_device), x) /\ in_msgs' = in_msgs \ {x}
        /\ UNCHANGED <<broker, received>>
    BY <1>8, ReceivingKeeps DEF OnPubrel, history, Takes, IsPubrel
  <2> HIDE DEF x
  <2>2. Holds(n) = in_msgs /\ Holds(n)' = in_msgs \ {x} /\ (Taken(n)' <=> Taken(n))
    BY <2>1 DEF Holds, Takes, Taken
  <2>3. Taken(n) => Guarded(n, broker.pending, to_device', in_msgs \ {x})
    BY <1>1, <2>1, <2>2, TailGuarded DEF OnceFor
  <2> QED BY <2>1, <2>2, <2>3 DEF OnceFor
<1>9. CASE OnConnack
  <2>1. /\ to_device' = Tail(to_device) /\ to_device # <<>> /\ ~Takes /\ ~Takes'
        /\ UNCHANGED <<broker, received>> /\ to_device[1].type = "CONNACK"
        /\ to_device[1] \in ToDevice /\ Head(to_device) = to_device[1]
    BY <1>9, ReceivingKeeps DEF OnConnack, Takes
  <2>2. CASE Head(to_device).present
    BY <1>2, <1>9, <2>1, <2>2 DEF OnConnack, caches
  <2>3. CASE ~Head(to_device).present
    <3>1. Told
      BY <2>1, <2>3 DEF Told, ToDevice
    <3>2. Taken(n)' => received[n] > 0
      BY <2>1 DEF Taken
    <3>3. received[n] > 0 => \A i \in Ids :
            ~Waits(broker.pending, i, n) /\ \A k \in 1 .. Len(to_device) : ~IsPublish(to_device[k], i, n)
      BY <1>1, <3>1 DEF Entering
    <3>4. \A k \in 1 .. Len(to_device') : to_device'[k] = to_device[k + 1] /\ k + 1 \in 1 .. Len(to_device)
      BY <1>1, <2>1, TailOf
    <3>5. received[n] > 0 => Guarded(n, broker.pending, to_device', Holds(n)')
      BY <3>3, <3>4 DEF Guarded, First
    <3> QED BY <2>1, <3>2, <3>5 DEF OnceFor
  <2> QED BY <2>2, <2>3
<1>10. CASE BrokerReceives
  <2>1. UNCHANGED <<in_msgs, received, busy>>
    BY <1>10 DEF BrokerReceives, caches
  <2>2. Holds(n)' = Holds(n) /\ (Taken(n)' <=> Taken(n)) /\ (Takes' <=> Takes)
    BY <2>1 DEF Holds, Taken, Takes
  <2>3. Taken(n) => Guarded(n, broker'.pending, to_device, Holds(n))
    BY <1>1, <1>10, PendingShrinks, MoreGuarded DEF OnceFor
  <2>4. Taken(n) => Guarded(n, broker'.pending, to_device', Holds(n))
    BY <1>1, <1>10, <2>3, PendingShrinks, AppendGuarded DEF IsPublish
  <2> QED BY <2>1, <2>2, <2>4 DEF OnceFor
<1>11. ASSUME NEW m \in Incoming, BrokerSends(m) PROVE OnceFor(n)'
  <2>1. UNCHANGED <<in_msgs, received, busy>> /\ begun.in = m - 1
    BY <1>11 DEF BrokerSends, caches, history
  <2>2. Holds(n)' = Holds(n) /\ (Taken(n)' <=> Taken(n)) /\ (Takes' <=> Takes)
    BY <2>1 DEF Holds, Taken, Takes
  <2>3. CASE n = m
    <3>1. n > begun.in
      BY <1>1, <2>1, <2>3
    <3> QED BY <2>1, <2>2, <3>1 DEF Ordered, OnceFor
  <2>4. CASE n # m
    <3>1. PICK x \in Ids \cup {0}, p \in ToDevice :
            /\ p = [type |-> "PUBLISH", id |-> x, msg |-> m]
            /\ to_device' = Append(to_device, p) \/ (UNCHANGED to_device /\ link = "down")
            /\ \/ x = 0 /\ UNCHANGED broker
               \/ /\ x \in Ids /\ broker.pending[x] = None
                  /\ broker'.pending =
                        [broker.pending EXCEPT ![x] = [msg |-> m, type |-> "PUBLISH"]]
      BY <1>11, BrokerSendsCases
    <3>2. \A i \in Ids : First(broker'.pending, i, n) => First(broker.pending, i, n)
      BY <1>1, <2>4, <3>1 DEF First, Waits
    <3>3. Taken(n) => Guarded(n, broker'.pending, to_device, Holds(n))
      BY <1>1, <3>2, MoreGuarded DEF OnceFor
    <3>4. \A i \in Ids : ~IsPublish(p, i, n) /\ ~IsPubrel(p, i)
      BY <2>4, <3>1 DEF IsPublish, IsPubrel
    <3>5. Taken(n) => Guarded(n, broker'.pending, to_device', Holds(n))
      <4>1. Taken(n) => Guarded(n, broker'.pending, Append(to_device, p), Holds(n))
        BY <1>1, <3>3, <3>4, AppendGuarded
      <4> QED BY <3>1, <3>3, <4>1
    <3> QED BY <2>1, <2>2, <3>5 DEF OnceFor
  <2> QED BY <2>3, <2>4
<1>12. CASE Connect
  <2>1. UNCHANGED <<in_msgs, received, busy>> /\ broker'.pending = broker.pending
    BY <1>12 DEF Connect, caches, history, TypeOK, Session
  <2>2. Holds(n)' = Holds(n) /\ (Taken(n)' <=> Taken(n)) /\ (Takes' <=> Takes)
    BY <2>1 DEF Holds, Taken, Takes
  <2>3. \A k \in 1 .. Len(to_device') : to_device'[k].type \in {"PUBLISH", "PUBREL"} =>
          \E i \in Ids : broker.pending[i] # None /\ to_device'[k] = Pending(i)
    BY <1>12, ConnectQueue, ConnectSends
  <2>4. \A i \in Ids :
          /\ Pending(i).id = i
          /\ Pending(i).type = "PUBLISH" =>
                Pending(i).msg = broker.pending[i].msg /\ broker.pending[i].type # "PUBREL"
          /\ Pending(i).type = "PUBREL" => broker.pending[i].type = "PUBREL"
    BY DEF Pending, Ack
  <2>5. \A i \in Ids, k \in 1 .. Len(to_device') :
          /\ IsPublish(to_device'[k], i, n) => First(broker.pending, i, n)
          /\ IsPubrel(to_device'[k], i) => ~First(broker.pending, i, n)
    <3> SUFFICES ASSUME NEW i \in Ids, NEW k \in 1 .. Len(to_device')
                 PROVE  /\ IsPublish(to_device'[k], i, n) => First(broker.pending, i, n)
                        /\ IsPubrel(to_device'[k], i) => ~First(broker.pending, i, n)
      OBVIOUS
    <3>1. CASE to_device'[k].type \in {"PUBLISH", "PUBREL"} /\ to_device'[k].id = i
      <4>1. broker.pending[i] # None /\ to_device'[k] = Pending(i)
        BY <2>3, <2>4, <3>1
      <4>2. broker.pending[i] \in [msg : BrokerKeeps, type : {"PUBLISH", "PUBREL"}]
        BY <1>1, <4>1
      <4> QED BY <2>4, <4>1, <4>2 DEF IsPublish, IsPubrel, First, Waits
    <3>2. CASE ~(to_device'[k].type \in {"PUBLISH", "PUBREL"} /\ to_device'[k].id = i)
      BY <3>2 DEF IsPublish, IsPubrel
    <3> QED BY <3>1, <3>2
  <2>6. Taken(n) => Guarded(n, broker.pending, to_device', Holds(n))
    BY <2>5 DEF OnceFor, Guarded
  <2> QED BY <2>1, <2>2, <2>6 DEF OnceFor
<1>13. CASE Drop \/ Reboot
  <2>1. UNCHANGED <<broker, received>> /\ to_device' = <<>>
    BY <1>13 DEF Drop, Reboot, Cut, history
  <2>2. 1 .. Len(to_device') = {}
    BY <2>1
  <2>3. CASE Drop
    <3>1. UNCHANGED <<in_msgs, busy>>
      BY <2>3 DEF Drop, caches
    <3>2. Holds(n)' = Holds(n) /\ (Taken(n)' <=> Taken(n)) /\ (Takes' <=> Takes)
      BY <2>1, <3>1 DEF Holds, Taken, Takes
    <3>3. Taken(n) => Guarded(n, broker.pending, to_device', Holds(n))
      BY <2>2 DEF OnceFor, Guarded
    <3> QED BY <2>1, <3>1, <3>2, <3>3 DEF OnceFor
  <2>4. CASE Reboot
    <3>1. faults.kv = 0
      BY <2>4, StrikeType DEF Reboot, Kept, TypeOK, Strikes, Bounds
    <3>2. in_msgs' = in_msgs /\ ~Takes'
      BY <2>4, <3>1 DEF Reboot, Synced, Takes, Idle
    <3>3. Taken(n)' => received[n] > 0
      BY <2>1, <3>2 DEF Taken
    <3>4. received[n] > 0 => Holds(n) = in_msgs
      BY <1>1 DEF OnceFor, Holds, Takes
    <3>5. received[n] > 0 => Guarded(n, broker.pending, to_device', in_msgs)
      BY <2>2, <3>4 DEF OnceFor, Guarded, Taken
    <3>6. Holds(n)' = in_msgs
      BY <3>2 DEF Holds, Takes
    <3> QED BY <2>1, <3>2, <3>3, <3>5, <3>6 DEF OnceFor
  <2> QED BY <1>13, <2>3, <2>4
<1> QED BY <1>3, <1>4, <1>5, <1>6, <1>7, <1>8, <1>9, <1>10, <1>11, <1>12, <1>13, OnPublishOnce
    DEF Next, Calls, DeviceReceives

LEMMA OnceStep ==
    ASSUME TypeOK, Quiet, Synced, Ordered, Entering, Once, Next, Kept' PROVE Once'
<1> SUFFICES ASSUME NEW n \in Incoming, Single(n)' PROVE OnceFor(n)'
  BY DEF Once
<1>1. CASE Forget
  <2>1. n \in Nat /\ begun.in \in Nat /\ received[n] \in 0 .. 2
    BY QueueTypes
  <2>2. /\ UNCHANGED <<received, busy>> /\ n \notin 1 .. begun.in /\ n > 0
    BY <1>1 DEF Forget, Single, Incoming
  <2>3. ~Taken(n)
    BY <2>1, <2>2 DEF Ordered
  <2> QED BY <2>1, <2>2, <2>3 DEF OnceFor, Taken, Takes
<1>2. CASE ~Forget
  <2>1. excused'.in = excused.in
    <3>1. CASE OnConnack
      BY <3>1 DEF OnConnack, TypeOK
    <3>2. ASSUME NEW m \in Sent, Begin(m) PROVE UNCHANGED excused
      BY <3>2 DEF Begin, history
    <3>3. ASSUME NEW i \in Ids, ResendOut(i) \/ ResendIn(i) PROVE UNCHANGED excused
      BY <3>3 DEF ResendOut, ResendIn, history
    <3>4. CASE Calls
      BY <3>4 DEF Calls, SendIt, Store, Deliver, history
    <3>5. CASE DeviceReceives /\ ~OnConnack
      BY <3>5 DEF DeviceReceives, Acknowledged, OnPubrec, OnPubrel, OnPublish, history
    <3>6. CASE BrokerReceives \/ (\E m \in Incoming : BrokerSends(m)) \/ Connect \/ Drop \/ Reboot
      BY <3>6 DEF BrokerReceives, BrokerSends, Connect, Drop, Reboot, history
    <3> QED BY <1>2, <3>1, <3>2, <3>3, <3>4, <3>5, <3>6 DEF Next
  <2> QED BY <1>2, <2>1, OnceForStep DEF Once, Single
<1> QED BY <1>1, <1>2

OnceInv == TypeOK /\ Quiet /\ Synced /\ Ordered /\ Entering /\ (Kept => Once)

\* A message of QoS 2 reaches the application at most once, however often it is sent,
\* for any messages and ids, and whatever of connections, power and sessions is lost:
\* its id stays in the cache, on flash too, until the broker does not send it any more.
THEOREM NeverTwice == Spec => []ReceivedOnce
<1>1. Init => OnceInv
  <2> SUFFICES ASSUME Init PROVE OnceInv
    OBVIOUS
  <2>1. TypeOK /\ Quiet /\ Synced
    BY InitInv DEF IInv
  <2>2. /\ to_device = <<>> /\ ~Takes /\ link = "down"
        /\ (\A n \in Incoming : received[n] = 0) /\ (\A i \in Ids : broker.pending[i] = None)
    BY DEF Init, Takes, Idle, NoSession
  <2>3. 1 .. Len(to_device) = {}
    BY <2>2
  <2>4. \A n \in Incoming : ~Taken(n)
    BY <2>2 DEF Taken
  <2>5. Ordered
    BY <2>2, <2>3, <2>4 DEF Ordered, Numbered, Waits, First
  <2>6. Entering
    BY <2>2, <2>3 DEF Entering, Waits
  <2>7. Once
    BY <2>2, <2>4 DEF Once, OnceFor
  <2> QED BY <2>1, <2>5, <2>6, <2>7 DEF OnceInv
<1>2. OnceInv /\ [Next]_vars => OnceInv'
  <2> SUFFICES ASSUME OnceInv, [Next]_vars PROVE OnceInv'
    OBVIOUS
  <2>1. CASE UNCHANGED vars
    <3>1. TypeOK' /\ Quiet' /\ Synced'
      BY <2>1 DEF vars, caches, net, history, OnceInv, TypeOK, Quiet, Synced
    <3>2. Ordered' /\ Entering' /\ (Kept => Once)'
      BY <2>1 DEF vars, caches, net, history, OnceInv, Ordered, Entering, Told, Taken, Takes, Kept,
         Once, OnceFor, Single, Holds
    <3> QED BY <3>1, <3>2 DEF OnceInv
  <2>2. CASE Next
    <3>1. Kept' => Kept
      BY <2>2, FaultsGrow DEF Kept, OnceInv
    <3> QED BY <2>2, <3>1, TypeStep, QuietStep, SyncedStep, OrderedStep, EnteringStep, OnceStep
        DEF OnceInv
  <2> QED BY <2>1, <2>2
<1>3. OnceInv => ReceivedOnce
  BY DEF OnceInv, ReceivedOnce, Once, OnceFor, Single
<1> QED BY <1>1, <1>2, <1>3, PTL DEF Spec

-----------------------------------------------------------------------------
(* Nothing acknowledged is lost.  The acknowledgement of a message of the  *)
(* broker, or the PUBLISH or PUBREL that asks for it, is about what the     *)
(* broker has pending under its id; with Window = 1 there is one of them   *)
(* under way at most for each id.                                          *)

Gets(p) == p.type \in {"PUBLISH", "PUBREL"} /\ p.id # 0
Replies(p) == p.type \in {"PUBACK", "PUBREC", "PUBCOMP"}

\* The message pending under the id has been taken by the device.
Accepted(pend, got, i, kind) ==
    pend[i] # None /\ pend[i].msg \in got /\ InKinds[pend[i].msg] = kind

ReplyOwned(pend, got, ins, p) ==
    /\ p.type = "PUBACK" => Accepted(pend, got, p.id, "qos1")
    /\ p.type # "PUBACK" => Accepted(pend, got, p.id, "qos2")
    /\ p.type = "PUBCOMP" => p.id \notin ins
GetOwned(pend, got, p) ==
    /\ p.type = "PUBREL" => Accepted(pend, got, p.id, "qos2")
    /\ p.type = "PUBLISH" => Waits(pend, p.id, p.msg)

\* Nothing under way is about the incoming id.
Settled(i, up, down) ==
    /\ \A k \in 1 .. Len(up) : Replies(up[k]) => up[k].id # i
    /\ \A k \in 1 .. Len(down) : Gets(down[k]) => down[k].id # i

Tidy(pend, got, ins, up, down) ==
    /\ \A k \in 1 .. Len(up) : Replies(up[k]) => ReplyOwned(pend, got, ins, up[k])
    /\ \A k \in 1 .. Len(down) : Gets(down[k]) => GetOwned(pend, got, down[k])
    /\ \A j, k \in 1 .. Len(up) :
        j # k /\ Replies(up[j]) /\ Replies(up[k]) => up[j].id # up[k].id
    /\ \A j, k \in 1 .. Len(down) :
        j # k /\ Gets(down[j]) /\ Gets(down[k]) => down[j].id # down[k].id
    /\ \A j \in 1 .. Len(up), k \in 1 .. Len(down) :
        Replies(up[j]) /\ Gets(down[k]) => up[j].id # down[k].id

LEMMA AppendReply ==
    ASSUME NEW pend, NEW got, NEW ins, NEW up \in Seq(ToBroker), NEW down \in Seq(ToDevice),
           NEW p \in ToBroker, Tidy(pend, got, ins, up, down),
           Replies(p) => ReplyOwned(pend, got, ins, p) /\ Settled(p.id, up, down)
    PROVE  Tidy(pend, got, ins, Append(up, p), down)
<1> DEFINE more == Append(up, p)
<1>1. /\ Len(more) = Len(up) + 1 /\ Len(up) \in Nat
      /\ more[Len(up) + 1] = p /\ \A k \in 1 .. Len(up) : more[k] = up[k]
  BY AppendOf
<1> HIDE DEF more
<1>2. \A k \in 1 .. Len(more) : k \in 1 .. Len(up) \/ k = Len(up) + 1
  BY <1>1
<1>3. \A k \in 1 .. Len(more) : Replies(more[k]) => ReplyOwned(pend, got, ins, more[k])
  BY <1>1, <1>2 DEF Tidy
<1>4. \A j, k \in 1 .. Len(more) :
        j # k /\ Replies(more[j]) /\ Replies(more[k]) => more[j].id # more[k].id
  BY <1>1, <1>2 DEF Tidy, Settled
<1>5. \A j \in 1 .. Len(more), k \in 1 .. Len(down) :
        Replies(more[j]) /\ Gets(down[k]) => more[j].id # down[k].id
  BY <1>1, <1>2 DEF Tidy, Settled
<1> QED BY <1>3, <1>4, <1>5 DEF Tidy, more

LEMMA AppendGet ==
    ASSUME NEW pend, NEW got, NEW ins, NEW up \in Seq(ToBroker), NEW down \in Seq(ToDevice),
           NEW p \in ToDevice, Tidy(pend, got, ins, up, down),
           Gets(p) => GetOwned(pend, got, p) /\ Settled(p.id, up, down)
    PROVE  Tidy(pend, got, ins, up, Append(down, p))
<1> DEFINE more == Append(down, p)
<1>1. /\ Len(more) = Len(down) + 1 /\ Len(down) \in Nat
      /\ more[Len(down) + 1] = p /\ \A k \in 1 .. Len(down) : more[k] = down[k]
  BY AppendOf
<1> HIDE DEF more
<1>2. \A k \in 1 .. Len(more) : k \in 1 .. Len(down) \/ k = Len(down) + 1
  BY <1>1
<1>3. \A k \in 1 .. Len(more) : Gets(more[k]) => GetOwned(pend, got, more[k])
  BY <1>1, <1>2 DEF Tidy
<1>4. \A j, k \in 1 .. Len(more) :
        j # k /\ Gets(more[j]) /\ Gets(more[k]) => more[j].id # more[k].id
  BY <1>1, <1>2 DEF Tidy, Settled
<1>5. \A j \in 1 .. Len(up), k \in 1 .. Len(more) :
        Replies(up[j]) /\ Gets(more[k]) => up[j].id # more[k].id
  BY <1>1, <1>2 DEF Tidy, Settled
<1> QED BY <1>3, <1>4, <1>5 DEF Tidy, more

LEMMA TailReply ==
    ASSUME NEW pend, NEW got, NEW ins, NEW up \in Seq(ToBroker), NEW down \in Seq(ToDevice),
           Tidy(pend, got, ins, up, down), up # <<>>
    PROVE  /\ Tidy(pend, got, ins, Tail(up), down)
           /\ Replies(Head(up)) =>
                ReplyOwned(pend, got, ins, Head(up)) /\ Settled(Head(up).id, Tail(up), down)
<1> DEFINE less == Tail(up)
<1>1. /\ Len(less) = Len(up) - 1 /\ Len(up) \in Nat \ {0}
      /\ Head(up) = up[1] /\ \A k \in 1 .. Len(less) : less[k] = up[k + 1]
  BY TailOf
<1> HIDE DEF less
<1>2. /\ 1 \in 1 .. Len(up)
      /\ \A k \in 1 .. Len(less) : k + 1 \in 1 .. Len(up) /\ k + 1 # 1
      /\ \A j, k \in 1 .. Len(less) : j # k => j + 1 # k + 1
  BY <1>1
<1>3. \A k \in 1 .. Len(less) : Replies(less[k]) => ReplyOwned(pend, got, ins, less[k])
  BY <1>1, <1>2 DEF Tidy
<1>4. \A j, k \in 1 .. Len(less) :
        j # k /\ Replies(less[j]) /\ Replies(less[k]) => less[j].id # less[k].id
  BY <1>1, <1>2 DEF Tidy
<1>5. \A j \in 1 .. Len(less), k \in 1 .. Len(down) :
        Replies(less[j]) /\ Gets(down[k]) => less[j].id # down[k].id
  BY <1>1, <1>2 DEF Tidy
<1>6. Replies(Head(up)) =>
        ReplyOwned(pend, got, ins, Head(up)) /\ Settled(Head(up).id, less, down)
  BY <1>1, <1>2 DEF Tidy, Settled
<1> QED BY <1>3, <1>4, <1>5, <1>6 DEF Tidy, less

LEMMA TailGet ==
    ASSUME NEW pend, NEW got, NEW ins, NEW up \in Seq(ToBroker), NEW down \in Seq(ToDevice),
           Tidy(pend, got, ins, up, down), down # <<>>
    PROVE  /\ Tidy(pend, got, ins, up, Tail(down))
           /\ Gets(Head(down)) =>
                GetOwned(pend, got, Head(down)) /\ Settled(Head(down).id, up, Tail(down))
<1> DEFINE less == Tail(down)
<1>1. /\ Len(less) = Len(down) - 1 /\ Len(down) \in Nat \ {0}
      /\ Head(down) = down[1] /\ \A k \in 1 .. Len(less) : less[k] = down[k + 1]
  BY TailOf
<1> HIDE DEF less
<1>2. /\ 1 \in 1 .. Len(down)
      /\ \A k \in 1 .. Len(less) : k + 1 \in 1 .. Len(down) /\ k + 1 # 1
      /\ \A j, k \in 1 .. Len(less) : j # k => j + 1 # k + 1
  BY <1>1
<1>3. \A k \in 1 .. Len(less) : Gets(less[k]) => GetOwned(pend, got, less[k])
  BY <1>1, <1>2 DEF Tidy
<1>4. \A j, k \in 1 .. Len(less) :
        j # k /\ Gets(less[j]) /\ Gets(less[k]) => less[j].id # less[k].id
  BY <1>1, <1>2 DEF Tidy
<1>5. \A j \in 1 .. Len(up), k \in 1 .. Len(less) :
        Replies(up[j]) /\ Gets(less[k]) => up[j].id # less[k].id
  BY <1>1, <1>2 DEF Tidy
<1>6. Gets(Head(down)) =>
        GetOwned(pend, got, Head(down)) /\ Settled(Head(down).id, up, less)
  BY <1>1, <1>2 DEF Tidy, Settled
<1> QED BY <1>3, <1>4, <1>5, <1>6 DEF Tidy, less

\* An id that nothing under way is about may be acknowledged or given away.
LEMMA Settle ==
    ASSUME NEW pend, NEW got, NEW ins, NEW up \in Seq(ToBroker), NEW down \in Seq(ToDevice),
           NEW pend2, NEW got2, NEW ins2, NEW x,
           got \subseteq got2,
           \A i \in Ids : i # x => pend2[i] = pend[i] /\ (i \in ins2 => i \in ins),
           Tidy(pend, got, ins, up, down), Settled(x, up, down)
    PROVE  Tidy(pend2, got2, ins2, up, down)
<1>1. \A i \in Ids : \A kind : i # x /\ Accepted(pend, got, i, kind) => Accepted(pend2, got2, i, kind)
  BY DEF Accepted
<1>2. ASSUME NEW k \in 1 .. Len(up), Replies(up[k]) PROVE ReplyOwned(pend2, got2, ins2, up[k])
  <2>1. up[k] \in ToBroker
    OBVIOUS
  <2>2. up[k].id \in Ids /\ up[k].id # x
    BY <1>2, <2>1 DEF ToBroker, Replies, Settled
  <2>3. ReplyOwned(pend, got, ins, up[k])
    BY <1>2 DEF Tidy
  <2> QED BY <1>1, <2>2, <2>3 DEF ReplyOwned
<1>3. ASSUME NEW k \in 1 .. Len(down), Gets(down[k]) PROVE GetOwned(pend2, got2, down[k])
  <2>1. down[k] \in ToDevice
    OBVIOUS
  <2>2. down[k].id \in Ids /\ down[k].id # x
    BY <1>3, <2>1 DEF ToDevice, Gets, Settled
  <2>3. GetOwned(pend, got, down[k])
    BY <1>3 DEF Tidy
  <2> QED BY <1>1, <2>2, <2>3 DEF GetOwned, Waits
<1> QED BY <1>2, <1>3 DEF Tidy

\* An acknowledgement goes to the broker, or is lost.
LEMMA SendReply ==
    ASSUME TypeOK, NEW p \in ToBroker, Send(p),
           NEW pend, NEW got, NEW ins, NEW down \in Seq(ToDevice),
           Tidy(pend, got, ins, to_broker, down),
           Replies(p) => ReplyOwned(pend, got, ins, p) /\ Settled(p.id, to_broker, down)
    PROVE  Tidy(pend, got, ins, to_broker', down)
<1>1. to_broker \in Seq(ToBroker)
  BY DEF TypeOK
<1>2. to_broker' = to_broker \/ to_broker' = Append(to_broker, p)
  BY DEF Send
<1> QED BY <1>1, <1>2, AppendReply

\* The messages the device has taken, and the ids it keeps or is about to.
Gotten == {n \in Incoming : Taken(n)}
Keeping == in_msgs \cup {i \in Ids : busy.pc = "store" /\ busy.id = i}

Sound(pend, got, ins, last) ==
    /\ \A i \in Ids : pend[i] # None /\ pend[i].type = "PUBREL" => Accepted(pend, got, i, "qos2")
    /\ \A i \in ins : Accepted(pend, got, i, "qos2")
    /\ \A n \in Incoming : n <= last /\ InKinds[n] # "qos0" =>
        n \in got \/ \E i \in Ids : Waits(pend, i, n)
Done ==
    /\ Tidy(broker.pending, Gotten, Keeping, to_broker, to_device)
    /\ Sound(broker.pending, Gotten, Keeping, begun.in)

\* A step of the device: more is taken, and an id is kept for what was taken.
LEMMA SoundMore ==
    ASSUME NEW pend, NEW got, NEW ins, NEW last, Sound(pend, got, ins, last),
           NEW got2, NEW ins2, got \subseteq got2,
           \A i \in ins2 : i \in ins \/ Accepted(pend, got2, i, "qos2")
    PROVE  Sound(pend, got2, ins2, last)
<1>1. \A i, kind : Accepted(pend, got, i, kind) => Accepted(pend, got2, i, kind)
  BY DEF Accepted
<1> QED BY <1>1 DEF Sound

\* A step that neither takes nor acknowledges.
LEMMA SameHands ==
    ASSUME UNCHANGED <<in_msgs, received>>, (~Takes /\ ~Takes') \/ UNCHANGED busy
    PROVE  Gotten' = Gotten /\ Keeping' = Keeping
BY DEF Gotten, Keeping, Taken, Takes

LEMMA SendingDone ==
    ASSUME Window = 1, TypeOK, Done,
           \/ \E n \in Sent : Begin(n)
           \/ SendIt \/ \E i \in Ids : ResendOut(i) \/ ResendIn(i)
    PROVE  Done'
<1>1. /\ UNCHANGED <<in_msgs, broker, to_device, received, excused, link>>
      /\ begun'.in = begun.in /\ ~Takes /\ ~Takes'
  BY SendingKeeps
<1>2. Gotten' = Gotten /\ Keeping' = Keeping
  BY <1>1, SameHands
<1>3. to_broker \in Seq(ToBroker) /\ to_device \in Seq(ToDevice)
  BY QueueTypes
<1> DEFINE f(up) == Tidy(broker.pending, Gotten, Keeping, up, to_device)
<1>4. f(to_broker)
  BY DEF Done
<1>5. f(to_broker')
  <2>1. ASSUME NEW n \in Sent, Begin(n) PROVE f(to_broker')
    BY <1>4, <2>1 DEF Begin, net
  <2>2. CASE SendIt
    <3>1. busy.packet \in ToBroker /\ ~Replies(busy.packet)
      BY <2>2 DEF SendIt, TypeOK, Calling, Idle, Replies
    <3> QED BY <1>3, <1>4, <2>2, <3>1, SendReply DEF SendIt
  <2>3. ASSUME NEW i \in Ids, ResendOut(i) PROVE f(to_broker')
    <3>1. /\ PacketOf(out_msgs[i], i) \in ToBroker
          /\ PacketOf(out_msgs[i], i).type \in {"PUBLISH", "SUBSCRIBE"}
      BY <2>3, MessagePacket DEF ResendOut, TypeOK
    <3>2. ~Replies(PacketOf(out_msgs[i], i))
      BY <3>1 DEF Replies
    <3> QED BY <1>3, <1>4, <2>3, <3>1, <3>2, SendReply DEF ResendOut
  <2>4. ASSUME NEW i \in Ids, ResendIn(i) PROVE f(to_broker')
    <3>1. 1 .. Len(to_broker) = {} /\ 1 .. Len(to_device) = {}
      <4>1. Len(to_broker) + Len(to_device) < 1
        BY <2>4 DEF ResendIn, Polling
      <4>2. Len(to_broker) \in Nat /\ Len(to_device) \in Nat
        BY <1>3
      <4> QED BY <4>1, <4>2
    <3>2. Ack("PUBREC", i) \in ToBroker /\ Ack("PUBREC", i).type = "PUBREC"
          /\ Ack("PUBREC", i).id = i
      BY AckType DEF Ack
    <3>3. Accepted(broker.pending, Gotten, i, "qos2")
      BY <2>4 DEF ResendIn, Done, Sound, Keeping
    <3>4. ReplyOwned(broker.pending, Gotten, Keeping, Ack("PUBREC", i))
      BY <3>2, <3>3 DEF ReplyOwned
    <3>5. Settled(i, to_broker, to_device)
      BY <3>1 DEF Settled
    <3> QED BY <1>3, <1>4, <2>4, <3>2, <3>4, <3>5, SendReply DEF ResendIn
  <2> QED BY <2>1, <2>2, <2>3, <2>4
<1> QED BY <1>1, <1>2, <1>5 DEF Done

\* Taking a PUBLISH acknowledges it.
LEMMA OnPublishDone == ASSUME TypeOK, Done, OnPublish PROVE Done'
<1> DEFINE p == Head(to_device)
           x == p.id
           n == p.msg
<1>1. /\ to_device' = Tail(to_device) /\ to_device # <<>> /\ ~Takes /\ p \in ToDevice
      /\ p.type = "PUBLISH" /\ to_device \in Seq(ToDevice) /\ to_broker \in Seq(ToBroker)
      /\ UNCHANGED <<broker, received, begun, in_msgs>>
  BY ReceivingKeeps DEF OnPublish, history, caches, TypeOK
<1>2. /\ n \in Incoming /\ x \in Ids \cup {0} /\ (x = 0 <=> InKinds[n] = "qos0")
      /\ \/ /\ InKinds[n] # "qos2"
            /\ busy' = [pc |-> "deliver", id |-> x, msg |-> n]
         \/ InKinds[n] = "qos2" /\ x \in in_msgs /\ busy' = Idle
         \/ /\ InKinds[n] = "qos2" /\ x \notin in_msgs /\ x \in Ids
            /\ busy' = [pc |-> "store", id |-> x, msg |-> n]
  BY OnPublishTakes
<1>3. \/ UNCHANGED to_broker
      \/ InKinds[n] = "qos1" /\ Send(Ack("PUBACK", x))
      \/ InKinds[n] = "qos2" /\ Send(Ack("PUBREC", x))
  <2>1. CASE InKinds[n] = "qos0"
    BY <2>1 DEF OnPublish
  <2>2. CASE InKinds[n] = "qos1"
    BY <2>2 DEF OnPublish
  <2>3. CASE InKinds[n] = "qos2"
    BY <2>3 DEF OnPublish
  <2> QED BY <1>2, <2>1, <2>2, <2>3, KindAssumption
<1>4. to_device' \in Seq(ToDevice)
  BY <1>1, TailOf
<1>5. /\ Tidy(broker.pending, Gotten, Keeping, to_broker, to_device')
      /\ x # 0 => Waits(broker.pending, x, n) /\ Settled(x, to_broker, to_device')
  <2>1. x # 0 => Gets(p)
    BY <1>1 DEF Gets
  <2> HIDE DEF p
  <2> QED BY <1>1, <2>1, TailGet DEF Done, GetOwned, p
<1> HIDE DEF p, x, n
<1>6. Keeping = in_msgs
  BY <1>1 DEF Keeping, Takes
<1>7. Gotten \subseteq Gotten'
  BY <1>1 DEF Gotten, Taken
<1>8. \A i \in Keeping' : i \in Keeping \/ i = x
  BY <1>1, <1>2, <1>6 DEF Keeping, Idle
<1>9. x # 0 => broker.pending[x] # None /\ broker.pending[x].msg = n /\ n \in Gotten'
  <2>1. x # 0 => Waits(broker.pending, x, n)
    BY <1>5
  <2>2. CASE Takes' /\ busy'.msg = n
    BY <1>2, <2>1, <2>2 DEF Gotten, Taken, Waits
  <2>3. CASE ~(Takes' /\ busy'.msg = n)
    <3>1. x \in in_msgs
      BY <1>2, <2>3 DEF Takes
    <3>2. n \in Gotten
      <4>1. Accepted(broker.pending, Gotten, x, "qos2")
        BY <1>6, <3>1 DEF Done, Sound
      <4>2. x # 0
        <5>1. in_msgs \subseteq Ids /\ 0 \notin Ids
          BY Constants DEF TypeOK, Ids
        <5> QED BY <3>1, <5>1
      <4> QED BY <2>1, <4>1, <4>2 DEF Accepted, Waits
    <3> QED BY <1>7, <2>1, <3>2 DEF Waits
  <2> QED BY <2>2, <2>3
<1>10. x # 0 => Accepted(broker.pending, Gotten', x, InKinds[n])
  BY <1>9 DEF Accepted
<1>11. Tidy(broker.pending, Gotten', Keeping', to_broker, to_device')
  <2>1. CASE x # 0
    BY <1>1, <1>4, <1>5, <1>7, <1>8, <2>1, Settle
  <2>2. CASE x = 0
    <3>1. Keeping' = Keeping
      BY <1>1, <1>2, <1>6, <2>2 DEF Keeping, Idle
    <3>2. Settled(0, to_broker, to_device')
      <4>1. 0 \notin Ids
        BY Constants DEF Ids
      <4>2. \A k \in 1 .. Len(to_broker) : to_broker[k] \in ToBroker
        BY <1>1
      <4> QED BY <4>1, <4>2 DEF Settled, Gets, Replies, ToBroker
    <3> QED BY <1>1, <1>4, <1>5, <1>7, <3>1, <3>2, Settle
  <2> QED BY <2>1, <2>2
<1>12. Tidy(broker.pending, Gotten', Keeping', to_broker', to_device')
  <2>1. CASE UNCHANGED to_broker
    BY <1>11, <2>1
  <2>2. CASE InKinds[n] = "qos1" /\ Send(Ack("PUBACK", x))
    <3>1. x \in Ids /\ x # 0
      BY <1>2, <2>2
    <3>2. Ack("PUBACK", x) \in ToBroker /\ Ack("PUBACK", x).type = "PUBACK" /\ Ack("PUBACK", x).id = x
      BY <3>1, AckType DEF Ack
    <3>3. ReplyOwned(broker.pending, Gotten', Keeping', Ack("PUBACK", x))
      BY <1>10, <2>2, <3>1, <3>2 DEF ReplyOwned
    <3> QED BY <1>4, <1>5, <1>11, <2>2, <3>1, <3>2, <3>3, SendReply
  <2>3. CASE InKinds[n] = "qos2" /\ Send(Ack("PUBREC", x))
    <3>1. x \in Ids /\ x # 0
      BY <1>2, <2>3
    <3>2. Ack("PUBREC", x) \in ToBroker /\ Ack("PUBREC", x).type = "PUBREC" /\ Ack("PUBREC", x).id = x
      BY <3>1, AckType DEF Ack
    <3>3. ReplyOwned(broker.pending, Gotten', Keeping', Ack("PUBREC", x))
      BY <1>10, <2>3, <3>1, <3>2 DEF ReplyOwned
    <3> QED BY <1>4, <1>5, <1>11, <2>3, <3>1, <3>2, <3>3, SendReply
  <2> QED BY <1>3, <2>1, <2>2, <2>3
<1>13. Sound(broker.pending, Gotten', Keeping', begun.in)
  <2>1. \A i \in Keeping' : i \in Keeping \/ Accepted(broker.pending, Gotten', i, "qos2")
    <3>1. ASSUME x \in Keeping', x \notin Keeping PROVE Accepted(broker.pending, Gotten', x, "qos2")
      <4>1. InKinds[n] = "qos2" /\ x # 0
        BY <1>1, <1>2, <1>6, <3>1 DEF Keeping, Idle
      <4> QED BY <1>10, <4>1
    <3> QED BY <1>8, <3>1
  <2> QED BY <1>7, <2>1, SoundMore DEF Done
<1> QED BY <1>1, <1>12, <1>13 DEF Done

LEMMA DeviceDone ==
    ASSUME TypeOK, Done, DeviceReceives \/ Store \/ Deliver PROVE Done'
<1> DEFINE q == to_device'
<1>1. to_device \in Seq(ToDevice) /\ to_broker \in Seq(ToBroker) /\ in_msgs \subseteq Ids
  BY QueueTypes
<1>2. CASE Store
  <2>1. /\ UNCHANGED <<broker, received, to_device, to_broker, begun>>
        /\ busy.pc = "store" /\ busy'.pc = "deliver" /\ busy'.msg = busy.msg /\ busy.id \in Ids
        /\ in_msgs' = in_msgs \cup {busy.id}
    BY <1>2 DEF Store, net, history, TypeOK, Calling, Idle
  <2>2. Gotten' = Gotten /\ Keeping' = Keeping
    BY <2>1 DEF Gotten, Taken, Takes, Keeping
  <2> QED BY <2>1, <2>2 DEF Done
<1>3. CASE Deliver
  <2>1. /\ UNCHANGED <<broker, to_device, to_broker, begun, in_msgs>> /\ ~Takes'
        /\ busy.msg \in Incoming /\ busy.pc = "deliver" /\ busy' = Idle
        /\ received'[busy.msg] = IF received[busy.msg] = 2 THEN 2 ELSE received[busy.msg] + 1
        /\ \A m \in Incoming : m # busy.msg => received'[m] = received[m]
    BY <1>3, DeliverCounts DEF Takes, Idle, Deliver, net
  <2>2. received[busy.msg] \in 0 .. 2
    BY <2>1, QueueTypes
  <2>3. Gotten' = Gotten
    BY <2>1, <2>2 DEF Gotten, Taken, Takes
  <2>4. Keeping' = Keeping
    BY <2>1 DEF Keeping, Idle
  <2> QED BY <2>1, <2>3, <2>4 DEF Done
<1>4. ASSUME NEW type, Receives(type)
      PROVE  /\ to_device' = Tail(to_device) /\ to_device # <<>> /\ ~Takes
             /\ Tidy(broker.pending, Gotten, Keeping, to_broker, to_device')
             /\ to_device' \in Seq(ToDevice)
  <2>1. to_device' = Tail(to_device) /\ to_device # <<>> /\ ~Takes
    BY <1>4, ReceivingKeeps
  <2>2. Tidy(broker.pending, Gotten, Keeping, to_broker, Tail(to_device))
    BY <1>1, <2>1, TailGet DEF Done
  <2>3. Tail(to_device) \in Seq(ToDevice)
    BY <1>1, <2>1, TailOf
  <2> QED BY <2>1, <2>2, <2>3
<1>5. ASSUME NEW type, Acknowledged(type) PROVE Done'
  <2>1. UNCHANGED <<in_msgs, received, busy, broker, begun, to_broker>> /\ Receives(type)
    BY <1>5 DEF Acknowledged, history
  <2>2. Gotten' = Gotten /\ Keeping' = Keeping
    BY <1>4, <2>1, SameHands
  <2> QED BY <1>4, <2>1, <2>2 DEF Done
<1>6. CASE OnPubrec
  <2>1. UNCHANGED <<in_msgs, received, busy, broker, begun>> /\ Receives("PUBREC")
    BY <1>6 DEF OnPubrec, history, caches
  <2>2. Gotten' = Gotten /\ Keeping' = Keeping
    BY <1>4, <2>1, SameHands
  <2>3. Ack("PUBREL", Head(to_device).id) \in ToBroker /\ ~Replies(Ack("PUBREL", Head(to_device).id))
    BY <2>1, SaysType, AckType DEF Replies, Ack
  <2>4. Tidy(broker.pending, Gotten, Keeping, to_broker', to_device')
    BY <1>4, <1>6, <2>1, <2>3, SendReply DEF OnPubrec
  <2> QED BY <2>1, <2>2, <2>4 DEF Done
<1>7. CASE OnPubrel
  <2> DEFINE x == Head(to_device).id
  <2>1. /\ UNCHANGED <<received, busy, broker, begun>> /\ Receives("PUBREL")
        /\ in_msgs' = in_msgs \ {x} /\ Send(Ack("PUBCOMP", x)) /\ Head(to_device).type = "PUBREL"
    BY <1>7 DEF OnPubrel, history, Receives
  <2>2. x \in Ids /\ x # 0
    BY <2>1, SaysType, Constants DEF Ids
  <2>3. Gotten' = Gotten /\ Keeping' = Keeping \ {x}
    BY <1>4, <2>1 DEF Gotten, Taken, Takes, Keeping
  <2>4. Accepted(broker.pending, Gotten, x, "qos2") /\ Settled(x, to_broker, to_device')
    <3>1. Gets(Head(to_device))
      BY <2>1, <2>2 DEF Gets
    <3>2. to_device # <<>> /\ to_device' = Tail(to_device)
      BY <1>4, <2>1
    <3> QED BY <1>1, <2>1, <3>1, <3>2, TailGet DEF Done, GetOwned
  <2> HIDE DEF x
  <2>5. Tidy(broker.pending, Gotten, Keeping \ {x}, to_broker, to_device')
    BY <1>1, <1>4, <2>1, <2>4, Settle
  <2>6. Ack("PUBCOMP", x) \in ToBroker /\ Ack("PUBCOMP", x).type = "PUBCOMP"
        /\ Ack("PUBCOMP", x).id = x
    BY <2>2, AckType DEF Ack
  <2>7. ReplyOwned(broker.pending, Gotten, Keeping \ {x}, Ack("PUBCOMP", x))
    BY <2>4, <2>6 DEF ReplyOwned
  <2>8. Tidy(broker.pending, Gotten, Keeping \ {x}, to_broker', to_device')
    BY <1>4, <2>1, <2>4, <2>5, <2>6, <2>7, SendReply
  <2>9. Sound(broker.pending, Gotten, Keeping \ {x}, begun.in)
    BY SoundMore DEF Done
  <2> QED BY <2>1, <2>3, <2>8, <2>9 DEF Done
<1>8. CASE OnConnack
  <2>1. /\ UNCHANGED <<received, busy, broker, begun, to_broker>> /\ Receives("CONNACK")
        /\ in_msgs' \subseteq in_msgs
    BY <1>8 DEF OnConnack, caches
  <2>2. Gotten' = Gotten /\ Keeping' \subseteq Keeping
    BY <2>1 DEF Gotten, Taken, Takes, Keeping
  <2>3. Settled(0, to_broker, to_device')
    <3>1. 0 \notin Ids
      BY Constants DEF Ids
    <3>2. \A k \in 1 .. Len(to_broker) : to_broker[k] \in ToBroker
      BY <1>1
    <3> QED BY <3>1, <3>2 DEF Settled, Gets, Replies, ToBroker
  <2>4. Tidy(broker.pending, Gotten, Keeping', to_broker, to_device')
    BY <1>1, <1>4, <2>1, <2>2, <2>3, Settle
  <2>5. Sound(broker.pending, Gotten, Keeping', begun.in)
    BY <2>2, SoundMore DEF Done
  <2> QED BY <2>1, <2>2, <2>4, <2>5 DEF Done
<1> QED BY <1>2, <1>3, <1>5, <1>6, <1>7, <1>8, OnPublishDone DEF DeviceReceives

LEMMA SettleOne ==
    ASSUME NEW pend, NEW got, NEW ins, NEW up \in Seq(ToBroker), NEW down \in Seq(ToDevice),
           NEW pend2, NEW x, \A i \in Ids : i # x => pend2[i] = pend[i],
           Tidy(pend, got, ins, up, down), Settled(x, up, down)
    PROVE  Tidy(pend2, got, ins, up, down)
BY Settle

\* The broker acts on an acknowledgement it has asked for.
LEMMA BrokerReceivesDone == ASSUME TypeOK, Done, BrokerReceives PROVE Done'
<1> DEFINE p == Head(to_broker)
           x == p.id
           pend == broker.pending
<1>1. /\ to_broker' = Tail(to_broker) /\ to_broker # <<>> /\ p \in ToBroker
      /\ to_device \in Seq(ToDevice) /\ to_broker \in Seq(ToBroker)
      /\ UNCHANGED <<in_msgs, received, busy, begun>>
      /\ pend \in [Ids -> [msg : BrokerKeeps, type : {"PUBLISH", "PUBREL"}] \cup {None}]
  BY TailOf DEF BrokerReceives, caches, TypeOK, Session
<1>2. to_broker' \in Seq(ToBroker)
  BY <1>1, TailOf
<1>3. Gotten' = Gotten /\ Keeping' = Keeping
  BY <1>1, SameHands
<1>4. /\ Tidy(pend, Gotten, Keeping, to_broker', to_device)
      /\ Replies(p) => ReplyOwned(pend, Gotten, Keeping, p) /\ Settled(x, to_broker', to_device)
  BY <1>1, TailReply DEF Done
<1>5. Sound(pend, Gotten, Keeping, begun.in)
  BY DEF Done
<1> DEFINE Goal == /\ Tidy(broker'.pending, Gotten, Keeping, to_broker', to_device')
                   /\ Sound(broker'.pending, Gotten, Keeping, begun.in)
<1> SUFFICES Goal
  BY <1>1, <1>3 DEF Done
<1>6. CASE /\ p.type \in {"PUBLISH", "SUBSCRIBE", "PUBREL"}
           /\ broker'.pending = pend
           /\ \/ UNCHANGED to_device
              \/ \E a \in ToDevice : /\ a.type \in {"PUBACK", "PUBREC", "PUBCOMP", "SUBACK"}
                                     /\ to_device' = Append(to_device, a)
  <2>1. ASSUME NEW a \in ToDevice, a.type \in {"PUBACK", "PUBREC", "PUBCOMP", "SUBACK"},
               to_device' = Append(to_device, a)
        PROVE  Tidy(pend, Gotten, Keeping, to_broker', to_device')
    <3>1. ~Gets(a)
      BY <2>1 DEF Gets
    <3> QED BY <1>1, <1>2, <1>4, <2>1, <3>1, AppendGet
  <2> QED BY <1>4, <1>5, <1>6, <2>1
<1>7. CASE /\ p.type \in {"PUBACK", "PUBCOMP"} /\ x \in Ids /\ UNCHANGED to_device
           /\ broker'.pending = [pend EXCEPT ![x] = None]
  <2>1. ReplyOwned(pend, Gotten, Keeping, p) /\ Settled(x, to_broker', to_device)
    BY <1>4, <1>7 DEF Replies
  <2>2. broker'.pending[x] = None /\ \A i \in Ids : i # x => broker'.pending[i] = pend[i]
    BY <1>1, <1>7
  <2>3. Tidy(broker'.pending, Gotten, Keeping, to_broker', to_device)
    <3>1. to_device \in Seq(ToDevice) /\ Tidy(pend, Gotten, Keeping, to_broker', to_device)
      BY <1>1, <1>4
    <3> HIDE DEF p, x, pend
    <3> QED BY <1>2, <2>1, <2>2, <3>1, SettleOne
  <2>4. x \notin Keeping
    BY <1>5, <1>7, <2>1 DEF ReplyOwned, Sound, Accepted
  <2>5. pend[x] # None /\ pend[x].msg \in Gotten
    BY <1>7, <2>1 DEF ReplyOwned, Accepted
  <2>6. \A i \in Ids : broker'.pending[i] # None /\ broker'.pending[i].type = "PUBREL"
          => Accepted(broker'.pending, Gotten, i, "qos2")
    BY <1>5, <2>2 DEF Sound, Accepted
  <2>7. Keeping \subseteq Ids
    BY DEF Keeping, TypeOK
  <2>8. \A i \in Keeping : Accepted(broker'.pending, Gotten, i, "qos2")
    BY <1>5, <2>2, <2>4, <2>7 DEF Sound, Accepted
  <2>9. \A n \in Incoming : n <= begun.in /\ InKinds[n] # "qos0" =>
          n \in Gotten \/ \E i \in Ids : Waits(broker'.pending, i, n)
    BY <1>5, <2>2, <2>5 DEF Sound, Waits
  <2> QED BY <1>7, <2>3, <2>6, <2>8, <2>9 DEF Sound
<1>8. CASE /\ p.type = "PUBREC" /\ x \in Ids /\ pend[x] # None
           /\ broker'.pending = [pend EXCEPT ![x].type = "PUBREL"]
           /\ to_device' = Append(to_device, Ack("PUBREL", x))
  <2>1. Accepted(pend, Gotten, x, "qos2") /\ Settled(x, to_broker', to_device)
    BY <1>4, <1>8 DEF Replies, ReplyOwned
  <2>2. \A i \in Ids : i # x => broker'.pending[i] = pend[i]
    BY <1>1, <1>8
  <2>3. broker'.pending[x] # None /\ broker'.pending[x].msg = pend[x].msg
    <3>1. pend[x] \in [msg : BrokerKeeps, type : {"PUBLISH", "PUBREL"}]
      BY <1>1, <1>8
    <3>2. broker'.pending[x] = [pend[x] EXCEPT !.type = "PUBREL"]
      BY <1>1, <1>8
    <3>3. broker'.pending[x] \in [msg : BrokerKeeps, type : {"PUBLISH", "PUBREL"}]
      BY <3>1, <3>2
    <3>4. [pend[x] EXCEPT !.type = "PUBREL"].msg = pend[x].msg
      BY <3>1
    <3> QED BY <3>2, <3>3, <3>4, NoneAssumption
  <2>4. \A i \in Ids : \A kind : Accepted(pend, Gotten, i, kind) => Accepted(broker'.pending, Gotten, i, kind)
    BY <2>2, <2>3 DEF Accepted
  <2>5. \A i \in Ids, n \in Incoming : Waits(pend, i, n) => Waits(broker'.pending, i, n)
    BY <2>2, <2>3 DEF Waits
  <2>6. Tidy(broker'.pending, Gotten, Keeping, to_broker', to_device)
    <3>1. to_device \in Seq(ToDevice) /\ Tidy(pend, Gotten, Keeping, to_broker', to_device)
      BY <1>1, <1>4
    <3> HIDE DEF p, x, pend
    <3> QED BY <1>2, <2>1, <2>2, <3>1, SettleOne
  <2>7. Ack("PUBREL", x) \in ToDevice /\ Ack("PUBREL", x).type = "PUBREL" /\ Ack("PUBREL", x).id = x
    BY <1>8, AckType DEF Ack
  <2>8. Accepted(broker'.pending, Gotten, x, "qos2")
    BY <1>8, <2>1, <2>4
  <2>9. GetOwned(broker'.pending, Gotten, Ack("PUBREL", x))
    BY <2>7, <2>8 DEF GetOwned
  <2>10. Tidy(broker'.pending, Gotten, Keeping, to_broker', to_device')
    BY <1>1, <1>2, <1>8, <2>1, <2>6, <2>7, <2>9, AppendGet
  <2>11. \A i \in Ids : broker'.pending[i] # None /\ broker'.pending[i].type = "PUBREL"
          => Accepted(broker'.pending, Gotten, i, "qos2")
    BY <1>5, <2>2, <2>4, <2>8 DEF Sound
  <2>12. Keeping \subseteq Ids
    BY DEF Keeping, TypeOK
  <2>13. Sound(broker'.pending, Gotten, Keeping, begun.in)
    BY <1>5, <2>4, <2>5, <2>11, <2>12 DEF Sound
  <2> QED BY <2>10, <2>13
<1>9. ~ (p.type = "PUBREC" /\ x \in Ids /\ pend[x] = None)
  BY <1>4 DEF Replies, ReplyOwned, Accepted
<1> HIDE DEF pend
<1> HIDE DEF Goal, p, x
<1> QED BY <1>6, <1>7, <1>8, <1>9, BrokerGetsCases DEF p, x, pend

\* What is under way is about ids the broker has something pending under.
LEMMA Unowned ==
    ASSUME TypeOK, Done, NEW x \in Ids, broker.pending[x] = None
    PROVE  Settled(x, to_broker, to_device) /\ x \notin Keeping
<1>1. ~ Accepted(broker.pending, Gotten, x, "qos1") /\ ~ Accepted(broker.pending, Gotten, x, "qos2")
      /\ \A n : ~ Waits(broker.pending, x, n)
  BY DEF Accepted, Waits
<1>2. \A k \in 1 .. Len(to_broker) : Replies(to_broker[k]) => to_broker[k].id # x
  BY <1>1 DEF Done, Tidy, ReplyOwned
<1>3. \A k \in 1 .. Len(to_device) : Gets(to_device[k]) => to_device[k].id # x
  BY <1>1 DEF Done, Tidy, GetOwned, Gets
<1>4. x \notin Keeping
  BY <1>1 DEF Done, Sound
<1> QED BY <1>2, <1>3, <1>4 DEF Settled

LEMMA BrokerSendsDone == ASSUME TypeOK, Done, NEW n \in Incoming, BrokerSends(n) PROVE Done'
<1>1. /\ UNCHANGED <<in_msgs, received, busy, to_broker>> /\ begun.in = n - 1 /\ begun'.in = n
  BY DEF BrokerSends, caches, history, TypeOK
<1>2. Gotten' = Gotten /\ Keeping' = Keeping
  BY <1>1, SameHands
<1>3. PICK x \in Ids \cup {0}, p \in ToDevice :
        /\ p = [type |-> "PUBLISH", id |-> x, msg |-> n]
        /\ to_device' = Append(to_device, p) \/ (UNCHANGED to_device /\ link = "down")
        /\ \/ x = 0 /\ UNCHANGED broker /\ link = "up" /\ InKinds[n] = "qos0"
           \/ /\ x \in Ids /\ broker.pending[x] = None /\ InKinds[n] # "qos0"
              /\ broker'.pending =
                    [broker.pending EXCEPT ![x] = [msg |-> n, type |-> "PUBLISH"]]
  BY BrokerSendsCases
<1> DEFINE pend == broker.pending
           pend2 == broker'.pending
<1>4. /\ pend \in [Ids -> [msg : BrokerKeeps, type : {"PUBLISH", "PUBREL"}] \cup {None}]
      /\ to_device \in Seq(ToDevice) /\ to_broker \in Seq(ToBroker)
  BY DEF TypeOK, Session
<1>5. Tidy(pend, Gotten, Keeping, to_broker, to_device) /\ Sound(pend, Gotten, Keeping, n - 1)
  BY <1>1 DEF Done
<1>6. \A m \in Incoming : m <= n => m <= n - 1 \/ m = n
  BY Constants DEF Incoming
<1>7. p.type = "PUBLISH" /\ p.id = x /\ p.msg = n
  BY <1>3
<1>8. CASE x = 0
  <2>1. pend2 = pend /\ ~Gets(p) /\ InKinds[n] = "qos0"
    BY <1>3, <1>7, <1>8, Constants DEF Gets, Ids
  <2>2. Tidy(pend, Gotten, Keeping, to_broker, to_device')
    BY <1>3, <1>4, <1>5, <2>1, AppendGet
  <2>3. Sound(pend, Gotten, Keeping, n)
    BY <1>5, <1>6, <2>1 DEF Sound
  <2> QED BY <1>1, <1>2, <2>1, <2>2, <2>3 DEF Done
<1>9. CASE x # 0
  <2>1. /\ x \in Ids /\ pend[x] = None /\ InKinds[n] # "qos0"
        /\ pend2 = [pend EXCEPT ![x] = [msg |-> n, type |-> "PUBLISH"]]
    BY <1>3, <1>9
  <2>2. Settled(x, to_broker, to_device) /\ x \notin Keeping
    BY <2>1, Unowned
  <2>3. /\ \A i \in Ids : i # x => pend2[i] = pend[i]
        /\ pend2[x] = [msg |-> n, type |-> "PUBLISH"]
    BY <1>4, <2>1
  <2>4. pend2[x] # None /\ pend2[x].msg = n /\ pend2[x].type = "PUBLISH"
    <3>1. n \in BrokerKeeps
      BY <2>1 DEF BrokerKeeps
    <3>2. [msg |-> n, type |-> "PUBLISH"] \in [msg : BrokerKeeps, type : {"PUBLISH", "PUBREL"}]
      BY <3>1
    <3> QED BY <2>3, <3>2, NoneAssumption
  <2> HIDE DEF pend2
  <2>5. Waits(pend2, x, n)
    BY <2>4 DEF Waits
  <2>6. Tidy(pend2, Gotten, Keeping, to_broker, to_device)
    BY <1>4, <1>5, <2>2, <2>3, SettleOne
  <2>7. Gets(p) => GetOwned(pend2, Gotten, p) /\ Settled(p.id, to_broker, to_device)
    BY <1>7, <2>2, <2>5 DEF GetOwned
  <2>8. Tidy(pend2, Gotten, Keeping, to_broker, to_device')
    <3>1. CASE to_device' = Append(to_device, p)
      BY <1>4, <2>6, <2>7, <3>1, AppendGet
    <3>2. CASE UNCHANGED to_device
      BY <2>6, <3>2
    <3> QED BY <1>3, <3>1, <3>2
  <2>9. \A i \in Ids : pend2[i] # None /\ pend2[i].type = "PUBREL" => Accepted(pend2, Gotten, i, "qos2")
    BY <1>5, <2>3, <2>4 DEF Sound, Accepted
  <2>10. \A i \in Keeping : Accepted(pend2, Gotten, i, "qos2")
    <3>1. Keeping \subseteq Ids
      BY DEF Keeping, TypeOK
    <3> QED BY <1>5, <2>2, <2>3, <3>1 DEF Sound, Accepted
  <2>11. \A m \in Incoming : m <= n /\ InKinds[m] # "qos0" =>
          m \in Gotten \/ \E i \in Ids : Waits(pend2, i, m)
    <3>1. \A i \in Ids : \A m : Waits(pend, i, m) => Waits(pend2, i, m)
      BY <2>1, <2>3 DEF Waits
    <3> QED BY <1>5, <1>6, <2>1, <2>5, <3>1 DEF Sound
  <2> QED BY <1>1, <1>2, <2>8, <2>9, <2>10, <2>11 DEF Done, Sound, pend2
<1> QED BY <1>8, <1>9

\* A connection starts with what is pending, and with nothing else.
LEMMA ConnectDone == ASSUME TypeOK, Quiet, Done, Connect PROVE Done'
<1>1. /\ UNCHANGED <<in_msgs, received, busy, begun, to_broker>> /\ broker'.pending = broker.pending
      /\ to_broker = <<>>
  BY DEF Connect, caches, history, Quiet, TypeOK, Session
<1>2. Gotten' = Gotten /\ Keeping' = Keeping
  BY <1>1, SameHands
<1>3. \A k \in 1 .. Len(to_device') : Gets(to_device'[k]) =>
        k # 1 /\ \E i \in Ids : broker.pending[i] # None /\ to_device'[k] = Pending(i)
  BY ConnectQueue, ConnectSends DEF Gets
<1>4. \A i \in Ids :
        /\ Pending(i).id = i
        /\ Pending(i).type = "PUBLISH" => Pending(i).msg = broker.pending[i].msg
        /\ Pending(i).type = "PUBREL" => broker.pending[i].type = "PUBREL"
  BY DEF Pending, Ack
<1>5. \A k \in 1 .. Len(to_device') : Gets(to_device'[k]) =>
        GetOwned(broker.pending, Gotten, to_device'[k])
  <2> SUFFICES ASSUME NEW k \in 1 .. Len(to_device'), Gets(to_device'[k])
               PROVE  GetOwned(broker.pending, Gotten, to_device'[k])
    OBVIOUS
  <2>1. PICK i \in Ids : broker.pending[i] # None /\ to_device'[k] = Pending(i)
    BY <1>3
  <2>2. Pending(i).type = "PUBREL" => Accepted(broker.pending, Gotten, i, "qos2")
    BY <1>4, <2>1 DEF Done, Sound
  <2>3. Pending(i).type = "PUBLISH" => Waits(broker.pending, i, Pending(i).msg)
    BY <1>4, <2>1 DEF Waits
  <2> QED BY <1>4, <2>1, <2>2, <2>3 DEF GetOwned
<1>6. \A j, k \in 1 .. Len(to_device') :
        j # k /\ Gets(to_device'[j]) /\ Gets(to_device'[k]) => to_device'[j].id # to_device'[k].id
  <2> SUFFICES ASSUME NEW j \in 1 .. Len(to_device'), NEW k \in 1 .. Len(to_device'),
                      Gets(to_device'[j]), Gets(to_device'[k]), to_device'[j].id = to_device'[k].id
               PROVE  j = k
    OBVIOUS
  <2>1. PICK a \in Ids : broker.pending[a] # None /\ to_device'[j] = Pending(a)
    BY <1>3
  <2>2. PICK b \in Ids : broker.pending[b] # None /\ to_device'[k] = Pending(b)
    BY <1>3
  <2>3. a = b
    BY <1>4, <2>1, <2>2
  <2> QED BY <1>3, <2>1, <2>2, <2>3, ConnectSends
<1>7. 1 .. Len(to_broker) = {}
  BY <1>1
<1>8. Tidy(broker.pending, Gotten, Keeping, to_broker, to_device')
  BY <1>5, <1>6, <1>7 DEF Tidy
<1> QED BY <1>1, <1>2, <1>8 DEF Done

LEMMA DropDone == ASSUME Done, Drop PROVE Done'
<1>1. /\ UNCHANGED <<in_msgs, received, busy, broker, begun>>
      /\ to_broker' = <<>> /\ to_device' = <<>>
  BY DEF Drop, Cut, caches, history
<1>2. Gotten' = Gotten /\ Keeping' = Keeping
  BY <1>1, SameHands
<1>3. 1 .. Len(to_broker') = {} /\ 1 .. Len(to_device') = {}
  BY <1>1
<1>4. Tidy(broker.pending, Gotten, Keeping, to_broker', to_device')
  BY <1>3 DEF Tidy
<1> QED BY <1>1, <1>2, <1>4 DEF Done

\* No power and no session was lost.
Steady == faults.reboots = 0 /\ faults.forgets = 0

LEMMA DoneStep ==
    ASSUME Window = 1, TypeOK, Quiet, Done, Next, Steady' PROVE Done'
<1>1. ~Reboot
  BY StrikeType DEF Reboot, Steady, TypeOK, Strikes, Bounds
<1>2. ~Forget
  BY StrikeType DEF Forget, Steady, TypeOK, Strikes, Bounds
<1> QED BY <1>1, <1>2, SendingDone, DeviceDone, BrokerReceivesDone, BrokerSendsDone, ConnectDone,
        DropDone DEF Next, Calls

DoneInv == TypeOK /\ Quiet /\ (Steady => Done)

\* What the broker has done with has reached the application: the acknowledgement of
\* a message is about the message that is pending under its id, and goes out with the
\* message in hand.  As long as no power or session is lost, whatever connections and
\* packets are, and a timeout strikes with nothing under way only.
THEOREM NothingDropped == ASSUME Window = 1 PROVE Spec => []ReceivedIfDone
<1>1. Init => DoneInv
  <2> SUFFICES ASSUME Init PROVE DoneInv
    OBVIOUS
  <2>1. TypeOK /\ Quiet
    BY InitInv DEF IInv
  <2>2. /\ 1 .. Len(to_device) = {} /\ 1 .. Len(to_broker) = {} /\ Keeping = {} /\ begun.in = 0
        /\ \A i \in Ids : broker.pending[i] = None
    BY DEF Init, Keeping, Idle, NoSession
  <2>3. Tidy(broker.pending, Gotten, Keeping, to_broker, to_device)
    BY <2>2 DEF Tidy
  <2>4. Sound(broker.pending, Gotten, Keeping, begun.in)
    BY <2>2, Constants DEF Sound, Incoming
  <2> QED BY <2>1, <2>3, <2>4 DEF DoneInv, Done
<1>2. DoneInv /\ [Next]_vars => DoneInv'
  <2> SUFFICES ASSUME DoneInv, [Next]_vars PROVE DoneInv'
    OBVIOUS
  <2>1. CASE UNCHANGED vars
    <3>1. TypeOK' /\ Quiet'
      BY <2>1 DEF vars, caches, net, history, DoneInv, TypeOK, Quiet
    <3>2. (Steady => Done)'
      BY <2>1 DEF vars, caches, net, history, DoneInv, Steady, Done, Gotten, Taken, Takes, Keeping
    <3> QED BY <3>1, <3>2 DEF DoneInv
  <2>2. CASE Next
    <3>1. Steady' => Steady
      BY <2>2, FaultsOnlyGrow DEF Steady, DoneInv
    <3> QED BY <2>2, <3>1, TypeStep, QuietStep, DoneStep DEF DoneInv
  <2> QED BY <2>1, <2>2
<1>3. DoneInv => ReceivedIfDone
  <2> SUFFICES ASSUME DoneInv, Steady, NEW n \in Incoming, n <= begun.in, InKinds[n] # "qos0"
               PROVE  \/ received[n] > 0
                      \/ \E i \in Ids : broker.pending[i] # None /\ broker.pending[i].msg = n
                      \/ busy # Idle /\ busy.pc \in {"store", "deliver"} /\ busy.msg = n
    BY DEF ReceivedIfDone, Steady
  <2>1. n \in Gotten \/ \E i \in Ids : Waits(broker.pending, i, n)
    BY DEF DoneInv, Done, Sound
  <2>2. Takes => busy # Idle
    BY DEF Takes, Idle
  <2> QED BY <2>1, <2>2 DEF Gotten, Taken, Takes, Waits
<1> QED BY <1>1, <1>2, <1>3, PTL DEF Spec
=============================================================================
