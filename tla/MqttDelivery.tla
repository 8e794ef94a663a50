---------------------------- MODULE MqttDelivery ----------------------------
(***************************************************************************)
(* Publish, subscribe and receive with acknowledgements: mqtt/pubsub.c,    *)
(* mqtt/caching.c and mqtt/events.c over a broker and a TCP connection.    *)
(*                                                                         *)
(* A message that wants an answer is kept in a cache, in RAM and on flash, *)
(* under its 16 bit packet id until the last answer comes; while connected *)
(* the poll sends again what has been kept for too long.  The mutex of the *)
(* client serialises the calls, so a step is cut only where a power loss   *)
(* tells the halves apart.  The broker and the network are external:       *)
(* packets arrive in order and are lost only with the connection.          *)
(*                                                                         *)
(* Abstracted: topics and payloads (a message is its number), the clock (a *)
(* timeout may strike at any time).                                        *)
(***************************************************************************)
EXTENDS Integers, Sequences, FiniteSets

CONSTANTS
    OutKinds,      \* what the device sends, in order: "qos0", "qos1", "qos2", "sub"
    InKinds,       \* what the broker sends, in order: "qos0", "qos1", "qos2"
    MaxId,         \* the last packet id, UINT16_MAX in the code
    Window,        \* packets under way beyond which no timeout is considered
    MaxDrops,      \* connections lost (a bound of the model)
    MaxReboots,    \* power losses (a bound of the model)
    MaxFailures,   \* sends that fail within a connection (a bound of the model)
    MaxForgets,    \* sessions the broker loses (a bound of the model)
    MaxKvErrors,   \* flash operations that fail (a bound of the model)
    None

Ids == 1 .. MaxId
Sent == 1 .. Len(OutKinds)
Incoming == 1 .. Len(InKinds)
\* Those that either side keeps until they are answered.
Keeps == {n \in Sent : OutKinds[n] # "qos0"}
BrokerKeeps == {n \in Incoming : InKinds[n] # "qos0"}
Bounds == [drops : 0 .. MaxDrops, reboots : 0 .. MaxReboots,
           failures : 0 .. MaxFailures, forgets : 0 .. MaxForgets,
           kv : 0 .. MaxKvErrors]

ASSUME KindAssumption ==
    /\ OutKinds \in Seq(STRING) /\ InKinds \in Seq(STRING)
    /\ \A n \in Sent : OutKinds[n] \in {"qos0", "qos1", "qos2", "sub"}
    /\ \A n \in Incoming : InKinds[n] \in {"qos0", "qos1", "qos2"}
ASSUME BoundAssumption ==
    /\ {MaxDrops, MaxReboots, MaxFailures, MaxForgets, MaxKvErrors} \subseteq Nat
    /\ Window \in Nat \ {0}
    /\ MaxId \in Nat /\ MaxId > 1
    /\ None \notin Nat
ASSUME NoneAssumption ==
    None \notin [msg : BrokerKeeps, type : {"PUBLISH", "PUBREL"}]

VARIABLES
    out_msgs, in_msgs,     \* RAM: the two caches, by packet id
    out_flash, in_flash,   \* flash: the same
    last_message_id,       \* RAM
    busy,                  \* RAM: the rest of the call that holds the mutex
    link,                  \* "down", "connecting" or "up"
    online,                \* RAM: whether the device believes it is connected
    to_broker, to_device,  \* the packets under way
    broker,                \* the session at the broker
    begun,                 \* how many messages each side has begun to send
    delivered, received,   \* history: deliveries to Astarte, to the application
    excused,               \* history: messages of a session the broker lost
    faults                 \* how often each fault has struck

caches == <<out_msgs, in_msgs, out_flash, in_flash>>
net == <<link, online, to_broker, to_device>>
history == <<delivered, received, excused>>
vars == <<caches, last_message_id, busy, net, broker, begun, history, faults>>

\* What goes each way; messages of QoS 0 have no packet id.
ToBroker ==
    {p \in [type : {"PUBLISH", "SUBSCRIBE"}, id : Ids \cup {0}, msg : Sent] :
        /\ p.type = "SUBSCRIBE" <=> OutKinds[p.msg] = "sub"
        /\ p.id = 0 <=> OutKinds[p.msg] = "qos0"}
    \cup [type : {"PUBACK", "PUBREC", "PUBREL", "PUBCOMP"}, id : Ids]
ToDevice ==
    {p \in [type : {"PUBLISH"}, id : Ids \cup {0}, msg : Incoming] :
        p.id = 0 <=> InKinds[p.msg] = "qos0"}
    \cup [type : {"PUBACK", "PUBREC", "PUBREL", "PUBCOMP", "SUBACK"}, id : Ids]
    \cup [type : {"CONNACK"}, present : BOOLEAN]

Ack(type, id) == [type |-> type, id |-> id]
Idle == [pc |-> "idle"]
NoSession == [present |-> FALSE, seen |-> {}, pending |-> [i \in Ids |-> None]]

\* What a call of the client may still have to do.
Calling ==
    {Idle} \cup [pc : {"send"}, packet : {p \in ToBroker : p.type \in {"PUBLISH", "SUBSCRIBE"}}]
           \cup [pc : {"store"}, id : Ids, msg : Incoming]
           \cup [pc : {"deliver"}, id : Ids \cup {0}, msg : Incoming]

\* What the broker keeps for the device.
Session == [present : BOOLEAN, seen : SUBSET Ids,
            pending : [Ids -> [msg : BrokerKeeps, type : {"PUBLISH", "PUBREL"}] \cup {None}]]

TypeOK ==
    /\ out_msgs \in [Ids -> Keeps \cup {None}] /\ out_flash \in [Ids -> Keeps \cup {None}]
    /\ in_msgs \subseteq Ids /\ in_flash \subseteq Ids
    /\ last_message_id \in 0 .. MaxId
    /\ busy \in Calling
    /\ link \in {"down", "connecting", "up"} /\ online \in BOOLEAN
    /\ to_broker \in Seq(ToBroker) /\ to_device \in Seq(ToDevice)
    /\ broker \in Session
    /\ begun \in [out : 0 .. Len(OutKinds), in : 0 .. Len(InKinds)]
    /\ delivered \in [Sent -> 0 .. 2] /\ received \in [Incoming -> 0 .. 2]
    /\ excused \in [out : SUBSET Sent, in : SUBSET Incoming]
    /\ faults \in Bounds

Init ==
    /\ out_msgs = [i \in Ids |-> None] /\ out_flash = [i \in Ids |-> None]
    /\ in_msgs = {} /\ in_flash = {}
    /\ last_message_id = 0
    /\ busy = Idle
    /\ link = "down" /\ online = FALSE /\ to_broker = <<>> /\ to_device = <<>>
    /\ broker = NoSession
    /\ begun = [out |-> 0, in |-> 0]
    /\ delivered = [n \in Sent |-> 0] /\ received = [n \in Incoming |-> 0]
    /\ excused = [out |-> {}, in |-> {}]
    /\ faults = [drops |-> 0, reboots |-> 0, failures |-> 0, forgets |-> 0, kv |-> 0]

\* Deliveries are counted up to two, which is one too many.
Counted(count, n) == [count EXCEPT ![n] = IF @ = 2 THEN 2 ELSE @ + 1]

Can(kind, bound) == faults[kind] < bound
Strikes(kind) == faults' = [faults EXCEPT ![kind] = @ + 1]

\* A call of the Zephyr MQTT client: the packet leaves, or is lost with an error
\* that every caller only logs.
Send(p) ==
    \/ link = "up" /\ to_broker' = Append(to_broker, p) /\ UNCHANGED faults
    \/ link # "up" /\ UNCHANGED <<to_broker, faults>>
    \/ /\ link = "up" /\ Can("failures", MaxFailures) /\ Strikes("failures")
       /\ UNCHANGED to_broker

-----------------------------------------------------------------------------
(* Sending: mqtt/pubsub.c. *)

Free == {i \in Ids : out_msgs[i] = None}

\* Mutated: the id counter is not checked against the cache.
AvailableId_Unchecked == (last_message_id % MaxId) + 1

\* Mutated: the id counter does not wrap around.
AvailableId_NoWrap ==
    CHOOSE i \in last_message_id + 1 .. MaxId + 1 :
        /\ i = MaxId + 1 \/ i \in Free
        /\ \A j \in last_message_id + 1 .. i - 1 : j \notin Free

\* astarte_mqtt_caching_get_available_message_id: the next id, skipping 0 and
\* the ids in the cache.
After(i) == IF last_message_id < i THEN i - last_message_id ELSE i - last_message_id + MaxId
AvailableId == CHOOSE i \in Free : \A j \in Free : After(i) <= After(j)

PacketOf(n, id) ==
    [type |-> IF OutKinds[n] = "sub" THEN "SUBSCRIBE" ELSE "PUBLISH", id |-> id, msg |-> n]

\* Mutated: the message is kept in RAM only.
Begin_RamOnly(n) ==
    /\ busy = Idle /\ online /\ begun.out = n - 1
    /\ begun' = [begun EXCEPT !.out = n]
    /\ IF OutKinds[n] = "qos0"
       THEN busy' = [pc |-> "send", packet |-> PacketOf(n, 0)]
            /\ UNCHANGED <<out_msgs, out_flash, last_message_id, faults>>
       ELSE /\ Free # {}
            /\ busy' = [pc |-> "send", packet |-> PacketOf(n, AvailableId)]
            /\ last_message_id' = AvailableId
            /\ out_msgs' = [out_msgs EXCEPT ![AvailableId] = n]
            /\ UNCHANGED <<out_flash, faults>>
    /\ UNCHANGED <<in_msgs, in_flash, net, broker, history>>

\* astarte_mqtt_publish and astarte_mqtt_subscribe keep the message before ...
Begin(n) ==
    /\ busy = Idle /\ online /\ begun.out = n - 1
    /\ begun' = [begun EXCEPT !.out = n]
    /\ IF OutKinds[n] = "qos0"
       THEN /\ busy' = [pc |-> "send", packet |-> PacketOf(n, 0)]
            /\ UNCHANGED <<out_msgs, out_flash, last_message_id, faults>>
       ELSE /\ Free # {}
            /\ busy' = [pc |-> "send", packet |-> PacketOf(n, AvailableId)]
            /\ last_message_id' = AvailableId
            /\ out_msgs' = [out_msgs EXCEPT ![AvailableId] = n]
            /\ \/ out_flash' = [out_flash EXCEPT ![AvailableId] = n] /\ UNCHANGED faults
               \/ /\ Can("kv", MaxKvErrors) /\ Strikes("kv") /\ UNCHANGED out_flash
    /\ UNCHANGED <<in_msgs, in_flash, net, broker, history>>

\* ... they send it.
SendIt ==
    /\ busy.pc = "send"
    /\ Send(busy.packet)
    /\ busy' = Idle
    /\ UNCHANGED <<caches, last_message_id, link, online, to_device, broker, begun, history>>

\* astarte_mqtt_caching_check_message_expiry, called by the poll of a connected
\* client: a message kept for too long is sent again as it was first sent.
Polling == link = "up" /\ busy = Idle /\ Len(to_broker) + Len(to_device) < Window
ResendOut(i) ==
    /\ Polling /\ out_msgs[i] # None
    /\ Send(PacketOf(out_msgs[i], i))
    /\ UNCHANGED <<caches, last_message_id, busy, link, online, to_device, broker, begun, history>>

ResendIn(i) ==
    /\ Polling /\ i \in in_msgs
    /\ Send(Ack("PUBREC", i))
    /\ UNCHANGED <<caches, last_message_id, busy, link, online, to_device, broker, begun, history>>

-----------------------------------------------------------------------------
(* Receiving: mqtt/events.c, called back from mqtt_input within the poll. *)

\* The packet in front, while nothing else is going on.
Receives(type) ==
    /\ busy = Idle /\ to_device # <<>> /\ Head(to_device).type = type
    /\ to_device' = Tail(to_device)

\* astarte_mqtt_caching_remove_message: RAM, then flash, which may fail.
ForgetFlash(i, fails) ==
    IF fails THEN Can("kv", MaxKvErrors) /\ Strikes("kv") /\ UNCHANGED out_flash
    ELSE out_flash' = [out_flash EXCEPT ![i] = None] /\ UNCHANGED faults

\* Mutated: the record on flash is kept.
Acknowledged_FlashKept(type) ==
    /\ link = "up" /\ Receives(type)
    /\ LET i == Head(to_device).id IN out_msgs' = [out_msgs EXCEPT ![i] = None]
    /\ UNCHANGED <<in_msgs, out_flash, in_flash, last_message_id, busy, link, online, to_broker,
                   broker, begun, history, faults>>

\* PUBACK, PUBCOMP and SUBACK end the life of an outgoing message.
Acknowledged(type) ==
    /\ link = "up" /\ Receives(type)
    /\ LET i == Head(to_device).id IN
       IF out_msgs[i] = None THEN UNCHANGED <<out_msgs, out_flash, faults>>
       ELSE /\ out_msgs' = [out_msgs EXCEPT ![i] = None]
            /\ \E fails \in BOOLEAN : ForgetFlash(i, fails)
    /\ UNCHANGED <<in_msgs, in_flash, last_message_id, busy, link, online, to_broker, broker,
                   begun, history>>

\* Mutated: a PUBREC is not answered.
OnPubrec_Silent ==
    /\ link = "up" /\ Receives("PUBREC")
    /\ UNCHANGED <<caches, last_message_id, busy, link, online, to_broker, broker, begun,
                   history, faults>>

\* PUBREC is answered with PUBREL; the message stays in the cache.
OnPubrec ==
    /\ link = "up" /\ Receives("PUBREC")
    /\ Send(Ack("PUBREL", Head(to_device).id))
    /\ UNCHANGED <<caches, last_message_id, busy, link, online, broker, begun, history>>

\* Mutated: the id stays in the cache.
OnPubrel_Kept ==
    /\ link = "up" /\ Receives("PUBREL")
    /\ Send(Ack("PUBCOMP", Head(to_device).id))
    /\ UNCHANGED <<caches, last_message_id, busy, link, online, broker, begun, history>>

\* PUBREL ends the life of an incoming id.
OnPubrel ==
    /\ link = "up" /\ Receives("PUBREL")
    /\ LET i == Head(to_device).id IN
       /\ in_msgs' = in_msgs \ {i}
       /\ in_flash' = in_flash \ (IF i \in in_msgs THEN {i} ELSE {})
       /\ Send(Ack("PUBCOMP", i))
    /\ UNCHANGED <<out_msgs, out_flash, last_message_id, busy, link, online, broker, begun, history>>

\* acknowledge_qos answers a PUBLISH first; an id already in the cache is a
\* duplicate of a QoS 2 message and goes no further.
OnPublish ==
    /\ link = "up" /\ Receives("PUBLISH")
    /\ LET p == Head(to_device)
           pc(s) == [pc |-> s, id |-> p.id, msg |-> p.msg]
       IN  CASE InKinds[p.msg] = "qos0" ->
                  busy' = pc("deliver") /\ UNCHANGED <<to_broker, faults>>
             [] InKinds[p.msg] = "qos1" ->
                  busy' = pc("deliver") /\ Send(Ack("PUBACK", p.id))
             [] InKinds[p.msg] = "qos2" ->
                  /\ busy' = IF p.id \in in_msgs THEN Idle ELSE pc("store")
                  /\ Send(Ack("PUBREC", p.id))
    /\ UNCHANGED <<caches, last_message_id, link, online, broker, begun, history>>

\* Mutated: the id is kept in RAM only.
Store_RamOnly ==
    /\ busy.pc = "store"
    /\ in_msgs' = in_msgs \cup {busy.id}
    /\ busy' = [busy EXCEPT !.pc = "deliver"]
    /\ UNCHANGED <<out_msgs, out_flash, in_flash, last_message_id, net, broker, begun,
                   history, faults>>

\* The id of a new QoS 2 message goes into the cache.
Store ==
    /\ busy.pc = "store"
    /\ in_msgs' = in_msgs \cup {busy.id}
    /\ \/ in_flash' = in_flash \cup {busy.id} /\ UNCHANGED faults
       \/ Can("kv", MaxKvErrors) /\ Strikes("kv") /\ UNCHANGED in_flash
    /\ busy' = [busy EXCEPT !.pc = "deliver"]
    /\ UNCHANGED <<out_msgs, out_flash, last_message_id, net, broker, begun, history>>

\* The callback of the device gets the message.
Deliver ==
    /\ busy.pc = "deliver"
    /\ received' = Counted(received, busy.msg)
    /\ busy' = Idle
    /\ UNCHANGED <<caches, last_message_id, net, broker, begun, delivered, excused, faults>>

\* Mutated: the caches survive the session.
OnConnack_Keeps ==
    /\ link = "connecting" /\ Receives("CONNACK")
    /\ link' = "up" /\ online' = TRUE
    /\ UNCHANGED <<caches, last_message_id, busy, to_broker, broker, begun, history, faults>>

\* CONNACK: what was kept for a session that is gone is removed.
OnConnack ==
    /\ link = "connecting" /\ Receives("CONNACK")
    /\ link' = "up" /\ online' = TRUE
    /\ IF Head(to_device).present THEN UNCHANGED <<caches, excused>>
       ELSE /\ in_msgs' = {} /\ in_flash' = in_flash \ in_msgs
            /\ out_msgs' = [i \in Ids |-> None]
            /\ out_flash' = [i \in Ids |-> IF out_msgs[i] = None THEN out_flash[i] ELSE None]
            /\ excused' = [excused EXCEPT !.out = 1 .. begun.out]
    /\ UNCHANGED <<last_message_id, busy, to_broker, broker, begun, delivered, received,
                   faults>>

-----------------------------------------------------------------------------
(* The broker, as MQTT 3.1.1 has it (external). *)

Answer(p) == to_device' = Append(to_device, p)

BrokerGetsPublish(p) ==
    LET kind == OutKinds[p.msg]
        new == kind # "qos2" \/ p.id \notin broker.seen
    IN  /\ delivered' = IF new THEN Counted(delivered, p.msg) ELSE delivered
        /\ broker' = IF kind = "qos2" THEN [broker EXCEPT !.seen = @ \cup {p.id}] ELSE broker
        /\ IF kind = "qos0" THEN UNCHANGED to_device
           ELSE Answer(Ack(IF kind = "qos1" THEN "PUBACK" ELSE "PUBREC", p.id))

BrokerGets(p) ==
    \/ p.type = "PUBLISH" /\ BrokerGetsPublish(p)
    \/ /\ p.type = "SUBSCRIBE" /\ delivered' = Counted(delivered, p.msg)
       /\ Answer(Ack("SUBACK", p.id)) /\ UNCHANGED broker
    \/ /\ p.type = "PUBREL" /\ broker' = [broker EXCEPT !.seen = @ \ {p.id}]
       /\ Answer(Ack("PUBCOMP", p.id)) /\ UNCHANGED delivered
    \/ /\ p.type \in {"PUBACK", "PUBCOMP"}
       /\ broker' = [broker EXCEPT !.pending[p.id] = None]
       /\ UNCHANGED <<to_device, delivered>>
    \/ /\ p.type = "PUBREC" /\ broker.pending[p.id] # None
       /\ broker' = [broker EXCEPT !.pending[p.id].type = "PUBREL"]
       /\ Answer(Ack("PUBREL", p.id)) /\ UNCHANGED delivered
    \* A PUBREC of a message it does not know.
    \/ /\ p.type = "PUBREC" /\ broker.pending[p.id] = None
       /\ Answer(Ack("PUBREL", p.id)) \/ UNCHANGED to_device
       /\ UNCHANGED <<broker, delivered>>

BrokerReceives ==
    /\ link # "down" /\ to_broker # <<>>
    /\ to_broker' = Tail(to_broker)
    /\ BrokerGets(Head(to_broker))
    /\ UNCHANGED <<caches, last_message_id, busy, link, online, begun, received, excused, faults>>

Pending(i) == LET w == broker.pending[i] IN
    IF w.type = "PUBREL" THEN Ack("PUBREL", i) ELSE [type |-> "PUBLISH", id |-> i, msg |-> w.msg]

Unused == {i \in Ids : broker.pending[i] = None}

\* The broker sends its next message, now or with the next connection.
BrokerSends(n) ==
    /\ begun.in = n - 1 /\ broker.present
    /\ begun' = [begun EXCEPT !.in = n]
    /\ IF InKinds[n] = "qos0"
       THEN /\ link = "up"
            /\ Answer([type |-> "PUBLISH", id |-> 0, msg |-> n]) /\ UNCHANGED broker
       ELSE LET i == CHOOSE j \in Unused : TRUE IN
            /\ Unused # {}
            /\ broker' = [broker EXCEPT !.pending[i] = [msg |-> n, type |-> "PUBLISH"]]
            /\ IF link = "down" THEN UNCHANGED to_device
               ELSE Answer([type |-> "PUBLISH", id |-> i, msg |-> n])
    /\ UNCHANGED <<caches, last_message_id, busy, link, online, to_broker, history, faults>>

\* The broker accepts a connection, answers with a CONNACK that tells whether
\* it knew the session, and sends again what is pending.
Connect ==
    /\ link = "down" /\ busy = Idle
    /\ link' = "connecting"
    /\ \E ids \in [1 .. Cardinality(Ids \ Unused) -> Ids \ Unused] :
         /\ \A a, b \in DOMAIN ids : a < b => ids[a] < ids[b]
         /\ to_device' = <<[type |-> "CONNACK", present |-> broker.present]>>
                             \o [k \in DOMAIN ids |-> Pending(ids[k])]
    /\ broker' = [broker EXCEPT !.present = TRUE]
    /\ UNCHANGED <<caches, last_message_id, busy, online, to_broker, begun, history, faults>>

-----------------------------------------------------------------------------
(* Faults. *)

Cut == link' = "down" /\ to_broker' = <<>> /\ to_device' = <<>>

\* The connection is lost.  The device learns of it through a disconnection
\* event, or not at all when the poll of the socket fails.
Drop ==
    /\ link # "down" /\ Can("drops", MaxDrops) /\ Strikes("drops")
    /\ Cut /\ online' \in {online, FALSE}
    /\ UNCHANGED <<caches, last_message_id, busy, broker, begun, history>>

\* The power is lost: astarte_mqtt_caching_restore_from_flash at the next boot.
Reboot ==
    /\ Can("reboots", MaxReboots) /\ Strikes("reboots")
    /\ Cut /\ online' = FALSE
    /\ out_msgs' = out_flash /\ in_msgs' = in_flash
    /\ last_message_id' = 0 /\ busy' = Idle
    /\ UNCHANGED <<out_flash, in_flash, broker, begun, history>>

\* The broker loses the session of a device that is not connected.
Forget ==
    /\ link = "down" /\ Can("forgets", MaxForgets) /\ Strikes("forgets")
    /\ broker' = NoSession
    /\ excused' = [out |-> 1 .. begun.out, in |-> 1 .. begun.in]
    /\ UNCHANGED <<caches, last_message_id, busy, net, begun, delivered, received>>

DeviceReceives ==
    \/ \E type \in {"PUBACK", "PUBCOMP", "SUBACK"} : Acknowledged(type)
    \/ OnPubrec \/ OnPubrel \/ OnPublish \/ OnConnack

Calls == SendIt \/ Store \/ Deliver

Next ==
    \/ \E n \in Sent : Begin(n)
    \/ \E i \in Ids : ResendOut(i) \/ ResendIn(i)
    \/ Calls \/ DeviceReceives
    \/ BrokerReceives \/ (\E n \in Incoming : BrokerSends(n))
    \/ Connect \/ Drop \/ Reboot \/ Forget

Spec == Init /\ [][Next]_vars

\* The poll is called over and over, a kept message expires in the end, and
\* the broker answers; a lost connection is tried again.
FairSpec ==
    /\ Spec
    /\ WF_vars(Calls) /\ WF_vars(DeviceReceives)
    /\ WF_vars(BrokerReceives) /\ WF_vars(Connect)
    /\ \A i \in Ids : SF_vars(ResendOut(i)) /\ SF_vars(ResendIn(i))

-----------------------------------------------------------------------------
(* Properties. *)

Wanted(n) == n <= begun.out /\ OutKinds[n] # "qos0" /\ n \notin excused.out

\* Flash has worked, or the power stayed on to make up for it.
Kept == faults.kv = 0 \/ faults.reboots = 0

\* A message that wants an answer stays in the cache until Astarte has it,
\* whatever is lost, and across power losses (mqtt/caching.c: a message that
\* "has timed out, it will be retransmitted").  This needs Window = 1: when a
\* message is sent twice before its first answer, the second answer may remove
\* a new message that was given its id (ids come round, and their counter
\* restarts with the program).
AtLeastOnce ==
    Kept => \A n \in Sent :
        Wanted(n) => delivered[n] > 0 \/ \E i \in Ids : out_msgs[i] = n

\* Between two calls the flash holds what the RAM holds, incoming ids included.
FlashMirrorsCache ==
    faults.kv = 0 /\ busy = Idle => out_flash = out_msgs /\ in_flash = in_msgs

\* A QoS 2 message reaches the application at most once, however often the
\* broker sends it and whenever the power is lost.
ReceivedOnce ==
    Kept => \A n \in Incoming :
        InKinds[n] = "qos2" /\ n \notin excused.in => received[n] <= 1

\* The cache of a connected client holds messages of the session it is in,
\* unless the CONNACK that told the sessions apart was lost with a connection.
NoStaleSession ==
    faults.drops <= 1 /\ faults.reboots = 0 /\ link = "up" =>
        \A i \in Ids : out_msgs[i] # None => out_msgs[i] \notin excused.out

\* A message the broker has done with reached the application, unless the power
\* was lost between its acknowledgement and its delivery.
ReceivedIfDone ==
    faults.reboots = 0 /\ faults.forgets = 0 => \A n \in Incoming :
        n <= begun.in /\ InKinds[n] # "qos0" /\ n \notin excused.in =>
            \/ received[n] > 0
            \/ \E i \in Ids : broker.pending[i] # None /\ broker.pending[i].msg = n
            \/ busy # Idle /\ busy.pc \in {"store", "deliver"} /\ busy.msg = n

\* Once the connection holds, every message is acknowledged in the end, however
\* often its packets were lost, unless the broker lost the session.
CachesDrain ==
    <>[](faults.forgets = 0 =>
            link = "up" /\ \A i \in Ids : out_msgs[i] = None /\ in_msgs = {})
=============================================================================
