--------------------------- MODULE SessionProofs ---------------------------
(***************************************************************************)
(* Theorems about Session, for every set of interfaces, any faults and     *)
(* however often they strike: the types, what the completed                *)
(* synchronization is worth, and that a device whose threads interleave    *)
(* only while one of them sleeps implements the connectivity diagram and   *)
(* tells the application the truth for as long as it notices its faults.   *)
(***************************************************************************)
EXTENDS Session, TLAPS

(* The records the state is made of, and their updates. *)
LEMMA ReadType ==
    ASSUME NEW q \in Seq(Packet), q # <<>>
    PROVE  Tail(q) \in Seq(Packet) /\ Head(q) \in Packet
OBVIOUS

LEMMA ConnackType ==
    ASSUME NEW packet \in Packet, packet.type = "CONNACK" PROVE packet.present \in BOOLEAN
BY DEF Packet

LEMMA InboxType ==
    ASSUME NEW r \in Links, NEW q \in Seq(Packet) PROVE [r EXCEPT !.inbox = q] \in Links
BY DEF Links

LEMMA ArrivesType ==
    ASSUME link \in Links, NEW packet \in Packet PROVE Arrives(packet) \in Links
<1>1. Append(link.inbox, packet) \in Seq(Packet)
  BY DEF Links
<1> QED BY <1>1 DEF Arrives, Links

LEMMA NewLinkType ==
    /\ NoLink \in Links /\ [NoLink EXCEPT !.socket = "cut"] \in Links /\ Opened \in Links
<1>1. NoLink \in Links /\ Opened \in Links
  BY DEF NoLink, Opened, Links
<1>2. \A r \in Links : [r EXCEPT !.socket = "cut"] \in Links
  BY DEF Links
<1> QED BY <1>1, <1>2

LEMMA StoredType ==
    ASSUME NEW f \in Stored, NEW b \in BOOLEAN, NEW i \in Introspections
    PROVE  [f EXCEPT !.sync = b] \in Stored /\ [f EXCEPT !.intro = i] \in Stored
BY DEF Stored

LEMMA SentType ==
    ASSUME introspection \in Introspections
    PROVE  Subscriptions \subseteq Message /\ Announcements \subseteq Message
BY DEF Subscriptions, Announcements, Message, Topics, Introspections

LEMMA InitType == ASSUME Init PROVE TypeOK
<1>1. flash \in Stored
  BY DEF Init, Stored
<1>2. broker \in Knowledge
  BY DEF Init, Knowledge
<1>3. introspection \in Introspections /\ faults \in FaultLog
  BY FirmwareAssumption, FaultAssumption DEF Init, Introspections, FaultLog
<1> QED BY <1>1, <1>2, <1>3, NewLinkType DEF Init, TypeOK, States, MqttStates

LEMMA StrikeType == ASSUME TypeOK, NEW k, Strike(k) PROVE faults' \in FaultLog
BY FaultAssumption DEF TypeOK, Strike, FaultLog

LEMMA StateMachineType == ASSUME TypeOK, StateMachine PROVE TypeOK'
<1> USE DEF TypeOK, States, MqttStates, device, history, Go, NoStrike, WorkerAt
<1>1. CASE Idle
  BY <1>1 DEF Idle
<1>2. CASE StartHandshake
  <2>1. faults' \in FaultLog
    BY <1>2, StrikeType DEF StartHandshake
  <2>2. connection_state' \in States /\ worker' \in {"mqtt", "subscribe"}
    BY <1>2 DEF StartHandshake
  <2> QED BY <1>2, <2>1, <2>2 DEF StartHandshake
<1>3. CASE SetupSubscriptions
  BY <1>3, SentType, StrikeType DEF SetupSubscriptions
<1>4. CASE PublishSetup
  BY <1>4, SentType, StrikeType DEF PublishSetup
<1>5. CASE EndHandshake
  BY <1>5 DEF EndHandshake
<1>6. CASE Ready
  BY <1>6 DEF Ready
<1>7. CASE PersistSync
  <2>1. flash' \in Stored
    BY <1>7, StoredType DEF PersistSync, Stores
  <2>2. faults' \in FaultLog
    BY <1>7, StrikeType DEF PersistSync, Stores
  <2> QED BY <1>7, <2>1, <2>2 DEF PersistSync
<1>8. CASE PersistIntrospection
  BY <1>8, StoredType, StrikeType DEF PersistIntrospection, Posts
<1>9. CASE \E again \in BOOLEAN : HandshakeError(again)
  BY <1>9, StoredType, StrikeType DEF HandshakeError, Stores
<1> QED BY <1>1, <1>2, <1>3, <1>4, <1>5, <1>6, <1>7, <1>8, <1>9 DEF StateMachine

LEMMA OnDisconnectionType ==
    ASSUME TypeOK, NEW was \in MqttStates, OnDisconnection(was)
    PROVE  /\ connection_state' \in States /\ mqtt_state' \in MqttStates
           /\ link' \in Links
           /\ told' \in {"connected", "disconnected"} /\ faults' \in FaultLog
           /\ connection_event' \in BOOLEAN
BY NewLinkType, StrikeType DEF OnDisconnection, TypeOK, States, MqttStates, Posts, NoStrike

LEMMA MqttPollType == ASSUME TypeOK, MqttPoll PROVE TypeOK'
<1> USE DEF TypeOK, States, MqttStates, device, history, Go, NoStrike, WorkerAt
<1>1. CASE TimeOut
  BY <1>1, StrikeType DEF TimeOut
<1>2. CASE Reconnect
  BY <1>2, NewLinkType DEF Reconnect
<1>3. CASE Rest \/ Poll \/ NothingToRead
  BY <1>3 DEF Rest, Poll, NothingToRead
<1>4. CASE PollError
  BY <1>4, StrikeType DEF PollError
<1>5. CASE ReadsDisconnection
  BY <1>5, OnDisconnectionType DEF ReadsDisconnection, OnDisconnection
<1>6. CASE OnConnack
  <2>1. link.inbox \in Seq(Packet) /\ link.inbox # <<>>
    BY <1>6 DEF OnConnack, Reads, Links
  <2>2. link' \in Links
    BY <1>6, <2>1, ReadType, InboxType DEF OnConnack, Reads
  <2>3. session_present' \in BOOLEAN
    BY <1>6, <2>1, ReadType, ConnackType DEF OnConnack, Reads
  <2> QED BY <1>6, <2>2, <2>3 DEF OnConnack, Reads
<1>7. CASE OnAck
  <2>1. link.inbox \in Seq(Packet) /\ link.inbox # <<>>
    BY <1>7 DEF OnAck, Reads, Links
  <2>2. link' \in Links
    BY <1>7, <2>1, ReadType, InboxType DEF OnAck, Reads
  <2>3. out_msgs' \subseteq Message /\ subscription_failure' \in BOOLEAN
    BY <1>7 DEF OnAck
  <2> QED BY <1>7, <2>2, <2>3 DEF OnAck, Reads
<1> QED BY <1>1, <1>2, <1>3, <1>4, <1>5, <1>6, <1>7 DEF MqttPoll

LEMMA QueueType ==
    ASSUME TypeOK, NotConnected \/ QueueEmpty \/ Transmit \/ UpdateIntrospection
    PROVE  TypeOK'
<1> USE DEF TypeOK, device, history, Go, WorkerAt
<1>1. CASE NotConnected \/ QueueEmpty
  BY <1>1 DEF NotConnected, QueueEmpty
<1>2. CASE Transmit
  BY <1>2 DEF Transmit, Message
<1>3. CASE UpdateIntrospection
  BY <1>3, StrikeType DEF UpdateIntrospection, Introspections
<1> QED BY <1>1, <1>2, <1>3

LEMMA ApplicationType == ASSUME TypeOK, Application PROVE TypeOK'
<1> USE DEF TypeOK, States, MqttStates, device, history, Returns
<1>1. CASE ConnectBegins
  BY <1>1, NewLinkType DEF ConnectBegins
<1>2. CASE ConnectEnds
  BY <1>2 DEF ConnectEnds
<1>3. CASE DisconnectBegins
  BY <1>3, StrikeType DEF DisconnectBegins
<1>4. CASE DisconnectFails
  BY <1>4 DEF DisconnectFails
<1>5. CASE DisconnectIdle
  BY <1>5 DEF DisconnectIdle
<1>6. CASE DisconnectNow
  BY <1>6, OnDisconnectionType DEF DisconnectNow, OnDisconnection
<1>7. CASE DisconnectLater
  BY <1>7, NewLinkType DEF DisconnectLater
<1>8. CASE DisconnectRefused
  BY <1>8, StrikeType DEF DisconnectRefused
<1> QED BY <1>1, <1>2, <1>3, <1>4, <1>5, <1>6, <1>7, <1>8 DEF Application

LEMMA KnowledgeType ==
    ASSUME NEW b \in Knowledge, NEW present \in BOOLEAN,
           NEW topic \in Topics(Interfaces), NEW names \in Introspections
    PROVE  /\ [b EXCEPT !.session = present] \in Knowledge
           /\ [b EXCEPT !.session = FALSE, !.subs = {}] \in Knowledge
           /\ [b EXCEPT !.subs = @ \cup {topic}] \in Knowledge
           /\ [b EXCEPT !.intro = names] \in Knowledge
BY DEF Knowledge

LEMMA PacketType ==
    ASSUME NEW msg \in Message, NEW b \in BOOLEAN
    PROVE  [type |-> "ACK", msg |-> msg, granted |-> b] \in Packet
BY DEF Packet

LEMMA GreetingType ==
    ASSUME NEW b \in BOOLEAN PROVE [type |-> "CONNACK", present |-> b] \in Packet
BY DEF Packet

LEMMA MessageType ==
    ASSUME NEW msg \in Message
    PROVE  /\ msg.kind = "subscribe" => msg.topic \in Topics(Interfaces)
           /\ msg.kind = "introspection" => msg.names \in Introspections
BY DEF Message

LEMMA ServeType == ASSUME TypeOK, NEW msg \in Message, Serve(msg) PROVE TypeOK'
<1>1. broker \in Knowledge /\ link \in Links
  BY DEF TypeOK
<1>2. broker' \in Knowledge
  <2>1. msg.kind = "subscribe" => [broker EXCEPT !.subs = @ \cup {msg.topic}] \in Knowledge
    BY <1>1, MessageType, KnowledgeType DEF Introspections
  <2>2. msg.kind = "introspection" => [broker EXCEPT !.intro = msg.names] \in Knowledge
    BY <1>1, MessageType, KnowledgeType DEF Topics
  <2> QED BY <1>1, <2>1, <2>2 DEF Serve
<1>3. link' \in Links
  BY <1>1, PacketType, ArrivesType DEF Serve
<1>4. faults' \in FaultLog
  BY StrikeType DEF Serve, NoStrike, TypeOK
<1> QED BY <1>2, <1>3, <1>4 DEF Serve, Still, TypeOK, device

LEMMA EnvironmentType == ASSUME TypeOK, Environment PROVE TypeOK'
<1>1. CASE Accept
  <2>1. broker.session \in BOOLEAN
    BY DEF TypeOK, Knowledge
  <2>2. link' \in Links
    BY <1>1, <2>1, GreetingType, ArrivesType DEF Accept, TypeOK
  <2>3. broker' \in Knowledge
    BY <1>1 DEF Accept, TypeOK, Knowledge
  <2> QED BY <1>1, <2>2, <2>3 DEF Accept, Still, TypeOK, device
<1>2. CASE ServeAny
  BY <1>2, ServeType DEF ServeAny, TypeOK
<1>3. CASE Cut
  BY <1>3, NewLinkType, StrikeType DEF Cut, Still, TypeOK, device
<1>4. CASE Forget
  <2>1. broker' \in Knowledge
    BY <1>4 DEF Forget, TypeOK, Knowledge
  <2> QED BY <1>4, <2>1, StrikeType DEF Forget, Still, TypeOK, device
<1>5. CASE Reboot
  <2>1. flash.sync \in BOOLEAN
    BY DEF TypeOK, Stored
  <2>2. introspection' \in Introspections
    BY <1>5, FirmwareAssumption DEF Reboot, Boots, Introspections
  <2> QED BY <1>5, <2>1, <2>2, NewLinkType, StrikeType
          DEF Reboot, Boots, TypeOK, States, MqttStates
<1> QED BY <1>1, <1>2, <1>3, <1>4, <1>5 DEF Environment

LEMMA TypeStep == ASSUME TypeOK, [Next]_vars PROVE TypeOK'
<1>1. CASE UNCHANGED vars
  BY <1>1 DEF TypeOK, vars, device, history
<1> QED BY <1>1, StateMachineType, MqttPollType, QueueType, ApplicationType,
           EnvironmentType DEF Next, Worker

(* Every variable keeps its type, whatever strikes and whoever preempts:   *)
(* no step of session_manager.c, dispatcher.c or mqtt/core.c leaves the    *)
(* states those files declare.                                             *)
THEOREM TypeCorrect == Spec => []TypeOK
BY InitType, TypeStep, PTL DEF Spec
-----------------------------------------------------------------------------
(* A step of a device that has noticed its faults so far, whose two        *)
(* threads interleave only where one of them sleeps.                       *)
Sheltered == ~Preempts /\ Noticing'

\* The states that a CONNACK opens and a disconnection event closes.
Linked == {"START_HANDSHAKE", "END_HANDSHAKE", "HANDSHAKE_ERROR", "CONNECTED"}

BitFollowsState == connection_event <=> connection_state = "CONNECTED"
LinkedNeedsClient ==
    connection_state \in Linked => mqtt_state \in {"CONNECTED", "DISCONNECTING"}
ToldFollowsState ==
    /\ told = "connected" => connection_state = "CONNECTED"
    /\ connection_state = "CONNECTED" /\ worker \notin {"persist", "notify"} =>
        told = "connected"
WorkerKnowsState ==
    /\ worker \in {"subscribe", "publish"} => connection_state = "START_HANDSHAKE"
    /\ worker = "ready" => connection_state = "END_HANDSHAKE"
    /\ worker \in {"persist", "notify"} => connection_state = "CONNECTED"
ConnectingAlone ==
    app = "connecting" => /\ mqtt_state = "CONNECTING" /\ connection_state = "DISCONNECTED"
                          /\ worker \in {"socket", "wait"}
PollsAClient ==
    worker = "socket" => /\ mqtt_state # "CONNECTION_ERROR"
                         /\ mqtt_state = "DISCONNECTED" => link = NoLink
GreetedOnce ==
    /\ ~link.accepted => link.inbox = <<>>
    /\ mqtt_state = "CONNECTING" => Len(link.inbox) <= 1
    /\ mqtt_state = "CONNECTED" =>
        /\ link.socket = "open" => link.accepted
        /\ \A k \in 1 .. Len(link.inbox) : link.inbox[k].type = "ACK"

\* What makes TellsConnection and the diagram inductive.
Truthful ==
    /\ BitFollowsState /\ LinkedNeedsClient /\ ToldFollowsState /\ WorkerKnowsState
    /\ ConnectingAlone /\ PollsAClient /\ GreetedOnce

LEMMA Asleep ==
    ASSUME Sheltered, NEW pc
    PROVE  /\ WorkerAt(pc) => worker = pc /\ app # "connecting"
           /\ AppAt(pc) => app = pc /\ worker \in {"socket", "wait"}
BY DEF Sheltered, WorkerAt, AppAt

LEMMA NoticedFaults == ASSUME Sheltered, NEW kind \in Unnoticed PROVE ~Strike(kind)
BY DEF Sheltered, Noticing, Strike

LEMMA PostsTells == ASSUME Sheltered, NEW event, Posts(event) PROVE told' = event
BY NoticedFaults DEF Posts, Unnoticed

LEMMA GreetedStays ==
    ASSUME GreetedOnce, UNCHANGED <<mqtt_state, link>> PROVE GreetedOnce'
BY DEF GreetedOnce

LEMMA InitTruthful == ASSUME Init PROVE Truthful
BY DEF Init, Truthful, BitFollowsState, LinkedNeedsClient, ToldFollowsState,
       WorkerKnowsState, ConnectingAlone, PollsAClient, GreetedOnce, Linked, NoLink

\* The state machine leaves the client and the connection alone.
LEMMA StateMachineTruthful ==
    ASSUME Sheltered, TypeOK, Truthful, StateMachine PROVE Truthful'
<1>1. UNCHANGED <<mqtt_state, link>> /\ app # "connecting" /\ app' = app
  BY Asleep DEF StateMachine, Idle, StartHandshake, SetupSubscriptions, PublishSetup,
     EndHandshake, Ready, PersistSync, PersistIntrospection, HandshakeError, Go
<1>2. GreetedOnce' /\ ConnectingAlone'
  BY <1>1, GreetedStays DEF Truthful, ConnectingAlone
<1> USE DEF Truthful, BitFollowsState, LinkedNeedsClient, ToldFollowsState,
            WorkerKnowsState, PollsAClient, Linked, Go
<1>3. CASE Idle
  BY <1>1, <1>2, <1>3, Asleep DEF Idle, device, history
<1>4. CASE StartHandshake
  BY <1>1, <1>2, <1>4, Asleep DEF StartHandshake
<1>5. CASE SetupSubscriptions
  BY <1>1, <1>2, <1>5, Asleep DEF SetupSubscriptions
<1>6. CASE PublishSetup
  BY <1>1, <1>2, <1>6, Asleep DEF PublishSetup
<1>7. CASE EndHandshake
  BY <1>1, <1>2, <1>7, Asleep DEF EndHandshake, history
<1>8. CASE Ready
  BY <1>1, <1>2, <1>8, Asleep DEF Ready, history
<1>9. CASE PersistSync
  BY <1>1, <1>2, <1>9, Asleep DEF PersistSync, device
<1>10. CASE PersistIntrospection
  <2>1. told' = "connected" /\ UNCHANGED connection_state
    BY <1>10, NoticedFaults, PostsTells DEF PersistIntrospection, Unnoticed
  <2> QED BY <1>1, <1>2, <1>10, <2>1, Asleep DEF PersistIntrospection
<1>11. CASE \E again \in BOOLEAN : HandshakeError(again)
  BY <1>1, <1>2, <1>11, Asleep DEF HandshakeError
<1> QED BY <1>3, <1>4, <1>5, <1>6, <1>7, <1>8, <1>9, <1>10, <1>11 DEF StateMachine

LEMMA GreetedReset ==
    ASSUME \/ link' = NoLink
           \/ link' = [NoLink EXCEPT !.socket = "cut"]
           \/ link' = Opened /\ mqtt_state' = "CONNECTING"
    PROVE  GreetedOnce'
BY DEF GreetedOnce, NoLink, Opened

\* What a disconnection event leaves behind, read by the worker's poll or
\* raised within astarte_device_disconnect.
LEMMA OnDisconnectionTruthful ==
    ASSUME Sheltered, Truthful, NEW was \in {"CONNECTING", "CONNECTED", "DISCONNECTING"},
           OnDisconnection(was), worker \in {"socket", "wait"},
           app' # "connecting", worker' \in {"socket", "wait"},
           worker' = "socket" => was = "DISCONNECTING"
    PROVE  Truthful'
<1>1. GreetedOnce'
  <2>1. link' = NoLink
    BY DEF OnDisconnection
  <2> QED BY <2>1, GreetedReset
<1>2. told' = "disconnected"
  BY PostsTells DEF OnDisconnection
<1>3. mqtt_state' \in {"CONNECTION_ERROR", "DISCONNECTED"}
      /\ (was = "DISCONNECTING" => mqtt_state' = "DISCONNECTED")
  BY DEF OnDisconnection
<1>4. connection_state' = "DISCONNECTED" /\ connection_event' = FALSE /\ link' = NoLink
  BY DEF OnDisconnection
<1> QED BY <1>1, <1>2, <1>3, <1>4
        DEF Truthful, BitFollowsState, LinkedNeedsClient, ToldFollowsState,
            WorkerKnowsState, ConnectingAlone, PollsAClient, Linked

LEMMA ReadsGreeting ==
    ASSUME TypeOK, Truthful, Reads("CONNACK"), mqtt_state # "DISCONNECTING"
    PROVE  mqtt_state = "CONNECTING" /\ link'.inbox = <<>> /\ link'.accepted
<1>1. link.inbox \in Seq(Packet) /\ link \in Links
  BY DEF TypeOK, Links
<1>2. link.inbox # <<>> /\ Head(link.inbox).type = "CONNACK" /\ worker = "socket"
  BY DEF Reads, WorkerAt
<1>3. mqtt_state # "CONNECTED"
  BY <1>1, <1>2 DEF Truthful, GreetedOnce
<1>4. mqtt_state = "CONNECTING"
  BY <1>2, <1>3 DEF TypeOK, MqttStates, Truthful, PollsAClient, NoLink
<1>5. Len(link.inbox) <= 1 /\ link.accepted
  BY <1>2, <1>4 DEF Truthful, GreetedOnce
<1>6. Tail(link.inbox) = <<>>
  BY <1>1, <1>2, <1>5
<1>7. link' = [link EXCEPT !.inbox = Tail(link.inbox)]
  BY DEF Reads
<1> QED BY <1>1, <1>4, <1>5, <1>6, <1>7 DEF Links

LEMMA ReadsAnswer ==
    ASSUME TypeOK, Truthful, Reads("ACK"), UNCHANGED mqtt_state,
           mqtt_state \notin {"CONNECTING", "DISCONNECTING"}
    PROVE  GreetedOnce'
<1>1. link.inbox \in Seq(Packet) /\ link \in Links /\ link.inbox # <<>>
  BY DEF TypeOK, Links, Reads
<1>2. link' = [link EXCEPT !.inbox = Tail(link.inbox)]
  BY DEF Reads
<1>3. link'.inbox = Tail(link.inbox) /\ link'.accepted = link.accepted
      /\ link'.socket = link.socket
  BY <1>1, <1>2 DEF Links
<1>4. /\ Len(Tail(link.inbox)) = Len(link.inbox) - 1
      /\ \A k \in 1 .. Len(Tail(link.inbox)) : Tail(link.inbox)[k] = link.inbox[k + 1]
      /\ Len(link.inbox) \in Nat
  BY <1>1
<1>5. link.accepted
  BY <1>1 DEF Truthful, GreetedOnce
<1>6. mqtt_state = "CONNECTED" =>
        \A k \in 1 .. Len(link'.inbox) : link'.inbox[k].type = "ACK"
  BY <1>3, <1>4 DEF Truthful, GreetedOnce
<1> QED BY <1>3, <1>5, <1>6 DEF GreetedOnce

LEMMA MqttPollTruthful ==
    ASSUME Sheltered, TypeOK, Truthful, MqttPoll PROVE Truthful'
<1> USE DEF Truthful, BitFollowsState, LinkedNeedsClient, ToldFollowsState,
            WorkerKnowsState, ConnectingAlone, PollsAClient, Linked, Go, device, history
<1>1. CASE TimeOut
  <2>1. GreetedOnce'
    BY <1>1 DEF TimeOut, GreetedOnce
  <2> QED BY <1>1, <2>1, Asleep DEF TimeOut
<1>2. CASE Reconnect
  <2>1. GreetedOnce'
    BY <1>2, GreetedReset DEF Reconnect
  <2> QED BY <1>2, <2>1, Asleep DEF Reconnect
<1>3. CASE Rest
  BY <1>3, Asleep, GreetedStays DEF Rest
<1>4. CASE Poll
  BY <1>4, Asleep, GreetedStays DEF Poll
<1>5. CASE PollError
  BY <1>5, NoticedFaults DEF PollError, Unnoticed
<1>6. CASE NothingToRead
  BY <1>6, Asleep, GreetedStays DEF NothingToRead
<1>7. CASE ReadsDisconnection
  <2>1. /\ worker = "socket" /\ worker' = "wait" /\ app' # "connecting"
        /\ link.socket = "cut" /\ OnDisconnection(mqtt_state)
    BY <1>7, Asleep DEF ReadsDisconnection
  <2>2. mqtt_state \in {"CONNECTING", "CONNECTED", "DISCONNECTING"}
    BY <2>1 DEF TypeOK, MqttStates, NoLink
  <2> QED BY <2>1, <2>2, OnDisconnectionTruthful
<1>8. CASE OnConnack
  <2>1. mqtt_state = "CONNECTING" /\ link'.inbox = <<>> /\ link'.accepted
    BY <1>8, ReadsGreeting DEF OnConnack
  <2>2. /\ mqtt_state' = "CONNECTED" /\ connection_state' = "START_HANDSHAKE"
        /\ worker = "socket" /\ worker' = "wait" /\ app' # "connecting"
        /\ UNCHANGED <<connection_event, told>>
    BY <1>8, <2>1, Asleep DEF OnConnack, Reads
  <2>3. GreetedOnce'
    BY <2>1, <2>2 DEF GreetedOnce
  <2> QED BY <2>1, <2>2, <2>3
<1>9. CASE OnAck
  <2>1. GreetedOnce'
    BY <1>9, ReadsAnswer DEF OnAck
  <2>2. /\ worker = "socket" /\ worker' = "wait" /\ app' # "connecting"
        /\ UNCHANGED <<connection_state, connection_event, mqtt_state, told>>
    BY <1>9, Asleep DEF OnAck, Reads
  <2> QED BY <2>1, <2>2
<1> QED BY <1>1, <1>2, <1>3, <1>4, <1>5, <1>6, <1>7, <1>8, <1>9 DEF MqttPoll

LEMMA QueueTruthful ==
    ASSUME Sheltered, Truthful, NotConnected \/ QueueEmpty \/ Transmit \/ UpdateIntrospection
    PROVE  Truthful'
<1>1. /\ UNCHANGED <<connection_state, connection_event, mqtt_state, link, told, app>>
      /\ worker = "wait" /\ worker' = "poll" /\ app # "connecting"
  BY Asleep DEF NotConnected, QueueEmpty, Transmit, UpdateIntrospection, Go, device, history
<1> QED BY <1>1, GreetedStays
        DEF Truthful, BitFollowsState, LinkedNeedsClient, ToldFollowsState,
            WorkerKnowsState, ConnectingAlone, PollsAClient

LEMMA ApplicationTruthful ==
    ASSUME Sheltered, TypeOK, Truthful, Application PROVE Truthful'
<1> USE DEF Truthful, BitFollowsState, LinkedNeedsClient, ToldFollowsState,
            WorkerKnowsState, ConnectingAlone, PollsAClient, Linked, Returns, device, history
<1>1. CASE ConnectBegins
  <2>1. GreetedOnce'
    BY <1>1, GreetedReset DEF ConnectBegins
  <2> QED BY <1>1, <2>1, Asleep DEF ConnectBegins
<1>2. CASE ConnectEnds
  BY <1>2, Asleep, GreetedStays DEF ConnectEnds
<1>3. CASE DisconnectBegins
  BY <1>3, Asleep, GreetedStays DEF DisconnectBegins
<1>4. CASE DisconnectFails
  BY <1>4, Asleep, GreetedStays DEF DisconnectFails
<1>5. CASE DisconnectIdle
  <2>1. GreetedOnce'
    BY <1>5 DEF DisconnectIdle, GreetedOnce
  <2> QED BY <1>5, <2>1, Asleep DEF DisconnectIdle
<1>6. CASE DisconnectNow
  <2>1. /\ OnDisconnection("DISCONNECTING") /\ worker \in {"socket", "wait"}
        /\ worker' = worker /\ app' = "idle"
    BY <1>6, Asleep DEF DisconnectNow
  <2> QED BY <2>1, OnDisconnectionTruthful
<1>7. CASE DisconnectLater
  <2>1. GreetedOnce'
    BY <1>7, GreetedReset DEF DisconnectLater
  <2> QED BY <1>7, <2>1, Asleep DEF DisconnectLater
<1>8. CASE DisconnectRefused
  BY <1>8, NoticedFaults DEF DisconnectRefused, Unnoticed
<1> QED BY <1>1, <1>2, <1>3, <1>4, <1>5, <1>6, <1>7, <1>8 DEF Application

LEMMA Arrived ==
    ASSUME link \in Links, NEW packet \in Packet, link' = Arrives(packet)
    PROVE  /\ link'.accepted
           /\ link.inbox \in Seq(Packet) /\ link'.inbox = Append(link.inbox, packet)
BY DEF Links, Arrives

\* The device, its threads and what the application was told stay.
LEMMA NetworkTruthful ==
    ASSUME Truthful, Still, GreetedOnce',
           UNCHANGED link \/ mqtt_state # "DISCONNECTED" \/ link # NoLink
    PROVE  Truthful'
BY DEF Still, device, Truthful, BitFollowsState, LinkedNeedsClient, ToldFollowsState,
       WorkerKnowsState, ConnectingAlone, PollsAClient, Linked

LEMMA AcceptGreets ==
    ASSUME TypeOK, Truthful, Accept PROVE GreetedOnce' /\ link # NoLink
<1>1. broker.session \in BOOLEAN /\ link \in Links
  BY DEF TypeOK, Knowledge
<1>2. link'.accepted /\ link'.inbox = Append(link.inbox, [type |-> "CONNACK", present |-> broker.session])
  BY <1>1, GreetingType, Arrived DEF Accept
<1>3. link.inbox = <<>> /\ mqtt_state # "CONNECTED" /\ UNCHANGED mqtt_state
  BY DEF Accept, Still, Truthful, GreetedOnce
<1>4. Len(link'.inbox) = 1
  BY <1>2, <1>3
<1>5. link # NoLink
  BY DEF Accept, NoLink
<1> QED BY <1>2, <1>3, <1>4, <1>5 DEF GreetedOnce

LEMMA ServeGreets ==
    ASSUME TypeOK, Truthful, NEW msg \in Message, Serve(msg) PROVE GreetedOnce'
<1>1. link \in Links
  BY DEF TypeOK
<1>2. PICK granted \in BOOLEAN :
        link' = Arrives([type |-> "ACK", msg |-> msg, granted |-> granted])
  BY DEF Serve
<1> DEFINE ack == [type |-> "ACK", msg |-> msg, granted |-> granted]
<1>3. ack \in Packet /\ ack.type = "ACK"
  BY PacketType
<1> HIDE DEF ack
<1>4. /\ link'.accepted /\ link.inbox \in Seq(Packet)
      /\ link'.inbox = Append(link.inbox, ack)
  BY <1>1, <1>2, <1>3, Arrived DEF ack
<1>5. mqtt_state = "CONNECTED" /\ UNCHANGED mqtt_state
  BY DEF Serve, Still
<1>6. \A k \in 1 .. Len(link.inbox) : link.inbox[k].type = "ACK"
  BY <1>5 DEF Truthful, GreetedOnce
<1>7. \A k \in 1 .. Len(link'.inbox) : link'.inbox[k].type = "ACK"
  BY <1>3, <1>4, <1>6
<1> QED BY <1>4, <1>5, <1>7 DEF GreetedOnce

LEMMA EnvironmentTruthful ==
    ASSUME TypeOK, Truthful, Environment PROVE Truthful'
<1>1. CASE Accept
  BY <1>1, AcceptGreets, NetworkTruthful DEF Accept
<1>2. CASE ServeAny
  <2>1. PICK msg \in Message : Serve(msg)
    BY <1>2 DEF ServeAny, TypeOK
  <2>2. mqtt_state # "DISCONNECTED" /\ Still
    BY <2>1 DEF Serve
  <2> QED BY <2>1, <2>2, ServeGreets, NetworkTruthful
<1>3. CASE Cut
  <2>1. GreetedOnce' /\ link # NoLink
    BY <1>3, GreetedReset DEF Cut, NoLink
  <2> QED BY <1>3, <2>1, NetworkTruthful DEF Cut
<1>4. CASE Forget
  <2>1. GreetedOnce' /\ UNCHANGED link
    BY <1>4, GreetedStays DEF Forget, Still, Truthful
  <2> QED BY <1>4, <2>1, NetworkTruthful DEF Forget
<1>5. CASE Reboot
  <2>1. GreetedOnce'
    BY <1>5, GreetedReset DEF Reboot
  <2> QED BY <1>5, <2>1
          DEF Reboot, Boots, Truthful, BitFollowsState, LinkedNeedsClient,
              ToldFollowsState, WorkerKnowsState, ConnectingAlone, PollsAClient, Linked
<1> QED BY <1>1, <1>2, <1>3, <1>4, <1>5 DEF Environment

LEMMA TruthfulStep ==
    ASSUME Sheltered, TypeOK, Truthful, [Next]_vars PROVE Truthful'
<1>1. CASE UNCHANGED vars
  BY <1>1, GreetedStays
     DEF vars, device, history, Truthful, BitFollowsState, LinkedNeedsClient,
         ToldFollowsState, WorkerKnowsState, ConnectingAlone, PollsAClient
<1> QED BY <1>1, StateMachineTruthful, MqttPollTruthful, QueueTruthful,
           ApplicationTruthful, EnvironmentTruthful DEF Next, Worker

\* A fault that struck is not forgotten.
FaultsRemain == faults.kinds \subseteq faults'.kinds

LEMMA StrikeRemains == ASSUME NEW kind, Strike(kind) PROVE FaultsRemain
BY DEF Strike, FaultsRemain

LEMMA StepRemains == ASSUME [Next]_vars PROVE FaultsRemain
<1> USE StrikeRemains DEF FaultsRemain, NoStrike, history
<1>1. CASE StateMachine
  BY <1>1 DEF StateMachine, Idle, StartHandshake, SetupSubscriptions, PublishSetup,
     EndHandshake, Ready, PersistSync, PersistIntrospection, HandshakeError, Posts, Stores
<1>2. CASE MqttPoll
  BY <1>2 DEF MqttPoll, TimeOut, Reconnect, Rest, Poll, PollError, NothingToRead,
     ReadsDisconnection, OnDisconnection, OnConnack, OnAck, Posts
<1>3. CASE NotConnected \/ QueueEmpty \/ Transmit \/ UpdateIntrospection
  BY <1>3 DEF NotConnected, QueueEmpty, Transmit, UpdateIntrospection
<1>4. CASE Application
  BY <1>4 DEF Application, ConnectBegins, ConnectEnds, DisconnectBegins, DisconnectFails,
     DisconnectIdle, DisconnectNow, DisconnectLater, DisconnectRefused, OnDisconnection, Posts
<1>5. CASE Environment
  BY <1>5 DEF Environment, Accept, ServeAny, Serve, Cut, Forget, Reboot, Still, Posts
<1>6. CASE UNCHANGED vars
  BY <1>6 DEF vars
<1> QED BY <1>1, <1>2, <1>3, <1>4, <1>5, <1>6 DEF Next, Worker

\* As long as every fault is noticed.
NoticedTruthful == TypeOK /\ (Noticing => Truthful)

LEMMA NoticedStep ==
    ASSUME ~Preempts, NoticedTruthful, [Next]_vars PROVE NoticedTruthful'
<1>1. Noticing' => Sheltered /\ Noticing
  BY StepRemains DEF Sheltered, Noticing, FaultsRemain
<1> QED BY <1>1, TypeStep, TruthfulStep DEF NoticedTruthful

LEMMA AlwaysTruthful == ASSUME ~Preempts PROVE Spec => []NoticedTruthful
<1>1. Init => NoticedTruthful
  BY InitType, InitTruthful DEF NoticedTruthful
<1> QED BY <1>1, NoticedStep, PTL DEF Spec

(* A sheltered device tells its application the truth: whenever the worker *)
(* sleeps, the bit that lets it transmit and the last event posted both    *)
(* say CONNECTED exactly when connection_state does, through any number of *)
(* drops, refusals, reboots and requests of the application.               *)
THEOREM ShelteredTellsConnection ==
    ASSUME ~Preempts PROVE Spec => []TellsConnection
<1>1. NoticedTruthful => TellsConnection
  BY DEF NoticedTruthful, Truthful, BitFollowsState, ToldFollowsState, TellsConnection
<1> QED BY <1>1, AlwaysTruthful, PTL

-----------------------------------------------------------------------------
(* Implementation of the diagram: every step of the device is one of its   *)
(* edges, or leaves state, told and parity alone.                          *)
Edge == Diagram!Next \/ UNCHANGED <<connection_state, told, parity>>

LEMMA StateMachineEdge ==
    ASSUME Sheltered, TypeOK, Truthful, StateMachine PROVE Edge
<1> USE DEF Edge, history
<1>1. CASE Idle
  BY <1>1 DEF Idle, device
<1>2. CASE StartHandshake
  BY <1>2 DEF StartHandshake, Diagram!Next, Diagram!HandshakeSent,
              Diagram!HandshakeFailed, Diagram!Along
<1>3. CASE SetupSubscriptions
  BY <1>3, Asleep DEF SetupSubscriptions, Truthful, WorkerKnowsState, Diagram!Next,
                      Diagram!HandshakeFailed, Diagram!Along
<1>4. CASE PublishSetup
  BY <1>4, Asleep DEF PublishSetup, Truthful, WorkerKnowsState, Diagram!Next,
                      Diagram!HandshakeSent, Diagram!HandshakeFailed, Diagram!Along
<1>5. CASE EndHandshake
  BY <1>5 DEF EndHandshake, Diagram!Next, Diagram!HandshakeFailed, Diagram!Along
<1>6. CASE Ready
  BY <1>6, Asleep DEF Ready, Truthful, WorkerKnowsState, Diagram!Next,
                      Diagram!HandshakeDone, Diagram!Along
<1>7. CASE PersistSync
  BY <1>7 DEF PersistSync, device
<1>8. CASE PersistIntrospection
  <2>1. told' = "connected" /\ UNCHANGED <<connection_state, parity>>
    BY <1>8, NoticedFaults, PostsTells DEF PersistIntrospection, Unnoticed
  <2>2. connection_state = "CONNECTED" /\ told \in {"connected", "disconnected"}
    BY <1>8, Asleep DEF PersistIntrospection, Truthful, WorkerKnowsState, TypeOK
  <2> QED BY <2>1, <2>2 DEF Diagram!Next, Diagram!TellConnected
<1>9. CASE \E again \in BOOLEAN : HandshakeError(again)
  BY <1>9 DEF HandshakeError, Diagram!Next, Diagram!MqttConnection, Diagram!Along
<1> QED BY <1>1, <1>2, <1>3, <1>4, <1>5, <1>6, <1>7, <1>8, <1>9 DEF StateMachine

\* A disconnection event, or a reboot.
LEMMA DropEdge ==
    ASSUME TypeOK, Truthful, connection_state' = "DISCONNECTED",
           told' = "disconnected", UNCHANGED parity
    PROVE  Edge
BY DEF Edge, TypeOK, Truthful, ToldFollowsState, Diagram!Next, Diagram!MqttDisconnection

LEMMA MqttPollEdge ==
    ASSUME Sheltered, TypeOK, Truthful, MqttPoll PROVE Edge
<1>1. CASE TimeOut \/ Reconnect \/ Rest \/ Poll \/ PollError \/ NothingToRead \/ OnAck
  BY <1>1 DEF Edge, device, history, TimeOut, Reconnect, Rest, Poll, PollError,
              NothingToRead, OnAck
<1>2. CASE ReadsDisconnection
  BY <1>2, PostsTells, DropEdge DEF ReadsDisconnection, OnDisconnection
<1>3. CASE OnConnack
  <2>1. mqtt_state = "CONNECTING"
    BY <1>3, ReadsGreeting DEF OnConnack
  <2>2. connection_state \in {"DISCONNECTED", "MQTT_CONNECTING"}
    BY <2>1 DEF TypeOK, States, Truthful, LinkedNeedsClient, Linked
  <2> QED BY <1>3, <2>2 DEF OnConnack, history, Edge, Diagram!Next,
                            Diagram!MqttConnection, Diagram!Along
<1> QED BY <1>1, <1>2, <1>3 DEF MqttPoll

LEMMA QueueEdge ==
    ASSUME Sheltered, Truthful, NotConnected \/ QueueEmpty \/ Transmit \/ UpdateIntrospection
    PROVE  Edge
<1>1. CASE Transmit
  BY <1>1 DEF Transmit, Truthful, BitFollowsState, device, Edge, Diagram!Next, Diagram!Transmit
<1> QED BY <1>1 DEF Edge, NotConnected, QueueEmpty, UpdateIntrospection, device, history

LEMMA ApplicationEdge ==
    ASSUME Sheltered, TypeOK, Truthful, Application PROVE Edge
<1>1. CASE ConnectEnds
  BY <1>1 DEF ConnectEnds, AppAt, history, Truthful, ConnectingAlone, Edge,
              Diagram!Next, Diagram!ConnectionRequest, Diagram!Along
<1>2. CASE DisconnectNow
  BY <1>2, PostsTells, DropEdge DEF DisconnectNow, OnDisconnection
<1> QED BY <1>1, <1>2 DEF Application, Edge, device, history, ConnectBegins,
           DisconnectBegins, DisconnectFails, DisconnectIdle, DisconnectLater,
           DisconnectRefused

LEMMA EnvironmentEdge == ASSUME TypeOK, Truthful, Environment PROVE Edge
<1>1. CASE Reboot
  BY <1>1, DropEdge DEF Reboot, Boots
<1>2. CASE ServeAny
  BY <1>2 DEF ServeAny, Serve, Still, Edge, device
<1> QED BY <1>1, <1>2 DEF Environment, Accept, Cut, Forget, Still, Edge, device

LEMMA EveryStepAnEdge ==
    ASSUME Sheltered, TypeOK, Truthful, [Next]_vars PROVE [Diagram!Next]_(Diagram!vars)
<1>1. Edge
  <2>1. CASE UNCHANGED vars
    BY <2>1 DEF vars, device, history, Edge
  <2> QED BY <2>1, StateMachineEdge, MqttPollEdge, QueueEdge, ApplicationEdge,
             EnvironmentEdge DEF Next, Worker
<1> QED BY <1>1 DEF Edge, Diagram!vars

(* A sheltered device implements the connectivity diagram of the           *)
(* architecture document: its state moves along the edges only, events are *)
(* posted on entering CONNECTED and on the way to DISCONNECTED, and the    *)
(* queue is transmitted in CONNECTED alone.                                *)
THEOREM ShelteredFollowsDiagram ==
    ASSUME ~Preempts PROVE Spec => FollowsDiagram
<1>1. Init => Diagram!Init
  BY DEF Init, Diagram!Init
<1>2. NoticedTruthful /\ [Next]_vars => [Noticing' => Diagram!Next]_(Diagram!vars)
  <2>1. SUFFICES ASSUME NoticedTruthful, [Next]_vars, Noticing'
                 PROVE  [Diagram!Next]_(Diagram!vars)
    OBVIOUS
  <2>2. Sheltered /\ Noticing
    BY <2>1, StepRemains DEF Sheltered, Noticing, FaultsRemain
  <2> QED BY <2>1, <2>2, EveryStepAnEdge DEF NoticedTruthful
<1> QED BY <1>1, <1>2, AlwaysTruthful, PTL DEF Spec, FollowsDiagram

-----------------------------------------------------------------------------
(* What the completed synchronization is worth, whatever strikes and       *)
(* whoever preempts.                                                       *)
Known == broker.intro # Unknown
PendingOrKnown ==
    connection_state = "END_HANDSHAKE" =>
        Known \/ \E msg \in out_msgs : msg.kind = "introspection"
AnsweredIsKnown ==
    \A k \in 1 .. Len(link.inbox) :
        link.inbox[k].type = "ACK" /\ link.inbox[k].msg.kind = "introspection" => Known
WorkerIsSure == worker \in {"ready", "persist"} => Known

\* What makes SynchronizedMeansHeard inductive.
Heard == SynchronizedMeansHeard /\ PendingOrKnown /\ AnsweredIsKnown /\ WorkerIsSure

LEMMA InitHeard == ASSUME Init PROVE Heard
BY DEF Init, Heard, SynchronizedMeansHeard, PendingOrKnown, AnsweredIsKnown,
       WorkerIsSure, NoLink

LEMMA InboxHeard ==
    ASSUME AnsweredIsKnown, UNCHANGED broker,
           \/ UNCHANGED link
           \/ link' = NoLink
           \/ link' = [NoLink EXCEPT !.socket = "cut"]
           \/ link' = Opened
    PROVE  AnsweredIsKnown'
BY DEF AnsweredIsKnown, Known, NoLink, Opened

\* A step that neither asks Astarte anything nor concludes anything.
LEMMA QuietHeard ==
    ASSUME Heard, UNCHANGED broker,
           synchronization_completed' \/ flash'.sync =>
                synchronization_completed \/ flash.sync,
           connection_state' = "END_HANDSHAKE" =>
                connection_state = "END_HANDSHAKE" /\ out_msgs \subseteq out_msgs',
           AnsweredIsKnown',
           worker' \in {"ready", "persist"} => worker' = worker
    PROVE  Heard'
BY DEF Heard, SynchronizedMeansHeard, PendingOrKnown, WorkerIsSure, Known

LEMMA StateMachineHeard == ASSUME TypeOK, Heard, StateMachine PROVE Heard'
<1>1. UNCHANGED <<broker, link>>
  BY DEF StateMachine, Idle, StartHandshake, SetupSubscriptions, PublishSetup,
         EndHandshake, Ready, PersistSync, PersistIntrospection, HandshakeError
<1>2. AnsweredIsKnown'
  BY <1>1, InboxHeard DEF Heard
<1> USE DEF Go, device
<1>3. CASE Idle
  BY <1>1, <1>2, <1>3, QuietHeard DEF Idle
<1>4. CASE StartHandshake
  BY <1>1, <1>2, <1>4 DEF StartHandshake, StaysSynchronized, Heard,
     SynchronizedMeansHeard, PendingOrKnown, WorkerIsSure, Known
<1>5. CASE SetupSubscriptions
  BY <1>1, <1>2, <1>5, QuietHeard DEF SetupSubscriptions
<1>6. CASE PublishSetup
  <2>1. \E msg \in out_msgs' : msg.kind = "introspection"
    <3> DEFINE announced == [kind |-> "introspection", names |-> introspection]
    <3>1. announced \in Announcements /\ announced.kind = "introspection"
      BY DEF Announcements
    <3> HIDE DEF announced
    <3> QED BY <1>6, <3>1 DEF PublishSetup
  <2> QED BY <1>1, <1>2, <1>6, <2>1
          DEF PublishSetup, Heard, SynchronizedMeansHeard, PendingOrKnown, WorkerIsSure, Known
<1>7. CASE EndHandshake
  BY <1>1, <1>2, <1>7 DEF EndHandshake, Heard, SynchronizedMeansHeard, PendingOrKnown,
     WorkerIsSure, Known
<1>8. CASE Ready
  BY <1>1, <1>2, <1>8 DEF Ready, WorkerAt, Heard, SynchronizedMeansHeard, PendingOrKnown,
     WorkerIsSure, Known
<1>9. CASE PersistSync
  BY <1>1, <1>2, <1>9 DEF PersistSync, WorkerAt, Heard, SynchronizedMeansHeard,
     PendingOrKnown, WorkerIsSure, Known
<1>10. CASE PersistIntrospection
  <2>1. flash'.sync = flash.sync
    BY <1>10 DEF PersistIntrospection, TypeOK, Stored
  <2> QED BY <1>1, <1>2, <1>10, <2>1, QuietHeard DEF PersistIntrospection
<1>11. CASE \E again \in BOOLEAN : HandshakeError(again)
  <2>1. flash'.sync => flash.sync
    BY <1>11 DEF HandshakeError, Stores, TypeOK, Stored
  <2> QED BY <1>1, <1>2, <1>11, <2>1, QuietHeard DEF HandshakeError
<1> QED BY <1>3, <1>4, <1>5, <1>6, <1>7, <1>8, <1>9, <1>10, <1>11 DEF StateMachine

LEMMA TailHeard ==
    ASSUME TypeOK, AnsweredIsKnown, UNCHANGED broker, NEW type, Reads(type)
    PROVE  AnsweredIsKnown'
<1>1. link.inbox \in Seq(Packet) /\ link \in Links /\ link.inbox # <<>>
  BY DEF TypeOK, Links, Reads
<1>2. link'.inbox = Tail(link.inbox)
  BY <1>1 DEF Reads, Links
<1>3. /\ Len(Tail(link.inbox)) = Len(link.inbox) - 1 /\ Len(link.inbox) \in Nat
      /\ \A k \in 1 .. Len(Tail(link.inbox)) : Tail(link.inbox)[k] = link.inbox[k + 1]
  BY <1>1
<1> QED BY <1>2, <1>3 DEF AnsweredIsKnown, Known

LEMMA MqttPollHeard == ASSUME TypeOK, Heard, MqttPoll PROVE Heard'
<1> USE DEF Go, device
<1>1. CASE TimeOut \/ Reconnect \/ Rest \/ Poll \/ PollError \/ NothingToRead
  <2>1. AnsweredIsKnown'
    BY <1>1, InboxHeard DEF Heard, TimeOut, Reconnect, Rest, Poll, PollError, NothingToRead
  <2> QED BY <1>1, <2>1, QuietHeard
          DEF TimeOut, Reconnect, Rest, Poll, PollError, NothingToRead
<1>2. CASE ReadsDisconnection
  <2>1. AnsweredIsKnown'
    BY <1>2, InboxHeard DEF Heard, ReadsDisconnection, OnDisconnection
  <2> QED BY <1>2, <2>1, QuietHeard DEF ReadsDisconnection, OnDisconnection
<1>3. CASE OnConnack
  <2>1. AnsweredIsKnown'
    BY <1>3, TailHeard DEF OnConnack, Heard
  <2> QED BY <1>3, <2>1, QuietHeard DEF OnConnack, Reads
<1>4. CASE OnAck
  <2>1. AnsweredIsKnown'
    BY <1>4, TailHeard DEF OnAck, Heard
  <2>2. Head(link.inbox).msg.kind = "introspection" => Known
    <3>1. link.inbox \in Seq(Packet) /\ link.inbox # <<>> /\ Head(link.inbox).type = "ACK"
      BY <1>4 DEF TypeOK, Links, OnAck, Reads
    <3>2. Head(link.inbox) = link.inbox[1] /\ 1 \in 1 .. Len(link.inbox)
      BY <3>1
    <3> QED BY <3>1, <3>2 DEF Heard, AnsweredIsKnown
  <2>3. /\ UNCHANGED <<connection_state, synchronization_completed, flash, broker>>
        /\ out_msgs' = out_msgs \ {Head(link.inbox).msg} /\ worker' = "wait"
    BY <1>4 DEF OnAck, Reads
  <2>4. PendingOrKnown'
    BY <2>2, <2>3 DEF Heard, PendingOrKnown, Known
  <2> QED BY <2>1, <2>3, <2>4 DEF Heard, SynchronizedMeansHeard, WorkerIsSure, Known
<1> QED BY <1>1, <1>2, <1>3, <1>4 DEF MqttPoll

LEMMA QueueHeard ==
    ASSUME Heard, NotConnected \/ QueueEmpty \/ Transmit \/ UpdateIntrospection
    PROVE  Heard'
<1>1. /\ UNCHANGED <<connection_state, synchronization_completed, flash, broker, link>>
      /\ out_msgs \subseteq out_msgs' /\ worker' = "poll"
  BY DEF NotConnected, QueueEmpty, Transmit, UpdateIntrospection, Go, device
<1>2. AnsweredIsKnown'
  BY <1>1, InboxHeard DEF Heard
<1> QED BY <1>1, <1>2, QuietHeard

LEMMA ApplicationHeard == ASSUME Heard, Application PROVE Heard'
<1>1. /\ UNCHANGED <<synchronization_completed, flash, broker, worker, out_msgs>>
      /\ connection_state' = "END_HANDSHAKE" => connection_state = "END_HANDSHAKE"
  BY DEF Application, ConnectBegins, ConnectEnds, DisconnectBegins, DisconnectFails,
         DisconnectIdle, DisconnectNow, DisconnectLater, DisconnectRefused,
         OnDisconnection, Returns, device
<1>2. AnsweredIsKnown'
  <2>1. \/ UNCHANGED link
        \/ link' = NoLink
        \/ link' = [NoLink EXCEPT !.socket = "cut"]
        \/ link' = Opened
    BY DEF Application, ConnectBegins, ConnectEnds, DisconnectBegins, DisconnectFails,
           DisconnectIdle, DisconnectNow, DisconnectLater, DisconnectRefused, OnDisconnection
  <2> QED BY <1>1, <2>1, InboxHeard DEF Heard
<1> QED BY <1>1, <1>2, QuietHeard

LEMMA EnvironmentHeard == ASSUME TypeOK, Heard, Environment PROVE Heard'
<1>1. CASE Accept
  <2>1. broker'.intro = broker.intro /\ broker.session \in BOOLEAN /\ link \in Links
    BY <1>1 DEF Accept, TypeOK, Knowledge
  <2> DEFINE greeting == [type |-> "CONNACK", present |-> broker.session]
  <2>2. greeting \in Packet /\ greeting.type # "ACK"
    BY <2>1, GreetingType
  <2> HIDE DEF greeting
  <2>3. link.inbox \in Seq(Packet) /\ link'.inbox = Append(link.inbox, greeting)
    BY <1>1, <2>1, <2>2, Arrived DEF Accept, greeting
  <2>4. AnsweredIsKnown'
    BY <2>1, <2>2, <2>3 DEF Heard, AnsweredIsKnown, Known
  <2> QED BY <1>1, <2>1, <2>4 DEF Accept, Still, device, Heard, SynchronizedMeansHeard,
          PendingOrKnown, WorkerIsSure, Known
<1>2. CASE ServeAny
  <2>1. PICK msg \in Message : Serve(msg)
    BY <1>2 DEF ServeAny, TypeOK
  <2>2. PICK granted \in BOOLEAN :
          link' = Arrives([type |-> "ACK", msg |-> msg, granted |-> granted])
    BY <2>1 DEF Serve
  <2>3. msg.kind = "introspection" => broker'.intro = msg.names
    BY <2>1 DEF Serve, TypeOK, Knowledge
  <2>4. msg.kind # "introspection" => broker'.intro = broker.intro
    BY <2>1 DEF Serve, TypeOK, Knowledge
  <2>5. (Known => Known') /\ (msg.kind = "introspection" => Known')
    BY <2>3, <2>4, MessageType, FirmwareAssumption DEF Known, Introspections
  <2> DEFINE ack == [type |-> "ACK", msg |-> msg, granted |-> granted]
  <2>6. ack \in Packet /\ ack.msg = msg
    BY PacketType
  <2> HIDE DEF ack
  <2>7. link.inbox \in Seq(Packet) /\ link'.inbox = Append(link.inbox, ack)
    BY <2>2, <2>6, Arrived DEF ack, TypeOK
  <2>8. AnsweredIsKnown'
    BY <2>5, <2>6, <2>7 DEF Heard, AnsweredIsKnown
  <2>9. UNCHANGED <<connection_state, synchronization_completed, out_msgs, flash, worker>>
    BY <2>1 DEF Serve, Still, device
  <2> QED BY <2>5, <2>8, <2>9 DEF Heard, SynchronizedMeansHeard, PendingOrKnown,
          WorkerIsSure, Known
<1>3. CASE Cut
  <2>1. AnsweredIsKnown'
    BY <1>3, InboxHeard DEF Cut, Heard
  <2> QED BY <1>3, <2>1, QuietHeard DEF Cut, Still, device
<1>4. CASE Forget
  <2>1. broker'.intro = broker.intro
    BY <1>4 DEF Forget, TypeOK, Knowledge
  <2> QED BY <1>4, <2>1 DEF Forget, Still, device, Heard, SynchronizedMeansHeard,
          PendingOrKnown, AnsweredIsKnown, WorkerIsSure, Known
<1>5. CASE Reboot
  <2>1. AnsweredIsKnown'
    BY <1>5, InboxHeard DEF Reboot, Heard
  <2> QED BY <1>5, <2>1, QuietHeard DEF Reboot, Boots
<1> QED BY <1>1, <1>2, <1>3, <1>4, <1>5 DEF Environment

LEMMA HeardStep == ASSUME TypeOK, Heard, [Next]_vars PROVE Heard'
<1>1. CASE UNCHANGED vars
  BY <1>1 DEF vars, device, history, Heard, SynchronizedMeansHeard, PendingOrKnown,
     AnsweredIsKnown, WorkerIsSure, Known
<1> QED BY <1>1, StateMachineHeard, MqttPollHeard, QueueHeard, ApplicationHeard,
           EnvironmentHeard DEF Next, Worker

(* The flag that lets a handshake be skipped, in RAM or on flash, is never *)
(* set for a device whose introspection Astarte has not heard: no fault,   *)
(* reboot or preemption makes state_machine_end_handshake_run conclude     *)
(* while the introspection it published is lost.                           *)
THEOREM SynchronizationIsEarned == Spec => []SynchronizedMeansHeard
<1>1. Init => TypeOK /\ Heard
  BY InitType, InitHeard
<1>2. TypeOK /\ Heard /\ [Next]_vars => (TypeOK /\ Heard)'
  BY TypeStep, HeardStep
<1>3. Heard => SynchronizedMeansHeard
  BY DEF Heard
<1> QED BY <1>1, <1>2, <1>3, PTL DEF Spec
-----------------------------------------------------------------------------
(* Requests of the application.                                            *)

\* A connection that was asked for has a client that works on it, unless an
\* attempt timed out.
AttemptHasClient ==
    "timeout" \notin faults.kinds /\ connection_state = "MQTT_CONNECTING" =>
        mqtt_state \notin {"DISCONNECTED", "CONNECTION_ERROR"}

LEMMA AttemptDevice ==
    ASSUME Truthful, StateMachine \/ NotConnected \/ QueueEmpty \/ Transmit \/ UpdateIntrospection
    PROVE  UNCHANGED mqtt_state
           /\ (connection_state' = "MQTT_CONNECTING" => connection_state = "MQTT_CONNECTING")
<1>1. CASE StateMachine
  BY <1>1 DEF StateMachine, Idle, StartHandshake, SetupSubscriptions, PublishSetup,
     EndHandshake, Ready, PersistSync, PersistIntrospection, HandshakeError, device
<1>2. CASE NotConnected \/ QueueEmpty \/ Transmit \/ UpdateIntrospection
  BY <1>2 DEF NotConnected, QueueEmpty, Transmit, UpdateIntrospection, device
<1> QED BY <1>1, <1>2

LEMMA AttemptStep ==
    ASSUME Sheltered, TypeOK, Truthful, AttemptHasClient, [Next]_vars PROVE AttemptHasClient'
<1>1. "timeout" \in faults.kinds => "timeout" \in faults'.kinds
  BY StepRemains DEF FaultsRemain
<1> USE <1>1 DEF AttemptHasClient
<1>2. CASE StateMachine \/ NotConnected \/ QueueEmpty \/ Transmit \/ UpdateIntrospection
  BY <1>2, AttemptDevice
<1>3. CASE MqttPoll
  <2>1. CASE TimeOut
    BY <2>1 DEF TimeOut, Strike
  <2>2. CASE Reconnect \/ Rest \/ Poll \/ NothingToRead
    BY <2>2 DEF Reconnect, Rest, Poll, NothingToRead, device
  <2>3. CASE PollError
    BY <2>3, NoticedFaults DEF PollError, Unnoticed
  <2>4. CASE ReadsDisconnection
    BY <2>4 DEF ReadsDisconnection, OnDisconnection
  <2>5. CASE OnConnack \/ OnAck
    BY <2>5 DEF OnConnack, OnAck
  <2> QED BY <1>3, <2>1, <2>2, <2>3, <2>4, <2>5 DEF MqttPoll
<1>4. CASE Application
  <2>1. CASE ConnectBegins
    BY <2>1 DEF ConnectBegins
  <2>2. CASE ConnectEnds
    BY <2>2, Asleep DEF ConnectEnds, Truthful, ConnectingAlone
  <2>3. CASE DisconnectBegins \/ DisconnectFails \/ DisconnectIdle \/ DisconnectLater
    BY <2>3 DEF DisconnectBegins, DisconnectFails, DisconnectIdle, DisconnectLater, device
  <2>4. CASE DisconnectNow
    BY <2>4 DEF DisconnectNow, OnDisconnection
  <2>5. CASE DisconnectRefused
    BY <2>5, NoticedFaults DEF DisconnectRefused, Unnoticed
  <2> QED BY <1>4, <2>1, <2>2, <2>3, <2>4, <2>5 DEF Application
<1>5. CASE Environment
  BY <1>5 DEF Environment, Accept, ServeAny, Serve, Cut, Forget, Reboot, Boots, Still, device
<1>6. CASE UNCHANGED vars
  BY <1>6 DEF vars, device
<1> QED BY <1>2, <1>3, <1>4, <1>5, <1>6 DEF Next, Worker

(* A sheltered device whose client was disconnected, by the application or *)
(* by the broker, is one astarte_device_connect accepts a request of: no   *)
(* drop, refusal, reboot or failed handshake strands it in another state.  *)
THEOREM ShelteredIsReconnectable ==
    ASSUME ~Preempts PROVE Spec => []Reconnectable
<1> DEFINE Inv == NoticedTruthful /\ (Noticing => AttemptHasClient)
<1>1. Init => Inv
  BY InitType, InitTruthful DEF NoticedTruthful, Init, AttemptHasClient
<1>2. Inv /\ [Next]_vars => Inv'
  <2>1. SUFFICES ASSUME Inv, [Next]_vars PROVE Inv'
    OBVIOUS
  <2>2. NoticedTruthful'
    BY <2>1, NoticedStep
  <2>3. Noticing' => Sheltered /\ Noticing
    BY <2>1, StepRemains DEF Sheltered, Noticing, FaultsRemain
  <2>4. Noticing' => AttemptHasClient'
    BY <2>1, <2>3, AttemptStep DEF NoticedTruthful
  <2> QED BY <2>2, <2>4
<1>3. Inv => Reconnectable
  BY DEF NoticedTruthful, TypeOK, States, Truthful, LinkedNeedsClient, Linked,
         AttemptHasClient, Reconnectable
<1> QED BY <1>1, <1>2, <1>3, PTL DEF Spec

(* Whatever strikes but a socket error of astarte_mqtt_poll, and whoever   *)
(* preempts: a client that is DISCONNECTED leaves this state within        *)
(* astarte_device_connect alone.  Neither a late event, nor a timeout, nor *)
(* the end of a backoff makes the worker connect by itself.                *)
THEOREM ConnectsOnRequest == Spec => StaysDisconnected
<1>1. ASSUME [Next]_vars
      PROVE  Noticing' /\ mqtt_state = "DISCONNECTED" /\ mqtt_state' # mqtt_state
                => app' = "connecting"
  <2>1. SUFFICES ASSUME Noticing', mqtt_state = "DISCONNECTED", mqtt_state' # mqtt_state
                 PROVE  app' = "connecting"
    OBVIOUS
  <2>2. CASE Worker
    <3>1. ~PollError
      BY <2>1 DEF PollError, Strike, Noticing, Unnoticed
    <3> QED BY <2>1, <2>2, <3>1
            DEF Worker, StateMachine, Idle, StartHandshake, SetupSubscriptions,
                PublishSetup, EndHandshake, Ready, PersistSync, PersistIntrospection,
                HandshakeError, MqttPoll, TimeOut, Reconnect, Rest, Poll, NothingToRead,
                ReadsDisconnection, OnDisconnection, OnConnack, OnAck, NotConnected,
                QueueEmpty, Transmit, UpdateIntrospection
  <2>3. CASE Application
    BY <2>1, <2>3 DEF Application, ConnectBegins, ConnectEnds, DisconnectBegins,
       DisconnectFails, DisconnectIdle, DisconnectNow, DisconnectLater, DisconnectRefused
  <2>4. CASE Environment
    BY <2>1, <2>4 DEF Environment, Accept, ServeAny, Serve, Cut, Forget, Reboot, Boots, Still
  <2>5. CASE UNCHANGED vars
    BY <2>1, <2>5 DEF vars
  <2> QED BY <1>1, <2>2, <2>3, <2>4, <2>5 DEF Next
<1> QED BY <1>1, PTL DEF Spec, StaysDisconnected

-----------------------------------------------------------------------------
(* Astarte knows a connected device.  First, how many faults have struck   *)
(* when the broker loses the session, and what the device hears of it.     *)
Forgotten == "forget" \in faults.kinds

\* Until a fault has had its effect.
Calm == faults.times = 0 \/ (faults.times = 1 /\ app = "leaving")
IdleAtFirst == faults.times = 0 => app # "leaving"
CalmKeepsLink == Calm =>
    /\ broker.session => link.accepted
    /\ link.socket # "cut" /\ mqtt_state \in {"DISCONNECTED", "CONNECTING", "CONNECTED"}
    /\ mqtt_state = "DISCONNECTED" => link = NoLink

\* A session survives its connection for the price of a fault.
FirstLoss ==
    faults.times <= 1 /\ broker.session /\ ~link.accepted /\ link.socket = "open" =>
        mqtt_state = "CONNECTING"
AcceptedIsOpen == link.accepted => link.socket = "open"

\* The device is told that the session is lost, and remembers.
ForgottenIsTold == Forgotten =>
    /\ faults.times >= 2 /\ app # "leaving"
    /\ link.socket = "open" => mqtt_state \in {"CONNECTING", "CONNECTED"}
    /\ broker.session => link.accepted
    /\ link.accepted /\ connection_state \in Linked => ~session_present
    /\ link.accepted => \A k \in 1 .. Len(link.inbox) :
        link.inbox[k].type = "CONNACK" => ~link.inbox[k].present

Counted ==
    IdleAtFirst /\ CalmKeepsLink /\ FirstLoss /\ AcceptedIsOpen /\ ForgottenIsTold

\* A step of a sheltered device that is aware of what Astarte knows.
Heedful == ~Preempts /\ Aware'

LEMMA StepStrikes == ASSUME [Next]_vars PROVE UNCHANGED faults \/ \E kind : Strike(kind)
<1> USE DEF NoStrike, history
<1>1. CASE StateMachine
  BY <1>1 DEF StateMachine, Idle, StartHandshake, SetupSubscriptions, PublishSetup,
     EndHandshake, Ready, PersistSync, PersistIntrospection, HandshakeError, Posts, Stores
<1>2. CASE MqttPoll
  BY <1>2 DEF MqttPoll, TimeOut, Reconnect, Rest, Poll, PollError, NothingToRead,
     ReadsDisconnection, OnDisconnection, OnConnack, OnAck, Posts
<1>3. CASE NotConnected \/ QueueEmpty \/ Transmit \/ UpdateIntrospection
  BY <1>3 DEF NotConnected, QueueEmpty, Transmit, UpdateIntrospection
<1>4. CASE Application
  BY <1>4 DEF Application, ConnectBegins, ConnectEnds, DisconnectBegins, DisconnectFails,
     DisconnectIdle, DisconnectNow, DisconnectLater, DisconnectRefused, OnDisconnection, Posts
<1>5. CASE Environment
  BY <1>5 DEF Environment, Accept, ServeAny, Serve, Cut, Forget, Reboot, Still, Posts
<1>6. CASE UNCHANGED vars
  BY <1>6 DEF vars
<1> QED BY <1>1, <1>2, <1>3, <1>4, <1>5, <1>6 DEF Next, Worker

LEMMA StrikeCounts ==
    ASSUME TypeOK, NEW kind, Strike(kind)
    PROVE  faults.times \in Nat /\ faults'.times = faults.times + 1
           /\ faults'.kinds = faults.kinds \cup {kind}
BY FaultAssumption DEF TypeOK, FaultLog, Strike

LEMMA HeedfulNotices ==
    ASSUME Heedful, TypeOK, [Next]_vars
    PROVE  Sheltered /\ Noticing /\ Aware /\ faults.times \in Nat
<1>1. Sheltered /\ Noticing
  BY StepRemains DEF Heedful, Aware, Sheltered, Noticing, FaultsRemain
<1>2. faults.times \in Nat /\ faults'.times \in Nat
  BY TypeStep, FaultAssumption DEF TypeOK, FaultLog
<1>3. faults.times <= faults'.times /\ faults.kinds \subseteq faults'.kinds
  BY <1>2, StepStrikes, StrikeCounts
<1> QED BY <1>1, <1>2, <1>3 DEF Heedful, Aware

\* A third fault would make the device miss what the first two did.
LEMMA NoThirdFault ==
    ASSUME Heedful, TypeOK, Counted, Forgotten, NEW kind PROVE ~Strike(kind)
<1> SUFFICES ASSUME Strike(kind) PROVE FALSE
  OBVIOUS
<1>1. faults'.times = faults.times + 1 /\ faults.times \in Nat /\ "forget" \in faults'.kinds
  BY StrikeCounts DEF Forgotten
<1> QED BY <1>1 DEF Heedful, Aware, Counted, ForgottenIsTold

LEMMA InitCounted == ASSUME Init PROVE Counted
BY DEF Init, Counted, IdleAtFirst, CalmKeepsLink, Calm, FirstLoss, AcceptedIsOpen, ForgottenIsTold,
       Forgotten, NoLink

\* A step that leaves connection and client alone.
LEMMA QuietCounted ==
    ASSUME Heedful, TypeOK, Counted,
           UNCHANGED <<mqtt_state, link, broker, app, session_present>>,
           connection_state' \in Linked => connection_state \in Linked,
           UNCHANGED faults \/ \E kind : kind # "forget" /\ Strike(kind)
    PROVE  Counted'
<1>1. CASE UNCHANGED faults
  BY <1>1 DEF Counted, IdleAtFirst, CalmKeepsLink, Calm, FirstLoss, AcceptedIsOpen,
              ForgottenIsTold, Forgotten
<1>2. CASE \E kind : kind # "forget" /\ Strike(kind)
  <2>1. /\ faults.times \in Nat /\ faults'.times = faults.times + 1
        /\ ~Forgotten /\ ~Forgotten'
    BY <1>2, StrikeCounts, NoThirdFault DEF Forgotten
  <2> QED BY <2>1
          DEF Counted, IdleAtFirst, CalmKeepsLink, Calm, FirstLoss, AcceptedIsOpen,
              ForgottenIsTold
<1> QED BY <1>1, <1>2

LEMMA DeviceCounted ==
    ASSUME Heedful, TypeOK, Truthful, Counted, [Next]_vars,
           StateMachine \/ NotConnected \/ QueueEmpty \/ Transmit \/ UpdateIntrospection
    PROVE  Counted'
<1>1. Sheltered
  BY HeedfulNotices
<1>2. /\ UNCHANGED <<mqtt_state, link, broker, app, session_present>>
      /\ UNCHANGED faults \/ \E kind : kind # "forget" /\ Strike(kind)
  <2>1. CASE StateMachine
    BY <2>1 DEF StateMachine, Idle, StartHandshake, SetupSubscriptions, PublishSetup,
       EndHandshake, Ready, PersistSync, PersistIntrospection, HandshakeError, Posts, Stores,
       Go, device, history, NoStrike
  <2>2. CASE NotConnected \/ QueueEmpty \/ Transmit \/ UpdateIntrospection
    BY <2>2 DEF NotConnected, QueueEmpty, Transmit, UpdateIntrospection, Go, device, history
  <2> QED BY <2>1, <2>2
<1>3. connection_state' \in Linked => connection_state \in Linked
  <2>1. CASE StateMachine
    BY <1>1, <2>1, Asleep DEF StateMachine, Idle, StartHandshake, SetupSubscriptions,
       PublishSetup, EndHandshake, Ready, PersistSync, PersistIntrospection, HandshakeError,
       device, Linked, Truthful, WorkerKnowsState
  <2>2. CASE NotConnected \/ QueueEmpty \/ Transmit \/ UpdateIntrospection
    BY <2>2 DEF NotConnected, QueueEmpty, Transmit, UpdateIntrospection, device
  <2> QED BY <2>1, <2>2
<1> QED BY <1>2, <1>3, QuietCounted

\* A connection that is closed, or opened anew for a client that connects.
LEMMA ClosedCounted ==
    ASSUME TypeOK, Counted, ~Calm', IdleAtFirst', UNCHANGED broker,
           Forgotten' => Forgotten /\ app' # "leaving" /\ faults'.times >= 2
                         /\ ~link.accepted /\ UNCHANGED session_present,
           \/ link' = NoLink
           \/ link' = [NoLink EXCEPT !.socket = "cut"]
           \/ link' = Opened /\ mqtt_state' = "CONNECTING"
    PROVE  Counted'
<1>1. ~link'.accepted /\ (link'.socket = "open" => mqtt_state' = "CONNECTING")
  BY DEF NoLink, Opened
<1> QED BY <1>1 DEF Counted, CalmKeepsLink, FirstLoss, AcceptedIsOpen, ForgottenIsTold, Forgotten

LEMMA MqttPollCounted ==
    ASSUME Heedful, TypeOK, Truthful, Counted, [Next]_vars, MqttPoll PROVE Counted'
<1>1. Sheltered /\ faults.times \in Nat
  BY HeedfulNotices
<1>2. CASE TimeOut
  <2>1. /\ faults'.times = faults.times + 1 /\ ~Forgotten /\ ~Forgotten'
        /\ UNCHANGED <<link, broker, app>>
    BY <1>2, StrikeCounts, NoThirdFault DEF TimeOut, Forgotten, Go
  <2> QED BY <1>1, <2>1
          DEF Counted, IdleAtFirst, CalmKeepsLink, Calm, FirstLoss, AcceptedIsOpen,
              ForgottenIsTold
<1>3. CASE Reconnect
  <2>1. /\ UNCHANGED <<broker, app, faults, session_present>> /\ link' = Opened
        /\ mqtt_state = "CONNECTION_ERROR" /\ mqtt_state' = "CONNECTING"
    BY <1>3 DEF Reconnect, Go, device, history
  <2>2. ~Calm' /\ IdleAtFirst' /\ (Forgotten => ~link.accepted)
    BY <2>1 DEF Counted, IdleAtFirst, CalmKeepsLink, Calm, AcceptedIsOpen, ForgottenIsTold
  <2> QED BY <2>1, <2>2, ClosedCounted DEF Counted, ForgottenIsTold, Forgotten
<1>4. CASE Rest \/ Poll \/ NothingToRead
  BY <1>4, QuietCounted DEF Rest, Poll, NothingToRead, Go, device, history
<1>5. CASE PollError
  BY <1>1, <1>5, NoticedFaults DEF PollError, Unnoticed
<1>6. CASE ReadsDisconnection
  <2>1. /\ UNCHANGED <<broker, app, faults, session_present>> /\ link' = NoLink
        /\ link.socket = "cut"
    <3>1. UNCHANGED faults
      BY <1>1, <1>6, NoticedFaults
      DEF ReadsDisconnection, OnDisconnection, Posts, NoStrike, Unnoticed
    <3> QED BY <1>6, <3>1 DEF ReadsDisconnection, OnDisconnection, Go
  <2>2. ~Calm' /\ IdleAtFirst' /\ ~link.accepted
    BY <2>1 DEF Counted, IdleAtFirst, CalmKeepsLink, Calm, AcceptedIsOpen
  <2> QED BY <2>1, <2>2, ClosedCounted DEF Counted, ForgottenIsTold, Forgotten
<1>7. CASE OnConnack
  <2>1. /\ mqtt_state = "CONNECTING" /\ link'.inbox = <<>> /\ link'.accepted
        /\ UNCHANGED <<broker, app, faults>> /\ mqtt_state' = "CONNECTED"
        /\ session_present' = Head(link.inbox).present
    BY <1>7, ReadsGreeting DEF OnConnack, Reads, Go, history
  <2>2. /\ link'.accepted = link.accepted /\ link'.socket = link.socket
        /\ link.inbox # <<>> /\ link.inbox \in Seq(Packet)
        /\ Head(link.inbox).type = "CONNACK"
    BY <1>7 DEF OnConnack, Reads, TypeOK, Links
  <2>3. Forgotten => ~session_present'
    BY <2>1, <2>2 DEF Counted, ForgottenIsTold
  <2> QED BY <2>1, <2>2, <2>3
          DEF Counted, IdleAtFirst, CalmKeepsLink, Calm, FirstLoss, AcceptedIsOpen,
              ForgottenIsTold, Forgotten
<1>8. CASE OnAck
  <2>1. UNCHANGED <<mqtt_state, broker, app, faults, session_present, connection_state>>
    BY <1>8 DEF OnAck, Reads, Go, history
  <2>2. /\ link.inbox \in Seq(Packet) /\ link.inbox # <<>>
        /\ link'.inbox = Tail(link.inbox) /\ link'.accepted = link.accepted
        /\ link'.socket = link.socket
    BY <1>8 DEF OnAck, Reads, TypeOK, Links
  <2>3. /\ Len(Tail(link.inbox)) = Len(link.inbox) - 1 /\ Len(link.inbox) \in Nat
        /\ \A k \in 1 .. Len(Tail(link.inbox)) : Tail(link.inbox)[k] = link.inbox[k + 1]
    BY <2>2
  <2>4. mqtt_state # "DISCONNECTED"
    BY <1>8, <2>2, Asleep DEF OnAck, Reads, WorkerAt, Truthful, PollsAClient, NoLink
  <2>5. ForgottenIsTold'
    BY <2>1, <2>2, <2>3 DEF Counted, ForgottenIsTold, Forgotten
  <2> QED BY <2>1, <2>2, <2>4, <2>5
          DEF Counted, IdleAtFirst, CalmKeepsLink, Calm, FirstLoss, AcceptedIsOpen
<1> QED BY <1>2, <1>3, <1>4, <1>5, <1>6, <1>7, <1>8 DEF MqttPoll

LEMMA ApplicationCounted ==
    ASSUME Heedful, TypeOK, Truthful, Counted, [Next]_vars, Application PROVE Counted'
<1>1. Sheltered /\ faults.times \in Nat
  BY HeedfulNotices
<1> USE DEF Returns, AppAt
<1>2. CASE ConnectBegins
  <2>1. /\ UNCHANGED <<broker, faults, session_present>> /\ link' = Opened
        /\ app' = "connecting" /\ mqtt_state' = "CONNECTING"
        /\ mqtt_state \in {"DISCONNECTED", "CONNECTION_ERROR"}
    BY <1>2 DEF ConnectBegins, device, history
  <2>2. Calm => ~broker.session
    BY <2>1 DEF Counted, CalmKeepsLink, NoLink
  <2>3. Forgotten => ~link.accepted
    BY <2>1 DEF Counted, AcceptedIsOpen, ForgottenIsTold
  <2>4. ~link'.accepted /\ link'.socket = "open" /\ (Calm' => Calm)
    BY <2>1 DEF Opened, Calm
  <2> QED BY <2>1, <2>2, <2>3, <2>4
          DEF Counted, IdleAtFirst, CalmKeepsLink, FirstLoss, AcceptedIsOpen,
              ForgottenIsTold, Forgotten
<1>3. CASE ConnectEnds
  <2>1. UNCHANGED <<broker, faults, link, mqtt_state>> /\ app' = "idle"
        /\ connection_state' \notin Linked
    BY <1>3 DEF ConnectEnds, history, Linked
  <2> QED BY <2>1
          DEF Counted, IdleAtFirst, CalmKeepsLink, Calm, FirstLoss, AcceptedIsOpen,
              ForgottenIsTold, Forgotten
<1>4. CASE DisconnectBegins
  <2>1. /\ faults'.times = faults.times + 1 /\ ~Forgotten /\ ~Forgotten'
        /\ UNCHANGED <<link, broker, mqtt_state>>
    BY <1>4, StrikeCounts, NoThirdFault DEF DisconnectBegins, Forgotten
  <2> QED BY <1>1, <2>1
          DEF Counted, IdleAtFirst, CalmKeepsLink, Calm, FirstLoss, AcceptedIsOpen,
              ForgottenIsTold
<1>5. CASE DisconnectFails \/ DisconnectIdle
  <2>1. /\ UNCHANGED <<link, broker, faults>> /\ app = "leaving" /\ app' = "idle"
        /\ UNCHANGED mqtt_state \/ mqtt_state = "CONNECTION_ERROR"
    BY <1>5 DEF DisconnectFails, DisconnectIdle, history
  <2> QED BY <1>1, <2>1
          DEF Counted, IdleAtFirst, CalmKeepsLink, Calm, FirstLoss, AcceptedIsOpen,
              ForgottenIsTold, Forgotten
<1>6. CASE DisconnectNow \/ DisconnectLater
  <2>1. UNCHANGED faults
    BY <1>1, <1>6, NoticedFaults
    DEF DisconnectNow, DisconnectLater, OnDisconnection, Posts, NoStrike, Unnoticed, history
  <2>2. /\ UNCHANGED broker /\ app = "leaving" /\ app' = "idle"
        /\ link' \in {NoLink, [NoLink EXCEPT !.socket = "cut"]}
    BY <1>6 DEF DisconnectNow, DisconnectLater, OnDisconnection
  <2>3. ~Calm' /\ IdleAtFirst' /\ ~Forgotten'
    BY <2>1, <2>2 DEF Counted, IdleAtFirst, Calm, ForgottenIsTold, Forgotten
  <2> QED BY <2>2, <2>3, ClosedCounted
<1>7. CASE DisconnectRefused
  BY <1>1, <1>7, NoticedFaults DEF DisconnectRefused, Unnoticed
<1> QED BY <1>2, <1>3, <1>4, <1>5, <1>6, <1>7 DEF Application

LEMMA AcceptCounted ==
    ASSUME Heedful, TypeOK, Truthful, Counted, [Next]_vars, Accept PROVE Counted'
<1> DEFINE greeting == [type |-> "CONNACK", present |-> broker.session]
<1>1. broker.session \in BOOLEAN /\ link \in Links /\ greeting \in Packet
  BY GreetingType DEF TypeOK, Knowledge
<1>2. greeting.present = broker.session
  OBVIOUS
<1> HIDE DEF greeting
<1>3. link'.accepted /\ link.inbox \in Seq(Packet) /\ link'.inbox = Append(link.inbox, greeting)
      /\ link'.socket = link.socket
  BY <1>1, Arrived DEF Accept, greeting, Arrives, Links
<1>4. /\ link.inbox = <<>> /\ ~link.accepted /\ link.socket = "open"
      /\ UNCHANGED <<mqtt_state, app, faults, connection_state, session_present>>
  BY DEF Accept, Still, device, Truthful, GreetedOnce
<1>5. Len(link'.inbox) = 1 /\ link'.inbox[1] = greeting
  BY <1>1, <1>3, <1>4
<1>6. mqtt_state # "DISCONNECTED" \/ ~Calm
  BY <1>4 DEF Counted, CalmKeepsLink, NoLink
<1>7. Forgotten => connection_state \notin Linked /\ ~greeting.present
  BY <1>2, <1>4 DEF Counted, ForgottenIsTold, Truthful, LinkedNeedsClient, GreetedOnce
<1> QED BY <1>3, <1>4, <1>5, <1>6, <1>7
        DEF Counted, IdleAtFirst, CalmKeepsLink, Calm, FirstLoss, AcceptedIsOpen,
            ForgottenIsTold, Forgotten

LEMMA ServeCounted ==
    ASSUME Heedful, TypeOK, Truthful, Counted, [Next]_vars,
           NEW msg \in Message, Serve(msg)
    PROVE  Counted'
<1>1. PICK granted \in BOOLEAN :
        link' = Arrives([type |-> "ACK", msg |-> msg, granted |-> granted])
  BY DEF Serve
<1> DEFINE ack == [type |-> "ACK", msg |-> msg, granted |-> granted]
<1>2. ack \in Packet /\ ack.type = "ACK" /\ link \in Links
  BY PacketType DEF TypeOK
<1> HIDE DEF ack
<1>3. link'.accepted /\ link.inbox \in Seq(Packet) /\ link'.inbox = Append(link.inbox, ack)
      /\ link'.socket = link.socket
  BY <1>1, <1>2, Arrived DEF ack, Arrives, Links
<1>4. /\ UNCHANGED <<mqtt_state, app, connection_state, session_present>>
      /\ mqtt_state = "CONNECTED" /\ link.socket = "open" /\ link.accepted
  BY DEF Serve, Still, device, Truthful, GreetedOnce
<1>5. broker'.session = broker.session
  BY DEF Serve, TypeOK, Knowledge
<1>6. CASE UNCHANGED faults
  <2>1. Forgotten => \A k \in 1 .. Len(link'.inbox) :
          link'.inbox[k].type = "CONNACK" => ~link'.inbox[k].present
    BY <1>2, <1>3, <1>4 DEF Counted, ForgottenIsTold
  <2> QED BY <1>3, <1>4, <1>5, <1>6, <2>1
          DEF Counted, IdleAtFirst, CalmKeepsLink, Calm, FirstLoss, AcceptedIsOpen,
              ForgottenIsTold, Forgotten
<1>7. CASE Strike("refuse")
  <2>1. /\ faults.times \in Nat /\ faults'.times = faults.times + 1
        /\ ~Forgotten /\ ~Forgotten'
    BY <1>7, StrikeCounts, NoThirdFault DEF Forgotten
  <2> QED BY <1>3, <1>4, <1>5, <2>1
          DEF Counted, IdleAtFirst, CalmKeepsLink, Calm, FirstLoss, AcceptedIsOpen,
              ForgottenIsTold
<1> QED BY <1>6, <1>7 DEF Serve, NoStrike

LEMMA ForgetCounted ==
    ASSUME Heedful, TypeOK, Truthful, Counted, [Next]_vars, Forget PROVE Counted'
<1>1. /\ faults'.times = faults.times + 1 /\ faults.times \in Nat /\ Forgotten'
  BY StrikeCounts DEF Forget, Forgotten
<1>2. faults.times <= 1
  BY <1>1 DEF Heedful, Aware, Forgotten
<1>3. /\ UNCHANGED <<link, mqtt_state, app>> /\ ~link.accepted /\ broker.session
      /\ ~broker'.session
  BY DEF Forget, Still, TypeOK, Knowledge
<1>4. ~Calm
  BY <1>3 DEF Counted, CalmKeepsLink
<1>5. faults.times = 1 /\ app # "leaving" /\ (link.socket = "open" => mqtt_state = "CONNECTING")
  BY <1>1, <1>2, <1>3, <1>4 DEF Calm, Counted, FirstLoss
<1> QED BY <1>1, <1>3, <1>5
        DEF Counted, IdleAtFirst, CalmKeepsLink, Calm, FirstLoss, AcceptedIsOpen,
            ForgottenIsTold

LEMMA EnvironmentCounted ==
    ASSUME Heedful, TypeOK, Truthful, Counted, [Next]_vars, Environment PROVE Counted'
<1>1. CASE Accept
  BY <1>1, AcceptCounted
<1>2. CASE ServeAny
  BY <1>2, ServeCounted DEF ServeAny, TypeOK
<1>3. CASE Cut \/ Reboot
  <2>1. /\ faults.times \in Nat /\ faults'.times = faults.times + 1
        /\ ~Forgotten /\ ~Forgotten' /\ UNCHANGED broker
        /\ link' \in {NoLink, [NoLink EXCEPT !.socket = "cut"]}
        /\ app' = "leaving" => app = "leaving"
    BY <1>3, StrikeCounts, NoThirdFault DEF Cut, Reboot, Boots, Still, Forgotten
  <2>2. ~Calm' /\ IdleAtFirst'
    BY <2>1 DEF Counted, IdleAtFirst, Calm
  <2> QED BY <2>1, <2>2, ClosedCounted
<1>4. CASE Forget
  BY <1>4, ForgetCounted
<1> QED BY <1>1, <1>2, <1>3, <1>4 DEF Environment

LEMMA CountedStep ==
    ASSUME Heedful, TypeOK, Truthful, Counted, [Next]_vars PROVE Counted'
<1>1. CASE UNCHANGED vars
  BY <1>1, QuietCounted DEF vars, device, history
<1> QED BY <1>1, DeviceCounted, MqttPollCounted, ApplicationCounted, EnvironmentCounted
        DEF Next, Worker

\* Second, what Astarte knows at each stage of a handshake.
Fresh == Forgotten => link.accepted
Knows(names) == broker.intro = names /\ Topics(names) \subseteq broker.subs
Subscription(topic) == [kind |-> "subscribe", topic |-> topic]
Announcement(names) == [kind |-> "introspection", names |-> names]

OwnNames ==
    "interface" \notin faults.kinds =>
        introspection \in Firmware /\ flash.intro \in {Unknown} \cup Firmware
PendingNames ==
    \A msg \in out_msgs : msg.kind = "introspection" =>
        /\ msg.names = introspection
        /\ connection_state # "CONNECTED" /\ worker # "ready"

\* An answer under way is about a message that awaits it, and true.
Answers(k) == k \in 1 .. Len(link.inbox) /\ link.inbox[k].type = "ACK"
IsTrue(ack) ==
    /\ ack.msg \in out_msgs
    /\ ack.msg.kind = "introspection" => broker.intro = ack.msg.names
    /\ ack.msg.kind = "subscribe" /\ ack.granted => ack.msg.topic \in broker.subs
AnswersAreTrue == \A k \in Nat : Answers(k) => IsTrue(link.inbox[k])
AnsweredOnce ==
    \A j, k \in Nat :
        Answers(j) /\ Answers(k) /\ link.inbox[j].msg = link.inbox[k].msg => j = k

SubscribesAll ==
    \/ subscription_failure
    \/ \A topic \in Topics(introspection) :
        topic \in broker.subs \/ Subscription(topic) \in out_msgs
AnnouncesAll == broker.intro = introspection \/ Announcement(introspection) \in out_msgs
HandshakeCovers == Fresh =>
    /\ worker = "publish" => SubscribesAll
    /\ connection_state = "END_HANDSHAKE" => SubscribesAll /\ AnnouncesAll
WorkerKnows ==
    Fresh /\ worker \in {"ready", "persist", "notify"} => Knows(introspection)
StoredIsKnown ==
    /\ ~Forgotten /\ flash.intro = introspection => Knows(introspection)
    /\ Fresh /\ connection_state = "CONNECTED" /\ worker \notin {"persist", "notify"}
         /\ flash.intro # Unknown => Knows(flash.intro)

Knowing ==
    /\ OwnNames /\ PendingNames /\ AnswersAreTrue /\ AnsweredOnce
    /\ HandshakeCovers /\ WorkerKnows /\ StoredIsKnown

\* One image of the firmware: the introspections of two may await their
\* acknowledgements together, and either may reach Astarte last.
OneImage == \A x, y \in Firmware : x = y

LEMMA InitKnowing == ASSUME Init PROVE Knowing
<1>1. flash.intro = Unknown /\ introspection # Unknown
  BY FirmwareAssumption DEF Init
<1>2. \A k \in Nat : ~Answers(k)
  BY DEF Init, Answers, NoLink
<1> QED BY <1>1, <1>2
        DEF Init, Knowing, OwnNames, PendingNames, AnswersAreTrue, AnsweredOnce,
            HandshakeCovers, WorkerKnows, StoredIsKnown

\* A step that leaves what is known, asked and stored alone, and ends no stage.
LEMMA QuietKnowing ==
    ASSUME TypeOK, Knowing, [Next]_vars,
           UNCHANGED <<broker, introspection, out_msgs, flash.intro>>,
           link'.accepted => link.accepted,
           UNCHANGED link.inbox \/ link'.inbox = <<>>,
           \/ UNCHANGED worker
           \/ /\ worker \notin {"persist", "notify"}
              /\ worker' \notin {"publish", "ready", "persist", "notify"},
           \/ UNCHANGED connection_state
           \/ connection_state' \notin {"END_HANDSHAKE", "CONNECTED"},
           \/ UNCHANGED subscription_failure
           \/ connection_state' # "END_HANDSHAKE" /\ worker' # "publish"
    PROVE  Knowing'
<1>1. faults.kinds \subseteq faults'.kinds /\ (Fresh' => Fresh) /\ (Forgotten => Forgotten')
  BY StepRemains DEF FaultsRemain, Fresh, Forgotten
<1>2. OwnNames' /\ PendingNames'
  BY <1>1 DEF Knowing, OwnNames, PendingNames
<1>3. AnswersAreTrue' /\ AnsweredOnce'
  <2>1. CASE UNCHANGED link.inbox
    BY <2>1 DEF Knowing, AnswersAreTrue, AnsweredOnce, Answers, IsTrue
  <2>2. CASE link'.inbox = <<>>
    BY <2>2 DEF AnswersAreTrue, AnsweredOnce, Answers
  <2> QED BY <2>1, <2>2
<1>4. HandshakeCovers'
  BY <1>1 DEF Knowing, HandshakeCovers, SubscribesAll, AnnouncesAll
<1>5. WorkerKnows'
  BY <1>1 DEF Knowing, WorkerKnows, Knows
<1>6. StoredIsKnown'
  BY <1>1 DEF Knowing, StoredIsKnown, Knows
<1> QED BY <1>2, <1>3, <1>4, <1>5, <1>6 DEF Knowing

\* What the worker does while nothing comes in.
LEMMA AnswersStay ==
    ASSUME Knowing, UNCHANGED <<broker, link>>, out_msgs \subseteq out_msgs'
    PROVE  AnswersAreTrue' /\ AnsweredOnce'
BY DEF Knowing, AnswersAreTrue, AnsweredOnce, Answers, IsTrue

LEMMA FreshBefore ==
    ASSUME [Next]_vars, link'.accepted => link.accepted
    PROVE  /\ Fresh' => Fresh
           /\ ~Forgotten' => ~Forgotten
           /\ "interface" \notin faults'.kinds => "interface" \notin faults.kinds
BY StepRemains DEF FaultsRemain, Fresh, Forgotten

LEMMA StartHandshakeKnowing ==
    ASSUME Sheltered, TypeOK, Truthful, Counted, Knowing, [Next]_vars, StartHandshake
    PROVE  Knowing'
<1>1. /\ UNCHANGED <<broker, link, introspection, out_msgs, flash>> /\ worker = "poll"
      /\ worker' \in {"mqtt", "subscribe"}
      /\ connection_state = "START_HANDSHAKE" /\ connection_state' # "CONNECTED"
  BY DEF StartHandshake, WorkerAt, Go
<1>2. CASE StaysSynchronized /\ connection_state' = "END_HANDSHAKE"
  <2>1. session_present /\ flash.intro = introspection
    BY <1>2 DEF StaysSynchronized
  <2>2. Fresh => ~Forgotten
    BY <1>1, <2>1 DEF Fresh, Counted, ForgottenIsTold, Linked
  <2>3. Fresh => Knows(introspection)
    BY <2>1, <2>2 DEF Knowing, StoredIsKnown
  <2>4. HandshakeCovers'
    BY <1>1, <2>3, FreshBefore DEF HandshakeCovers, SubscribesAll, AnnouncesAll, Knows
  <2>5. AnswersAreTrue' /\ AnsweredOnce'
    BY <1>1, AnswersStay
  <2>6. OwnNames' /\ PendingNames'
    BY <1>1, FreshBefore DEF Knowing, OwnNames, PendingNames
  <2>7. WorkerKnows' /\ StoredIsKnown'
    BY <1>1, FreshBefore DEF Knowing, WorkerKnows, StoredIsKnown, Knows
  <2> QED BY <2>4, <2>5, <2>6, <2>7 DEF Knowing
<1>3. CASE connection_state' # "END_HANDSHAKE"
  BY <1>1, <1>3, QuietKnowing
<1> QED BY <1>1, <1>2, <1>3 DEF StartHandshake

LEMMA SetupSubscriptionsKnowing ==
    ASSUME Sheltered, TypeOK, Truthful, Knowing, [Next]_vars, SetupSubscriptions
    PROVE  Knowing'
<1>1. /\ UNCHANGED <<broker, link, introspection, flash, subscription_failure>>
      /\ worker = "subscribe" /\ worker' \in {"mqtt", "publish"}
      /\ out_msgs \subseteq out_msgs' /\ out_msgs' \subseteq out_msgs \cup Subscriptions
      /\ worker' = "publish" => Subscriptions \subseteq out_msgs'
      /\ connection_state = "START_HANDSHAKE"
      /\ connection_state' \in {"START_HANDSHAKE", "HANDSHAKE_ERROR"}
  BY DEF SetupSubscriptions, WorkerAt, Go, Truthful, WorkerKnowsState
<1>2. \A msg \in Subscriptions : msg.kind = "subscribe"
  BY DEF Subscriptions
<1>3. OwnNames' /\ PendingNames'
  BY <1>1, <1>2, FreshBefore DEF Knowing, OwnNames, PendingNames
<1>4. AnswersAreTrue' /\ AnsweredOnce'
  BY <1>1, AnswersStay
<1>5. worker' = "publish" => SubscribesAll'
  <2> SUFFICES ASSUME worker' = "publish", NEW topic \in Topics(introspection)
               PROVE  Subscription(topic) \in Subscriptions
    BY <1>1 DEF SubscribesAll
  <2> QED BY DEF Subscription, Subscriptions
<1>6. HandshakeCovers' /\ WorkerKnows' /\ StoredIsKnown'
  BY <1>1, <1>5, FreshBefore DEF Knowing, HandshakeCovers, WorkerKnows, StoredIsKnown, Knows
<1> QED BY <1>3, <1>4, <1>6 DEF Knowing

LEMMA PublishSetupKnowing ==
    ASSUME Sheltered, TypeOK, Truthful, Knowing, [Next]_vars, PublishSetup
    PROVE  Knowing'
<1>1. /\ UNCHANGED <<broker, link, introspection, flash, subscription_failure>>
      /\ worker = "publish" /\ worker' = "mqtt"
      /\ out_msgs' = out_msgs \cup Announcements
      /\ connection_state' \in {"END_HANDSHAKE", "HANDSHAKE_ERROR"}
  BY DEF PublishSetup, WorkerAt, Go
<1>2. /\ Announcement(introspection) \in Announcements
      /\ \A msg \in Announcements : msg.kind = "introspection" => msg.names = introspection
  BY DEF Announcements, Announcement
<1>3. OwnNames' /\ PendingNames'
  BY <1>1, <1>2, FreshBefore DEF Knowing, OwnNames, PendingNames
<1>4. AnswersAreTrue' /\ AnsweredOnce'
  BY <1>1, AnswersStay
<1>5. HandshakeCovers'
  BY <1>1, <1>2, FreshBefore DEF Knowing, HandshakeCovers, SubscribesAll, AnnouncesAll
<1>6. WorkerKnows' /\ StoredIsKnown'
  BY <1>1, FreshBefore DEF Knowing, WorkerKnows, StoredIsKnown, Knows
<1> QED BY <1>3, <1>4, <1>5, <1>6 DEF Knowing

LEMMA EndHandshakeKnowing ==
    ASSUME Sheltered, TypeOK, Truthful, Knowing, [Next]_vars, EndHandshake
    PROVE  Knowing'
<1>1. /\ UNCHANGED <<broker, link, introspection, flash, subscription_failure, out_msgs>>
      /\ worker = "poll" /\ worker' \in {"mqtt", "ready"}
      /\ connection_state = "END_HANDSHAKE"
  BY DEF EndHandshake, WorkerAt, Go, device
<1>2. CASE worker' = "mqtt"
  <2>1. connection_state' \in {"HANDSHAKE_ERROR", connection_state}
    BY DEF EndHandshake
  <2> QED BY <1>1, <1>2, <2>1, QuietKnowing
<1>3. CASE worker' = "ready"
  <2>1. ~subscription_failure /\ out_msgs = {} /\ UNCHANGED connection_state
    BY <1>3 DEF EndHandshake, Go
  <2>2. Fresh => Knows(introspection)
    BY <1>1, <2>1 DEF Knowing, HandshakeCovers, SubscribesAll, AnnouncesAll, Knows
  <2>3. OwnNames' /\ PendingNames'
    BY <1>1, <2>1, FreshBefore DEF Knowing, OwnNames, PendingNames
  <2>4. AnswersAreTrue' /\ AnsweredOnce'
    BY <1>1, AnswersStay
  <2>5. HandshakeCovers'
    BY <1>1, <1>3, <2>1, FreshBefore DEF Knowing, HandshakeCovers, SubscribesAll, AnnouncesAll
  <2>6. WorkerKnows' /\ StoredIsKnown'
    BY <1>1, <1>3, <2>1, <2>2, FreshBefore DEF Knowing, WorkerKnows, StoredIsKnown, Knows
  <2> QED BY <2>3, <2>4, <2>5, <2>6 DEF Knowing
<1> QED BY <1>1, <1>2, <1>3

LEMMA ReadyKnowing ==
    ASSUME Sheltered, TypeOK, Truthful, Knowing, [Next]_vars, Ready \/ PersistSync
    PROVE  Knowing'
<1>1. /\ UNCHANGED <<broker, link, introspection, subscription_failure, out_msgs>>
      /\ flash'.intro = flash.intro
      /\ \/ worker = "ready" /\ worker' = "persist"
         \/ worker = "persist" /\ worker' = "notify" /\ UNCHANGED connection_state
      /\ connection_state' = "CONNECTED"
  BY DEF Ready, PersistSync, Stores, WorkerAt, Go, device, TypeOK, Stored, Truthful,
         WorkerKnowsState
<1>2. OwnNames' /\ PendingNames'
  BY <1>1, FreshBefore DEF Knowing, OwnNames, PendingNames
<1>3. AnswersAreTrue' /\ AnsweredOnce'
  BY <1>1, AnswersStay
<1>4. HandshakeCovers' /\ WorkerKnows'
  BY <1>1, FreshBefore DEF Knowing, HandshakeCovers, WorkerKnows, Knows
<1>5. StoredIsKnown'
  BY <1>1, FreshBefore DEF Knowing, StoredIsKnown, Knows
<1> QED BY <1>2, <1>3, <1>4, <1>5 DEF Knowing

LEMMA PersistIntrospectionKnowing ==
    ASSUME Heedful, OneImage, TypeOK, Truthful, Knowing, [Next]_vars, PersistIntrospection
    PROVE  Knowing'
<1>1. Sheltered
  BY HeedfulNotices
<1>2. /\ UNCHANGED <<broker, link, introspection, subscription_failure, out_msgs>>
      /\ worker = "notify" /\ worker' = "mqtt" /\ connection_state = "CONNECTED"
  BY DEF PersistIntrospection, WorkerAt, Go, Truthful, WorkerKnowsState
<1>3. /\ UNCHANGED connection_state
      /\ \/ flash'.intro = introspection
         \/ UNCHANGED flash /\ "store" \in faults'.kinds
  BY <1>1, NoticedFaults DEF PersistIntrospection, Unnoticed, Strike, TypeOK, Stored
<1>4. Fresh => Knows(introspection)
  BY <1>2 DEF Knowing, WorkerKnows
<1>5. UNCHANGED flash => flash.intro \in {Unknown, introspection} \/ flash'.intro = introspection
  BY <1>3, FreshBefore, <1>2 DEF Heedful, Aware, OneImage, Knowing, OwnNames
<1>6. OwnNames' /\ PendingNames'
  BY <1>2, <1>3, FreshBefore DEF Knowing, OwnNames, PendingNames
<1>7. AnswersAreTrue' /\ AnsweredOnce'
  BY <1>2, AnswersStay
<1>8. HandshakeCovers' /\ WorkerKnows'
  BY <1>2, <1>3 DEF HandshakeCovers, WorkerKnows
<1>9. StoredIsKnown'
  <2>1. flash'.intro \in {Unknown, introspection}
    BY <1>3, <1>5
  <2>2. ~Forgotten => Fresh
    BY DEF Fresh
  <2> QED BY <1>2, <1>3, <1>4, <2>1, <2>2, FreshBefore DEF StoredIsKnown, Knows
<1> QED BY <1>6, <1>7, <1>8, <1>9 DEF Knowing

LEMMA StateMachineKnowing ==
    ASSUME Heedful, OneImage, TypeOK, Truthful, Counted, Knowing, [Next]_vars, StateMachine
    PROVE  Knowing'
<1>1. Sheltered
  BY HeedfulNotices
<1>2. CASE Idle
  BY <1>2, QuietKnowing DEF Idle, WorkerAt, Go, device
<1>3. CASE \E again \in BOOLEAN : HandshakeError(again)
  <2>1. /\ UNCHANGED <<broker, link, introspection, out_msgs, subscription_failure>>
        /\ flash'.intro = flash.intro /\ worker = "poll" /\ worker' = "mqtt"
        /\ connection_state' \in {connection_state, "START_HANDSHAKE"}
    BY <1>3 DEF HandshakeError, Stores, WorkerAt, Go, TypeOK, Stored
  <2> QED BY <2>1, QuietKnowing
<1> QED BY <1>1, <1>2, <1>3, StartHandshakeKnowing, SetupSubscriptionsKnowing,
           PublishSetupKnowing, EndHandshakeKnowing, ReadyKnowing,
           PersistIntrospectionKnowing DEF StateMachine

LEMMA OnConnackKnowing ==
    ASSUME Sheltered, TypeOK, Truthful, Knowing, [Next]_vars, OnConnack PROVE Knowing'
<1>1. /\ mqtt_state = "CONNECTING" /\ link'.inbox = <<>> /\ link'.accepted = link.accepted
      /\ UNCHANGED <<broker, introspection, flash, subscription_failure>>
      /\ worker' = "wait" /\ connection_state' = "START_HANDSHAKE"
      /\ out_msgs' \subseteq out_msgs
  BY ReadsGreeting DEF OnConnack, Reads, Go, TypeOK, Links
<1>2. OwnNames' /\ PendingNames'
  BY <1>1, FreshBefore DEF Knowing, OwnNames, PendingNames
<1>3. AnswersAreTrue' /\ AnsweredOnce'
  BY <1>1 DEF AnswersAreTrue, AnsweredOnce, Answers
<1>4. HandshakeCovers' /\ WorkerKnows' /\ StoredIsKnown'
  BY <1>1, FreshBefore DEF Knowing, HandshakeCovers, WorkerKnows, StoredIsKnown, Knows
<1> QED BY <1>2, <1>3, <1>4 DEF Knowing

LEMMA OnAckKnowing ==
    ASSUME Sheltered, TypeOK, Truthful, Knowing, [Next]_vars, OnAck PROVE Knowing'
<1> DEFINE ack == Head(link.inbox)
<1>1. /\ link.inbox \in Seq(Packet) /\ link.inbox # <<>> /\ ack.type = "ACK"
      /\ link'.inbox = Tail(link.inbox) /\ link'.accepted = link.accepted
      /\ UNCHANGED <<broker, introspection, flash, connection_state>>
      /\ worker = "socket" /\ worker' = "wait"
      /\ out_msgs' = out_msgs \ {ack.msg}
      /\ subscription_failure' = (subscription_failure \/ ~ack.granted)
  BY DEF OnAck, Reads, WorkerAt, Go, TypeOK, Links
<1>2. ack = link.inbox[1] /\ Answers(1)
  BY <1>1 DEF Answers
<1> HIDE DEF ack
<1>3. IsTrue(ack)
  BY <1>2 DEF Knowing, AnswersAreTrue
<1>4. \A k \in Nat : Answers(k)' =>
        /\ k + 1 \in Nat /\ Answers(k + 1) /\ k + 1 # 1
        /\ link'.inbox[k] = link.inbox[k + 1]
  BY <1>1 DEF Answers
<1>5. AnswersAreTrue'
  <2> SUFFICES ASSUME NEW k \in Nat, Answers(k)' PROVE IsTrue(link.inbox[k])'
    BY DEF AnswersAreTrue
  <2>1. IsTrue(link.inbox[k + 1]) /\ link.inbox[k + 1].msg # ack.msg
    BY <1>2, <1>4 DEF Knowing, AnswersAreTrue, AnsweredOnce
  <2> QED BY <1>1, <1>4, <2>1 DEF IsTrue
<1>6. AnsweredOnce'
  <2> SUFFICES ASSUME NEW j \in Nat, NEW k \in Nat, Answers(j)', Answers(k)',
                      link'.inbox[j].msg = link'.inbox[k].msg
               PROVE  j = k
    BY DEF AnsweredOnce
  <2>1. j + 1 = k + 1
    BY <1>4 DEF Knowing, AnsweredOnce
  <2> QED BY <2>1
<1>7. OwnNames' /\ PendingNames'
  BY <1>1, FreshBefore DEF Knowing, OwnNames, PendingNames
<1>8. SubscribesAll => SubscribesAll'
  <2> SUFFICES ASSUME ~subscription_failure', NEW topic \in Topics(introspection),
                      topic \in broker.subs \/ Subscription(topic) \in out_msgs
               PROVE  topic \in broker.subs \/ Subscription(topic) \in out_msgs'
    BY <1>1 DEF SubscribesAll
  <2>1. CASE Subscription(topic) = ack.msg
    <3>1. ack.msg.kind = "subscribe" /\ ack.msg.topic = topic
      BY <2>1 DEF Subscription
    <3> QED BY <1>1, <1>3, <3>1 DEF IsTrue
  <2> QED BY <1>1, <2>1
<1>9. AnnouncesAll => AnnouncesAll'
  <2>1. CASE Announcement(introspection) = ack.msg
    <3>1. ack.msg.kind = "introspection" /\ ack.msg.names = introspection
      BY <2>1 DEF Announcement
    <3> QED BY <1>1, <1>3, <3>1 DEF IsTrue, AnnouncesAll
  <2> QED BY <1>1, <2>1 DEF AnnouncesAll
<1>10. HandshakeCovers' /\ WorkerKnows' /\ StoredIsKnown'
  BY <1>1, <1>8, <1>9, FreshBefore
  DEF Knowing, HandshakeCovers, WorkerKnows, StoredIsKnown, Knows
<1> QED BY <1>5, <1>6, <1>7, <1>10 DEF Knowing

LEMMA MqttPollKnowing ==
    ASSUME Heedful, TypeOK, Truthful, Knowing, [Next]_vars, MqttPoll PROVE Knowing'
<1>1. Sheltered
  BY HeedfulNotices
<1>2. CASE TimeOut \/ Reconnect \/ Rest \/ Poll \/ PollError \/ NothingToRead
  <2>1. /\ UNCHANGED <<broker, introspection, out_msgs, flash, connection_state,
                       subscription_failure>>
        /\ worker \in {"mqtt", "socket"} /\ worker' \in {"wait", "socket", "poll"}
        /\ UNCHANGED link \/ link' = Opened
    BY <1>2 DEF TimeOut, Reconnect, Rest, Poll, PollError, NothingToRead, WorkerAt, Go, device
  <2> QED BY <2>1, QuietKnowing DEF Opened
<1>3. CASE ReadsDisconnection
  <2>1. /\ UNCHANGED <<broker, introspection, out_msgs, flash, subscription_failure>>
        /\ worker = "socket" /\ worker' = "wait" /\ connection_state' = "DISCONNECTED"
        /\ link' = NoLink
    BY <1>3 DEF ReadsDisconnection, OnDisconnection, WorkerAt, Go
  <2> QED BY <2>1, QuietKnowing DEF NoLink
<1> QED BY <1>1, <1>2, <1>3, OnConnackKnowing, OnAckKnowing DEF MqttPoll

LEMMA TransmitKnowing ==
    ASSUME Sheltered, TypeOK, Truthful, Knowing, [Next]_vars, Transmit PROVE Knowing'
<1>1. /\ UNCHANGED <<broker, link, introspection, flash, connection_state,
                     subscription_failure>>
      /\ worker = "wait" /\ worker' = "poll"
      /\ out_msgs' = out_msgs \cup {[kind |-> "data"]}
  BY DEF Transmit, WorkerAt, Go, device
<1>2. OwnNames' /\ PendingNames'
  BY <1>1, FreshBefore DEF Knowing, OwnNames, PendingNames
<1>3. AnswersAreTrue' /\ AnsweredOnce'
  BY <1>1, AnswersStay
<1>4. HandshakeCovers'
  BY <1>1, FreshBefore DEF Knowing, HandshakeCovers, SubscribesAll, AnnouncesAll
<1>5. WorkerKnows' /\ StoredIsKnown'
  BY <1>1, FreshBefore DEF Knowing, WorkerKnows, StoredIsKnown, Knows
<1> QED BY <1>2, <1>3, <1>4, <1>5 DEF Knowing

\* The interfaces change in CONNECTED alone, when nothing about them is pending.
LEMMA UpdateIntrospectionKnowing ==
    ASSUME Sheltered, TypeOK, Truthful, Knowing, [Next]_vars, UpdateIntrospection
    PROVE  Knowing'
<1>1. /\ UNCHANGED <<broker, link, out_msgs, flash, connection_state>>
      /\ worker = "wait" /\ worker' = "poll" /\ connection_state = "CONNECTED"
      /\ "interface" \in faults'.kinds
  BY DEF UpdateIntrospection, WorkerAt, Go, Strike, Truthful, BitFollowsState
<1>2. introspection' # Unknown
  BY TypeStep, FirmwareAssumption DEF TypeOK, Introspections
<1>3. OwnNames' /\ PendingNames'
  BY <1>1 DEF Knowing, OwnNames, PendingNames
<1>4. AnswersAreTrue' /\ AnsweredOnce'
  BY <1>1, AnswersStay
<1>5. HandshakeCovers' /\ WorkerKnows'
  BY <1>1 DEF HandshakeCovers, WorkerKnows
<1>6. StoredIsKnown'
  <2>1. ~Forgotten' => Fresh
    BY FreshBefore, <1>1 DEF Fresh
  <2>2. Fresh /\ flash.intro # Unknown => Knows(flash.intro)
    BY <1>1 DEF Knowing, StoredIsKnown
  <2> QED BY <1>1, <1>2, <2>1, <2>2, FreshBefore DEF StoredIsKnown, Knows
<1> QED BY <1>3, <1>4, <1>5, <1>6 DEF Knowing

LEMMA QueueKnowing ==
    ASSUME Heedful, TypeOK, Truthful, Knowing, [Next]_vars,
           NotConnected \/ QueueEmpty \/ Transmit \/ UpdateIntrospection
    PROVE  Knowing'
<1>1. Sheltered
  BY HeedfulNotices
<1>2. CASE NotConnected \/ QueueEmpty
  BY <1>2, QuietKnowing DEF NotConnected, QueueEmpty, WorkerAt, Go, device
<1> QED BY <1>1, <1>2, TransmitKnowing, UpdateIntrospectionKnowing

LEMMA ApplicationKnowing ==
    ASSUME TypeOK, Knowing, [Next]_vars, Application PROVE Knowing'
<1>1. /\ UNCHANGED <<broker, introspection, out_msgs, flash, worker, subscription_failure>>
      /\ \/ UNCHANGED connection_state
         \/ connection_state' \in {"DISCONNECTED", "MQTT_CONNECTING"}
      /\ \/ UNCHANGED link
         \/ link' \in {NoLink, Opened, [NoLink EXCEPT !.socket = "cut"]}
  BY DEF Application, ConnectBegins, ConnectEnds, DisconnectBegins, DisconnectFails,
         DisconnectIdle, DisconnectNow, DisconnectLater, DisconnectRefused, OnDisconnection,
         Returns, device
<1>2. (link'.accepted => link.accepted) /\ (UNCHANGED link.inbox \/ link'.inbox = <<>>)
  BY <1>1 DEF NoLink, Opened
<1> QED BY <1>1, <1>2, QuietKnowing

LEMMA AcceptKnowing ==
    ASSUME Heedful, TypeOK, Truthful, Counted, Knowing, [Next]_vars, Accept PROVE Knowing'
<1> DEFINE greeting == [type |-> "CONNACK", present |-> broker.session]
<1>1. /\ greeting \in Packet /\ greeting.type = "CONNACK" /\ link \in Links
  BY GreetingType DEF TypeOK, Knowledge
<1> HIDE DEF greeting
<1>2. link.inbox \in Seq(Packet) /\ link'.inbox = Append(link.inbox, greeting)
  BY <1>1, Arrived DEF Accept, greeting
<1>3. /\ link.inbox = <<>> /\ ~link.accepted /\ link.socket = "open"
      /\ UNCHANGED <<mqtt_state, worker, connection_state, introspection, flash, out_msgs,
                     subscription_failure, faults>>
      /\ broker'.intro = broker.intro /\ broker'.subs = broker.subs
  BY DEF Accept, Still, device, Truthful, GreetedOnce, TypeOK, Knowledge
<1>4. Len(link'.inbox) = 1 /\ link'.inbox[1] = greeting
  BY <1>1, <1>2, <1>3
<1>5. AnswersAreTrue' /\ AnsweredOnce'
  <2>1. \A k \in Nat : ~Answers(k)'
    BY <1>1, <1>4 DEF Answers
  <2> QED BY <2>1 DEF AnswersAreTrue, AnsweredOnce
<1>6. OwnNames' /\ PendingNames'
  BY <1>3 DEF Knowing, OwnNames, PendingNames
<1>7. CASE Forgotten
  <2>1. connection_state \notin Linked
    BY <1>3, <1>7 DEF Counted, ForgottenIsTold, Truthful, LinkedNeedsClient, GreetedOnce
  <2>2. worker \notin {"publish", "ready", "persist", "notify"}
    BY <2>1 DEF Truthful, WorkerKnowsState, Linked
  <2>3. HandshakeCovers' /\ WorkerKnows' /\ StoredIsKnown'
    BY <1>3, <1>7, <2>1, <2>2
    DEF HandshakeCovers, WorkerKnows, StoredIsKnown, Linked, Forgotten
  <2> QED BY <1>5, <1>6, <2>3 DEF Knowing
<1>8. CASE ~Forgotten
  <2>1. Fresh /\ (Forgotten' = Forgotten)
    BY <1>3, <1>8 DEF Fresh, Forgotten
  <2>2. HandshakeCovers'
    BY <1>3, <2>1 DEF Knowing, HandshakeCovers, SubscribesAll, AnnouncesAll
  <2>3. WorkerKnows' /\ StoredIsKnown'
    BY <1>3, <2>1 DEF Knowing, WorkerKnows, StoredIsKnown, Knows
  <2> QED BY <1>5, <1>6, <2>2, <2>3 DEF Knowing
<1> QED BY <1>7, <1>8

LEMMA ServeKnowing ==
    ASSUME Heedful, TypeOK, Truthful, Counted, Knowing, [Next]_vars,
           NEW msg \in out_msgs, Serve(msg)
    PROVE  Knowing'
<1>1. msg \in Message
  BY DEF TypeOK
<1>2. PICK granted \in BOOLEAN :
        /\ link' = Arrives([type |-> "ACK", msg |-> msg, granted |-> granted])
        /\ msg.kind = "introspection" => broker'.intro = msg.names
        /\ msg.kind = "subscribe" /\ granted => msg.topic \in broker'.subs
  <2>1. CASE /\ NoStrike
             /\ link' = Arrives([type |-> "ACK", msg |-> msg, granted |-> TRUE])
             /\ broker' = CASE msg.kind = "subscribe" ->
                                 [broker EXCEPT !.subs = @ \cup {msg.topic}]
                            [] msg.kind = "introspection" -> [broker EXCEPT !.intro = msg.names]
                            [] OTHER -> broker
    BY <2>1 DEF TypeOK, Knowledge
  <2>2. CASE /\ msg.kind = "subscribe" /\ Strike("refuse")
             /\ link' = Arrives([type |-> "ACK", msg |-> msg, granted |-> FALSE])
             /\ UNCHANGED broker
    BY <2>2
  <2> QED BY <2>1, <2>2 DEF Serve
<1>3. /\ broker.subs \subseteq broker'.subs
      /\ msg.kind # "introspection" => broker'.intro = broker.intro
  BY DEF Serve, TypeOK, Knowledge
<1> DEFINE ack == [type |-> "ACK", msg |-> msg, granted |-> granted]
<1>4. ack \in Packet /\ link \in Links /\ ack.type = "ACK" /\ ack.msg = msg
      /\ ack.granted = granted
  BY <1>1, PacketType DEF TypeOK
<1> HIDE DEF ack
<1>5. link'.accepted /\ link.inbox \in Seq(Packet) /\ link'.inbox = Append(link.inbox, ack)
  BY <1>2, <1>4, Arrived DEF ack
<1>6. /\ UNCHANGED <<worker, connection_state, introspection, flash, out_msgs,
                     subscription_failure>>
      /\ link.accepted
      /\ \A k \in 1 .. Len(link.inbox) :
            link.inbox[k].type = "ACK" => link.inbox[k].msg # msg
  BY DEF Serve, Still, device, Truthful, GreetedOnce
<1>7. \A k \in Nat : Answers(k)' =>
        \/ Answers(k) /\ link'.inbox[k] = link.inbox[k] /\ k # Len(link.inbox) + 1
        \/ k = Len(link.inbox) + 1 /\ link'.inbox[k] = ack
  BY <1>4, <1>5 DEF Answers
<1>8. msg.kind = "introspection" =>
        /\ msg.names = introspection /\ connection_state # "CONNECTED" /\ worker # "ready"
        /\ broker'.intro = introspection
  BY <1>2 DEF Knowing, PendingNames
<1>9. AnswersAreTrue'
  <2> SUFFICES ASSUME NEW k \in Nat, Answers(k)' PROVE IsTrue(link.inbox[k])'
    BY DEF AnswersAreTrue
  <2>1. CASE Answers(k) /\ link'.inbox[k] = link.inbox[k]
    <3>1. IsTrue(link.inbox[k])
      BY <2>1 DEF Knowing, AnswersAreTrue
    <3>2. link.inbox[k].msg.kind = "introspection" => link.inbox[k].msg.names = introspection
      BY <3>1 DEF IsTrue, Knowing, PendingNames
    <3> QED BY <1>3, <1>6, <1>8, <2>1, <3>1, <3>2 DEF IsTrue
  <2>2. CASE link'.inbox[k] = ack
    BY <1>2, <1>4, <1>6, <2>2 DEF IsTrue
  <2> QED BY <1>7, <2>1, <2>2
<1>10. AnsweredOnce'
  <2> SUFFICES ASSUME NEW j \in Nat, NEW k \in Nat, Answers(j)', Answers(k)',
                      link'.inbox[j].msg = link'.inbox[k].msg
               PROVE  j = k
    BY DEF AnsweredOnce
  <2>1. \A i \in Nat : Answers(i) => link.inbox[i].msg # msg
    BY <1>6 DEF Answers
  <2> QED BY <1>4, <1>7, <2>1 DEF Knowing, AnsweredOnce
<1>11. OwnNames' /\ PendingNames'
  BY <1>6, FreshBefore DEF Knowing, OwnNames, PendingNames
<1>12. HandshakeCovers'
  BY <1>3, <1>6, <1>8, FreshBefore DEF Knowing, HandshakeCovers, SubscribesAll, AnnouncesAll
<1>13. worker \in {"persist", "notify"} => connection_state = "CONNECTED"
  BY DEF Truthful, WorkerKnowsState
<1>14. WorkerKnows'
  BY <1>3, <1>6, <1>8, <1>13, FreshBefore DEF Knowing, WorkerKnows, Knows
<1>15. StoredIsKnown'
  BY <1>3, <1>6, <1>8, FreshBefore DEF Knowing, StoredIsKnown, Knows
<1> QED BY <1>9, <1>10, <1>11, <1>12, <1>14, <1>15 DEF Knowing

LEMMA ForgetKnowing ==
    ASSUME Heedful, TypeOK, Truthful, Knowing, [Next]_vars, Forget PROVE Knowing'
<1>1. /\ UNCHANGED <<link, worker, connection_state, introspection, flash, out_msgs>>
      /\ ~link.accepted /\ broker'.intro = broker.intro /\ Forgotten'
  BY DEF Forget, Still, device, TypeOK, Knowledge, Strike, Forgotten
<1>2. link.inbox = <<>> /\ ~Fresh'
  BY <1>1 DEF Truthful, GreetedOnce, Fresh
<1>3. OwnNames' /\ PendingNames'
  BY <1>1, FreshBefore DEF Knowing, OwnNames, PendingNames
<1>4. AnswersAreTrue' /\ AnsweredOnce'
  BY <1>1, <1>2 DEF AnswersAreTrue, AnsweredOnce, Answers
<1> QED BY <1>1, <1>2, <1>3, <1>4 DEF Knowing, HandshakeCovers, WorkerKnows, StoredIsKnown

\* The same image starts again: what the device had changed in the
\* introspection is lost, but Aware excludes that.
LEMMA RebootKnowing ==
    ASSUME Heedful, OneImage, TypeOK, Truthful, Knowing, [Next]_vars, Reboot PROVE Knowing'
<1>1. "reboot" \in faults'.kinds /\ introspection' \in Firmware
  BY DEF Reboot, Boots, Strike
<1>2. introspection' = introspection
  BY <1>1, FreshBefore, StepRemains
  DEF Heedful, Aware, OneImage, Knowing, OwnNames, FaultsRemain
<1>3. /\ UNCHANGED <<broker, out_msgs, flash>>
      /\ worker' = "poll" /\ connection_state' = "DISCONNECTED" /\ link' = NoLink
  BY DEF Reboot, Boots
<1>4. ~link'.accepted /\ link'.inbox = <<>>
  BY <1>3 DEF NoLink
<1>5. OwnNames'
  BY <1>1, <1>3, <1>4, FreshBefore DEF Knowing, OwnNames
<1>6. PendingNames'
  BY <1>2, <1>3 DEF Knowing, PendingNames
<1>7. AnswersAreTrue' /\ AnsweredOnce'
  BY <1>4 DEF AnswersAreTrue, AnsweredOnce, Answers
<1>8. HandshakeCovers' /\ WorkerKnows' /\ StoredIsKnown'
  BY <1>2, <1>3, <1>4, FreshBefore
  DEF Knowing, HandshakeCovers, WorkerKnows, StoredIsKnown, Knows
<1> QED BY <1>5, <1>6, <1>7, <1>8 DEF Knowing

LEMMA EnvironmentKnowing ==
    ASSUME Heedful, OneImage, TypeOK, Truthful, Counted, Knowing, [Next]_vars, Environment
    PROVE  Knowing'
<1>1. CASE Cut
  <2>1. /\ UNCHANGED <<broker, introspection, out_msgs, flash, worker, connection_state,
                       subscription_failure>>
        /\ ~link'.accepted /\ link'.inbox = <<>>
    BY <1>1 DEF Cut, Still, device, NoLink
  <2> QED BY <2>1, QuietKnowing
<1>2. CASE ServeAny
  BY <1>2, ServeKnowing DEF ServeAny
<1> QED BY <1>1, <1>2, AcceptKnowing, ForgetKnowing, RebootKnowing DEF Environment

LEMMA KnowingStep ==
    ASSUME Heedful, OneImage, TypeOK, Truthful, Counted, Knowing, [Next]_vars PROVE Knowing'
<1>1. CASE UNCHANGED vars
  BY <1>1, QuietKnowing DEF vars, device
<1> QED BY <1>1, StateMachineKnowing, MqttPollKnowing, QueueKnowing, ApplicationKnowing,
           EnvironmentKnowing DEF Next, Worker

(* A sheltered device that may skip its handshake is right to do so: in    *)
(* CONNECTED, with its introspection stored, the broker holds exactly that *)
(* introspection and a subscription for each of its interfaces.  This goes *)
(* for the interfaces of any one image, any number of drops, timeouts,     *)
(* refusals, failed handshakes and reboots, and for a session that the     *)
(* broker loses, as Aware bounds them.                                     *)
THEOREM ShelteredMeansKnown ==
    ASSUME ~Preempts, OneImage PROVE Spec => []ConnectedMeansKnown
<1> DEFINE Inv == NoticedTruthful /\ (Aware => Counted /\ Knowing)
<1>1. Init => Inv
  BY InitType, InitTruthful, InitCounted, InitKnowing DEF NoticedTruthful
<1>2. Inv /\ [Next]_vars => Inv'
  <2>1. SUFFICES ASSUME Inv, [Next]_vars PROVE Inv'
    OBVIOUS
  <2>2. NoticedTruthful'
    BY <2>1, NoticedStep
  <2>3. ASSUME Aware' PROVE Counted' /\ Knowing'
    <3>1. Heedful /\ TypeOK
      BY <2>1, <2>3 DEF Heedful, NoticedTruthful
    <3>2. Truthful /\ Counted /\ Knowing
      BY <2>1, <3>1, HeedfulNotices DEF NoticedTruthful
    <3> QED BY <2>1, <3>1, <3>2, CountedStep, KnowingStep
  <2> QED BY <2>2, <2>3
<1>3. Inv => ConnectedMeansKnown
  BY DEF Knowing, StoredIsKnown, Fresh, Knows, ConnectedMeansKnown
<1> QED BY <1>1, <1>2, <1>3, PTL DEF Spec

=============================================================================
