------------------------------ MODULE Session ------------------------------
(***************************************************************************)
(* Connection and handshake with Astarte: device/session_manager.c,        *)
(* device/dispatcher.c and the worker of device/core.c over the connection *)
(* state machine of mqtt/core.c, with the application calling connect and  *)
(* disconnect from a thread of its own.                                    *)
(*                                                                         *)
(* A connection that is new to the broker is followed by a handshake:      *)
(* subscribe to every server owned interface, publish the introspection,   *)
(* then wait until everything is acknowledged.  The handshake is skipped   *)
(* when the broker kept the session, the device remembers a completed      *)
(* synchronization and the introspection on flash is the current one.      *)
(*                                                                         *)
(* One step of the worker is a stretch it runs under the client's mutex,   *)
(* or between two accesses to what it shares with the application.  Pending *)
(* messages are a set (their delivery is MqttDelivery's matter), the       *)
(* queue of the application is any choice of its next message              *)
(* (TransmissionQueue's matter), and a backoff may end at any time.        *)
(***************************************************************************)
EXTENDS Integers, Sequences, FiniteSets

CONSTANTS
    Interfaces,   \* server owned interfaces the application may add
    Firmware,     \* the introspections a firmware image may start with
    Control,      \* the control topic every device subscribes to
    Unknown,      \* no introspection
    Faults,       \* the faults that may strike
    MaxFaults,    \* how often they strike in all (a bound of the model)
    MaxUnnoticed, \* up to which of them one may be unnoticed (a bound as well)
    MaxWire,      \* packets under way to the device (a bound of the model)
    Preempts      \* whether application and worker may preempt one another
                  \* anywhere, or only where the other one sleeps

FaultKinds == {"cut", "forget", "refuse", "poll", "timeout", "start", "end",
               "store", "full", "reboot", "interface", "disconnect", "undisconnected"}

\* The faults after which the device believes in a connection that is gone, or
\* the application is not told.
Unnoticed == {"poll", "end", "undisconnected", "full"}

ASSUME FaultAssumption ==
    Faults \subseteq FaultKinds /\ MaxFaults \in Nat /\ MaxUnnoticed \in 0 .. MaxFaults
ASSUME FirmwareAssumption ==
    /\ Firmware # {} /\ Firmware \subseteq SUBSET Interfaces
    /\ Control \notin Interfaces
    /\ \A names \in SUBSET Interfaces : names # Unknown
ASSUME WireAssumption == MaxWire \in Nat \ {0} /\ Preempts \in BOOLEAN

VARIABLES
    connection_state,      \* RAM: of the device
    mqtt_state,            \* RAM: of the MQTT client
    session_present,       \* RAM: what the last CONNACK said
    synchronization_completed, subscription_failure,     \* RAM
    introspection,         \* RAM: the interfaces of the device
    out_msgs,              \* RAM and flash: what awaits an acknowledgement
    connection_event,      \* RAM: the bit that lets the worker transmit
    worker, app,           \* where the two threads are
    flash,                 \* synchronization and introspection as stored
    link, broker,          \* external: the connection, what the broker knows
    told,                  \* history: the last connection event posted
    parity,                \* history: flips with every data transmission
    faults                 \* history: how often faults have struck, and which

device == <<connection_state, session_present, synchronization_completed,
            subscription_failure, introspection, connection_event>>
history == <<told, parity, faults>>
vars == <<device, mqtt_state, out_msgs, worker, app, flash, link, broker, history>>

States == {"DISCONNECTED", "MQTT_CONNECTING", "START_HANDSHAKE",
           "END_HANDSHAKE", "HANDSHAKE_ERROR", "CONNECTED"}
MqttStates == {"DISCONNECTED", "CONNECTING", "CONNECTED", "DISCONNECTING",
               "CONNECTION_ERROR"}
Introspections == SUBSET Interfaces
Topics(names) == names \cup {Control}

Message == [kind : {"subscribe"}, topic : Topics(Interfaces)]
    \cup [kind : {"introspection"}, names : Introspections]
    \cup [kind : {"setup", "data"}]
Packet == [type : {"CONNACK"}, present : BOOLEAN]
    \cup [type : {"ACK"}, msg : Message, granted : BOOLEAN]

Links == [socket : {"none", "open", "cut"}, accepted : BOOLEAN, inbox : Seq(Packet)]
NoLink == [socket |-> "none", accepted |-> FALSE, inbox |-> <<>>]

Stored == [sync : BOOLEAN, intro : {Unknown} \cup Introspections]
Knowledge == [session : BOOLEAN, subs : SUBSET Topics(Interfaces),
              intro : {Unknown} \cup Introspections]
FaultLog == [times : 0 .. MaxFaults, kinds : SUBSET FaultKinds]

TypeOK ==
    /\ connection_state \in States /\ mqtt_state \in MqttStates
    /\ session_present \in BOOLEAN /\ synchronization_completed \in BOOLEAN
    /\ subscription_failure \in BOOLEAN /\ connection_event \in BOOLEAN
    /\ introspection \in Introspections
    /\ out_msgs \subseteq Message
    /\ worker \in {"poll", "subscribe", "publish", "ready", "persist", "notify",
                   "mqtt", "socket", "wait"}
    /\ app \in {"idle", "connecting", "leaving"}
    /\ flash \in Stored
    /\ link \in Links
    /\ broker \in Knowledge
    /\ told \in {"connected", "disconnected"} /\ parity \in {0, 1}
    /\ faults \in FaultLog

\* The device as astarte_device_new leaves it, out of what flash holds.
Boots(names) ==
    /\ connection_state' = "DISCONNECTED" /\ mqtt_state' = "DISCONNECTED"
    /\ session_present' = FALSE /\ subscription_failure' = FALSE
    /\ synchronization_completed' = flash.sync
    /\ introspection' = names
    /\ connection_event' = FALSE
    /\ worker' = "poll" /\ app' = "idle"
    /\ told' = "disconnected"

Init ==
    /\ connection_state = "DISCONNECTED" /\ mqtt_state = "DISCONNECTED"
    /\ session_present = FALSE /\ subscription_failure = FALSE
    /\ synchronization_completed = FALSE
    /\ introspection \in Firmware
    /\ out_msgs = {} /\ connection_event = FALSE
    /\ worker = "poll" /\ app = "idle"
    /\ flash = [sync |-> FALSE, intro |-> Unknown]
    /\ link = NoLink
    /\ broker = [session |-> FALSE, subs |-> {}, intro |-> Unknown]
    /\ told = "disconnected" /\ parity = 0
    /\ faults = [times |-> 0, kinds |-> {}]

Strike(kind) ==
    /\ kind \in Faults
    /\ faults.times < (IF kind \in Unnoticed THEN MaxUnnoticed ELSE MaxFaults)
    /\ faults' = [times |-> faults.times + 1, kinds |-> faults.kinds \cup {kind}]
NoStrike == UNCHANGED faults

\* The worker runs unless the application, which it may not preempt, does.
WorkerAt(pc) == worker = pc /\ (Preempts \/ app # "connecting")
\* The application runs while the worker sleeps, or preempts it.
AppAt(pc) == app = pc /\ (Preempts \/ worker \in {"socket", "wait"})

Go(pc) == worker' = pc /\ UNCHANGED app

-----------------------------------------------------------------------------
(* The state machine of the device, run by the worker at every poll. *)

\* Nothing to do in this state.
Idle ==
    /\ WorkerAt("poll")
    /\ connection_state \in {"DISCONNECTED", "MQTT_CONNECTING", "CONNECTED"}
    /\ Go("mqtt")
    /\ UNCHANGED <<device, mqtt_state, out_msgs, flash, link, broker, history>>

\* Mutated: the session present flag is not looked at.
StaysSynchronized_AnySession ==
    synchronization_completed /\ flash.intro = introspection

StaysSynchronized ==
    session_present /\ synchronization_completed /\ flash.intro = introspection

StartHandshake ==
    /\ WorkerAt("poll") /\ connection_state = "START_HANDSHAKE"
    /\ subscription_failure' = FALSE
    /\ \/ /\ Strike("start")
          /\ connection_state' = "HANDSHAKE_ERROR" /\ Go("mqtt")
       \/ /\ StaysSynchronized /\ NoStrike
          /\ connection_state' = "END_HANDSHAKE" /\ Go("mqtt")
       \/ /\ ~StaysSynchronized /\ NoStrike
          /\ UNCHANGED connection_state /\ Go("subscribe")
    /\ UNCHANGED <<session_present, synchronization_completed, introspection,
                   connection_event, mqtt_state, out_msgs, flash, link, broker,
                   told, parity>>

Subscriptions == [kind : {"subscribe"}, topic : Topics(introspection)]

SetupSubscriptions ==
    /\ WorkerAt("subscribe")
    /\ \/ /\ NoStrike /\ Go("publish")
          /\ out_msgs' = out_msgs \cup Subscriptions
          /\ UNCHANGED connection_state
       \/ \E some \in SUBSET Subscriptions :
          /\ Strike("start") /\ Go("mqtt")
          /\ out_msgs' = out_msgs \cup some
          /\ connection_state' = "HANDSHAKE_ERROR"
    /\ UNCHANGED <<session_present, synchronization_completed, subscription_failure,
                   introspection, connection_event, mqtt_state, flash, link, broker,
                   told, parity>>

Announcements ==
    {[kind |-> "introspection", names |-> introspection], [kind |-> "setup"]}

\* Introspection, capabilities and empty cache, then the properties, whose
\* sending may fail.
PublishSetup ==
    /\ WorkerAt("publish") /\ Go("mqtt")
    /\ out_msgs' = out_msgs \cup Announcements
    /\ \/ NoStrike /\ connection_state' = "END_HANDSHAKE"
       \/ Strike("start") /\ connection_state' = "HANDSHAKE_ERROR"
    /\ UNCHANGED <<session_present, synchronization_completed, subscription_failure,
                   introspection, connection_event, mqtt_state, flash, link, broker,
                   told, parity>>

\* Mutated: the acknowledgements are not awaited.
EndHandshake_IgnoresPending ==
    /\ WorkerAt("poll") /\ connection_state = "END_HANDSHAKE"
    /\ \/ /\ subscription_failure
          /\ connection_state' = "HANDSHAKE_ERROR" /\ Go("mqtt")
       \/ /\ ~subscription_failure
          /\ Go("ready")
          /\ UNCHANGED connection_state
    /\ UNCHANGED <<session_present, synchronization_completed, subscription_failure,
                   introspection, connection_event, mqtt_state, out_msgs, flash, link,
                   broker, history>>

EndHandshake ==
    /\ WorkerAt("poll") /\ connection_state = "END_HANDSHAKE"
    /\ \/ /\ subscription_failure
          /\ connection_state' = "HANDSHAKE_ERROR" /\ Go("mqtt")
       \/ /\ ~subscription_failure
          /\ Go(IF out_msgs = {} THEN "ready" ELSE "mqtt")
          /\ UNCHANGED connection_state
    /\ UNCHANGED <<session_present, synchronization_completed, subscription_failure,
                   introspection, connection_event, mqtt_state, out_msgs, flash, link,
                   broker, history>>

Ready ==
    /\ WorkerAt("ready") /\ Go("persist")
    /\ synchronization_completed' = TRUE
    /\ connection_state' = "CONNECTED"
    /\ connection_event' = TRUE
    /\ UNCHANGED <<session_present, subscription_failure, introspection, mqtt_state,
                   out_msgs, flash, link, broker, history>>

\* The flag goes to flash; a storage error is only logged.
Stores(f) ==
    \/ flash' = f /\ NoStrike
    \/ Strike("store") /\ UNCHANGED flash

PersistSync ==
    /\ WorkerAt("persist") /\ Go("notify")
    /\ Stores([flash EXCEPT !.sync = TRUE])
    /\ UNCHANGED <<device, mqtt_state, out_msgs, link, broker, told, parity>>

\* A full queue drops the event.
Posts(event) ==
    \/ told' = event /\ NoStrike
    \/ Strike("full") /\ UNCHANGED told

\* Mutated: the event is not posted.
PersistIntrospection_TellsNothing ==
    /\ WorkerAt("notify") /\ Go("mqtt")
    /\ \/ /\ Strike("end")
          /\ connection_state' = "HANDSHAKE_ERROR"
          /\ UNCHANGED <<flash, told>>
       \/ /\ \/ flash' = [flash EXCEPT !.intro = introspection] /\ UNCHANGED told /\ NoStrike
             \/ Strike("store") /\ UNCHANGED flash /\ told' = "connected"
          /\ UNCHANGED connection_state
    /\ UNCHANGED <<session_present, synchronization_completed, subscription_failure,
                   introspection, connection_event, mqtt_state, out_msgs, link,
                   broker, parity>>

\* The introspection goes to flash, the application is told.
PersistIntrospection ==
    /\ WorkerAt("notify") /\ Go("mqtt")
    /\ \/ /\ Strike("end")
          /\ connection_state' = "HANDSHAKE_ERROR"
          /\ UNCHANGED <<flash, told>>
       \/ /\ \/ flash' = [flash EXCEPT !.intro = introspection] /\ Posts("connected")
             \/ Strike("store") /\ UNCHANGED flash /\ told' = "connected"
          /\ UNCHANGED connection_state
    /\ UNCHANGED <<session_present, synchronization_completed, subscription_failure,
                   introspection, connection_event, mqtt_state, out_msgs, link,
                   broker, parity>>

\* Mutated: the handshake is not repeated.
HandshakeError_NeverAgain(again) ==
    /\ WorkerAt("poll") /\ connection_state = "HANDSHAKE_ERROR" /\ Go("mqtt")
    /\ synchronization_completed' = FALSE
    /\ IF synchronization_completed THEN Stores([flash EXCEPT !.sync = FALSE])
                                    ELSE UNCHANGED flash /\ NoStrike
    /\ UNCHANGED <<connection_state, session_present, subscription_failure, introspection,
                   connection_event, mqtt_state, out_msgs, link, broker, told, parity>>

HandshakeError(again) ==
    /\ WorkerAt("poll") /\ connection_state = "HANDSHAKE_ERROR" /\ Go("mqtt")
    /\ synchronization_completed' = FALSE
    /\ IF synchronization_completed THEN Stores([flash EXCEPT !.sync = FALSE])
                                    ELSE UNCHANGED flash /\ NoStrike
    /\ connection_state' = IF again THEN "START_HANDSHAKE" ELSE connection_state
    /\ UNCHANGED <<session_present, subscription_failure, introspection,
                   connection_event, mqtt_state, out_msgs, link, broker, told, parity>>

-----------------------------------------------------------------------------
(* astarte_mqtt_poll and the events it receives. *)

Opened == [socket |-> "open", accepted |-> FALSE, inbox |-> <<>>]

\* Mutated: the event bit is not cleared.
OnDisconnection_KeepsBit(was) ==
    /\ mqtt_state' = IF was = "DISCONNECTING" THEN "DISCONNECTED" ELSE "CONNECTION_ERROR"
    /\ connection_state' = "DISCONNECTED"
    /\ link' = NoLink
    /\ Posts("disconnected")
    /\ UNCHANGED <<session_present, synchronization_completed, subscription_failure,
                   introspection, connection_event, out_msgs, flash, broker, parity>>

\* A disconnection event, raised when the client was in state was.
OnDisconnection(was) ==
    /\ mqtt_state' = CASE was \in {"CONNECTING", "CONNECTED"} -> "CONNECTION_ERROR"
                       [] was = "DISCONNECTING" -> "DISCONNECTED"
                       [] OTHER -> was
    /\ connection_state' = "DISCONNECTED"
    /\ connection_event' = FALSE
    /\ link' = NoLink
    /\ Posts("disconnected")
    /\ UNCHANGED <<session_present, synchronization_completed, subscription_failure,
                   introspection, out_msgs, flash, broker, parity>>

\* The socket of a client that never got its CONNACK is left alone:
\* mqtt_disconnect refuses and raises no event.
TimeOut ==
    /\ WorkerAt("mqtt") /\ mqtt_state = "CONNECTING"
    /\ Strike("timeout")
    /\ mqtt_state' = "CONNECTION_ERROR" /\ Go("wait")
    /\ UNCHANGED <<device, out_msgs, flash, link, broker, told, parity>>

\* Mutated: an idle client connects by itself.
Reconnect_EvenIdle ==
    /\ WorkerAt("mqtt") /\ mqtt_state \in {"CONNECTION_ERROR", "DISCONNECTED"}
    /\ mqtt_state' = "CONNECTING" /\ link' = Opened /\ Go("socket")
    /\ UNCHANGED <<device, out_msgs, flash, broker, history>>

Reconnect ==
    /\ WorkerAt("mqtt") /\ mqtt_state = "CONNECTION_ERROR"
    /\ mqtt_state' = "CONNECTING" /\ link' = Opened /\ Go("socket")
    /\ UNCHANGED <<device, out_msgs, flash, broker, history>>

\* Nothing to poll, or the backoff has not expired, or the attempt fails.
Rest ==
    /\ WorkerAt("mqtt") /\ mqtt_state \in {"DISCONNECTED", "CONNECTION_ERROR"}
    /\ Go("wait")
    /\ UNCHANGED <<device, mqtt_state, out_msgs, flash, link, broker, history>>

Poll ==
    /\ WorkerAt("mqtt") /\ mqtt_state \in {"CONNECTING", "CONNECTED", "DISCONNECTING"}
    /\ Go("socket")
    /\ UNCHANGED <<device, mqtt_state, out_msgs, flash, link, broker, history>>

PollError ==
    /\ WorkerAt("socket") /\ Strike("poll")
    /\ mqtt_state' = "CONNECTION_ERROR" /\ Go("poll")
    /\ UNCHANGED <<device, out_msgs, flash, link, broker, told, parity>>

NothingToRead ==
    /\ WorkerAt("socket") /\ link.socket # "cut" /\ link.inbox = <<>>
    /\ Go("wait")
    /\ UNCHANGED <<device, mqtt_state, out_msgs, flash, link, broker, history>>

ReadsDisconnection ==
    /\ WorkerAt("socket") /\ link.socket = "cut" /\ Go("wait")
    /\ OnDisconnection(mqtt_state)

Reads(type) ==
    /\ WorkerAt("socket") /\ link.inbox # <<>>
    /\ Head(link.inbox).type = type
    /\ link' = [link EXCEPT !.inbox = Tail(@)]
    /\ Go("wait")

\* A broker without the session makes the device forget what was pending.
OnConnack ==
    /\ Reads("CONNACK") /\ mqtt_state # "DISCONNECTING"
    /\ mqtt_state' = IF mqtt_state = "CONNECTING" THEN "CONNECTED" ELSE mqtt_state
    /\ session_present' = Head(link.inbox).present
    /\ out_msgs' = IF session_present' THEN out_msgs ELSE {}
    /\ connection_state' = "START_HANDSHAKE"
    /\ UNCHANGED <<synchronization_completed, subscription_failure, introspection,
                   connection_event, flash, broker, history>>

OnAck ==
    /\ Reads("ACK") /\ mqtt_state \notin {"CONNECTING", "DISCONNECTING"}
    /\ LET ack == Head(link.inbox) IN
       /\ out_msgs' = out_msgs \ {ack.msg}
       /\ subscription_failure' = (subscription_failure \/ ~ack.granted)
    /\ UNCHANGED <<connection_state, session_present, synchronization_completed,
                   introspection, connection_event, mqtt_state, flash, broker, history>>

-----------------------------------------------------------------------------
(* The rest of the worker's loop. *)

NotConnected ==
    /\ WorkerAt("wait") /\ ~connection_event /\ Go("poll")
    /\ UNCHANGED <<device, mqtt_state, out_msgs, flash, link, broker, history>>

\* process_transmission_queue, for any head of the queue.
QueueEmpty ==
    /\ WorkerAt("wait") /\ connection_event /\ Go("poll")
    /\ UNCHANGED <<device, mqtt_state, out_msgs, flash, link, broker, history>>

Transmit ==
    /\ WorkerAt("wait") /\ connection_event /\ Go("poll")
    /\ out_msgs' = out_msgs \cup {[kind |-> "data"]}
    /\ parity' = 1 - parity
    /\ UNCHANGED <<device, mqtt_state, flash, link, broker, told, faults>>

UpdateIntrospection ==
    /\ WorkerAt("wait") /\ connection_event /\ Go("poll")
    /\ Strike("interface")
    /\ \E i \in Interfaces :
        introspection' = IF i \in introspection THEN introspection \ {i}
                                                ELSE introspection \cup {i}
    /\ UNCHANGED <<connection_state, session_present, synchronization_completed,
                   subscription_failure, connection_event, mqtt_state, out_msgs, flash,
                   link, broker, told, parity>>

-----------------------------------------------------------------------------
(* The application. *)

ConnectBegins ==
    /\ AppAt("idle")
    /\ connection_state \in {"DISCONNECTED", "HANDSHAKE_ERROR"}
    /\ mqtt_state \in {"DISCONNECTED", "CONNECTION_ERROR"}
    /\ mqtt_state' = "CONNECTING" /\ link' = Opened
    /\ app' = "connecting" /\ UNCHANGED worker
    /\ UNCHANGED <<device, out_msgs, flash, broker, history>>

\* Mutated: the enumerator of the client is taken for that of the device.
ConnectEnds_WrongEnum ==
    /\ AppAt("connecting")
    /\ connection_state' = "CONNECTING"
    /\ app' = "idle" /\ UNCHANGED worker
    /\ UNCHANGED <<session_present, synchronization_completed, subscription_failure,
                   introspection, connection_event, mqtt_state, out_msgs, flash, link,
                   broker, history>>

\* The mutex has been released since.
ConnectEnds ==
    /\ AppAt("connecting")
    /\ connection_state' = "MQTT_CONNECTING"
    /\ app' = "idle" /\ UNCHANGED worker
    /\ UNCHANGED <<session_present, synchronization_completed, subscription_failure,
                   introspection, connection_event, mqtt_state, out_msgs, flash, link,
                   broker, history>>

\* astarte_device_disconnect, which waits for the acknowledgements, or
\* astarte_device_force_disconnect, which does not.
DisconnectBegins ==
    /\ AppAt("idle") /\ connection_state # "DISCONNECTED"
    /\ Strike("disconnect")
    /\ app' = "leaving" /\ UNCHANGED worker
    /\ UNCHANGED <<device, mqtt_state, out_msgs, flash, link, broker, told, parity>>

Returns == app' = "idle" /\ UNCHANGED worker

\* The wait for acknowledgements timed out, or there is nothing to disconnect.
DisconnectFails ==
    /\ AppAt("leaving") /\ Returns
    /\ out_msgs # {} \/ mqtt_state \in {"DISCONNECTED", "DISCONNECTING"}
    /\ UNCHANGED <<device, mqtt_state, out_msgs, flash, link, broker, history>>

DisconnectIdle ==
    /\ AppAt("leaving") /\ Returns
    /\ mqtt_state = "CONNECTION_ERROR"
    /\ mqtt_state' = "DISCONNECTED"
    /\ UNCHANGED <<device, out_msgs, flash, link, broker, history>>

\* The event of the disconnection is raised within the call...
DisconnectNow ==
    /\ AppAt("leaving") /\ Returns
    /\ mqtt_state = "CONNECTED"
    /\ OnDisconnection("DISCONNECTING")

\* Mutated: the disconnection event is not awaited.
DisconnectLater_AtOnce ==
    /\ AppAt("leaving") /\ Returns
    /\ mqtt_state \in {"CONNECTING", "CONNECTED"}
    /\ mqtt_state' = "DISCONNECTED"
    /\ link' = [NoLink EXCEPT !.socket = "cut"]
    /\ UNCHANGED <<device, out_msgs, flash, broker, history>>

\* ... or later, by the poll that finds the socket closed.
DisconnectLater ==
    /\ AppAt("leaving") /\ Returns
    /\ mqtt_state \in {"CONNECTING", "CONNECTED"}
    /\ mqtt_state' = "DISCONNECTING"
    /\ link' = [NoLink EXCEPT !.socket = "cut"]
    /\ UNCHANGED <<device, out_msgs, flash, broker, history>>

\* mqtt_disconnect refuses, or its packet cannot be written.
DisconnectRefused ==
    /\ AppAt("leaving") /\ Returns
    /\ mqtt_state \in {"CONNECTING", "CONNECTED"}
    /\ Strike("undisconnected")
    /\ mqtt_state' = "CONNECTION_ERROR"
    /\ UNCHANGED <<device, out_msgs, flash, link, broker, told, parity>>

-----------------------------------------------------------------------------
(* The broker and the network, as the device uses them; power losses. *)

Still == UNCHANGED <<device, mqtt_state, worker, app, told, parity>>
Arrives(packet) == [link EXCEPT !.inbox = Append(@, packet), !.accepted = TRUE]

\* MQTT 3.1.1: a session the broker does not have is created.
Accept ==
    /\ link.socket = "open" /\ ~link.accepted
    /\ link' = Arrives([type |-> "CONNACK", present |-> broker.session])
    /\ broker' = [broker EXCEPT !.session = TRUE]
    /\ Still /\ UNCHANGED <<out_msgs, flash, faults>>

\* A pending message, sent or sent again, gets through.
Serve(msg) ==
    /\ link.socket = "open" /\ mqtt_state = "CONNECTED"
    /\ Len(link.inbox) < MaxWire
    /\ \A k \in 1 .. Len(link.inbox) :
        link.inbox[k].type = "ACK" => link.inbox[k].msg # msg
    /\ \/ /\ NoStrike
          /\ link' = Arrives([type |-> "ACK", msg |-> msg, granted |-> TRUE])
          /\ broker' = CASE msg.kind = "subscribe" ->
                              [broker EXCEPT !.subs = @ \cup {msg.topic}]
                         [] msg.kind = "introspection" -> [broker EXCEPT !.intro = msg.names]
                         [] OTHER -> broker
       \/ /\ msg.kind = "subscribe" /\ Strike("refuse")
          /\ link' = Arrives([type |-> "ACK", msg |-> msg, granted |-> FALSE])
          /\ UNCHANGED broker
    /\ Still /\ UNCHANGED <<out_msgs, flash>>

ServeAny == \E msg \in out_msgs : Serve(msg)

Cut ==
    /\ link.socket = "open" /\ Strike("cut")
    /\ link' = [NoLink EXCEPT !.socket = "cut"]
    /\ Still /\ UNCHANGED <<out_msgs, flash, broker>>

\* The broker loses the session of a device that is not connected.
Forget ==
    /\ ~link.accepted /\ broker.session /\ Strike("forget")
    /\ broker' = [broker EXCEPT !.session = FALSE, !.subs = {}]
    /\ Still /\ UNCHANGED <<out_msgs, flash, link>>

Reboot ==
    /\ Strike("reboot")
    /\ \E names \in Firmware : Boots(names)
    /\ link' = NoLink
    /\ UNCHANGED <<out_msgs, flash, broker, parity>>

-----------------------------------------------------------------------------
StateMachine ==
    \/ Idle \/ StartHandshake \/ SetupSubscriptions \/ PublishSetup
    \/ EndHandshake \/ Ready \/ PersistSync \/ PersistIntrospection
    \/ \E again \in BOOLEAN : HandshakeError(again)
MqttPoll ==
    \/ TimeOut \/ Reconnect \/ Rest \/ Poll \/ PollError
    \/ NothingToRead \/ ReadsDisconnection \/ OnConnack \/ OnAck
Worker ==
    \/ StateMachine \/ MqttPoll
    \/ NotConnected \/ QueueEmpty \/ Transmit \/ UpdateIntrospection
Application ==
    \/ ConnectBegins \/ ConnectEnds
    \/ DisconnectBegins \/ DisconnectFails \/ DisconnectIdle
    \/ DisconnectNow \/ DisconnectLater \/ DisconnectRefused
Environment == Accept \/ ServeAny \/ Cut \/ Forget \/ Reboot

Next == Worker \/ Application \/ Environment
Spec == Init /\ [][Next]_vars

\* The worker keeps polling, backoffs expire, the broker answers and the
\* application asks for a connection until it has one.
Fairness ==
    /\ WF_vars(Worker) /\ SF_vars(Reconnect) /\ SF_vars(HandshakeError(TRUE))
    /\ WF_vars(Accept) /\ WF_vars(ServeAny)
    /\ SF_vars(ConnectBegins) /\ WF_vars(ConnectEnds)
FairSpec == Spec /\ Fairness

-----------------------------------------------------------------------------
(* What the properties below hold for: as long as the device notices every *)
(* fault.  The four Unnoticed kinds break each of them, the socket error   *)
(* of astarte_mqtt_poll first of all.                                      *)
Noticing == faults.kinds \cap Unnoticed = {}

(* A connected device whose introspection is stored is one that Astarte    *)
(* knows: the broker holds the introspection on flash and a subscription   *)
(* for each of its interfaces.  The skipped handshake of                   *)
(* state_machine_start_handshake_run rests on it.  Two things escape the   *)
(* device and are left out: a connection that ends before the CONNACK      *)
(* telling of the lost session is read, and interfaces that changed while  *)
(* the stored introspection could not follow.                              *)
Aware ==
    /\ Noticing
    /\ "forget" \in faults.kinds => faults.times <= 2
    /\ "interface" \in faults.kinds => faults.kinds \cap {"reboot", "store"} = {}
ConnectedMeansKnown ==
    Aware /\ connection_state = "CONNECTED" /\ worker \notin {"persist", "notify"}
            /\ flash.intro # Unknown /\ link.accepted =>
        /\ broker.intro = flash.intro
        /\ Topics(flash.intro) \subseteq broker.subs

(* The flag that lets a handshake be skipped, set only once everything the *)
(* handshake sent is acknowledged, is never set for a device Astarte has   *)
(* not heard of, whatever strikes and whoever preempts.                    *)
SynchronizedMeansHeard ==
    synchronization_completed \/ flash.sync => broker.intro # Unknown

(* The worker, when it sleeps, transmits exactly in state CONNECTED, and   *)
(* the application has been told so: the event bit and the connection      *)
(* events follow connection_state through every drop and reconnection.     *)
TellsConnection ==
    Noticing /\ worker = "wait" =>
        /\ connection_event <=> connection_state = "CONNECTED"
        /\ told = "connected" <=> connection_state = "CONNECTED"

(* A device whose MQTT client has been disconnected can be connected       *)
(* again: astarte_device_connect accepts the request only in DISCONNECTED. *)
(* A connection attempt that times out is left out: no event tells the     *)
(* device, which stays in MQTT_CONNECTING.                                 *)
Reconnectable ==
    Noticing /\ "timeout" \notin faults.kinds /\ mqtt_state = "DISCONNECTED" /\ app = "idle" =>
        connection_state = "DISCONNECTED"

(* A call that is disconnecting is not undone by the poll of the worker:   *)
(* the client leaves DISCONNECTED on a connection request alone.           *)
StaysDisconnected ==
    [][Noticing' /\ mqtt_state = "DISCONNECTED" /\ mqtt_state' # mqtt_state
        => app' = "connecting"]_vars

(* Once faults cease, a device whose application never disconnects gets to *)
(* CONNECTED and stays, whatever the faults have left it in.               *)
Settles ==
    <>[](Noticing /\ "disconnect" \notin faults.kinds =>
            connection_state = "CONNECTED" /\ mqtt_state = "CONNECTED")

(* The device implements the diagram of its architecture document; data in *)
(* particular is published in state CONNECTED alone.                       *)
Diagram == INSTANCE Connectivity WITH state <- connection_state
FollowsDiagram ==
    Diagram!Init /\ [][Noticing' => Diagram!Next]_(Diagram!vars)
=============================================================================
