---------------------------- MODULE Connectivity ----------------------------
(***************************************************************************)
(* What the connectivity state machine of the device promises: its state   *)
(* moves only along the edges of the diagram of                            *)
(* doc/architecture/Astarte-device-architecture.md, the application is     *)
(* told of connections and disconnections in the correct moments, and      *)
(* nothing is transmitted to Astarte before connectivity is achieved.      *)
(***************************************************************************)
EXTENDS Integers

VARIABLES
    state,    \* the node of the diagram
    told,     \* the last connection event the application was given
    parity    \* flips with every transmission

vars == <<state, told, parity>>

States == {"DISCONNECTED", "MQTT_CONNECTING", "START_HANDSHAKE",
           "END_HANDSHAKE", "HANDSHAKE_ERROR", "CONNECTED"}

TypeOK ==
    /\ state \in States
    /\ told \in {"connected", "disconnected"}
    /\ parity \in {0, 1}

Init ==
    /\ state = "DISCONNECTED"
    /\ told = "disconnected"
    /\ parity = 0

Along(from, to) ==
    /\ state \in from
    /\ state' = to
    /\ UNCHANGED <<told, parity>>

ConnectionRequest == Along({"DISCONNECTED"}, "MQTT_CONNECTING")
MqttConnection ==
    Along({"DISCONNECTED", "MQTT_CONNECTING", "END_HANDSHAKE", "CONNECTED",
           "HANDSHAKE_ERROR"}, "START_HANDSHAKE")
HandshakeSent == Along({"START_HANDSHAKE"}, "END_HANDSHAKE")
HandshakeFailed == Along({"START_HANDSHAKE", "END_HANDSHAKE"}, "HANDSHAKE_ERROR")
HandshakeDone == Along({"END_HANDSHAKE"}, "CONNECTED")

TellConnected ==
    /\ state = "CONNECTED" /\ told = "disconnected"
    /\ told' = "connected"
    /\ UNCHANGED <<state, parity>>

MqttDisconnection ==
    /\ state # "DISCONNECTED"
    /\ state' = "DISCONNECTED" /\ told' = "disconnected"
    /\ UNCHANGED parity

Transmit ==
    /\ state = "CONNECTED"
    /\ parity' = 1 - parity
    /\ UNCHANGED <<state, told>>

Next ==
    \/ ConnectionRequest \/ MqttConnection \/ MqttDisconnection
    \/ HandshakeSent \/ HandshakeFailed \/ HandshakeDone
    \/ TellConnected \/ Transmit

Spec == Init /\ [][Next]_vars

=============================================================================
