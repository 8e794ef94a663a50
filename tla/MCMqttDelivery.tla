--------------------------- MODULE MCMqttDelivery ---------------------------
(* Instances of MqttDelivery for TLC. *)
EXTENDS MqttDelivery

\* Three messages share two packet ids.
OutReusingIds == <<"sub", "qos2", "qos1">>
InQos21 == <<"qos2", "qos1">>

OutEveryQos == <<"qos1", "qos0", "qos2">>
InQos20 == <<"qos2", "qos0">>
=============================================================================
