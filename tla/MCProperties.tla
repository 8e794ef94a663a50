---------------------------- MODULE MCProperties ----------------------------
(* Instances of Properties for TLC. *)
EXTENDS Properties

CONSTANTS d1, d2, s1, s2, o1, f1, v1, v2

AllKeys == {d1, s1, s2, o1, f1}
Names == AllKeys \ {f1}

\* The interfaces are named after one of their properties; o1 is the device's.
IfaceOf == [k \in Names |-> IF k = s2 THEN s1 ELSE k]
OwnerOf == [i \in {d1, s1, o1} |-> IF i = s1 THEN "server" ELSE "device"]

\* A firmware without o1, and one with it and another version of the rest.
Without == [i \in {d1, s1, o1} |-> IF i = o1 THEN 0 ELSE 1]
With == [i \in {d1, s1, o1} |-> 2]
TwoFirmwares == {Without, With}

\* Two clusters, and records that shift between ids.
HashOf == [k \in AllKeys |-> IF k \in {s1, o1} THEN 1 ELSE IF k = f1 THEN 2 ELSE 5]

\* A new device, one that has stored everything, and one with room.
Histories == {<<>>, <<o1, s1, f1, d1, s2>>, <<o1, d1>>}
SomePasts == {FoldLeft(Insert, EmptyStore, history) : history \in Histories}
=============================================================================
