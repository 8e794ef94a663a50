----------------------------- MODULE MCKeyValue -----------------------------
(* Instances of KeyValue for TLC. *)
EXTENDS KeyValueRefines

CONSTANTS k1, k2, k3, k4, v1, v2

\* Two keys share a natural slot, the third is displaced by them; no cluster
\* reaches the end of the ring.
HashClustered == [k \in Keys |-> IF k = k3 THEN 3 ELSE 2]

\* Two keys hash to the last of three ids, so clusters wrap around, and four
\* keys do not fit.
HashWrapping == [k \in Keys |-> IF k = k3 THEN 2 ELSE IF k = k4 THEN 3 ELSE 4]

\* A record is in two places from its copy until the source is deleted.
CopyWindow == {"shift_prev", "shift_next", "shift_del"}

AllPhases == WritePhases \cup {"resolve", "wipe"}
NoPhases == {}
OutsideCopyWindow == AllPhases \ CopyWindow
ErrorsAnywhere == WritePhases
ErrorsOutsideWindow == WritePhases \ (CopyWindow \cup {"undo_payload"})
=============================================================================
