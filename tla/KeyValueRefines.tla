-------------------------- MODULE KeyValueRefines --------------------------
(***************************************************************************)
(* The flash layout of KeyValue implements the atomic, insertion-ordered   *)
(* map of KVMap.                                                           *)
(***************************************************************************)
EXTENDS KeyValue, SequencesExt

\* The records that a walk meets before it ends.
Visited ==
    SubSeq([p \in 1 .. Size + 1 |-> Walk[p - 1]], 1,
           Cardinality({n \in 0 .. Size : Walk[n] \in Used}))

\* The record under the intent that does not count: an insertion counts once
\* it is the tail, a deletion counts once it is logged.
Uncommitted(i) ==
    /\ i = intent.target
    /\ \/ intent.state = "inserting" /\ tail # i
       \/ intent.state = "deleting"

\* A list of records without that one.
Counted ==
    [s \in Seq(Ids) |->
        LET places == {p \in DOMAIN s : Uncommitted(s[p])}
        IN  IF places = {} THEN s ELSE RemoveAt(s, CHOOSE p \in places : TRUE)]

\* What they store.
Pairs == [s \in Seq(Ids) |->
             [p \in DOMAIN s |-> [key |-> entry[s[p]].key, val |-> entry[s[p]].val]]]

\* The list as the iterator would show it after a recovery.
Items == Pairs[Counted[Visited]]

Map == INSTANCE KVMap WITH items <- Items, Capacity <- Size

\* insert, find and delete are atomic and durable on an insertion-ordered map,
\* whatever write a fault interrupts (key_value/core.c; the power-loss
\* resilience promised by doc/architecture/Astarte-key-value-storage.md).
IsAtomicMap == Map!MapSpec
=============================================================================
