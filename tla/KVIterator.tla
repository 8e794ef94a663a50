----------------------------- MODULE KVIterator -----------------------------
(***************************************************************************)
(* The key-value store as its clients see it between two calls (src/lib/   *)
(* astarte_device_sdk/key_value/core.c), with the iterator over the        *)
(* records of one namespace.                                               *)
(*                                                                         *)
(* A store is the list of its keys in the order of insertion and the ZMS   *)
(* id each of them has: KeyValue shows that the calls are atomic, and how. *)
(* An iterator is one id.  It is a copy in RAM that no call of another     *)
(* client updates: a deletion shifts records to other ids under it.        *)
(***************************************************************************)
EXTENDS Integers, Sequences, FiniteSets, SequencesExt, FiniteSetsExt, Functions

CONSTANTS
    Keys,     \* (namespace, key) pairs of every client
    Mine,     \* those of the namespace that is iterated
    LastId,   \* number of usable ids
    Hash,     \* the natural slot of each key
    NULL      \* ASTARTE_KEY_VALUE_ENTRY_NULL_ID, "no key", "no value"

Ids == 1 .. LastId
IdsOrNull == Ids \cup {NULL}

ASSUME StoreAssumption ==
    /\ LastId \in Nat \ {0} /\ Hash \in [Keys -> Ids]
    /\ Mine \subseteq Keys /\ IsFiniteSet(Keys)
    /\ NULL \notin Ids /\ NULL \notin Keys

Stores == [list : Seq(Keys), at : [Keys -> IdsOrNull]]
EmptyStore == [list |-> <<>>, at |-> [k \in Keys |-> NULL]]

Has(kv, k) == kv.at[k] # NULL
Stored(kv) == {k \in Keys : Has(kv, k)}

\* The record at an id, if there is one.
KeyAt(kv, i) ==
    IF \E k \in Stored(kv) : kv.at[k] = i
    THEN CHOOSE k \in Stored(kv) : kv.at[k] = i
    ELSE NULL

Dist(from, to) == IF to >= from THEN to - from ELSE LastId - (from - to)

Slot(kv, k) ==
    CHOOSE i \in Ids :
        /\ KeyAt(kv, i) = NULL
        /\ \A j \in Ids : KeyAt(kv, j) = NULL => Dist(Hash[k], i) <= Dist(Hash[k], j)

Full(kv) == \A i \in Ids : KeyAt(kv, i) # NULL

\* astarte_key_value_insert: an update keeps the place, a new record goes to
\* the tail, a full table answers with an error the store does not show.
Insert(kv, k) ==
    IF Has(kv, k) \/ Full(kv) THEN kv
    ELSE [list |-> Append(kv.list, k), at |-> [kv.at EXCEPT ![k] = Slot(kv, k)]]

\* The nth id after i.
Ahead(i, n) == IF i + n > LastId THEN i + n - LastId ELSE i + n

\* shift_back_single_entry: the record at id j moves into the hole if that is
\* closer to its natural slot.  An empty id ends the loop.
ShiftSingle(s, j) ==
    LET k == CHOOSE x \in Keys : s.at[x] = j
    IN  IF s.over \/ \A x \in Keys : s.at[x] # j THEN [s EXCEPT !.over = TRUE]
        ELSE IF Dist(Hash[k], s.hole) < Dist(Hash[k], j)
        THEN [at |-> [s.at EXCEPT ![k] = s.hole], hole |-> j, over |-> FALSE]
        ELSE s

\* The shift loop after the deletion of id i.  Once around is enough, for some id
\* is passed by no probe (Sound).
Scans == [at : [Keys -> IdsOrNull], hole : Ids, over : BOOLEAN]
Shift(at, i) ==
    LET single == [s \in Scans |-> [j \in Ids |-> ShiftSingle(s, j)]]
        scan[n \in 0 .. LastId - 1] ==
            IF n = 0 THEN [at |-> at, hole |-> i, over |-> FALSE]
            ELSE single[scan[n - 1]][Ahead(i, n)]
    IN  scan[LastId - 1].at

\* Where a key stands in the list.
Place(kv, k) == CHOOSE p \in DOMAIN kv.list : kv.list[p] = k

\* Mutated: the deleted key stays in the list.
Delete_Listed(kv, k) ==
    IF ~Has(kv, k) THEN kv
    ELSE [list |-> kv.list, at |-> Shift([kv.at EXCEPT ![k] = NULL], kv.at[k])]

\* astarte_key_value_delete.
Delete(kv, k) ==
    IF ~Has(kv, k) THEN kv
    ELSE [list |-> RemoveAt(kv.list, Place(kv, k)),
          at   |-> Shift([kv.at EXCEPT ![k] = NULL], kv.at[k])]

-----------------------------------------------------------------------------
(* The iterator. *)

\* The places of the keys of the namespace behind the record at id i, from the
\* head if i is NULL.
Behind(kv, i) ==
    {p \in DOMAIN kv.list :
        /\ kv.list[p] \in Mine
        /\ i # NULL => Place(kv, KeyAt(kv, i)) < p}

\* An iterator that stands on an id without a record.
Lost(kv, i) == i # NULL /\ KeyAt(kv, i) = NULL

\* Mutated: a record of another namespace ends the iteration.
Advance_StopsAtForeign(kv, i) ==
    LET from == IF i = NULL THEN 1 ELSE 1 + Place(kv, KeyAt(kv, i))
    IN  IF Lost(kv, i) \/ from \notin Behind(kv, i) THEN NULL ELSE kv.at[kv.list[from]]

\* Mutated: the end of the list is followed by its head.
Advance_Wraps(kv, i) ==
    LET rest == IF Behind(kv, i) = {} THEN Behind(kv, NULL) ELSE Behind(kv, i)
    IN  IF Lost(kv, i) \/ rest = {} THEN NULL ELSE kv.at[kv.list[Min(rest)]]

\* astarte_key_value_iterator_next, NULL for NOT_FOUND: that is also the answer
\* on an id without a record, whatever is left in the list.
Advance(kv, i) ==
    IF Lost(kv, i) \/ Behind(kv, i) = {} THEN NULL ELSE kv.at[kv.list[Min(Behind(kv, i))]]

\* astarte_key_value_entry_get_prev_id of a record.
PrevOf(kv, k) ==
    IF Place(kv, k) = 1 THEN NULL ELSE kv.at[kv.list[Place(kv, k) - 1]]

\* Mutated: the iterator is not healed, it stays on the id of the deleted record.
IteratorDelete_Unhealed(kv, i) ==
    IF KeyAt(kv, i) = NULL THEN [kv |-> kv, cur |-> i]
    ELSE [kv |-> Delete(kv, KeyAt(kv, i)), cur |-> i]

\* astarte_key_value_iterator_delete deletes whatever stands at the id.  The
\* next key is looked up again after the shift, and the iterator goes to the
\* record before it; it restarts from the head after the last one.  On an id
\* without a record, or on NULL, nothing is deleted.
IteratorDelete(kv, i) ==
    LET next == Behind(kv, i)
        left == Delete(kv, KeyAt(kv, i))
    IN  IF i = NULL \/ Lost(kv, i) THEN [kv |-> kv, cur |-> i]
        ELSE [kv  |-> left,
              cur |-> IF next = {} THEN NULL ELSE PrevOf(left, kv.list[Min(next)])]

\* What the driver relies on: the list has every record once, no two records
\* share an id, a probe finds each of them, and some id is passed by no probe:
\* an empty one, or the one that was filled last.
Sound(kv) ==
    /\ IsInjective(kv.list)
    /\ Range(kv.list) = Stored(kv)
    /\ \A k, l \in Stored(kv) : kv.at[k] = kv.at[l] => k = l
    /\ \A k \in Stored(kv), i \in Ids :
          Dist(Hash[k], i) < Dist(Hash[k], kv.at[k]) => KeyAt(kv, i) # NULL
    /\ \E i \in Ids : \A k \in Stored(kv) : Dist(Hash[k], kv.at[k]) <= Dist(Hash[k], i)
=============================================================================
