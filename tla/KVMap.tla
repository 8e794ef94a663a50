------------------------------- MODULE KVMap -------------------------------
(***************************************************************************)
(* What the key-value storage driver promises to its callers, without the  *)
(* flash layout: an insertion-ordered map on which insert, find and delete *)
(* are atomic and durable.  A caller holds the driver's mutex for a whole  *)
(* call, so there is at most one request at a time.  A request that is cut *)
(* short (power loss, failing flash write) has taken effect completely or  *)
(* not at all, and nothing else in the map has changed.                    *)
(*                                                                         *)
(* The operations are those of src/lib/astarte_device_sdk/key_value/core.c *)
(***************************************************************************)
EXTENDS Sequences, SequencesExt, FiniteSets

CONSTANTS
    Keys,       \* (namespace, key) pairs
    Vals,       \* payloads
    Capacity,   \* number of usable entry slots
    NULL        \* no value, no key

VARIABLES
    items,      \* the stored pairs, oldest insertion first
    req,        \* the request in progress, or NoReq
    res         \* the answer to the last request

mapVars == <<items, req, res>>

Requests ==
    [kind : {"insert"}, key : Keys, val : Vals]
        \cup [kind : {"find", "delete"}, key : Keys, val : {NULL}]
        \cup [kind : {"open"}, key : {NULL}, val : {NULL}]

NoReq == [kind |-> "none", key |-> NULL, val |-> NULL]

Answer(code, val) == [code |-> code, val |-> val]
NoAnswer == Answer("none", NULL)

Present(k) == \E n \in DOMAIN items : items[n].key = k

\* Where a key that is present is.
Place(k) == CHOOSE n \in DOMAIN items : items[n].key = k

ValueOf(k) == items[Place(k)].val

\* astarte_key_value_insert: overwrite in place or append.
Put(k, v) ==
    IF Present(k)
    THEN [n \in DOMAIN items |->
            IF items[n].key = k THEN [items[n] EXCEPT !.val = v] ELSE items[n]]
    ELSE Append(items, [key |-> k, val |-> v])

\* astarte_key_value_delete.
Without(k) == IF Present(k) THEN RemoveAt(items, Place(k)) ELSE items

-----------------------------------------------------------------------------

Init == items = <<>> /\ req = NoReq /\ res = NoAnswer

Begin ==
    /\ req = NoReq
    /\ req' \in Requests
    /\ res' = NoAnswer
    /\ UNCHANGED items

\* The single instant at which a request takes effect.
Apply ==
    /\ \/ req.kind = "insert" /\ items' = Put(req.key, req.val)
       \/ req.kind = "delete" /\ items' = Without(req.key)
    /\ UNCHANGED <<req, res>>

\* An answer is only given for what the map really holds.
Justified(a) ==
    \/ /\ req.kind = "insert" /\ a = Answer("ok", NULL)
       /\ Present(req.key) /\ ValueOf(req.key) = req.val
    \/ /\ req.kind = "insert" /\ a = Answer("full", NULL)
       /\ Len(items) = Capacity /\ ~Present(req.key)
    \/ /\ req.kind = "find" /\ Present(req.key)
       /\ a = Answer("ok", ValueOf(req.key))
    \/ /\ req.kind \in {"find", "delete"} /\ ~Present(req.key)
       /\ a \in {Answer("not_found", NULL), Answer("full", NULL)}
    \/ /\ req.kind = "delete" /\ a = Answer("ok", NULL)
       /\ ~Present(req.key)
    \/ req.kind = "open" /\ a = Answer("ok", NULL)

Answers == [code : {"ok", "not_found", "full"}, val : Vals \cup {NULL}]

Return ==
    /\ req # NoReq
    /\ req' = NoReq
    /\ res' \in {a \in Answers : Justified(a)}
    /\ UNCHANGED items

\* The request is lost: power loss or an error reported to the caller.
Fail ==
    /\ req' = NoReq
    /\ res' = Answer("error", NULL)
    /\ UNCHANGED items

MapNext == Begin \/ Apply \/ Return \/ Fail

MapSpec == Init /\ [][MapNext]_mapVars
=============================================================================
