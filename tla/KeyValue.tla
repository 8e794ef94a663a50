------------------------------ MODULE KeyValue ------------------------------
(***************************************************************************)
(* The key-value storage driver of the SDK (src/lib/astarte_device_sdk/    *)
(* key_value/): a hash map with linear probing over ZMS flash records,     *)
(* threaded by a doubly linked list, and made resilient to power loss by a *)
(* single write-ahead record, the intent.                                  *)
(*                                                                         *)
(* A step is one ZMS record written or deleted, the unit ZMS guarantees to *)
(* be atomic, together with the reads that precede it.  The mutex of       *)
(* mutex.c is held by one call at a time, so a call is the only activity;  *)
(* it may be interrupted before any write by a power loss or by an error   *)
(* of ZMS.  Every call, and every mount, first resolves the intent.        *)
(*                                                                         *)
(* Abstracted: a namespace and its key are one member of Keys; payload     *)
(* bytes are members of Vals; allocation failures; the quota counter; the  *)
(* hash function, a constant.  The locals idx, prev_id and next_id of a    *)
(* call are read back from the intent, which records exactly them.         *)
(***************************************************************************)
EXTENDS Integers, Sequences, FiniteSets

CONSTANTS
    Keys,            \* (namespace, key) pairs
    Vals,            \* payloads
    MinId, MaxId,    \* ASTARTE_KEY_VALUE_ENTRY_{MIN,MAX}_USABLE_ID
    Hash,            \* the natural slot of each key
    NULL,            \* ASTARTE_KEY_VALUE_ENTRY_NULL_ID, and "no value"
    NoEntry,         \* the content of an unused ZMS id (-ENOENT)
    PowerLossAt,     \* phases before whose write the power may fail
    ZmsErrorAt,      \* phases whose ZMS access may fail
    MountErrors,     \* whether ZMS may fail while mounting
    WrapFaults       \* whether faults may strike while the hole of a shift has
                     \* passed from MaxId to MinId

Ids == MinId .. MaxId
IdsOrNull == Ids \cup {NULL}

ASSUME RangeAssumption == MinId \in Nat /\ MaxId \in Nat /\ MinId <= MaxId
ASSUME HashAssumption == Hash \in [Keys -> Ids]
ASSUME NullAssumption ==
    /\ NULL \notin Ids
    /\ NULL \notin Keys
    /\ NULL \notin Vals
    /\ NoEntry \notin [key : Keys, val : Vals, next : IdsOrNull, prev : IdsOrNull]

VARIABLES
    entry,      \* flash: what each usable id holds
    head, tail, \* flash: the HEAD_AND_TAIL record
    intent,     \* flash: the INTENT record
    pc,         \* the write the driver is about to perform
    resolving,  \* inside astarte_key_value_entry_intent_resolve
    req,        \* the call in progress
    res,        \* the answer to the last call
    hole, curr  \* hole_id and curr_id of the shift loop

flash == <<entry, head, tail, intent>>
call  == <<req, res>>
loop  == <<hole, curr>>
vars  == <<flash, pc, resolving, call, loop>>

Entry == [key : Keys, val : Vals, next : IdsOrNull, prev : IdsOrNull]

IntentStates == {"none", "inserting", "updating", "deleting", "shifting"}
Intent ==
    [state : IntentStates, target : IdsOrNull, prev : IdsOrNull, next : IdsOrNull]
NoIntent == [state |-> "none", target |-> NULL, prev |-> NULL, next |-> NULL]

\* Phases that end in a flash write, and those that do not.
WritePhases ==
    {"exec", "payload", "link", "ends", "clear", "undo_link", "undo_payload",
     "unlink_prev", "unlink_next", "unlink_ends", "erase", "to_shifting",
     "shift", "shift_prev", "shift_next", "shift_del", "shift_intent"}
Phases == WritePhases \cup {"down", "idle", "resolve", "wipe"}

ASSUME FaultAssumption ==
    /\ PowerLossAt \subseteq Phases
    /\ ZmsErrorAt \subseteq WritePhases
    /\ MountErrors \in BOOLEAN

Requests ==
    [kind : {"insert"}, key : Keys, val : Vals]
        \cup [kind : {"find", "delete"}, key : Keys, val : {NULL}]
        \cup [kind : {"open"}, key : {NULL}, val : {NULL}]
NoReq == [kind |-> "none", key |-> NULL, val |-> NULL]

Answer(code, val) == [code |-> code, val |-> val]
NoAnswer == Answer("none", NULL)

TypeOK ==
    /\ entry \in [Ids -> Entry \cup {NoEntry}]
    /\ head \in IdsOrNull
    /\ tail \in IdsOrNull
    /\ intent \in Intent
    /\ pc \in Phases
    /\ resolving \in BOOLEAN
    /\ req \in Requests \cup {NoReq}
    /\ res \in [code : {"none", "ok", "not_found", "full", "error"},
                val : Vals \cup {NULL}]
    /\ hole \in IdsOrNull
    /\ curr \in IdsOrNull

-----------------------------------------------------------------------------
(* The ring of usable ids and the hash map on it. *)

Size == MaxId - MinId + 1

\* Mutated: the probe does not wrap around.
Succ_NoWrap(i) == i + 1

Succ(i) == IF i = MaxId THEN MinId ELSE i + 1

\* Cyclic distance travelled by a probe from one id to another.
Dist(from, to) == IF to >= from THEN to - from ELSE Size - (from - to)

Used == {i \in Ids : entry[i] # NoEntry}

Holds(i, k) == entry[i] # NoEntry /\ entry[i].key = k

\* Where a probe for k stops: the empty ids and those that hold k.
Stops(k) == {i \in Ids : entry[i] = NoEntry \/ Holds(i, k)}

\* astarte_key_value_entry_find_or_alloc, when Stops(k) is not empty.
Slot(k) ==
    CHOOSE i \in Stops(k) :
        \A j \in Stops(k) : Dist(Hash[k], i) <= Dist(Hash[k], j)

\* A link whose target record is missing: the update functions of
\* entry_list.c answer ZMS_ERROR.
Dangling(i) == i # NULL /\ entry[i] = NoEntry

\* entry_list.c: rewrite one link of a record, nothing to do for NULL.
SetNext(i, n) == IF i = NULL THEN entry ELSE [entry EXCEPT ![i].next = n]
\* Mutated: backward links are forgotten.
SetPrev_Skipped(i, p) == entry

SetPrev(i, p) == IF i = NULL THEN entry ELSE [entry EXCEPT ![i].prev = p]

-----------------------------------------------------------------------------
(* Control. *)

Init ==
    /\ entry = [i \in Ids |-> NoEntry]
    /\ head = NULL /\ tail = NULL
    /\ intent = NoIntent
    /\ pc = "down"
    /\ resolving = FALSE
    /\ req = NoReq /\ res = NoAnswer
    /\ hole = NULL /\ curr = NULL

\* A call enters the driver: the mutex is taken and the intent read.
Begin(r) ==
    /\ pc = IF r.kind = "open" THEN "down" ELSE "idle"
    /\ req' = r /\ res' = NoAnswer
    /\ pc' = "resolve" /\ resolving' = TRUE
    /\ UNCHANGED <<flash, loop>>

\* The call returns to its caller.
Leave(answer, to) ==
    /\ req' = NoReq /\ res' = answer
    /\ pc' = to /\ resolving' = FALSE
    /\ hole' = NULL /\ curr' = NULL

Answered(code, val) == Leave(Answer(code, val), "idle")

\* An error inside a call.  While mounting, an error of the recovery is
\* KEY_VALUE_RECOVERY_FAILED and astarte_storage_init wipes the partition; only
\* the failure of the final clear is reported as it is and gives up mounting.
Failed ==
    Leave(Answer("error", NULL),
          IF req.kind # "open" THEN "idle" ELSE IF pc = "clear" THEN "down" ELSE "wipe")

Goto(phase) == pc' = phase /\ UNCHANGED <<resolving, call>>

-----------------------------------------------------------------------------
(* astarte_key_value_insert: find_or_alloc, then entry_write. *)

\* No free slot and no match, or nothing to find: answered without a write.
AnswerMiss ==
    /\ pc = "exec"
    /\ \/ Stops(req.key) = {} /\ Answered("full", NULL)
       \/ /\ Stops(req.key) # {} /\ req.kind # "insert"
          /\ entry[Slot(req.key)] = NoEntry
          /\ Answered("not_found", NULL)
    /\ UNCHANGED flash

FindHit ==
    /\ pc = "exec" /\ req.kind = "find"
    /\ Stops(req.key) # {} /\ entry[Slot(req.key)] # NoEntry
    /\ Answered("ok", entry[Slot(req.key)].val)
    /\ UNCHANGED flash

\* entry_write logs what it is about to do, with the links the record gets.
InsertIntent ==
    /\ pc = "exec" /\ req.kind = "insert" /\ Stops(req.key) # {}
    /\ LET i == Slot(req.key) IN
       intent' = IF entry[i] = NoEntry
                 THEN [state |-> "inserting", target |-> i,
                       prev |-> tail, next |-> NULL]
                 ELSE [state |-> "updating", target |-> i,
                       prev |-> entry[i].prev, next |-> entry[i].next]
    /\ Goto("payload")
    /\ UNCHANGED <<entry, head, tail, loop>>

InsertPayload ==
    /\ pc = "payload"
    /\ entry' = [entry EXCEPT ![intent.target] =
                    [key |-> req.key, val |-> req.val,
                     next |-> intent.next, prev |-> intent.prev]]
    /\ Goto(IF intent.state = "inserting" THEN "link" ELSE "clear")
    /\ UNCHANGED <<head, tail, intent, loop>>

\* update_list_tail: the old tail points to the new record ...
InsertLink ==
    /\ pc = "link" /\ ~Dangling(tail)
    /\ entry' = SetNext(tail, intent.target)
    /\ Goto("ends")
    /\ UNCHANGED <<head, tail, intent, loop>>

\* ... which becomes the tail, and the head of an empty list.
InsertEnds ==
    /\ pc = "ends"
    /\ head' = IF tail = NULL THEN intent.target ELSE head
    /\ tail' = intent.target
    /\ Goto("clear")
    /\ UNCHANGED <<entry, intent, loop>>

-----------------------------------------------------------------------------
(* astarte_key_value_delete: delete_and_unlink_single_entry, then shift.     *)
(* resolve_delete_intent repeats the same writes from the logged links.     *)

DeleteIntent ==
    /\ pc = "exec" /\ req.kind = "delete"
    /\ Stops(req.key) # {} /\ entry[Slot(req.key)] # NoEntry
    /\ LET i == Slot(req.key) IN
       intent' = [state |-> "deleting", target |-> i,
                  prev |-> entry[i].prev, next |-> entry[i].next]
    /\ Goto("unlink_prev")
    /\ UNCHANGED <<entry, head, tail, loop>>

UnlinkPrev ==
    /\ pc = "unlink_prev" /\ ~Dangling(intent.prev)
    /\ entry' = SetNext(intent.prev, intent.next)
    /\ Goto("unlink_next")
    /\ UNCHANGED <<head, tail, intent, loop>>

UnlinkNext ==
    /\ pc = "unlink_next" /\ ~Dangling(intent.next)
    /\ entry' = SetPrev(intent.next, intent.prev)
    /\ Goto("unlink_ends")
    /\ UNCHANGED <<head, tail, intent, loop>>

UnlinkEnds ==
    /\ pc = "unlink_ends"
    /\ head' = IF intent.prev = NULL THEN intent.next ELSE head
    /\ tail' = IF intent.next = NULL THEN intent.prev ELSE tail
    /\ Goto("erase")
    /\ UNCHANGED <<entry, intent, loop>>

EraseTarget ==
    /\ pc = "erase"
    /\ entry' = [entry EXCEPT ![intent.target] = NoEntry]
    /\ Goto("to_shifting")
    /\ UNCHANGED <<head, tail, intent, loop>>

\* Mutated: the log is cleared before the shift instead of following it.
ShiftingFrom_Cleared(i) == NoIntent

ShiftingFrom(i) == [state |-> "shifting", target |-> i, prev |-> NULL, next |-> NULL]

ToShifting ==
    /\ pc = "to_shifting"
    /\ intent' = ShiftingFrom(intent.target)
    /\ hole' = intent.target /\ curr' = Succ(intent.target)
    /\ Goto("shift")
    /\ UNCHANGED <<entry, head, tail>>

-----------------------------------------------------------------------------
(* astarte_key_value_entry_delete_resume_shift: move back the records of the *)
(* cluster behind the hole that the hole is nearer to home for.              *)

\* Mutated: ids are compared without the wrap-around.
Closer_Linear(i) == Hash[entry[i].key] <= hole /\ hole < i

Closer(i) == Dist(Hash[entry[i].key], hole) < Dist(Hash[entry[i].key], i)

\* The whole ring was visited, or the cluster ended.
ShiftDone ==
    /\ pc = "shift"
    /\ curr = hole \/ entry[curr] = NoEntry
    /\ Goto("clear")
    /\ UNCHANGED <<flash, loop>>

\* Mutated: a record that stays is examined again and again.
ShiftSkip_Stays ==
    /\ pc = "shift" /\ curr # hole /\ entry[curr] # NoEntry /\ ~Closer(curr)
    /\ UNCHANGED vars

ShiftSkip ==
    /\ pc = "shift" /\ curr # hole /\ entry[curr] # NoEntry /\ ~Closer(curr)
    /\ curr' = Succ(curr)
    /\ UNCHANGED <<flash, pc, resolving, call, hole>>

\* shift_back_single_entry: copy, relink the neighbours, delete the source.
ShiftCopy ==
    /\ pc = "shift" /\ curr # hole /\ entry[curr] # NoEntry /\ Closer(curr)
    /\ entry' = [entry EXCEPT ![hole] = entry[curr]]
    /\ Goto("shift_prev")
    /\ UNCHANGED <<head, tail, intent, loop>>

ShiftPrev ==
    /\ pc = "shift_prev" /\ ~Dangling(entry[curr].prev)
    /\ entry' = SetNext(entry[curr].prev, hole)
    /\ head' = IF entry[curr].prev = NULL THEN hole ELSE head
    /\ Goto("shift_next")
    /\ UNCHANGED <<tail, intent, loop>>

ShiftNext ==
    /\ pc = "shift_next" /\ ~Dangling(entry[curr].next)
    /\ entry' = SetPrev(entry[curr].next, hole)
    /\ tail' = IF entry[curr].next = NULL THEN hole ELSE tail
    /\ Goto("shift_del")
    /\ UNCHANGED <<head, intent, loop>>

ShiftDelete ==
    /\ pc = "shift_del"
    /\ entry' = [entry EXCEPT ![curr] = NoEntry]
    /\ Goto("shift_intent")
    /\ UNCHANGED <<head, tail, intent, loop>>

\* The place just vacated is the new hole, and the log says so.
ShiftIntent ==
    /\ pc = "shift_intent"
    /\ intent' = ShiftingFrom(curr)
    /\ hole' = curr /\ curr' = Succ(curr)
    /\ Goto("shift")
    /\ UNCHANGED <<entry, head, tail>>

\* A link to a missing record ends the call with an error.
Neighbour ==
    CASE pc = "link"        -> tail
      [] pc = "undo_link"   -> intent.prev
      [] pc = "unlink_prev" -> intent.prev
      [] pc = "unlink_next" -> intent.next
      [] pc = "shift_prev"  -> entry[curr].prev
      [] pc = "shift_next"  -> entry[curr].next
      [] OTHER              -> NULL

NeighbourMissing ==
    /\ Dangling(Neighbour)
    /\ Failed
    /\ UNCHANGED flash

-----------------------------------------------------------------------------
(* astarte_key_value_entry_intent_resolve. *)

ResolveNothing ==
    /\ pc = "resolve" /\ intent.state = "none"
    /\ IF req.kind = "open"
       THEN Answered("ok", NULL)
       ELSE pc' = "exec" /\ resolving' = FALSE /\ UNCHANGED <<call, loop>>
    /\ UNCHANGED flash

\* Mutated: an insertion is rolled back although it is committed.
ResolveInsert_Always ==
    /\ pc = "resolve" /\ intent.state = "inserting"
    /\ Goto("undo_link")
    /\ UNCHANGED <<flash, loop>>

\* resolve_insert_intent: the head and tail record is the commit point.
ResolveInsert ==
    /\ pc = "resolve" /\ intent.state = "inserting"
    /\ Goto(IF tail = intent.target THEN "clear" ELSE "undo_link")
    /\ UNCHANGED <<flash, loop>>

UndoLink ==
    /\ pc = "undo_link" /\ ~Dangling(intent.prev)
    /\ entry' = SetNext(intent.prev, NULL)
    /\ Goto("undo_payload")
    /\ UNCHANGED <<head, tail, intent, loop>>

UndoPayload ==
    /\ pc = "undo_payload"
    /\ entry' = [entry EXCEPT ![intent.target] = NoEntry]
    /\ Goto("clear")
    /\ UNCHANGED <<head, tail, intent, loop>>

\* zms_delete refused: resolve_insert_intent still answers OK.
UndoPayloadRefused ==
    /\ pc = "undo_payload" /\ pc \in ZmsErrorAt
    /\ req.kind = "open" => MountErrors
    /\ Goto("clear")
    /\ UNCHANGED <<flash, loop>>

ResolveUpdate ==
    /\ pc = "resolve" /\ intent.state = "updating"
    /\ Goto("clear")
    /\ UNCHANGED <<flash, loop>>

\* Mutated: a logged deletion is dropped instead of being redone.
ResolveDelete_Dropped ==
    /\ pc = "resolve" /\ intent.state = "deleting"
    /\ Goto("clear")
    /\ UNCHANGED <<flash, loop>>

ResolveDelete ==
    /\ pc = "resolve" /\ intent.state = "deleting"
    /\ Goto(IF entry[intent.target] = NoEntry THEN "to_shifting" ELSE "unlink_prev")
    /\ UNCHANGED <<flash, loop>>

\* resolve_shift_intent: the hole is the first empty id from the logged one.
HolesAhead == {i \in Ids : i >= intent.target /\ entry[i] = NoEntry}

ResolveShift ==
    /\ pc = "resolve" /\ intent.state = "shifting" /\ HolesAhead # {}
    /\ hole' = CHOOSE i \in HolesAhead : \A j \in HolesAhead : i <= j
    /\ curr' = Succ(hole')
    /\ Goto("shift")
    /\ UNCHANGED flash

\* The scan wraps to id 0, not to MinId.  Id 0 is below the usable range and
\* never written, so it is taken for the hole, and shift_back_single_entry
\* refuses id 1 with INTERNAL_ERROR.
ResolveShiftWrapped ==
    /\ pc = "resolve" /\ intent.state = "shifting" /\ HolesAhead = {}
    /\ Failed
    /\ UNCHANGED flash

\* astarte_key_value_entry_intent_clear, at the end of a call or a recovery.
Clear ==
    /\ pc = "clear"
    /\ intent' = NoIntent
    /\ IF resolving /\ req.kind # "open"
       THEN /\ pc' = "exec" /\ resolving' = FALSE
            /\ hole' = NULL /\ curr' = NULL
            /\ UNCHANGED call
       ELSE Answered("ok", NULL)
    /\ UNCHANGED <<entry, head, tail>>

-----------------------------------------------------------------------------
(* Faults. *)

HoleWrapped == intent.state = "shifting" /\ HolesAhead = {}

PowerLoss ==
    /\ pc \in PowerLossAt
    /\ HoleWrapped => WrapFaults
    /\ Leave(Answer("error", NULL), "down")
    /\ UNCHANGED flash

ZmsError ==
    /\ pc \in ZmsErrorAt \ {"undo_payload"}
    /\ req.kind = "open" => MountErrors
    /\ HoleWrapped => WrapFaults
    /\ Failed
    /\ UNCHANGED flash

\* astarte_storage_init erases the partition it could not recover.
Wipe ==
    /\ pc = "wipe"
    /\ entry' = [i \in Ids |-> NoEntry]
    /\ head' = NULL /\ tail' = NULL
    /\ intent' = NoIntent
    /\ pc' = "idle"
    /\ UNCHANGED <<resolving, call, loop>>

Insert == InsertIntent \/ InsertPayload \/ InsertLink \/ InsertEnds
Delete == \/ DeleteIntent \/ UnlinkPrev \/ UnlinkNext \/ UnlinkEnds
          \/ EraseTarget \/ ToShifting
Shift == \/ ShiftDone \/ ShiftSkip \/ ShiftCopy \/ ShiftPrev \/ ShiftNext
         \/ ShiftDelete \/ ShiftIntent
Resolve == \/ ResolveNothing \/ ResolveInsert \/ UndoLink \/ UndoPayload
           \/ ResolveUpdate \/ ResolveDelete \/ ResolveShift \/ ResolveShiftWrapped

\* What the driver does by itself once called or powered.
Work == \/ AnswerMiss \/ FindHit \/ Insert \/ Delete \/ Shift \/ Resolve
        \/ NeighbourMissing \/ Clear \/ Wipe

Fault == PowerLoss \/ ZmsError \/ UndoPayloadRefused

Next == (\E r \in Requests : Begin(r)) \/ Work \/ Fault

Spec == Init /\ [][Next]_vars

\* The thread inside the driver holds the mutex and keeps running.
FairSpec == Spec /\ WF_vars(Work)

-----------------------------------------------------------------------------
(* Properties. *)

\* The ids met by following next from the head, as the iterator does.
Walk[n \in 0 .. Size] ==
    IF n = 0 THEN head
    ELSE IF Walk[n - 1] = NULL \/ entry[Walk[n - 1]] = NoEntry THEN NULL
    ELSE entry[Walk[n - 1]].next

\* Whenever no intent is pending, the list threads every stored record exactly
\* once, from head to tail, and its backward links mirror the forward ones
\* (entry_list.c, and the relinking in entry_delete.c and entry_intent.c).
ListThreadsEveryRecord ==
    intent.state = "none" =>
        /\ {Walk[n] : n \in 0 .. Size} \ {NULL} = Used
        /\ Walk[Size] = NULL
        /\ \A i \in Used :
            /\ IF entry[i].next = NULL THEN i = tail
               ELSE entry[entry[i].next].prev = i
            /\ entry[i].prev = NULL <=> i = head

\* Whenever no intent is pending, a probe finds every record: no empty id lies
\* between the natural slot of a key and its record, and no key has two
\* records (find_or_alloc, and the shift of entry_delete.c).
ProbeFindsEveryRecord ==
    intent.state = "none" =>
        \A i \in Used : Stops(entry[i].key) # {} /\ Slot(entry[i].key) = i

\* A recovery never ends in KEY_VALUE_RECOVERY_FAILED, for which the storage
\* of the device would be erased at the next boot (storage/core.c).
RecoverySucceeds ==
    /\ pc # "wipe"
    /\ ~(pc = "resolve" /\ HoleWrapped)

\* The phases of each kind of operation.
InsertPhases == {"link", "ends", "undo_link", "undo_payload"}
DeletePhases == {"unlink_prev", "unlink_next", "unlink_ends", "erase", "to_shifting"}
ShiftPhases  == {"shift", "shift_prev", "shift_next", "shift_del", "shift_intent"}
CallPhases   == {"exec", "payload", "link", "ends"}

\* At every write of a multi-step operation the log on flash names that
\* operation and the record it is about, so that a fault there leaves enough
\* to recover; and no write is made on behalf of nobody.
IntentCoversWrite ==
    /\ intent.state # "none" => intent.target \in Ids
    /\ pc \in InsertPhases => intent.state = "inserting"
    /\ pc \in DeletePhases => intent.state = "deleting"
    /\ pc \in ShiftPhases  => /\ intent.state = "shifting"
                              /\ hole \in Ids /\ curr \in Ids
    /\ pc = "payload" => intent.state \in {"inserting", "updating"}
    /\ pc \in {"shift_prev", "shift_next"} => entry[curr] # NoEntry
    /\ pc \notin {"down", "idle", "wipe"} => req \in Requests
    /\ pc \in CallPhases => req.kind # "open" /\ ~resolving
    /\ pc \in {"payload", "link", "ends"} => req.kind = "insert"
    /\ pc = "exec" => intent.state = "none"

\* Write-ahead logging: unless the partition is being wiped, no record and no
\* end of the list changes while the log says that nothing is going on
\* ("Log intent before any physical write occurs", entry.c).
WriteAhead ==
    [][intent.state = "none" /\ pc # "wipe" => UNCHANGED <<entry, head, tail>>]_vars

\* Once faults stop, every call ends: the probe, the shift loop and the
\* recovery terminate, also on a partition that an earlier fault damaged.
CallsEnd == <>[][~Fault]_vars => []<>(pc \in {"idle", "down"})
=============================================================================
