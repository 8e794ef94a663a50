----------------------------- MODULE Properties -----------------------------
(***************************************************************************)
(* The properties of a device: device/properties.c, properties_storage.c   *)
(* and storage/prop.c in src/lib/astarte_device_sdk, over the iterator of  *)
(* the key-value store.                                                    *)
(*                                                                         *)
(* A property is one value that the device and Astarte both keep.  The     *)
(* device stores it on flash; the owner of its interface, device or        *)
(* server, is the one who sets and unsets it.  The worker walks the store  *)
(* with an iterator: twice to print the list of device owned properties    *)
(* that tells Astarte what to purge, once to send them, and once for every *)
(* purge list it receives.  Each call of the key-value store is one step,  *)
(* and an application thread may set, unset or evict in between.           *)
(*                                                                         *)
(* Abstracted: a path and its interface are one key, values are model      *)
(* values, every name is as long as any other, the four calls that read a  *)
(* key are two.  Messages of the queue and of the broker arrive in order:  *)
(* losing them is the subject of TransmissionQueue and MqttDelivery, the   *)
(* rest of the handshake that of Session.                                  *)
(***************************************************************************)
EXTENDS KVIterator

CONSTANTS
    Values,        \* the values of properties
    Ifaces,        \* names of interfaces
    Iface,         \* the interface of each property
    Owner,         \* its ownership, "device" or "server"
    Firmwares,     \* introspections: the major version of each interface, or 0
    Pasts,         \* what the device may have stored before
    MaxChanges,    \* sets, unsets and evictions by the application (a bound)
    MaxServer,     \* sets and unsets by Astarte (a bound)
    MaxOutages     \* disconnections and reboots (a bound)

ASSUME InterfaceAssumption ==
    /\ Iface \in [Mine -> Ifaces] /\ Owner \in [Ifaces -> {"device", "server"}]
    /\ Firmwares \subseteq [Ifaces -> Nat] /\ Firmwares # {}
ASSUME ValueAssumption == NULL \notin Values /\ Values # {}
ASSUME PastAssumption == \A past \in Pasts : past \in Stores /\ Sound(past)
ASSUME BoundAssumption ==
    MaxChanges \in Nat /\ MaxServer \in Nat /\ MaxOutages \in Nat

VARIABLES
    kv,        \* flash: which properties are stored, and where
    property,  \* flash: their values and major versions
    firmware,  \* the introspection
    state,     \* connection_state
    walk,      \* RAM: the walk of the worker over the store
    app,       \* RAM: the application thread inside set or unset
    queue,     \* flash: the messages about properties in the transmission queue
    cloud,     \* Astarte: the value it has for each property
    down,      \* messages from Astarte on their way
    synced,    \* the session goes on and the introspection is known
    lost,      \* history: device owned properties whose last change was
               \* discarded, made by a walk or dropped by a bad purge list
    spoiled,   \* history: a purge was interfered with, there was none, or what
               \* the server set after it found no room
    spent      \* how many changes, server changes and outages there were

device == <<kv, property, firmware>>
vars == <<device, state, walk, app, queue, cloud, down, synced, lost, spoiled, spent>>

DeviceOwned == {k \in Mine : Owner[Iface[k]] = "device"}
ServerOwned == Mine \ DeviceOwned
Known(k) == firmware[Iface[k]] # 0
Props == Stored(kv) \cap Mine
ValueOf(k) == IF Has(kv, k) THEN property[k].value ELSE NULL

NoProperty == [value |-> NULL, major |-> 0]
WalkKinds == {"none", "size", "fill", "send", "purge"}
NoWalk == [kind |-> "none", pc |-> "sizes", cur |-> NULL, key |-> NULL, seen |-> NULL,
           data |-> NoProperty, size |-> 0, list |-> {}, before |-> {},
           disturbed |-> FALSE]
IdleApp == [key |-> NULL, value |-> NULL]
States == {"disconnected", "start", "end", "connected", "error"}
Downlinks == [type : {"purge"}, keys : SUBSET ServerOwned]
                \cup [type : {"set"}, key : ServerOwned, value : Values \cup {NULL}]

TypeOK ==
    /\ kv \in Stores /\ Sound(kv)
    /\ property \in [Mine -> [value : Values \cup {NULL}, major : Nat]]
    /\ \A k \in Mine : Has(kv, k) <=> property[k] # NoProperty
    /\ firmware \in Firmwares /\ state \in States
    /\ walk \in [kind : WalkKinds, pc : {"sizes", "key", "handle", "load", "store", "next", "end"},
                 cur : IdsOrNull, key : Mine \cup {NULL}, seen : Mine \cup {NULL},
                 data : [value : Values \cup {NULL}, major : Nat], size : Nat, list : SUBSET Mine,
                 before : SUBSET Mine, disturbed : BOOLEAN]
    /\ app \in [key : DeviceOwned \cup {NULL}, value : Values \cup {NULL}]
    /\ queue \in Seq([key : DeviceOwned, value : Values \cup {NULL}])
    /\ cloud \in [Mine -> Values \cup {NULL}]
    /\ down \in Seq(Downlinks)
    /\ synced \in BOOLEAN /\ spoiled \in BOOLEAN /\ lost \subseteq DeviceOwned
    /\ spent \in [changes : 0 .. MaxChanges, server : 0 .. MaxServer,
                  outages : 0 .. MaxOutages]

Spends(what, max) == spent[what] < max /\ spent' = [spent EXCEPT ![what] = @ + 1]

-----------------------------------------------------------------------------
(* The store. *)

\* astarte_storage_property_store, with the major version of the interface.
Store(k, v) ==
    /\ kv' = Insert(kv, k)
    /\ property' = IF ~Has(kv, k) /\ Full(kv) THEN property
                   ELSE [property EXCEPT ![k] = [value |-> v, major |-> firmware[Iface[k]]]]

\* The values that remain with the keys.
Forget(left) ==
    /\ kv' = left
    /\ property' = [k \in Mine |-> IF left.at[k] # NULL THEN property[k] ELSE NoProperty]

\* astarte_storage_property_delete.
Erase(k) == \E left \in {Delete(kv, k)} : Forget(left)

\* A deletion by another thread disturbs the walk that is going on.
Removes(k) ==
    /\ Erase(k)
    /\ walk' = [walk EXCEPT !.disturbed = @ \/ (walk.kind # "none" /\ Has(kv, k))]

-----------------------------------------------------------------------------
(* The application. *)

\* astarte_device_set_property up to the storage.
AppSet(k, v) ==
    /\ app = IdleApp /\ Known(k) /\ Spends("changes", MaxChanges)
    /\ Store(k, v)
    /\ app' = [key |-> k, value |-> v]
    /\ UNCHANGED <<firmware, state, walk, queue, cloud, down, synced, lost, spoiled>>

\* astarte_device_unset_property up to the storage.  A property that is not
\* stored is unset all the same.
AppUnset(k) ==
    /\ app = IdleApp /\ Known(k) /\ Spends("changes", MaxChanges)
    /\ Removes(k)
    /\ app' = [key |-> k, value |-> NULL]
    /\ UNCHANGED <<firmware, state, queue, cloud, down, synced, lost, spoiled>>

\* The rest of both: the message is discarded unless the device is connected.
\* (The history notes whether the change is still what the store holds.)
AppSend ==
    /\ app # IdleApp
    /\ queue' = IF state \in {"connected", "end"} THEN Append(queue, app) ELSE queue
    /\ lost' = IF queue' # queue /\ ValueOf(app.key) = app.value
               THEN lost \ {app.key} ELSE lost \cup {app.key}
    /\ app' = IdleApp
    /\ UNCHANGED <<device, state, walk, cloud, down, synced, spoiled, spent>>

\* A record of another namespace comes or goes, a stored message say.
Foreign(k) ==
    /\ k \notin Mine /\ app = IdleApp /\ Spends("changes", MaxChanges)
    /\ \/ Removes(k)
       \/ kv' = Insert(kv, k) /\ UNCHANGED <<property, walk>>
    /\ UNCHANGED <<firmware, state, app, queue, cloud, down, synced, lost, spoiled>>

-----------------------------------------------------------------------------
(* Connection: what Session says about it, as far as properties can see. *)

\* astarte_storage_property_iterator_new: an empty store ends the walk at once.
Started(kind, size) ==
    [NoWalk EXCEPT !.kind = kind, !.cur = Advance(kv, NULL), !.size = size, !.before = Props,
                   !.pc = IF Advance(kv, NULL) = NULL THEN "end" ELSE "sizes"]

\* What Astarte sends when it is asked for all it has: the list of the
\* properties to keep, and their values.
ServerState ==
    LET set == {k \in ServerOwned : Known(k) /\ cloud[k] # NULL}
    IN  <<[type |-> "purge", keys |-> set]>>
        \o SetToSeq({[type |-> "set", key |-> k, value |-> cloud[k]] : k \in set})

\* A connection with a session that goes on skips the handshake; another one
\* starts it, and Astarte is asked for all it has (emptyCache).  The messages
\* of an old session may be gone.
Connect(present) ==
    /\ state \in {"disconnected", "error"} /\ walk.kind = "none"
    /\ IF present /\ synced
       THEN /\ state' = "end" /\ UNCHANGED <<walk, down, spoiled>>
       ELSE /\ state' = "start" /\ walk' = Started("size", 0)
            /\ spoiled' = TRUE
            /\ down' = (IF present THEN down ELSE <<>>) \o ServerState
    /\ synced' = (present /\ synced)
    /\ UNCHANGED <<device, app, queue, cloud, lost, spent>>

\* END_HANDSHAKE: everything was acknowledged.
Connected ==
    /\ state = "end" /\ walk.kind = "none"
    /\ state' = "connected" /\ synced' = TRUE
    /\ UNCHANGED <<device, walk, app, queue, cloud, down, lost, spoiled, spent>>

Disconnect ==
    /\ state \in {"end", "connected"} /\ walk.kind = "none"
    /\ Spends("outages", MaxOutages)
    /\ state' = "disconnected"
    /\ UNCHANGED <<device, walk, app, queue, cloud, down, synced, lost, spoiled>>

\* The power is lost, and may come back with another firmware.
Reboot(next) ==
    /\ Spends("outages", MaxOutages)
    /\ firmware' = next /\ state' = "disconnected"
    /\ synced' = (synced /\ next = firmware)
    /\ walk' = NoWalk /\ app' = IdleApp
    /\ lost' = IF app = IdleApp THEN lost ELSE lost \cup {app.key}
    /\ spoiled' = (spoiled \/ walk.kind = "purge")
    /\ UNCHANGED <<kv, property, queue, cloud, down>>

\* The worker gives a queued message to the MQTT client.
Transmit ==
    /\ state = "connected" /\ walk.kind = "none" /\ queue # <<>>
    /\ cloud' = [cloud EXCEPT ![Head(queue).key] = Head(queue).value]
    /\ queue' = Tail(queue)
    /\ UNCHANGED <<device, state, walk, app, down, synced, lost, spoiled, spent>>

\* Astarte sets or unsets a server owned property; the session holds the
\* message for a device that is away.
ServerChange(k, v) ==
    /\ Known(k) /\ v # cloud[k] /\ Spends("server", MaxServer)
    /\ cloud' = [cloud EXCEPT ![k] = v]
    /\ down' = Append(down, [type |-> "set", key |-> k, value |-> v])
    /\ UNCHANGED <<device, state, walk, app, queue, synced, lost, spoiled>>

Receives(type) ==
    /\ state \in {"end", "connected"} /\ walk.kind = "none"
    /\ down # <<>> /\ Head(down).type = type
    /\ down' = Tail(down)

\* astarte_device_properties_handle_incoming, on_set_property: the property is
\* stored.  The dispatcher drops what belongs to no interface.
ReceiveSet ==
    /\ Receives("set") /\ Head(down).value # NULL
    /\ IF Known(Head(down).key) THEN Store(Head(down).key, Head(down).value)
                                ELSE UNCHANGED <<kv, property>>
    /\ spoiled' = (spoiled \/ (Known(Head(down).key) /\ ~Has(kv, Head(down).key) /\ Full(kv)))
    /\ UNCHANGED <<firmware, state, walk, app, queue, cloud, synced, lost, spent>>

\* on_unset_property.
ReceiveUnset ==
    /\ Receives("set") /\ Head(down).value = NULL
    /\ IF Known(Head(down).key) THEN Erase(Head(down).key)
                                ELSE UNCHANGED <<kv, property>>
    /\ UNCHANGED <<firmware, state, walk, app, queue, cloud, synced, lost, spoiled, spent>>

\* Mutated: an empty list is taken for a message without content.
ReceivePurge_NotEmpty ==
    /\ Receives("purge")
    /\ IF Head(down).keys = {} THEN UNCHANGED walk
                               ELSE walk' = [Started("purge", 0) EXCEPT !.list = Head(down).keys]
    /\ UNCHANGED <<device, state, app, queue, cloud, synced, lost, spent>>
    /\ spoiled' = FALSE

\* astarte_device_properties_handle_purge parses the list and walks.
ReceivePurge ==
    /\ Receives("purge")
    /\ walk' = [Started("purge", 0) EXCEPT !.list = Head(down).keys]
    /\ UNCHANGED <<device, state, app, queue, cloud, synced, lost, spoiled, spent>>

-----------------------------------------------------------------------------
(* The walks.  Every step is one call of the key-value store, and what the     *)
(* worker does with its answer.                                                *)

WalkStep(pc) == walk.kind # "none" /\ walk.pc = pc
Away == UNCHANGED <<firmware, app, queue, synced, spent>>

\* A walk that cannot go on: the handshake fails, a purge is given up.
Abort ==
    /\ walk' = NoWalk
    /\ state' = IF walk.kind = "purge" THEN state ELSE "error"
    /\ spoiled' = (spoiled \/ walk.kind = "purge")
    /\ UNCHANGED <<kv, property, cloud, lost, down>>

\* astarte_storage_property_iterator_get on an id whose record is gone, or that
\* a record of another namespace has moved to, fails.
GetFails ==
    /\ walk.pc \in {"sizes", "key"} /\ walk.kind # "none"
    /\ KeyAt(kv, walk.cur) \notin Mine
    /\ Abort /\ Away

\* The sizes of the names.
GetSizes ==
    /\ WalkStep("sizes") /\ KeyAt(kv, walk.cur) \in Mine
    /\ walk' = [walk EXCEPT !.pc = "key", !.seen = KeyAt(kv, walk.cur)]
    /\ UNCHANGED <<kv, property, state, cloud, down, lost, spoiled>> /\ Away

\* The names, which fit unless a longer key has moved to the id meanwhile.
GetKey ==
    /\ WalkStep("key") /\ KeyAt(kv, walk.cur) \in Mine
    /\ \/ walk' = [walk EXCEPT !.pc = IF walk.kind = "send" THEN "load" ELSE "handle",
                               !.key = KeyAt(kv, walk.cur), !.seen = NULL]
          /\ UNCHANGED <<kv, property, state, cloud, down, lost, spoiled>>
       \/ walk.seen # KeyAt(kv, walk.cur) /\ Abort
    /\ Away

Passed == [walk EXCEPT !.pc = "next", !.key = NULL, !.data = NoProperty]

\* append_property_to_string: a property of no interface is deleted, under the
\* iterator; of those owned by the device the first walk adds up the sizes, and
\* the second one fills a buffer of that size.
AppendProperty ==
    /\ WalkStep("handle") /\ walk.kind \in {"size", "fill"}
    /\ IF ~Known(walk.key) THEN
          /\ Erase(walk.key)
          /\ walk' = Passed
          /\ lost' = lost \cup ({walk.key} \cap DeviceOwned)
          /\ UNCHANGED <<state, cloud, down, spoiled>>
       ELSE IF walk.key \notin DeviceOwned THEN
          walk' = Passed /\ UNCHANGED <<kv, property, state, cloud, down, lost, spoiled>>
       ELSE IF walk.kind = "size" THEN
          /\ walk' = [Passed EXCEPT !.size = @ + 1]
          /\ UNCHANGED <<kv, property, state, cloud, down, lost, spoiled>>
       ELSE IF walk.size = 0 THEN Abort
       ELSE /\ walk' = [Passed EXCEPT !.list = @ \cup {walk.key}, !.size = @ - 1]
            /\ UNCHANGED <<kv, property, state, cloud, down, lost, spoiled>>
    /\ Away

\* astarte_storage_property_iterator_delete.
DeleteHere ==
    \E d \in {IteratorDelete(kv, walk.cur)} :
        /\ Forget(d.kv)
        /\ walk' = [Passed EXCEPT !.cur = d.cur]
        /\ lost' = lost \cup {k \in DeviceOwned : Has(kv, k) /\ ~Has(d.kv, k)}

\* purge_server_property: what has no interface goes, what the server owns goes
\* unless the list has it.
PurgeProperty ==
    /\ WalkStep("handle") /\ walk.kind = "purge"
    /\ IF ~Known(walk.key) \/ (walk.key \in ServerOwned /\ walk.key \notin walk.list)
       THEN DeleteHere
       ELSE walk' = Passed /\ UNCHANGED <<kv, property, lost>>
    /\ UNCHANGED <<state, cloud, down, spoiled>> /\ Away

\* astarte_storage_property_load looks the property up by name.
LoadProperty ==
    /\ WalkStep("load")
    /\ IF Has(kv, walk.key)
       THEN /\ walk' = [walk EXCEPT !.pc = "handle", !.data = property[walk.key]]
            /\ UNCHANGED <<kv, property, state, cloud, down, lost, spoiled>>
       ELSE Abort
    /\ Away

\* Mutated: only what has no interface at all is stale.
Stale_NoInterface(k, major) == ~Known(k)

\* The interface is gone, or has another major version by now.
Stale(k, major) == ~Known(k) \/ firmware[Iface[k]] # major

\* send_device_owned_property.
SendProperty ==
    /\ WalkStep("handle") /\ walk.kind = "send"
    /\ IF Stale(walk.key, walk.data.major) THEN DeleteHere
       ELSE /\ walk' = IF walk.key \in DeviceOwned THEN [walk EXCEPT !.pc = "store"]
                                                   ELSE Passed
            /\ UNCHANGED <<kv, property, lost>>
    /\ UNCHANGED <<state, cloud, down, spoiled>> /\ Away

\* astarte_device_set_property stores the value that was loaded once more, and
\* discards the message, for the device is in START_HANDSHAKE.
StoreAgain ==
    /\ WalkStep("store")
    /\ Store(walk.key, walk.data.value)
    /\ lost' = IF ValueOf(walk.key) = walk.data.value THEN lost ELSE lost \cup {walk.key}
    /\ walk' = Passed
    /\ UNCHANGED <<state, cloud, down, spoiled>> /\ Away

MoveOn ==
    /\ WalkStep("next")
    /\ walk' = [walk EXCEPT !.cur = Advance(kv, @),
                            !.pc = IF Advance(kv, walk.cur) = NULL THEN "end" ELSE "sizes"]
    /\ UNCHANGED <<kv, property, state, cloud, down, lost, spoiled>> /\ Away

\* astarte_device_properties_send_purge: the list goes to Astarte, which drops
\* the device owned properties it does not name, and the next walk begins.
Publish(list) ==
    /\ cloud' = [k \in Mine |-> IF k \in DeviceOwned \ list THEN NULL ELSE cloud[k]]
    /\ lost' = {k \in DeviceOwned : IF k \in list \/ (\E m \in Range(queue) : m.key = k)
                                   THEN k \in lost ELSE Has(kv, k)}
    /\ walk' = [Started("send", 0) EXCEPT !.disturbed = walk.disturbed]
    /\ UNCHANGED state

\* Mutated: without a size no message is sent at all.
EndSize_Silent ==
    /\ WalkStep("end") /\ walk.kind = "size"
    /\ IF walk.size = 0 THEN walk' = Started("send", 0) /\ lost' = {} /\ UNCHANGED <<cloud, state>>
       ELSE /\ walk' = [Started("fill", walk.size) EXCEPT !.disturbed = walk.disturbed]
            /\ UNCHANGED <<state, cloud, lost>>
    /\ UNCHANGED <<kv, property, down, spoiled>> /\ Away

\* Without a size there is nothing to print: four zero bytes are sent.
EndSize ==
    /\ WalkStep("end") /\ walk.kind = "size"
    /\ IF walk.size = 0 THEN Publish({})
       ELSE /\ walk' = [Started("fill", walk.size) EXCEPT !.disturbed = walk.disturbed]
            /\ UNCHANGED <<state, cloud, lost>>
    /\ UNCHANGED <<kv, property, down, spoiled>> /\ Away

EndFill ==
    /\ WalkStep("end") /\ walk.kind = "fill"
    /\ Publish(walk.list)
    /\ UNCHANGED <<kv, property, down, spoiled>> /\ Away

EndSend ==
    /\ WalkStep("end") /\ walk.kind = "send"
    /\ walk' = NoWalk /\ state' = "end"
    /\ UNCHANGED <<kv, property, cloud, down, lost, spoiled>> /\ Away

EndPurge ==
    /\ WalkStep("end") /\ walk.kind = "purge"
    /\ walk' = NoWalk /\ spoiled' = walk.disturbed
    /\ UNCHANGED <<kv, property, state, cloud, down, lost>> /\ Away

-----------------------------------------------------------------------------
\* A device with a past: its properties were stored one after the other, under
\* some firmware, and Astarte may have unset those of the server meanwhile.
Init ==
    /\ \E past \in Pasts, old \in Firmwares :
        /\ kv = past
        /\ property = [k \in Mine |->
                         IF Has(past, k)
                         THEN [value |-> CHOOSE v \in Values : TRUE, major |-> old[Iface[k]]]
                         ELSE NoProperty]
        /\ \A k \in Stored(past) \cap Mine : old[Iface[k]] # 0
    /\ \E unset \in {{}, ServerOwned} :
          cloud = [k \in Mine |-> IF k \in unset THEN NULL ELSE property[k].value]
    /\ firmware \in Firmwares
    /\ state = "disconnected" /\ walk = NoWalk /\ app = IdleApp
    /\ queue = <<>> /\ down = <<>>
    /\ synced = FALSE /\ spoiled = TRUE /\ lost = {}
    /\ spent = [changes |-> 0, server |-> 0, outages |-> 0]

Walk ==
    \/ GetFails \/ GetSizes \/ GetKey \/ AppendProperty \/ PurgeProperty
    \/ LoadProperty \/ SendProperty \/ StoreAgain \/ MoveOn
    \/ EndSize \/ EndFill \/ EndSend \/ EndPurge

Worker == Walk \/ Connected \/ Transmit \/ ReceiveSet \/ ReceiveUnset \/ ReceivePurge

Application ==
    \/ \E k \in DeviceOwned, v \in Values : AppSet(k, v)
    \/ \E k \in DeviceOwned : AppUnset(k)
    \/ AppSend
    \/ \E k \in Keys : Foreign(k)

Environment ==
    \/ \E present \in BOOLEAN : Connect(present)
    \/ Disconnect
    \/ \E f \in Firmwares : Reboot(f)
    \/ \E k \in ServerOwned, v \in Values \cup {NULL} : ServerChange(k, v)

Next == Worker \/ Application \/ Environment

Spec == Init /\ [][Next]_vars

\* The worker is a thread of its own and never waits inside a walk.
FairSpec == Spec /\ WF_vars(Walk)

-----------------------------------------------------------------------------
(* Properties. *)

Settled == walk.kind = "none" /\ app = IdleApp /\ state = "connected"

\* Once a device is connected and the messages have arrived, it stores what
\* the server set and nothing else, whatever it missed while it was away:
\* purge and values make up for it, unless another thread removed a record
\* under the walk of the purge, or a value found the table full.
ServerValuesAgree ==
    Settled /\ down = <<>> /\ ~spoiled =>
        \A k \in ServerOwned : Known(k) => ValueOf(k) = cloud[k]

\* Once a device is connected and its queue is empty, Astarte has what the
\* device stores, but for the properties in lost: those changed while it was
\* not connected, and those that a walk overwrote or erased with their interface.
UplinkAgrees ==
    Settled /\ queue = <<>> =>
        \A k \in DeviceOwned \ lost : Known(k) => cloud[k] = ValueOf(k)

\* A purge removes from the server owned properties those that its list does
\* not name, and those of no interface, all of them and no other; what the
\* device owns stays.  Deletions by other threads under the walk excepted.
PurgeExact ==
    [][ walk.kind = "purge" /\ walk.pc = "end" /\ walk'.kind = "none" /\ ~walk.disturbed =>
            \A k \in walk.before :
                Has(kv, k) <=> Known(k) /\ (k \in ServerOwned => k \in walk.list) ]_vars

\* The list that tells Astarte what to keep names every device owned property
\* that is stored, provided that no property of a forgotten interface is met on
\* the way and no other thread deletes a record: Astarte drops nothing that
\* the device has.
NoForgotten == \A k \in walk.before : Known(k)
PurgeListComplete ==
    [][ walk.kind \in {"size", "fill"} /\ walk'.kind = "send" /\ NoForgotten
            /\ ~walk.disturbed => walk.before \cap DeviceOwned \subseteq walk.list ]_vars

\* After the properties were walked through in a handshake none is left of an
\* interface that is gone or has another major version.
NoneStale ==
    [][ walk.kind = "send" /\ state' = "end" /\ ~walk.disturbed =>
            \A k \in Props : Known(k) /\ property[k].major = firmware[Iface[k]] ]_vars

\* Every walk ends, although records come, go and move under it, and although
\* deleting the last one makes it start again from the head.
WalksEnd == walk.kind # "none" ~> walk.kind = "none"

\* "We discard messages when the device is disconnected, as properties are sent
\* on reconnection" (device/properties.c:76): a property set by then is known to
\* Astarte once the device is connected and its queue is empty.
SentOnReconnection ==
    Settled /\ queue = <<>> /\ spent.outages = 0 =>
        \A k \in DeviceOwned : Has(kv, k) /\ Known(k) => cloud[k] = ValueOf(k)
=============================================================================
