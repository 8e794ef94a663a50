# Astarte device SDK for Zephyr: a TLA+ model

A verification development kept beside `lib/astarte_device_sdk`. It models the
parts of the SDK whose correctness depends on order (what reaches flash before
what, which thread runs between two steps of another, which packet is lost),
and the path of a value from the application into a BSON document and back,
where it depends on sizes, offsets and who owns which memory. TLC checks the
models on small instances; TLAPS proves the most important properties of some
of them for every value of the constants.

Paths below are relative to `lib/astarte_device_sdk` unless they start with
`doc/` or `include/`.

## 1. The system

| Part | State | Operations | Talks to |
|---|---|---|---|
| Key-value driver (`key_value/`) | records in ZMS slots found by linear probing, a doubly linked list through all of them, one intent record; a quota counter in RAM | open, insert, find, delete, iterate | flash (ZMS), one global mutex |
| Storage (`storage/`) | namespaces of the key-value store: synchronization flag, introspection, properties, MQTT messages, stored transmissions | get, set, push, peek, discard, recover indexes | key-value driver |
| Transmission queue (`device/transmission_queue.c`) | three message queues in RAM, a ring of stored messages, a sequence number | insert with eviction, peek the oldest, discard, purge, clear | application threads, worker, `storage/trans.c` |
| MQTT client (`mqtt/`) | connection state, caches of outgoing and incoming messages in RAM and on flash, id counter, backoff | connect, disconnect, poll, publish, subscribe, retransmit, handle events | Zephyr MQTT client, broker, `storage/mqtt.c` |
| Session manager, dispatcher (`device/session_manager.c`, `device/dispatcher.c`) | device connection state, session present and synchronization flags, subscription failure, event bit | connect, disconnect, one step of the state machine per poll, callbacks of the MQTT client | MQTT client, `storage/sync.c`, `storage/introsp.c`, event queue |
| Worker (`device/core.c`) | transmission tokens | poll, wait for the event bit, transmit the queue | all of the above |
| Key-value iterator (`key_value/core.c`) | one ZMS id in RAM | begin, advance, get, delete under the iterator | key-value driver |
| Properties (`device/properties*.c`, `storage/prop.c`) | property values and major versions on flash | set, unset, get, purge, send at the handshake | key-value iterator, transmission queue, dispatcher |
| Introspection (`introspection.c`, `interface.c`) | list of interfaces | add, update, remove, look up, print | worker and application |
| Datastreams (`device/datastreams.c`, `object.c`, `device/core.c`) | event queue of the application, memory of the events in it | send, receive, get an event, clean it up | transmission queue, MQTT client |
| Data, mappings, validation (`data/`, `mapping.c`, `validation.c`) | none that outlives a call, but for the memory of a value | check, serialize, deserialize, destroy | BSON, allocation |
| BSON (`bson/`) | the buffer of the serializer | append, end; look up, walk, read | data |
| Backoff, pairing, HTTP, crypto, TLS | the last delay of a backoff, credentials on flash | exchanges with the pairing API | MQTT client |

Two threads matter: the worker, and the application that connects,
disconnects and inserts messages. They share the client's mutex, the
key-value mutex, an event bit and several variables that no mutex protects
(`connection_state`, the indexes of the ring, the sequence number, the list of
interfaces).

What is hard about it, and what makes each part correct:

* **Key-value driver.** Each call writes several ZMS records. Power may be lost
  before any of them, and any of them may be refused. Recovery has only the
  intent record to go by. Correct: after recovery the store is an atomic map
  that remembers the order of insertion, and each structure on flash is sound.
* **Transmission queue.** Several threads insert while the worker looks at four
  queues, publishes and discards without a common lock; stored messages survive
  reboots, but their indexes do not; the end of a session purges messages, on
  whatever thread it is noticed. Correct: nothing disappears, classes keep
  their order, and a reboot finds the same ring.
* **MQTT client.** Packets are lost with connections, RAM with the power, and
  the broker may lose the session. Correct: what wants an answer is kept until
  it has one, QoS 2 is delivered once, caches drain.
* **Properties.** The worker walks a store with an iterator that is a single id,
  while records shift between ids: it deletes and stores under its own
  iterator, and the application does so between its calls. Correct: walks end,
  skip nothing and delete nothing else; device and Astarte agree on the values.
* **Datastreams.** Any allocation in the middle of an array of an object may be
  refused, and the event queue may be full, once other blocks are held.
  Sizes are written into documents after the fact and trusted when they are
  read. Correct: what is delivered is what was sent, and every block is given
  back once.
* **Session.** A connection, a session and a synchronization are three
  different things with three different lifetimes, and the handshake is skipped
  on the strength of flags about all of them. Correct: a connected device is
  known to Astarte, the application is told the truth, nothing is transmitted
  before CONNECTED, and the device gets there in the end.

`PROJECT.json` lists every component with its status, and every hazard with the
line where it bites and the properties that would catch it.

## 2. The modules

| Module | Models |
|---|---|
| `KVMap` | what the key-value store promises: an insertion-ordered map of bounded capacity with atomic calls |
| `KeyValue` | `key_value/`: every ZMS write of every operation and of its recovery as a step |
| `KeyValueRefines` | the refinement of `KVMap` by `KeyValue` |
| `KeyValueProofs` | theorems about `KeyValue` |
| `KeyValueRefinesProofs` | the proof that `KeyValue` implements `KVMap` |
| `KVIterator` | the store between two calls, its iterator included |
| `Properties` | properties over `KVIterator`, with the handshake's walks, the purges both ways and Astarte |
| `PropertiesProofs` | theorems about `Properties` and the operators of `KVIterator` |
| `TransmissionQueue` | `device/transmission_queue.c`, `storage/trans.c`, the transmitting half of the worker |
| `TransmissionQueueProofs` | theorems about `TransmissionQueue` |
| `MqttDelivery` | `mqtt/pubsub.c`, `caching.c`, `events.c`, `storage/mqtt.c`, with the broker |
| `MqttDeliveryProofs` | theorems about `MqttDelivery` |
| `Connectivity` | the connectivity diagram of `doc/architecture/Astarte-device-architecture.md` |
| `Session` | `device/session_manager.c`, `dispatcher.c`, the polling half of the worker, `mqtt/core.c`, with the broker |
| `SessionProofs` | theorems about `Session` |
| `Bson` | `bson/`: documents as sequences of cells, one for every byte |
| `AstarteData` | `data/`, the conversions of `mapping.c`, `alloc.c`: values to and from documents, and their memory |
| `Interfaces` | `interface.c`, `mapping.c`, `validation.c`, `introspection.c` |
| `Datastreams` | `device/datastreams.c`, `object.c`, the event queue of `device/core.c`, composing the three above |
| `DatastreamsProofs` | theorems about `Bson` and `Datastreams` |
| `Backoff` | `backoff.c`: the delays between attempts, in their integer arithmetic |
| `BackoffProofs` | theorems about `Backoff` |
| `MC*` | instances for TLC |

In each module the history variables are named as such where they are declared;
no guard of the code's behaviour reads them, but for the bounds on faults.
Definitions named `X_Y` that are commented "Mutated" are faulty versions of `X`;
nothing uses them, they show that the properties can tell the difference.

### KeyValue

State: `flash` (records with key, value, collisions, links; the ends of the
list; the intent record) and the call in progress with its phase. An action is
one flash write with the reads before it, so that power may be lost
before each of them; a call runs under the mutex and calls do not interleave.
Two faults may strike: the power is lost, or ZMS refuses the write. The hash of
a key is a constant function `Home`, so that collisions and clusters that wrap
from the last id to the first are chosen by the instance. Values are model
values.

`KVMap` sees the same store as a sequence of pairs. The refinement mapping
reads the list on flash and completes or undoes the interrupted call as
recovery would: this is what makes a crash atomic.

### TransmissionQueue

A thread inside `insert` moves through program counters at the points where
another thread may interfere: the sequence number, each put, each eviction,
each call of the key-value store, each index update. The worker looks at the
four queues in four steps, publishes, and discards in steps of its own. Ids of
stored messages are numbers modulo `IdSpace` (2^32 in the code), so that the
ring wraps. Boots recompute the indexes from the ids. Pacing, timestamps and
the printing of keys are left out; an allocation failure is only considered in
the form of a publication that fails.

`Disconnect` is the callback of a session that ends
(`dispatcher.c:40`). It runs in the worker's poll, within a publish of the worker
that finds the transport broken (whose error `pubsub.c:88` only logs), or on the
thread of the application in `astarte_mqtt_disconnect` (`mqtt/core.c:422`), and
shares no lock with the worker: the action has no guard. Its loop of gets is one
`Disconnect` for each get, so that anything may come between two of them; a
purge that stops early, which the code does not have, is allowed thereby.
`Connect`, on the contrary, only happens in the worker's poll.

What an eviction or a purge removes is kept in the history `gone`: `overtaken`
when the worker has looked at the message in its current turn, `given up`
otherwise.

### Properties and KVIterator

`KVIterator` takes from `KeyValue` that calls are atomic and keeps what an
iterator can see: the order of the list and the id of every record. A deletion
shifts records of its cluster into the hole, under any iterator that stands on
them; one of another namespace does it too. `iterator_delete` is translated
with the way it heals its own iterator (the next key is looked up again after
the shift, the iterator goes to the record before it, to no element after the
last one). The shift goes once around the table, where the code's loop has no such
bound: some id is passed by no probe (the last part of `Sound`), and no record moves
over it. This id is an empty one, or the one that was filled last.

`Properties` has one action for every call of the store, so that the application
may set, unset or evict in between: the two reads of a key by the iterator are
two steps, the load and the store of the handshake are two steps. The four
walks (sizes of the purge list, text of it, sending, purging what Astarte does
not list) share these steps and differ in what they do with a key. What
`Session`, `TransmissionQueue` and `MqttDelivery` show of the rest (when a
handshake runs, that queued messages arrive in order) is taken for granted.
`lost` and `spoiled` are histories. `lost` has the device owned properties whose last
change was discarded while not connected, made by a walk (which stores again what it
loaded, and erases what has no interface any more), or dropped by Astarte after an
incomplete list. `spoiled` says that the values of the server have not been made up for: no
purge came to its end undisturbed, or what the server set after it found the table full.

### Bson, AstarteData, Interfaces, Datastreams

A document is a sequence of cells, one for each byte, so that offsets and
sizes are those of the code; a number of several bytes has its value in its
first cell. This is what lets `PayloadsFaithful` compare what the serializer
writes with a document written down after the grammar of BSON, and the theorems
about `Bson` speak of every buffer.

A deserializing function is described by the blocks of memory it asks for, in
order, and the error it ends with. `Receive(nth)` runs the handler of one
message with its `nth` request refused (0 for none): what the complete stages
hold, what the interrupted one had got and what each cleanup gives back are
computed from the code's cleanup functions, and compared with the heap.

Paths are sequences of segments, and segments sequences of letters, because
wildcards and parameters are found in them. Endpoints of an interface are
assumed not to overlap, as its JSON schema demands, and lookups take the first that fits.

### MqttDelivery

Outgoing and incoming messages are numbered; the constants say of what kind
each is (subscription, QoS 0, 1 or 2). RAM and flash copies of the caches are
separate variables and the call that changes one after the other is cut in
between, where power may be lost. The broker and the network are external:
they follow MQTT 3.1.1 over a connection that delivers in order and may be cut,
with a session the broker may lose. `Window` says how many packets may be under
way when a timeout is considered: with 1, a message is sent again only when
nothing is under way. When every id is taken the code searches for a free one
for ever; the model lets nothing be sent. The clearing of the caches on a
CONNACK is one step. Deliveries are counted up to 2. A message of a session the
broker lost is excused from every promise.

### Session

One step of the worker is a stretch that it runs under the client's mutex, or
between two accesses to what it shares with the application: the handshake is
five steps, the end of it four. The messages of the handshake are a set of
pending messages that the broker serves in any order. A data message is one
token, and the queue of the application is any choice of its head. A backoff may
end at any time. Astarte keeps the introspection of a device when the broker
loses its session; the subscriptions go with the session. `mqtt_disconnect`
raises its event within the call, raises it later when the poll finds the socket
closed, or refuses. A client that never got its CONNACK gets no event on a
timeout. `Preempts = FALSE` lets the two threads interleave only where the
other one sleeps; `TRUE` everywhere. The destruction of a device is not
modelled.

Faults, by name: `cut` (connection), `forget` (broker's session), `refuse` (a
subscription), `poll` (socket poll error), `timeout` (of a connection attempt),
`start`, `end` (an error in the handshake), `store` (a flash write), `full` (the
event queue), `reboot`, `interface` (added or removed), `disconnect` (a call of
the application), `undisconnected` (a refused `mqtt_disconnect`).

## 3. The runs

| Run | Instance | Shows |
|---|---|---|
| `kv_power` | three ids, four keys whose clusters wrap; power losses and refused writes outside the copy window | the structures on flash stay sound, recovery succeeds, and `KVMap` is implemented |
| `kv_damaged` | the same ids with every fault, mounting included; fairness | the intent covers each write and precedes it; every call and every mount ends |
| `kv_copy_lost` | power lost in the copy window of a shift | *violated*: `IsAtomicMap` |
| `queue` | two threads, three messages in RAM and on flash, queues of one place, a ring of two places on four ids that wraps; a power loss, a re-creation or a key-value error; sessions that end at every step; fairness | nothing is lost but under the hands of the worker, order, contiguity, recovery of the indexes, sequence numbers, draining |
| `queue_overtaken` | one thread, every class; a purge or an eviction between peek and discard | *violated*: `NothingLost` |
| `delivery_faults` | messages of every kind both ways on two ids; two cuts, a reboot, a lost session, a flash error | messages are kept, mirrored on flash, received once |
| `delivery_drain` | the same kinds with fewer faults; fairness | the caches drain |
| `session` | one interface, any three faults of which two may go unnoticed; fairness | the synchronization flag is earned; as long as faults are noticed: the truth of bit, events and diagram, a connected device is known, reconnection, settling |
| `properties` | five ids, five keys of two namespaces in two clusters, two firmwares, three pasts; one change by the application, one by Astarte, one outage; fairness of the walk | walks end, purges are exact, lists complete, nothing stale remains, both sides agree |
| `properties_unsent` | a property set while disconnected | *violated*: `SentOnReconnection` |
| `datastreams` | four interfaces, and a configuration that is refused, ten messages from Astarte and eight to it, each request for memory refused in turn, an event queue of one place, changes of the introspection | fitting messages are delivered, as they were sent; memory balances; documents and introspection have the size they announce |
| `paths_dangle` | the same | *violated*: `PathsReadable` |

The type invariants of `KeyValue`, `Session`, `MqttDelivery` and
`TransmissionQueue` are proved and not run.

Why the bounds are enough. In the key-value store three ids are the fewest
where a cluster wraps with a record on both sides of the hole, and four keys
compete for them; every write is a point of failure. In the queue a ring of two
places on four ids, starting at the third, wraps in its keys and fills up; three
messages evict one, and the thread with two of them does so while the other is
between two steps. One fault strikes (`MaxFaults`): properties of stored messages speak
of a storage that works (`Undisturbed`), so that an error and a power loss
together could only concern the order of messages in RAM, which do not outlive the
latter; `PublishedInClassOrder` is proved for any number of both. Queues of one place
are purged by a single get; theorems hold of any size. In the MQTT client two ids force reuse; two cuts lose a
message and its retransmission. In the session three faults are a cut, a lost
session and a cut again, which is the shortest way to every deviation found
below; a fault the device does not notice frees the properties that say
`Noticing`, so that two of those suffice to follow the flag on. `MaxWire = 1` lets one packet be under way,
and serving is in any order anyway. Among the properties one change disturbs a
walk at every step, and the five records give each walk a record to skip, one to
delete, one that shifts below it and one of another namespace. A message needs
at most twelve blocks (`MaxAsks`); arrays of up to six items grow once, from
four; two messages make the second find the event queue full.

Fairness. The worker is a thread of its own that is never suspended: weak
fairness of its steps. Reconnections and repeated handshakes are enabled again
and again and the backoff ends: strong fairness. The timeout of a message recurs
every keepalive interval: strong fairness of retransmission. The broker answers:
weak fairness. The worker does not wait inside a walk over properties: weak
fairness of its steps. The application asks for a connection as long as it has none. In
the queue, `Drains` assumes that publications eventually stop failing and that
the device stays connected, and that some thread inside `insert` goes on. No fairness is assumed of faults.

A deadlock is an error except in `delivery_*`, `properties*` and the runs of `Datastreams`, where
all there was to send may have been sent and answered.

## 4. What is proved

`KeyValueProofs`, for every finite number of ids, every hash and every fault:

* `TypeCorrect`: `TypeOK` is inductive.
* `LogCoversEveryWrite`: whichever phase a call or a recovery is in, the intent
  on flash names it and its record.
* `LogBeforeWrite`: no record and no end of the list changes while the log is
  clear.
* `ListIsWhole`, `ProbesFind`, `RecoveryWorks`: `ListThreadsEveryRecord`,
  `ProbeFindsEveryRecord` and `RecoverySucceeds`, under the hypothesis `Sparing`,
  which is what their run assumes of the faults: none in the window in which a shifted
  record is in two places, none at the erasure of an undone insertion, no error while
  mounting, and no interruption of a shift whose hole has passed the end of the
  ring. With such faults the properties are false (section 5).

  The inductive invariant `Structured` says what a call or a boot finds on flash for each
  intent (`OnFlash`), and what an insertion, a deletion and a shift have done so
  far at each program counter (`InsertStage`, `DeleteStage`, `ShiftStage`). TLC checked it
  on rings of three and four ids first. The list is not read recursively in it: `Chain` says of each
  record that its neighbours point back and that a numbering grows along
  the links, so that an operation on the list is one on two links. A record half linked or
  half unlinked is described by the list that remains when its neighbours are linked to each other
  (`Relink`, `WithoutTarget`). `Probed` says the same way of a probe that nothing on
  the path to a record is empty but the hole; `Seen` holds the ids that the scan of a shift has
  left behind. That `Walk`, which is recursive, does follow the links is proved
  from its least counterexample, and that it ends from there being fewer ids than steps.

`KeyValueRefinesProofs`, under the same hypothesis:

* `DriverIsAtomicMap`: `IsAtomicMap`. A state of the map is a sequence, so the proof
  first makes one of every list: the shortest chain of records that were not the
  sequence of some ids would have a last record, and be such a sequence without it
  (`ThreadsLinked`). `Settled` names the records that count once the
  operation in progress is over, with the links they will have then, and exists
  in every phase (`SettledExists`). `SettledItems` shows that the walk of the refinement
  mapping, which follows the links that are on flash now and leaves one record out, lists
  these. That needs two things beyond `Structured`: what leads to the record of the
  intent is a link as it was or as it will be (`HalfLinked`), and, for the answers, what a
  call has done before it clears the log (`Served`). Together they are `AtomicInv`.

  An insertion takes effect with the write of the ends of the list
  (`InsertApplies`), an update with that of its payload (`UpdateApplies`), a deletion with
  its intent (`DeleteApplies`). The copy of a shifted record takes the place of its source
  (`ShiftCopyItems`), which does not change what is stored in which order, and every
  other step keeps the records that count (`SameRecords`). A call cut short is the
  map's `Fail`, and what the recovery then does is a stutter. `ClearReturns` and `ExecReturns`
  are about the answers: a value is that of the map, NOT_FOUND means no
  such key, and a store is only full when every id is taken.

`SessionProofs`, for every set of interfaces and every bound on faults:

* `TypeCorrect`.
* `SynchronizationIsEarned`: `SynchronizedMeansHeard` under every fault and
  every preemption. It is not inductive: the flag is set when nothing is
  pending, so the invariant `Heard` adds that in END_HANDSHAKE the introspection
  is pending or known, that an acknowledgement of it on the wire means it
  is known, and that a worker about to set the flag has seen this.
* `ShelteredTellsConnection`, `ShelteredFollowsDiagram`: for a device whose
  threads interleave only where one of them sleeps (`~Preempts`), under every
  fault until one goes unnoticed (`poll`, `end`, `undisconnected`, `full`). The inductive invariant `Truthful`
  relates event bit, events, device state and client state at each program
  counter, and says that a connection is greeted once. The refinement of
  `Connectivity` follows step by step. `TellsConnection` and `FollowsDiagram`
  are guarded by `Noticing`, which is what the theorems need: `StrikeRemains`
  and `StepRemains` show that a fault that went unnoticed stays on record.
* `ShelteredIsReconnectable`: `Reconnectable` for such a device. `Truthful` is
  strengthened by `AttemptHasClient`: an attempt that is under way has a client
  that is not disconnected, unless the attempt has just timed out.
* `ConnectsOnRequest`: `StaysDisconnected`, step by step and without an invariant,
  preemption included.
* `ShelteredMeansKnown`: `ConnectedMeansKnown` for such a device and one image
  (`OneImage`). `Counted` counts the faults up to the loss of the session:
  before it the broker keeps what it was told, after it no connection is lost
  unseen. `Knowing` follows the introspection from the device over the wire to
  the broker and back, and says that what was acknowledged is what the flash
  holds. With two images, the introspections of both may be pending and be served in
  either order, a case the property leaves open; the run has one image, too.

`MqttDeliveryProofs`, for any messages, any number of ids and any number of
faults:

* `TypeCorrect`: `TypeOK`, which also says that the caches hold only messages
  that want an answer, and that each packet under way has an id that fits what
  it is about.
* `FlashIsMirror`: `FlashMirrorsCache`. Its strengthening `Synced` leaves out that
  no call is half done, as RAM and flash change in one step of the model; what is
  proved is that no path changes one of them only, unless a write failed.
* `NothingForgotten`: with `Window = 1`, `AtLeastOnce`. The invariant `IInv` gives
  each id at most one packet that asks for an answer or answers (`Fine`), says
  that it is about the message which the cache holds under this id, and that
  Astarte has the message once it has answered. So no answer removes a message
  that was given the id later. `Quiet` says that a connection starts with
  nothing under way, and `SeenOwned` that the QoS 2 ids the broker remembers are
  those of messages still in the cache. A power loss is where `Synced` is
  needed. `Window = 1` is needed: a message that is sent again while its first copy
  is under way gets two answers, of which the second may meet another message.
* `SessionsToldApart`: `NoStaleSession`. `ToldApart` says where a client that holds
  messages of a lost session can be: without a connection, or with the CONNACK in
  front of it that says so, and only once a connection was lost. Before that a
  client that has never been up has begun nothing.
* `NeverTwice`: `ReceivedOnce`, for every `Window`. The state is one of
  the message (`OnceFor`): once the device has taken it, its id is held in the cache
  for as long as a copy is under way or the broker may send one, and a PUBREL under way
  that ends the id comes behind the last copy (`Guarded`). `Numbered` says that
  a message has one id and is under way once; `Entering` that a new session starts with messages
  the device has not seen. A power loss needs `Synced` again.
* `NothingDropped`: with `Window = 1`, `ReceivedIfDone`. Each acknowledgement under
  way, and each packet that asks for one, is about what the broker has pending
  under its id, and there is one of them for an id at most (`Tidy`); what is
  acknowledged has been taken (`Sound`). This rests on two facts about MQTT
  clients: the PUBREC of a timeout repeats one that the broker
  has asked for, and no PUBCOMP overtakes it. The loss of power is excluded because
  the acknowledgement does go out before the message is handed over.

`TransmissionQueueProofs`, for any threads and messages, any sizes of the queues
and of the ring, any ids and every fault. All safety invariants of the module are
theorems.

* `TypeCorrect`: `TypeOK`.
* `IndexesOfSegment`: the sums by which a boot finds head and tail again. When the
  stored ids form a segment of the ring that leaves an id free, exactly one of them has
  no predecessor and one no successor, and the recovery computes these. The number of
  keys up to a distance, which the code counts in its iteration, is a sum over
  a segment (`SumSet` of the segment); its closed form is proved by the least
  distance at which it would fail.
* `StoreContiguous`: `StoreIsContiguous`. The inductive invariant `Contiguous`
  says at each program counter which index is behind its record: a record is written
  before the tail moves, and deleted before the head does. One call of the
  store is under way at a time among insertions (`Alone`), and a thread that
  evicts and the worker that discards are never both between the deletion and the move
  of the head.
* `IndexesRecovered`: `RebootFindsIndexes`, from the two above.
* `NumbersAhead`: `SequenceAhead`. `Numbered` says that every number in a queue, in the
  hands of a thread or of the worker was drawn from the counter.
* `ClassOrder`: `PublishedInClassOrder`. Each queue in RAM is ordered, and so is a class
  from what was published over what the worker holds to its queue
  (`RamOrdered`, `Placed`), whatever happens. For what is stored the same holds
  of a boot without disturbances (`StoredOrdered`, `Boots`): the order along the ring is the order of
  the calls, where a call counts from when its message may have left the hands
  of its thread.
* `NothingIsLost`: `NothingLostUnlessOvertaken`. An eviction or a purge takes the front of
  a queue (`FrontDropped`). Unless that was a message the worker had looked at (`NoneTaken`),
  what it has looked at, holds or discards is still at the front of its queue
  (`Handed`), full queues and sessions that end at any step included, so that a discard
  removes what was published. `AllAccounted` finds each inserted message in a queue, on
  flash, in the hands of its thread before it is stored, among the published, or given up.

`PropertiesProofs`, for every number of ids, every hash, any keys, interfaces, owners and
firmwares, every sound past of the store, and any number of changes and outages. All
safety properties of the module are theorems.

* `PropertiesTyped`: `TypeOK`, with `Sound`. That an insertion and a deletion keep the store
  sound, and that a deletion removes one record and no other, is a property of the
  shift (`ShiftFacts`). Its scan is followed id by id (`ScanInv`): which records probes
  find again so far, that only probes that end in the part still ahead may meet the hole,
  and that the hole stays in front of the id that no probe passes. So the
  first empty id, or one round, ends it with every record in order. This is not implied by `KeyValueProofs`,
  which speaks of the steps of a shift: here it is one function of the table.
* `PurgeExactly`, `PurgeListNamesAll`, `NoneStaleLeft`: `PurgeExact`, `PurgeListComplete`,
  `NoneStale`. The invariant `Walked` speaks of walks in which nobody else deleted: the
  iterator stands on a record of the namespace and the key in hand is that record's (`Stands`),
  and each record that the list has up to there is done (`AllDone`): named, kept rightly, or of the
  right version. It is stated in places of the list, since ids change under the walk:
  `DeleteFacts` and `IteratorDeleteFacts` say that a deletion takes one place out and
  leaves the iterator on the record in front of it, and `InsertFacts` that a new record comes last,
  so that it is ahead of the iterator. When the last record is deleted the walk starts over
  and passes what is done again; for this reason a walk that fills the list assumes
  that it deletes nothing (`NoForgotten`): it would count names twice. `Phase` ties a walk to the
  state of the connection.
* `UplinkAgreement`: `UplinkAgrees`. `Uplink` says that the last message queued about a property
  has its value, or that none is queued and Astarte has it (`Says`), except for the
  property that the application has stored but not yet sent. The list of properties
  to keep needs no theorem about walks here: what Astarte drops is in `lost`
  unless it was not stored.
* `ServerValuesAgreement`: `ServerValuesAgree`. `Downlink` says of each property of the
  server what the messages on their way will make of it (`Will`): the last one that sets it has
  Astarte's value and no purge comes behind it, or the last purge removes it, or
  nothing is about it and the device has it right already (`Settles`) once the purge
  that goes on has ended. What a purge leaves is taken from `Walked`.

  Both agreements were first stated without two cases that the proofs ran into, and which
  TLC confirmed on larger instances: a walk that erases a
  property of a forgotten interface while a value of it is still queued, and a value from
  the server that finds the table full. They are now part of the histories.

`DatastreamsProofs`, of `Bson` and for every buffer, whether or not it is a document:

* `ElementsStayInside`, `NestedStaysInside`: an element that the deserializer
  hands out has its name and its value between the bounds of its document, and
  so has a document within it. They rest on `LeastExists`, by which the end of a name is the
  first zero.
* `ValidStaysInside`: a buffer that passes `check_validity` fulfils the assumption of
  the theorems above.
* `WalksAdvance`: each element of a walk lies behind the value of the one
  before, so that the loops over a document end.
* `RoomIsMade`, `SizeIsAnnounced`: the buffer that `byte_array_grow` makes has
  room for what is appended, and a document that was ended announces its size.

and of `Datastreams`, for any interfaces, changes, messages and sizes:

* `InterfacesOnlyGrow`: `InterfacesGrow`. The invariant `Listed` says that the introspection
  has each name once, so that what an update replaces is the one interface of
  that name, and a removal makes no old version come back.
* `IntrospectionAlwaysFits`: `IntrospectionFits`. Digits are counted as they are printed
  (`DigitsCounted`), so that the sizes add up to the length of the text (`TextFits`); every
  interface but the last is followed by another, and its text is shorter than the
  buffer, so that `snprintf` cuts nothing but the last separator.
* `PayloadsAlwaysFaithful`: `PayloadsFaithful`, for values of every type and length. Each
  `append` of the serializer puts one element of the grammar behind the list
  (`ScalarAppended`, `ItemAppended`); so a loop of appends makes the document of the list
  (`DocumentBuilt`), of an array (`ArrayBuilt`) as of an object (`AggregatedPayload`),
  and the end of the document fills in its size. A message gets there only if each of its
  entries passed `check_data` (`AllValid`).
* `MemoryAlwaysBalanced`: `MemoryBalanced`, for every message (its bytes need not be
  those of a value) and every allocation that may be refused. A call that deserializes keeps
  what destroying its value gives back (`AllDeserialized`); the handler goes through stages
  of one form (`StagesOrderly`), so that complete ones hold the buffers and the memory of
  the event (`HeldIs`) and the one that stopped leaves nothing but buffers (`PartIs`). The
  invariant `Balanced` adds that messages are handled in the order of their numbers: no two
  events share a block, and a cleanup takes nothing that is another's. What an event
  has is then counted entry by entry (`EventCounts`).
* `TypesAlwaysOK`: `TypeOK`, with the bounds of the queues. An event is put into the
  queue only by a last stage that found room (`Delivered`): every form the stages
  take ends with that stage or with an error (`StagesOrderly`). A message goes to Astarte
  with a QoS that a mapping declares (`QosIs`) and as a document that its reader
  accepts (`QueueBounded`).

`BackoffProofs`, for every width of the integers and for all coefficients. No run
instantiates `Backoff`: what can go wrong there is arithmetic at the edges of 32
bits, which the theorems cover as a whole.

* `TypeCorrect`: the state fits its integers.
* `JitterIsBounded`: a delay lies within the multiplier of the curve. The module
  wraps every sum and difference around as the code's `uint32_t` does;
  `NoneRunsOver` says that none of them does.
* `CurveIsExponential`: the curve is the documented one, when both coefficients
  together fit the integers.

The assumptions are the named ones of the modules (`FaultAssumption`,
`FirmwareAssumption`, `WireAssumption`, `KindAssumption`, `BoundAssumption`,
`NoneAssumption`, `ClassAssumption`, `NoMsgAssumption`, `StoreAssumption`, `InterfaceAssumption`,
`MessageAssumption`, `ObjectAssumption`, `ValueAssumption`, `PastAssumption`, and those of
`KeyValue`).

Only model-checked: all liveness (`CallsEnd`, `Drains`, `CachesDrain`,
`Settles`, `WalksEnd`), which needs fairness and ENABLED; of `Datastreams` what becomes of the
content of messages from Astarte (`EventsFaithful`, `FittingDelivered`), which takes
the walk over a document to be the inverse of its grammar. Recursive functions over
numbers are proved about by the least counterexample (`LeastExists`), which takes the place of
an induction.

## 5. Where the code departs from its promises

Four runs show a disagreement with a document or a comment; `PROJECT.json`
quotes both sides. Other departures show up when a guard is taken out of a
property or a fault added to an instance; the properties name them and leave
them out:

* *Shift over the end of the table* (`entry_intent.c:312`). Once the hole of an
  interrupted shift is past the last id, recovery scans from the wrong side and
  fails. `WrapFaults` switches it on.
* *Purge or eviction under the worker* (`device/core.c:589`, `dispatcher.c:49`). What the
  worker discards is no longer what it published: run `queue_overtaken`. Guard:
  `overtaken`.
* *Race of two pushes* (`storage/trans.c:280`). Two threads storing at once
  write the same id and move the tail twice. Guard: `raced`.
* *Stuck head* (`storage/trans.c:461`). A deletion that reports an error and is
  completed by recovery leaves the head on a missing record; every later peek
  answers NOT_FOUND. Guard: `errors = 0`.
* *Order across classes* (`transmission_queue.c:222`). A worker that has passed
  the queue of an older message publishes a newer one of another class first. Order is
  therefore only claimed within a class.
* *Late acknowledgement* (`caching.c:74`). The id counter restarts with the
  program; a second answer to a restored message may remove a new message.
  `Window = 2` shows it.
* *Unaware of a lost session* (`events.c:241`, `session_manager.c:170`). When the
  CONNACK that tells of a new session is lost, the next one has session present
  set: stale ids hide new messages, and the handshake is skipped without
  subscriptions. Guards: `faults.drops <= 1`, `Aware`.
* *Timeout without an event* (`mqtt/core.c:446`). After a connection attempt
  timed out and the application disconnected, the device stays in
  MQTT_CONNECTING and refuses to connect. Guard in `Reconnectable`.
* *Two writers of `connection_state`* (`session_manager.c:207`). A disconnection
  in the middle of the handshake is overwritten. `Preempts = TRUE` shows it.
* *Poll error of the socket* (`mqtt/core.c:514`). The client moves on without a
  disconnection event and reconnects by itself: the event bit stays set, where
  `doc/architecture/Astarte-device-architecture.md:13` has it cleared, and
  a disconnected device comes back. Fault `poll`.
* *Error events* (`device/core.c:488`, `:603`). The worker puts an
  `astarte_device_error_event_t` into a queue of `astarte_device_event_t`: what
  the application takes out is not an error event. No module has error events.
* *QoS 2 sent again* (`mqtt/core.c:183`). After a PUBREC the message is sent
  again as a PUBLISH, where the diagrams of
  `doc/architecture/Astarte-MQTT-client-architecture.md` (90, 98) expect the
  PUBREL: Astarte may get it twice. `AtLeastOnce` is what is claimed.
* *Coefficients of a backoff* (`device/core.c:230`, `backoff.c:37`). The error of
  `backoff_init` is ignored: with a cutoff below the multiplier every delay is 0. A
  cutoff close to the end of the integers is not reached.
* *Search for an id* (`mqtt/caching.c:82`). With every id taken it never ends.
* *Changed interfaces and a power loss* (`session_manager.c:240`). The old
  firmware finds flag, session and stored introspection in order while Astarte
  has the new introspection. Guard: `Aware`.
* *An object on an individual interface* (`device/datastreams.c:176`). The QoS is asked
  for without a path, which an interface that is not an object needs. `ObjectAssumption`
  leaves such a call to the application.
* *Walk of the handshake* (`device/properties_storage.c:378`). It loads a value
  and stores it again: what the application set in between is overwritten, what
  it unset comes back. History: `lost`.
* *Two threads, one property* (`device/properties.c:70`). Two values may be
  queued in the other order than they are stored; one thread at a time is
  modelled.
* *Unset while a set is queued*. A queued value outlives an unset that was
  discarded while disconnected. History: `lost`.
* *Purge under a deletion* (`key_value/core.c:506`). A record deleted by
  another thread may shift another below the iterator: the walk skips it, deletes it
  in the place of the one it read, or is given up. Guard: `disturbed`.
* *Empty purge message* (`storage/prop.c:467`, `properties_storage.c:122`). A list
  without a size is sent when there is no property at all or when only
  properties of unknown interfaces were met; the comment speaks of the former.
* *Empty blobs* (`data/deserialize_scalar.c:118`). An allocation of no bytes answers
  NULL, which is taken for a lack of memory. Guard: `HasEmptyBlob`.
* *Duplicated entry* (`device/datastreams.c:144`). An object with one entry twice has the right number
  of entries, and is sent when nothing is required.
* *Timestamps of received objects* (`device/datastreams.c:420`). With an explicit timestamp
  validation stops at the first entry, as received messages have none, and the
  verdict is forgiven.
* *Payload without memory* (`mqtt/events.c:80`). A message that finds no buffer is
  not acknowledged; `MqttDelivery` treats it as lost on the way.

## 6. What is left

Next, most important first:

1. The quota of the key-value store beside its records, and the key-value
   mutex with its timeout.
2. Walks of application threads over the list of interfaces while the worker
   changes it (`introspection.c:107`): `Datastreams` lets it change between two
   messages only.
3. Theorems: the content of the events of `Datastreams`.
4. The destruction of a device, and the queue inside the session.

## 7. Not modelled

* Pairing, HTTP, TLS, certificates and crypto: exchanges with a server and calls
  of libraries, with no state between calls but what is written once.
* When a backoff ends (at any time, in `Session`), the token bucket
  of the worker (it may transmit whenever it has the turn).
* Quota, direct entries and the lock of the key-value driver: the bound on ids, single
  writes in `Session`, and the atomicity of a call stand for them.
* zlib around the list of a purge, byte order, floating point: a list is a set, a
  number one cell, and one double is not finite.
* Device ids and result codes (an encoding and a table), samples, end to end tests and
  scripts.
