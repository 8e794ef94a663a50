---------------------------- MODULE Datastreams ----------------------------
(***************************************************************************)
(* Datastreams between an application and Astarte: device/datastreams.c    *)
(* and object.c, with the buffers of mqtt/events.c around them, the event  *)
(* queue of device/core.c after them and the introspection beside them     *)
(* (src/lib/astarte_device_sdk).                                           *)
(*                                                                         *)
(* The worker deserializes a message into an event, whose memory passes to *)
(* the application with the event.  Any allocation on the way may be       *)
(* refused.  A value that the application sends is checked and serialized  *)
(* in its own thread, and queued.                                          *)
(*                                                                         *)
(* Abstracted: how a message gets to the broker and back (MqttDelivery)    *)
(* and out of the queue (TransmissionQueue); the interfaces whose type is  *)
(* properties (Properties).                                                *)
(***************************************************************************)
EXTENDS Interfaces

CONSTANTS
    Configurations,\* the lists of interfaces that a device may be given
    Changes,       \* interfaces that the application may add later
    Downlinks,     \* what Astarte may send
    Uplinks,       \* what the application may send
    QueueSize,     \* CONFIG_ASTARTE_DEVICE_SDK_EVENT_QUEUE_SIZE
    MaxAsks,       \* allocations of one message that may be the one refused
    MaxDown,       \* messages from Astarte (a bound)
    MaxUp,         \* messages to Astarte (a bound)
    MaxChanges     \* changes of the introspection (a bound)

ASSUME BoundAssumption ==
    /\ QueueSize \in Nat \ {0} /\ MaxAsks \in Nat
    /\ MaxDown \in Nat /\ MaxUp \in Nat /\ MaxChanges \in Nat

\* What the headers that interface.h describes declare.
Known == (UNION {Range(list) : list \in Configurations}) \cup Changes
ASSUME InterfaceAssumption ==
    /\ \A list \in Configurations : list \in Seq(Range(list))
    /\ \A interface \in Known :
            /\ interface.type = "datastream" /\ interface.name \in Seq(Nat)
            /\ interface.major \in Nat /\ interface.minor \in Nat
            /\ interface.mappings \in Seq(Range(interface.mappings))
            /\ \A mapping \in Range(interface.mappings) :
                    mapping.type \in Types /\ mapping.reliability \in 0 .. 2

VARIABLES
    introspection,  \* the list of the interfaces
    connected,      \* connection_state is DEVICE_CONNECTED
    broker,         \* messages from Astarte, not handled yet
    worker,         \* the message whose handler has not returned, or 0
    heap,           \* blocks of memory in use
    stray,          \* history: blocks given back that were not in use
    events,         \* the event queue
    held,           \* the event the application looks at, a sequence of one
    queue,          \* the transmission queue
    spent           \* how many messages and changes there were

vars == <<introspection, connected, broker, worker, heap, stray, events, held, queue, spent>>

V == <<118>>
T == <<116>>

\* Messages are made of values.  An individual one has a single entry, with
\* the name it has in a payload.
ASSUME MessageAssumption ==
    \A m \in Uplinks \cup Downlinks :
        /\ m.timestamp \in Nat /\ m.object \in BOOLEAN
        /\ m.entries \in Seq(Range(m.entries))
        /\ ~m.object => Len(m.entries) = 1 /\ m.entries[1].name = V
        /\ \A i \in DOMAIN m.entries :
                /\ m.entries[i].name \in Seq(Nat) /\ m.entries[i].data.type \in Types
                /\ m.entries[i].data.value \in Values(m.entries[i].data.type)

\* Objects go to interfaces that have objects: astarte_device_send_object asks
\* for the QoS without a path.
ASSUME ObjectAssumption ==
    \A m \in Uplinks, interface \in Known :
        m.object /\ interface.name = m.name => interface.aggregation # "individual"

Spends(what, max) == spent[what] < max /\ spent' = [spent EXCEPT ![what] = @ + 1]

-----------------------------------------------------------------------------
(* What Astarte makes of values (external): the grammar of BSON, and long  *)
(* integers as 32 bit numbers where the message says so.                   *)

AstarteDocument(elements) ==
    LET list == FlattenSeq(elements) IN Number(Len(list) + 5, 4) \o list \o <<0>>

AstarteScalar(type, v, short) ==
    CASE type = "string" -> <<String, Number(Len(v) + 1, 4) \o v \o <<0>>>>
      [] type = "binaryblob" -> <<Binary, Number(Len(v), 4) \o <<0>> \o v>>
      [] type = "boolean" -> <<Boolean, <<v>>>>
      [] type = "integer" \/ (type = "longinteger" /\ short) -> <<Int32, Number(v, 4)>>
      [] OTHER -> <<ScalarBson[type], Number(v, 8)>>

AstarteElement(name, data, short) ==
    LET Named(key, typed) == <<typed[1]>> \o key \o <<0>> \o typed[2]
        Item(i) == Named(<<47 + i>>, AstarteScalar(ArrayScalar[data.type], data.value[i], short))
    IN  IF data.type \in Scalars THEN Named(name, AstarteScalar(data.type, data.value, short))
        ELSE Named(name, <<Array, AstarteDocument([i \in DOMAIN data.value |-> Item(i)])>>)

\* The payload of a message: the value, or the object, and a timestamp.
AstartePayload(m, short) ==
    LET parts == [i \in DOMAIN m.entries |->
                    AstarteElement(m.entries[i].name, m.entries[i].data, short)]
        time == AstarteElement(T, Data("datetime", m.timestamp), FALSE)
        value == IF m.object THEN <<Document>> \o V \o <<0>> \o AstarteDocument(parts)
                 ELSE parts[1]
    IN  AstarteDocument(IF m.timestamp = 0 THEN <<value>> ELSE <<value, time>>)

-----------------------------------------------------------------------------
(* From Astarte.  The handler is a sequence of stages.  Each asks for      *)
(* memory, and ends the handler if it meets an error or is refused.        *)

Stage(kind, asked, error) ==
    [kind |-> kind, of |-> 0, asked |-> asked, error |-> error, entry |-> <<>>]
DataStage(i, made, name) ==
    [kind |-> "data", of |-> i, asked |-> made.asked, error |-> made.error,
     entry |-> IF made.error = "none" THEN <<[name |-> name, data |-> made.data]>> ELSE <<>>]

\* astarte_mqtt_handle_publish_event, up to the callback.
Buffers(error) == Stage("buffers", <<Block("payload", 0), Block("topic", 0)>>, error)

Full == Len(events) = QueueSize

\* on_datastream_individual and on_datastream_aggregated: a timestamp that
\* is missing is forgiven.
Tolerated(verdict) == verdict \in {"ok", "timestamp_required"}
Put(verdict, paths) ==
    Stage("put", paths, IF ~Tolerated(verdict) THEN verdict ELSE IF Full THEN "full" ELSE "none")

IndividualStages(interface, m, data) ==
    IF data.error # "none" THEN <<Buffers("none"), data>>
    ELSE <<Buffers("none"), data,
           Put(ValidateIndividual(interface, m.path, data.entry[1].data, 0), <<>>)>>

\* astarte_object_entries_deserialize: each entry looks its mapping up, with
\* a path in memory of its own.
EntryStage(interface, path, doc, element, i) ==
    LET index == MappingFromPaths(interface, path, element.name)
        fullpath == <<Block("fullpath", 0)>>
        made == Deserialize(doc, element, interface.mappings[index].type)
    IN  IF index = 0 THEN Stage("data", fullpath, "path")
        ELSE DataStage(i, [made EXCEPT !.asked = fullpath \o @], element.name)

EntriesOf(stages) == FlattenSeq([i \in DOMAIN stages |-> stages[i].entry])

ObjectVerdict(interface, path, entries) ==
    LET fullpath == <<Block("fullpath", 0)>>
    IN  IF ~RequiredPresent(interface, path, entries) THEN Stage("put", fullpath, "incomplete")
        ELSE Put(ValidateAggregated(interface, path, entries, 0), fullpath)

FromEntries(interface, path, stages) ==
    <<Buffers("none"), Stage("entries", <<Block("entries", 0)>>, "none")>> \o stages
        \o <<ObjectVerdict(interface, path, EntriesOf(stages))>>

ObjectStages(interface, path, doc, elements) ==
    IF elements = <<>> \/ elements[Len(elements)].res # "ok" THEN <<Buffers("bson")>>
    ELSE FromEntries(interface, path, [i \in DOMAIN elements |->
                                        EntryStage(interface, path, doc, elements[i], i)])

\* astarte_device_datastreams_handle_incoming.
DataStages(interface, m, doc, element) ==
    LET index == MappingFromPath(interface, m.path)
        object == ToDocument(doc, element)
    IN  IF element.res # "ok" THEN <<Buffers("bson")>>
        ELSE IF interface.aggregation = "individual" THEN
            IF index = 0 THEN <<Buffers("path")>>
            ELSE IndividualStages(interface, m,
                    DataStage(1, Deserialize(doc, element, interface.mappings[index].type), V))
        ELSE IF element.type # Document THEN <<Buffers("bson")>>
        ELSE ObjectStages(interface, m.path, object, Elements(object))

\* astarte_device_dispatcher_on_incoming.
Stages(m) ==
    LET place == Find(introspection, m.name)
        doc == InitDoc(m.payload, 1)
    IN  IF place = 0 THEN <<Buffers("interface")>>
        ELSE IF ~CheckValidity(m.payload) THEN <<Buffers("bson")>>
        ELSE DataStages(introspection[place], m, doc, Lookup(doc, V))

\* How far the stages get when the nth request for memory is refused: the
\* number of complete ones, and what the next had got by then.
Run(stages, nth) ==
    LET asked[i \in 0 .. Len(stages)] ==
            IF i = 0 THEN 0 ELSE asked[i - 1] + Len(stages[i].asked)
        Refused(i) == nth - asked[i - 1] \in DOMAIN stages[i].asked
        stops == {i \in DOMAIN stages : stages[i].error # "none" \/ Refused(i)}
        last == LeastOf(stops)
    IN  IF stops = {} THEN [done |-> Len(stages), got |-> <<>>, stopped |-> FALSE]
        ELSE [done |-> last - 1, stopped |-> TRUE,
              got |-> IF Refused(last) THEN SubSeq(stages[last].asked, 1, nth - asked[last - 1] - 1)
                      ELSE stages[last].asked]

\* A block of a message: of its entry, or of the message itself when 0.
Of(serial, entry, blocks) == {[serial |-> serial, entry |-> entry, block |-> b] : b \in blocks}

\* The memory of a whole event, as it is released: by the handler when it
\* fails, by astarte_device_event_cleanup otherwise.
DestroyedEntries(serial, entries) ==
    UNION {Of(serial, i, Destroyed(entries[i].data)) : i \in DOMAIN entries}
DestroyedEvent(event) ==
    DestroyedEntries(event.serial, event.entries)
        \cup (IF event.object THEN Of(event.serial, 0, {Block("entries", 0)}) ELSE {})

BufferBlocks(serial) == Of(serial, 0, {Block("payload", 0), Block("topic", 0)})

\* What the complete stages keep, what the one that stopped had got, and
\* what of that its own cleanup gives back.
KeptBy(stage) ==
    IF stage.entry = <<>> THEN Kept(stage.asked)
    ELSE Stays([asked |-> stage.asked, data |-> stage.entry[1].data])
GotBy(serial, stages, run) ==
    LET last == stages[run.done + 1]
    IN  [complete |-> UNION {Of(serial, stages[i].of, KeptBy(stages[i])) : i \in 1 .. run.done},
         partial |-> IF run.stopped THEN Of(serial, last.of, Kept(run.got)) ELSE {},
         freed |-> IF run.stopped /\ last.kind = "data"
                   THEN Of(serial, last.of, CleanedUp(Kept(run.got))) ELSE {}]

\* A message is handled, with its nth request for memory refused.
Receive(nth) ==
    /\ worker = 0 /\ broker # <<>>
    /\ \E stages \in {Stages(Head(broker))} : \E run \in {Run(stages, nth)} :
       \E got \in {GotBy(Head(broker).serial, stages, run)} :
          LET m == Head(broker)
              event == [serial |-> m.serial, name |-> m.name, path |-> m.path,
                        object |-> \E i \in 1 .. run.done : stages[i].kind = "entries",
                        entries |-> EntriesOf(SubSeq(stages, 1, run.done)), sent |-> m.sent]
              undone == IF run.stopped THEN DestroyedEvent(event) ELSE {}
          IN  /\ nth <= Len(FlattenSeq([i \in DOMAIN stages |-> stages[i].asked]))
              /\ events' = IF run.stopped THEN events ELSE Append(events, event)
              /\ heap' = (heap \cup got.complete \cup got.partial) \ (undone \cup got.freed)
              /\ stray' = stray \cup (undone \ got.complete) \cup (got.freed \ got.partial)
              /\ worker' = m.serial
    /\ broker' = Tail(broker)
    /\ UNCHANGED <<introspection, connected, held, queue, spent>>

\* The handler returns: its buffers go out of scope.
Return ==
    /\ worker # 0
    /\ heap' = heap \ BufferBlocks(worker)
    /\ worker' = 0
    /\ UNCHANGED <<introspection, connected, broker, stray, events, held, queue, spent>>

\* astarte_device_get_event.
GetEvent ==
    /\ held = <<>> /\ events # <<>>
    /\ held' = <<Head(events)>> /\ events' = Tail(events)
    /\ UNCHANGED <<introspection, connected, broker, worker, heap, stray, queue, spent>>

\* astarte_device_event_cleanup.
EventCleanup ==
    /\ held # <<>>
    /\ heap' = heap \ DestroyedEvent(held[1])
    /\ stray' = stray \cup (DestroyedEvent(held[1]) \ heap)
    /\ held' = <<>>
    /\ UNCHANGED <<introspection, connected, broker, worker, events, queue, spent>>

-----------------------------------------------------------------------------
(* To Astarte. *)

\* The timestamp, if there is one, and the end.
Closed(bson, timestamp) ==
    EndOfDocument(IF timestamp = 0 THEN bson ELSE AppendDateTime(bson, T, timestamp))

\* serialize_individual_payload.
SerializeIndividual(data, timestamp) == Closed(Serialize(Init4, V, data), timestamp)

\* serialize_aggregated_payload.
SerializeAggregated(entries, timestamp) ==
    LET upTo[i \in 0 .. Len(entries)] ==
            IF i = 0 THEN Init4 ELSE Serialize(upTo[i - 1], entries[i].name, entries[i].data)
    IN  Closed(AppendDocument(Init4, V, EndOfDocument(upTo[Len(entries)])), timestamp)

\* A message with the retention DISCARD is dropped while not connected.
Enqueue(m, interface, mapping, payload) ==
    queue' = IF mapping.retention = "discard" /\ ~connected THEN queue
             ELSE Append(queue, [name |-> m.name, path |-> m.path, payload |-> payload,
                                 qos |-> Qos(interface, m.path), retention |-> mapping.retention,
                                 sent |-> m])

\* astarte_device_send_individual, when there is memory for it.
SendIndividual(m) ==
    LET place == Find(introspection, m.name)
        interface == introspection[place]
        index == MappingFromPath(interface, m.path)
    IN  /\ ~m.object /\ Spends("up", MaxUp)
        /\ IF place = 0 \/ index = 0 THEN UNCHANGED queue
           ELSE IF ValidateIndividual(interface, m.path, m.entries[1].data, m.timestamp) # "ok"
           THEN UNCHANGED queue
           ELSE Enqueue(m, interface, interface.mappings[index],
                        SerializeIndividual(m.entries[1].data, m.timestamp))
        /\ UNCHANGED <<introspection, connected, broker, worker, heap, stray, events, held>>

\* astarte_device_send_object.
SendObject(m) ==
    LET place == Find(introspection, m.name)
        interface == introspection[place]
        index == MappingFromPaths(interface, m.path, m.entries[1].name)
    IN  /\ m.object /\ Spends("up", MaxUp)
        /\ IF place = 0 THEN UNCHANGED queue
           ELSE IF Len(interface.mappings) # Len(m.entries) \/ index = 0 THEN UNCHANGED queue
           ELSE IF ValidateAggregated(interface, m.path, m.entries, m.timestamp) # "ok"
           THEN UNCHANGED queue
           ELSE Enqueue(m, interface, interface.mappings[index],
                        SerializeAggregated(m.entries, m.timestamp))
        /\ UNCHANGED <<introspection, connected, broker, worker, heap, stray, events, held>>

-----------------------------------------------------------------------------
(* Around them. *)

\* Astarte sends a message (external).
AstarteSends(m, short) ==
    /\ Spends("down", MaxDown)
    /\ broker' = Append(broker, [serial |-> spent.down + 1, name |-> m.name, path |-> m.path,
                                 payload |-> AstartePayload(m, short), sent |-> m])
    /\ UNCHANGED <<introspection, connected, worker, heap, stray, events, held, queue>>

\* The operations of astarte_device_add_interface and remove_interface, done
\* by the worker between two messages.
AddOperation(interface) ==
    /\ worker = 0 /\ Spends("changes", MaxChanges)
    /\ introspection' = UpdateInterface(introspection, interface)
    /\ UNCHANGED <<connected, broker, worker, heap, stray, events, held, queue>>

RemoveOperation(name) ==
    /\ worker = 0 /\ Spends("changes", MaxChanges)
    /\ introspection' = RemoveInterface(introspection, name)
    /\ UNCHANGED <<connected, broker, worker, heap, stray, events, held, queue>>

\* The session comes and goes (Session).
Switch ==
    /\ connected' = ~connected
    /\ UNCHANGED <<introspection, broker, worker, heap, stray, events, held, queue, spent>>

\* initialize_introspection adds one interface after the other;
\* astarte_device_new fails with the first that is refused.
Accepted(list) == \A n \in DOMAIN list : CanAdd(SubSeq(list, 1, n - 1), list[n])

Init ==
    /\ introspection \in {list \in Configurations : Accepted(list)}
    /\ connected = FALSE /\ broker = <<>> /\ worker = 0 /\ heap = {} /\ stray = {}
    /\ events = <<>> /\ held = <<>> /\ queue = <<>>
    /\ spent = [down |-> 0, up |-> 0, changes |-> 0]

Next ==
    \/ \E nth \in 0 .. MaxAsks : Receive(nth)
    \/ Return \/ GetEvent \/ EventCleanup
    \/ \E m \in Uplinks : SendIndividual(m)
    \/ \E m \in Uplinks : SendObject(m)
    \/ \E m \in Downlinks, short \in BOOLEAN : AstarteSends(m, short)
    \/ \E interface \in Changes : AddOperation(interface)
    \/ \E interface \in Changes : RemoveOperation(interface.name)
    \/ Switch

Spec == Init /\ [][Next]_vars

-----------------------------------------------------------------------------
(* Properties. *)

\* Types, and the sizes of the two queues of the application.
TypeOK ==
    /\ connected \in BOOLEAN /\ worker \in 0 .. MaxDown
    /\ \A i, j \in DOMAIN introspection :
            introspection[i].name = introspection[j].name => i = j
    /\ \A b \in heap \cup stray :
            b.serial \in 1 .. MaxDown /\ b.entry \in Nat /\ b.block.i \in Nat
    /\ Len(events) <= QueueSize /\ Len(held) <= 1
    /\ \A e \in Range(events) \cup Range(held) :
            e.object \in BOOLEAN /\ \A i \in DOMAIN e.entries :
                                        e.entries[i].data.type \in Types
    /\ \A q \in Range(queue) : q.qos \in 0 .. 2 /\ CheckValidity(q.payload)
    /\ spent \in [down : 0 .. MaxDown, up : 0 .. MaxUp, changes : 0 .. MaxChanges]

\* The memory an event needs: a block for every text or blob, one for every
\* array that is not empty, one for the sizes of blobs, one for the entries.
Needed(data) ==
    IF data.type \in Arrays /\ data.value = <<>> THEN 0
    ELSE CASE data.type \in {"string", "binaryblob"} -> 1
           [] data.type = "stringarray" -> 1 + Len(data.value)
           [] data.type = "binaryblobarray" -> 2 + Len(data.value)
           [] data.type \in Arrays \ {"stringarray", "binaryblobarray"} -> 1
           [] OTHER -> 0

\* Whatever allocation is refused, and whether or not the event queue is
\* full: the memory in use is that of the handler that runs, and that of
\* the events the application has not cleaned up yet, each block given back
\* once (deserialize.c, deserialize_array.c, object.c, datastreams.c).
MemoryBalanced ==
    /\ stray = {}
    /\ \A b \in heap : \/ b.serial = worker /\ b.block.kind \in {"payload", "topic"}
                       \/ \E e \in Range(events) \cup Range(held) : e.serial = b.serial
    /\ \A e \in Range(events) \cup Range(held) :
            LET blocks == {b \in heap : b.serial = e.serial /\ b.block.kind \notin {"payload", "topic"}}
                upTo[i \in 0 .. Len(e.entries)] ==
                    IF i = 0 THEN IF e.object THEN 1 ELSE 0
                    ELSE upTo[i - 1] + Needed(e.entries[i].data)
            IN  Cardinality(blocks) = upTo[Len(e.entries)]

\* What the application gets is what Astarte sent, entry by entry
\* (astarte_data_deserialize, astarte_object_entries_deserialize).
EventsFaithful ==
    \A e \in Range(events) \cup Range(held) :
        e.object = e.sent.object /\ e.entries = e.sent.entries

\* What the application sent is in the queue the way Astarte reads it, and no
\* double in it is NaN or infinite (astarte_data_serialize, astarte_mapping_
\* check_data, serialize_individual_payload, serialize_aggregated_payload).
PayloadsFaithful ==
    \A q \in Range(queue) :
        /\ q.payload = AstartePayload(q.sent, FALSE)
        /\ \A i \in DOMAIN q.sent.entries :
                LET data == q.sent.entries[i].data
                IN  CASE data.type = "double" -> data.value # NotFinite
                      [] data.type = "doublearray" -> NotFinite \notin Range(data.value)
                      [] OTHER -> TRUE

\* A message that fits its interface becomes an event if there is room in
\* the event queue and memory for it: no form a value may come in is turned
\* down.  (Empty blobs are: their allocation has no bytes.)
Fits(interface, m) ==
    /\ m.object = (interface.aggregation = "object")
    /\ \A i \in DOMAIN m.entries :
            \E mapping \in Range(interface.mappings) :
                LET path == IF m.object THEN Append(m.path, m.entries[i].name) ELSE m.path
                IN  /\ Len(path) = Len(mapping.endpoint)
                    /\ \A k \in DOMAIN path : mapping.endpoint[k] \in {path[k], Parameter}
                    /\ mapping.type = m.entries[i].data.type
    /\ \A mapping \in Range(interface.mappings) :
            mapping.required => \E i \in DOMAIN m.entries :
                                    m.entries[i].name = mapping.endpoint[Len(mapping.endpoint)]
HasEmptyBlob(m) ==
    \E i \in DOMAIN m.entries :
        LET data == m.entries[i].data
        IN  \/ data.type = "binaryblob" /\ data.value = <<>>
            \/ data.type = "binaryblobarray" /\ <<>> \in Range(data.value)
FittingDelivered ==
    [][ \A m \in {broker[i].sent : i \in DOMAIN broker \cap {1}} :
            (/\ Receive(0)
             /\ \E interface \in Range(introspection) : interface.name = m.name /\ Fits(interface, m)
             /\ Len(events) < QueueSize /\ ~HasEmptyBlob(m))
            => Len(events') = Len(events) + 1 ]_vars

\* Astarte may rely on the introspection: as long as an interface is listed
\* its version only goes up, and no endpoint disappears or changes its type
\* (introspection_update).
InterfacesGrow ==
    [][ \A old \in Range(introspection), new \in Range(introspection') :
            old.name = new.name /\ old # new =>
                /\ new.major > old.major \/ (new.major = old.major /\ new.minor > old.minor)
                /\ \A m \in Range(old.mappings) : \E n \in Range(new.mappings) :
                        n.endpoint = m.endpoint /\ n.type = m.type /\ n.explicit = m.explicit ]_vars

\* The buffer that introspection_get_string_size asks for holds the whole
\* text of introspection_fill_string, the last separator left out.
IntrospectionFits ==
    LET text == FlattenSeq([i \in DOMAIN introspection |-> Printed(introspection[i])])
    IN  FillString(introspection, StringSize(introspection)) =
            IF text = <<>> THEN <<>> ELSE SubSeq(text, 1, Len(text) - 1)

\* The path of an event, and the names of the entries of an object, can be
\* read as long as the application has the event (device.h:72, "Path on
\* which event is triggered").
PathsReadable ==
    \A e \in Range(held) : BufferBlocks(e.serial) \subseteq heap
=============================================================================
