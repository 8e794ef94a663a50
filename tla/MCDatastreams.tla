--------------------------- MODULE MCDatastreams ---------------------------
(* Instances of Datastreams for TLC. *)
EXTENDS Datastreams

\* Letters.
a == <<97>>
b == <<98>>
x == <<120>>
y == <<121>>

Mapping(endpoint, type) ==
    [endpoint |-> endpoint, type |-> type, explicit |-> FALSE, required |-> FALSE,
     reliability |-> 1, retention |-> "volatile", expiry |-> 0, allow_unset |-> FALSE]
Required(mapping) == [mapping EXCEPT !.required = TRUE]

Interface(name, major, minor, ownership, aggregation, mappings) ==
    [name |-> name, major |-> major, minor |-> minor, type |-> "datastream",
     ownership |-> ownership, aggregation |-> aggregation, mappings |-> mappings]

\* From Astarte: one value of a kind at a time, and an object.
ServerMappings ==
    <<Mapping(<<Parameter, a>>, "longinteger"), Mapping(<<a, b>>, "binaryblob"),
      Mapping(<<Parameter, b>>, "stringarray"), Mapping(<<b, b, b>>, "binaryblobarray")>>
Server == Interface(<<115>>, 0, 9, "server", "individual", ServerMappings)
Object == Interface(<<111, 98>>, 1, 0, "server", "object",
    <<Mapping(<<Parameter, x>>, "integer"), Required(Mapping(<<Parameter, y>>, "string"))>>)

\* To Astarte: one with timestamps, which is not kept while disconnected.
Stamped == [Mapping(<<a>>, "doublearray") EXCEPT !.explicit = TRUE, !.retention = "discard"]
Device == Interface(<<100>>, 1, 9, "device", "individual",
    <<Stamped, Mapping(<<b>>, "double"), Mapping(<<b, Parameter>>, "boolean")>>)
Group == Interface(<<103>>, 2, 0, "device", "object",
    <<Mapping(<<a, x>>, "datetime"), Mapping(<<a, y>>, "binaryblob")>>)

\* The second is refused: it has an interface twice.
Configured == {<<Server, Object, Device, Group>>, <<Server, Object, Server>>}

\* Newer and older versions, one that drops a mapping and one that changes it.
Newer == [Server EXCEPT !.minor = 10,
                        !.mappings = Append(@, Mapping(<<x>>, "integerarray"))]
Older == [Server EXCEPT !.minor = 8]
Fewer == [Device EXCEPT !.major = 12, !.mappings = <<Stamped>>]
Changed == [Object EXCEPT !.minor = 1, !.mappings[1].type = "longinteger"]
SomeChanges == {Newer, Older, Fewer, Changed}

Message(interface, path, entries, timestamp) ==
    [name |-> interface.name, path |-> path, entries |-> entries,
     object |-> interface.aggregation = "object", timestamp |-> timestamp]
Value(type, v) == <<[name |-> V, data |-> Data(type, v)]>>
Entry(name, type, v) == [name |-> name, data |-> Data(type, v)]

Blobs == << <<1>>, <<2>>, <<>>, <<3>>, <<4>>, <<5>> >>
FromAstarte ==
    {Message(Server, <<b, a>>, Value("longinteger", 300), 0),
     Message(Server, <<a, b>>, Value("binaryblob", <<7>>), 0),
     Message(Server, <<a, b>>, Value("binaryblob", <<>>), 9),
     Message(Server, <<x, b>>, Value("stringarray", <<a, <<>> >>), 0),
     Message(Server, <<x, b>>, Value("stringarray", <<>>), 0),
     Message(Server, <<b, b, b>>, Value("binaryblobarray", << <<1>>, <<2>>, <<3>>, <<4>>, <<5>> >>), 0),
     Message(Server, <<b, b, b>>, Value("binaryblobarray", Blobs), 0),
     Message(Server, <<x>>, Value("integerarray", <<1, 2, 3, 4, 5>>), 0),
     Message(Object, <<a>>, <<Entry(y, "string", a), Entry(x, "integer", 5)>>, 9),
     Message(Object, <<a>>, <<Entry(x, "integer", 5)>>, 0)}

ToAstarte ==
    {Message(Device, <<a>>, Value("doublearray", <<1, 2>>), 9),
     Message(Device, <<a>>, Value("doublearray", <<1, NotFinite>>), 9),
     Message(Device, <<a>>, Value("doublearray", <<>>), 0),
     Message(Device, <<b>>, Value("double", NotFinite), 0),
     Message(Device, <<b, <<43>> >>, Value("boolean", 1), 0),
     Message(Device, <<b, x>>, Value("boolean", 1), 0),
     Message(Group, <<a>>, <<Entry(y, "binaryblob", <<>>), Entry(x, "datetime", 5)>>, 0),
     Message(Group, <<a>>, <<Entry(x, "datetime", 5)>>, 0)}
=============================================================================
