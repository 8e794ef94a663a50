----------------------------- MODULE Interfaces -----------------------------
(***************************************************************************)
(* Interfaces and their mappings, what they say of a message, and the      *)
(* introspection that lists them: interface.c, mapping.c, validation.c and *)
(* introspection.c in src/lib/astarte_device_sdk.                          *)
(*                                                                         *)
(* A path is the sequence of its segments, a segment the sequence of its   *)
(* letters; a parameter of an endpoint is one segment.  The introspection  *)
(* is the list of its interfaces.                                          *)
(***************************************************************************)
EXTENDS AstarteData

Parameter == <<37, 123, 125>>
Wildcards == {35, 43}

\* What the functions return, besides "ok".
Verdicts == {"ok", "path", "data", "timestamp_required", "timestamp_not_supported",
             "incomplete"}

\* check_path_segment.
CheckSegment(endpoint, path) ==
    IF endpoint = Parameter THEN path # <<>> /\ Range(path) \cap Wildcards = {}
    ELSE endpoint = path

\* astarte_mapping_check_path: a path ends with a segment, not with a slash.
CheckPath(mapping, path) ==
    /\ path # <<>> /\ path[Len(path)] # <<>>
    /\ Len(path) = Len(mapping.endpoint)
    /\ \A i \in DOMAIN path : CheckSegment(mapping.endpoint[i], path[i])

\* astarte_interface_get_mapping_from_path: its index, or 0.
MappingFromPath(interface, path) ==
    LET fits == {i \in DOMAIN interface.mappings : CheckPath(interface.mappings[i], path)}
    IN  IF fits = {} THEN 0 ELSE LeastOf(fits)

\* astarte_interface_get_mapping_from_paths.
MappingFromPaths(interface, path, name) == MappingFromPath(interface, Append(path, name))

\* astarte_interface_get_qos.
Qos(interface, path) ==
    interface.mappings[IF interface.aggregation = "individual"
                       THEN MappingFromPath(interface, path) ELSE 1].reliability

\* astarte_mapping_check_data.
CheckData(mapping, data) ==
    /\ mapping.type = data.type
    /\ mapping.type = "double" => data.value # NotFinite
    /\ mapping.type = "doublearray" => NotFinite \notin Range(data.value)

-----------------------------------------------------------------------------
(* Validation. *)

CheckTimestamp(mapping, timestamp) ==
    IF mapping.explicit /\ timestamp = 0 THEN "timestamp_required"
    ELSE IF ~mapping.explicit /\ timestamp # 0 THEN "timestamp_not_supported" ELSE "ok"

ValidateAt(interface, index, data, timestamp) ==
    IF index = 0 THEN "path"
    ELSE IF ~CheckData(interface.mappings[index], data) THEN "data"
    ELSE CheckTimestamp(interface.mappings[index], timestamp)

\* astarte_validation_individual_datastream; no timestamp is 0.
ValidateIndividual(interface, path, data, timestamp) ==
    ValidateAt(interface, MappingFromPath(interface, path), data, timestamp)

\* verify_required_endpoints_present.
RequiredPresent(interface, path, entries) ==
    \A i \in DOMAIN interface.mappings :
        interface.mappings[i].required =>
            \E j \in DOMAIN entries : MappingFromPaths(interface, path, entries[j].name) = i

\* astarte_validation_aggregated_datastream.
ValidateAggregated(interface, path, entries, timestamp) ==
    LET verdict == [i \in DOMAIN entries |->
                        ValidateAt(interface, MappingFromPaths(interface, path, entries[i].name),
                                   entries[i].data, timestamp)]
        wrong == {i \in DOMAIN entries : verdict[i] # "ok"}
    IN  IF wrong # {} THEN verdict[LeastOf(wrong)]
        ELSE IF RequiredPresent(interface, path, entries) THEN "ok" ELSE "incomplete"

-----------------------------------------------------------------------------
(* The introspection. *)

\* find_node_by_name: the place of an interface, or 0.
Find(introspection, name) ==
    LET places == {i \in DOMAIN introspection : introspection[i].name = name}
    IN  IF places = {} THEN 0 ELSE LeastOf(places)

Validates(interface) == interface.major # 0 \/ interface.minor # 0

\* introspection_add appends the interface, or returns an error.
CanAdd_Again(introspection, interface) == Validates(interface)
CanAdd(introspection, interface) ==
    Validates(interface) /\ Find(introspection, interface.name) = 0

\* check_mapping_attributes.
SameAttributes(interface, old, new) ==
    /\ old.type = new.type
    /\ IF interface.type = "datastream"
       THEN /\ old.reliability = new.reliability /\ old.explicit = new.explicit
            /\ old.retention = new.retention /\ old.expiry = new.expiry
       ELSE old.allow_unset = new.allow_unset

\* check_interface_mappings_update: every old endpoint stays as it is.
MappingsStay(old, new) ==
    \A i \in DOMAIN old.mappings :
        LET same == {j \in DOMAIN new.mappings :
                        new.mappings[j].endpoint = old.mappings[i].endpoint}
        IN  /\ same # {}
            /\ SameAttributes(new, old.mappings[i], new.mappings[LeastOf(same)])

\* check_interface_update, of an interface that is there.
CanReplace_AnyMinor(old, new) ==
    /\ new.ownership = old.ownership /\ new.type = old.type
    /\ new.aggregation = old.aggregation /\ new.major >= old.major
    /\ MappingsStay(old, new)
CanReplace(old, new) ==
    /\ new.ownership = old.ownership /\ new.type = old.type
    /\ new.aggregation = old.aggregation /\ new.major >= old.major
    /\ new.major = old.major => new.minor > old.minor
    /\ MappingsStay(old, new)

\* introspection_update.
UpdateInterface(introspection, interface) ==
    LET place == Find(introspection, interface.name)
    IN  IF ~Validates(interface) THEN introspection
        ELSE IF place = 0 THEN Append(introspection, interface)
        ELSE IF CanReplace(introspection[place], interface)
        THEN [introspection EXCEPT ![place] = interface]
        ELSE introspection

\* introspection_remove.
RemoveInterface(introspection, name) ==
    LET place == Find(introspection, name)
    IN  IF place = 0 THEN introspection ELSE RemoveAt(introspection, place)

-----------------------------------------------------------------------------
(* The text of the introspection, "name:major:minor;...". *)

\* get_digit_count.
DigitCount_AtTen(n) ==
    LET count[k \in 0 .. n] == IF k > 10 THEN 1 + count[k \div 10] ELSE 1 IN count[n]
DigitCount(n) ==
    LET count[k \in 0 .. n] == IF k > 9 THEN 1 + count[k \div 10] ELSE 1 IN count[n]

Digits(n) ==
    LET digits[k \in 0 .. n] == IF k > 9 THEN Append(digits[k \div 10], 48 + (k % 10))
                                ELSE <<48 + k>>
    IN  digits[n]

Printed(interface) ==
    interface.name \o <<58>> \o Digits(interface.major) \o <<58>> \o Digits(interface.minor)
        \o <<59>>

\* introspection_get_string_size.
StringSize(introspection) ==
    LET size[i \in 0 .. Len(introspection)] ==
            IF i = 0 THEN 0
            ELSE size[i - 1] + Len(introspection[i].name) + DigitCount(introspection[i].major)
                    + DigitCount(introspection[i].minor) + 3
    IN  IF introspection = <<>> THEN 1 ELSE size[Len(introspection)]

\* introspection_fill_string: what a buffer of a size holds up to its
\* terminator.  Each snprintf writes what fits and leaves room for it.
FillString(introspection, size) ==
    LET filled[i \in 0 .. Len(introspection)] ==
            IF i = 0 THEN <<>>
            ELSE LET text == filled[i - 1] \o Printed(introspection[i])
                 IN  SubSeq(text, 1, IF Len(text) < size THEN Len(text) ELSE size - 1)
    IN  filled[Len(introspection)]
=============================================================================
