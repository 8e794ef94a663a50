----------------------------- MODULE AstarteData -----------------------------
(***************************************************************************)
(* Values of Astarte, to and from BSON: src/lib/astarte_device_sdk/data    *)
(* and what mapping.c says of types.                                       *)
(*                                                                         *)
(* A value is its type, the tag of astarte_data_t, and a number, a text    *)
(* or bytes (sequences of numbers), or a sequence of those for an array.   *)
(* Deserializing allocates memory.  A function that does is described by   *)
(* the blocks it asks for, in order, and by the error it ends with when it *)
(* gets all of them: which one is refused is for the caller to choose.     *)
(***************************************************************************)
EXTENDS Bson

ScalarBson == [binaryblob |-> Binary, boolean |-> Boolean, datetime |-> DateTime,
               double |-> Double, integer |-> Int32, longinteger |-> Int64, string |-> String]
Scalars == DOMAIN ScalarBson

\* astarte_mapping_array_to_scalar_type.
ArrayScalar == [binaryblobarray |-> "binaryblob", booleanarray |-> "boolean",
                datetimearray |-> "datetime", doublearray |-> "double",
                integerarray |-> "integer", longintegerarray |-> "longinteger",
                stringarray |-> "string"]
Arrays == DOMAIN ArrayScalar
Types == Scalars \cup Arrays

\* The double that is not a finite number.
NotFinite == 7777

Data(type, value) == [type |-> type, value |-> value]

\* The values of a type, the union in astarte_data_t.
ScalarValues(type) == IF type \in {"string", "binaryblob"} THEN Seq(Nat) ELSE Int
Values(type) ==
    IF type \in Scalars THEN ScalarValues(type) ELSE Seq(ScalarValues(ArrayScalar[type]))

-----------------------------------------------------------------------------
(* astarte_data_serialize. *)

AppendScalar(bson, name, type, v) ==
    CASE type = "integer" -> AppendInt32(bson, name, v)
      [] type = "longinteger" -> AppendInt64(bson, name, v)
      [] type = "double" -> AppendDouble(bson, name, v)
      [] type = "string" -> AppendString(bson, name, v)
      [] type = "binaryblob" -> AppendBinary(bson, name, v)
      [] type = "boolean" -> AppendBoolean(bson, name, v)
      [] type = "datetime" -> AppendDateTime(bson, name, v)

\* An array is a document whose names are the indexes, "0" first.
ArrayOf(scalar, items) ==
    LET upTo[i \in 0 .. Len(items)] ==
            IF i = 0 THEN Init4
            ELSE AppendScalar(upTo[i - 1], <<48 + i - 1>>, scalar, items[i])
    IN  EndOfDocument(upTo[Len(items)])

Serialize(bson, name, data) ==
    IF data.type \in Scalars THEN AppendScalar(bson, name, data.type, data.value)
    ELSE AppendArray(bson, name, ArrayOf(ArrayScalar[data.type], data.value))

LeastOf(S) == CHOOSE i \in S : \A j \in S : i <= j

-----------------------------------------------------------------------------
(* astarte_data_deserialize. *)

\* A long integer that is small may come as a 32 bit number.
BsonIsCompatible_Exact(type, bson_type) ==
    bson_type = IF type \in Arrays THEN Array ELSE ScalarBson[type]
BsonIsCompatible(type, bson_type) ==
    \/ bson_type = IF type \in Arrays THEN Array ELSE ScalarBson[type]
    \/ type = "longinteger" /\ bson_type = Int32

ScalarOf(doc, element, type) ==
    CASE type = "string" -> ToText(doc, element)
      [] type = "binaryblob" -> ToBinary(doc, element)
      [] OTHER -> ToNumber(doc, element)

\* Blocks of memory.  A larger array replaces the smaller one, a path is
\* released at once: neither is a block to keep.
Block(kind, i) == [kind |-> kind, i |-> i]
Kept(blocks) == {b \in Range(blocks) : b.kind \notin {"larger", "fullpath"}}

\* What a call did: the blocks it asked for, its error, the value it made.
Failed(asked, error) == [asked |-> asked, error |-> error, data |-> [type |-> "none"]]
Made(asked, data) == [asked |-> asked, error |-> "none", data |-> data]

\* The memory of one text or blob.  An allocation of no bytes gives NULL.
AskItem(doc, element, type, i) ==
    CASE type = "string" -> <<Block("item", i)>>
      [] type = "binaryblob" -> IF doc.buf[element.value] = 0 THEN <<>> ELSE <<Block("item", i)>>
      [] OTHER -> <<>>

NoRoomFor(doc, element, type) == type = "binaryblob" /\ doc.buf[element.value] = 0

DeserializeScalar(doc, element, type) ==
    IF ~BsonIsCompatible(type, element.type) THEN Failed(<<>>, "types")
    ELSE IF NoRoomFor(doc, element, type) THEN Failed(<<>>, "memory")
    ELSE Made(AskItem(doc, element, type, 1), Data(type, ScalarOf(doc, element, type)))

\* Room for four items at first, and for twice as many when it is full.
AskArray(scalar) ==
    IF scalar = "binaryblob" THEN <<Block("array", 0), Block("sizes", 0)>>
    ELSE <<Block("array", 0)>>
AskLarger(scalar, i) ==
    IF i \notin {5, 9} THEN <<>>
    ELSE IF scalar = "binaryblob" THEN <<Block("larger", i), Block("larger", i)>>
    ELSE <<Block("larger", i)>>

\* The item that meets an error asks for nothing when it is no item.  (Two
\* blocks asked for together are both given back if one is refused.)
DeserializeItems(doc, items, type) ==
    LET scalar == ArrayScalar[type]
        Error(i) == IF items[i].res # "ok" THEN "bson"
                    ELSE IF ~BsonIsCompatible(scalar, items[i].type) THEN "types"
                    ELSE IF NoRoomFor(doc, items[i], scalar) THEN "memory" ELSE "none"
        Asked(n) == AskArray(scalar) \o FlattenSeq([i \in 1 .. n |->
                        AskLarger(scalar, i) \o AskItem(doc, items[i], scalar, i)])
        wrong == {i \in DOMAIN items : Error(i) # "none"}
    IN  IF wrong = {}
        THEN Made(Asked(Len(items)),
                  Data(type, [i \in DOMAIN items |-> ScalarOf(doc, items[i], scalar)]))
        ELSE LET i == LeastOf(wrong)
             IN  Failed(Asked(IF Error(i) = "memory" THEN i ELSE i - 1), Error(i))

DeserializeArray(doc, element, type) ==
    IF element.type # Array THEN Failed(<<>>, "types")
    ELSE DeserializeItems(doc, Elements(ToDocument(doc, element)), type)

Deserialize(doc, element, type) ==
    IF type \in Scalars THEN DeserializeScalar(doc, element, type)
    ELSE DeserializeArray(doc, element, type)

\* The blocks that stay when the call got all that it asked for: an array
\* that turns out to be empty is given back.
Stays(made) ==
    IF made.data.type \in Arrays /\ made.data.value = <<>> THEN {} ELSE Kept(made.asked)

\* The blocks that the cleanup gives back after the call failed holding some.
CleanedUp_Items(held) == {b \in held : b.kind = "item"}
CleanedUp(held) == held

\* astarte_data_destroy_deserialized.
Destroyed(data) ==
    LET Items(n) == {Block("item", i) : i \in 1 .. n}
        Array0 == {Block("array", 0)}
    IN  IF data.type \in Arrays /\ data.value = <<>> THEN {}
        ELSE CASE data.type \in {"binaryblob", "string"} -> Items(1)
               [] data.type = "stringarray" -> Items(Len(data.value)) \cup Array0
               [] data.type = "binaryblobarray" ->
                    Items(Len(data.value)) \cup Array0 \cup {Block("sizes", 0)}
               [] data.type \in Arrays \ {"stringarray", "binaryblobarray"} -> Array0
               [] OTHER -> {}
=============================================================================
