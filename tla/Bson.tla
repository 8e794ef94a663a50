-------------------------------- MODULE Bson --------------------------------
(***************************************************************************)
(* The BSON documents that carry data between the device and Astarte:      *)
(* src/lib/astarte_device_sdk/bson.                                        *)
(*                                                                         *)
(* A document is a sequence of cells, one for every byte, so that sizes    *)
(* and offsets are those of the code.  A number of several bytes has its   *)
(* value in its first cell; the others only take room.  Letters are        *)
(* numbers other than 0.                                                   *)
(***************************************************************************)
EXTENDS Integers, Sequences, FiniteSets, SequencesExt

\* Types of elements.
Double == 1
String == 2
Document == 3
Array == 4
Binary == 5
Boolean == 8
DateTime == 9
Int32 == 16
Int64 == 18

BsonTypes == {Double, String, Document, Array, Binary, Boolean, DateTime, Int32, Int64}

Number(n, width) == <<n>> \o [i \in 1 .. width - 1 |-> 0]

-----------------------------------------------------------------------------
(* The serializer.  A buffer of the code is a sequence here; how it grows  *)
(* is a fact about its sizes alone.                                        *)

\* byte_array_grow: the capacity after room was made for more bytes.
Grow(capacity, size, needed) ==
    IF size + needed <= capacity THEN capacity
    ELSE LET doubled == IF capacity * 2 > 64 THEN capacity * 2 ELSE 64
         IN  IF doubled < capacity + needed THEN capacity + needed ELSE doubled

Init4 == Number(0, 4)

\* The size of the whole document is known, and written over its first
\* bytes, once the document ends.
EndOfDocument_CountsBody(bson) == Number(Len(bson), 4) \o SubSeq(bson, 5, Len(bson)) \o <<0>>
EndOfDocument(bson) ==
    LET whole == Append(bson, 0)
    IN  Number(Len(whole), 4) \o SubSeq(whole, 5, Len(whole))

AppendElement(bson, type, name, value) == bson \o <<type>> \o name \o <<0>> \o value

AppendDouble(bson, name, d) == AppendElement(bson, Double, name, Number(d, 8))
AppendInt32(bson, name, n) == AppendElement(bson, Int32, name, Number(n, 4))
AppendInt64(bson, name, n) == AppendElement(bson, Int64, name, Number(n, 8))
AppendDateTime(bson, name, t) == AppendElement(bson, DateTime, name, Number(t, 8))
AppendBoolean(bson, name, b) == AppendElement(bson, Boolean, name, <<b>>)
AppendBinary(bson, name, bytes) ==
    AppendElement(bson, Binary, name, Number(Len(bytes), 4) \o <<0>> \o bytes)
AppendString(bson, name, text) ==
    AppendElement(bson, String, name, Number(Len(text) + 1, 4) \o text \o <<0>>)
AppendDocument(bson, name, document) ==
    AppendElement(bson, Document, name, SubSeq(document, 1, document[1]))

AppendArray(bson, name, array) == AppendElement(bson, Array, name, array)

-----------------------------------------------------------------------------
(* The deserializer.  A document is read where it lies: its record has the *)
(* place of its list of elements and its size.                             *)

InitDoc(buf, at) == [buf |-> buf, list |-> at + 4, size |-> buf[at],
                     list_size |-> IF buf[at] >= 5 THEN buf[at] - 5 ELSE 0]

CheckValidity(buf) ==
    /\ Len(buf) >= 5 /\ Len(buf) >= buf[1] /\ buf[1] >= 5
    /\ buf[buf[1]] = 0
    /\ buf[1] = 5 \/ (buf[1] >= 8 /\ buf[5] \in BsonTypes)

End(doc) == doc.list + doc.list_size
IsWithinBounds(doc, at, size) == doc.list <= at /\ at <= End(doc) /\ size <= End(doc) - at

\* get_element_value_size, -1 when there is none.
ValueSize(doc, type, at) ==
    CASE type \in {Double, DateTime, Int64} -> 8
      [] type = Int32 -> 4
      [] type = Boolean -> 1
      [] type \in {String, Document, Array, Binary} ->
            IF ~IsWithinBounds(doc, at, 4) THEN -1
            ELSE doc.buf[at] + (CASE type = String -> 4 [] type = Binary -> 5 [] OTHER -> 0)
      [] OTHER -> -1

\* strnlen of the name at a place, as far as the list goes.
NameLength(doc, at) ==
    LET ends == {n \in 0 .. End(doc) - at - 1 : doc.buf[at + n] = 0}
    IN  IF ends = {} THEN End(doc) - at ELSE CHOOSE n \in ends : \A k \in ends : n <= k

NoElement == [res |-> "not_found", type |-> 0, name |-> <<>>, value |-> 0]
BadElement == [NoElement EXCEPT !.res = "error"]

\* The element that starts at a place, if its name and its value lie within
\* the document.
ElementAt(doc, at) ==
    LET length == NameLength(doc, at + 1)
        value == at + 1 + length + 1
        size == ValueSize(doc, doc.buf[at], value)
    IN  IF at + 1 + length >= End(doc) THEN BadElement
        ELSE IF size < 0 \/ ~IsWithinBounds(doc, value, size) THEN BadElement
        ELSE [res |-> "ok", type |-> doc.buf[at],
              name |-> SubSeq(doc.buf, at + 1, at + length), value |-> value]

FirstElement(doc) == IF doc.size <= 5 THEN NoElement ELSE ElementAt(doc, doc.list)

NextElement(doc, element) ==
    LET next == element.value + ValueSize(doc, element.type, element.value)
    IN  IF next >= End(doc) THEN NoElement
        ELSE IF doc.buf[next] = 0 THEN NoElement
        ELSE ElementAt(doc, next)

\* The elements that a loop over the document meets; the last one is an
\* error when the loop ends with one.  Each takes two bytes at least, which
\* bounds their number.
Elements(doc) ==
    LET After(met) ==
            IF met = <<>> THEN FirstElement(doc)
            ELSE IF met[Len(met)].res = "ok" THEN NextElement(doc, met[Len(met)]) ELSE NoElement
        Longer(met) == IF After(met).res = "not_found" THEN met ELSE Append(met, After(met))
        walk[n \in 0 .. Len(doc.buf) \div 2] == IF n = 0 THEN <<>> ELSE Longer(walk[n - 1])
    IN  walk[Len(doc.buf) \div 2]

FirstNamed(elements, key) ==
    LET found == {i \in DOMAIN elements : elements[i].res = "ok" /\ elements[i].name = key}
    IN  IF found = {} THEN BadElement
        ELSE elements[CHOOSE i \in found : \A j \in found : i <= j]

Lookup(doc, key) == FirstNamed(Elements(doc), key)

\* astarte_bson_deserializer_element_to_...
ToNumber(doc, element) == doc.buf[element.value]
ToText(doc, element) ==
    SubSeq(doc.buf, element.value + 4, element.value + 4 + doc.buf[element.value] - 2)
ToBinary_NoSubtype(doc, element) ==
    SubSeq(doc.buf, element.value + 4, element.value + 4 + doc.buf[element.value] - 1)
ToBinary(doc, element) ==
    SubSeq(doc.buf, element.value + 5, element.value + 5 + doc.buf[element.value] - 1)
ToDocument(doc, element) == InitDoc(doc.buf, element.value)
=============================================================================
