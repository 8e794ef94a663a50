------------------------- MODULE DatastreamsProofs -------------------------
(***************************************************************************)
(* Theorems about Datastreams and the modules below it.                    *)
(*                                                                         *)
(* Of Bson, for every buffer: the deserializer hands out only elements     *)
(* whose values lie within the document, down to nested documents, and     *)
(* moves forward with each of them, so that the loops over a document end; *)
(* the serializer has room for what it appends, and a document announces   *)
(* its own size.                                                           *)
(*                                                                         *)
(* Of the introspection, for every set of interfaces and any number of     *)
(* changes: what Astarte may rely on while it grows, and that its text     *)
(* fits the buffer that was asked for.                                     *)
(*                                                                         *)
(* Of the messages to Astarte, for any values: their payloads are what     *)
(* Astarte makes of them, and nothing that validation refuses is queued.   *)
(*                                                                         *)
(* Of the messages from Astarte, whatever they hold and whatever memory is *)
(* refused: each block of memory is given back once, and none is left.     *)
(***************************************************************************)
EXTENDS Datastreams, WellFoundedInduction, FiniteSetTheorems, SequenceTheorems, TLAPS

-----------------------------------------------------------------------------
(* Recursion over numbers. *)

\* A non-empty set of numbers has a least one.
LEMMA LeastExists ==
    ASSUME NEW N \in SUBSET Nat, N # {}
    PROVE  \E n \in N : \A k \in N : n <= k
<1>1. PICK n \in N : \A k \in N : ~ (<<k, n>> \in OpToRel(<, Nat))
    BY WFMin, NatLessThanWellFounded
<1>2. \A k \in N : ~ (k < n)
    BY <1>1 DEF OpToRel
<1>3. QED BY <1>2

LEMMA LeastOfIs ==
    ASSUME NEW N \in SUBSET Nat, N # {}
    PROVE  LeastOf(N) \in N /\ \A k \in N : LeastOf(N) <= k
BY LeastExists DEF LeastOf

\* A set of numbers that has 0, and with each number the next one up to n.
LEMMA AllUpTo ==
    ASSUME NEW n \in Nat, NEW G, 0 \in G, \A i \in 1 .. n : i - 1 \in G => i \in G
    PROVE  0 .. n \subseteq G
<1> DEFINE Bad == {i \in 0 .. n : i \notin G}
<1>1. ASSUME Bad # {} PROVE FALSE
    <2>1. PICK m \in Bad : \A k \in Bad : m <= k
        <3>1. Bad \in SUBSET Nat
            OBVIOUS
        <3> HIDE DEF Bad
        <3>2. QED BY <1>1, <3>1, LeastExists
    <2>2. m \in 1 .. n /\ m - 1 \in 0 .. n /\ ~(m <= m - 1)
        OBVIOUS
    <2>3. m - 1 \in G
        BY <2>1, <2>2
    <2>4. QED BY <2>2, <2>3
<1>2. QED BY <1>1

\* The values v of a function that starts with base and goes on with step.
Iterates(v, n, base, step) ==
    /\ DOMAIN v = 0 .. n /\ v[0] = base
    /\ \A i \in 1 .. n : v[i] = step[<<i, v[i - 1]>>]

\* There is such a function.
LEMMA IteratesExist ==
    ASSUME NEW n \in Nat, NEW W, NEW base \in W, NEW step \in [(1 .. n) \X W -> W]
    PROVE  \E v \in [0 .. n -> W] : Iterates(v, n, base, step)
<1> DEFINE G == {m \in 0 .. n : \E v \in [0 .. m -> W] : Iterates(v, m, base, step)}
<1>1. 0 \in G
    <2>1. [i \in 0 .. 0 |-> base] \in [0 .. 0 -> W]
        OBVIOUS
    <2>2. Iterates([i \in 0 .. 0 |-> base], 0, base, step)
        BY DEF Iterates
    <2>3. QED BY <2>1, <2>2
<1>2. ASSUME NEW m \in 1 .. n, m - 1 \in G PROVE m \in G
    <2>1. PICK v \in [0 .. m - 1 -> W] : Iterates(v, m - 1, base, step)
        BY <1>2
    <2> DEFINE w == [i \in 0 .. m |-> IF i = m THEN step[<<m, v[m - 1]>>] ELSE v[i]]
    <2>2. step[<<m, v[m - 1]>>] \in W
        OBVIOUS
    <2>3. w \in [0 .. m -> W]
        BY <2>2
    <2>4. \A i \in 0 .. m - 1 : i \in 0 .. m /\ w[i] = v[i]
        OBVIOUS
    <2>5. w[m] = step[<<m, v[m - 1]>>] /\ DOMAIN w = 0 .. m
        OBVIOUS
    <2> HIDE DEF w
    <2>6. w[0] = base
        BY <2>1, <2>4 DEF Iterates
    <2>7. ASSUME NEW i \in 1 .. m PROVE w[i] = step[<<i, w[i - 1]>>]
        <3>1. CASE i = m
            BY <2>4, <2>5, <3>1
        <3>2. CASE i # m
            <4>1. i \in 1 .. m - 1 /\ i \in 0 .. m - 1 /\ i - 1 \in 0 .. m - 1
                BY <3>2
            <4>2. v[i] = step[<<i, v[i - 1]>>]
                BY <2>1, <4>1 DEF Iterates
            <4>3. QED BY <2>4, <4>1, <4>2
        <3>3. QED BY <3>1, <3>2
    <2>8. Iterates(w, m, base, step)
        BY <2>5, <2>6, <2>7 DEF Iterates
    <2>9. QED BY <2>3, <2>8
<1> HIDE DEF G
<1>3. 0 .. n \subseteq G
    BY <1>1, <1>2, AllUpTo
<1>4. QED BY <1>3 DEF G

\* And no other: functions that start and go on alike are alike.
Alike(v, w, n) == v[0] = w[0] /\ \A i \in 1 .. n : v[i - 1] = w[i - 1] => v[i] = w[i]

LEMMA IteratesOnce ==
    ASSUME NEW n \in Nat, NEW v, NEW w, Alike(v, w, n)
    PROVE  \A i \in 0 .. n : v[i] = w[i]
<1> DEFINE G == {i \in 0 .. n : v[i] = w[i]}
<1>1. 0 \in G /\ \A i \in 1 .. n : i - 1 \in G => i \in G
    BY DEF Alike
<1> HIDE DEF G
<1>2. 0 .. n \subseteq G
    BY <1>1, AllUpTo
<1>3. QED BY <1>2 DEF G

-----------------------------------------------------------------------------
(* Bson. *)

\* A document whose list, and the byte that ends it, lie within the buffer.
Inside(doc) ==
    /\ doc.buf \in Seq(Nat)
    /\ doc.list \in Nat \ {0} /\ doc.list_size \in Nat
    /\ End(doc) <= Len(doc.buf)

\* An element whose value lies within the document, from its first place on.
Within(doc, element) ==
    /\ element.value \in Nat \ {0}
    /\ doc.list < element.value
    /\ ValueSize(doc, element.type, element.value) \in Nat
    /\ element.value + ValueSize(doc, element.type, element.value) <= End(doc)

LEMMA CellType ==
    ASSUME NEW doc, Inside(doc), NEW at \in Nat \ {0}, at <= End(doc)
    PROVE  doc.buf[at] \in Nat /\ End(doc) \in Nat
BY DEF Inside, End

LEMMA ValueSizeType ==
    ASSUME NEW doc, Inside(doc), NEW type, NEW at \in Nat \ {0}
    PROVE  ValueSize(doc, type, at) \in Nat \cup {-1}
<1>1. CASE type \in {String, Document, Array, Binary} /\ IsWithinBounds(doc, at, 4)
    <2>1. at <= End(doc)
        BY <1>1 DEF IsWithinBounds
    <2> QED BY <1>1, <2>1, CellType
            DEF ValueSize, Double, DateTime, Int64, Int32, Boolean, String, Document, Array, Binary
<1>2. CASE ~(type \in {String, Document, Array, Binary} /\ IsWithinBounds(doc, at, 4))
    BY <1>2 DEF ValueSize, Double, DateTime, Int64, Int32, Boolean, String, Document, Array, Binary
<1> QED BY <1>1, <1>2

\* strnlen stays within its bound.
LEMMA NameLengthType ==
    ASSUME NEW doc, Inside(doc), NEW at \in Nat, at <= End(doc)
    PROVE  NameLength(doc, at) \in 0 .. End(doc) - at
<1> DEFINE ends == {n \in 0 .. End(doc) - at - 1 : doc.buf[at + n] = 0}
<1>1. End(doc) \in Nat
    BY DEF Inside, End
<1>2. CASE ends = {}
    BY <1>1, <1>2 DEF NameLength
<1>3. CASE ends # {}
    <2>1. ends \in SUBSET Nat
        BY <1>1
    <2>2. \E n \in ends : \A k \in ends : n <= k
        BY <1>3, <2>1, LeastExists
    <2>3. NameLength(doc, at) \in ends
        BY <1>3, <2>2 DEF NameLength
    <2> QED BY <1>1, <2>3
<1> QED BY <1>2, <1>3

(* An element that first_element or next_element hands out lies within the *)
(* document: neither its name nor its value is read past the end.          *)
THEOREM ElementsStayInside ==
    ASSUME NEW doc, Inside(doc), NEW at \in Nat, doc.list <= at, at < End(doc),
           ElementAt(doc, at).res = "ok"
    PROVE  Within(doc, ElementAt(doc, at)) /\ ElementAt(doc, at).value >= at + 2
<1> DEFINE length == NameLength(doc, at + 1)
           value == at + 1 + length + 1
           size == ValueSize(doc, doc.buf[at], value)
<1>1. End(doc) \in Nat /\ doc.list \in Nat \ {0}
    BY DEF Inside, End
<1>2. length \in Nat
    BY <1>1, NameLengthType
<1>3. value \in Nat \ {0} /\ size \in Nat \cup {-1}
    BY <1>2, ValueSizeType
<1>4. /\ ~(at + 1 + length >= End(doc)) /\ ~(size < 0) /\ IsWithinBounds(doc, value, size)
      /\ ElementAt(doc, at).value = value /\ ElementAt(doc, at).type = doc.buf[at]
    BY DEF ElementAt, BadElement, NoElement
<1>5. size \in Nat /\ size <= End(doc) - value
    BY <1>3, <1>4 DEF IsWithinBounds
<1> QED BY <1>1, <1>2, <1>3, <1>4, <1>5 DEF Within

(* The loops of the deserializer (count_elements, element_lookup) and of   *)
(* its callers end: each element lies behind the value of the last one, by *)
(* two bytes at least, and none lies behind the end.                       *)
THEOREM WalksAdvance ==
    ASSUME NEW doc, Inside(doc), NEW element, Within(doc, element),
           NextElement(doc, element).res = "ok"
    PROVE  /\ Within(doc, NextElement(doc, element))
           /\ NextElement(doc, element).value >= element.value + 2
<1> DEFINE next == element.value + ValueSize(doc, element.type, element.value)
<1>1. End(doc) \in Nat
    BY DEF Inside, End
<1>2. next \in Nat /\ doc.list <= next /\ next >= element.value
    BY DEF Within, Inside
<1>3. next < End(doc) /\ NextElement(doc, element) = ElementAt(doc, next)
    BY <1>1, <1>2 DEF NextElement, NoElement
<1>4. /\ Within(doc, ElementAt(doc, next))
      /\ ElementAt(doc, next).value >= next + 2
    BY <1>2, <1>3, ElementsStayInside
<1> QED BY <1>2, <1>3, <1>4 DEF Within

(* A document within a document, or an array, lies within the buffer too,  *)
(* and ends before the document around it.                                 *)
THEOREM NestedStaysInside ==
    ASSUME NEW doc, Inside(doc), NEW element, Within(doc, element),
           element.type \in {Document, Array}
    PROVE  /\ Inside(ToDocument(doc, element))
           /\ End(ToDocument(doc, element)) <= End(doc)
<1> DEFINE size == doc.buf[element.value]
<1>1. End(doc) \in Nat /\ doc.list \in Nat \ {0} /\ element.value \in Nat \ {0}
    BY DEF Inside, End, Within
<1>2. ValueSize(doc, element.type, element.value) =
        IF ~IsWithinBounds(doc, element.value, 4) THEN -1 ELSE size + 0
    BY DEF ValueSize, Document, Array, Double, DateTime, Int64, Int32, Boolean, String, Binary
<1>3. size \in Nat /\ element.value + size <= End(doc) /\ element.value + 4 <= End(doc)
    <2>1. IsWithinBounds(doc, element.value, 4)
        BY <1>2 DEF Within
    <2>2. element.value + 4 <= End(doc)
        BY <1>1, <2>1 DEF IsWithinBounds
    <2>3. size \in Nat
        BY <1>1, <2>2, CellType
    <2> QED BY <1>1, <1>2, <2>1, <2>2, <2>3 DEF Within
<1>4. ToDocument(doc, element) =
        [buf |-> doc.buf, list |-> element.value + 4, size |-> size,
         list_size |-> IF size >= 5 THEN size - 5 ELSE 0]
    BY DEF ToDocument, InitDoc
<1>5. /\ ToDocument(doc, element).buf = doc.buf
      /\ ToDocument(doc, element).list = element.value + 4
      /\ ToDocument(doc, element).list_size = IF size >= 5 THEN size - 5 ELSE 0
    BY <1>4
<1>6. End(doc) <= Len(doc.buf) /\ doc.buf \in Seq(Nat)
    BY DEF Inside
<1> HIDE DEF size
<1>7. End(ToDocument(doc, element)) <= End(doc)
    BY <1>1, <1>3, <1>5 DEF End
<1>8. /\ ToDocument(doc, element).list \in Nat \ {0}
      /\ ToDocument(doc, element).list_size \in Nat
    BY <1>1, <1>3, <1>5
<1>9. End(ToDocument(doc, element)) <= Len(doc.buf)
    <2>1. End(ToDocument(doc, element)) \in Nat /\ Len(doc.buf) \in Nat
        BY <1>6, <1>8 DEF End
    <2> QED BY <1>1, <1>6, <1>7, <2>1
<1> QED BY <1>5, <1>6, <1>7, <1>8, <1>9 DEF Inside

(* A buffer that passes check_validity is a document inside itself, so     *)
(* that whatever is read of it after that check is read of the buffer.     *)
THEOREM ValidStaysInside ==
    ASSUME NEW buf \in Seq(Nat), CheckValidity(buf)
    PROVE  Inside(InitDoc(buf, 1))
<1>1. buf[1] \in Nat /\ buf[1] >= 5 /\ buf[1] <= Len(buf)
    BY DEF CheckValidity
<1> QED BY <1>1 DEF Inside, InitDoc, End

(* The buffer has room for what byte_array_append writes behind the bytes  *)
(* it holds, and never shrinks.                                            *)
THEOREM RoomIsMade ==
    ASSUME NEW capacity \in Nat, NEW size \in Nat, NEW needed \in Nat, size <= capacity
    PROVE  /\ size + needed <= Grow(capacity, size, needed)
           /\ capacity <= Grow(capacity, size, needed)
BY DEF Grow

LEMMA JoinedSequences ==
    ASSUME NEW p \in Seq(Nat), NEW q \in Seq(Nat), Len(p) >= 1, Len(q) >= 1
    PROVE  /\ p \o q \in Seq(Nat) /\ Len(p \o q) = Len(p) + Len(q)
           /\ (p \o q)[1] = p[1] /\ (p \o q)[Len(p) + Len(q)] = q[Len(q)]
OBVIOUS

(* A document that was ended announces its own size and ends with a zero,  *)
(* as check_validity wants it.                                             *)
THEOREM SizeIsAnnounced ==
    ASSUME NEW bson \in Seq(Nat), Len(bson) >= 4
    PROVE  /\ EndOfDocument(bson) \in Seq(Nat)
           /\ EndOfDocument(bson)[1] = Len(EndOfDocument(bson))
           /\ EndOfDocument(bson)[Len(EndOfDocument(bson))] = 0
<1> DEFINE whole == Append(bson, 0)
           head == Number(Len(whole), 4)
           body == SubSeq(whole, 5, Len(whole))
<1>1. whole \in Seq(Nat) /\ Len(whole) = Len(bson) + 1 /\ whole[Len(whole)] = 0
    OBVIOUS
<1>2. head \in Seq(Nat) /\ Len(head) = 4 /\ head[1] = Len(whole)
    BY <1>1 DEF Number
<1>3. /\ body \in Seq(Nat) /\ Len(body) = Len(whole) - 4
      /\ body[Len(body)] = 0
    BY <1>1
<1>4. /\ head \o body \in Seq(Nat) /\ Len(head \o body) = Len(whole)
      /\ (head \o body)[1] = Len(whole) /\ (head \o body)[Len(whole)] = 0
    <2> HIDE DEF head, body, whole
    <2>1. Len(body) >= 1 /\ Len(head) + Len(body) = Len(whole)
        BY <1>1, <1>2, <1>3
    <2>2. Len(head) >= 1 /\ head \in Seq(Nat) /\ body \in Seq(Nat)
        BY <1>2, <1>3
    <2>3. /\ head \o body \in Seq(Nat) /\ Len(head \o body) = Len(head) + Len(body)
          /\ (head \o body)[1] = head[1]
          /\ (head \o body)[Len(head) + Len(body)] = body[Len(body)]
        BY <2>1, <2>2, JoinedSequences
    <2> QED BY <1>2, <1>3, <2>1, <2>3
<1> QED BY <1>4 DEF EndOfDocument

\* The sequences of seqs, one after the other, up to each of them.
Joins(f, seqs) ==
    /\ DOMAIN f = 0 .. Len(seqs) /\ f[0] = <<>>
    /\ \A i \in 1 .. Len(seqs) : f[i] = f[i - 1] \o seqs[i]

LEMMA FlattenIs ==
    ASSUME NEW X, NEW seqs \in Seq(Seq(X))
    PROVE  \E f \in [0 .. Len(seqs) -> Seq(X)] : Joins(f, seqs) /\ FlattenSeq(seqs) = f[Len(seqs)]
<1> DEFINE n == Len(seqs)
           step == [p \in (1 .. n) \X Seq(X) |-> p[2] \o seqs[p[1]]]
<1>0. n \in Nat /\ <<>> \in Seq(X) /\ \A i \in 1 .. n : seqs[i] \in Seq(X)
    BY ElementOfSeq
<1>1. step \in [(1 .. n) \X Seq(X) -> Seq(X)]
    <2>1. ASSUME NEW p \in (1 .. n) \X Seq(X) PROVE p[2] \o seqs[p[1]] \in Seq(X)
        <3>1. p[1] \in 1 .. n /\ p[2] \in Seq(X)
            OBVIOUS
        <3>2. seqs[p[1]] \in Seq(X)
            BY <1>0, <3>1
        <3>3. QED BY <3>1, <3>2, ConcatProperties
    <2>2. QED BY <2>1
<1>2. PICK f \in [0 .. n -> Seq(X)] : Iterates(f, n, <<>>, step)
    <2> HIDE DEF step, n
    <2>1. QED BY <1>0, <1>1, IteratesExist
<1>3. \A i \in 1 .. n : i \in 0 .. n /\ i - 1 \in 0 .. n /\ f[i - 1] \in Seq(X)
    <2>1. PICK m, W : m = n /\ W = Seq(X)
        OBVIOUS
    <2>2. m \in Nat /\ f \in [0 .. m -> W]
        BY <1>0, <1>2, <2>1
    <2>3. \A i \in 1 .. m : i \in 0 .. m /\ i - 1 \in 0 .. m /\ f[i - 1] \in W
        BY <2>2
    <2>4. QED BY <2>1, <2>3
<1>4. \A i \in 1 .. n : f[i] = f[i - 1] \o seqs[i]
    <2>1. ASSUME NEW i \in 1 .. n PROVE f[i] = f[i - 1] \o seqs[i]
        <3>1. <<i, f[i - 1]>> \in (1 .. n) \X Seq(X)
            BY <1>3
        <3>2. step[<<i, f[i - 1]>>] = f[i - 1] \o seqs[i]
            BY <3>1
        <3>3. QED BY <1>2, <3>2 DEF Iterates
    <2>2. QED BY <2>1
<1>5. Joins(f, seqs)
    BY <1>2, <1>4 DEF Joins, Iterates
<1>6. CASE n = 0
    <2>1. seqs = <<>>
        BY <1>6, EmptySeq
    <2>2. FlattenSeq(seqs) = seqs
        BY <1>6 DEF FlattenSeq
    <2>3. f[n] = <<>>
        BY <1>5, <1>6 DEF Joins
    <2>4. QED BY <1>2, <1>5, <2>1, <2>2, <2>3
<1>7. CASE n # 0
    <2> DEFINE Flat(h) == [i \in 1 .. n |-> IF i = 1 THEN seqs[i] ELSE h[i - 1] \o seqs[i]]
               g == [i \in 1 .. n |-> f[i]]
               flatten == CHOOSE h : h = Flat(h)
    <2>1. ASSUME NEW i \in 1 .. n PROVE g[i] = IF i = 1 THEN seqs[i] ELSE g[i - 1] \o seqs[i]
        <3>1. CASE i = 1
            <4>1. f[1] = f[1 - 1] \o seqs[1] /\ seqs[1] \in Seq(X)
                BY <1>0, <1>4, <3>1
            <4>2. f[1 - 1] = <<>>
                BY <1>5 DEF Joins
            <4>3. <<>> \o seqs[1] = seqs[1]
                BY <4>1, ConcatEmptySeq
            <4>4. QED BY <3>1, <4>1, <4>2, <4>3
        <3>2. CASE i # 1
            <4>1. i - 1 \in 1 .. n
                BY <1>0, <3>2
            <4>2. QED BY <1>4, <3>2, <4>1
        <3>3. QED BY <3>1, <3>2
    <2>2. g = Flat(g)
        <3>1. g = [i \in 1 .. n |-> g[i]]
            OBVIOUS
        <3> HIDE DEF g
        <3>2. QED BY <2>1, <3>1
    <2>3. flatten = Flat(flatten)
        <3> HIDE DEF Flat, g
        <3>1. QED BY <2>2
    <2>4. FlattenSeq(seqs) = flatten[n]
        BY <1>7 DEF FlattenSeq
    <2> HIDE DEF flatten
    <2> DEFINE v == [i \in 0 .. n |-> IF i = 0 THEN <<>> ELSE flatten[i]]
    <2>5. ASSUME NEW i \in 1 .. n, v[i - 1] = f[i - 1] PROVE v[i] = f[i]
        <3>1. v[i] = flatten[i]
            BY <1>0
        <3>2. flatten[i] = IF i = 1 THEN seqs[i] ELSE flatten[i - 1] \o seqs[i]
            <4> DEFINE fl == flatten
            <4>1. fl = Flat(flatten)
                BY <2>3
            <4>2. fl[i] = Flat(flatten)[i]
                BY <4>1
            <4>3. QED BY <4>2
        <3>3. CASE i = 1
            <4>1. f[1] = seqs[1]
                BY <2>1, <3>3
            <4>2. QED BY <3>1, <3>2, <3>3, <4>1
        <3>4. CASE i # 1
            <4>1. i - 1 \in 1 .. n /\ i - 1 # 0 /\ i - 1 \in 0 .. n
                BY <1>0, <3>4
            <4>2. v[i - 1] = flatten[i - 1]
                BY <4>1
            <4>3. f[i - 1] = flatten[i - 1]
                BY <2>5, <4>2
            <4>4. QED BY <1>4, <3>1, <3>2, <3>4, <4>3
        <3>5. QED BY <3>3, <3>4
    <2>6. v[0] = f[0] /\ DOMAIN v = 0 .. n /\ DOMAIN f = 0 .. n
        BY <1>0, <1>5 DEF Joins
    <2>7. v[n] = f[n]
        <3> HIDE DEF v
        <3>1. PICK m, w, h : m = n /\ w = v /\ h = f
            OBVIOUS
        <3>2. /\ m \in Nat /\ DOMAIN w = 0 .. m /\ DOMAIN h = 0 .. m /\ w[0] = h[0]
            BY <1>0, <2>6, <3>1
        <3>6. \A i \in 1 .. m : w[i - 1] = h[i - 1] => w[i] = h[i]
            BY <2>5, <3>1
        <3>3. \A i \in 0 .. m : w[i] = h[i]
            <4>1. w[0] = h[0] /\ m \in Nat
                BY <3>2
            <4>2. \A i \in 1 .. m : w[i - 1] = h[i - 1] => w[i] = h[i]
                BY <3>6
            <4>3. Alike(w, h, m)
                BY <4>1, <4>2 DEF Alike
            <4>4. QED BY <4>1, <4>3, IteratesOnce
        <3>4. m \in 0 .. m
            BY <3>2
        <3>5. QED BY <3>1, <3>3, <3>4
    <2>8. v[n] = flatten[n]
        BY <1>0, <1>7
    <2>9. QED BY <1>2, <1>5, <2>4, <2>7, <2>8
<1>8. QED BY <1>6, <1>7

-----------------------------------------------------------------------------
(* The introspection. *)

\* A list of known interfaces that has each name once.
Lists(list) ==
    /\ list \in Seq(Known)
    /\ \A i, j \in 1 .. Len(list) : list[i].name = list[j].name => i = j

\* find_node_by_name finds the interface of that name, if there is one.
LEMMA FindIs ==
    ASSUME NEW list, Lists(list), NEW name
    PROVE  \/ Find(list, name) = 0 /\ \A i \in 1 .. Len(list) : list[i].name # name
           \/ Find(list, name) \in 1 .. Len(list) /\ list[Find(list, name)].name = name
<1> DEFINE places == {i \in DOMAIN list : list[i].name = name}
<1>1. DOMAIN list = 1 .. Len(list) /\ Len(list) \in Nat
    BY LenProperties DEF Lists
<1>2. CASE places = {}
    <2>1. Find(list, name) = 0
        BY <1>2 DEF Find
    <2>2. QED BY <1>1, <1>2, <2>1
<1>3. CASE places # {}
    <2>1. places \in SUBSET Nat
        BY <1>1
    <2>2. LeastOf(places) \in places
        <3> HIDE DEF places
        <3>1. QED BY <1>3, <2>1, LeastOfIs
    <2>3. Find(list, name) = LeastOf(places)
        BY <1>3 DEF Find
    <2>4. QED BY <1>1, <2>2, <2>3
<1>4. QED BY <1>2, <1>3

LEMMA AppendLists ==
    ASSUME NEW list, Lists(list), NEW new \in Known, Find(list, new.name) = 0
    PROVE  Lists(Append(list, new))
<1> DEFINE more == Append(list, new)
<1>1. /\ list \in Seq(Known) /\ Len(list) \in Nat
      /\ more \in Seq(Known) /\ Len(more) = Len(list) + 1 /\ more[Len(list) + 1] = new
      /\ \A i \in 1 .. Len(list) : more[i] = list[i]
    BY AppendProperties, LenProperties DEF Lists
<1>2. \A i \in 1 .. Len(list) : list[i].name # new.name
    <2>1. Find(list, new.name) \notin 1 .. Len(list)
        BY <1>1
    <2>2. QED BY <2>1, FindIs
<1> HIDE DEF more
<1>3. ASSUME NEW i \in 1 .. Len(more), NEW j \in 1 .. Len(more), more[i].name = more[j].name
      PROVE  i = j
    <2>1. \A k \in 1 .. Len(more) : k \in 1 .. Len(list) \/ k = Len(list) + 1
        BY <1>1
    <2>2. \A k, m \in 1 .. Len(list) : list[k].name = list[m].name => k = m
        BY DEF Lists
    <2>3. QED BY <1>1, <1>2, <1>3, <2>1, <2>2
<1>4. QED BY <1>1, <1>3 DEF Lists, more

\* An interface is replaced by one of its name.
LEMMA ReplaceLists ==
    ASSUME NEW list, Lists(list), NEW new \in Known, NEW place \in 1 .. Len(list),
           list[place].name = new.name
    PROVE  /\ Lists([list EXCEPT ![place] = new])
           /\ \A i \in 1 .. Len(list) :
                [list EXCEPT ![place] = new][i] = IF i = place THEN new ELSE list[i]
           /\ Len([list EXCEPT ![place] = new]) = Len(list)
<1> DEFINE other == [list EXCEPT ![place] = new]
<1>1. list \in Seq(Known) /\ other \in Seq(Known) /\ Len(other) = Len(list) /\ Len(list) \in Nat
    BY ExceptSeq, LenProperties DEF Lists
<1>2. \A i \in 1 .. Len(list) : other[i] = IF i = place THEN new ELSE list[i]
    BY <1>1, LenProperties
<1> HIDE DEF other
<1>3. \A i \in 1 .. Len(list) : other[i].name = list[i].name
    BY <1>2
<1>4. Lists(other)
    BY <1>1, <1>3 DEF Lists
<1>5. QED BY <1>1, <1>2, <1>4 DEF other

\* What is left when an interface is removed was there before.
LEMMA RemoveLists ==
    ASSUME NEW list, Lists(list), NEW place \in 1 .. Len(list)
    PROVE  /\ Lists(RemoveAt(list, place))
           /\ \A i \in 1 .. Len(RemoveAt(list, place)) :
                \E j \in 1 .. Len(list) : RemoveAt(list, place)[i] = list[j]
<1> DEFINE f == SubSeq(list, 1, place - 1)
           g == SubSeq(list, place + 1, Len(list))
           less == RemoveAt(list, place)
<1>1. list \in Seq(Known) /\ Len(list) \in Nat
    BY LenProperties DEF Lists
<1>2. /\ f \in Seq(Known) /\ Len(f) = place - 1 /\ \A i \in 1 .. place - 1 : f[i] = list[i]
      /\ g \in Seq(Known) /\ Len(g) = Len(list) - place
      /\ \A i \in 1 .. Len(list) - place : g[i] = list[place + i]
    BY <1>1
<1>3. less = f \o g
    BY DEF RemoveAt
<1> HIDE DEF f, g
<1>4. /\ less \in Seq(Known) /\ Len(less) = Len(list) - 1
      /\ \A i \in 1 .. Len(list) - 1 : less[i] = IF i < place THEN f[i] ELSE g[i - place + 1]
    <2>1. PICK n, k : n = Len(list) /\ k = place
        OBVIOUS
    <2>2. /\ n \in Nat /\ k \in 1 .. n /\ f \in Seq(Known) /\ g \in Seq(Known)
          /\ Len(f) = k - 1 /\ Len(g) = n - k
        BY <1>1, <1>2, <2>1
    <2>3. f \o g \in Seq(Known) /\ Len(f \o g) = n - 1
        <3>1. f \o g \in Seq(Known) /\ Len(f \o g) = Len(f) + Len(g)
            <4>1. f \in Seq(Known) /\ g \in Seq(Known)
                BY <2>2
            <4> HIDE <1>1, <1>2, <2>2
            <4>2. QED BY <4>1, ConcatProperties
        <3>2. QED BY <2>2, <3>1
    <2>4. \A i \in 1 .. n - 1 : (f \o g)[i] = IF i <= k - 1 THEN f[i] ELSE g[i - (k - 1)]
        <3>1. \A i \in 1 .. Len(f) + Len(g) :
                (f \o g)[i] = IF i <= Len(f) THEN f[i] ELSE g[i - Len(f)]
            BY <2>2, ConcatProperties
        <3>2. Len(f) + Len(g) = n - 1
            BY <2>2
        <3>3. QED BY <2>2, <3>1, <3>2
    <2>5. \A i \in 1 .. n - 1 : /\ i <= k - 1 <=> i < k
                                /\ i - (k - 1) = i - k + 1
        BY <2>2
    <2>6. QED BY <1>3, <2>1, <2>3, <2>4, <2>5
<1> HIDE DEF less
<1>5. ASSUME NEW i \in 1 .. Len(less)
      PROVE  (IF i < place THEN i ELSE i + 1) \in 1 .. Len(list)
             /\ less[i] = list[IF i < place THEN i ELSE i + 1]
    <2>1. CASE i < place
        BY <1>1, <1>2, <1>4, <2>1
    <2>2. CASE ~(i < place)
        <3>1. i - place + 1 \in 1 .. Len(list) - place /\ place + (i - place + 1) = i + 1
            BY <1>1, <1>4, <2>2
        <3>2. QED BY <1>1, <1>2, <1>4, <2>2, <3>1
    <2>3. QED BY <2>1, <2>2
<1>6. ASSUME NEW i \in 1 .. Len(less), NEW j \in 1 .. Len(less), less[i].name = less[j].name
      PROVE  i = j
    <2>1. (IF i < place THEN i ELSE i + 1) = (IF j < place THEN j ELSE j + 1)
        BY <1>5, <1>6 DEF Lists
    <2>2. QED BY <1>1, <1>4, <2>1
<1>7. QED BY <1>4, <1>5, <1>6 DEF Lists, less

\* A configuration that the device accepts has each name once.
LEMMA AcceptedLists ==
    ASSUME NEW list \in Configurations, Accepted(list)
    PROVE  Lists(list)
<1>1. list \in Seq(Known) /\ Len(list) \in Nat /\ DOMAIN list = 1 .. Len(list)
    <2>1. list \in Seq(Range(list)) /\ Range(list) \subseteq Known
        BY InterfaceAssumption DEF Known
    <2>2. \A i \in 1 .. Len(list) : list[i] \in Known
        BY <2>1, LenProperties, ElementOfSeq
    <2>3. QED BY <2>1, <2>2, LenProperties, SeqDef
<1>2. ASSUME NEW i \in 1 .. Len(list), NEW j \in 1 .. Len(list), i < j
      PROVE  list[i].name # list[j].name
    <2> DEFINE part == SubSeq(list, 1, j - 1)
               places == {k \in DOMAIN part : part[k].name = list[j].name}
    <2>1. DOMAIN part = 1 .. j - 1 /\ i \in 1 .. j - 1 /\ part[i] = list[i]
        BY <1>1, <1>2
    <2>2. Find(part, list[j].name) = 0
        BY <1>1 DEF Accepted, CanAdd
    <2>3. CASE places = {}
        BY <2>1, <2>3
    <2>4. CASE places # {}
        <3>1. Find(part, list[j].name) = LeastOf(places)
            BY <2>4 DEF Find
        <3>2. places \in SUBSET Nat /\ 0 \notin places
            BY <2>1
        <3>3. LeastOf(places) \in places
            <4> HIDE DEF places
            <4>1. QED BY <2>4, <3>2, LeastOfIs
        <3> HIDE DEF places, part
        <3>4. QED BY <2>2, <3>1, <3>2, <3>3
    <2>5. QED BY <2>3, <2>4
<1>3. ASSUME NEW i \in 1 .. Len(list), NEW j \in 1 .. Len(list), list[i].name = list[j].name
      PROVE  i = j
    <2>1. i < j \/ j < i \/ i = j
        BY <1>1
    <2>2. QED BY <1>2, <1>3, <2>1
<1>4. QED BY <1>1, <1>3 DEF Lists

\* The introspection, whatever is added, updated and removed.
Listed == Lists(introspection)

\* What an update does: nothing, or a new interface, or one in the place of an older.
LEMMA UpdateIs ==
    ASSUME Listed, NEW new \in Known
    PROVE  LET list == UpdateInterface(introspection, new)
           IN  \/ list = introspection
               \/ /\ list = Append(introspection, new)
                  /\ Find(introspection, new.name) = 0
               \/ \E place \in 1 .. Len(introspection) :
                    /\ introspection[place].name = new.name
                    /\ CanReplace(introspection[place], new)
                    /\ list = [introspection EXCEPT ![place] = new]
<1>1. PICK place : place = Find(introspection, new.name)
    OBVIOUS
<1>2. \/ place = 0
      \/ place \in 1 .. Len(introspection) /\ introspection[place].name = new.name
    BY <1>1, FindIs DEF Listed
<1>3. QED BY <1>1, <1>2 DEF UpdateInterface

LEMMA ListedInit == Init => Listed
BY AcceptedLists DEF Init, Listed

LEMMA ListedStep == Listed /\ [Next]_vars => Listed'
<1> SUFFICES ASSUME Listed, [Next]_vars PROVE Listed'
    OBVIOUS
<1>1. ASSUME NEW new \in Changes, AddOperation(new) PROVE Listed'
    <2>1. new \in Known /\ introspection' = UpdateInterface(introspection, new)
        BY <1>1 DEF Known, AddOperation
    <2>2. Lists(UpdateInterface(introspection, new))
        <3>1. PICK old, list : old = introspection /\ list = UpdateInterface(introspection, new)
            OBVIOUS
        <3>2. Lists(old)
            BY <3>1 DEF Listed
        <3>3. CASE list = Append(old, new) /\ Find(old, new.name) = 0
            BY <2>1, <3>2, <3>3, <3>1, AppendLists
        <3>4. CASE \E place \in 1 .. Len(old) :
                    old[place].name = new.name /\ list = [old EXCEPT ![place] = new]
            <4>1. PICK place \in 1 .. Len(old) :
                    old[place].name = new.name /\ list = [old EXCEPT ![place] = new]
                BY <3>4
            <4>2. Lists(list)
                BY <2>1, <3>2, <4>1, ReplaceLists
            <4>3. QED BY <3>1, <4>2
        <3>5. CASE list = old
            BY <3>1, <3>2, <3>5
        <3>6. QED BY <2>1, <3>1, <3>3, <3>4, <3>5, UpdateIs
    <2>3. QED BY <2>1, <2>2 DEF Listed
<1>2. ASSUME NEW name, RemoveOperation(name) PROVE Listed'
    <2>1. PICK place : place = Find(introspection, name)
        OBVIOUS
    <2>2. place = 0 \/ place \in 1 .. Len(introspection)
        BY <2>1, FindIs DEF Listed
    <2>3. introspection' = IF place = 0 THEN introspection ELSE RemoveAt(introspection, place)
        BY <1>2, <2>1 DEF RemoveOperation, RemoveInterface
    <2>4. QED BY <2>2, <2>3, RemoveLists DEF Listed
<1>3. CASE UNCHANGED introspection
    BY <1>3 DEF Listed
<1>4. ASSUME ~ UNCHANGED introspection
      PROVE  \/ \E new \in Changes : AddOperation(new)
             \/ \E new \in Changes : RemoveOperation(new.name)
    BY <1>4 DEF Next, vars, Receive, Return, GetEvent, EventCleanup, SendIndividual, SendObject,
                AstarteSends, Switch
<1>5. QED BY <1>1, <1>2, <1>3, <1>4

\* The introspection never has two interfaces of one name.
LEMMA ListedHolds == Spec => []Listed
BY ListedInit, ListedStep, PTL DEF Spec

\* What Astarte may rely on when old gives way to new.
Grows(old, new) ==
    /\ new.major > old.major \/ (new.major = old.major /\ new.minor > old.minor)
    /\ \A m \in Range(old.mappings) : \E n \in Range(new.mappings) :
            n.endpoint = m.endpoint /\ n.type = m.type /\ n.explicit = m.explicit

\* check_interface_update and check_interface_mappings_update ensure it.
LEMMA ReplacedGrows ==
    ASSUME NEW old \in Known, NEW new \in Known, CanReplace(old, new)
    PROVE  Grows(old, new)
<1>1. /\ old.major \in Nat /\ new.major \in Nat /\ new.type = "datastream"
      /\ old.mappings \in Seq(Range(old.mappings)) /\ new.mappings \in Seq(Range(new.mappings))
    BY InterfaceAssumption DEF Known
<1>2. new.major > old.major \/ (new.major = old.major /\ new.minor > old.minor)
    BY <1>1 DEF CanReplace
<1>3. ASSUME NEW m \in Range(old.mappings)
      PROVE  \E n \in Range(new.mappings) :
                n.endpoint = m.endpoint /\ n.type = m.type /\ n.explicit = m.explicit
    <2>1. PICK i \in DOMAIN old.mappings : old.mappings[i] = m
        BY DEF Range
    <2> DEFINE same == {j \in DOMAIN new.mappings : new.mappings[j].endpoint = m.endpoint}
    <2>2. same # {} /\ SameAttributes(new, m, new.mappings[LeastOf(same)])
        BY <2>1 DEF CanReplace, MappingsStay
    <2>3. same \in SUBSET Nat
        BY <1>1, LenProperties
    <2>4. LeastOf(same) \in same
        <3> HIDE DEF same
        <3>1. QED BY <2>2, <2>3, LeastOfIs
    <2>5. QED BY <1>1, <2>2, <2>4 DEF SameAttributes, Range
<1>4. QED BY <1>2, <1>3 DEF Grows

\* As long as an interface is listed its version only goes up, and its endpoints
\* keep their types: introspection_update lets nothing else through.
THEOREM InterfacesOnlyGrow == Spec => InterfacesGrow
<1> DEFINE Step == \A old \in Range(introspection), new \in Range(introspection') :
            old.name = new.name /\ old # new => Grows(old, new)
<1>1. ASSUME Listed, [Next]_vars PROVE [Step]_vars
    <2>0. /\ Range(introspection) \subseteq Known
          /\ \A old \in Range(introspection) :
                \E i \in 1 .. Len(introspection) : introspection[i] = old
          /\ DOMAIN introspection = 1 .. Len(introspection) /\ Len(introspection) \in Nat
          /\ \A i, j \in 1 .. Len(introspection) :
                introspection[i].name = introspection[j].name => i = j
        <3>1. introspection \in Seq(Known)
            BY <1>1 DEF Listed, Lists
        <3>2. DOMAIN introspection = 1 .. Len(introspection) /\ Len(introspection) \in Nat
            BY <3>1, LenProperties
        <3>3. \A i \in 1 .. Len(introspection) : introspection[i] \in Known
            BY <3>1, ElementOfSeq
        <3>4. QED BY <1>1, <3>2, <3>3 DEF Range, Listed, Lists
    <2>1. ASSUME NEW old \in Range(introspection), NEW new \in Range(introspection'),
                 old.name = new.name, old # new
          PROVE  Grows(old, new)
        <3>1. PICK i \in 1 .. Len(introspection) : introspection[i] = old
            BY <2>0
        <3>2. PICK j \in DOMAIN introspection' : introspection'[j] = new
            BY DEF Range
        <3>3. ASSUME NEW k \in 1 .. Len(introspection), introspection[k] = new PROVE FALSE
            BY <2>0, <2>1, <3>1, <3>3
        <3>4. ASSUME NEW change \in Changes, AddOperation(change) PROVE Grows(old, new)
            <4>1. change \in Known /\ introspection' = UpdateInterface(introspection, change)
                BY <3>4 DEF Known, AddOperation
            <4>2. CASE introspection' = introspection
                BY <2>0, <3>2, <3>3, <4>2
            <4>3. CASE /\ introspection' = Append(introspection, change)
                       /\ Find(introspection, change.name) = 0
                <5>1. j \in 1 .. Len(introspection) \/ new = change
                    BY <1>1, <2>0, <3>2, <4>1, <4>3, AppendProperties DEF Listed, Lists
                <5>2. j \in 1 .. Len(introspection) => introspection[j] = new
                    BY <1>1, <3>2, <4>1, <4>3, AppendProperties DEF Listed, Lists
                <5>3. new = change
                    BY <3>3, <5>1, <5>2
                <5>4. \A k \in 1 .. Len(introspection) : introspection[k].name # change.name
                    <6>1. Find(introspection, change.name) \notin 1 .. Len(introspection)
                        BY <2>0, <4>3
                    <6>2. QED BY <1>1, <6>1, FindIs DEF Listed
                <5>5. QED BY <2>1, <3>1, <5>3, <5>4
            <4>4. CASE \E place \in 1 .. Len(introspection) :
                        /\ introspection[place].name = change.name
                        /\ CanReplace(introspection[place], change)
                        /\ introspection' = [introspection EXCEPT ![place] = change]
                <5>1. PICK place \in 1 .. Len(introspection) :
                        /\ introspection[place].name = change.name
                        /\ CanReplace(introspection[place], change)
                        /\ introspection' = [introspection EXCEPT ![place] = change]
                    BY <4>4
                <5>2. /\ j \in 1 .. Len(introspection)
                      /\ new = IF j = place THEN change ELSE introspection[j]
                    BY <2>0, <3>2, <5>1
                <5>3. j = place /\ new = change
                    BY <3>3, <5>2
                <5>4. i = place
                    BY <2>0, <2>1, <3>1, <5>1, <5>3
                <5>5. QED BY <2>0, <3>1, <4>1, <5>1, <5>3, <5>4, ReplacedGrows
            <4>5. QED BY <1>1, <4>1, <4>2, <4>3, <4>4, UpdateIs
        <3>5. ASSUME NEW name, RemoveOperation(name) PROVE Grows(old, new)
            <4>1. PICK place : place = Find(introspection, name)
                OBVIOUS
            <4>2. place = 0 \/ place \in 1 .. Len(introspection)
                BY <1>1, <4>1, FindIs DEF Listed
            <4>3. introspection' = IF place = 0 THEN introspection
                                   ELSE RemoveAt(introspection, place)
                BY <3>5, <4>1 DEF RemoveOperation, RemoveInterface
            <4>4. CASE place = 0
                BY <2>0, <3>2, <3>3, <4>3, <4>4
            <4>5. CASE place \in 1 .. Len(introspection) /\ place # 0
                <5>1. introspection' = RemoveAt(introspection, place)
                    BY <4>3, <4>5
                <5>2. Lists(RemoveAt(introspection, place))
                    BY <1>1, <4>5, RemoveLists DEF Listed
                <5>3. j \in 1 .. Len(RemoveAt(introspection, place))
                    BY <3>2, <5>1, <5>2, LenProperties DEF Lists
                <5>4. PICK k \in 1 .. Len(introspection) : introspection[k] = new
                    BY <1>1, <3>2, <4>5, <5>1, <5>3, RemoveLists DEF Listed
                <5>5. QED BY <3>3, <5>4
            <4>6. QED BY <4>2, <4>4, <4>5
        <3>6. CASE UNCHANGED introspection
            BY <2>0, <3>2, <3>3, <3>6
        <3>7. ASSUME ~ UNCHANGED introspection
              PROVE  \/ \E change \in Changes : AddOperation(change)
                     \/ \E change \in Changes : RemoveOperation(change.name)
            BY <1>1, <3>7 DEF Next, vars, Receive, Return, GetEvent, EventCleanup, SendIndividual,
                              SendObject, AstarteSends, Switch
        <3>8. QED BY <3>4, <3>5, <3>6, <3>7
    <2>2. QED BY <2>1
<1>2. Listed /\ [Next]_vars => [Step]_vars
    BY <1>1
<1>3. Spec => [][Step]_vars
    <2> HIDE DEF Step
    <2>1. QED BY <1>2, ListedHolds, PTL DEF Spec
<1>4. QED BY <1>3 DEF InterfacesGrow, Grows

-----------------------------------------------------------------------------
(* Its text. *)

\* The digits d[k] of the numbers up to n.
Prints(d, n) ==
    \A k \in 0 .. n : d[k] = IF k > 9 THEN Append(d[k \div 10], 48 + (k % 10)) ELSE <<48 + k>>

LEMMA DigitsExist ==
    ASSUME NEW n \in Nat
    PROVE  \E d \in [0 .. n -> Seq(Nat)] : Prints(d, n)
<1> DEFINE G == {m \in 0 .. n : \E d \in [0 .. m -> Seq(Nat)] : Prints(d, m)}
<1>1. 0 \in G
    <2> DEFINE d == [k \in 0 .. 0 |-> <<48>>]
    <2>1. d \in [0 .. 0 -> Seq(Nat)]
        OBVIOUS
    <2>2. Prints(d, 0)
        BY DEF Prints
    <2>3. QED BY <2>1, <2>2
<1>2. ASSUME NEW m \in 1 .. n, m - 1 \in G PROVE m \in G
    <2>1. PICK d \in [0 .. m - 1 -> Seq(Nat)] : Prints(d, m - 1)
        BY <1>2
    <2> DEFINE last == IF m > 9 THEN Append(d[m \div 10], 48 + (m % 10)) ELSE <<48 + m>>
               c == [k \in 0 .. m |-> IF k = m THEN last ELSE d[k]]
    <2>2. m > 9 => m \div 10 \in 0 .. m - 1
        OBVIOUS
    <2>3. last \in Seq(Nat)
        <3>1. CASE m > 9
            <4>1. d[m \div 10] \in Seq(Nat) /\ 48 + (m % 10) \in Nat
                BY <2>2, <3>1
            <4>2. QED BY <3>1, <4>1, AppendProperties
        <3>2. CASE ~(m > 9)
            BY <3>2
        <3>3. QED BY <3>1, <3>2
    <2>4. c[m] = last /\ \A k \in 0 .. m - 1 : k \in 0 .. m /\ c[k] = d[k]
        OBVIOUS
    <2>5. c \in [0 .. m -> Seq(Nat)]
        <3> HIDE DEF last
        <3>1. QED BY <2>3
    <2> HIDE DEF c
    <2>6. ASSUME NEW k \in 0 .. m
          PROVE  c[k] = IF k > 9 THEN Append(c[k \div 10], 48 + (k % 10)) ELSE <<48 + k>>
        <3>1. k > 9 => k \div 10 \in 0 .. k - 1
            OBVIOUS
        <3>2. CASE k = m
            <4>1. m > 9 => c[m \div 10] = d[m \div 10]
                BY <2>2, <2>4
            <4>2. QED BY <2>4, <3>2, <4>1
        <3>3. CASE k # m
            <4>1. k \in 0 .. m - 1 /\ (k > 9 => k \div 10 \in 0 .. m - 1)
                BY <3>1, <3>3
            <4>2. d[k] = IF k > 9 THEN Append(d[k \div 10], 48 + (k % 10)) ELSE <<48 + k>>
                BY <2>1, <4>1 DEF Prints
            <4>3. QED BY <2>4, <4>1, <4>2
        <3>4. QED BY <3>2, <3>3
    <2>7. Prints(c, m)
        BY <2>6 DEF Prints
    <2>8. QED BY <2>5, <2>7
<1> HIDE DEF G
<1>3. 0 .. n \subseteq G
    BY <1>1, <1>2, AllUpTo
<1>4. QED BY <1>3 DEF G

\* get_digit_count gives the number of digits that are printed.
LEMMA DigitsCounted ==
    ASSUME NEW n \in Nat
    PROVE  Digits(n) \in Seq(Nat) /\ DigitCount(n) = Len(Digits(n)) /\ Len(Digits(n)) \in Nat
<1>1. PICK d \in [0 .. n -> Seq(Nat)] : Prints(d, n)
    BY DigitsExist
<1> DEFINE Ds(c) == [k \in 0 .. n |->
                        IF k > 9 THEN Append(c[k \div 10], 48 + (k % 10)) ELSE <<48 + k>>]
           Cs(c) == [k \in 0 .. n |-> IF k > 9 THEN 1 + c[k \div 10] ELSE 1]
           digits == CHOOSE c : c = Ds(c)
           count == CHOOSE c : c = Cs(c)
           lengths == [k \in 0 .. n |-> Len(d[k])]
<1>2. \A k \in 0 .. n : k > 9 => k \div 10 \in 0 .. n /\ k \div 10 < k
    OBVIOUS
<1>3. d = Ds(d)
    <2>1. d = [k \in 0 .. n |-> d[k]]
        OBVIOUS
    <2>2. QED BY <1>1, <2>1 DEF Prints
<1>4. digits = Ds(digits)
    <2> HIDE DEF Ds
    <2>1. QED BY <1>3
<1>5. lengths = Cs(lengths)
    <2>1. ASSUME NEW k \in 0 .. n
          PROVE  lengths[k] = IF k > 9 THEN 1 + lengths[k \div 10] ELSE 1
        <3>1. d[k] = IF k > 9 THEN Append(d[k \div 10], 48 + (k % 10)) ELSE <<48 + k>>
            BY <1>1 DEF Prints
        <3>2. CASE k > 9
            <4>1. PICK t : t = d[k \div 10]
                OBVIOUS
            <4>2. t \in Seq(Nat) /\ 48 + (k % 10) \in Nat
                BY <1>2, <3>2, <4>1
            <4>3. Len(Append(t, 48 + (k % 10))) = 1 + Len(t)
                BY <4>2, AppendProperties, LenProperties
            <4>4. k \div 10 \in 0 .. n
                BY <1>2, <3>2
            <4>5. QED BY <3>1, <3>2, <4>1, <4>3, <4>4
        <3>3. CASE ~(k > 9)
            BY <3>1, <3>3
        <3>4. QED BY <3>2, <3>3
    <2>2. lengths = [k \in 0 .. n |-> lengths[k]]
        OBVIOUS
    <2> HIDE DEF lengths
    <2>3. QED BY <2>1, <2>2
<1>6. count = Cs(count)
    <2> HIDE DEF Cs, lengths
    <2>1. QED BY <1>5
<1> HIDE DEF digits, count
<1> DEFINE Bad == {k \in 0 .. n : digits[k] # d[k] \/ count[k] # Len(d[k])}
<1>7. ASSUME Bad # {} PROVE FALSE
    <2>1. PICK k \in Bad : \A j \in Bad : k <= j
        <3>1. Bad \in SUBSET Nat
            OBVIOUS
        <3> HIDE DEF Bad
        <3>2. QED BY <1>7, <3>1, LeastExists
    <2>2. PICK e, c : e = digits /\ c = count
        OBVIOUS
    <2>3. e = Ds(e) /\ c = Cs(c)
        BY <1>4, <1>6, <2>2
    <2>4. k \in 0 .. n
        OBVIOUS
    <2>5. /\ e[k] = IF k > 9 THEN Append(e[k \div 10], 48 + (k % 10)) ELSE <<48 + k>>
          /\ c[k] = IF k > 9 THEN 1 + c[k \div 10] ELSE 1
        BY <2>3, <2>4
    <2>6. d[k] = IF k > 9 THEN Append(d[k \div 10], 48 + (k % 10)) ELSE <<48 + k>>
        BY <1>1, <2>4 DEF Prints
    <2>7. lengths[k] = IF k > 9 THEN 1 + lengths[k \div 10] ELSE 1
        <3>1. PICK x : x = lengths
            OBVIOUS
        <3>2. x = Cs(x)
            BY <1>5, <3>1
        <3>3. x[k] = IF k > 9 THEN 1 + x[k \div 10] ELSE 1
            BY <2>4, <3>2
        <3>4. QED BY <3>1, <3>3
    <2>8. k > 9 => e[k \div 10] = d[k \div 10] /\ c[k \div 10] = lengths[k \div 10]
        <3>1. k > 9 => k \div 10 \in 0 .. n /\ ~(k <= k \div 10)
            BY <1>2, <2>4
        <3>2. k > 9 => k \div 10 \notin Bad
            BY <2>1, <3>1
        <3>3. QED BY <2>2, <3>1, <3>2
    <2>9. e[k] = d[k] /\ c[k] = lengths[k]
        <3> HIDE DEF lengths, Bad
        <3>1. QED BY <2>5, <2>6, <2>7, <2>8
    <2>10. QED BY <2>1, <2>2, <2>4, <2>9
<1>8. digits[n] = d[n] /\ count[n] = Len(d[n])
    BY <1>7
<1>9. Digits(n) = digits[n] /\ DigitCount(n) = count[n]
    BY DEF Digits, DigitCount, digits, count
<1>10. d[n] \in Seq(Nat) /\ Len(d[n]) \in Nat
    BY <1>1, LenProperties
<1>11. QED BY <1>8, <1>9, <1>10

\* A function that goes up with every step is largest at the end.
Rises(g, n) == \A i \in 1 .. n : g[i - 1] < g[i]

LEMMA RisesToTheLast ==
    ASSUME NEW n \in Nat, NEW g \in [0 .. n -> Nat], Rises(g, n)
    PROVE  \A i \in 0 .. n : i # n => g[i] < g[n]
<1> DEFINE G == {k \in 0 .. n : \A i \in 0 .. k : i # k => g[i] < g[k]}
<1>1. 0 \in G
    OBVIOUS
<1>2. ASSUME NEW k \in 1 .. n, k - 1 \in G PROVE k \in G
    <2>1. g[k - 1] < g[k] /\ g[k - 1] \in Nat /\ g[k] \in Nat
        BY DEF Rises
    <2>2. ASSUME NEW i \in 0 .. k, i # k PROVE g[i] < g[k]
        <3>1. i \in 0 .. k - 1 /\ g[i] \in Nat
            BY <2>2
        <3>2. i # k - 1 => g[i] < g[k - 1]
            BY <1>2, <3>1
        <3>3. QED BY <2>1, <3>1, <3>2
    <2>3. QED BY <2>2
<1> HIDE DEF G
<1>3. 0 .. n \subseteq G
    BY <1>1, <1>2, AllUpTo
<1>4. n \in G
    BY <1>3
<1>5. QED BY <1>4 DEF G

LEMMA PrintedIs ==
    ASSUME NEW interface \in Known
    PROVE  /\ Printed(interface) \in Seq(Nat)
           /\ Len(Printed(interface)) = Len(interface.name) + DigitCount(interface.major)
                                            + DigitCount(interface.minor) + 3
           /\ Len(Printed(interface)) \in Nat /\ Len(Printed(interface)) > 2
<1>1. interface.name \in Seq(Nat) /\ interface.major \in Nat /\ interface.minor \in Nat
    BY InterfaceAssumption DEF Known
<1>2. PICK name, major, minor, a, b :
        /\ name = interface.name /\ major = Digits(interface.major)
        /\ minor = Digits(interface.minor)
        /\ a = DigitCount(interface.major) /\ b = DigitCount(interface.minor)
    OBVIOUS
<1>3. /\ name \in Seq(Nat) /\ major \in Seq(Nat) /\ minor \in Seq(Nat)
      /\ a = Len(major) /\ b = Len(minor) /\ a \in Nat /\ b \in Nat
      /\ Len(name) \in Nat
    BY <1>1, <1>2, DigitsCounted, LenProperties
<1>4. Printed(interface) = name \o <<58>> \o major \o <<58>> \o minor \o <<59>>
    BY <1>2 DEF Printed
<1>5. /\ name \o <<58>> \o major \o <<58>> \o minor \o <<59>> \in Seq(Nat)
      /\ Len(name \o <<58>> \o major \o <<58>> \o minor \o <<59>>) = Len(name) + a + b + 3
    BY <1>3
<1>6. PICK text : text = Printed(interface)
    OBVIOUS
<1>7. /\ text \in Seq(Nat) /\ Len(text) = Len(name) + a + b + 3
      /\ Len(text) \in Nat /\ Len(text) > 2
    <2>1. text \in Seq(Nat) /\ Len(text) = Len(name) + a + b + 3
        BY <1>4, <1>5, <1>6
    <2>2. QED BY <1>3, <2>1
<1>8. Len(name) = Len(interface.name)
    BY <1>2
<1>9. QED BY <1>2, <1>6, <1>7, <1>8

\* The buffer holds the text of the introspection up to its last separator.
LEMMA TextFits == ASSUME Listed PROVE IntrospectionFits
<1> DEFINE n == Len(introspection)
           list == [i \in DOMAIN introspection |-> Printed(introspection[i])]
<1>1. /\ n \in Nat /\ DOMAIN introspection = 1 .. n
      /\ \A i \in 1 .. n : introspection[i] \in Known
    BY LenProperties, ElementOfSeq DEF Listed, Lists
<1>2. /\ list \in Seq(Seq(Nat)) /\ Len(list) = n
      /\ \A i \in 1 .. n : list[i] = Printed(introspection[i])
    <2>1. \A i \in 1 .. n : Printed(introspection[i]) \in Seq(Nat)
        BY <1>1, PrintedIs
    <2>2. QED BY <1>1, <2>1
<1> HIDE DEF list
<1>3. PICK f \in [0 .. n -> Seq(Nat)] : Joins(f, list) /\ FlattenSeq(list) = f[n]
    BY <1>2, FlattenIs
<1>4. ASSUME NEW i \in 1 .. n
      PROVE  /\ i \in 0 .. n /\ i - 1 \in 0 .. n /\ f[i - 1] \in Seq(Nat) /\ f[i] \in Seq(Nat)
             /\ f[i] = f[i - 1] \o Printed(introspection[i])
             /\ Len(f[i]) = Len(f[i - 1]) + Len(Printed(introspection[i]))
             /\ Len(f[i]) \in Nat /\ Len(f[i - 1]) \in Nat
             /\ Len(f[i - 1]) + 2 < Len(f[i])
    <2>1. i \in 0 .. n /\ i - 1 \in 0 .. n
        BY <1>1
    <2>2. f[i - 1] \in Seq(Nat) /\ f[i] \in Seq(Nat)
        BY <2>1
    <2>3. f[i] = f[i - 1] \o Printed(introspection[i])
        BY <1>2, <1>3 DEF Joins
    <2>4. PICK x, y : x = f[i - 1] /\ y = Printed(introspection[i])
        OBVIOUS
    <2>5. x \in Seq(Nat) /\ y \in Seq(Nat) /\ Len(y) > 2
        BY <1>1, <2>2, <2>4, PrintedIs
    <2>6. Len(x \o y) = Len(x) + Len(y) /\ Len(x) \in Nat /\ Len(y) \in Nat
        BY <2>5
    <2>7. QED BY <2>1, <2>2, <2>3, <2>4, <2>5, <2>6
<1>5. f[0] = <<>>
    BY <1>3 DEF Joins
<1> DEFINE Sizes(v) == [i \in 0 .. n |->
                IF i = 0 THEN 0
                ELSE v[i - 1] + Len(introspection[i].name) + DigitCount(introspection[i].major)
                        + DigitCount(introspection[i].minor) + 3]
           size == CHOOSE v : v = Sizes(v)
           lengths == [i \in 0 .. n |-> Len(f[i])]
<1>6. lengths = Sizes(lengths)
    <2>1. ASSUME NEW i \in 0 .. n
          PROVE  lengths[i] = IF i = 0 THEN 0
                              ELSE lengths[i - 1] + Len(introspection[i].name)
                                    + DigitCount(introspection[i].major)
                                    + DigitCount(introspection[i].minor) + 3
        <3>1. CASE i = 0
            BY <1>5, <3>1, EmptySeq
        <3>2. CASE i # 0
            <4>1. i \in 1 .. n /\ i - 1 \in 0 .. n
                BY <1>1, <3>2
            <4>2. lengths[i] = Len(f[i - 1]) + Len(Printed(introspection[i]))
                BY <1>4, <4>1
            <4>3. lengths[i - 1] = Len(f[i - 1]) /\ Len(f[i - 1]) \in Nat
                BY <1>4, <4>1
            <4>4. PICK a, b, c, x, y : /\ a = Len(introspection[i].name)
                                       /\ b = DigitCount(introspection[i].major)
                                       /\ c = DigitCount(introspection[i].minor)
                                       /\ x = Len(f[i - 1])
                                       /\ y = Len(Printed(introspection[i]))
                OBVIOUS
            <4>5. a \in Nat /\ b \in Nat /\ c \in Nat /\ x \in Nat /\ y = a + b + c + 3
                <5>1. introspection[i] \in Known
                    BY <1>1, <4>1
                <5>2. /\ introspection[i].name \in Seq(Nat)
                      /\ introspection[i].major \in Nat /\ introspection[i].minor \in Nat
                    BY <5>1, InterfaceAssumption DEF Known
                <5>3. b \in Nat /\ c \in Nat
                    BY <4>4, <5>2, DigitsCounted
                <5>4. a \in Nat
                    BY <4>4, <5>2, LenProperties
                <5>5. QED BY <4>3, <4>4, <5>1, <5>3, <5>4, PrintedIs
            <4>6. x + y = x + a + b + c + 3
                BY <4>5
            <4>7. QED BY <3>2, <4>2, <4>3, <4>4, <4>6
        <3>3. QED BY <3>1, <3>2
    <2>2. lengths = [i \in 0 .. n |-> lengths[i]]
        OBVIOUS
    <2> HIDE DEF lengths
    <2>3. QED BY <2>1, <2>2
<1>7. size = Sizes(size)
    <2> HIDE DEF Sizes, lengths
    <2>1. QED BY <1>6
<1> HIDE DEF size
<1>8. size[n] = Len(f[n])
    <2>1. PICK s, v, m : s = size /\ v = lengths /\ m = n
        OBVIOUS
    <2>2. s = Sizes(s) /\ v = Sizes(v)
        <3> HIDE DEF Sizes, lengths
        <3>1. QED BY <1>6, <1>7, <2>1
    <2>3. Alike(s, v, m)
        <3>1. s[0] = 0 /\ v[0] = 0
            BY <1>1, <2>2
        <3>2. ASSUME NEW i \in 1 .. m, s[i - 1] = v[i - 1] PROVE s[i] = v[i]
            <4>1. i \in 0 .. n /\ i # 0
                BY <1>1, <2>1
            <4>2. s[i] = Sizes(s)[i] /\ v[i] = Sizes(v)[i]
                BY <2>2
            <4>3. QED BY <3>2, <4>1, <4>2
        <3>3. QED BY <3>1, <3>2 DEF Alike
    <2>4. m \in Nat /\ m \in 0 .. m
        BY <1>1, <2>1
    <2>5. s[m] = v[m]
        BY <2>3, <2>4, IteratesOnce
    <2>6. lengths[n] = Len(f[n])
        BY <1>1
    <2>7. QED BY <2>1, <2>5, <2>6
<1>9. StringSize(introspection) = IF introspection = <<>> THEN 1 ELSE size[n]
    BY DEF StringSize, size
<1>10. /\ \A i \in 1 .. n : i - 1 \in 0 .. n /\ i - 1 # n /\ i \in 0 .. n /\ i # 0 /\ n # 0
       /\ \A i \in 0 .. n : i # 0 => i \in 1 .. n
       /\ n \in 0 .. n
    <2>1. PICK m : m = n
        OBVIOUS
    <2>2. m \in Nat
        BY <1>1, <2>1
    <2>3. /\ \A i \in 1 .. m : i - 1 \in 0 .. m /\ i - 1 # m /\ i \in 0 .. m /\ i # 0 /\ m # 0
          /\ \A i \in 0 .. m : i # 0 => i \in 1 .. m
          /\ m \in 0 .. m
        BY <2>2
    <2>4. QED BY <2>1, <2>3
<1>11. \A i \in 0 .. n : i # n => Len(f[i]) < Len(f[n])
    <2>1. lengths \in [0 .. n -> Nat] /\ \A i \in 0 .. n : lengths[i] = Len(f[i])
        <3>1. \A i \in 0 .. n : Len(f[i]) \in Nat
            BY <1>3, LenProperties
        <3>2. QED BY <3>1
    <2>2. \A i \in 1 .. n : lengths[i - 1] < lengths[i]
        <3>1. ASSUME NEW i \in 1 .. n PROVE lengths[i - 1] < lengths[i]
            <4>1. PICK x, y : x = Len(f[i - 1]) /\ y = Len(f[i])
                OBVIOUS
            <4>2. x \in Nat /\ y \in Nat /\ x + 2 < y
                BY <1>4, <4>1
            <4>3. x < y
                BY <4>2
            <4>4. lengths[i - 1] = x /\ lengths[i] = y
                BY <1>4, <2>1, <4>1
            <4>5. QED BY <4>3, <4>4
        <3>2. QED BY <3>1
    <2> HIDE DEF lengths
    <2>3. PICK m, g : m = n /\ g = lengths
        OBVIOUS
    <2>4. m \in Nat /\ g \in [0 .. m -> Nat] /\ Rises(g, m)
        BY <1>1, <2>1, <2>2, <2>3 DEF Rises
    <2>5. \A i \in 0 .. m : i # m => g[i] < g[m]
        BY <2>4, RisesToTheLast
    <2>6. n \in 0 .. n
        BY <1>1
    <2>7. QED BY <2>1, <2>3, <2>5, <2>6
<1> DEFINE Part(v, i) == v[i - 1] \o Printed(introspection[i])
           Fills(v, s) == [i \in 0 .. n |->
                IF i = 0 THEN <<>>
                ELSE SubSeq(Part(v, i), 1, IF Len(Part(v, i)) < s THEN Len(Part(v, i)) ELSE s - 1)]
           filled(s) == CHOOSE v : v = Fills(v, s)
           whole == [i \in 0 .. n |->
                IF i = n /\ n # 0 THEN SubSeq(f[n], 1, Len(f[n]) - 1) ELSE f[i]]
<1>12. \A s : FillString(introspection, s) = filled(s)[n]
    BY DEF FillString
<1>13. PICK s : s = StringSize(introspection)
    OBVIOUS
<1>14. n # 0 => s = Len(f[n])
    <2>1. n # 0 => introspection # <<>>
        BY EmptySeq
    <2>2. QED BY <1>8, <1>9, <1>13, <2>1
<1>15. whole = Fills(whole, s)
    <2>1. ASSUME NEW i \in 1 .. n
          PROVE  whole[i] = SubSeq(Part(whole, i), 1,
                                   IF Len(Part(whole, i)) < s THEN Len(Part(whole, i)) ELSE s - 1)
        <3>1. whole[i - 1] = f[i - 1]
            BY <1>10
        <3>2. Part(whole, i) = f[i]
            BY <1>4, <3>1
        <3>3. n # 0 /\ i \in 0 .. n
            BY <1>10
        <3> HIDE DEF Part
        <3>4. CASE i = n
            <4>1. whole[n] = SubSeq(f[n], 1, Len(f[n]) - 1)
                BY <3>3, <3>4
            <4>2. PICK t, x : t = f[n] /\ x = Len(f[n])
                OBVIOUS
            <4>3. x \in Nat /\ s = x
                BY <1>4, <1>14, <3>3, <3>4, <4>2
            <4>4. ~(x < s)
                BY <4>3
            <4> HIDE DEF whole
            <4>5. QED BY <3>2, <3>4, <4>1, <4>2, <4>3, <4>4
        <3>5. CASE i # n
            <4>1. whole[i] = f[i]
                BY <3>3, <3>5
            <4>2. Len(f[i]) < s
                BY <1>11, <1>14, <3>3, <3>5
            <4>3. SubSeq(f[i], 1, Len(f[i])) = f[i]
                BY <1>4, SubSeqFull
            <4> HIDE DEF whole
            <4>4. QED BY <3>2, <4>1, <4>2, <4>3
        <3>6. QED BY <3>4, <3>5
    <2>2. whole[0] = <<>>
        BY <1>1, <1>5
    <2>3. whole = [i \in 0 .. n |-> whole[i]]
        OBVIOUS
    <2> HIDE DEF whole, Part
    <2>4. QED BY <1>10, <2>1, <2>2, <2>3
<1>16. PICK g : g = filled(s)
    OBVIOUS
<1>17. g = Fills(g, s)
    <2> HIDE DEF Fills, whole
    <2>1. QED BY <1>15, <1>16
<1>18. g[n] = whole[n]
    <2>1. PICK w, m : w = whole /\ m = n
        OBVIOUS
    <2>2. w = Fills(w, s)
        <3> HIDE DEF Fills, whole
        <3>1. QED BY <1>15, <2>1
    <2>3. \A v : v = Fills(v, s) =>
                /\ v[0] = <<>>
                /\ \A i \in 1 .. n : v[i] = SubSeq(Part(v, i), 1, IF Len(Part(v, i)) < s
                                                        THEN Len(Part(v, i)) ELSE s - 1)
        <3>1. ASSUME NEW v, v = Fills(v, s)
              PROVE  /\ v[0] = <<>>
                     /\ \A i \in 1 .. n : v[i] = SubSeq(Part(v, i), 1, IF Len(Part(v, i)) < s
                                                        THEN Len(Part(v, i)) ELSE s - 1)
            <4> HIDE DEF Part
            <4>1. \A i \in 0 .. n : Fills(v, s)[i] =
                        IF i = 0 THEN <<>>
                        ELSE SubSeq(Part(v, i), 1, IF Len(Part(v, i)) < s
                                                   THEN Len(Part(v, i)) ELSE s - 1)
                OBVIOUS
            <4>2. 0 \in 0 .. n /\ \A i \in 1 .. n : i \in 0 .. n /\ i # 0
                BY <1>1
            <4> HIDE DEF Fills
            <4>3. QED BY <3>1, <4>1, <4>2
        <3>2. QED BY <3>1
    <2>4. Alike(g, w, m)
        <3>1. g[0] = w[0]
            BY <1>17, <2>2, <2>3
        <3>2. ASSUME NEW i \in 1 .. m, g[i - 1] = w[i - 1] PROVE g[i] = w[i]
            <4>1. i \in 1 .. n
                BY <2>1
            <4>2. Part(g, i) = Part(w, i)
                BY <3>2
            <4> HIDE DEF Part, Fills
            <4>3. QED BY <1>17, <2>2, <2>3, <4>1, <4>2
        <3>3. QED BY <3>1, <3>2 DEF Alike
    <2> HIDE DEF whole, Fills
    <2>5. m \in Nat /\ m \in 0 .. m
        BY <1>1, <2>1
    <2>6. g[m] = w[m]
        BY <2>4, <2>5, IteratesOnce
    <2>7. QED BY <2>1, <2>6
<1>19. FillString(introspection, StringSize(introspection)) = whole[n]
    <2> HIDE DEF filled, whole
    <2>1. QED BY <1>12, <1>13, <1>16, <1>18
<1>20. whole[n] = IF f[n] = <<>> THEN <<>> ELSE SubSeq(f[n], 1, Len(f[n]) - 1)
    <2>1. CASE n = 0
        BY <1>5, <2>1
    <2>2. CASE n # 0
        <3>1. n \in 1 .. n /\ n \in 0 .. n
            BY <1>1, <2>2
        <3>2. f[n] # <<>>
            <4>1. PICK t, x : t = f[n] /\ x = Len(f[n - 1])
                OBVIOUS
            <4>2. x \in Nat /\ x + 2 < Len(t) /\ Len(t) \in Nat
                BY <1>4, <3>1, <4>1
            <4>3. Len(t) # 0
                BY <4>2
            <4>4. QED BY <4>1, <4>3, EmptySeq
        <3>3. QED BY <2>2, <3>1, <3>2
    <2>3. QED BY <2>1, <2>2
<1>21. FlattenSeq([i \in DOMAIN introspection |-> Printed(introspection[i])]) = f[n]
    BY <1>3 DEF list
<1> HIDE DEF whole, n
<1>22. QED BY <1>19, <1>20, <1>21 DEF IntrospectionFits

\* The buffer that introspection_get_string_size asks for holds all that
\* introspection_fill_string writes, whatever interfaces are listed.
THEOREM IntrospectionAlwaysFits == Spec => []IntrospectionFits
BY ListedHolds, TextFits, PTL

-----------------------------------------------------------------------------
(* What is serialized. *)

\* An element of a document: its type, its name and its value.
Element(type, name, value) == <<type>> \o name \o <<0>> \o value

LEMMA NumberIs ==
    ASSUME NEW n \in Int, NEW width \in {4, 8}
    PROVE  Number(n, width) \in Seq(Int) /\ Len(Number(n, width)) = width /\ Number(n, width)[1] = n
<1>1. [i \in 1 .. width - 1 |-> 0] \in Seq(Int) /\ Len([i \in 1 .. width - 1 |-> 0]) = width - 1
    OBVIOUS
<1>2. PICK zeros : zeros = [i \in 1 .. width - 1 |-> 0]
    OBVIOUS
<1>3. /\ <<n>> \o zeros \in Seq(Int) /\ Len(<<n>> \o zeros) = width
      /\ (<<n>> \o zeros)[1] = n
    BY <1>1, <1>2
<1>4. QED BY <1>2, <1>3 DEF Number

\* One sequence behind another, or two.
LEMMA Joined ==
    ASSUME NEW s \in Seq(Int), NEW t \in Seq(Int)
    PROVE  /\ s \o t \in Seq(Int) /\ Len(s \o t) = Len(s) + Len(t)
           /\ Len(s) \in Nat /\ Len(t) \in Nat /\ Len(s \o t) \in Nat
           /\ s # <<>> => s \o t # <<>> /\ (s \o t)[1] = s[1] /\ Len(s) > 0
<1>1. /\ s \o t \in Seq(Int) /\ Len(s \o t) = Len(s) + Len(t)
      /\ Len(s) \in Nat /\ Len(t) \in Nat
    OBVIOUS
<1>2. ASSUME s # <<>> PROVE s \o t # <<>> /\ (s \o t)[1] = s[1] /\ Len(s) > 0
    <2>1. Len(s) > 0
        BY <1>1, <1>2, EmptySeq
    <2>2. QED BY <2>1
<1>3. QED BY <1>1, <1>2

\* Where the parentheses are makes no difference.
Regroups(p, q, r) == p \o q \o r = p \o (q \o r)
LEMMA Regrouped ==
    ASSUME NEW p \in Seq(Int), NEW q \in Seq(Int), NEW r \in Seq(Int)
    PROVE  Regroups(p, q, r)
BY ConcatAssociative DEF Regroups

\* What is appended to a document is an element that comes behind it.
LEMMA ElementBehind ==
    ASSUME NEW b \in Seq(Int), NEW t \in Int, NEW name \in Seq(Int), NEW v \in Seq(Int), Len(v) # 0
    PROVE  /\ AppendElement(b, t, name, v) = b \o Element(t, name, v)
           /\ Element(t, name, v) \in Seq(Int) /\ Len(Element(t, name, v)) >= 3
           /\ Element(t, name, v)[1] = t
<1>1. <<t>> \in Seq(Int) /\ <<0>> \in Seq(Int) /\ Len(<<t>>) = 1 /\ Len(<<0>>) = 1 /\ <<t>>[1] = t
    OBVIOUS
<1>2. PICK x, z : x = <<t>> /\ z = <<0>>
    OBVIOUS
<1>3. PICK xn : xn = x \o name
    OBVIOUS
<1>4. PICK xnz : xnz = xn \o z
    OBVIOUS
<1>5. x \in Seq(Int) /\ z \in Seq(Int)
    BY <1>1, <1>2
<1>6. Len(x) = 1 /\ Len(z) = 1 /\ x[1] = t /\ x # <<>>
    BY <1>1, <1>2
<1>7. xn \in Seq(Int)
    BY <1>3, <1>5, Joined
<1>8. xnz \in Seq(Int)
    BY <1>4, <1>5, <1>7, Joined
<1>9. b \o x \o name = b \o xn
    <2>1. Regroups(b, x, name)
        BY <1>5, Regrouped
    <2>2. QED BY <1>3, <2>1 DEF Regroups
<1>10. b \o xn \o z = b \o xnz
    <2>1. Regroups(b, xn, z)
        BY <1>5, <1>7, Regrouped
    <2>2. QED BY <1>4, <2>1 DEF Regroups
<1>11. b \o xnz \o v = b \o (xnz \o v)
    <2>1. Regroups(b, xnz, v)
        BY <1>8, Regrouped
    <2>2. QED BY <2>1 DEF Regroups
<1>12. /\ Len(x \o name) = Len(x) + Len(name) /\ Len(name) \in Nat
       /\ x \o name # <<>> /\ (x \o name)[1] = x[1]
    <2>1. /\ Len(x \o name) = Len(x) + Len(name) /\ Len(name) \in Nat
          /\ x # <<>> => x \o name # <<>> /\ (x \o name)[1] = x[1]
        BY <1>5, Joined
    <2>2. QED BY <1>6, <2>1
<1>13. /\ Len(xn \o z) = Len(xn) + Len(z)
       /\ xn \o z # <<>> /\ (xn \o z)[1] = xn[1]
    <2>1. /\ Len(xn \o z) = Len(xn) + Len(z)
          /\ xn # <<>> => xn \o z # <<>> /\ (xn \o z)[1] = xn[1]
        BY <1>5, <1>7, Joined
    <2>2. QED BY <1>3, <1>12, <2>1
<1>14. /\ xnz \o v \in Seq(Int) /\ Len(xnz \o v) = Len(xnz) + Len(v) /\ (xnz \o v)[1] = xnz[1]
       /\ Len(v) \in Nat
    <2>1. /\ xnz \o v \in Seq(Int) /\ Len(xnz \o v) = Len(xnz) + Len(v) /\ Len(v) \in Nat
          /\ xnz # <<>> => (xnz \o v)[1] = xnz[1]
        BY <1>8, Joined
    <2>2. QED BY <1>4, <1>13, <2>1
<1>15. Len(xnz \o v) >= 3 /\ (xnz \o v)[1] = t
    <2>1. Len(xn) = 1 + Len(name) /\ xn[1] = t
        BY <1>3, <1>6, <1>12
    <2>2. Len(xnz) = Len(xn) + 1 /\ xnz[1] = t
        BY <1>4, <1>6, <1>13, <2>1
    <2>3. QED BY <1>12, <1>14, <2>1, <2>2
<1>16. AppendElement(b, t, name, v) = b \o x \o name \o z \o v /\ Element(t, name, v) = xnz \o v
    BY <1>2, <1>3, <1>4 DEF AppendElement, Element
<1>17. AppendElement(b, t, name, v) = b \o (xnz \o v)
    BY <1>9, <1>10, <1>11, <1>16
<1>18. QED BY <1>14, <1>15, <1>16, <1>17

\* The same, as one fact.
Behind(b, t, name, v) ==
    /\ AppendElement(b, t, name, v) = b \o Element(t, name, v)
    /\ Element(t, name, v) \in Seq(Int) /\ Len(Element(t, name, v)) >= 3
    /\ Element(t, name, v)[1] = t
LEMMA AllBehind ==
    \A b, name, v \in Seq(Int) : \A t \in Int : Len(v) # 0 => Behind(b, t, name, v)
<1>1. SUFFICES ASSUME NEW b \in Seq(Int), NEW name \in Seq(Int), NEW v \in Seq(Int), NEW t \in Int,
                      Len(v) # 0
               PROVE  Behind(b, t, name, v)
    OBVIOUS
<1> DEFINE e == Element(t, name, v)
<1>2. AppendElement(b, t, name, v) = b \o e
    BY <1>1, ElementBehind
<1>3. e \in Seq(Int) /\ Len(e) >= 3 /\ e[1] = t
    BY <1>1, ElementBehind
<1> HIDE DEF e
<1>4. QED BY <1>2, <1>3 DEF Behind, e

\* Scalars are written the way Astarte reads them.
LEMMA ScalarAppended ==
    ASSUME NEW b \in Seq(Int), NEW name \in Seq(Int), NEW type \in Scalars,
           NEW v \in ScalarValues(type)
    PROVE  LET typed == AstarteScalar(type, v, FALSE)
           IN  /\ AppendScalar(b, name, type, v) = b \o Element(typed[1], name, typed[2])
               /\ Element(typed[1], name, typed[2]) \in Seq(Int)
               /\ Len(Element(typed[1], name, typed[2])) >= 3
               /\ Element(typed[1], name, typed[2])[1] \in BsonTypes
<1> DEFINE typed == AstarteScalar(type, v, FALSE)
<1>1. ASSUME NEW t \in BsonTypes, NEW w \in Seq(Int), Len(w) # 0, typed = <<t, w>>,
             AppendScalar(b, name, type, v) = AppendElement(b, t, name, w)
      PROVE  /\ AppendScalar(b, name, type, v) = b \o Element(typed[1], name, typed[2])
             /\ Element(typed[1], name, typed[2]) \in Seq(Int)
             /\ Len(Element(typed[1], name, typed[2])) >= 3
             /\ Element(typed[1], name, typed[2])[1] \in BsonTypes
    <2> HIDE DEF typed
    <2>1. typed[1] = t /\ typed[2] = w
        BY <1>1
    <2>2. t \in Int /\ Len(w) # 0
        BY <1>1 DEF BsonTypes, Double, String, Document, Array, Binary, Boolean, DateTime, Int32, Int64
    <2>3. Element(typed[1], name, typed[2]) = Element(t, name, w)
        BY <2>1
    <2>4. /\ AppendElement(b, t, name, w) = b \o Element(t, name, w)
          /\ Element(t, name, w) \in Seq(Int) /\ Len(Element(t, name, w)) >= 3
          /\ Element(t, name, w)[1] = t
        <3>1. Behind(b, t, name, w)
            BY <2>2, AllBehind
        <3>2. QED BY <3>1 DEF Behind
    <2>5. QED BY <1>1, <2>3, <2>4
<1>2. type \in {"binaryblob", "boolean", "datetime", "double", "integer", "longinteger", "string"}
    BY DEF Scalars, ScalarBson
<1>3. CASE type \notin {"string", "binaryblob"}
    <2>1. v \in Int
        BY <1>3 DEF ScalarValues
    <2>2. /\ Number(v, 4) \in Seq(Int) /\ Number(v, 8) \in Seq(Int)
          /\ Len(Number(v, 4)) # 0 /\ Len(Number(v, 8)) # 0
        BY <2>1, NumberIs
    <2>3. CASE type = "integer"
        <3>1. typed = <<Int32, Number(v, 4)>>
            BY <2>3 DEF AstarteScalar
        <3>2. AppendScalar(b, name, type, v) = AppendElement(b, Int32, name, Number(v, 4))
            BY <2>3 DEF AppendScalar, AppendInt32
        <3> HIDE DEF typed
        <3>3. QED BY <1>1, <2>2, <3>1, <3>2 DEF BsonTypes, typed
    <2>4. CASE type = "longinteger"
        <3>1. typed = <<Int64, Number(v, 8)>>
            BY <2>4 DEF AstarteScalar, ScalarBson
        <3>2. AppendScalar(b, name, type, v) = AppendElement(b, Int64, name, Number(v, 8))
            BY <2>4 DEF AppendScalar, AppendInt64
        <3> HIDE DEF typed
        <3>3. QED BY <1>1, <2>2, <3>1, <3>2 DEF BsonTypes, typed
    <2>5. CASE type = "double"
        <3>1. typed = <<Double, Number(v, 8)>>
            BY <2>5 DEF AstarteScalar, ScalarBson
        <3>2. AppendScalar(b, name, type, v) = AppendElement(b, Double, name, Number(v, 8))
            BY <2>5 DEF AppendScalar, AppendDouble
        <3> HIDE DEF typed
        <3>3. QED BY <1>1, <2>2, <3>1, <3>2 DEF BsonTypes, typed
    <2>6. CASE type = "datetime"
        <3>1. typed = <<DateTime, Number(v, 8)>>
            BY <2>6 DEF AstarteScalar, ScalarBson
        <3>2. AppendScalar(b, name, type, v) = AppendElement(b, DateTime, name, Number(v, 8))
            BY <2>6 DEF AppendScalar, AppendDateTime
        <3> HIDE DEF typed
        <3>3. QED BY <1>1, <2>2, <3>1, <3>2 DEF BsonTypes, typed
    <2>7. CASE type = "boolean"
        <3>1. typed = <<Boolean, <<v>> >>
            BY <2>7 DEF AstarteScalar
        <3>2. AppendScalar(b, name, type, v) = AppendElement(b, Boolean, name, <<v>>)
            BY <2>7 DEF AppendScalar, AppendBoolean
        <3>3. <<v>> \in Seq(Int) /\ Len(<<v>>) # 0
            BY <2>1
        <3> HIDE DEF typed
        <3>4. QED BY <1>1, <3>1, <3>2, <3>3 DEF BsonTypes, typed
    <2>8. QED BY <1>2, <1>3, <2>3, <2>4, <2>5, <2>6, <2>7
<1>4. CASE type \in {"string", "binaryblob"}
    <2>1. v \in Seq(Int) /\ Len(v) \in Nat
        <3>1. v \in Seq(Nat)
            BY <1>4 DEF ScalarValues
        <3>2. QED BY <3>1
    <2>2. CASE type = "string"
        <3> DEFINE w == Number(Len(v) + 1, 4) \o v \o <<0>>
        <3>1. typed = <<String, w>>
            BY <2>2 DEF AstarteScalar
        <3>2. AppendScalar(b, name, type, v) = AppendElement(b, String, name, w)
            BY <2>2 DEF AppendScalar, AppendString
        <3>3. w \in Seq(Int) /\ Len(w) # 0
            <4>0. PICK n : n = Len(v) + 1
                OBVIOUS
            <4>1. PICK x : x = Number(n, 4)
                OBVIOUS
            <4>2. x \in Seq(Int) /\ Len(x) = 4
                <5>1. n \in Int
                    BY <2>1, <4>0
                <5>2. Number(n, 4) \in Seq(Int) /\ Len(Number(n, 4)) = 4
                    BY <5>1, NumberIs
                <5>3. QED BY <4>1, <5>2
            <4>3. x \o v \o <<0>> \in Seq(Int) /\ Len(x \o v \o <<0>>) # 0
                BY <2>1, <4>2
            <4>4. QED BY <4>0, <4>1, <4>3
        <3> HIDE DEF typed, w
        <3>4. QED BY <1>1, <3>1, <3>2, <3>3 DEF BsonTypes, typed
    <2>3. CASE type = "binaryblob"
        <3> DEFINE w == Number(Len(v), 4) \o <<0>> \o v
        <3>1. typed = <<Binary, w>>
            BY <2>3 DEF AstarteScalar
        <3>2. AppendScalar(b, name, type, v) = AppendElement(b, Binary, name, w)
            BY <2>3 DEF AppendScalar, AppendBinary
        <3>3. w \in Seq(Int) /\ Len(w) # 0
            <4>0. PICK n : n = Len(v)
                OBVIOUS
            <4>1. PICK x : x = Number(n, 4)
                OBVIOUS
            <4>2. x \in Seq(Int) /\ Len(x) = 4
                <5>1. n \in Int
                    BY <2>1, <4>0
                <5>2. Number(n, 4) \in Seq(Int) /\ Len(Number(n, 4)) = 4
                    BY <5>1, NumberIs
                <5>3. QED BY <4>1, <5>2
            <4>3. x \o <<0>> \o v \in Seq(Int) /\ Len(x \o <<0>> \o v) # 0
                BY <2>1, <4>2
            <4>4. QED BY <4>0, <4>1, <4>3
        <3> HIDE DEF typed, w
        <3>4. QED BY <1>1, <3>1, <3>2, <3>3 DEF BsonTypes, typed
    <2>4. QED BY <1>4, <2>2, <2>3
<1>5. QED BY <1>3, <1>4

\* The size of a document is written over the room left for it.
LEMMA EndIs ==
    ASSUME NEW list \in Seq(Int)
    PROVE  LET d == EndOfDocument(Init4 \o list)
           IN  /\ d = Number(Len(list) + 5, 4) \o list \o <<0>>
               /\ d \in Seq(Int) /\ Len(d) = Len(list) + 5 /\ d[1] = Len(list) + 5
               /\ d[Len(list) + 5] = 0
               /\ Len(list) > 0 => d[5] = list[1]
<1>1. PICK z, four : z = <<0>> /\ four = Init4
    OBVIOUS
<1>2. /\ z \in Seq(Int) /\ four \in Seq(Int) /\ Len(z) = 1 /\ Len(four) = 4 /\ z[1] = 0
      /\ Len(list) \in Nat
    BY <1>1, NumberIs DEF Init4
<1>3. PICK body : body = list \o z
    OBVIOUS
<1>4. /\ body \in Seq(Int) /\ Len(body) = Len(list) + 1 /\ Len(four \o list) = 4 + Len(list)
      /\ four \o list \in Seq(Int) /\ body[Len(list) + 1] = 0
      /\ Len(list) > 0 => body[1] = list[1]
    <2>1. /\ body \in Seq(Int) /\ Len(body) = Len(list) + Len(z)
          /\ \A i \in 1 .. Len(list) + Len(z) :
                body[i] = IF i <= Len(list) THEN list[i] ELSE z[i - Len(list)]
        BY <1>2, <1>3, ConcatProperties
    <2>2. Len(four \o list) = Len(four) + Len(list) /\ four \o list \in Seq(Int)
        BY <1>2, Joined
    <2>3. PICK m : m = Len(list)
        OBVIOUS
    <2>4. m \in Nat /\ m + 1 \in 1 .. m + 1 /\ ~(m + 1 <= m) /\ m + 1 - m = 1
          /\ (m > 0 => 1 \in 1 .. m + 1 /\ 1 <= m)
        BY <1>2, <2>3
    <2>5. body[m + 1] = 0 /\ (m > 0 => body[1] = list[1])
        BY <1>2, <2>1, <2>3, <2>4
    <2>6. QED BY <1>2, <2>1, <2>2, <2>3, <2>5
<1>5. Append(four \o list, 0) = four \o body
    <2>1. PICK both : both = four \o list
        OBVIOUS
    <2>2. Append(both, 0) = both \o <<0>>
        BY <1>4, <2>1, AppendIsConcat
    <2>3. Regroups(four, list, z)
        BY <1>2, Regrouped
    <2>4. QED BY <1>1, <1>3, <2>1, <2>2, <2>3 DEF Regroups
<1>6. PICK n : n = Len(list) + 5
    OBVIOUS
<1>7. n \in Nat /\ n >= 5 /\ Len(four \o body) = n /\ Len(body) = n - 4
    BY <1>2, <1>4, <1>6
<1>8. SubSeq(four \o body, 5, n) = body
    <2>1. 5 \in Len(four) + 1 .. Len(four) + Len(body) /\ n \in Len(four) + 1 .. Len(four) + Len(body)
        BY <1>2, <1>7
    <2>2. SubSeq(four \o body, 5, n) = SubSeq(body, 5 - Len(four), n - Len(four))
        BY <1>2, <1>4, <2>1, SubSeqOfConcat2
    <2>3. SubSeq(body, 1, Len(body)) = body
        BY <1>4, SubSeqFull
    <2>4. 5 - Len(four) = 1 /\ n - Len(four) = Len(body)
        BY <1>2, <1>7
    <2>5. QED BY <2>2, <2>3, <2>4
<1>9. EndOfDocument(Init4 \o list) = Number(n, 4) \o body
    BY <1>1, <1>5, <1>7, <1>8 DEF EndOfDocument
<1>10. PICK head : head = Number(n, 4)
    OBVIOUS
<1>11. head \in Seq(Int) /\ Len(head) = 4 /\ head[1] = n
    <2>1. Number(n, 4) \in Seq(Int) /\ Len(Number(n, 4)) = 4 /\ Number(n, 4)[1] = n
        BY <1>7, NumberIs
    <2>2. QED BY <1>10, <2>1
<1>12. head \o list \o z = head \o body
    <2>1. Regroups(head, list, z)
        BY <1>2, <1>11, Regrouped
    <2>2. QED BY <1>3, <2>1 DEF Regroups
<1>13. /\ head \o body \in Seq(Int) /\ Len(head \o body) = n /\ (head \o body)[1] = n
       /\ (head \o body)[n] = 0
       /\ Len(list) > 0 => (head \o body)[5] = list[1]
    <2>1. PICK m : m = Len(list)
        OBVIOUS
    <2>2. m \in Nat /\ n = m + 5 /\ Len(body) = m + 1
        BY <1>2, <1>4, <1>6, <2>1
    <2>3. /\ head \o body \in Seq(Int) /\ Len(head \o body) = 4 + Len(body)
          /\ \A i \in 1 .. 4 + Len(body) :
                (head \o body)[i] = IF i <= 4 THEN head[i] ELSE body[i - 4]
        <3>1. body \in Seq(Int) /\ head \in Seq(Int)
            BY <1>4, <1>11
        <3>2. /\ head \o body \in Seq(Int) /\ Len(head \o body) = Len(head) + Len(body)
              /\ \A i \in 1 .. Len(head) + Len(body) :
                    (head \o body)[i] = IF i <= Len(head) THEN head[i] ELSE body[i - Len(head)]
            BY <3>1, ConcatProperties
        <3>3. Len(head) = 4
            BY <1>11
        <3>4. QED BY <3>2, <3>3
    <2>4. /\ 1 \in 1 .. 4 + Len(body) /\ 5 \in 1 .. 4 + Len(body) /\ n \in 1 .. 4 + Len(body)
          /\ n - 4 = m + 1 /\ ~(n <= 4)
        BY <2>2
    <2>5. (head \o body)[1] = head[1] /\ (head \o body)[5] = body[1] /\ (head \o body)[n] = body[m + 1]
        BY <2>3, <2>4
    <2>6. QED BY <1>4, <1>7, <1>11, <2>1, <2>2, <2>3, <2>5
<1>14. QED BY <1>1, <1>6, <1>9, <1>10, <1>12, <1>13

\* A document that is built element by element.
Builds(u, seqs) ==
    /\ DOMAIN u = 0 .. Len(seqs) /\ u[0] = Init4
    /\ \A i \in 1 .. Len(seqs) : u[i] = u[i - 1] \o seqs[i]

LEMMA DocumentBuilt ==
    ASSUME NEW seqs \in Seq(Seq(Int))
    PROVE  \E u \in [0 .. Len(seqs) -> Seq(Int)] :
                /\ Builds(u, seqs)
                /\ EndOfDocument(u[Len(seqs)]) = AstarteDocument(seqs)
                /\ AstarteDocument(seqs) \in Seq(Int)
                /\ AstarteDocument(seqs)[1] = Len(AstarteDocument(seqs))
                /\ Len(AstarteDocument(seqs)) > 0
<1>1. PICK f \in [0 .. Len(seqs) -> Seq(Int)] : Joins(f, seqs) /\ FlattenSeq(seqs) = f[Len(seqs)]
    BY FlattenIs
<1>2. PICK n, four : n = Len(seqs) /\ four = Init4
    OBVIOUS
<1>3. n \in Nat /\ four \in Seq(Int) /\ four \o <<>> = four
    <2>1. n \in Nat
        BY <1>2, LenProperties
    <2>2. four \in Seq(Int)
        BY <1>2, NumberIs DEF Init4
    <2>3. QED BY <2>1, <2>2, ConcatEmptySeq
<1> DEFINE u == [i \in 0 .. n |-> four \o f[i]]
<1>4. f \in [0 .. n -> Seq(Int)]
    BY <1>1, <1>2
<1>5. \A i \in 0 .. n : f[i] \in Seq(Int) /\ four \o f[i] \in Seq(Int)
    <2>1. ASSUME NEW i \in 0 .. n PROVE f[i] \in Seq(Int) /\ four \o f[i] \in Seq(Int)
        <3>1. f[i] \in Seq(Int)
            BY <1>4
        <3>2. QED BY <1>3, <3>1, Joined
    <2>2. QED BY <2>1
<1>6. u \in [0 .. n -> Seq(Int)] /\ \A i \in 0 .. n : u[i] = four \o f[i]
    BY <1>5
<1> HIDE DEF u
<1>7. u[0] = four
    <2>1. f[0] = <<>> /\ 0 \in 0 .. n
        BY <1>1, <1>3 DEF Joins
    <2>2. QED BY <1>3, <1>6, <2>1
<1>8. ASSUME NEW i \in 1 .. n PROVE u[i] = u[i - 1] \o seqs[i]
    <2>1. i \in 0 .. n /\ i - 1 \in 0 .. n
        BY <1>3
    <2>2. f[i] = f[i - 1] \o seqs[i]
        BY <1>1, <1>2 DEF Joins
    <2>3. seqs[i] \in Seq(Int)
        BY <1>2, ElementOfSeq
    <2>4. Regroups(four, f[i - 1], seqs[i])
        BY <1>3, <1>5, <2>1, <2>3, Regrouped
    <2>5. u[i] = four \o f[i] /\ u[i - 1] = four \o f[i - 1]
        BY <1>6, <2>1
    <2>6. QED BY <2>2, <2>4, <2>5 DEF Regroups
<1>9. Builds(u, seqs)
    BY <1>2, <1>6, <1>7, <1>8 DEF Builds
<1>10. PICK list : list = f[n]
    OBVIOUS
<1>11. list \in Seq(Int) /\ u[n] = Init4 \o list /\ FlattenSeq(seqs) = list
    <2>1. n \in 0 .. n
        BY <1>3
    <2>2. QED BY <1>1, <1>2, <1>5, <1>6, <1>10, <2>1
<1>12. AstarteDocument(seqs) = Number(Len(list) + 5, 4) \o list \o <<0>>
    BY <1>11 DEF AstarteDocument
<1>13. PICK d : d = EndOfDocument(Init4 \o list)
    OBVIOUS
<1>14. /\ d = AstarteDocument(seqs) /\ d \in Seq(Int) /\ Len(d) = Len(list) + 5
       /\ d[1] = Len(list) + 5 /\ Len(list) \in Nat
    BY <1>11, <1>12, <1>13, EndIs, LenProperties
<1>15. Len(d) > 0
    BY <1>14
<1>16. QED BY <1>2, <1>6, <1>9, <1>11, <1>13, <1>14, <1>15

\* An item of an array is an element whose name is its index.
Item(scalar, v, i) ==
    LET typed == AstarteScalar(scalar, v, FALSE) IN Element(typed[1], <<47 + i>>, typed[2])

LEMMA ItemAppended ==
    ASSUME NEW b \in Seq(Int), NEW i \in Nat, NEW scalar \in Scalars, NEW v \in ScalarValues(scalar)
    PROVE  /\ AppendScalar(b, <<48 + i - 1>>, scalar, v) = b \o Item(scalar, v, i)
           /\ Item(scalar, v, i) \in Seq(Int)
<1>1. 48 + i - 1 = 47 + i /\ 47 + i \in Int
    OBVIOUS
<1>2. PICK name : name = <<47 + i>>
    OBVIOUS
<1>3. name \in Seq(Int)
    BY <1>1, <1>2
<1>4. PICK typed : typed = AstarteScalar(scalar, v, FALSE)
    OBVIOUS
<1>5. /\ AppendScalar(b, name, scalar, v) = b \o Element(typed[1], name, typed[2])
      /\ Element(typed[1], name, typed[2]) \in Seq(Int)
    BY <1>3, <1>4, ScalarAppended
<1>6. Item(scalar, v, i) = Element(typed[1], name, typed[2]) /\ name = <<48 + i - 1>>
    BY <1>1, <1>2, <1>4 DEF Item
<1>7. QED BY <1>5, <1>6

\* Arrays are written the way Astarte reads them.
LEMMA ArrayBuilt ==
    ASSUME NEW scalar \in Scalars, NEW items \in Seq(ScalarValues(scalar))
    PROVE  LET d == AstarteDocument([i \in DOMAIN items |-> Item(scalar, items[i], i)])
           IN  ArrayOf(scalar, items) = d /\ d \in Seq(Int) /\ Len(d) # 0
<1> DEFINE seqs == [i \in DOMAIN items |-> Item(scalar, items[i], i)]
           n == Len(items)
<1>1. n \in Nat /\ DOMAIN items = 1 .. n /\ \A i \in 1 .. n : items[i] \in ScalarValues(scalar)
    BY LenProperties, ElementOfSeq
<1>2. /\ seqs \in Seq(Seq(Int)) /\ Len(seqs) = n
      /\ \A i \in 1 .. n : seqs[i] = Item(scalar, items[i], i)
    <2>1. \A i \in 1 .. n : Item(scalar, items[i], i) \in Seq(Int)
        <3>1. ASSUME NEW i \in 1 .. n PROVE Item(scalar, items[i], i) \in Seq(Int)
            <4>1. <<>> \in Seq(Int) /\ i \in Nat
                BY <1>1
            <4>2. QED BY <1>1, <4>1, ItemAppended
        <3>2. QED BY <3>1
    <2>2. QED BY <1>1, <2>1
<1> HIDE DEF seqs
<1>3. PICK u \in [0 .. n -> Seq(Int)] :
                /\ Builds(u, seqs)
                /\ EndOfDocument(u[n]) = AstarteDocument(seqs)
                /\ AstarteDocument(seqs) \in Seq(Int)
                /\ Len(AstarteDocument(seqs)) > 0
    BY <1>2, DocumentBuilt
<1>4. \A i \in 1 .. n : i \in Nat /\ i \in 0 .. n /\ i - 1 \in 0 .. n /\ i # 0
    <2>1. PICK m : m = n
        OBVIOUS
    <2>2. m \in Nat
        BY <1>1, <2>1
    <2>3. \A i \in 1 .. m : i \in Nat /\ i \in 0 .. m /\ i - 1 \in 0 .. m /\ i # 0
        BY <2>2
    <2>4. QED BY <2>1, <2>3
<1>5. ASSUME NEW i \in 1 .. n PROVE u[i] = AppendScalar(u[i - 1], <<48 + i - 1>>, scalar, items[i])
    <2>1. u[i] = u[i - 1] \o seqs[i]
        BY <1>2, <1>3 DEF Builds
    <2>2. u[i - 1] \in Seq(Int)
        BY <1>3, <1>4
    <2>3. AppendScalar(u[i - 1], <<48 + i - 1>>, scalar, items[i])
                = u[i - 1] \o Item(scalar, items[i], i)
        BY <1>1, <1>4, <2>2, ItemAppended
    <2>4. QED BY <1>2, <2>1, <2>3
<1>6. u[0] = Init4 /\ u = [i \in 0 .. n |-> u[i]]
    BY <1>3 DEF Builds
<1> DEFINE Step(v, i) == AppendScalar(v[i - 1], <<48 + i - 1>>, scalar, items[i])
           UpTo(v) == [i \in 0 .. n |-> IF i = 0 THEN Init4 ELSE Step(v, i)]
           upTo == CHOOSE v : v = UpTo(v)
<1>7. ArrayOf(scalar, items) = EndOfDocument(upTo[n])
    BY DEF ArrayOf
<1>8. \A i \in 1 .. n : u[i] = Step(u, i)
    BY <1>5
<1> HIDE DEF Step
<1>9. u = UpTo(u)
    <2>1. \A i \in 0 .. n : i # 0 => i \in 1 .. n
        BY <1>1
    <2>2. \A i \in 0 .. n : u[i] = IF i = 0 THEN Init4 ELSE Step(u, i)
        BY <1>6, <1>8, <2>1
    <2>3. QED BY <1>6, <2>2
<1>10. PICK w : w = upTo
    OBVIOUS
<1>11. w = UpTo(w)
    <2> HIDE DEF UpTo
    <2>1. QED BY <1>9, <1>10
<1>12. w[0] = Init4 /\ \A i \in 1 .. n : w[i] = Step(w, i)
    <2>1. 0 \in 0 .. n
        BY <1>1
    <2>2. \A i \in 0 .. n : UpTo(w)[i] = IF i = 0 THEN Init4 ELSE Step(w, i)
        OBVIOUS
    <2> HIDE DEF UpTo, upTo
    <2>3. QED BY <1>4, <1>11, <2>1, <2>2
<1>13. PICK m : m = n
    OBVIOUS
<1>14. Alike(w, u, m)
    <2>1. w[0] = u[0]
        BY <1>6, <1>12
    <2>2. ASSUME NEW i \in 1 .. m, w[i - 1] = u[i - 1] PROVE w[i] = u[i]
        <3>1. i \in 1 .. n
            BY <1>13
        <3>2. Step(w, i) = Step(u, i)
            BY <2>2 DEF Step
        <3>3. QED BY <1>8, <1>12, <3>1, <3>2
    <2>3. QED BY <2>1, <2>2 DEF Alike
<1>15. w[n] = u[n]
    <2>1. m \in Nat /\ m \in 0 .. m
        BY <1>1, <1>13
    <2>2. QED BY <1>13, <1>14, <2>1, IteratesOnce
<1>16. ArrayOf(scalar, items) = AstarteDocument(seqs)
    <2> HIDE DEF upTo
    <2>1. QED BY <1>3, <1>7, <1>10, <1>15
<1>17. Len(AstarteDocument(seqs)) # 0
    <2>1. PICK k : k = Len(AstarteDocument(seqs))
        OBVIOUS
    <2>2. k > 0 /\ k \in Nat
        BY <1>3, <2>1, LenProperties
    <2>3. QED BY <2>1, <2>2
<1>18. QED BY <1>3, <1>16, <1>17 DEF seqs

\* A value of any type is written the way Astarte reads it.
LEMMA Serialized ==
    ASSUME NEW b \in Seq(Int), NEW name \in Seq(Int), NEW data, data.type \in Types,
           data.value \in Values(data.type)
    PROVE  LET e == AstarteElement(name, data, FALSE)
           IN  Serialize(b, name, data) = b \o e /\ e \in Seq(Int) /\ Len(e) >= 3 /\ e[1] \in BsonTypes
<1>1. PICK e : e = AstarteElement(name, data, FALSE)
    OBVIOUS
<1>2. CASE data.type \in Scalars
    <2>1. PICK type, v, typed : /\ type = data.type /\ v = data.value
                                /\ typed = AstarteScalar(type, v, FALSE)
        OBVIOUS
    <2>2. type \in Scalars /\ v \in ScalarValues(type)
        BY <1>2, <2>1 DEF Values
    <2>3. e = Element(typed[1], name, typed[2])
        BY <1>1, <1>2, <2>1 DEF AstarteElement, Element
    <2>4. Serialize(b, name, data) = AppendScalar(b, name, type, v)
        BY <1>2, <2>1 DEF Serialize
    <2>5. /\ AppendScalar(b, name, type, v) = b \o Element(typed[1], name, typed[2])
          /\ Element(typed[1], name, typed[2]) \in Seq(Int)
          /\ Len(Element(typed[1], name, typed[2])) >= 3
          /\ Element(typed[1], name, typed[2])[1] \in BsonTypes
        BY <2>1, <2>2, ScalarAppended
    <2>6. QED BY <1>1, <2>3, <2>4, <2>5
<1>3. CASE data.type \notin Scalars
    <2>1. PICK scalar, items : scalar = ArrayScalar[data.type] /\ items = data.value
        OBVIOUS
    <2>2. scalar \in Scalars
        BY <1>3, <2>1 DEF Types, Arrays, ArrayScalar, Scalars, ScalarBson
    <2>3. items \in Seq(ScalarValues(scalar))
        BY <1>3, <2>1 DEF Values
    <2>4. PICK d : d = AstarteDocument([i \in DOMAIN items |-> Item(scalar, items[i], i)])
        OBVIOUS
    <2>5. ArrayOf(scalar, items) = d /\ d \in Seq(Int) /\ Len(d) # 0
        BY <2>2, <2>3, <2>4, ArrayBuilt
    <2>6. e = Element(Array, name, d)
        BY <1>1, <1>3, <2>1, <2>4 DEF AstarteElement, Element, Item
    <2>7. Serialize(b, name, data) = AppendElement(b, Array, name, d)
        BY <1>3, <2>1, <2>5 DEF Serialize, AppendArray
    <2>8. /\ AppendElement(b, Array, name, d) = b \o Element(Array, name, d)
          /\ Element(Array, name, d) \in Seq(Int) /\ Len(Element(Array, name, d)) >= 3
          /\ Element(Array, name, d)[1] = Array
        <3>1. Array \in Int
            BY DEF Array
        <3>2. Behind(b, Array, name, d)
            BY <2>5, <3>1, AllBehind
        <3>3. QED BY <3>2 DEF Behind
    <2>9. QED BY <1>1, <2>6, <2>7, <2>8 DEF BsonTypes
<1>4. QED BY <1>2, <1>3

\* The timestamp, if there is one, and the end.
LEMMA Closes ==
    ASSUME NEW value \in Seq(Int), Len(value) >= 3, value[1] \in BsonTypes, NEW ts \in Nat
    PROVE  LET time == AstarteElement(T, Data("datetime", ts), FALSE)
           IN  /\ Closed(Init4 \o value, ts)
                    = AstarteDocument(IF ts = 0 THEN <<value>> ELSE <<value, time>>)
               /\ CheckValidity(Closed(Init4 \o value, ts))
<1>1. PICK time, b : time = AstarteElement(T, Data("datetime", ts), FALSE) /\ b = Init4 \o value
    OBVIOUS
<1>2. b \in Seq(Int) /\ Init4 \in Seq(Int) /\ T \in Seq(Int)
    BY <1>1, NumberIs, Joined DEF Init4, T
<1>3. AppendDateTime(b, T, ts) = b \o time /\ time \in Seq(Int)
    <2>1. PICK data : data = Data("datetime", ts)
        OBVIOUS
    <2>2. /\ data.type = "datetime" /\ data.value = ts
          /\ data.type \in Types /\ data.value \in Values(data.type) /\ data.type \in Scalars
        BY <2>1 DEF Data, Types, Scalars, ScalarBson, Values, ScalarValues
    <2>3. Serialize(b, T, data) = b \o time /\ time \in Seq(Int)
        BY <1>1, <1>2, <2>1, <2>2, Serialized
    <2>4. Serialize(b, T, data) = AppendDateTime(b, T, ts)
        BY <2>2 DEF Serialize, AppendScalar
    <2>5. QED BY <2>3, <2>4
<1>4. ASSUME NEW list \in Seq(Int), Len(list) >= 3, list[1] \in BsonTypes
      PROVE  CheckValidity(EndOfDocument(Init4 \o list))
    <2>1. PICK d, n : d = EndOfDocument(Init4 \o list) /\ n = Len(list)
        OBVIOUS
    <2>2. n \in Nat /\ n >= 3 /\ n > 0
        BY <1>4, <2>1, LenProperties
    <2>3. Len(d) = n + 5 /\ d[1] = n + 5 /\ d[n + 5] = 0 /\ d[5] = list[1]
        BY <2>1, <2>2, EndIs
    <2>4. QED BY <1>4, <2>1, <2>2, <2>3 DEF CheckValidity
<1>5. CASE ts = 0
    <2>1. PICK seqs : seqs = <<value>>
        OBVIOUS
    <2>2. seqs \in Seq(Seq(Int)) /\ Len(seqs) = 1 /\ seqs[1] = value
        BY <2>1
    <2>3. PICK u : Builds(u, seqs) /\ EndOfDocument(u[Len(seqs)]) = AstarteDocument(seqs)
        BY <2>2, DocumentBuilt
    <2>4. u[1] = b
        <3>1. 1 \in 1 .. 1 /\ 1 - 1 = 0
            OBVIOUS
        <3>2. u[0] = Init4 /\ u[1] = u[0] \o value
            BY <2>2, <2>3, <3>1 DEF Builds
        <3>3. QED BY <1>1, <3>2
    <2>5. Closed(b, ts) = EndOfDocument(b)
        BY <1>5 DEF Closed
    <2>6. CheckValidity(EndOfDocument(b))
        BY <1>1, <1>4
    <2>7. QED BY <1>1, <1>5, <2>1, <2>2, <2>3, <2>4, <2>5, <2>6
<1>6. CASE ts # 0
    <2>1. PICK seqs : seqs = <<value, time>>
        OBVIOUS
    <2>2. seqs \in Seq(Seq(Int)) /\ Len(seqs) = 2 /\ seqs[1] = value /\ seqs[2] = time
        BY <1>3, <2>1
    <2>3. PICK u : Builds(u, seqs) /\ EndOfDocument(u[Len(seqs)]) = AstarteDocument(seqs)
        BY <2>2, DocumentBuilt
    <2>4. u[2] = b \o time
        <3>1. 1 \in 1 .. 2 /\ 1 - 1 = 0 /\ 2 \in 1 .. 2 /\ 2 - 1 = 1
            OBVIOUS
        <3>2. u[0] = Init4 /\ u[1] = u[0] \o value /\ u[2] = u[1] \o time
            BY <2>2, <2>3, <3>1 DEF Builds
        <3>3. QED BY <1>1, <3>2
    <2>5. Closed(b, ts) = EndOfDocument(b \o time)
        BY <1>3, <1>6 DEF Closed
    <2>6. PICK list : list = value \o time
        OBVIOUS
    <2>7. list \in Seq(Int) /\ Len(list) >= 3 /\ list[1] = value[1]
        <3>1. Len(value) > 0 /\ value # <<>>
            BY EmptySeq
        <3>2. /\ value \o time \in Seq(Int) /\ Len(value \o time) = Len(value) + Len(time)
              /\ Len(value) \in Nat /\ Len(time) \in Nat
              /\ value # <<>> => (value \o time)[1] = value[1]
            BY <1>3, Joined
        <3>3. QED BY <2>6, <3>1, <3>2
    <2>8. b \o time = Init4 \o list
        <3>1. Regroups(Init4, value, time)
            BY <1>2, <1>3, Regrouped
        <3>2. QED BY <1>1, <2>6, <3>1 DEF Regroups
    <2>9. CheckValidity(EndOfDocument(b \o time))
        BY <1>4, <2>7, <2>8
    <2>10. QED BY <1>1, <1>6, <2>1, <2>2, <2>3, <2>4, <2>5, <2>9
<1>7. QED BY <1>5, <1>6

\* What the assumption says of one message.
LEMMA MessageIs ==
    ASSUME NEW m \in Uplinks
    PROVE  /\ m.timestamp \in Nat /\ Len(m.entries) \in Nat
           /\ DOMAIN m.entries = 1 .. Len(m.entries)
           /\ ~m.object => Len(m.entries) = 1 /\ m.entries[1].name = V
           /\ \A i \in 1 .. Len(m.entries) :
                /\ m.entries[i].name \in Seq(Int) /\ m.entries[i].data.type \in Types
                /\ m.entries[i].data.value \in Values(m.entries[i].data.type)
<1>1. DOMAIN m.entries = 1 .. Len(m.entries) /\ Len(m.entries) \in Nat
    BY MessageAssumption, LenProperties
<1>2. \A name \in Seq(Nat) : name \in Seq(Int)
    OBVIOUS
<1>3. QED BY <1>1, <1>2, MessageAssumption

\* An individual value is queued the way Astarte reads it.
LEMMA IndividualPayload ==
    ASSUME NEW m \in Uplinks, ~m.object
    PROVE  /\ SerializeIndividual(m.entries[1].data, m.timestamp) = AstartePayload(m, FALSE)
           /\ CheckValidity(SerializeIndividual(m.entries[1].data, m.timestamp))
<1>1. PICK data, ts, value :
        /\ data = m.entries[1].data /\ ts = m.timestamp /\ value = AstarteElement(V, data, FALSE)
    OBVIOUS
<1>2. /\ ts \in Nat /\ data.type \in Types /\ data.value \in Values(data.type)
      /\ 1 \in DOMAIN m.entries /\ m.entries[1].name = V
    BY <1>1, MessageIs
<1>3. Init4 \in Seq(Int) /\ V \in Seq(Int)
    BY NumberIs DEF Init4, V
<1>4. /\ Serialize(Init4, V, data) = Init4 \o value
      /\ value \in Seq(Int) /\ Len(value) >= 3 /\ value[1] \in BsonTypes
    BY <1>1, <1>2, <1>3, Serialized
<1>5. SerializeIndividual(data, ts) = Closed(Init4 \o value, ts)
    BY <1>4 DEF SerializeIndividual
<1>6. PICK time : time = AstarteElement(T, Data("datetime", ts), FALSE)
    OBVIOUS
<1>7. /\ Closed(Init4 \o value, ts) = AstarteDocument(IF ts = 0 THEN <<value>> ELSE <<value, time>>)
      /\ CheckValidity(Closed(Init4 \o value, ts))
    BY <1>2, <1>4, <1>6, Closes
<1>8. AstartePayload(m, FALSE) = AstarteDocument(IF ts = 0 THEN <<value>> ELSE <<value, time>>)
    BY <1>1, <1>2, <1>6 DEF AstartePayload
<1>9. QED BY <1>1, <1>5, <1>7, <1>8

\* So is an object.
LEMMA AggregatedPayload ==
    ASSUME NEW m \in Uplinks, m.object
    PROVE  /\ SerializeAggregated(m.entries, m.timestamp) = AstartePayload(m, FALSE)
           /\ CheckValidity(SerializeAggregated(m.entries, m.timestamp))
<1> DEFINE n == Len(m.entries)
           part(i) == AstarteElement(m.entries[i].name, m.entries[i].data, FALSE)
           parts == [i \in DOMAIN m.entries |-> part(i)]
<1>1. /\ n \in Nat /\ DOMAIN m.entries = 1 .. n
      /\ \A i \in 1 .. n : /\ m.entries[i].name \in Seq(Int) /\ m.entries[i].data.type \in Types
                           /\ m.entries[i].data.value \in Values(m.entries[i].data.type)
    BY MessageIs
<1>2. Init4 \in Seq(Int) /\ V \in Seq(Int)
    BY NumberIs DEF Init4, V
<1>3. parts \in Seq(Seq(Int)) /\ Len(parts) = n /\ \A i \in 1 .. n : parts[i] = part(i)
    <2>1. \A i \in 1 .. n : part(i) \in Seq(Int)
        BY <1>1, <1>2, Serialized
    <2> HIDE DEF part
    <2>2. QED BY <1>1, <2>1
<1> HIDE DEF parts, part
<1>4. PICK u \in [0 .. n -> Seq(Int)] :
                /\ Builds(u, parts)
                /\ EndOfDocument(u[n]) = AstarteDocument(parts)
                /\ AstarteDocument(parts) \in Seq(Int)
                /\ AstarteDocument(parts)[1] = Len(AstarteDocument(parts))
                /\ Len(AstarteDocument(parts)) > 0
    BY <1>3, DocumentBuilt
<1>5. \A i \in 1 .. n : i \in 0 .. n /\ i - 1 \in 0 .. n /\ i # 0
    <2>1. PICK k : k = n
        OBVIOUS
    <2>2. k \in Nat
        BY <1>1, <2>1
    <2>3. \A i \in 1 .. k : i \in 0 .. k /\ i - 1 \in 0 .. k /\ i # 0
        BY <2>2
    <2>4. QED BY <2>1, <2>3
<1> DEFINE Step(v, i) == Serialize(v[i - 1], m.entries[i].name, m.entries[i].data)
           UpTo(v) == [i \in 0 .. n |-> IF i = 0 THEN Init4 ELSE Step(v, i)]
           upTo == CHOOSE v : v = UpTo(v)
<1>6. \A i \in 1 .. n : u[i] = Step(u, i)
    <2>1. ASSUME NEW i \in 1 .. n PROVE u[i] = Step(u, i)
        <3>1. u[i] = u[i - 1] \o parts[i]
            BY <1>3, <1>4 DEF Builds
        <3>2. u[i - 1] \in Seq(Int)
            BY <1>4, <1>5
        <3>3. Step(u, i) = u[i - 1] \o part(i)
            BY <1>1, <3>2, Serialized DEF part
        <3>4. QED BY <1>3, <3>1, <3>3
    <2>2. QED BY <2>1
<1>7. u[0] = Init4 /\ u = [i \in 0 .. n |-> u[i]]
    BY <1>4 DEF Builds
<1>8. SerializeAggregated(m.entries, m.timestamp)
            = Closed(AppendDocument(Init4, V, EndOfDocument(upTo[n])), m.timestamp)
    BY DEF SerializeAggregated
<1> HIDE DEF Step
<1>9. u = UpTo(u)
    <2>1. \A i \in 0 .. n : i # 0 => i \in 1 .. n
        BY <1>1
    <2>2. \A i \in 0 .. n : u[i] = IF i = 0 THEN Init4 ELSE Step(u, i)
        BY <1>6, <1>7, <2>1
    <2>3. QED BY <1>7, <2>2
<1>10. PICK w : w = upTo
    OBVIOUS
<1>11. w = UpTo(w)
    <2> HIDE DEF UpTo
    <2>1. QED BY <1>9, <1>10
<1>12. w[0] = Init4 /\ \A i \in 1 .. n : w[i] = Step(w, i)
    <2>1. 0 \in 0 .. n
        BY <1>1
    <2>2. \A i \in 0 .. n : UpTo(w)[i] = IF i = 0 THEN Init4 ELSE Step(w, i)
        OBVIOUS
    <2> HIDE DEF UpTo, upTo
    <2>3. QED BY <1>5, <1>11, <2>1, <2>2
<1>13. PICK k : k = n
    OBVIOUS
<1>14. Alike(w, u, k)
    <2>1. w[0] = u[0]
        BY <1>7, <1>12
    <2>2. ASSUME NEW i \in 1 .. k, w[i - 1] = u[i - 1] PROVE w[i] = u[i]
        <3>1. i \in 1 .. n
            BY <1>13
        <3>2. Step(w, i) = Step(u, i)
            BY <2>2 DEF Step
        <3>3. QED BY <1>6, <1>12, <3>1, <3>2
    <2>3. QED BY <2>1, <2>2 DEF Alike
<1>15. w[n] = u[n]
    <2>1. k \in Nat /\ k \in 0 .. k
        BY <1>1, <1>13
    <2>2. QED BY <1>13, <1>14, <2>1, IteratesOnce
<1>16. PICK d, value, ts : d = AstarteDocument(parts) /\ value = Element(Document, V, d) /\ ts = m.timestamp
    OBVIOUS
<1>17. EndOfDocument(upTo[n]) = d
    <2> HIDE DEF upTo
    <2>1. QED BY <1>4, <1>10, <1>15, <1>16
<1>18. /\ AppendDocument(Init4, V, d) = Init4 \o value
       /\ value \in Seq(Int) /\ Len(value) >= 3 /\ value[1] \in BsonTypes
    <2>1. d \in Seq(Int) /\ d[1] = Len(d) /\ Len(d) # 0
        BY <1>4, <1>16
    <2>2. SubSeq(d, 1, d[1]) = d
        BY <2>1, SubSeqFull
    <2>3. Document \in Int
        BY DEF Document
    <2>4. /\ AppendElement(Init4, Document, V, d) = Init4 \o Element(Document, V, d)
          /\ Element(Document, V, d) \in Seq(Int) /\ Len(Element(Document, V, d)) >= 3
          /\ Element(Document, V, d)[1] = Document
        <3>1. V \in Seq(Int) /\ Init4 \in Seq(Int)
            BY <1>2
        <3>2. Behind(Init4, Document, V, d)
            BY <2>1, <2>3, <3>1, AllBehind
        <3>3. QED BY <3>2 DEF Behind
    <2>5. QED BY <1>16, <2>2, <2>4 DEF AppendDocument, BsonTypes
<1>19. SerializeAggregated(m.entries, m.timestamp) = Closed(Init4 \o value, ts)
    <2> HIDE DEF upTo
    <2>1. QED BY <1>8, <1>16, <1>17, <1>18
<1>20. PICK time : time = AstarteElement(T, Data("datetime", ts), FALSE)
    OBVIOUS
<1>21. ts \in Nat
    BY <1>16, MessageIs
<1>22. /\ Closed(Init4 \o value, ts) = AstarteDocument(IF ts = 0 THEN <<value>> ELSE <<value, time>>)
       /\ CheckValidity(Closed(Init4 \o value, ts))
    BY <1>18, <1>20, <1>21, Closes
<1>23. AstartePayload(m, FALSE) = AstarteDocument(IF ts = 0 THEN <<value>> ELSE <<value, time>>)
    BY <1>16, <1>20 DEF AstartePayload, parts, part, Element
<1>24. QED BY <1>19, <1>22, <1>23

-----------------------------------------------------------------------------
(* The payloads in the queue. *)

\* No double of a value is NaN or infinite.
Finite(data) ==
    CASE data.type = "double" -> data.value # NotFinite
      [] data.type = "doublearray" -> NotFinite \notin Range(data.value)
      [] OTHER -> TRUE

\* What Astarte makes of a message, when it may be sent.
Sound(q) ==
    /\ q.payload = AstartePayload(q.sent, FALSE)
    /\ \A i \in DOMAIN q.sent.entries : Finite(q.sent.entries[i].data)

\* A value with a mapping that accepts it is finite.
LEMMA ValidIsFinite ==
    ASSUME NEW interface, NEW index, NEW data, NEW ts, ValidateAt(interface, index, data, ts) = "ok"
    PROVE  Finite(data)
<1>1. CheckData(interface.mappings[index], data)
    BY DEF ValidateAt
<1>2. QED BY <1>1 DEF CheckData, Finite

\* The validation of an object accepts it only if it accepts every entry.
LEMMA AllValid ==
    ASSUME NEW interface, NEW path, NEW ts, NEW entries, DOMAIN entries \subseteq Nat,
           ValidateAggregated(interface, path, entries, ts) = "ok",
           NEW i \in DOMAIN entries
    PROVE  Finite(entries[i].data)
<1> DEFINE verdict == [j \in DOMAIN entries |->
                ValidateAt(interface, MappingFromPaths(interface, path, entries[j].name),
                           entries[j].data, ts)]
           wrong == {j \in DOMAIN entries : verdict[j] # "ok"}
<1>1. ValidateAggregated(interface, path, entries, ts) =
        IF wrong # {} THEN verdict[LeastOf(wrong)]
        ELSE IF RequiredPresent(interface, path, entries) THEN "ok" ELSE "incomplete"
    BY DEF ValidateAggregated
<1>2. wrong = {}
    <2>1. SUFFICES ASSUME wrong # {} PROVE FALSE
        OBVIOUS
    <2>2. LeastOf(wrong) \in wrong
        <3>1. wrong \in SUBSET Nat
            OBVIOUS
        <3> HIDE DEF wrong
        <3>2. QED BY <2>1, <3>1, LeastOfIs
    <2>3. verdict[LeastOf(wrong)] # "ok"
        BY <2>2
    <2> HIDE DEF wrong, verdict
    <2>4. QED BY <1>1, <2>1, <2>3
<1>3. ValidateAt(interface, MappingFromPaths(interface, path, entries[i].name),
                 entries[i].data, ts) = "ok"
    BY <1>2
<1>4. QED BY <1>3, ValidIsFinite

\* What is in the queue: a sequence of messages that are sound.
Queued ==
    /\ queue \in Seq(Range(queue))
    /\ \A q \in Range(queue) : Sound(q)

\* A message that is sound joins the others.
LEMMA SoundJoins ==
    ASSUME Queued, NEW m, NEW interface, NEW mapping, NEW payload,
           Enqueue(m, interface, mapping, payload),
           payload = AstartePayload(m, FALSE),
           \A i \in DOMAIN m.entries : Finite(m.entries[i].data)
    PROVE  Queued'
<1>1. PICK q : q = [name |-> m.name, path |-> m.path, payload |-> payload,
                    qos |-> Qos(interface, m.path), retention |-> mapping.retention, sent |-> m]
    OBVIOUS
<1>2. Sound(q)
    BY <1>1 DEF Sound
<1>3. queue' = queue \/ queue' = Append(queue, q)
    BY <1>1 DEF Enqueue
<1>4. CASE queue' = queue
    BY <1>4 DEF Queued, Sound
<1>5. CASE queue' = Append(queue, q)
    <2>1. PICK S, n : S = Range(queue) /\ n = Len(queue)
        OBVIOUS
    <2>2. queue \in Seq(S) /\ n \in Nat /\ DOMAIN queue = 1 .. n
        BY <2>1 DEF Queued
    <2>3. /\ DOMAIN Append(queue, q) = 1 .. n + 1 /\ Append(queue, q)[n + 1] = q
          /\ \A i \in 1 .. n : Append(queue, q)[i] = queue[i]
        <3>1. queue \in Seq(S \cup {q}) /\ q \in S \cup {q}
            BY <2>2
        <3>2. QED BY <2>1, <2>2, <3>1
    <2>4. Range(queue') = S \cup {q}
        BY <1>5, <2>1, <2>2, <2>3 DEF Range
    <2>5. queue' \in Seq(S \cup {q})
        <3>1. queue \in Seq(S \cup {q}) /\ q \in S \cup {q}
            BY <2>2
        <3>2. QED BY <1>5, <3>1
    <2>6. \A p \in S : Sound(p)
        BY <2>1 DEF Queued
    <2>7. \A p \in S \cup {q} : Sound(p)'
        BY <1>2, <2>6 DEF Sound
    <2>8. QED BY <2>4, <2>5, <2>7 DEF Queued
<1>6. QED BY <1>3, <1>4, <1>5

LEMMA QueuedStep == Queued /\ [Next]_vars => Queued'
<1>1. SUFFICES ASSUME Queued, [Next]_vars PROVE Queued'
    OBVIOUS
<1>2. CASE queue' = queue
    BY <1>1, <1>2 DEF Queued, Sound
<1>3. ASSUME NEW m \in Uplinks, SendIndividual(m), queue' # queue PROVE Queued'
    <2>1. PICK interface, mapping :
            /\ ~m.object
            /\ ValidateIndividual(interface, m.path, m.entries[1].data, m.timestamp) = "ok"
            /\ Enqueue(m, interface, mapping, SerializeIndividual(m.entries[1].data, m.timestamp))
        BY <1>3 DEF SendIndividual
    <2>2. Finite(m.entries[1].data)
        BY <2>1, ValidIsFinite DEF ValidateIndividual
    <2>3. DOMAIN m.entries = 1 .. 1
        BY <2>1, MessageIs
    <2>4. \A i \in DOMAIN m.entries : Finite(m.entries[i].data)
        BY <2>2, <2>3
    <2>5. SerializeIndividual(m.entries[1].data, m.timestamp) = AstartePayload(m, FALSE)
        BY <2>1, IndividualPayload
    <2>6. QED BY <1>1, <2>1, <2>4, <2>5, SoundJoins
<1>4. ASSUME NEW m \in Uplinks, SendObject(m), queue' # queue PROVE Queued'
    <2>1. PICK interface, mapping :
            /\ m.object
            /\ ValidateAggregated(interface, m.path, m.entries, m.timestamp) = "ok"
            /\ Enqueue(m, interface, mapping, SerializeAggregated(m.entries, m.timestamp))
        BY <1>4 DEF SendObject
    <2>2. DOMAIN m.entries \subseteq Nat
        BY MessageIs
    <2>3. \A i \in DOMAIN m.entries : Finite(m.entries[i].data)
        BY <2>1, <2>2, AllValid
    <2>4. SerializeAggregated(m.entries, m.timestamp) = AstartePayload(m, FALSE)
        BY <2>1, AggregatedPayload
    <2>5. QED BY <1>1, <2>1, <2>3, <2>4, SoundJoins
<1>5. \/ queue' = queue
      \/ \E m \in Uplinks : SendIndividual(m)
      \/ \E m \in Uplinks : SendObject(m)
    BY <1>1 DEF Next, vars, Receive, Return, GetEvent, EventCleanup, AstarteSends, AddOperation,
        RemoveOperation, Switch
<1>6. QED BY <1>2, <1>3, <1>4, <1>5

\* What the application sends is queued the way Astarte reads it, whatever its
\* type, its size and its place in an object, and no double in it is NaN or
\* infinite: serialize_individual_payload and serialize_aggregated_payload write
\* what astarte_validation_* let through.
THEOREM PayloadsAlwaysFaithful == Spec => []PayloadsFaithful
<1>1. Init => Queued
    BY DEF Init, Queued, Range
<1>2. Queued => PayloadsFaithful
    BY DEF Queued, Sound, Finite, PayloadsFaithful
<1>3. QED BY <1>1, <1>2, QueuedStep, PTL DEF Spec

-----------------------------------------------------------------------------
(* Sequences of anything. *)

IsSeq(s) == s \in Seq(Range(s))

LEMMA SeqIs ==
    ASSUME NEW s, IsSeq(s)
    PROVE  /\ Len(s) \in Nat /\ DOMAIN s = 1 .. Len(s) /\ s \in Seq(Range(s))
           /\ \A i \in 1 .. Len(s) : s[i] \in Range(s)
BY LenProperties, ElementOfSeq DEF IsSeq

LEMMA ListIs ==
    ASSUME NEW n \in Nat, NEW s, DOMAIN s = 1 .. n, s = [i \in 1 .. n |-> s[i]]
    PROVE  IsSeq(s) /\ Len(s) = n
<1>1. s \in [1 .. n -> Range(s)]
    BY DEF Range
<1>2. QED BY <1>1 DEF IsSeq

LEMMA AppendedIs ==
    ASSUME NEW s, IsSeq(s), NEW e
    PROVE  /\ IsSeq(Append(s, e)) /\ Len(Append(s, e)) = Len(s) + 1
           /\ \A i \in 1 .. Len(s) : Append(s, e)[i] = s[i]
           /\ Append(s, e)[Len(s) + 1] = e
           /\ Range(Append(s, e)) = Range(s) \cup {e}
<1>1. PICK S : S = Range(s) \cup {e}
    OBVIOUS
<1>2. s \in Seq(S) /\ e \in S
    BY <1>1, SeqMonotonic DEF IsSeq
<1>3. PICK a : a = Append(s, e)
    OBVIOUS
<1>4. /\ a \in Seq(S) /\ Len(a) = Len(s) + 1 /\ a[Len(s) + 1] = e
      /\ \A i \in 1 .. Len(s) : a[i] = s[i]
    BY <1>2, <1>3, AppendProperties
<1>5. Len(s) \in Nat /\ DOMAIN s = 1 .. Len(s) /\ DOMAIN a = 1 .. Len(s) + 1
    BY <1>4, SeqIs, LenProperties
<1>6. Range(a) = Range(s) \cup {e}
    BY <1>4, <1>5 DEF Range
<1>7. IsSeq(a)
    BY <1>1, <1>4, <1>6 DEF IsSeq
<1>8. QED BY <1>3, <1>4, <1>6, <1>7

LEMMA JoinedIs ==
    ASSUME NEW s, NEW t, IsSeq(s), IsSeq(t)
    PROVE  /\ IsSeq(s \o t) /\ Len(s \o t) = Len(s) + Len(t)
           /\ \A i \in 1 .. Len(s) : (s \o t)[i] = s[i]
           /\ \A i \in 1 .. Len(t) : (s \o t)[Len(s) + i] = t[i]
           /\ Range(s \o t) = Range(s) \cup Range(t)
<1>1. PICK S : S = Range(s) \cup Range(t)
    OBVIOUS
<1>2. s \in Seq(S) /\ t \in Seq(S)
    BY <1>1, SeqMonotonic DEF IsSeq
<1>3. PICK j : j = s \o t
    OBVIOUS
<1>4. /\ j \in Seq(S) /\ Len(j) = Len(s) + Len(t)
      /\ \A i \in 1 .. Len(s) + Len(t) : j[i] = IF i <= Len(s) THEN s[i] ELSE t[i - Len(s)]
    BY <1>2, <1>3, ConcatProperties
<1>5. Len(s) \in Nat /\ Len(t) \in Nat
    BY SeqIs
<1>6. Range(j) = Range(s) \cup Range(t)
    BY <1>2, <1>3, RangeConcatenation
<1>7. IsSeq(j)
    BY <1>1, <1>4, <1>6 DEF IsSeq
<1>8. \A i \in 1 .. Len(s) : j[i] = s[i]
    BY <1>4, <1>5
<1>9. \A i \in 1 .. Len(t) : j[Len(s) + i] = t[i]
    BY <1>4, <1>5
<1>10. QED BY <1>3, <1>4, <1>6, <1>7, <1>8, <1>9

\* The same, as one fact.
Joint(s, t, j) ==
    /\ IsSeq(j) /\ Len(j) = Len(s) + Len(t)
    /\ \A i \in 1 .. Len(s) : j[i] = s[i]
    /\ \A i \in 1 .. Len(t) : j[Len(s) + i] = t[i]
LEMMA AllJoined == \A s, t, j : IsSeq(s) /\ IsSeq(t) /\ j = s \o t => Joint(s, t, j)
<1>1. ASSUME NEW s, NEW t, NEW j, IsSeq(s), IsSeq(t), j = s \o t PROVE Joint(s, t, j)
    <2>1. IsSeq(j) /\ Len(j) = Len(s) + Len(t)
        BY <1>1, JoinedIs
    <2>2. \A i \in 1 .. Len(s) : j[i] = s[i]
        BY <1>1, JoinedIs
    <2>3. \A i \in 1 .. Len(t) : j[Len(s) + i] = t[i]
        BY <1>1, JoinedIs
    <2>4. QED BY <2>1, <2>2, <2>3 DEF Joint
<1>2. QED BY <1>1

LEMMA SinglesAre ==
    /\ IsSeq(<<>>) /\ Len(<<>>) = 0 /\ Range(<<>>) = {}
    /\ \A x : IsSeq(<<x>>) /\ Len(<<x>>) = 1 /\ <<x>>[1] = x /\ Range(<<x>>) = {x}
    /\ \A x, y : /\ IsSeq(<<x, y>>) /\ Len(<<x, y>>) = 2 /\ <<x, y>>[1] = x /\ <<x, y>>[2] = y
                 /\ Range(<<x, y>>) = {x, y}
<1>1. IsSeq(<<>>) /\ Len(<<>>) = 0 /\ Range(<<>>) = {}
    BY DEF IsSeq, Range
<1>2. ASSUME NEW x PROVE IsSeq(<<x>>) /\ Len(<<x>>) = 1 /\ <<x>>[1] = x /\ Range(<<x>>) = {x}
    <2>1. Range(<<x>>) = {x} /\ <<x>> \in Seq({x})
        BY DEF Range
    <2>2. QED BY <2>1 DEF IsSeq
<1>3. ASSUME NEW x, NEW y
      PROVE  /\ IsSeq(<<x, y>>) /\ Len(<<x, y>>) = 2 /\ <<x, y>>[1] = x /\ <<x, y>>[2] = y
             /\ Range(<<x, y>>) = {x, y}
    <2>1. Range(<<x, y>>) = {x, y} /\ <<x, y>> \in Seq({x, y})
        BY DEF Range
    <2>2. QED BY <2>1 DEF IsSeq
<1>4. QED BY <1>1, <1>2, <1>3

\* What sequences of sequences hold, one after the other.
LEMMA FlattenedIs ==
    ASSUME NEW X, NEW seqs \in Seq(Seq(X))
    PROVE  /\ FlattenSeq(seqs) \in Seq(X)
           /\ \A x : x \in Range(FlattenSeq(seqs)) <=> \E i \in 1 .. Len(seqs) : x \in Range(seqs[i])
<1>1. PICK n, f : /\ n = Len(seqs) /\ f \in [0 .. n -> Seq(X)]
                  /\ Joins(f, seqs) /\ FlattenSeq(seqs) = f[n]
    BY FlattenIs
<1>2. n \in Nat /\ \A i \in 1 .. n : seqs[i] \in Seq(X)
    BY <1>1, LenProperties, ElementOfSeq
<1> DEFINE G == {k \in 0 .. n : \A x : x \in Range(f[k]) <=> \E i \in 1 .. k : x \in Range(seqs[i])}
<1>3. 0 \in G
    <2>1. f[0] = <<>>
        BY <1>1 DEF Joins
    <2>2. Range(f[0]) = {}
        BY <2>1, SinglesAre
    <2>3. QED BY <1>2, <2>2
<1>4. ASSUME NEW k \in 1 .. n, k - 1 \in G PROVE k \in G
    <2>0. k - 1 \in 0 .. n
        BY <1>2
    <2>1. f[k] = f[k - 1] \o seqs[k]
        BY <1>1 DEF Joins
    <2>2. f[k - 1] \in Seq(X) /\ seqs[k] \in Seq(X)
        BY <1>1, <1>2, <2>0
    <2>3. Range(f[k]) = Range(f[k - 1]) \cup Range(seqs[k])
        BY <2>1, <2>2, RangeConcatenation
    <2>4. \A x : x \in Range(f[k - 1]) <=> \E i \in 1 .. k - 1 : x \in Range(seqs[i])
        BY <1>4
    <2>5. 1 .. k = 1 .. k - 1 \cup {k} /\ k \in 0 .. n
        BY <1>2
    <2>6. QED BY <2>3, <2>4, <2>5
<1> HIDE DEF G
<1>5. 0 .. n \subseteq G
    BY <1>2, <1>3, <1>4, AllUpTo
<1>6. n \in G /\ n \in 0 .. n
    BY <1>2, <1>5
<1>7. f[n] \in Seq(X)
    BY <1>1, <1>6
<1>8. QED BY <1>1, <1>6, <1>7 DEF G

\* The elements of a document are a sequence, whatever the buffer holds.
LEMMA ElementsAreSeq ==
    ASSUME NEW doc, Len(doc.buf) \in Nat
    PROVE  IsSeq(Elements(doc))
<1> DEFINE N == Len(doc.buf) \div 2
           After(met) ==
                IF met = <<>> THEN FirstElement(doc)
                ELSE IF met[Len(met)].res = "ok" THEN NextElement(doc, met[Len(met)]) ELSE NoElement
           Longer(met) == IF After(met).res = "not_found" THEN met ELSE Append(met, After(met))
           Walk(v) == [n \in 0 .. N |-> IF n = 0 THEN <<>> ELSE Longer(v[n - 1])]
           walk == CHOOSE v : v = Walk(v)
<1>1. Elements(doc) = walk[N]
    BY DEF Elements
<1>2. N \in Nat
    <2>1. PICK n \in Nat : n = Len(doc.buf)
        OBVIOUS
    <2>2. n \div 2 \in Nat
        OBVIOUS
    <2>3. QED BY <2>1, <2>2
<1>3. \A met : IsSeq(met) => IsSeq(Longer(met))
    <2> HIDE DEF After
    <2>1. QED BY AppendedIs
<1> HIDE DEF Longer, N
<1> DEFINE Walks(v, k) ==
            /\ v = [i \in 0 .. k |-> v[i]] /\ v[0] = <<>>
            /\ \A i \in 1 .. k : v[i] = Longer(v[i - 1])
           G == {k \in 0 .. N : \E v : Walks(v, k)}
<1>4. 0 \in G
    <2> DEFINE v == [i \in 0 .. 0 |-> <<>>]
    <2>1. v = [i \in 0 .. 0 |-> v[i]] /\ v[0] = <<>>
        OBVIOUS
    <2>2. \A i \in 1 .. 0 : v[i] = Longer(v[i - 1])
        OBVIOUS
    <2> HIDE DEF v
    <2>3. QED BY <1>2, <2>1, <2>2
<1>5. ASSUME NEW k \in 1 .. N, k - 1 \in G PROVE k \in G
    <2>1. PICK v : Walks(v, k - 1)
        BY <1>5
    <2> DEFINE w == [i \in 0 .. k |-> IF i = k THEN Longer(v[k - 1]) ELSE v[i]]
    <2>2. \A i \in 0 .. k - 1 : i \in 0 .. k /\ w[i] = v[i]
        BY <1>2
    <2>3. w[k] = Longer(v[k - 1]) /\ w = [i \in 0 .. k |-> w[i]]
        BY <1>2
    <2> HIDE DEF w
    <2>4. w[0] = <<>> /\ k - 1 \in 0 .. k - 1 /\ 0 \in 0 .. k - 1
        BY <1>2, <2>1, <2>2
    <2>5. ASSUME NEW i \in 1 .. k PROVE w[i] = Longer(w[i - 1])
        <3>1. CASE i = k
            BY <2>2, <2>3, <2>4, <3>1
        <3>2. CASE i # k
            <4>1. i \in 1 .. k - 1 /\ i \in 0 .. k - 1 /\ i - 1 \in 0 .. k - 1
                BY <1>2, <3>2
            <4>2. v[i] = Longer(v[i - 1])
                BY <2>1, <4>1
            <4>3. QED BY <2>2, <4>1, <4>2
        <3>3. QED BY <3>1, <3>2
    <2>6. Walks(w, k) /\ k \in 0 .. N
        <3>1. k \in 0 .. N
            BY <1>2
        <3>2. \A i \in 1 .. k : w[i] = Longer(w[i - 1])
            BY <2>5
        <3>3. QED BY <2>3, <2>4, <3>1, <3>2
    <2> HIDE DEF Walks
    <2>7. QED BY <2>6
<1> HIDE DEF G
<1>6. N \in G
    <2>1. 0 .. N \subseteq G
        BY <1>2, <1>4, <1>5, AllUpTo
    <2>2. QED BY <1>2, <2>1
<1>7. PICK u : Walks(u, N)
    BY <1>6 DEF G
<1>8. u = Walk(u)
    <2>1. \A i \in 0 .. N : u[i] = IF i = 0 THEN <<>> ELSE Longer(u[i - 1])
        <3>1. ASSUME NEW i \in 0 .. N, i # 0 PROVE i \in 1 .. N
            BY <1>2, <3>1
        <3>2. QED BY <1>7, <3>1
    <2>2. u = [i \in 0 .. N |-> u[i]]
        BY <1>7
    <2> HIDE DEF Walks
    <2>3. QED BY <2>1, <2>2
<1>9. walk = Walk(walk)
    <2> HIDE DEF Walk
    <2>1. QED BY <1>8
<1>10. PICK w : w = walk
    OBVIOUS
<1>11. \A i \in 0 .. N : w[i] = IF i = 0 THEN <<>> ELSE Longer(w[i - 1])
    <2>1. w = Walk(w)
        <3> HIDE DEF Walk
        <3>1. QED BY <1>9, <1>10
    <2>2. \A i \in 0 .. N : Walk(w)[i] = IF i = 0 THEN <<>> ELSE Longer(w[i - 1])
        OBVIOUS
    <2> HIDE DEF Walk, walk
    <2>3. QED BY <2>1, <2>2
<1> DEFINE H == {i \in 0 .. N : IsSeq(w[i])}
<1>12. 0 \in H
    <2>1. w[0] = <<>> /\ 0 \in 0 .. N
        BY <1>2, <1>11
    <2>2. QED BY <2>1, SinglesAre
<1>13. ASSUME NEW i \in 1 .. N, i - 1 \in H PROVE i \in H
    <2>1. i \in 0 .. N /\ i # 0
        BY <1>2
    <2>2. w[i] = Longer(w[i - 1])
        BY <1>11, <2>1
    <2>3. QED BY <1>3, <1>13, <2>1, <2>2
<1> HIDE DEF H, walk
<1>14. 0 .. N \subseteq H
    BY <1>2, <1>12, <1>13, AllUpTo
<1>15. N \in H
    BY <1>2, <1>14
<1>16. IsSeq(w[N])
    BY <1>15 DEF H
<1>17. QED BY <1>1, <1>10, <1>16

-----------------------------------------------------------------------------
(* What deserializing asks for. *)

\* The blocks of the values of a message.
Pieces == [kind : {"item", "array", "sizes", "larger", "fullpath"}, i : Nat]

LEMMA PieceIs ==
    ASSUME NEW kind \in {"item", "array", "sizes", "larger", "fullpath"}, NEW i \in Nat
    PROVE  Block(kind, i) \in Pieces /\ Block(kind, i).kind = kind /\ Block(kind, i).i = i
BY DEF Block, Pieces

\* The items that have memory of their own.
Stored(scalar) == scalar \in {"string", "binaryblob"}
ItemBlocks(scalar, n) == IF Stored(scalar) THEN {Block("item", i) : i \in 1 .. n} ELSE {}

LEMMA ItemAsks ==
    ASSUME NEW doc, NEW element, NEW type \in Scalars, NEW i \in Nat
    PROVE  LET asked == AskItem(doc, element, type, i)
           IN  /\ IsSeq(asked) /\ Range(asked) \subseteq Pieces
               /\ ~NoRoomFor(doc, element, type) =>
                        Range(asked) = IF Stored(type) THEN {Block("item", i)} ELSE {}
<1>1. PICK b : b = Block("item", i)
    OBVIOUS
<1>2. b \in Pieces
    BY <1>1, PieceIs
<1>3. /\ IsSeq(<<>>) /\ Range(<<>>) = {} /\ IsSeq(<<b>>) /\ Range(<<b>>) = {b}
    BY SinglesAre
<1>4. AskItem(doc, element, type, i) =
        IF type = "string" THEN <<b>>
        ELSE IF type = "binaryblob" THEN IF doc.buf[element.value] = 0 THEN <<>> ELSE <<b>> ELSE <<>>
    BY <1>1 DEF AskItem
<1>5. QED BY <1>1, <1>2, <1>3, <1>4 DEF NoRoomFor, Stored

LEMMA LargerAsks ==
    ASSUME NEW scalar, NEW i \in Nat
    PROVE  LET asked == AskLarger(scalar, i)
           IN  IsSeq(asked) /\ Range(asked) \subseteq {Block("larger", i)} /\ Range(asked) \subseteq Pieces
<1>1. PICK b : b = Block("larger", i)
    OBVIOUS
<1>2. b \in Pieces
    BY <1>1, PieceIs
<1>3. /\ IsSeq(<<>>) /\ Range(<<>>) = {} /\ IsSeq(<<b>>) /\ Range(<<b>>) = {b}
      /\ IsSeq(<<b, b>>) /\ Range(<<b, b>>) = {b}
    BY SinglesAre
<1>4. \/ AskLarger(scalar, i) = <<>> \/ AskLarger(scalar, i) = <<b>> \/ AskLarger(scalar, i) = <<b, b>>
    BY <1>1 DEF AskLarger
<1>5. QED BY <1>1, <1>2, <1>3, <1>4

ArrayBlocks(scalar) ==
    IF scalar = "binaryblob" THEN {Block("array", 0), Block("sizes", 0)} ELSE {Block("array", 0)}

LEMMA ArrayAsks ==
    ASSUME NEW scalar
    PROVE  /\ IsSeq(AskArray(scalar)) /\ Range(AskArray(scalar)) = ArrayBlocks(scalar)
           /\ ArrayBlocks(scalar) \subseteq Pieces
<1>1. PICK b, c : b = Block("array", 0) /\ c = Block("sizes", 0)
    OBVIOUS
<1>2. b \in Pieces /\ c \in Pieces
    BY <1>1, PieceIs
<1>3. /\ IsSeq(<<b>>) /\ Range(<<b>>) = {b} /\ IsSeq(<<b, c>>) /\ Range(<<b, c>>) = {b, c}
    BY SinglesAre
<1>4. AskArray(scalar) = IF scalar = "binaryblob" THEN <<b, c>> ELSE <<b>>
    BY <1>1 DEF AskArray
<1>5. QED BY <1>1, <1>2, <1>3, <1>4 DEF ArrayBlocks

\* The first n items of an array.
AskItems(doc, items, scalar, n) ==
    AskArray(scalar) \o FlattenSeq([i \in 1 .. n |->
                            AskLarger(scalar, i) \o AskItem(doc, items[i], scalar, i)])

LEMMA ItemsAsk ==
    ASSUME NEW doc, NEW items, NEW scalar \in Scalars, NEW n \in Nat
    PROVE  LET asked == AskItems(doc, items, scalar, n)
           IN  /\ IsSeq(asked) /\ Range(asked) \subseteq Pieces
               /\ (\A i \in 1 .. n : ~NoRoomFor(doc, items[i], scalar)) =>
                        Kept(asked) = ArrayBlocks(scalar) \cup ItemBlocks(scalar, n)
<1> DEFINE one(i) == AskLarger(scalar, i) \o AskItem(doc, items[i], scalar, i)
           seqs == [i \in 1 .. n |-> one(i)]
<1>1. ASSUME NEW i \in 1 .. n
      PROVE  /\ one(i) \in Seq(Pieces)
             /\ Range(one(i)) = Range(AskLarger(scalar, i)) \cup Range(AskItem(doc, items[i], scalar, i))
    <2>1. PICK s, t : s = AskLarger(scalar, i) /\ t = AskItem(doc, items[i], scalar, i)
        OBVIOUS
    <2>2. IsSeq(s) /\ IsSeq(t) /\ Range(s) \subseteq Pieces /\ Range(t) \subseteq Pieces
        <3>1. i \in Nat
            BY <1>1
        <3>2. QED BY <2>1, <3>1, ItemAsks, LargerAsks
    <2>3. IsSeq(s \o t) /\ Range(s \o t) = Range(s) \cup Range(t)
        BY <2>2, JoinedIs
    <2>4. s \o t \in Seq(Pieces)
        BY <2>2, <2>3, SeqMonotonic DEF IsSeq
    <2>5. QED BY <2>1, <2>3, <2>4
<1>2. seqs \in Seq(Seq(Pieces)) /\ Len(seqs) = n
    <2>1. seqs \in [1 .. n -> Seq(Pieces)]
        BY <1>1
    <2> HIDE DEF seqs
    <2>2. QED BY <2>1
<1>3. \A i \in 1 .. n : seqs[i] = one(i)
    OBVIOUS
<1>4. PICK t : t = FlattenSeq(seqs)
    OBVIOUS
<1> HIDE DEF one, seqs
<1>5. /\ t \in Seq(Pieces)
      /\ \A b : b \in Range(t) <=> \E i \in 1 .. n : b \in Range(one(i))
    BY <1>2, <1>3, <1>4, FlattenedIs
<1>6. PICK s, joined : s = AskArray(scalar) /\ joined = s \o t
    OBVIOUS
<1>7. IsSeq(s) /\ Range(s) = ArrayBlocks(scalar) /\ ArrayBlocks(scalar) \subseteq Pieces
    BY <1>6, ArrayAsks
<1>8. IsSeq(t) /\ Range(t) \subseteq Pieces
    BY <1>5, SeqOfRange, RangeOfSeq DEF IsSeq
<1>9. IsSeq(joined) /\ Range(joined) = ArrayBlocks(scalar) \cup Range(t)
    BY <1>6, <1>7, <1>8, JoinedIs
<1>10. ASSUME \A i \in 1 .. n : ~NoRoomFor(doc, items[i], scalar)
       PROVE  Kept(joined) = ArrayBlocks(scalar) \cup ItemBlocks(scalar, n)
    <2>1. \A i \in 1 .. n : Range(AskItem(doc, items[i], scalar, i)) =
                                IF Stored(scalar) THEN {Block("item", i)} ELSE {}
        BY <1>10, ItemAsks
    <2>2. \A i \in 1 .. n : Range(AskLarger(scalar, i)) \subseteq {Block("larger", i)}
        BY LargerAsks
    <2>3. \A i \in 1 .. n : Block("larger", i).kind = "larger" /\ Block("item", i).kind = "item"
        BY PieceIs
    <2>4. \A b \in ArrayBlocks(scalar) : b.kind \in {"array", "sizes"}
        BY PieceIs DEF ArrayBlocks
    <2>5. \A i \in 1 .. n : Range(one(i)) =
                Range(AskLarger(scalar, i)) \cup Range(AskItem(doc, items[i], scalar, i))
        BY <1>1 DEF one
    <2>6. ASSUME NEW b \in Kept(joined) PROVE b \in ArrayBlocks(scalar) \cup ItemBlocks(scalar, n)
        <3>1. b \in ArrayBlocks(scalar) \cup Range(t) /\ b.kind # "larger"
            BY <1>9 DEF Kept
        <3>2. CASE b \in Range(t)
            <4>1. PICK i \in 1 .. n : b \in Range(one(i))
                BY <1>5, <3>2
            <4>2. b \in Range(AskItem(doc, items[i], scalar, i))
                BY <2>2, <2>3, <2>5, <3>1, <4>1
            <4>3. Stored(scalar) /\ b = Block("item", i)
                BY <2>1, <4>2 DEF Stored
            <4>4. b \in {Block("item", j) : j \in 1 .. n}
                BY <4>3
            <4>5. QED BY <4>3, <4>4 DEF ItemBlocks
        <3>3. QED BY <3>1, <3>2
    <2>7. ASSUME NEW b \in ItemBlocks(scalar, n) PROVE b \in Kept(joined)
        <3>1. PICK i \in 1 .. n : b = Block("item", i) /\ Stored(scalar)
            BY DEF ItemBlocks
        <3>2. b \in Range(one(i)) /\ b.kind = "item"
            BY <2>1, <2>3, <2>5, <3>1
        <3>3. b \in Range(t)
            BY <1>5, <3>2
        <3>4. QED BY <1>9, <3>2, <3>3 DEF Kept
    <2>8. ASSUME NEW b \in ArrayBlocks(scalar) PROVE b \in Kept(joined)
        BY <1>9, <2>4 DEF Kept
    <2>9. QED BY <2>6, <2>7, <2>8
<1>11. joined = AskItems(doc, items, scalar, n)
    BY <1>4, <1>6 DEF seqs, one, AskItems
<1>12. Range(joined) \subseteq Pieces
    BY <1>7, <1>8, <1>9
<1>13. QED BY <1>9, <1>10, <1>11, <1>12

\* What a call that deserializes did, in the form its callers rely on: what it
\* asked for, and that what stays in use is what destroying the value gives back.
IsMade(made) == made = [asked |-> made.asked, error |-> made.error, data |-> made.data]
Deserialized(made, type) ==
    /\ IsMade(made)
    /\ IsSeq(made.asked) /\ Range(made.asked) \subseteq Pieces
    /\ made.error = "none" =>
            /\ made.data.type = type
            /\ type \in Arrays => IsSeq(made.data.value)
            /\ Stays(made) = Destroyed(made.data)

LEMMA MadeIs == \A x, y : IsMade(Failed(x, y)) /\ IsMade(Made(x, y))
BY DEF IsMade, Failed, Made

LEMMA ScalarDeserialized ==
    ASSUME NEW doc, NEW element, NEW type \in Scalars
    PROVE  Deserialized(DeserializeScalar(doc, element, type), type)
<1>1. PICK made : made = DeserializeScalar(doc, element, type)
    OBVIOUS
<1>2. IsSeq(<<>>) /\ Range(<<>>) = {} /\ IsMade(made)
    BY <1>1, SinglesAre, MadeIs DEF DeserializeScalar
<1>3. CASE made.error # "none"
    <2>1. made.asked = <<>>
        BY <1>1, <1>3 DEF DeserializeScalar, Failed, Made
    <2>2. QED BY <1>1, <1>2, <1>3, <2>1 DEF Deserialized
<1>4. CASE made.error = "none"
    <2>1. PICK v, asked : /\ made.asked = asked /\ made.data = [type |-> type, value |-> v]
                          /\ asked = AskItem(doc, element, type, 1)
                          /\ ~NoRoomFor(doc, element, type)
        BY <1>1, <1>4 DEF DeserializeScalar, Failed, Made, Data
    <2>2. /\ IsSeq(asked) /\ Range(asked) \subseteq Pieces
          /\ Range(asked) = IF Stored(type) THEN {Block("item", 1)} ELSE {}
        BY <2>1, ItemAsks
    <2>3. type \notin Arrays
        BY DEF Scalars, ScalarBson, Arrays, ArrayScalar
    <2>4. Kept(asked) = Range(asked)
        BY <2>2, PieceIs DEF Kept
    <2>5. Stays(made) = Range(asked)
        BY <2>1, <2>3, <2>4 DEF Stays
    <2>6. {Block("item", i) : i \in 1 .. 1} = {Block("item", 1)}
        OBVIOUS
    <2>7. Destroyed(made.data) = Range(asked)
        <3>1. made.data.type = type
            BY <2>1
        <3>2. type \notin {"stringarray", "binaryblobarray"}
            BY DEF Scalars, ScalarBson
        <3>3. QED BY <2>2, <2>3, <2>6, <3>1, <3>2 DEF Destroyed, Stored
    <2>8. QED BY <1>1, <1>2, <2>1, <2>2, <2>3, <2>5, <2>7 DEF Deserialized
<1>5. QED BY <1>3, <1>4

LEMMA ItemsDeserialized ==
    ASSUME NEW doc, NEW items, IsSeq(items), NEW type \in Arrays
    PROVE  Deserialized(DeserializeItems(doc, items, type), type)
<1> DEFINE scalar == ArrayScalar[type]
           Error(i) == IF items[i].res # "ok" THEN "bson"
                       ELSE IF ~BsonIsCompatible(scalar, items[i].type) THEN "types"
                       ELSE IF NoRoomFor(doc, items[i], scalar) THEN "memory" ELSE "none"
           Asked(n) == AskArray(scalar) \o FlattenSeq([i \in 1 .. n |->
                            AskLarger(scalar, i) \o AskItem(doc, items[i], scalar, i)])
           wrong == {i \in DOMAIN items : Error(i) # "none"}
           values == [i \in DOMAIN items |-> ScalarOf(doc, items[i], scalar)]
           last == LeastOf(wrong)
           upTo == IF Error(last) = "memory" THEN last ELSE last - 1
<1>1. DeserializeItems(doc, items, type) =
        IF wrong = {} THEN Made(Asked(Len(items)), Data(type, values))
        ELSE Failed(Asked(upTo), Error(last))
    BY DEF DeserializeItems
<1>2. scalar \in Scalars
    BY DEF Arrays, ArrayScalar, Scalars, ScalarBson
<1>3. Len(items) \in Nat /\ DOMAIN items = 1 .. Len(items)
    BY SeqIs
<1>4. ASSUME NEW n \in Nat
      PROVE  /\ IsSeq(Asked(n)) /\ Range(Asked(n)) \subseteq Pieces
             /\ (\A i \in 1 .. n : ~NoRoomFor(doc, items[i], scalar)) =>
                    Kept(Asked(n)) = ArrayBlocks(scalar) \cup ItemBlocks(scalar, n)
    <2>1. Asked(n) = AskItems(doc, items, scalar, n)
        BY DEF AskItems
    <2> HIDE DEF scalar, Asked
    <2>2. QED BY <1>2, <2>1, ItemsAsk
<1>5. CASE wrong # {}
    <2>1. wrong \in SUBSET Nat /\ \A i \in wrong : i \in 1 .. Len(items) /\ Error(i) # "none"
        BY <1>3
    <2>2. last \in wrong
        <3> HIDE DEF wrong
        <3>1. QED BY <1>5, <2>1, LeastOfIs
    <2> HIDE DEF wrong, last, Error
    <2>3. upTo \in Nat /\ Error(last) # "none"
        BY <1>3, <2>1, <2>2
    <2>4. PICK made, asked : /\ made = DeserializeItems(doc, items, type) /\ asked = Asked(upTo)
                             /\ made.asked = asked /\ made.error # "none"
        <3> HIDE DEF Asked, upTo
        <3>1. QED BY <1>1, <1>5, <2>3 DEF Failed
    <2>5. IsSeq(asked) /\ Range(asked) \subseteq Pieces
        <3> HIDE DEF Asked, upTo
        <3>1. QED BY <1>4, <2>3, <2>4
    <2>6. IsMade(made)
        <3> HIDE DEF Asked, upTo
        <3>1. QED BY <1>1, <1>5, <2>4, MadeIs
    <2>7. QED BY <2>4, <2>5, <2>6 DEF Deserialized
<1>6. CASE wrong = {}
    <2>1. \A i \in 1 .. Len(items) : ~NoRoomFor(doc, items[i], scalar)
        BY <1>3, <1>6
    <2>2. PICK n, w : n = Len(items) /\ w = values
        OBVIOUS
    <2>3. DOMAIN w = 1 .. n /\ w = [i \in 1 .. n |-> w[i]] /\ n \in Nat
        BY <1>3, <2>2
    <2>4. IsSeq(w) /\ Len(w) = n
        BY <2>3, ListIs
    <2> HIDE DEF values, Asked, wrong, Error
    <2>5. PICK made, asked : /\ made = DeserializeItems(doc, items, type) /\ asked = Asked(n)
                             /\ made.asked = asked /\ made.data = [type |-> type, value |-> w]
        BY <1>1, <1>6, <2>2 DEF Made, Data
    <2>6. /\ IsSeq(asked) /\ Range(asked) \subseteq Pieces
          /\ Kept(asked) = ArrayBlocks(scalar) \cup ItemBlocks(scalar, n)
        BY <1>4, <2>1, <2>2, <2>3, <2>5
    <2>7. w = <<>> <=> n = 0
        <3>1. w \in Seq(Range(w))
            BY <2>4 DEF IsSeq
        <3>2. QED BY <2>4, <3>1, EmptySeq
    <2>8. Stays(made) = IF n = 0 THEN {} ELSE ArrayBlocks(scalar) \cup ItemBlocks(scalar, n)
        BY <2>5, <2>6, <2>7 DEF Stays
    <2>9. Destroyed(made.data) = IF n = 0 THEN {} ELSE ArrayBlocks(scalar) \cup ItemBlocks(scalar, n)
        <3>1. /\ type = "stringarray" <=> scalar = "string"
              /\ type = "binaryblobarray" <=> scalar = "binaryblob"
              /\ type \notin {"binaryblob", "string"}
            BY DEF Arrays, ArrayScalar
        <3> HIDE DEF scalar
        <3>2. made.data.type = type /\ made.data.value = w
            BY <2>5
        <3>3. CASE n = 0
            BY <2>7, <3>2, <3>3 DEF Destroyed
        <3>4. CASE n # 0
            <4>1. Destroyed(made.data) =
                    IF type = "stringarray" THEN {Block("item", i) : i \in 1 .. n} \cup {Block("array", 0)}
                    ELSE IF type = "binaryblobarray"
                    THEN {Block("item", i) : i \in 1 .. n} \cup {Block("array", 0)} \cup {Block("sizes", 0)}
                    ELSE {Block("array", 0)}
                BY <2>4, <2>7, <3>1, <3>2, <3>4 DEF Destroyed
            <4>2. QED BY <3>1, <3>4, <4>1 DEF ArrayBlocks, ItemBlocks, Stored
        <3>5. QED BY <3>3, <3>4
    <2>10. IsMade(made)
        BY <1>1, <1>6, <2>5, MadeIs
    <2>11. QED BY <2>4, <2>5, <2>6, <2>8, <2>9, <2>10 DEF Deserialized
<1>7. QED BY <1>5, <1>6

\* Deserializing, of any type, keeps just what destroying the value gives back.
LEMMA AllDeserialized ==
    ASSUME NEW doc, Len(doc.buf) \in Nat, NEW element, NEW type \in Types
    PROVE  Deserialized(Deserialize(doc, element, type), type)
<1>1. CASE type \in Scalars
    BY <1>1, ScalarDeserialized DEF Deserialize
<1>2. CASE type \notin Scalars
    <2>1. type \in Arrays
        BY <1>2 DEF Types
    <2>2. PICK items, inner : inner = ToDocument(doc, element) /\ items = Elements(inner)
        OBVIOUS
    <2>3. Len(inner.buf) \in Nat
        BY <2>2 DEF ToDocument, InitDoc
    <2>4. IsSeq(items)
        BY <2>2, <2>3, ElementsAreSeq
    <2>5. Deserialized(DeserializeItems(doc, items, type), type)
        BY <2>1, <2>4, ItemsDeserialized
    <2>6. Deserialized(Failed(<<>>, "types"), type)
        <3>1. IsMade(Failed(<<>>, "types"))
            BY MadeIs
        <3>2. QED BY <3>1, SinglesAre DEF Failed, Deserialized
    <2>7. QED BY <1>2, <2>2, <2>5, <2>6 DEF Deserialize, DeserializeArray
<1>3. QED BY <1>1, <1>2

-----------------------------------------------------------------------------
(* The stages of a handler, and how far they get. *)

\* What the stage that stopped had got: all, or all before the block refused.
GotOf(stage, got) ==
    \/ stage.error # "none" /\ got = stage.asked
    \/ \E x \in DOMAIN stage.asked : got = SubSeq(stage.asked, 1, x - 1)

LEMMA RunIs ==
    ASSUME NEW stages, IsSeq(stages), NEW nth
    PROVE  LET run == Run(stages, nth)
           IN  /\ run.done \in 0 .. Len(stages) /\ run.stopped \in BOOLEAN
               /\ \A i \in 1 .. run.done : stages[i].error = "none"
               /\ ~run.stopped => run.done = Len(stages)
               /\ run.stopped => run.done + 1 \in 1 .. Len(stages) /\ GotOf(stages[run.done + 1], run.got)
<1> DEFINE Asked(v) == [i \in 0 .. Len(stages) |->
                            IF i = 0 THEN 0 ELSE v[i - 1] + Len(stages[i].asked)]
           asked == CHOOSE v : v = Asked(v)
           Refused(i) == nth - asked[i - 1] \in DOMAIN stages[i].asked
           stops == {i \in DOMAIN stages : stages[i].error # "none" \/ Refused(i)}
           last == LeastOf(stops)
           got == IF Refused(last) THEN SubSeq(stages[last].asked, 1, nth - asked[last - 1] - 1)
                  ELSE stages[last].asked
<1>1. Run(stages, nth) = IF stops = {} THEN [done |-> Len(stages), got |-> <<>>, stopped |-> FALSE]
                         ELSE [done |-> last - 1, stopped |-> TRUE, got |-> got]
    BY DEF Run
<1>2. Len(stages) \in Nat /\ DOMAIN stages = 1 .. Len(stages)
    BY SeqIs
<1> HIDE DEF asked
<1>3. CASE stops = {}
    <2>1. \A i \in 1 .. Len(stages) : stages[i].error = "none"
        BY <1>2, <1>3
    <2> HIDE DEF stops, got
    <2>2. PICK run, d : run = Run(stages, nth) /\ d = Len(stages)
        OBVIOUS
    <2>3. run.done = d /\ run.stopped = FALSE
        BY <1>1, <1>3, <2>2
    <2>4. d \in 0 .. d /\ \A i \in 1 .. d : stages[i].error = "none"
        BY <1>2, <2>1, <2>2
    <2>5. QED BY <2>2, <2>3, <2>4
<1>4. CASE stops # {}
    <2>1. stops \in SUBSET Nat
        BY <1>2
    <2>2. last \in stops /\ \A i \in stops : last <= i
        <3> HIDE DEF stops
        <3>1. QED BY <1>4, <2>1, LeastOfIs
    <2>3. /\ last \in 1 .. Len(stages)
          /\ stages[last].error # "none" \/ Refused(last)
        BY <1>2, <2>2
    <2>4. \A i \in 1 .. Len(stages) : i \notin stops => stages[i].error = "none"
        BY <1>2
    <2> HIDE DEF stops, last
    <2>5. \A i \in 1 .. last - 1 : i \notin stops /\ i \in 1 .. Len(stages)
        BY <1>2, <2>2, <2>3
    <2>6. GotOf(stages[last], got)
        BY <2>3 DEF GotOf
    <2> HIDE DEF got, Refused
    <2>7. /\ Run(stages, nth).done = last - 1 /\ Run(stages, nth).stopped = TRUE
          /\ Run(stages, nth).got = got
        BY <1>1, <1>4
    <2>8. PICK run, d : run = Run(stages, nth) /\ d = last - 1
        OBVIOUS
    <2>9. d \in 0 .. Len(stages) /\ d + 1 = last
        BY <1>2, <2>3, <2>8
    <2>10. \A i \in 1 .. d : stages[i].error = "none"
        BY <2>4, <2>5, <2>8
    <2>11. run.done = d /\ run.stopped = TRUE /\ run.got = got
        BY <2>7, <2>8
    <2>12. QED BY <2>3, <2>6, <2>8, <2>9, <2>10, <2>11
<1>5. QED BY <1>3, <1>4

LEMMA GotIsPart ==
    ASSUME NEW stage, IsSeq(stage.asked), NEW got, GotOf(stage, got)
    PROVE  /\ Range(got) \subseteq Range(stage.asked)
           /\ stage.error = "none" /\ Len(stage.asked) = 1 => Range(got) = {}
<1>1. PICK s : s = stage.asked
    OBVIOUS
<1>2. Len(s) \in Nat /\ DOMAIN s = 1 .. Len(s) /\ \A i \in 1 .. Len(s) : s[i] \in Range(s)
    BY <1>1, SeqIs
<1>3. CASE got = s /\ stage.error # "none"
    BY <1>1, <1>3
<1>4. ASSUME NEW x \in DOMAIN s, got = SubSeq(s, 1, x - 1)
      PROVE  Range(got) \subseteq Range(s) /\ (Len(s) = 1 => Range(got) = {})
    <2>1. x \in 1 .. Len(s) /\ x - 1 \in Int
        BY <1>2, <1>4
    <2>2. \A i \in 1 .. x - 1 : s[i] \in Range(s)
        BY <1>2, <2>1
    <2>3. got \in Seq(Range(s)) /\ Len(got) = IF 1 <= x - 1 THEN x - 1 - 1 + 1 ELSE 0
        BY <1>4, <2>1, <2>2, SubSeqProperties
    <2>4. Range(got) \subseteq Range(s)
        BY <2>3, RangeOfSeq
    <2>5. ASSUME Len(s) = 1 PROVE Range(got) = {}
        <3>1. x = 1
            BY <2>1, <2>5
        <3>2. got = <<>>
            BY <1>4, <3>1, SubSeqEmpty
        <3>3. QED BY <3>2, SinglesAre
    <2>6. QED BY <2>4, <2>5
<1>5. QED BY <1>1, <1>3, <1>4 DEF GotOf

\* The mapping that is found is one of the interface.
LEMMA MappingIs ==
    ASSUME NEW interface \in Known, NEW path, MappingFromPath(interface, path) # 0
    PROVE  LET mapping == interface.mappings[MappingFromPath(interface, path)]
           IN  /\ MappingFromPath(interface, path) \in 1 .. Len(interface.mappings)
               /\ mapping.type \in Types /\ mapping.reliability \in 0 .. 2
<1> DEFINE fits == {i \in DOMAIN interface.mappings : CheckPath(interface.mappings[i], path)}
<1>1. PICK maps : maps = interface.mappings
    OBVIOUS
<1>2. IsSeq(maps) /\ \A mapping \in Range(maps) : mapping.type \in Types /\ mapping.reliability \in 0 .. 2
    BY <1>1, InterfaceAssumption DEF Known, IsSeq
<1>3. Len(maps) \in Nat /\ DOMAIN maps = 1 .. Len(maps) /\ \A i \in 1 .. Len(maps) : maps[i] \in Range(maps)
    BY <1>2, SeqIs
<1>4. fits # {} /\ MappingFromPath(interface, path) = LeastOf(fits)
    BY DEF MappingFromPath
<1>5. fits \in SUBSET Nat /\ \A i \in fits : i \in 1 .. Len(maps)
    BY <1>1, <1>3
<1>6. LeastOf(fits) \in fits
    <2> HIDE DEF fits
    <2>1. QED BY <1>4, <1>5, LeastOfIs
<1>7. QED BY <1>1, <1>2, <1>3, <1>4, <1>5, <1>6

\* A value of an event, and the stage that makes the ith of them.
IsEntry(x) == x.data.type \in Types /\ (x.data.type \in Arrays => IsSeq(x.data.value))
OrderlyData(stage, i) ==
    /\ stage.kind = "data" /\ stage.of \in Nat
    /\ IsSeq(stage.asked) /\ Range(stage.asked) \subseteq Pieces
    /\ stage.error # "none" => stage.entry = <<>>
    /\ stage.error = "none" =>
            /\ stage.of = i
            /\ \E x : /\ stage.entry = <<x>> /\ IsEntry(x)
                      /\ KeptBy(stage) = Destroyed(x.data)

\* The stage that puts the event into the queue, if there is room.
OrderlyPut(stage) ==
    /\ stage.kind = "put" /\ stage.of = 0 /\ stage.entry = <<>>
    /\ IsSeq(stage.asked) /\ Range(stage.asked) \subseteq {Block("fullpath", 0)}
    /\ stage.error = "none" => ~Full

EntriesStage == Stage("entries", <<Block("entries", 0)>>, "none")

\* The buffers of the message, the array of entries if it is an object, n
\* values, and the end unless there is an error before.
Orderly(stages, k, n) ==
    /\ IsSeq(stages) /\ k \in {1, 2} /\ n \in Nat /\ Len(stages) \in {k + n, k + n + 1}
    /\ \E error : stages[1] = Buffers(error)
    /\ k = 2 => stages[2] = EntriesStage
    /\ \A i \in 1 .. n : OrderlyData(stages[k + i], i)
    /\ Len(stages) = k + n + 1 => OrderlyPut(stages[k + n + 1])
    /\ Len(stages) = k + n => stages[k + n].error # "none"

LEMMA DataIsOrderly ==
    ASSUME NEW made, NEW asked, NEW type \in Types, Deserialized([made EXCEPT !.asked = asked], type),
           IsMade(made), NEW i \in Nat, NEW name,
           \/ made.asked = asked
           \/ made.asked = <<Block("fullpath", 0)>> \o asked
    PROVE  OrderlyData(DataStage(i, made, name), i)
<1>1. PICK inner, data, error, whole :
        /\ inner = [made EXCEPT !.asked = asked] /\ data = made.data /\ error = made.error
        /\ whole = made.asked
    OBVIOUS
<1>2. /\ inner.asked = asked /\ inner.data = data /\ inner.error = error
    BY <1>1 DEF IsMade
<1>3. /\ IsSeq(asked) /\ Range(asked) \subseteq Pieces
      /\ error = "none" =>
            /\ data.type = type
            /\ type \in Arrays => IsSeq(data.value)
            /\ Stays(inner) = Destroyed(data)
    BY <1>1, <1>2 DEF Deserialized
<1>4. PICK b : b = Block("fullpath", 0)
    OBVIOUS
<1>5. b \in Pieces /\ b.kind = "fullpath"
    BY <1>4, PieceIs
<1>6. IsSeq(<<b>>) /\ Range(<<b>>) = {b}
    BY SinglesAre
<1>7. IsSeq(whole) /\ Range(whole) \subseteq Pieces /\ Kept(whole) = Kept(asked)
    <2>1. CASE whole = asked
        BY <1>3, <2>1
    <2>2. CASE whole = <<b>> \o asked
        <3>1. IsSeq(whole) /\ Range(whole) = {b} \cup Range(asked)
            BY <1>3, <1>6, <2>2, JoinedIs
        <3>2. QED BY <1>3, <1>5, <3>1 DEF Kept
    <2>3. QED BY <1>1, <1>4, <2>1, <2>2
<1>8. PICK stage : stage = DataStage(i, made, name)
    OBVIOUS
<1>9. /\ stage.kind = "data" /\ stage.of = i /\ stage.asked = whole /\ stage.error = error
      /\ stage.entry = IF error = "none" THEN <<[name |-> name, data |-> data]>> ELSE <<>>
    BY <1>1, <1>8 DEF DataStage
<1>10. ASSUME error = "none"
       PROVE  \E x : stage.entry = <<x>> /\ IsEntry(x) /\ KeptBy(stage) = Destroyed(x.data)
    <2>1. PICK x : x = [name |-> name, data |-> data]
        OBVIOUS
    <2>2. stage.entry = <<x>> /\ x.data = data
        BY <1>9, <1>10, <2>1
    <2>3. <<x>> # <<>> /\ <<x>>[1] = x
        OBVIOUS
    <2>4. KeptBy(stage) = Stays([asked |-> whole, data |-> data])
        BY <1>9, <2>2, <2>3 DEF KeptBy
    <2>5. Stays([asked |-> whole, data |-> data]) = Stays(inner)
        BY <1>2, <1>7 DEF Stays
    <2>6. IsEntry(x)
        BY <1>3, <1>10, <2>2 DEF IsEntry
    <2>7. QED BY <1>3, <1>10, <2>2, <2>4, <2>5, <2>6
<1>11. QED BY <1>7, <1>8, <1>9, <1>10 DEF OrderlyData

LEMMA PutIsOrderly ==
    ASSUME NEW verdict, verdict # "none", NEW paths \in {<<>>, <<Block("fullpath", 0)>>}
    PROVE  OrderlyPut(Put(verdict, paths))
<1>1. PICK b : b = Block("fullpath", 0)
    OBVIOUS
<1>2. IsSeq(paths) /\ Range(paths) \subseteq {b}
    BY <1>1, SinglesAre
<1>3. QED BY <1>1, <1>2 DEF Put, Stage, OrderlyPut

LEMMA BuffersAlone == \A error : error # "none" => Orderly(<<Buffers(error)>>, 1, 0)
<1>1. ASSUME NEW error, error # "none" PROVE Orderly(<<Buffers(error)>>, 1, 0)
    <2>1. PICK s : s = <<Buffers(error)>>
        OBVIOUS
    <2>2. IsSeq(s) /\ Len(s) = 1 /\ s[1] = Buffers(error)
        BY <2>1, SinglesAre
    <2>3. Buffers(error).error = error
        BY DEF Buffers, Stage
    <2>4. QED BY <1>1, <2>1, <2>2, <2>3 DEF Orderly
<1>2. QED BY <1>1

\* No verdict is the absence of an error.
LEMMA VerdictsAreNoErrors ==
    /\ \A interface, index, data, ts : ValidateAt(interface, index, data, ts) # "none"
    /\ \A interface, path, data, ts : ValidateIndividual(interface, path, data, ts) # "none"
    /\ \A interface, path, entries, ts :
            IsSeq(entries) => ValidateAggregated(interface, path, entries, ts) # "none"
<1>1. \A interface, index, data, ts : ValidateAt(interface, index, data, ts) # "none"
    BY DEF ValidateAt, CheckTimestamp
<1>2. \A interface, path, data, ts : ValidateIndividual(interface, path, data, ts) # "none"
    BY <1>1 DEF ValidateIndividual
<1>3. ASSUME NEW interface, NEW path, NEW entries, NEW ts, IsSeq(entries)
      PROVE  ValidateAggregated(interface, path, entries, ts) # "none"
    <2> DEFINE verdict == [j \in DOMAIN entries |->
                    ValidateAt(interface, MappingFromPaths(interface, path, entries[j].name),
                               entries[j].data, ts)]
               wrong == {j \in DOMAIN entries : verdict[j] # "ok"}
    <2>1. ValidateAggregated(interface, path, entries, ts) =
            IF wrong # {} THEN verdict[LeastOf(wrong)]
            ELSE IF RequiredPresent(interface, path, entries) THEN "ok" ELSE "incomplete"
        BY DEF ValidateAggregated
    <2>2. DOMAIN entries \subseteq Nat
        BY <1>3, SeqIs
    <2>3. wrong \in SUBSET Nat /\ wrong \subseteq DOMAIN entries
        BY <2>2
    <2>4. \A j \in DOMAIN entries : verdict[j] # "none"
        BY <1>1
    <2> HIDE DEF wrong, verdict
    <2>5. wrong # {} => LeastOf(wrong) \in wrong
        BY <2>3, LeastOfIs
    <2>6. QED BY <2>1, <2>3, <2>4, <2>5
<1>4. QED BY <1>1, <1>2, <1>3

LEMMA IndividualOrderly ==
    ASSUME NEW interface, NEW m, NEW data, OrderlyData(data, 1)
    PROVE  Orderly(IndividualStages(interface, m, data), 1, 1)
<1>1. PICK b, p, s : /\ b = Buffers("none")
                     /\ p = Put(ValidateIndividual(interface, m.path, data.entry[1].data, 0), <<>>)
                     /\ s = IndividualStages(interface, m, data)
    OBVIOUS
<1>2. OrderlyPut(p)
    <2>1. PICK v : v = ValidateIndividual(interface, m.path, data.entry[1].data, 0)
        OBVIOUS
    <2>2. v # "none"
        BY <2>1, VerdictsAreNoErrors
    <2>3. QED BY <1>1, <2>1, <2>2, PutIsOrderly
<1>3. CASE s = <<b, data>> /\ data.error # "none"
    <2>1. IsSeq(s) /\ Len(s) = 2 /\ s[1] = b /\ s[2] = data
        BY <1>3, SinglesAre
    <2>2. OrderlyData(s[1 + 1], 1) /\ s[1 + 1].error # "none"
        BY <1>3, <2>1
    <2>3. \A i \in 1 .. 1 : i = 1
        OBVIOUS
    <2>4. QED BY <1>1, <2>1, <2>2, <2>3 DEF Orderly
<1>4. CASE s = <<b, data, p>>
    <2>1. s \in Seq({b, data, p}) /\ Len(s) = 3 /\ s[1] = b /\ s[2] = data /\ s[3] = p
        BY <1>4
    <2>2. IsSeq(s)
        BY <2>1, SeqOfRange DEF IsSeq
    <2>3. QED BY <1>1, <1>2, <2>1, <2>2 DEF Orderly
<1>5. QED BY <1>1, <1>3, <1>4 DEF IndividualStages

LEMMA EntryOrderly ==
    ASSUME NEW interface \in Known, NEW path, NEW doc, Len(doc.buf) \in Nat, NEW element, NEW i \in Nat
    PROVE  OrderlyData(EntryStage(interface, path, doc, element, i), i)
<1>1. PICK index, b : index = MappingFromPaths(interface, path, element.name) /\ b = Block("fullpath", 0)
    OBVIOUS
<1>2. PICK type, made : type = interface.mappings[index].type /\ made = Deserialize(doc, element, type)
    OBVIOUS
<1>3. CASE index = 0
    <2>1. PICK s : s = EntryStage(interface, path, doc, element, i)
        OBVIOUS
    <2>2. s.kind = "data" /\ s.of = 0 /\ s.asked = <<b>> /\ s.error = "path" /\ s.entry = <<>>
        BY <1>1, <1>3, <2>1 DEF EntryStage, Stage
    <2>3. IsSeq(<<b>>) /\ Range(<<b>>) = {b} /\ b \in Pieces
        BY <1>1, SinglesAre, PieceIs
    <2>4. QED BY <2>1, <2>2, <2>3 DEF OrderlyData
<1>4. CASE index # 0
    <2>1. type \in Types
        BY <1>1, <1>2, <1>4, MappingIs DEF MappingFromPaths
    <2>2. Deserialized(made, type)
        BY <1>2, <2>1, AllDeserialized
    <2>3. PICK a, r : a = made.asked /\ r = [made EXCEPT !.asked = <<b>> \o @]
        OBVIOUS
    <2>4. IsMade(made)
        BY <2>2 DEF Deserialized
    <2>5. r.asked = <<b>> \o a /\ IsMade(r) /\ [r EXCEPT !.asked = a] = made
        BY <2>3, <2>4 DEF IsMade
    <2>6. Deserialized([r EXCEPT !.asked = a], type)
        BY <2>2, <2>5
    <2>7. OrderlyData(DataStage(i, r, element.name), i)
        BY <1>1, <2>1, <2>5, <2>6, DataIsOrderly
    <2>8. EntryStage(interface, path, doc, element, i) = DataStage(i, r, element.name)
        BY <1>1, <1>2, <1>4, <2>3 DEF EntryStage
    <2>9. QED BY <2>7, <2>8
<1>5. QED BY <1>3, <1>4

LEMMA EntriesListed ==
    ASSUME NEW stages, IsSeq(stages), \A i \in 1 .. Len(stages) : OrderlyData(stages[i], i)
    PROVE  IsSeq(EntriesOf(stages))
<1>1. PICK n, seqs : n = Len(stages) /\ seqs = [i \in DOMAIN stages |-> stages[i].entry]
    OBVIOUS
<1>2. n \in Nat /\ DOMAIN stages = 1 .. n
    BY <1>1, SeqIs
<1>3. PICK X : X = UNION {Range(seqs[i]) : i \in 1 .. n}
    OBVIOUS
<1>4. ASSUME NEW i \in 1 .. n PROVE seqs[i] \in Seq(X)
    <2>1. seqs[i] = <<>> \/ \E x : seqs[i] = <<x>>
        BY <1>1, <1>2 DEF OrderlyData
    <2>2. IsSeq(seqs[i])
        BY <2>1, SinglesAre
    <2>3. Range(seqs[i]) \subseteq X
        BY <1>3
    <2>4. QED BY <2>2, <2>3, SeqMonotonic DEF IsSeq
<1>5. seqs \in [1 .. n -> Seq(X)]
    BY <1>1, <1>2, <1>4
<1>6. FlattenSeq(seqs) \in Seq(X)
    <2>1. seqs \in Seq(Seq(X))
        BY <1>2, <1>5
    <2>2. QED BY <2>1, FlattenedIs
<1>7. QED BY <1>1, <1>6, SeqOfRange DEF EntriesOf, IsSeq

LEMMA EntriesOrderly ==
    ASSUME NEW interface, NEW path, NEW stages, IsSeq(stages),
           \A i \in 1 .. Len(stages) : OrderlyData(stages[i], i)
    PROVE  Orderly(FromEntries(interface, path, stages), 2, Len(stages))
<1>1. PICK b, p, s, n, pre : /\ b = Buffers("none") /\ n = Len(stages)
                        /\ p = ObjectVerdict(interface, path, EntriesOf(stages))
                        /\ s = FromEntries(interface, path, stages)
                        /\ pre = <<b, EntriesStage>>
    OBVIOUS
<1>2. OrderlyPut(p)
    <2>1. PICK f : f = <<Block("fullpath", 0)>>
        OBVIOUS
    <2>2. OrderlyPut(Stage("put", f, "incomplete"))
        BY <2>1, SinglesAre DEF Stage, OrderlyPut
    <2>3. \A v : v # "none" => OrderlyPut(Put(v, f))
        BY <2>1, PutIsOrderly
    <2>4. ValidateAggregated(interface, path, EntriesOf(stages), 0) # "none"
        BY EntriesListed, VerdictsAreNoErrors
    <2>5. QED BY <1>1, <2>1, <2>2, <2>3, <2>4 DEF ObjectVerdict
<1>3. IsSeq(pre) /\ Len(pre) = 2 /\ pre[1] = b /\ pre[2] = EntriesStage
    BY <1>1, SinglesAre
<1>4. n \in Nat
    BY <1>1, SeqIs
<1>5. PICK t : t = pre \o stages
    OBVIOUS
<1>6. /\ IsSeq(t) /\ Len(t) = n + 2 /\ t[1] = b /\ t[2] = EntriesStage
      /\ \A i \in 1 .. n : t[2 + i] = stages[i]
    <2>1. Joint(pre, stages, t)
        BY <1>3, <1>5, AllJoined
    <2>2. QED BY <1>1, <1>3, <1>4, <2>1 DEF Joint
<1>7. s = t \o <<p>>
    BY <1>1, <1>5 DEF FromEntries, EntriesStage
<1>8. IsSeq(<<p>>) /\ Len(<<p>>) = 1 /\ <<p>>[1] = p
    BY SinglesAre
<1>9. /\ IsSeq(s) /\ Len(s) = n + 3 /\ s[n + 3] = p
      /\ \A i \in 1 .. n + 2 : s[i] = t[i]
    <2>1. PICK l : l = <<p>>
        OBVIOUS
    <2>2. Joint(t, l, s) /\ Len(l) = 1 /\ l[1] = p
        BY <1>6, <1>7, <1>8, <2>1, AllJoined
    <2>3. QED BY <1>4, <1>6, <2>2 DEF Joint
<1>10. s[1] = b /\ s[2] = EntriesStage /\ \A i \in 1 .. n : s[2 + i] = stages[i]
    BY <1>4, <1>6, <1>9
<1>11. QED BY <1>1, <1>2, <1>4, <1>9, <1>10 DEF Orderly

LEMMA ObjectOrderly ==
    ASSUME NEW interface \in Known, NEW path, NEW doc, Len(doc.buf) \in Nat, NEW elements, IsSeq(elements)
    PROVE  \E k, n : Orderly(ObjectStages(interface, path, doc, elements), k, n)
<1>1. CASE elements = <<>> \/ elements[Len(elements)].res # "ok"
    BY <1>1, BuffersAlone DEF ObjectStages
<1>2. CASE ~(elements = <<>> \/ elements[Len(elements)].res # "ok")
    <2>1. PICK stages : stages = [i \in DOMAIN elements |->
                                    EntryStage(interface, path, doc, elements[i], i)]
        OBVIOUS
    <2>2. PICK n : n \in Nat /\ DOMAIN elements = 1 .. n
        BY SeqIs
    <2>3. /\ DOMAIN stages = 1 .. n
          /\ \A i \in 1 .. n : stages[i] = EntryStage(interface, path, doc, elements[i], i)
        BY <2>1, <2>2
    <2>4. stages = [i \in 1 .. n |-> stages[i]]
        BY <2>1, <2>2
    <2>5. IsSeq(stages) /\ Len(stages) = n
        BY <2>2, <2>3, <2>4, ListIs
    <2>6. \A i \in 1 .. n : OrderlyData(stages[i], i)
        BY <2>2, <2>3, EntryOrderly
    <2>7. Orderly(FromEntries(interface, path, stages), 2, Len(stages))
        BY <2>5, <2>6, EntriesOrderly
    <2>8. ObjectStages(interface, path, doc, elements) = FromEntries(interface, path, stages)
        BY <1>2, <2>1 DEF ObjectStages
    <2>9. QED BY <2>7, <2>8
<1>3. QED BY <1>1, <1>2

\* Whatever a message holds, its handler goes through stages of this form.
LEMMA StagesOrderly ==
    ASSUME Listed, NEW m, Len(m.payload) \in Nat
    PROVE  \E k, n : Orderly(Stages(m), k, n)
<1>1. PICK place, doc, element : /\ place = Find(introspection, m.name)
                                 /\ doc = InitDoc(m.payload, 1) /\ element = Lookup(doc, V)
    OBVIOUS
<1>2. Len(doc.buf) \in Nat
    BY <1>1 DEF InitDoc
<1>3. CASE place = 0 \/ ~CheckValidity(m.payload)
    <2>1. \E error : error # "none" /\ Stages(m) = <<Buffers(error)>>
        BY <1>1, <1>3 DEF Stages
    <2>2. QED BY <2>1, BuffersAlone
<1>4. CASE ~(place = 0 \/ ~CheckValidity(m.payload))
    <2>1. PICK interface : interface = introspection[place]
        OBVIOUS
    <2>2. interface \in Known
        <3>1. place \in 1 .. Len(introspection) /\ introspection \in Seq(Known)
            BY <1>1, <1>4, FindIs DEF Listed, Lists
        <3>2. QED BY <2>1, <3>1, ElementOfSeq
    <2>3. Stages(m) = DataStages(interface, m, doc, element)
        BY <1>1, <1>4, <2>1 DEF Stages
    <2>4. PICK index, object : index = MappingFromPath(interface, m.path) /\ object = ToDocument(doc, element)
        OBVIOUS
    <2>5. Len(object.buf) \in Nat
        BY <1>2, <2>4 DEF ToDocument, InitDoc
    <2>6. PICK elements : elements = Elements(object)
        OBVIOUS
    <2>7. \E k, n : Orderly(ObjectStages(interface, m.path, object, elements), k, n)
        BY <2>2, <2>5, <2>6, ElementsAreSeq, ObjectOrderly
    <2>8. PICK type, made, data : /\ type = interface.mappings[index].type
                                  /\ made = Deserialize(doc, element, type) /\ data = DataStage(1, made, V)
        OBVIOUS
    <2>9. ASSUME index # 0
          PROVE  \E k, n : Orderly(IndividualStages(interface, m, data), k, n)
        <3>1. type \in Types
            BY <2>2, <2>4, <2>8, <2>9, MappingIs
        <3>2. Deserialized(made, type)
            BY <1>2, <2>8, <3>1, AllDeserialized
        <3>3. PICK a : a = made.asked
            OBVIOUS
        <3>4. IsMade(made)
            BY <3>2 DEF Deserialized
        <3>5. [made EXCEPT !.asked = a] = made
            BY <3>3, <3>4 DEF IsMade
        <3>6. Deserialized([made EXCEPT !.asked = a], type)
            BY <3>2, <3>5
        <3>7. OrderlyData(DataStage(1, made, V), 1)
            BY <3>1, <3>3, <3>4, <3>6, DataIsOrderly
        <3>8. QED BY <2>8, <3>7, IndividualOrderly
    <2>10. \/ \E error : error # "none" /\ Stages(m) = <<Buffers(error)>>
           \/ index # 0 /\ Stages(m) = IndividualStages(interface, m, data)
           \/ Stages(m) = ObjectStages(interface, m.path, object, elements)
        BY <2>3, <2>4, <2>6, <2>8 DEF DataStages
    <2>11. QED BY <2>7, <2>9, <2>10, BuffersAlone
<1>5. QED BY <1>3, <1>4

-----------------------------------------------------------------------------
(* What a handler leaves behind. *)

\* Of j places, those of the n that come behind the first k.
Clip(j, k, n) == IF j <= k THEN 0 ELSE IF j <= k + n THEN j - k ELSE n

ClipFacts(j, k, n) ==
    /\ Clip(j, k, n) \in 0 .. n
    /\ \A i \in 1 .. Clip(j, k, n) : k + i \in 1 .. j /\ i \in 1 .. n
ClipNext(i, j, k, n) ==
    /\ j \in k + 1 .. k + n => Clip(j, k, n) = Clip(i, k, n) + 1 /\ k + Clip(j, k, n) = j
    /\ j \notin k + 1 .. k + n => Clip(j, k, n) = Clip(i, k, n)

LEMMA ClipIs == \A j, k, n \in Nat : ClipFacts(j, k, n)
BY DEF Clip, ClipFacts

LEMMA ClipNextIs == \A i, j, k, n \in Nat : i + 1 = j => ClipNext(i, j, k, n)
BY DEF Clip, ClipNext

\* Places that are empty but for those n, which have one thing each.
SinglesAt(seqs, d, k, n) ==
    \A i \in 1 .. d : IF i \in k + 1 .. k + n THEN \E x : seqs[i] = <<x>> ELSE seqs[i] = <<>>
TakenFrom(flat, seqs, k, c) ==
    /\ IsSeq(flat) /\ Len(flat) = c
    /\ \A i \in 1 .. c : seqs[k + i] = <<flat[i]>>

LEMMA SinglesFlatten ==
    ASSUME NEW d \in Nat, NEW k \in Nat, NEW n \in Nat, NEW seqs, IsSeq(seqs), Len(seqs) = d,
           SinglesAt(seqs, d, k, n)
    PROVE  TakenFrom(FlattenSeq(seqs), seqs, k, Clip(d, k, n))
<1>1. PICK X : X = UNION {Range(seqs[i]) : i \in 1 .. d}
    OBVIOUS
<1>2. \A i \in 1 .. d : IsSeq(seqs[i])
    BY SinglesAre DEF SinglesAt
<1>3. \A i \in 1 .. d : seqs[i] \in Seq(X)
    <2>1. ASSUME NEW i \in 1 .. d PROVE seqs[i] \in Seq(X)
        <3>1. Range(seqs[i]) \subseteq X
            BY <1>1
        <3>2. QED BY <1>2, <3>1, SeqMonotonic DEF IsSeq
    <2>2. QED BY <2>1
<1>4. seqs \in Seq(Seq(X))
    <2>1. DOMAIN seqs = 1 .. d /\ seqs \in Seq(Range(seqs))
        BY SeqIs
    <2>2. Range(seqs) \subseteq Seq(X)
        BY <1>3, <2>1 DEF Range
    <2>3. QED BY <2>1, <2>2, SeqMonotonic
<1>5. PICK f : f \in [0 .. d -> Seq(X)] /\ Joins(f, seqs) /\ FlattenSeq(seqs) = f[d]
    <2>1. \E f \in [0 .. Len(seqs) -> Seq(X)] : Joins(f, seqs) /\ FlattenSeq(seqs) = f[Len(seqs)]
        BY <1>4, FlattenIs
    <2>2. QED BY <2>1
<1> DEFINE Good(j) == /\ Len(f[j]) = Clip(j, k, n)
                      /\ \A i \in 1 .. Clip(j, k, n) : seqs[k + i] = <<f[j][i]>>
           G == {j \in 0 .. d : Good(j)}
<1>6. 0 \in G
    <2>1. f[0] = <<>> /\ Len(<<>>) = 0
        BY <1>5, SinglesAre DEF Joins
    <2>2. Clip(0, k, n) = 0
        BY DEF Clip
    <2>3. QED BY <2>1, <2>2
<1>7. ASSUME NEW j \in 1 .. d, j - 1 \in G PROVE j \in G
    <2>1. PICK i \in Nat : i = j - 1
        OBVIOUS
    <2>2. i \in 0 .. d /\ i + 1 = j /\ j \in 0 .. d
        BY <2>1
    <2>3. f[j] = f[i] \o seqs[j]
        BY <1>5, <2>1 DEF Joins
    <2>4. PICK s, t, c : s = f[i] /\ t = f[j] /\ c = Clip(i, k, n)
        OBVIOUS
    <2>5. s \in Seq(X) /\ Len(s) = c /\ \A l \in 1 .. c : seqs[k + l] = <<s[l]>>
        BY <1>5, <1>7, <2>1, <2>2, <2>4
    <2>6. IsSeq(s) /\ c \in Nat
        <3>1. ClipFacts(i, k, n)
            BY <2>1, <2>2, ClipIs
        <3>2. c \in Nat
            BY <2>4, <3>1 DEF ClipFacts
        <3>3. QED BY <2>5, <3>2, SeqOfRange DEF IsSeq
    <2>7. CASE j \in k + 1 .. k + n
        <3>1. PICK x : seqs[j] = <<x>>
            BY <2>7 DEF SinglesAt
        <3>2. PICK one : one = <<x>>
            OBVIOUS
        <3>3. IsSeq(one) /\ Len(one) = 1 /\ one[1] = x
            BY <3>2, SinglesAre
        <3>4. Joint(s, one, t)
            BY <2>3, <2>4, <2>6, <3>1, <3>2, <3>3, AllJoined
        <3>5. Len(t) = c + 1 /\ t[c + 1] = x /\ \A l \in 1 .. c : t[l] = s[l]
            BY <2>5, <2>6, <3>3, <3>4 DEF Joint
        <3>6. Clip(j, k, n) = c + 1 /\ k + (c + 1) = j
            <4>1. ClipNext(i, j, k, n)
                BY <2>2, ClipNextIs
            <4>2. QED BY <2>4, <2>7, <4>1 DEF ClipNext
        <3>7. ASSUME NEW l \in 1 .. c + 1 PROVE seqs[k + l] = <<t[l]>>
            <4>1. CASE l = c + 1
                BY <3>1, <3>5, <3>6, <4>1
            <4>2. CASE l # c + 1
                <5>1. l \in 1 .. c
                    BY <2>6, <4>2
                <5>2. QED BY <2>5, <3>5, <5>1
            <4>3. QED BY <4>1, <4>2
        <3>8. Good(j)
            BY <2>4, <3>5, <3>6, <3>7
        <3>9. QED BY <2>2, <3>8
    <2>8. CASE j \notin k + 1 .. k + n
        <3>1. seqs[j] = <<>>
            BY <2>8 DEF SinglesAt
        <3>2. t = s
            BY <2>3, <2>4, <2>5, <3>1, ConcatEmptySeq
        <3>3. Clip(j, k, n) = c
            <4>1. ClipNext(i, j, k, n)
                BY <2>2, ClipNextIs
            <4>2. QED BY <2>4, <2>8, <4>1 DEF ClipNext
        <3>4. QED BY <2>2, <2>4, <2>5, <3>2, <3>3
    <2>9. QED BY <2>7, <2>8
<1> HIDE DEF G
<1>8. 0 .. d \subseteq G
    BY <1>6, <1>7, AllUpTo
<1>9. Good(d) /\ d \in 0 .. d
    BY <1>8 DEF G
<1>10. IsSeq(f[d])
    BY <1>5, <1>9, SeqOfRange DEF IsSeq
<1>11. QED BY <1>5, <1>9, <1>10 DEF TakenFrom

\* The entries of an event are those of the values that were made.
EntriesFit(entries, stages, d, k, n) ==
    /\ IsSeq(entries) /\ Len(entries) = Clip(d, k, n)
    /\ \A i \in 1 .. Len(entries) :
            /\ k + i \in 1 .. d /\ i \in 1 .. n /\ IsEntry(entries[i])
            /\ stages[k + i].of = i
            /\ KeptBy(stages[k + i]) = Destroyed(entries[i].data)

LEMMA EntriesAre ==
    ASSUME NEW stages, NEW k, NEW n, Orderly(stages, k, n), NEW d \in 0 .. Len(stages),
           \A i \in 1 .. d : stages[i].error = "none"
    PROVE  EntriesFit(EntriesOf(SubSeq(stages, 1, d)), stages, d, k, n)
<1>1. PICK sub, len : sub = SubSeq(stages, 1, d) /\ len = Len(stages)
    OBVIOUS
<1>2. /\ IsSeq(stages) /\ k \in Nat /\ n \in Nat /\ k >= 1 /\ len \in Nat /\ len <= k + n + 1
      /\ d \in Nat /\ d <= len
    BY <1>1, SeqIs DEF Orderly
<1>3. DOMAIN sub = 1 .. d /\ \A i \in 1 .. d : sub[i] = stages[i]
    BY <1>1, <1>2
<1>4. PICK seqs : seqs = [i \in DOMAIN sub |-> sub[i].entry]
    OBVIOUS
<1>5. /\ DOMAIN seqs = 1 .. d /\ seqs = [i \in 1 .. d |-> seqs[i]]
      /\ \A i \in 1 .. d : seqs[i] = stages[i].entry
    BY <1>3, <1>4
<1>6. IsSeq(seqs) /\ Len(seqs) = d
    BY <1>2, <1>5, ListIs
<1>7. ASSUME NEW i \in 1 .. d
      PROVE  IF i \in k + 1 .. k + n THEN \E x : seqs[i] = <<x>> ELSE seqs[i] = <<>>
    <2>1. CASE i \in k + 1 .. k + n
        <3>1. PICK l \in 1 .. n : i = k + l
            <4>1. i - k \in 1 .. n /\ i = k + (i - k)
                BY <1>2, <2>1
            <4>2. QED BY <4>1
        <3>2. OrderlyData(stages[i], l)
            BY <3>1 DEF Orderly
        <3>3. QED BY <1>5, <1>7, <2>1, <3>2 DEF OrderlyData
    <2>2. CASE i \notin k + 1 .. k + n
        <3>1. i = 1 \/ (i = 2 /\ k = 2) \/ (i = k + n + 1 /\ len = k + n + 1)
            BY <1>1, <1>2, <2>2 DEF Orderly
        <3>2. stages[i].entry = <<>>
            BY <1>1, <3>1 DEF Orderly, OrderlyPut, Buffers, EntriesStage, Stage
        <3>3. QED BY <1>5, <2>2, <3>2
    <2>3. QED BY <2>1, <2>2
<1>8. PICK entries, c : entries = FlattenSeq(seqs) /\ c = Clip(d, k, n)
    OBVIOUS
<1>9. IsSeq(entries) /\ Len(entries) = c /\ \A i \in 1 .. c : seqs[k + i] = <<entries[i]>>
    <2>1. SinglesAt(seqs, d, k, n)
        BY <1>7 DEF SinglesAt
    <2>2. TakenFrom(FlattenSeq(seqs), seqs, k, Clip(d, k, n))
        BY <1>2, <1>6, <2>1, SinglesFlatten
    <2>3. QED BY <1>8, <2>2 DEF TakenFrom
<1>10. ASSUME NEW i \in 1 .. c
       PROVE  /\ k + i \in 1 .. d /\ i \in 1 .. n /\ IsEntry(entries[i])
              /\ stages[k + i].of = i
              /\ KeptBy(stages[k + i]) = Destroyed(entries[i].data)
    <2>1. k + i \in 1 .. d /\ i \in 1 .. n
        <3>1. ClipFacts(d, k, n)
            BY <1>2, ClipIs
        <3>2. QED BY <1>8, <3>1 DEF ClipFacts
    <2>2. OrderlyData(stages[k + i], i) /\ stages[k + i].error = "none"
        BY <2>1 DEF Orderly
    <2>3. PICK x : /\ stages[k + i].entry = <<x>> /\ IsEntry(x)
                   /\ KeptBy(stages[k + i]) = Destroyed(x.data)
        BY <2>2 DEF OrderlyData
    <2>4. <<x>> = <<entries[i]>>
        BY <1>5, <1>9, <2>1, <2>3
    <2>5. x = entries[i]
        BY <2>4
    <2>6. QED BY <2>1, <2>2, <2>3, <2>5 DEF OrderlyData
<1>11. EntriesOf(sub) = entries
    BY <1>4, <1>8 DEF EntriesOf
<1>12. QED BY <1>1, <1>8, <1>9, <1>10, <1>11 DEF EntriesFit

-----------------------------------------------------------------------------
(* What Astarte sends is a sequence of cells. *)

Cells(typed) == typed[1] \in Int /\ typed[2] \in Seq(Int)

LEMMA ScalarCells ==
    ASSUME NEW type \in Scalars, NEW v \in ScalarValues(type), NEW short
    PROVE  Cells(AstarteScalar(type, v, short))
<1>1. PICK typed : typed = AstarteScalar(type, v, short)
    OBVIOUS
<1>2. PICK zero : zero = <<0>>
    OBVIOUS
<1>3. zero \in Seq(Int)
    BY <1>2
<1>4. CASE type \in {"string", "binaryblob"}
    <2>1. v \in Seq(Int) /\ Len(v) \in Nat /\ Len(v) \in Int /\ Len(v) + 1 \in Int
        <3>1. v \in Seq(Nat)
            BY <1>4 DEF ScalarValues
        <3>2. QED BY <3>1, LenProperties
    <2>2. PICK n, p : n = Number(Len(v), 4) /\ p = Number(Len(v) + 1, 4)
        OBVIOUS
    <2>3. n \in Seq(Int) /\ p \in Seq(Int)
        BY <2>1, <2>2, NumberIs
    <2>4. n \o zero \o v \in Seq(Int) /\ p \o v \o zero \in Seq(Int)
        BY <1>3, <2>1, <2>3, Joined
    <2>5. typed = <<String, p \o v \o zero>> \/ typed = <<Binary, n \o zero \o v>>
        BY <1>1, <1>2, <1>4, <2>2 DEF AstarteScalar
    <2>6. PICK x, y : x = p \o v \o zero /\ y = n \o zero \o v
        OBVIOUS
    <2>7. typed = <<String, x>> \/ typed = <<Binary, y>>
        BY <2>5, <2>6
    <2>8. x \in Seq(Int) /\ y \in Seq(Int)
        BY <2>4, <2>6
    <2>9. QED BY <1>1, <2>7, <2>8 DEF Cells, String, Binary
<1>5. CASE type \notin {"string", "binaryblob"}
    <2>1. v \in Int
        BY <1>5 DEF ScalarValues
    <2>2. PICK n, p, one : n = Number(v, 4) /\ p = Number(v, 8) /\ one = <<v>>
        OBVIOUS
    <2>3. n \in Seq(Int) /\ p \in Seq(Int) /\ one \in Seq(Int)
        BY <2>1, <2>2, NumberIs
    <2>4. typed = <<Boolean, one>> \/ typed = <<Int32, n>> \/ typed = <<ScalarBson[type], p>>
        BY <1>1, <1>5, <2>2 DEF AstarteScalar
    <2>5. ScalarBson[type] \in Int
        BY DEF Scalars, ScalarBson, Binary, Boolean, DateTime, Double, Int32, Int64, String
    <2>6. QED BY <1>1, <2>3, <2>4, <2>5 DEF Cells, Boolean, Int32
<1>6. QED BY <1>4, <1>5

LEMMA NamedCells ==
    \A key \in Seq(Int) : \A typed : Cells(typed) => Element(typed[1], key, typed[2]) \in Seq(Int)
<1>1. ASSUME NEW key \in Seq(Int), NEW typed, Cells(typed)
      PROVE  Element(typed[1], key, typed[2]) \in Seq(Int)
    <2>1. PICK one, zero, v : one = <<typed[1]>> /\ zero = <<0>> /\ v = typed[2]
        OBVIOUS
    <2>2. one \in Seq(Int) /\ zero \in Seq(Int) /\ v \in Seq(Int)
        BY <1>1, <2>1 DEF Cells
    <2>3. one \o key \in Seq(Int)
        BY <2>2, Joined
    <2>4. one \o key \o zero \in Seq(Int)
        BY <2>2, <2>3, Joined
    <2>5. one \o key \o zero \o v \in Seq(Int)
        BY <2>2, <2>4, Joined
    <2>6. QED BY <2>1, <2>5 DEF Element
<1>2. QED BY <1>1

LEMMA DocumentCells ==
    \A n \in Nat : \A seqs \in [1 .. n -> Seq(Int)] : AstarteDocument(seqs) \in Seq(Int)
<1>1. ASSUME NEW n \in Nat, NEW seqs \in [1 .. n -> Seq(Int)] PROVE AstarteDocument(seqs) \in Seq(Int)
    <2>1. seqs \in Seq(Seq(Int))
        OBVIOUS
    <2>2. QED BY <2>1, DocumentBuilt
<1>2. QED BY <1>1

LEMMA ElementCells ==
    ASSUME NEW name \in Seq(Int), NEW data, data.type \in Types, data.value \in Values(data.type), NEW short
    PROVE  AstarteElement(name, data, short) \in Seq(Int)
<1>1. CASE data.type \in Scalars
    <2>1. PICK typed : typed = AstarteScalar(data.type, data.value, short)
        OBVIOUS
    <2>2. Cells(typed)
        BY <1>1, <2>1, ScalarCells DEF Values
    <2>3. AstarteElement(name, data, short) = Element(typed[1], name, typed[2])
        BY <1>1, <2>1 DEF AstarteElement, Element
    <2>4. QED BY <2>2, <2>3, NamedCells
<1>2. CASE data.type \notin Scalars
    <2>1. PICK scalar, value : scalar = ArrayScalar[data.type] /\ value = data.value
        OBVIOUS
    <2>2. scalar \in Scalars
        BY <1>2, <2>1 DEF Types, Arrays, ArrayScalar, Scalars, ScalarBson
    <2>3. value \in Seq(ScalarValues(scalar))
        BY <1>2, <2>1 DEF Values
    <2>4. PICK n : n = Len(value) /\ n \in Nat /\ DOMAIN value = 1 .. n
        BY <2>3, LenProperties
    <2> DEFINE Item2(i) == LET typed == AstarteScalar(scalar, value[i], short)
                           IN  Element(typed[1], <<47 + i>>, typed[2])
               items == [i \in DOMAIN value |-> Item2(i)]
    <2>5. ASSUME NEW i \in 1 .. n PROVE Item2(i) \in Seq(Int)
        <3>1. value[i] \in ScalarValues(scalar)
            BY <2>3, <2>4, ElementOfSeq
        <3>2. PICK typed, key : typed = AstarteScalar(scalar, value[i], short) /\ key = <<47 + i>>
            OBVIOUS
        <3>3. Cells(typed)
            BY <2>2, <3>1, <3>2, ScalarCells
        <3>4. key \in Seq(Int)
            BY <3>2
        <3>5. QED BY <3>2, <3>3, <3>4, NamedCells
    <2>6. items \in [1 .. n -> Seq(Int)]
        BY <2>4, <2>5
    <2>7. AstarteElement(name, data, short) = Element(Array, name, AstarteDocument(items))
        BY <1>2, <2>1 DEF AstarteElement, Element
    <2> HIDE DEF items
    <2>8. PICK typed : typed = <<Array, AstarteDocument(items)>>
        OBVIOUS
    <2>9. AstarteDocument(items) \in Seq(Int)
        BY <2>4, <2>6, DocumentCells
    <2>10. Cells(typed) /\ typed[1] = Array /\ typed[2] = AstarteDocument(items)
        BY <2>8, <2>9 DEF Cells, Array
    <2>11. QED BY <2>7, <2>10, NamedCells
<1>3. QED BY <1>1, <1>2

LEMMA PayloadCells ==
    ASSUME NEW m \in Downlinks, NEW short
    PROVE  AstartePayload(m, short) \in Seq(Int)
<1>1. PICK entries, n : entries = m.entries /\ n = Len(entries)
    OBVIOUS
<1>2. n \in Nat /\ DOMAIN entries = 1 .. n /\ m.timestamp \in Nat /\ (~m.object => n = 1)
    BY <1>1, MessageAssumption, LenProperties
<1>3. ASSUME NEW i \in 1 .. n
      PROVE  AstarteElement(entries[i].name, entries[i].data, short) \in Seq(Int)
    <2>1. /\ entries[i].name \in Seq(Nat) /\ entries[i].data.type \in Types
          /\ entries[i].data.value \in Values(entries[i].data.type)
        BY <1>1, <1>2, MessageAssumption
    <2>2. entries[i].name \in Seq(Int)
        BY <2>1
    <2>3. QED BY <2>1, <2>2, ElementCells
<1> DEFINE parts == [i \in DOMAIN entries |-> AstarteElement(entries[i].name, entries[i].data, short)]
           time == AstarteElement(T, Data("datetime", m.timestamp), FALSE)
           value == IF m.object THEN <<Document>> \o V \o <<0>> \o AstarteDocument(parts)
                    ELSE parts[1]
<1>4. parts \in [1 .. n -> Seq(Int)]
    BY <1>2, <1>3
<1>5. time \in Seq(Int)
    <2>1. PICK d, key : d = Data("datetime", m.timestamp) /\ key = T
        OBVIOUS
    <2>2. d.type \in Types /\ d.value \in Values(d.type)
        BY <1>2, <2>1 DEF Data, Types, Scalars, ScalarBson, Values, ScalarValues
    <2>3. key \in Seq(Int)
        BY <2>1 DEF T
    <2>4. QED BY <2>1, <2>2, <2>3, ElementCells
<1>6. AstartePayload(m, short) = AstarteDocument(IF m.timestamp = 0 THEN <<value>> ELSE <<value, time>>)
    BY <1>1 DEF AstartePayload
<1> HIDE DEF parts, time
<1>7. value \in Seq(Int)
    <2>1. CASE m.object
        <3>1. PICK typed, key : typed = <<Document, AstarteDocument(parts)>> /\ key = V
            OBVIOUS
        <3>2. AstarteDocument(parts) \in Seq(Int)
            BY <1>2, <1>4, DocumentCells
        <3>3. Cells(typed) /\ typed[1] = Document /\ typed[2] = AstarteDocument(parts)
            BY <3>1, <3>2 DEF Cells, Document
        <3>4. key \in Seq(Int)
            BY <3>1 DEF V
        <3>5. Element(typed[1], key, typed[2]) \in Seq(Int)
            BY <3>3, <3>4, NamedCells
        <3>6. value = Element(Document, key, AstarteDocument(parts))
            BY <2>1, <3>1 DEF Element
        <3>7. QED BY <3>3, <3>5, <3>6
    <2>2. CASE ~m.object
        BY <1>2, <1>4, <2>2
    <2>3. QED BY <2>1, <2>2
<1> HIDE DEF value
<1>8. PICK l : l = IF m.timestamp = 0 THEN <<value>> ELSE <<value, time>>
    OBVIOUS
<1>9. l \in [1 .. 1 -> Seq(Int)] \/ l \in [1 .. 2 -> Seq(Int)]
    BY <1>5, <1>7, <1>8
<1>10. QED BY <1>6, <1>8, <1>9, DocumentCells

-----------------------------------------------------------------------------
(* What a handler keeps, and what it gives back. *)

LEMMA OfIs ==
    \A serial, of, blocks, b : b \in Of(serial, of, blocks) <=>
        \E x \in blocks : b = [serial |-> serial, entry |-> of, block |-> x]
BY DEF Of

\* The memory of the first stages of a handler.
Held(serial, stages, d) == UNION {Of(serial, stages[i].of, KeptBy(stages[i])) : i \in 1 .. d}

\* An event that may be looked at, and the one that these stages make.
IsEvent(event) ==
    /\ event.object \in BOOLEAN /\ IsSeq(event.entries)
    /\ \A i \in 1 .. Len(event.entries) : IsEntry(event.entries[i])
EventOf(event, stages, d) ==
    /\ event.object = (\E i \in 1 .. d : stages[i].kind = "entries")
    /\ event.entries = EntriesOf(SubSeq(stages, 1, d))

LEMMA BuffersKept ==
    ASSUME NEW error
    PROVE  /\ Buffers(error).of = 0 /\ Buffers(error).kind = "buffers"
           /\ KeptBy(Buffers(error)) = {Block("payload", 0), Block("topic", 0)}
           /\ IsSeq(Buffers(error).asked)
           /\ Range(Buffers(error).asked) = {Block("payload", 0), Block("topic", 0)}
<1>1. PICK b, c, s, pair : /\ b = Block("payload", 0) /\ c = Block("topic", 0)
                           /\ s = Buffers(error) /\ pair = <<b, c>>
    OBVIOUS
<1>2. s.of = 0 /\ s.kind = "buffers" /\ s.entry = <<>> /\ s.asked = pair
    BY <1>1 DEF Buffers, Stage
<1>3. IsSeq(pair) /\ Range(pair) = {b, c}
    BY <1>1, SinglesAre
<1>4. b.kind = "payload" /\ c.kind = "topic"
    BY <1>1 DEF Block
<1>5. KeptBy(s) = {b, c}
    BY <1>2, <1>3, <1>4 DEF KeptBy, Kept
<1>6. QED BY <1>1, <1>2, <1>3, <1>5

LEMMA EntriesKept ==
    /\ EntriesStage.of = 0 /\ EntriesStage.kind = "entries" /\ EntriesStage.error = "none"
    /\ KeptBy(EntriesStage) = {Block("entries", 0)}
    /\ IsSeq(EntriesStage.asked) /\ Len(EntriesStage.asked) = 1
<1>1. PICK b, s, one : b = Block("entries", 0) /\ s = EntriesStage /\ one = <<b>>
    OBVIOUS
<1>2. s.of = 0 /\ s.kind = "entries" /\ s.error = "none" /\ s.entry = <<>> /\ s.asked = one
    BY <1>1 DEF EntriesStage, Stage
<1>3. IsSeq(one) /\ Len(one) = 1 /\ Range(one) = {b} /\ b.kind = "entries"
    BY <1>1, SinglesAre DEF Block
<1>4. KeptBy(s) = {b}
    BY <1>2, <1>3 DEF KeptBy, Kept
<1>5. QED BY <1>1, <1>2, <1>3, <1>4

LEMMA PutKept ==
    ASSUME NEW stage, OrderlyPut(stage)
    PROVE  KeptBy(stage) = {}
<1>1. Block("fullpath", 0).kind = "fullpath"
    BY DEF Block
<1>2. QED BY <1>1 DEF OrderlyPut, KeptBy, Kept

\* The buffers of the message, and the memory of the event.
HeldFits(event, stages, d) ==
    /\ IsEvent(event)
    /\ Held(event.serial, stages, d) =
            DestroyedEvent(event) \cup (IF d = 0 THEN {} ELSE BufferBlocks(event.serial))

LEMMA HeldIs ==
    ASSUME NEW stages, NEW k, NEW n, Orderly(stages, k, n), NEW d \in 0 .. Len(stages),
           \A i \in 1 .. d : stages[i].error = "none",
           NEW event, EventOf(event, stages, d)
    PROVE  HeldFits(event, stages, d)
<1>1. PICK serial, entries, len, K : /\ serial = event.serial /\ entries = event.entries
                                     /\ len = Len(stages) /\ K = Held(serial, stages, d)
    OBVIOUS
<1>2. EntriesFit(entries, stages, d, k, n)
    BY <1>1, EntriesAre DEF EventOf
<1>3. PICK c : c = Len(entries) /\ c = Clip(d, k, n) /\ c \in Nat /\ DOMAIN entries = 1 .. c
    BY <1>2, SeqIs DEF EntriesFit
<1>4. /\ IsSeq(stages) /\ k \in {1, 2} /\ n \in Nat /\ len \in Nat /\ d \in Nat /\ d <= len
      /\ len \in {k + n, k + n + 1}
    BY <1>1, SeqIs DEF Orderly
<1>5. 1 <= d => stages[1].of = 0 /\ stages[1].kind = "buffers"
                /\ KeptBy(stages[1]) = {Block("payload", 0), Block("topic", 0)}
    BY BuffersKept DEF Orderly
<1>6. k = 2 => stages[2].of = 0 /\ stages[2].kind = "entries" /\ KeptBy(stages[2]) = {Block("entries", 0)}
    BY EntriesKept DEF Orderly
<1>7. \A i \in 1 .. n : stages[k + i].kind = "data"
    BY DEF Orderly, OrderlyData
<1>8. len = k + n + 1 => stages[k + n + 1].kind = "put" /\ KeptBy(stages[k + n + 1]) = {}
    BY <1>1, PutKept DEF Orderly, OrderlyPut
<1>9. \A i \in 1 .. d : \/ i = 1 \/ (i = 2 /\ k = 2) \/ (\E j \in 1 .. n : i = k + j)
                        \/ (i = k + n + 1 /\ len = k + n + 1)
    <2>1. ASSUME NEW i \in 1 .. d, ~(i = 1 \/ (i = 2 /\ k = 2) \/ (i = k + n + 1 /\ len = k + n + 1))
          PROVE  \E j \in 1 .. n : i = k + j
        <3>1. i - k \in 1 .. n /\ i = k + (i - k)
            BY <1>4, <2>1
        <3>2. QED BY <3>1
    <2>2. QED BY <2>1
<1>10. event.object <=> k = 2 /\ d >= 2
    <2>1. event.object <=> \E i \in 1 .. d : stages[i].kind = "entries"
        BY DEF EventOf
    <2>2. ASSUME NEW i \in 1 .. d, stages[i].kind = "entries" PROVE k = 2 /\ d >= 2
        <3>1. i = 2 /\ k = 2
            <4>1. i # 1
                BY <1>4, <1>5, <2>2
            <4>2. ~(\E j \in 1 .. n : i = k + j)
                BY <1>7, <2>2
            <4>3. ~(i = k + n + 1 /\ len = k + n + 1)
                BY <1>8, <2>2
            <4>4. QED BY <1>9, <4>1, <4>2, <4>3
        <3>2. QED BY <1>4, <3>1
    <2>3. ASSUME k = 2, d >= 2 PROVE \E i \in 1 .. d : stages[i].kind = "entries"
        <3>1. 2 \in 1 .. d
            BY <1>4, <2>3
        <3>2. QED BY <1>6, <2>3, <3>1
    <2>4. QED BY <2>1, <2>2, <2>3
<1>11. IsEvent(event)
    BY <1>1, <1>2 DEF IsEvent, EntriesFit, EventOf
<1>12. \A b : b \in K <=> \E i \in 1 .. d : b \in Of(serial, stages[i].of, KeptBy(stages[i]))
    BY <1>1 DEF Held
<1>13. DestroyedEvent(event) =
        (UNION {Of(serial, i, Destroyed(entries[i].data)) : i \in 1 .. c})
        \cup (IF event.object THEN Of(serial, 0, {Block("entries", 0)}) ELSE {})
    BY <1>1, <1>3 DEF DestroyedEvent, DestroyedEntries
<1>14. PICK D, E, B : /\ D = UNION {Of(serial, i, Destroyed(entries[i].data)) : i \in 1 .. c}
                      /\ E = (IF event.object THEN Of(serial, 0, {Block("entries", 0)}) ELSE {})
                      /\ B = (IF d = 0 THEN {} ELSE BufferBlocks(serial))
    OBVIOUS
<1>15. \A i \in 1 .. c : /\ k + i \in 1 .. d
                         /\ Of(serial, stages[k + i].of, KeptBy(stages[k + i])) =
                                Of(serial, i, Destroyed(entries[i].data))
    BY <1>2, <1>3 DEF EntriesFit
<1>16. ASSUME NEW b \in K PROVE b \in D \cup E \cup B
    <2>1. PICK i \in 1 .. d : b \in Of(serial, stages[i].of, KeptBy(stages[i]))
        BY <1>12
    <2>2. CASE i = 1
        <3>1. d # 0 /\ 1 <= d
            BY <1>4, <2>2
        <3>2. b \in BufferBlocks(serial)
            BY <1>5, <2>1, <2>2, <3>1 DEF BufferBlocks
        <3>3. QED BY <1>14, <3>1, <3>2
    <2>3. CASE i = 2 /\ k = 2
        <3>1. event.object
            BY <1>4, <1>10, <2>3
        <3>2. b \in Of(serial, 0, {Block("entries", 0)})
            BY <1>6, <2>1, <2>3
        <3>3. QED BY <1>14, <3>1, <3>2
    <2>4. ASSUME NEW j \in 1 .. n, i = k + j PROVE b \in D
        <3>1. j \in 1 .. c
            BY <1>3, <1>4, <2>4 DEF Clip
        <3>2. b \in Of(serial, j, Destroyed(entries[j].data))
            BY <1>15, <2>1, <2>4, <3>1
        <3>3. QED BY <1>14, <3>1, <3>2
    <2>5. CASE i = k + n + 1 /\ len = k + n + 1
        BY <1>8, <2>1, <2>5, OfIs
    <2>6. QED BY <1>9, <2>2, <2>3, <2>4, <2>5
<1>17. ASSUME NEW b \in D PROVE b \in K
    <2>1. PICK i \in 1 .. c : b \in Of(serial, i, Destroyed(entries[i].data))
        BY <1>14
    <2>2. QED BY <1>12, <1>15, <2>1
<1>18. ASSUME NEW b \in E PROVE b \in K
    <2>1. event.object /\ b \in Of(serial, 0, {Block("entries", 0)})
        BY <1>14
    <2>2. k = 2 /\ 2 \in 1 .. d
        BY <1>4, <1>10, <2>1
    <2>3. QED BY <1>6, <1>12, <2>1, <2>2
<1>19. ASSUME NEW b \in B PROVE b \in K
    <2>1. d # 0 /\ b \in BufferBlocks(serial)
        BY <1>14
    <2>2. 1 \in 1 .. d /\ 1 <= d
        BY <1>4, <2>1
    <2>3. b \in Of(serial, stages[1].of, KeptBy(stages[1]))
        BY <1>5, <2>1, <2>2 DEF BufferBlocks
    <2>4. QED BY <1>12, <2>2, <2>3
<1>20. K = D \cup E \cup B
    BY <1>16, <1>17, <1>18, <1>19
<1>21. QED BY <1>1, <1>11, <1>13, <1>14, <1>20 DEF HeldFits

\* What the stage that stopped leaves when its own cleanup is done.
LEMMA PartIs ==
    ASSUME NEW stages, NEW k, NEW n, Orderly(stages, k, n), NEW x \in 1 .. Len(stages),
           NEW got, GotOf(stages[x], got), NEW serial
    PROVE  IF stages[x].kind = "data" THEN TRUE
           ELSE Of(serial, stages[x].of, Kept(got)) \subseteq BufferBlocks(serial)
<1>1. PICK stage, len : stage = stages[x] /\ len = Len(stages)
    OBVIOUS
<1>2. k \in {1, 2} /\ n \in Nat /\ len \in Nat /\ x \in 1 .. len /\ len \in {k + n, k + n + 1}
    BY <1>1, SeqIs DEF Orderly
<1>3. CASE x = 1
    <2>1. PICK error : stage = Buffers(error)
        BY <1>1, <1>3 DEF Orderly
    <2>2. Range(got) \subseteq {Block("payload", 0), Block("topic", 0)} /\ stage.of = 0
        BY <1>1, <2>1, BuffersKept, GotIsPart
    <2>3. Kept(got) \subseteq {Block("payload", 0), Block("topic", 0)}
        BY <2>2 DEF Kept
    <2>4. Of(serial, stage.of, Kept(got)) \subseteq BufferBlocks(serial)
        BY <2>2, <2>3 DEF BufferBlocks, Of
    <2>5. QED BY <1>1, <2>4
<1>4. CASE x = 2 /\ k = 2
    <2>1. stage = EntriesStage
        BY <1>1, <1>4 DEF Orderly
    <2>2. IsSeq(stage.asked) /\ stage.error = "none" /\ Len(stage.asked) = 1
        BY <2>1, EntriesKept
    <2>3. Range(got) = {}
        BY <1>1, <2>2, GotIsPart
    <2>4. Kept(got) = {}
        BY <2>3 DEF Kept
    <2>5. QED BY <1>1, <2>4, OfIs
<1>5. ASSUME NEW j \in 1 .. n, x = k + j PROVE stage.kind = "data"
    BY <1>1, <1>5 DEF Orderly, OrderlyData
<1>6. CASE x = k + n + 1 /\ len = k + n + 1
    <2>1. OrderlyPut(stage)
        BY <1>1, <1>6 DEF Orderly
    <2>2. Range(got) \subseteq {Block("fullpath", 0)}
        BY <1>1, <2>1, GotIsPart DEF OrderlyPut
    <2>3. Kept(got) = {}
        BY <2>2 DEF Kept, Block
    <2>4. QED BY <1>1, <2>3, OfIs
<1>7. CASE ~(x = 1 \/ (x = 2 /\ k = 2) \/ (x = k + n + 1 /\ len = k + n + 1))
    <2>1. x - k \in 1 .. n /\ x = k + (x - k)
        BY <1>2, <1>7
    <2>2. QED BY <1>1, <1>5, <2>1
<1>8. QED BY <1>3, <1>4, <1>6, <1>7

\* What handling a message comes to: nothing but its buffers stays, and nothing of
\* other messages goes; or there is an event, with its memory.
Dropped(serial) ==
    /\ events' = events /\ stray' = stray
    /\ heap' \subseteq heap \cup BufferBlocks(serial)
    /\ \A b \in heap : b.serial # serial => b \in heap'
Delivered(event) ==
    /\ ~Full /\ events' = Append(events, event) /\ stray' = stray /\ IsEvent(event)
    /\ heap' = heap \cup DestroyedEvent(event) \cup BufferBlocks(event.serial)

LEMMA ReceiveIs ==
    ASSUME Listed, NEW nth, Receive(nth), Len(Head(broker).payload) \in Nat
    PROVE  /\ \/ Dropped(Head(broker).serial)
              \/ \E event : event.serial = Head(broker).serial /\ Delivered(event)
           /\ worker = 0 /\ worker' = Head(broker).serial
           /\ broker # <<>> /\ broker' = Tail(broker) /\ UNCHANGED <<held, spent>>
<1>1. PICK m : m = Head(broker)
    OBVIOUS
<1> DEFINE made(stages, run) ==
            [serial |-> m.serial, name |-> m.name, path |-> m.path,
             object |-> \E i \in 1 .. run.done : stages[i].kind = "entries",
             entries |-> EntriesOf(SubSeq(stages, 1, run.done)), sent |-> m.sent]
           undoing(stages, run) == IF run.stopped THEN DestroyedEvent(made(stages, run)) ELSE {}
<1>2. PICK stages \in {Stages(m)} : \E run \in {Run(stages, nth)} : \E got \in {GotBy(m.serial, stages, run)} :
        /\ events' = IF run.stopped THEN events ELSE Append(events, made(stages, run))
        /\ heap' = (heap \cup got.complete \cup got.partial) \ (undoing(stages, run) \cup got.freed)
        /\ stray' = stray \cup (undoing(stages, run) \ got.complete) \cup (got.freed \ got.partial)
        /\ worker' = m.serial
    BY <1>1 DEF Receive
<1>3. PICK run \in {Run(stages, nth)} : \E got \in {GotBy(m.serial, stages, run)} :
        /\ events' = IF run.stopped THEN events ELSE Append(events, made(stages, run))
        /\ heap' = (heap \cup got.complete \cup got.partial) \ (undoing(stages, run) \cup got.freed)
        /\ stray' = stray \cup (undoing(stages, run) \ got.complete) \cup (got.freed \ got.partial)
        /\ worker' = m.serial
    BY <1>2
<1>4. PICK got \in {GotBy(m.serial, stages, run)} :
        /\ events' = IF run.stopped THEN events ELSE Append(events, made(stages, run))
        /\ heap' = (heap \cup got.complete \cup got.partial) \ (undoing(stages, run) \cup got.freed)
        /\ stray' = stray \cup (undoing(stages, run) \ got.complete) \cup (got.freed \ got.partial)
        /\ worker' = m.serial
    BY <1>3
<1>5. PICK event, undone : /\ event = made(stages, run)
                           /\ undone = undoing(stages, run)
                           /\ undone = IF run.stopped THEN DestroyedEvent(event) ELSE {}
    OBVIOUS
<1>6. /\ events' = IF run.stopped THEN events ELSE Append(events, event)
      /\ heap' = (heap \cup got.complete \cup got.partial) \ (undone \cup got.freed)
      /\ stray' = stray \cup (undone \ got.complete) \cup (got.freed \ got.partial)
      /\ worker = 0 /\ worker' = m.serial
      /\ broker # <<>> /\ broker' = Tail(broker) /\ UNCHANGED <<held, spent>>
    <2> HIDE DEF made, undoing
    <2>1. /\ worker = 0 /\ broker # <<>> /\ broker' = Tail(broker) /\ UNCHANGED <<held, spent>>
        BY DEF Receive
    <2>2. QED BY <1>4, <1>5, <2>1
<1>7. PICK k, n : Orderly(stages, k, n)
    BY <1>1, <1>2, StagesOrderly
<1>8. IsSeq(stages) /\ Len(stages) \in Nat
    BY <1>7, SeqIs DEF Orderly
<1>9. /\ run.done \in 0 .. Len(stages) /\ run.stopped \in BOOLEAN
      /\ \A i \in 1 .. run.done : stages[i].error = "none"
      /\ ~run.stopped => run.done = Len(stages)
      /\ run.stopped => run.done + 1 \in 1 .. Len(stages) /\ GotOf(stages[run.done + 1], run.got)
    BY <1>3, <1>8, RunIs
<1>10. PICK d : d = run.done
    OBVIOUS
<1>11. EventOf(event, stages, d) /\ event.serial = m.serial
    BY <1>5, <1>10 DEF EventOf
<1>12. /\ IsEvent(event)
       /\ Held(m.serial, stages, d) =
            DestroyedEvent(event) \cup (IF d = 0 THEN {} ELSE BufferBlocks(m.serial))
    <2>1. d \in 0 .. Len(stages) /\ \A i \in 1 .. d : stages[i].error = "none"
        BY <1>9, <1>10
    <2>2. HeldFits(event, stages, d)
        BY <1>7, <1>11, <2>1, HeldIs
    <2>3. QED BY <1>11, <2>2 DEF HeldFits
<1>13. got.complete = Held(m.serial, stages, d)
    BY <1>4, <1>10 DEF GotBy, Held
<1>14. CASE ~run.stopped
    <2>1. got.partial = {} /\ got.freed = {} /\ undone = {}
        BY <1>4, <1>5, <1>14 DEF GotBy
    <2>2. d # 0
        BY <1>7, <1>8, <1>9, <1>10, <1>14 DEF Orderly
    <2>3. got.complete = DestroyedEvent(event) \cup BufferBlocks(m.serial)
        BY <1>12, <1>13, <2>2
    <2>4. heap' = heap \cup DestroyedEvent(event) \cup BufferBlocks(m.serial) /\ stray' = stray
        BY <1>6, <2>1, <2>3
    <2>5. events' = Append(events, event)
        BY <1>6, <1>14
    <2>6. ~Full
        <3>1. /\ k \in {1, 2} /\ n \in Nat /\ Len(stages) \in {k + n, k + n + 1}
              /\ Len(stages) = k + n + 1 => OrderlyPut(stages[k + n + 1])
              /\ Len(stages) = k + n => stages[k + n].error # "none"
            BY <1>7 DEF Orderly
        <3>2. \A i \in 1 .. Len(stages) : stages[i].error = "none"
            BY <1>9, <1>14
        <3>3. Len(stages) = k + n + 1 /\ stages[k + n + 1].error = "none"
            BY <3>1, <3>2
        <3>4. QED BY <3>1, <3>3 DEF OrderlyPut
    <2>7. Delivered(event)
        BY <1>11, <1>12, <2>4, <2>5, <2>6 DEF Delivered
    <2>8. QED BY <1>1, <1>6, <1>11, <2>7
<1>15. CASE run.stopped
    <2>1. PICK last, part : last = stages[d + 1] /\ part = Of(m.serial, last.of, Kept(run.got))
        OBVIOUS
    <2>2. /\ got.partial = part
          /\ got.freed = IF last.kind = "data" THEN part ELSE {}
          /\ undone = DestroyedEvent(event)
        BY <1>4, <1>5, <1>10, <1>15, <2>1 DEF GotBy, CleanedUp
    <2>3. IF last.kind = "data" THEN TRUE ELSE part \subseteq BufferBlocks(m.serial)
        <3>1. d + 1 \in 1 .. Len(stages) /\ GotOf(stages[d + 1], run.got)
            BY <1>9, <1>10, <1>15
        <3>2. QED BY <1>7, <2>1, <3>1, PartIs
    <2>4. undone \subseteq got.complete /\ got.freed \subseteq got.partial
        BY <1>12, <1>13, <2>2
    <2>5. stray' = stray
        BY <1>6, <2>4
    <2>6. heap' \subseteq heap \cup BufferBlocks(m.serial)
        BY <1>6, <1>12, <1>13, <2>2, <2>3
    <2>7. ASSUME NEW b \in heap, b.serial # m.serial PROVE b \in heap'
        <3>1. b \notin part
            BY <2>1, <2>7 DEF Of
        <3>2. b \notin DestroyedEvent(event)
            BY <1>11, <2>7 DEF DestroyedEvent, DestroyedEntries, Of
        <3>3. QED BY <1>6, <2>2, <2>7, <3>1, <3>2
    <2>8. Dropped(m.serial)
        BY <1>6, <1>15, <2>5, <2>6, <2>7 DEF Dropped
    <2>9. QED BY <1>1, <1>6, <2>8
<1>16. QED BY <1>9, <1>14, <1>15

\* Where blocks belong: to their message, and to its buffers or its event.
LEMMA BuffersAre ==
    \A serial, b : b \in BufferBlocks(serial) => b.serial = serial /\ b.block.kind \in {"payload", "topic"}
BY DEF BufferBlocks, Of, Block

LEMMA DestroyedAre ==
    ASSUME NEW event, NEW b \in DestroyedEvent(event)
    PROVE  b.serial = event.serial /\ b.block.kind \notin {"payload", "topic"}
<1>1. CASE b \in DestroyedEntries(event.serial, event.entries)
    <2>1. PICK data, i : b \in Of(event.serial, i, Destroyed(data))
        BY <1>1 DEF DestroyedEntries
    <2>2. PICK x \in Destroyed(data) : b = [serial |-> event.serial, entry |-> i, block |-> x]
        BY <2>1, OfIs
    <2>3. x.kind \in {"item", "array", "sizes"}
        BY <2>2 DEF Destroyed, Block
    <2>4. QED BY <2>2, <2>3
<1>2. CASE b \in Of(event.serial, 0, {Block("entries", 0)})
    BY <1>2, OfIs DEF Block
<1>3. QED BY <1>1, <1>2 DEF DestroyedEvent

-----------------------------------------------------------------------------
(* The memory in use. *)

\* The messages in a queue, the oldest first.
Rising(s) == \A i, j \in 1 .. Len(s) : i < j => s[i].serial < s[j].serial
Numbers(s) == \A x \in Range(s) : x.serial \in Nat

\* The first and the others.
Splits(s, first, rest) ==
    /\ IsSeq(rest) /\ Range(s) = {first} \cup Range(rest) /\ Len(rest) + 1 = Len(s)
    /\ Rising(s) => Rising(rest) /\ \A x \in Range(rest) : first.serial < x.serial

LEMMA SplitIs == \A s : IsSeq(s) /\ s # <<>> => Splits(s, Head(s), Tail(s))
<1>1. ASSUME NEW s, IsSeq(s), s # <<>> PROVE Splits(s, Head(s), Tail(s))
    <2>1. PICK S, n, first, rest : S = Range(s) /\ n = Len(s) /\ first = Head(s) /\ rest = Tail(s)
        OBVIOUS
    <2>2. s \in Seq(S) /\ s # <<>>
        BY <1>1, <2>1 DEF IsSeq
    <2>3. /\ n \in Nat /\ n >= 1 /\ DOMAIN s = 1 .. n
          /\ rest \in Seq(S) /\ Len(rest) = n - 1 /\ first = s[1]
          /\ \A i \in 1 .. n - 1 : rest[i] = s[i + 1]
        <3>1. n \in Nat /\ DOMAIN s = 1 .. n
            BY <2>1, <2>2, LenProperties
        <3>2. n # 0
            BY <2>1, <2>2, EmptySeq
        <3>3. rest \in Seq(S) /\ Len(rest) = n - 1 /\ first = s[1]
            BY <2>1, <2>2, HeadTailProperties
        <3>4. \A i \in 1 .. n - 1 : rest[i] = s[i + 1]
            BY <2>1, <2>2, <3>3, HeadTailProperties
        <3>5. QED BY <3>1, <3>2, <3>3, <3>4
    <2>4. IsSeq(rest)
        BY <2>3, SeqOfRange DEF IsSeq
    <2>5. DOMAIN rest = 1 .. n - 1
        BY <2>3, LenProperties
    <2>6. Range(s) = {first} \cup Range(rest)
        <3>1. ASSUME NEW x \in Range(s) PROVE x = first \/ x \in Range(rest)
            <4>1. PICK i \in 1 .. n : x = s[i]
                BY <2>3 DEF Range
            <4>2. CASE i # 1
                <5>1. i - 1 \in 1 .. n - 1 /\ (i - 1) + 1 = i
                    BY <2>3, <4>2
                <5>2. QED BY <2>3, <2>5, <4>1, <5>1 DEF Range
            <4>3. QED BY <2>3, <4>1, <4>2
        <3>2. first \in Range(s)
            BY <2>3 DEF Range
        <3>3. ASSUME NEW x \in Range(rest) PROVE x \in Range(s)
            <4>1. PICK i \in 1 .. n - 1 : x = rest[i]
                BY <2>5 DEF Range
            <4>2. i + 1 \in 1 .. n /\ x = s[i + 1]
                BY <2>3, <4>1
            <4>3. QED BY <2>3, <4>2 DEF Range
        <3>4. QED BY <3>1, <3>2, <3>3
    <2>7. ASSUME Rising(s) PROVE Rising(rest) /\ \A x \in Range(rest) : first.serial < x.serial
        <3>1. \A i \in 1 .. n - 1 : i + 1 \in 1 .. n /\ rest[i] = s[i + 1]
            BY <2>3
        <3>2. \A i, j \in 1 .. n : i < j => s[i].serial < s[j].serial
            BY <2>1, <2>7 DEF Rising
        <3>3. ASSUME NEW i \in 1 .. n - 1, NEW j \in 1 .. n - 1, i < j
              PROVE  rest[i].serial < rest[j].serial
            <4>1. i + 1 < j + 1
                BY <3>3
            <4>2. QED BY <3>1, <3>2, <4>1
        <3>4. ASSUME NEW x \in Range(rest) PROVE first.serial < x.serial
            <4>1. PICK i \in 1 .. n - 1 : x = rest[i]
                BY <2>5 DEF Range
            <4>2. 1 \in 1 .. n /\ 1 < i + 1
                BY <2>3
            <4>3. QED BY <2>3, <3>1, <3>2, <4>1, <4>2
        <3>5. QED BY <2>3, <3>3, <3>4 DEF Rising
    <2>8. Len(rest) + 1 = Len(s)
        BY <2>1, <2>3
    <2>9. QED BY <2>1, <2>4, <2>6, <2>7, <2>8 DEF Splits
<1>2. QED BY <1>1

Extends(s, x, longer) ==
    /\ IsSeq(longer) /\ Range(longer) = Range(s) \cup {x}
    /\ Rising(s) /\ (\A y \in Range(s) : y.serial < x.serial) => Rising(longer)

LEMMA ExtendIs == \A s, x : IsSeq(s) => Extends(s, x, Append(s, x))
<1>1. ASSUME NEW s, NEW x, IsSeq(s) PROVE Extends(s, x, Append(s, x))
    <2>1. PICK n, longer : n = Len(s) /\ longer = Append(s, x)
        OBVIOUS
    <2>2. /\ IsSeq(longer) /\ Len(longer) = n + 1 /\ longer[n + 1] = x
          /\ Range(longer) = Range(s) \cup {x}
          /\ \A i \in 1 .. n : longer[i] = s[i]
        BY <1>1, <2>1, AppendedIs
    <2>3. n \in Nat /\ \A i \in 1 .. n : s[i] \in Range(s)
        BY <1>1, <2>1, SeqIs
    <2>4. ASSUME Rising(s), \A y \in Range(s) : y.serial < x.serial PROVE Rising(longer)
        <3>1. \A i, j \in 1 .. n : i < j => s[i].serial < s[j].serial
            BY <2>1, <2>4 DEF Rising
        <3>2. ASSUME NEW i \in 1 .. n + 1, NEW j \in 1 .. n + 1, i < j
              PROVE  longer[i].serial < longer[j].serial
            <4>1. i \in 1 .. n
                BY <2>3, <3>2
            <4>2. CASE j = n + 1
                BY <2>2, <2>3, <2>4, <4>1, <4>2
            <4>3. CASE j # n + 1
                <5>1. j \in 1 .. n
                    BY <2>3, <4>3
                <5>2. QED BY <2>2, <3>1, <3>2, <4>1, <5>1
            <4>4. QED BY <4>2, <4>3
        <3>3. QED BY <2>2, <3>2 DEF Rising
    <2>5. QED BY <2>1, <2>2, <2>4 DEF Extends
<1>2. QED BY <1>1

\* The events the application has, or will get.
Live == Range(held) \cup Range(events)

\* The queues are sequences, of what it takes.
Lined ==
    /\ IsSeq(broker) /\ IsSeq(events) /\ (held = <<>> \/ \E e : held = <<e>>)
    /\ \A m \in Range(broker) : Len(m.payload) \in Nat
    /\ \A e \in Live : IsEvent(e)

\* Messages have numbers, in the order in which they were sent.
Numbered ==
    /\ spent \in [down : Nat, up : Nat, changes : Nat]
    /\ Rising(broker) /\ Rising(events)
    /\ \A m \in Range(broker) \cup Live : m.serial \in 1 .. spent.down
    /\ \A e \in Live, m \in Range(broker) : e.serial < m.serial
    /\ \A h \in Range(held), e \in Range(events) : h.serial < e.serial

\* The memory in use is that of the events, and that of the message in hand.
Accounted ==
    /\ stray = {}
    /\ \A e \in Live : DestroyedEvent(e) \subseteq heap
    /\ \A b \in heap : \/ worker # 0 /\ b \in BufferBlocks(worker)
                       \/ \E e \in Live : b \in DestroyedEvent(e)

Balanced == Lined /\ Numbered /\ Accounted

LEMMA BalancedInit == Init => Balanced
<1>1. SUFFICES ASSUME Init PROVE Balanced
    OBVIOUS
<1>2. broker = <<>> /\ events = <<>> /\ held = <<>> /\ stray = {} /\ heap = {}
    BY <1>1 DEF Init
<1>3. IsSeq(<<>>) /\ Len(<<>>) = 0 /\ Range(<<>>) = {}
    BY SinglesAre
<1>4. Live = {}
    BY <1>2, <1>3 DEF Live
<1>5. Lined /\ Accounted
    BY <1>2, <1>3, <1>4 DEF Lined, Accounted
<1>6. Rising(<<>>)
    BY <1>3 DEF Rising
<1>7. Numbered
    BY <1>1, <1>2, <1>3, <1>4, <1>6 DEF Init, Numbered
<1>8. QED BY <1>5, <1>7 DEF Balanced

\* The same memory, and no new messages.
LEMMA BalancedStutter ==
    ASSUME Balanced, UNCHANGED <<broker, events, held, stray, heap, worker>>,
           spent' \in [down : Nat, up : Nat, changes : Nat], spent'.down = spent.down
    PROVE  Balanced'
BY DEF Balanced, Lined, Numbered, Accounted, Live, IsSeq, Rising

\* A message is taken from Astarte, and comes to nothing.
LEMMA DroppedBalanced ==
    ASSUME Balanced, broker # <<>>, broker' = Tail(broker), worker = 0, worker' = Head(broker).serial,
           Dropped(Head(broker).serial), UNCHANGED <<held, spent>>
    PROVE  Balanced'
<1>1. PICK m : m = Head(broker)
    OBVIOUS
<1>2. Splits(broker, m, broker')
    BY <1>1, SplitIs DEF Balanced, Lined
<1>3. UNCHANGED <<events, held, spent, stray>> /\ Live' = Live
    BY DEF Dropped, Live
<1>4. m \in Range(broker) /\ Range(broker') \subseteq Range(broker)
    BY <1>2 DEF Splits
<1>5. Lined'
    <2>1. IsSeq(broker') /\ IsSeq(events') /\ (held' = <<>> \/ \E e : held' = <<e>>)
        BY <1>2, <1>3 DEF Splits, Balanced, Lined
    <2>2. \A x \in Range(broker') : Len(x.payload) \in Nat
        BY <1>4 DEF Balanced, Lined
    <2>3. \A e \in Live' : IsEvent(e)
        BY <1>3 DEF Balanced, Lined
    <2>4. QED BY <2>1, <2>2, <2>3 DEF Lined, IsSeq, IsEvent, IsEntry
<1>6. Numbered'
    <2>1. Rising(broker') /\ Rising(events')
        BY <1>2, <1>3 DEF Splits, Balanced, Numbered
    <2>2. QED BY <1>3, <1>4, <2>1 DEF Balanced, Numbered, Rising
<1>7. /\ m.serial \in Nat /\ m.serial # 0
      /\ \A e \in Live : e.serial \in Nat /\ e.serial < m.serial
    BY <1>4 DEF Balanced, Numbered
<1>8. Accounted'
    <2>1. ASSUME NEW e \in Live, NEW b \in DestroyedEvent(e) PROVE b \in heap'
        <3>1. b.serial # m.serial
            BY <1>7, <2>1, DestroyedAre
        <3>2. b \in heap
            BY <2>1 DEF Balanced, Accounted
        <3>3. QED BY <1>1, <3>1, <3>2 DEF Dropped
    <2>2. ASSUME NEW b \in heap'
          PROVE  (worker' # 0 /\ b \in BufferBlocks(worker')) \/ \E e \in Live : b \in DestroyedEvent(e)
        <3>1. b \in heap \/ b \in BufferBlocks(m.serial)
            BY <1>1 DEF Dropped
        <3>2. b \in heap => \E e \in Live : b \in DestroyedEvent(e)
            BY DEF Balanced, Accounted
        <3>3. QED BY <1>1, <1>7, <3>1, <3>2
    <2>3. QED BY <1>3, <2>1, <2>2 DEF Balanced, Accounted
<1>9. QED BY <1>5, <1>6, <1>8 DEF Balanced

\* A message is taken from Astarte, and becomes an event.
LEMMA DeliveredBalanced ==
    ASSUME Balanced, broker # <<>>, broker' = Tail(broker), worker = 0, worker' = Head(broker).serial,
           NEW event, event.serial = Head(broker).serial, Delivered(event), UNCHANGED <<held, spent>>
    PROVE  Balanced'
<1>1. PICK m : m = Head(broker)
    OBVIOUS
<1>2. Splits(broker, m, broker') /\ Extends(events, event, events')
    BY <1>1, SplitIs, ExtendIs DEF Balanced, Lined, Delivered
<1>3. UNCHANGED <<held, spent, stray>> /\ Live' = Live \cup {event}
    BY <1>2 DEF Delivered, Live, Extends
<1>4. m \in Range(broker) /\ Range(broker') \subseteq Range(broker)
    BY <1>2 DEF Splits
<1>5. Lined'
    <2>1. IsSeq(broker') /\ IsSeq(events') /\ (held' = <<>> \/ \E e : held' = <<e>>)
        BY <1>2, <1>3 DEF Splits, Extends, Balanced, Lined
    <2>2. \A x \in Range(broker') : Len(x.payload) \in Nat
        BY <1>4 DEF Balanced, Lined
    <2>3. \A e \in Live' : IsEvent(e)
        BY <1>3 DEF Balanced, Lined, Delivered
    <2>4. QED BY <2>1, <2>2, <2>3 DEF Lined, IsSeq, IsEvent, IsEntry
<1>6. /\ event.serial = m.serial /\ m.serial \in 1 .. spent.down /\ m.serial # 0
      /\ \A e \in Live : e.serial \in Nat /\ e.serial < m.serial
      /\ \A x \in Range(broker') : m.serial < x.serial
    BY <1>1, <1>2, <1>4 DEF Balanced, Numbered, Splits
<1>7. Numbered'
    <2>1. Rising(broker') /\ Rising(events')
        <3>1. \A e \in Range(events) : e.serial < event.serial
            BY <1>6 DEF Live
        <3>2. QED BY <1>2, <3>1 DEF Splits, Extends, Balanced, Numbered
    <2>2. \A x \in Range(broker') \cup Live' : x.serial \in 1 .. spent.down
        BY <1>3, <1>4, <1>6 DEF Balanced, Numbered
    <2>3. \A e \in Live', x \in Range(broker') : e.serial < x.serial
        BY <1>3, <1>4, <1>6 DEF Balanced, Numbered
    <2>4. \A h \in Range(held'), e \in Range(events') : h.serial < e.serial
        BY <1>2, <1>3, <1>6 DEF Balanced, Numbered, Extends, Live
    <2>5. spent \in [down : Nat, up : Nat, changes : Nat]
        BY DEF Balanced, Numbered
    <2>6. QED BY <1>3, <2>1, <2>2, <2>3, <2>4, <2>5 DEF Numbered, Rising
<1>8. Accounted'
    <2>1. ASSUME NEW e \in Live', NEW b \in DestroyedEvent(e) PROVE b \in heap'
        <3>1. e \in Live => b \in heap
            BY <2>1 DEF Balanced, Accounted
        <3>2. QED BY <1>3, <2>1, <3>1 DEF Delivered
    <2>2. ASSUME NEW b \in heap'
          PROVE  (worker' # 0 /\ b \in BufferBlocks(worker')) \/ \E e \in Live' : b \in DestroyedEvent(e)
        <3>1. b \in heap \/ b \in BufferBlocks(m.serial) \/ b \in DestroyedEvent(event)
            BY <1>6 DEF Delivered
        <3>2. b \in heap => \E e \in Live : b \in DestroyedEvent(e)
            BY DEF Balanced, Accounted
        <3>3. QED BY <1>1, <1>3, <1>6, <3>1, <3>2
    <2>3. stray' = {}
        BY <1>3 DEF Balanced, Accounted
    <2>4. QED BY <2>1, <2>2, <2>3 DEF Accounted, DestroyedEvent, DestroyedEntries
<1>9. QED BY <1>5, <1>7, <1>8 DEF Balanced

\* The handler returns: the buffers are of no event.
LEMMA ReturnBalanced == Balanced /\ Return => Balanced'
<1>1. SUFFICES ASSUME Balanced, Return PROVE Balanced'
    OBVIOUS
<1>2. /\ heap' = heap \ BufferBlocks(worker) /\ worker # 0 /\ worker' = 0
      /\ UNCHANGED <<broker, stray, events, held, spent>> /\ Live' = Live
    BY <1>1 DEF Return, Live
<1>3. Lined' /\ Numbered'
    BY <1>1, <1>2 DEF Balanced, Lined, Numbered, IsSeq, Rising
<1>4. ASSUME NEW e \in Live, NEW b \in DestroyedEvent(e) PROVE b \in heap'
    <2>1. b \notin BufferBlocks(worker)
        BY <1>4, DestroyedAre, BuffersAre
    <2>2. b \in heap
        BY <1>1, <1>4 DEF Balanced, Accounted
    <2>3. QED BY <1>2, <2>1, <2>2
<1>5. \A b \in heap' : \E e \in Live : b \in DestroyedEvent(e)
    BY <1>1, <1>2 DEF Balanced, Accounted
<1>6. Accounted'
    BY <1>1, <1>2, <1>4, <1>5 DEF Balanced, Accounted
<1>7. QED BY <1>3, <1>6 DEF Balanced

\* The application takes the first event.
LEMMA GetEventBalanced == Balanced /\ GetEvent => Balanced'
<1>1. SUFFICES ASSUME Balanced, GetEvent PROVE Balanced'
    OBVIOUS
<1>2. PICK e : e = Head(events)
    OBVIOUS
<1>3. /\ held = <<>> /\ events # <<>> /\ held' = <<e>> /\ events' = Tail(events)
      /\ UNCHANGED <<broker, worker, heap, stray, spent>>
    BY <1>1, <1>2 DEF GetEvent
<1>4. Splits(events, e, events')
    BY <1>1, <1>2, <1>3, SplitIs DEF Balanced, Lined
<1>5. Range(held) = {} /\ Range(held') = {e}
    BY <1>3, SinglesAre
<1>6. Live' = Live
    BY <1>4, <1>5 DEF Live, Splits
<1>7. Lined'
    <2>1. IsSeq(broker') /\ IsSeq(events')
        BY <1>1, <1>3, <1>4 DEF Splits, Balanced, Lined
    <2>2. QED BY <1>1, <1>3, <1>6, <2>1 DEF Balanced, Lined, IsEvent, IsEntry, IsSeq
<1>8. Numbered'
    <2>1. Rising(events') /\ \A x \in Range(events') : e.serial < x.serial
        BY <1>1, <1>4 DEF Splits, Balanced, Numbered
    <2>2. QED BY <1>1, <1>3, <1>5, <1>6, <2>1 DEF Balanced, Numbered, Rising
<1>9. Accounted'
    BY <1>1, <1>3, <1>6 DEF Balanced, Accounted
<1>10. QED BY <1>7, <1>8, <1>9 DEF Balanced

\* The application cleans an event up: its memory is of no other event.
LEMMA CleanupBalanced == Balanced /\ EventCleanup => Balanced'
<1>1. SUFFICES ASSUME Balanced, EventCleanup PROVE Balanced'
    OBVIOUS
<1>2. PICK h : held = <<h>>
    BY <1>1 DEF EventCleanup, Balanced, Lined
<1>3. held[1] = h
    BY <1>2
<1>4. /\ heap' = heap \ DestroyedEvent(h) /\ stray' = stray \cup (DestroyedEvent(h) \ heap)
      /\ held' = <<>> /\ UNCHANGED <<broker, worker, events, spent>>
    BY <1>1, <1>3 DEF EventCleanup
<1>5. Range(held) = {h} /\ Range(held') = {}
    BY <1>2, <1>4, SinglesAre
<1>6. Live = {h} \cup Range(events) /\ Live' = Range(events)
    BY <1>4, <1>5 DEF Live
<1>7. Lined'
    BY <1>1, <1>4, <1>6 DEF Balanced, Lined, IsSeq
<1>8. Numbered'
    BY <1>1, <1>4, <1>5, <1>6 DEF Balanced, Numbered, Rising
<1>9. stray' = {}
    BY <1>1, <1>4, <1>6 DEF Balanced, Accounted
<1>10. ASSUME NEW e \in Range(events), NEW b \in DestroyedEvent(e) PROVE b \in heap'
    <2>1. h.serial < e.serial /\ h.serial \in Nat /\ e.serial \in Nat
        BY <1>1, <1>5, <1>6 DEF Balanced, Numbered
    <2>2. b \notin DestroyedEvent(h)
        BY <1>10, <2>1, DestroyedAre
    <2>3. b \in heap
        BY <1>1, <1>6, <1>10 DEF Balanced, Accounted
    <2>4. QED BY <1>4, <2>2, <2>3
<1>11. ASSUME NEW b \in heap'
       PROVE  (worker' # 0 /\ b \in BufferBlocks(worker')) \/ \E e \in Range(events) : b \in DestroyedEvent(e)
    <2>1. b \in heap /\ b \notin DestroyedEvent(h)
        BY <1>4, <1>11
    <2>2. (worker # 0 /\ b \in BufferBlocks(worker)) \/ \E e \in Live : b \in DestroyedEvent(e)
        BY <1>1, <2>1 DEF Balanced, Accounted
    <2>3. QED BY <1>4, <1>6, <2>1, <2>2
<1>12. Accounted'
    BY <1>6, <1>9, <1>10, <1>11 DEF Accounted
<1>13. QED BY <1>7, <1>8, <1>12 DEF Balanced

\* Astarte sends one more message.
LEMMA SendsBalanced ==
    ASSUME Balanced, NEW m \in Downlinks, NEW short, AstarteSends(m, short)
    PROVE  Balanced'
<1>1. PICK x : x = [serial |-> spent.down + 1, name |-> m.name, path |-> m.path,
                    payload |-> AstartePayload(m, short), sent |-> m]
    OBVIOUS
<1>2. /\ broker' = Append(broker, x) /\ spent' = [spent EXCEPT !["down"] = @ + 1]
      /\ UNCHANGED <<worker, heap, stray, events, held>> /\ Live' = Live
    BY <1>1 DEF AstarteSends, Spends, Live
<1>3. x.serial = spent.down + 1 /\ x.payload = AstartePayload(m, short)
    BY <1>1
<1>4. spent \in [down : Nat, up : Nat, changes : Nat]
    BY DEF Balanced, Numbered
<1>5. spent' \in [down : Nat, up : Nat, changes : Nat] /\ spent'.down = spent.down + 1
    BY <1>2, <1>4
<1>6. Extends(broker, x, broker')
    BY <1>2, ExtendIs DEF Balanced, Lined
<1>7. Len(x.payload) \in Nat
    BY <1>3, PayloadCells, LenProperties
<1>8. Lined'
    <2>1. IsSeq(broker') /\ \A y \in Range(broker') : Len(y.payload) \in Nat
        BY <1>6, <1>7 DEF Extends, Balanced, Lined
    <2>2. QED BY <1>2, <2>1 DEF Balanced, Lined, IsSeq
<1>9. \A y \in Range(broker) \cup Live : y.serial \in 1 .. spent.down
    BY DEF Balanced, Numbered
<1>10. \A y \in Range(broker) \cup Live : y.serial \in 1 .. spent.down + 1 /\ y.serial < x.serial
    BY <1>3, <1>4, <1>9
<1>11. Numbered'
    <2>1. Rising(broker')
        BY <1>6, <1>10 DEF Extends, Balanced, Numbered
    <2>2. Range(broker') = Range(broker) \cup {x}
        BY <1>6 DEF Extends
    <2>3. x.serial \in 1 .. spent'.down
        BY <1>3, <1>4, <1>5
    <2>4. \A y \in Range(broker') \cup Live : y.serial \in 1 .. spent'.down
        BY <1>5, <1>10, <2>2, <2>3
    <2>5. \A e \in Live, y \in Range(broker') : e.serial < y.serial
        BY <1>10, <2>2 DEF Balanced, Numbered
    <2>6. QED BY <1>2, <1>5, <2>1, <2>4, <2>5 DEF Balanced, Numbered, Rising
<1>12. Accounted'
    BY <1>2 DEF Balanced, Accounted
<1>13. QED BY <1>8, <1>11, <1>12 DEF Balanced

LEMMA BalancedStep == Balanced /\ Listed /\ [Next]_vars => Balanced'
<1>1. SUFFICES ASSUME Balanced, Listed, [Next]_vars PROVE Balanced'
    OBVIOUS
<1>2. spent \in [down : Nat, up : Nat, changes : Nat]
    BY <1>1 DEF Balanced, Numbered
<1>3. ASSUME NEW nth, Receive(nth) PROVE Balanced'
    <2>1. PICK m : m = Head(broker)
        OBVIOUS
    <2>2. broker # <<>>
        BY <1>3 DEF Receive
    <2>3. Len(m.payload) \in Nat
        <3>1. Splits(broker, m, Tail(broker))
            BY <1>1, <2>1, <2>2, SplitIs DEF Balanced, Lined
        <3>2. m \in Range(broker)
            BY <3>1 DEF Splits
        <3>3. QED BY <1>1, <3>2 DEF Balanced, Lined
    <2>4. /\ \/ Dropped(m.serial)
             \/ \E event : event.serial = m.serial /\ Delivered(event)
          /\ worker = 0 /\ worker' = m.serial
          /\ broker # <<>> /\ broker' = Tail(broker) /\ UNCHANGED <<held, spent>>
        BY <1>1, <1>3, <2>1, <2>3, ReceiveIs
    <2>5. CASE Dropped(m.serial)
        BY <1>1, <2>1, <2>4, <2>5, DroppedBalanced
    <2>6. ASSUME NEW event, event.serial = m.serial, Delivered(event) PROVE Balanced'
        BY <1>1, <2>1, <2>4, <2>6, DeliveredBalanced
    <2>7. QED BY <2>4, <2>5, <2>6
<1>4. ASSUME NEW what \in {"up", "changes"}, NEW max, Spends(what, max),
             UNCHANGED <<broker, events, held, stray, heap, worker>>
      PROVE  Balanced'
    <2>1. spent' \in [down : Nat, up : Nat, changes : Nat] /\ spent'.down = spent.down
        BY <1>2, <1>4 DEF Spends
    <2>2. QED BY <1>1, <1>4, <2>1, BalancedStutter
<1>5. CASE \E m \in Uplinks : SendIndividual(m)
    BY <1>4, <1>5 DEF SendIndividual
<1>6. CASE \E m \in Uplinks : SendObject(m)
    BY <1>4, <1>6 DEF SendObject
<1>7. CASE \E interface \in Changes : AddOperation(interface)
    BY <1>4, <1>7 DEF AddOperation
<1>8. CASE \E interface \in Changes : RemoveOperation(interface.name)
    BY <1>4, <1>8 DEF RemoveOperation
<1>9. CASE Switch \/ UNCHANGED vars
    BY <1>1, <1>2, <1>9, BalancedStutter DEF Switch, vars
<1>10. QED BY <1>1, <1>3, <1>5, <1>6, <1>7, <1>8, <1>9, ReturnBalanced, GetEventBalanced,
        CleanupBalanced, SendsBalanced DEF Next

LEMMA BalancedHolds == Spec => []Balanced
BY BalancedInit, BalancedStep, ListedHolds, PTL DEF Spec

-----------------------------------------------------------------------------
(* How many blocks there are. *)

Counts(S, n) == IsFiniteSet(S) /\ Cardinality(S) = n

LEMMA SmallCounts ==
    /\ Counts({}, 0) /\ \A x : Counts({x}, 1)
    /\ \A S, n : Counts(S, n) => n \in Nat
BY FS_EmptySet, FS_Singleton, FS_CardinalityType DEF Counts

LEMMA UnionCounts == \A S, R, m, n : Counts(S, m) /\ Counts(R, n) /\ S \cap R = {} => Counts(S \cup R, m + n)
<1>1. ASSUME NEW S, NEW R, NEW m, NEW n, Counts(S, m), Counts(R, n), S \cap R = {}
      PROVE  Counts(S \cup R, m + n)
    <2>1. /\ IsFiniteSet(S \cup R)
          /\ Cardinality(S \cup R) = Cardinality(S) + Cardinality(R) - Cardinality(S \cap R)
        BY <1>1, FS_Union DEF Counts
    <2>2. Cardinality(S \cap R) = 0
        BY <1>1, FS_EmptySet
    <2>3. m \in Nat /\ n \in Nat
        BY <1>1, SmallCounts
    <2>4. QED BY <1>1, <2>1, <2>2, <2>3 DEF Counts
<1>2. QED BY <1>1

LEMMA MappedCounts ==
    ASSUME NEW S, NEW n, Counts(S, n), NEW R, NEW f \in [S -> R],
           \A a, b \in S : f[a] = f[b] => a = b,
           \A t \in R : \E s \in S : f[s] = t
    PROVE  Counts(R, n)
<1>1. f \in Bijection(S, R)
    BY DEF Bijection, Injection, Surjection, IsInjective
<1>2. ExistsBijection(S, R)
    BY <1>1 DEF ExistsBijection
<1>3. QED BY <1>2, FS_Bijection DEF Counts

LEMMA OfCounts == \A serial, of, blocks, n : Counts(blocks, n) => Counts(Of(serial, of, blocks), n)
<1>1. ASSUME NEW serial, NEW of, NEW blocks, NEW n, Counts(blocks, n)
      PROVE  Counts(Of(serial, of, blocks), n)
    <2> DEFINE f == [b \in blocks |-> [serial |-> serial, entry |-> of, block |-> b]]
    <2>1. f \in [blocks -> Of(serial, of, blocks)]
        BY DEF Of
    <2>2. \A a, b \in blocks : f[a] = f[b] => a = b
        OBVIOUS
    <2>3. \A t \in Of(serial, of, blocks) : \E b \in blocks : f[b] = t
        BY DEF Of
    <2> HIDE DEF f
    <2>4. QED BY <1>1, <2>1, <2>2, <2>3, MappedCounts
<1>2. QED BY <1>1

ItemsUpTo(n) == {Block("item", i) : i \in 1 .. n}

LEMMA ItemsCount == \A n \in Nat : Counts(ItemsUpTo(n), n)
<1>1. ASSUME NEW n \in Nat PROVE Counts(ItemsUpTo(n), n)
    <2> DEFINE f == [i \in 1 .. n |-> Block("item", i)]
    <2>1. f \in [1 .. n -> ItemsUpTo(n)]
        BY DEF ItemsUpTo
    <2>2. \A a, b \in 1 .. n : f[a] = f[b] => a = b
        BY DEF Block
    <2>3. \A t \in ItemsUpTo(n) : \E i \in 1 .. n : f[i] = t
        BY DEF ItemsUpTo
    <2>4. Counts(1 .. n, n)
        <3>1. IsFiniteSet(1 .. n) /\ Cardinality(1 .. n) = IF 1 > n THEN 0 ELSE n - 1 + 1
            BY FS_Interval
        <3>2. QED BY <3>1 DEF Counts
    <2> HIDE DEF f
    <2>5. QED BY <2>1, <2>2, <2>3, <2>4, MappedCounts
<1>2. QED BY <1>1

\* The blocks of a value are as many as it needs.
LEMMA DestroyedCounts ==
    ASSUME NEW data, data.type \in Types, data.type \in Arrays => IsSeq(data.value)
    PROVE  Counts(Destroyed(data), Needed(data))
<1>1. PICK type, value, a, s : /\ type = data.type /\ value = data.value
                               /\ a = Block("array", 0) /\ s = Block("sizes", 0)
    OBVIOUS
<1>2. a # s /\ Counts({a}, 1) /\ Counts({s}, 1) /\ Counts({}, 0)
    BY <1>1, SmallCounts DEF Block
<1>3. CASE type \in Arrays /\ value = <<>>
    BY <1>1, <1>2, <1>3 DEF Destroyed, Needed
<1>4. CASE type \in Arrays /\ value # <<>>
    <2>1. PICK n, I : n = Len(value) /\ I = ItemsUpTo(n) /\ n \in Nat
        <3>1. Len(value) \in Nat
            BY <1>1, <1>4, SeqIs
        <3>2. QED BY <3>1
    <2>2. Counts(I, n) /\ a \notin I /\ s \notin I
        <3>1. Counts(I, n)
            BY <2>1, ItemsCount
        <3>2. QED BY <1>1, <2>1, <3>1 DEF ItemsUpTo, Block
    <2>3. Counts(I \cup {a}, n + 1)
        <3>1. I \cap {a} = {}
            BY <2>2
        <3>2. QED BY <1>2, <2>2, <3>1, UnionCounts
    <2>4. Counts(I \cup {a} \cup {s}, n + 1 + 1)
        <3>1. (I \cup {a}) \cap {s} = {}
            BY <1>2, <2>2
        <3>2. QED BY <1>2, <2>3, <3>1, UnionCounts
    <2>5. type \notin {"string", "binaryblob"}
        BY <1>4 DEF Arrays, ArrayScalar
    <2>6. Destroyed(data) = IF type = "stringarray" THEN I \cup {a}
                            ELSE IF type = "binaryblobarray" THEN I \cup {a} \cup {s} ELSE {a}
        BY <1>1, <1>4, <2>1, <2>5 DEF Destroyed, ItemsUpTo
    <2>7. Needed(data) = IF type = "stringarray" THEN 1 + n
                         ELSE IF type = "binaryblobarray" THEN 2 + n ELSE 1
        BY <1>1, <1>4, <2>1, <2>5 DEF Needed
    <2>8. 1 + n = n + 1 /\ 2 + n = n + 1 + 1
        BY <2>1
    <2>9. QED BY <1>2, <2>3, <2>4, <2>6, <2>7, <2>8
<1>5. CASE type \notin Arrays
    <2>1. type \notin {"stringarray", "binaryblobarray"}
        BY <1>5 DEF Arrays, ArrayScalar
    <2>2. Destroyed(data) = IF type \in {"string", "binaryblob"} THEN ItemsUpTo(1) ELSE {}
        BY <1>1, <1>5, <2>1 DEF Destroyed, ItemsUpTo
    <2>3. Needed(data) = IF type \in {"string", "binaryblob"} THEN 1 ELSE 0
        BY <1>1, <1>5, <2>1 DEF Needed
    <2>4. Counts(ItemsUpTo(1), 1)
        BY ItemsCount
    <2>5. QED BY <1>2, <2>2, <2>3, <2>4
<1>6. QED BY <1>3, <1>4, <1>5

\* The blocks of the first entries of an event, and of the array of them.
Memory(e, j) ==
    {b \in DestroyedEvent(e) : b.entry \in 0 .. j}

LEMMA MemoryGrows ==
    ASSUME NEW e, IsEvent(e)
    PROVE  /\ Memory(e, Len(e.entries)) = DestroyedEvent(e)
           /\ Counts(Memory(e, 0), IF e.object THEN 1 ELSE 0)
           /\ \A j \in 1 .. Len(e.entries) : \A n :
                Counts(Memory(e, j - 1), n) => Counts(Memory(e, j), n + Needed(e.entries[j].data))
<1>1. PICK len, E : /\ len = Len(e.entries)
                    /\ E = (IF e.object THEN Of(e.serial, 0, {Block("entries", 0)}) ELSE {})
    OBVIOUS
<1> DEFINE D(i) == Of(e.serial, i, Destroyed(e.entries[i].data))
<1>2. len \in Nat /\ DOMAIN e.entries = 1 .. len
    BY <1>1, SeqIs DEF IsEvent
<1>3. \A b : b \in DestroyedEvent(e) <=> b \in E \/ \E i \in 1 .. len : b \in D(i)
    BY <1>1, <1>2 DEF DestroyedEvent, DestroyedEntries
<1>4. (\A b \in E : b.entry = 0) /\ \A i \in 1 .. len : \A b \in D(i) : b.entry = i
    BY <1>1 DEF Of
<1> HIDE DEF D
<1>5. Memory(e, len) = DestroyedEvent(e)
    BY <1>2, <1>3, <1>4 DEF Memory
<1>6. Memory(e, 0) = E
    BY <1>2, <1>3, <1>4 DEF Memory
<1>7. Counts(E, IF e.object THEN 1 ELSE 0)
    BY <1>1, SmallCounts, OfCounts
<1>8. ASSUME NEW j \in 1 .. len, NEW n, Counts(Memory(e, j - 1), n)
      PROVE  Counts(Memory(e, j), n + Needed(e.entries[j].data))
    <2>1. Counts(D(j), Needed(e.entries[j].data))
        <3>1. IsEntry(e.entries[j])
            BY <1>1, <1>8 DEF IsEvent
        <3>2. PICK data : data = e.entries[j].data
            OBVIOUS
        <3>3. Counts(Destroyed(data), Needed(data))
            BY <3>1, <3>2, DestroyedCounts DEF IsEntry
        <3>4. QED BY <3>2, <3>3, OfCounts DEF D
    <2>2. 0 .. j = 0 .. j - 1 \cup {j} /\ j \notin 0 .. j - 1
        BY <1>2
    <2>3. Memory(e, j) = Memory(e, j - 1) \cup D(j)
        <3>1. \A b \in DestroyedEvent(e) : b.entry = j <=> b \in D(j)
            BY <1>2, <1>3, <1>4
        <3>2. D(j) \subseteq DestroyedEvent(e)
            BY <1>3
        <3>3. QED BY <2>2, <3>1, <3>2 DEF Memory
    <2>4. Memory(e, j - 1) \cap D(j) = {}
        BY <1>4, <2>2 DEF Memory
    <2>5. QED BY <1>8, <2>1, <2>3, <2>4, UnionCounts
<1>9. QED BY <1>1, <1>5, <1>6, <1>7, <1>8

\* How many blocks an event needs, entry by entry.
NeededBy(e) ==
    LET upTo[i \in 0 .. Len(e.entries)] ==
            IF i = 0 THEN IF e.object THEN 1 ELSE 0
            ELSE upTo[i - 1] + Needed(e.entries[i].data)
    IN  upTo[Len(e.entries)]

LEMMA EventCounts ==
    ASSUME NEW e, IsEvent(e)
    PROVE  Counts(DestroyedEvent(e), NeededBy(e))
<1> DEFINE N == Len(e.entries)
           base == IF e.object THEN 1 ELSE 0
           Sums(v) == [i \in 0 .. N |-> IF i = 0 THEN base ELSE v[i - 1] + Needed(e.entries[i].data)]
           upTo == CHOOSE v : v = Sums(v)
           w == [i \in 0 .. N |-> Cardinality(Memory(e, i))]
<1>1. NeededBy(e) = upTo[N]
    BY DEF NeededBy
<1>2. N \in Nat
    BY SeqIs DEF IsEvent
<1> HIDE DEF N, base
<1>3. /\ Counts(Memory(e, 0), base)
      /\ \A j \in 1 .. N : \A n :
            Counts(Memory(e, j - 1), n) => Counts(Memory(e, j), n + Needed(e.entries[j].data))
      /\ Memory(e, N) = DestroyedEvent(e)
    BY MemoryGrows DEF N, base
<1> DEFINE G == {i \in 0 .. N : Counts(Memory(e, i), Cardinality(Memory(e, i)))}
<1>4. 0 .. N \subseteq G
    <2>1. 0 \in G
        BY <1>2, <1>3 DEF Counts
    <2>2. ASSUME NEW i \in 1 .. N, i - 1 \in G PROVE i \in G
        <3>1. i \in 0 .. N
            BY <1>2
        <3>2. Counts(Memory(e, i), Cardinality(Memory(e, i - 1)) + Needed(e.entries[i].data))
            BY <1>3, <2>2
        <3>3. QED BY <3>1, <3>2 DEF Counts
    <2> HIDE DEF G
    <2>3. QED BY <1>2, <2>1, <2>2, AllUpTo
<1>5. w[0] = base
    BY <1>2, <1>3 DEF Counts
<1>6. ASSUME NEW i \in 1 .. N PROVE w[i] = w[i - 1] + Needed(e.entries[i].data)
    <2>1. i - 1 \in 0 .. N /\ i \in 0 .. N
        BY <1>2
    <2>2. Counts(Memory(e, i - 1), w[i - 1])
        BY <1>4, <2>1
    <2>3. Counts(Memory(e, i), w[i - 1] + Needed(e.entries[i].data))
        BY <1>3, <2>2
    <2>4. w[i] = Cardinality(Memory(e, i))
        BY <2>1
    <2> HIDE DEF w
    <2>5. QED BY <2>3, <2>4 DEF Counts
<1>7. w[N] = Cardinality(DestroyedEvent(e)) /\ w = [i \in 0 .. N |-> w[i]]
    BY <1>2, <1>3
<1> HIDE DEF w
<1>8. w = Sums(w)
    <2>1. \A i \in 0 .. N : w[i] = IF i = 0 THEN base ELSE w[i - 1] + Needed(e.entries[i].data)
        <3>1. ASSUME NEW i \in 0 .. N
              PROVE  w[i] = IF i = 0 THEN base ELSE w[i - 1] + Needed(e.entries[i].data)
            <4>1. i = 0 \/ i \in 1 .. N
                BY <1>2
            <4>2. QED BY <1>5, <1>6, <4>1
        <3>2. QED BY <3>1
    <2>2. QED BY <1>7, <2>1
<1>9. upTo = Sums(upTo)
    BY <1>8
<1> HIDE DEF upTo
<1>10. upTo[0] = base /\ \A i \in 1 .. N : upTo[i] = upTo[i - 1] + Needed(e.entries[i].data)
    <2>1. \A i \in 0 .. N : upTo[i] = IF i = 0 THEN base ELSE upTo[i - 1] + Needed(e.entries[i].data)
        BY <1>9
    <2>2. 0 \in 0 .. N /\ \A i \in 1 .. N : i \in 0 .. N /\ i # 0
        BY <1>2
    <2>3. QED BY <2>1, <2>2
<1>11. Alike(upTo, w, N)
    BY <1>5, <1>6, <1>10 DEF Alike
<1>12. upTo[N] = w[N]
    <2>1. N \in 0 .. N
        BY <1>2
    <2>2. QED BY <1>2, <1>11, <2>1, IteratesOnce
<1>13. Counts(DestroyedEvent(e), Cardinality(DestroyedEvent(e)))
    <2>1. N \in 0 .. N
        BY <1>2
    <2>2. QED BY <1>3, <1>4, <2>1
<1>14. QED BY <1>1, <1>7, <1>12, <1>13

LEMMA BalancedMeans == Balanced => MemoryBalanced
<1>1. SUFFICES ASSUME Balanced PROVE MemoryBalanced
    OBVIOUS
<1>2. Range(events) \cup Range(held) = Live
    BY DEF Live
<1>3. \A b \in heap : \/ b.serial = worker /\ b.block.kind \in {"payload", "topic"}
                      \/ \E e \in Live : e.serial = b.serial
    <2>1. ASSUME NEW b \in heap
          PROVE  \/ b.serial = worker /\ b.block.kind \in {"payload", "topic"}
                 \/ \E e \in Live : e.serial = b.serial
        <3>1. CASE b \in BufferBlocks(worker)
            BY <3>1, BuffersAre
        <3>2. ASSUME NEW e \in Live, b \in DestroyedEvent(e) PROVE e.serial = b.serial
            BY <3>2, DestroyedAre
        <3>3. QED BY <1>1, <3>1, <3>2 DEF Balanced, Accounted
    <2>2. QED BY <2>1
<1>4. ASSUME NEW e \in Live, NEW f \in Live, e.serial = f.serial PROVE e = f
    <2>1. \A x \in Live : x.serial \in Nat
        BY <1>1 DEF Balanced, Numbered
    <2>2. \A h \in Range(held), x \in Range(events) : h.serial < x.serial
        BY <1>1 DEF Balanced, Numbered
    <2>3. CASE e \in Range(held) /\ f \in Range(held)
        <3>1. PICK h : held = <<h>>
            BY <1>1, <2>3, SinglesAre DEF Balanced, Lined
        <3>2. Range(held) = {h}
            BY <3>1, SinglesAre
        <3>3. QED BY <2>3, <3>2
    <2>4. CASE e \in Range(events) /\ f \in Range(events)
        <3>1. /\ IsSeq(events) /\ Len(events) \in Nat /\ DOMAIN events = 1 .. Len(events)
            BY <1>1, SeqIs DEF Balanced, Lined
        <3>2. PICK i \in 1 .. Len(events), j \in 1 .. Len(events) : e = events[i] /\ f = events[j]
            BY <2>4, <3>1 DEF Range
        <3>3. i < j => e.serial < f.serial
            BY <1>1, <3>2 DEF Balanced, Numbered, Rising
        <3>4. j < i => f.serial < e.serial
            BY <1>1, <3>2 DEF Balanced, Numbered, Rising
        <3>5. i = j
            BY <1>4, <2>1, <3>1, <3>3, <3>4
        <3>6. QED BY <3>2, <3>5
    <2>5. CASE \/ e \in Range(held) /\ f \in Range(events)
               \/ f \in Range(held) /\ e \in Range(events)
        BY <1>4, <2>1, <2>2, <2>5
    <2>6. (e \in Range(held) \/ e \in Range(events)) /\ (f \in Range(held) \/ f \in Range(events))
        BY DEF Live
    <2>7. QED BY <2>3, <2>4, <2>5, <2>6
<1>5. ASSUME NEW e \in Live
      PROVE  {b \in heap : b.serial = e.serial /\ b.block.kind \notin {"payload", "topic"}} = DestroyedEvent(e)
    <2>1. ASSUME NEW b \in heap, b.serial = e.serial, b.block.kind \notin {"payload", "topic"}
          PROVE  b \in DestroyedEvent(e)
        <3>1. b \notin BufferBlocks(worker)
            BY <2>1, BuffersAre
        <3>2. PICK f \in Live : b \in DestroyedEvent(f)
            BY <1>1, <3>1 DEF Balanced, Accounted
        <3>3. f.serial = e.serial
            BY <2>1, <3>2, DestroyedAre
        <3>4. QED BY <1>4, <3>2, <3>3
    <2>2. ASSUME NEW b \in DestroyedEvent(e)
          PROVE  b \in heap /\ b.serial = e.serial /\ b.block.kind \notin {"payload", "topic"}
        BY <1>1, DestroyedAre DEF Balanced, Accounted
    <2>3. QED BY <2>1, <2>2
<1>6. ASSUME NEW e \in Live
      PROVE  Cardinality({b \in heap : b.serial = e.serial /\ b.block.kind \notin {"payload", "topic"}})
                = NeededBy(e)
    <2>1. IsEvent(e)
        BY <1>1 DEF Balanced, Lined
    <2>2. QED BY <1>5, <2>1, EventCounts DEF Counts
<1>7. stray = {}
    BY <1>1 DEF Balanced, Accounted
<1> HIDE DEF Live
<1>8. QED BY <1>2, <1>3, <1>6, <1>7 DEF MemoryBalanced, NeededBy

\* Whatever the messages hold, whatever allocations are refused and however full
\* the event queue is, the memory of deserialize.c, deserialize_array.c and
\* object.c is given back once, and none is in use but that of the events the
\* application has not cleaned up, to the last block, and of the handler.
THEOREM MemoryAlwaysBalanced == Spec => []MemoryBalanced
BY BalancedHolds, BalancedMeans, PTL

-----------------------------------------------------------------------------
(* Types, and the bounds of the queues. *)

\* A mapping is found only if there are mappings, and each has a QoS.
LEMMA QosIs ==
    ASSUME NEW interface \in Known, NEW path, NEW other, MappingFromPath(interface, other) # 0,
           interface.aggregation = "individual" => other = path
    PROVE  Qos(interface, path) \in 0 .. 2
<1>1. PICK maps : maps = interface.mappings
    OBVIOUS
<1>2. IsSeq(maps) /\ \A mapping \in Range(maps) : mapping.reliability \in 0 .. 2
    BY <1>1, InterfaceAssumption DEF Known, IsSeq
<1>3. \A i \in 1 .. Len(maps) : maps[i].reliability \in 0 .. 2
    BY <1>2, SeqIs
<1>4. MappingFromPath(interface, other) \in 1 .. Len(maps) /\ Len(maps) \in Nat
    BY <1>1, <1>2, MappingIs, SeqIs
<1>5. 1 \in 1 .. Len(maps)
    BY <1>4
<1>6. QED BY <1>1, <1>3, <1>4, <1>5 DEF Qos

\* What is said of a message in the transmission queue.
Sendable(q) == q.qos \in 0 .. 2 /\ CheckValidity(q.payload)

LEMMA SendableJoins ==
    ASSUME Queued, \A q \in Range(queue) : Sendable(q),
           NEW m, NEW interface, NEW mapping, NEW payload, Enqueue(m, interface, mapping, payload),
           Qos(interface, m.path) \in 0 .. 2, CheckValidity(payload)
    PROVE  \A q \in Range(queue') : Sendable(q)
<1>1. PICK q : q = [name |-> m.name, path |-> m.path, payload |-> payload,
                    qos |-> Qos(interface, m.path), retention |-> mapping.retention, sent |-> m]
    OBVIOUS
<1>2. Sendable(q)
    BY <1>1 DEF Sendable
<1>3. queue' = queue \/ queue' = Append(queue, q)
    BY <1>1 DEF Enqueue
<1>4. Range(Append(queue, q)) = Range(queue) \cup {q}
    BY AppendedIs DEF Queued, IsSeq
<1>5. QED BY <1>2, <1>3, <1>4

Bounded ==
    /\ connected \in BOOLEAN /\ worker \in 0 .. spent.down
    /\ spent \in [down : 0 .. MaxDown, up : 0 .. MaxUp, changes : 0 .. MaxChanges]
    /\ Len(events) <= QueueSize
    /\ \A q \in Range(queue) : Sendable(q)

LEMMA BoundedInit == Init => Bounded
<1>1. SUFFICES ASSUME Init PROVE Bounded
    OBVIOUS
<1>2. Range(queue) = {} /\ Len(events) = 0
    BY <1>1, SinglesAre, EmptySeq DEF Init
<1>3. /\ connected = FALSE /\ worker = 0
      /\ spent = [down |-> 0, up |-> 0, changes |-> 0]
    BY <1>1 DEF Init
<1>4. 0 \in 0 .. MaxDown /\ 0 \in 0 .. MaxUp /\ 0 \in 0 .. MaxChanges /\ 0 <= QueueSize
    BY BoundAssumption
<1>5. /\ spent \in [down : 0 .. MaxDown, up : 0 .. MaxUp, changes : 0 .. MaxChanges]
      /\ worker \in 0 .. spent.down
    BY <1>3, <1>4
<1>6. connected \in BOOLEAN
    BY <1>3
<1>7. Len(events) <= QueueSize
    BY <1>2, <1>4
<1>8. \A q \in Range(queue) : Sendable(q)
    BY <1>2
<1>9. QED BY <1>5, <1>6, <1>7, <1>8 DEF Bounded

\* One more of something, up to its bound.
LEMMA SpendingBounded ==
    ASSUME Bounded, NEW what \in {"down", "up", "changes"}, NEW max,
           max = IF what = "down" THEN MaxDown ELSE IF what = "up" THEN MaxUp ELSE MaxChanges,
           Spends(what, max)
    PROVE  /\ spent' \in [down : 0 .. MaxDown, up : 0 .. MaxUp, changes : 0 .. MaxChanges]
           /\ spent.down \in Nat /\ spent'.down \in Nat /\ spent'.down >= spent.down
<1>1. spent \in [down : 0 .. MaxDown, up : 0 .. MaxUp, changes : 0 .. MaxChanges]
    BY DEF Bounded
<1>2. MaxDown \in Nat /\ MaxUp \in Nat /\ MaxChanges \in Nat
    BY BoundAssumption
<1>3. spent[what] < max /\ spent' = [spent EXCEPT ![what] = @ + 1]
    BY DEF Spends
<1>4. CASE what = "down"
    BY <1>1, <1>2, <1>3, <1>4
<1>5. CASE what = "up"
    BY <1>1, <1>2, <1>3, <1>5
<1>6. CASE what = "changes"
    BY <1>1, <1>2, <1>3, <1>6
<1>7. QED BY <1>4, <1>5, <1>6

LEMMA FoundIsKnown ==
    ASSUME Listed, NEW name, Find(introspection, name) # 0
    PROVE  /\ introspection[Find(introspection, name)] \in Known
           /\ introspection[Find(introspection, name)].name = name
<1>1. PICK place : place = Find(introspection, name)
    OBVIOUS
<1>2. place \in 1 .. Len(introspection) /\ introspection[place].name = name
    BY <1>1, FindIs DEF Listed
<1>3. introspection \in Seq(Known)
    BY DEF Listed, Lists
<1>4. QED BY <1>1, <1>2, <1>3, ElementOfSeq

LEMMA QueueBounded ==
    ASSUME Bounded, Queued, Listed, NEW m \in Uplinks, SendIndividual(m) \/ SendObject(m)
    PROVE  \A q \in Range(queue') : Sendable(q)
<1>1. \A q \in Range(queue) : Sendable(q)
    BY DEF Bounded
<1>2. PICK place, interface : place = Find(introspection, m.name) /\ interface = introspection[place]
    OBVIOUS
<1>3. place # 0 => interface \in Known /\ interface.name = m.name
    BY <1>2, FoundIsKnown
<1>4. CASE SendIndividual(m) /\ queue' # queue
    <2>1. PICK mapping :
            /\ ~m.object /\ place # 0 /\ MappingFromPath(interface, m.path) # 0
            /\ Enqueue(m, interface, mapping, SerializeIndividual(m.entries[1].data, m.timestamp))
        BY <1>2, <1>4 DEF SendIndividual
    <2>2. Qos(interface, m.path) \in 0 .. 2
        BY <1>3, <2>1, QosIs
    <2>3. CheckValidity(SerializeIndividual(m.entries[1].data, m.timestamp))
        BY <2>1, IndividualPayload
    <2>4. PICK payload : payload = SerializeIndividual(m.entries[1].data, m.timestamp)
        OBVIOUS
    <2>5. QED BY <1>1, <2>1, <2>2, <2>3, <2>4, SendableJoins
<1>5. CASE SendObject(m) /\ queue' # queue
    <2>1. PICK mapping :
            /\ m.object /\ place # 0 /\ MappingFromPaths(interface, m.path, m.entries[1].name) # 0
            /\ Enqueue(m, interface, mapping, SerializeAggregated(m.entries, m.timestamp))
        BY <1>2, <1>5 DEF SendObject
    <2>2. interface.aggregation # "individual"
        BY <1>3, <2>1, ObjectAssumption DEF Known
    <2>3. Qos(interface, m.path) \in 0 .. 2
        BY <1>3, <2>1, <2>2, QosIs DEF MappingFromPaths
    <2>4. CheckValidity(SerializeAggregated(m.entries, m.timestamp))
        BY <2>1, AggregatedPayload
    <2>5. PICK payload : payload = SerializeAggregated(m.entries, m.timestamp)
        OBVIOUS
    <2>6. QED BY <1>1, <2>1, <2>3, <2>4, <2>5, SendableJoins
<1>6. QED BY <1>1, <1>4, <1>5

LEMMA ReceiveBounded ==
    ASSUME Bounded, Balanced, Listed, NEW nth, Receive(nth)
    PROVE  Bounded'
<1>1. PICK m : m = Head(broker)
    OBVIOUS
<1>2. Splits(broker, m, Tail(broker))
    BY <1>1, SplitIs DEF Receive, Balanced, Lined
<1>3. m \in Range(broker)
    BY <1>2 DEF Splits
<1>4. Len(m.payload) \in Nat /\ m.serial \in 1 .. spent.down
    BY <1>3 DEF Balanced, Lined, Numbered
<1>5. /\ Dropped(m.serial) \/ \E event : Delivered(event)
      /\ worker' = m.serial /\ spent' = spent
    <2>1. /\ \/ Dropped(Head(broker).serial)
             \/ \E event : event.serial = Head(broker).serial /\ Delivered(event)
          /\ worker = 0 /\ worker' = Head(broker).serial
          /\ broker # <<>> /\ broker' = Tail(broker) /\ UNCHANGED <<held, spent>>
        BY <1>1, <1>4, ReceiveIs
    <2>2. QED BY <1>1, <2>1
<1>6. queue' = queue /\ connected' = connected
    BY DEF Receive
<1>7. worker' \in 0 .. spent'.down
    BY <1>4, <1>5
<1>8. Len(events') <= QueueSize
    <2>1. Len(events) \in Nat /\ QueueSize \in Nat /\ Len(events) <= QueueSize
        BY SeqIs, BoundAssumption DEF Balanced, Lined, Bounded
    <2>2. CASE Dropped(m.serial)
        BY <2>1, <2>2 DEF Dropped
    <2>3. ASSUME NEW event, Delivered(event) PROVE Len(events') <= QueueSize
        <3>1. Len(events) # QueueSize /\ events' = Append(events, event)
            BY <2>3 DEF Delivered, Full
        <3>2. Len(Append(events, event)) = Len(events) + 1
            BY AppendedIs DEF Balanced, Lined
        <3>3. QED BY <2>1, <3>1, <3>2
    <2>4. QED BY <1>5, <2>2, <2>3
<1>9. QED BY <1>5, <1>6, <1>7, <1>8 DEF Bounded, Sendable

LEMMA BoundedStep == Bounded /\ Balanced /\ Listed /\ Queued /\ [Next]_vars => Bounded'
<1>1. SUFFICES ASSUME Bounded, Balanced, Listed, Queued, [Next]_vars PROVE Bounded'
    OBVIOUS
<1>2. /\ connected \in BOOLEAN /\ worker \in 0 .. spent.down /\ Len(events) <= QueueSize
      /\ spent \in [down : 0 .. MaxDown, up : 0 .. MaxUp, changes : 0 .. MaxChanges]
      /\ \A q \in Range(queue) : Sendable(q)
    BY <1>1 DEF Bounded
<1>3. ASSUME NEW nth, Receive(nth) PROVE Bounded'
    BY <1>1, <1>3, ReceiveBounded
<1>4. CASE Return
    <2>1. worker' = 0 /\ UNCHANGED <<connected, spent, events, queue>>
        BY <1>4 DEF Return
    <2>2. 0 \in 0 .. spent.down
        BY <1>2
    <2>3. QED BY <1>2, <2>1, <2>2 DEF Bounded, Sendable
<1>5. CASE GetEvent
    <2>1. events # <<>> /\ events' = Tail(events) /\ UNCHANGED <<connected, spent, worker, queue>>
        BY <1>5 DEF GetEvent
    <2>2. IsSeq(events) /\ IsSeq(Tail(events)) /\ Len(Tail(events)) + 1 = Len(events)
        BY <1>1, <2>1, SplitIs DEF Balanced, Lined, Splits
    <2>3. Len(events) \in Nat /\ Len(Tail(events)) \in Nat /\ QueueSize \in Nat
        BY <2>2, SeqIs, BoundAssumption
    <2>4. Len(events') <= QueueSize
        BY <1>2, <2>1, <2>2, <2>3
    <2>5. QED BY <1>2, <2>1, <2>4 DEF Bounded, Sendable
<1>6. CASE EventCleanup
    <2>1. UNCHANGED <<connected, spent, worker, queue, events>>
        BY <1>6 DEF EventCleanup
    <2>2. QED BY <1>2, <2>1 DEF Bounded, Sendable
<1>7. ASSUME NEW m \in Uplinks, SendIndividual(m) \/ SendObject(m) PROVE Bounded'
    <2>1. Spends("up", MaxUp) /\ UNCHANGED <<connected, worker, events>>
        BY <1>7 DEF SendIndividual, SendObject
    <2>2. \A q \in Range(queue') : Sendable(q)
        BY <1>1, <1>7, QueueBounded
    <2>3. /\ spent' \in [down : 0 .. MaxDown, up : 0 .. MaxUp, changes : 0 .. MaxChanges]
          /\ spent.down \in Nat /\ spent'.down \in Nat /\ spent'.down >= spent.down
        BY <1>1, <2>1, SpendingBounded
    <2>4. QED BY <1>2, <2>1, <2>2, <2>3 DEF Bounded, Sendable
<1>8. ASSUME NEW m, NEW short, AstarteSends(m, short) PROVE Bounded'
    <2>1. Spends("down", MaxDown) /\ UNCHANGED <<connected, worker, events, queue>>
        BY <1>8 DEF AstarteSends
    <2>2. /\ spent' \in [down : 0 .. MaxDown, up : 0 .. MaxUp, changes : 0 .. MaxChanges]
          /\ spent.down \in Nat /\ spent'.down \in Nat /\ spent'.down >= spent.down
        BY <1>1, <2>1, SpendingBounded
    <2>3. QED BY <1>2, <2>1, <2>2 DEF Bounded, Sendable
<1>9. ASSUME NEW interface, AddOperation(interface) \/ RemoveOperation(interface.name) PROVE Bounded'
    <2>1. Spends("changes", MaxChanges) /\ UNCHANGED <<connected, worker, events, queue>>
        BY <1>9 DEF AddOperation, RemoveOperation
    <2>2. /\ spent' \in [down : 0 .. MaxDown, up : 0 .. MaxUp, changes : 0 .. MaxChanges]
          /\ spent.down \in Nat /\ spent'.down \in Nat /\ spent'.down >= spent.down
        BY <1>1, <2>1, SpendingBounded
    <2>3. QED BY <1>2, <2>1, <2>2 DEF Bounded, Sendable
<1>10. CASE Switch
    <2>1. connected' = ~connected /\ UNCHANGED <<spent, worker, events, queue>>
        BY <1>10 DEF Switch
    <2>2. QED BY <1>2, <2>1 DEF Bounded, Sendable
<1>11. CASE UNCHANGED vars
    BY <1>2, <1>11 DEF vars, Bounded, Sendable
<1>12. QED BY <1>1, <1>3, <1>4, <1>5, <1>6, <1>7, <1>8, <1>9, <1>10, <1>11 DEF Next

\* The blocks of an event belong to its entries, and are counted from 0.
LEMMA BlocksAre ==
    ASSUME NEW event, IsEvent(event), NEW b \in DestroyedEvent(event)
    PROVE  b.entry \in Nat /\ b.block.i \in Nat
<1>1. CASE b \in DestroyedEntries(event.serial, event.entries)
    <2>1. DOMAIN event.entries = 1 .. Len(event.entries) /\ Len(event.entries) \in Nat
        BY SeqIs DEF IsEvent
    <2>2. PICK i \in DOMAIN event.entries : b \in Of(event.serial, i, Destroyed(event.entries[i].data))
        BY <1>1 DEF DestroyedEntries
    <2>3. PICK data, x : /\ data = event.entries[i].data /\ x \in Destroyed(data)
                         /\ b = [serial |-> event.serial, entry |-> i, block |-> x]
        BY <2>2, OfIs
    <2>4. x.i \in Nat
        BY <2>3 DEF Destroyed, Block
    <2>5. QED BY <2>1, <2>2, <2>3, <2>4
<1>2. CASE b \in Of(event.serial, 0, {Block("entries", 0)})
    BY <1>2, OfIs DEF Block
<1>3. QED BY <1>1, <1>2 DEF DestroyedEvent

LEMMA BoundedMeans == Bounded /\ Balanced /\ Listed => TypeOK
<1>1. SUFFICES ASSUME Bounded, Balanced, Listed PROVE TypeOK
    OBVIOUS
<1>2. /\ connected \in BOOLEAN /\ worker \in 0 .. spent.down /\ Len(events) <= QueueSize
      /\ spent \in [down : 0 .. MaxDown, up : 0 .. MaxUp, changes : 0 .. MaxChanges]
      /\ \A q \in Range(queue) : q.qos \in 0 .. 2 /\ CheckValidity(q.payload)
    BY <1>1 DEF Bounded, Sendable
<1>3. /\ worker \in 0 .. MaxDown
      /\ \A n \in 1 .. spent.down : n \in 1 .. MaxDown
    BY <1>2, BoundAssumption
<1>4. \A i, j \in DOMAIN introspection : introspection[i].name = introspection[j].name => i = j
    <2>1. DOMAIN introspection = 1 .. Len(introspection)
        BY <1>1, LenProperties DEF Listed, Lists
    <2>2. QED BY <1>1, <2>1 DEF Listed, Lists
<1>5. ASSUME NEW b \in heap
      PROVE  b.serial \in 1 .. MaxDown /\ b.entry \in Nat /\ b.block.i \in Nat
    <2>1. CASE worker # 0 /\ b \in BufferBlocks(worker)
        <3>1. PICK x \in {Block("payload", 0), Block("topic", 0)} :
                b = [serial |-> worker, entry |-> 0, block |-> x]
            BY <2>1, OfIs DEF BufferBlocks
        <3>2. x.i = 0
            BY DEF Block
        <3>3. worker \in 1 .. MaxDown
            BY <1>3, <2>1
        <3>4. QED BY <3>1, <3>2, <3>3
    <2>2. ASSUME NEW e \in Live, b \in DestroyedEvent(e)
          PROVE  b.serial \in 1 .. MaxDown /\ b.entry \in Nat /\ b.block.i \in Nat
        <3>1. e.serial \in 1 .. spent.down /\ IsEvent(e)
            BY <1>1 DEF Balanced, Numbered, Lined
        <3>2. b.serial = e.serial
            BY <2>2, DestroyedAre
        <3>3. b.entry \in Nat /\ b.block.i \in Nat
            BY <2>2, <3>1, BlocksAre
        <3>4. QED BY <1>3, <3>1, <3>2, <3>3
    <2>3. QED BY <1>1, <2>1, <2>2 DEF Balanced, Accounted
<1>6. stray = {}
    BY <1>1 DEF Balanced, Accounted
<1>7. Len(held) <= 1
    <2>1. CASE held = <<>>
        BY <2>1
    <2>2. ASSUME NEW e, held = <<e>> PROVE Len(held) <= 1
        BY <2>2
    <2>3. QED BY <1>1, <2>1, <2>2 DEF Balanced, Lined
<1>8. ASSUME NEW e \in Range(events) \cup Range(held)
      PROVE  e.object \in BOOLEAN /\ \A i \in DOMAIN e.entries : e.entries[i].data.type \in Types
    <2>1. IsEvent(e)
        BY <1>1, <1>8 DEF Balanced, Lined, Live
    <2>2. DOMAIN e.entries = 1 .. Len(e.entries)
        BY <2>1, SeqIs DEF IsEvent
    <2>3. QED BY <2>1, <2>2 DEF IsEvent, IsEntry
<1>9. QED BY <1>2, <1>3, <1>4, <1>5, <1>6, <1>7, <1>8 DEF TypeOK

\* The event queue never has more events than CONFIG_ASTARTE_DEVICE_SDK_EVENT_QUEUE_SIZE
\* (on_datastream_individual, on_datastream_aggregated), no two interfaces have one
\* name (introspection.c), and what is queued for Astarte is a valid document with a
\* QoS there is (astarte_interface_get_qos).
THEOREM TypesAlwaysOK == Spec => []TypeOK
<1>1. Init => Queued
    BY DEF Init, Queued, Range
<1>2. QED BY <1>1, QueuedStep, BoundedInit, BoundedStep, BalancedHolds, ListedHolds, BoundedMeans,
        PTL DEF Spec
=============================================================================
