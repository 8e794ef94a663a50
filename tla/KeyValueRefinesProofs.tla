----------------------- MODULE KeyValueRefinesProofs ------------------------
(* The flash layout of KeyValue implements the atomic map of KVMap, for every *)
(* ring of ids and every hash function, wherever the faults strike that spare *)
(* the copy window (Sparing).  A state of the map is the sequence of records  *)
(* that count once the operation in progress is over (Settled); the walk of   *)
(* the refinement mapping shows this sequence in every reachable state.       *)
EXTENDS KeyValueRefines, KeyValueProofs, SequenceTheorems

-----------------------------------------------------------------------------
(* A chain of records, as the sequence of their ids. *)

\* The records R in the order of their links, from first to last.
Linked(s, R, e, first, last) ==
    /\ s \in Seq(R)
    /\ \A i \in R : \E p \in 1 .. Len(s) : s[p] = i
    /\ \A p, q \in 1 .. Len(s) : s[p] = s[q] => p = q
    /\ first = IF Len(s) = 0 THEN NULL ELSE s[1]
    /\ last = IF Len(s) = 0 THEN NULL ELSE s[Len(s)]
    /\ \A p \in 1 .. Len(s) : e[s[p]].next = IF p = Len(s) THEN NULL ELSE s[p + 1]

\* What it is made of.
LEMMA LinkedFacts ==
    ASSUME NEW s, NEW R, R \subseteq Ids, NEW e, NEW f, NEW l, Linked(s, R, e, f, l)
    PROVE  /\ s \in Seq(R) /\ Len(s) \in Nat /\ NULL \notin R
           /\ \A p \in 1 .. Len(s) : s[p] \in R /\ s[p] # NULL
           /\ \A p \in 1 .. Len(s) - 1 : p + 1 \in 1 .. Len(s)
           /\ s \in Seq(Ids) /\ DOMAIN s = 1 .. Len(s)
<1>1. s \in Seq(R)
    BY DEF Linked
<1>2. s \in Seq(Ids)
    BY <1>1, SeqMonotonic
<1>3. Len(s) \in Nat /\ DOMAIN s = 1 .. Len(s)
    BY <1>1, LenProperties
<1>4. \A p \in 1 .. Len(s) : s[p] \in R
    BY <1>1, ElementOfSeq
<1>5. NULL \notin R
    BY NullAssumption
<1>6. \A p \in 1 .. Len(s) - 1 : p + 1 \in 1 .. Len(s)
    BY <1>3
<1>7. QED BY <1>1, <1>2, <1>3, <1>4, <1>5, <1>6

\* Only the links of its records make it.
LEMMA LinkedSame ==
    ASSUME NEW s, NEW R, NEW d, NEW e, NEW f, NEW l, Linked(s, R, d, f, l),
           \A i \in R : e[i].next = d[i].next
    PROVE  Linked(s, R, e, f, l)
<1>1. \A p \in 1 .. Len(s) : s[p] \in R
    BY ElementOfSeq DEF Linked
<1>2. \A p \in 1 .. Len(s) : e[s[p]].next = d[s[p]].next
    BY <1>1
<1>3. QED BY <1>2 DEF Linked

\* A relinked store is a store.
LEMMA RelinkType ==
    ASSUME NEW d \in Contents, NEW p, NEW a \in IdsOrNull, NEW q, NEW b \in IdsOrNull
    PROVE  Relink(d, p, a, q, b) \in Contents
<1>1. ASSUME NEW i \in Ids, d[i] # NoEntry
      PROVE  Relink(d, p, a, q, b)[i] \in Entry
    <2>1. d[i] \in Entry
        BY <1>1 DEF Contents
    <2> DEFINE x == IF i = p THEN a ELSE d[i].next
               y == IF i = q THEN b ELSE d[i].prev
    <2>2. x \in IdsOrNull /\ y \in IdsOrNull
        BY <2>1 DEF Entry
    <2>3. Relink(d, p, a, q, b)[i] = [d[i] EXCEPT !.next = x, !.prev = y]
        BY <1>1 DEF Relink
    <2> HIDE DEF x, y
    <2>4. QED BY <2>1, <2>2, <2>3 DEF Entry
<1>2. ASSUME NEW i \in Ids
      PROVE  Relink(d, p, a, q, b)[i] \in Entry \cup {NoEntry}
    <2>1. CASE d[i] = NoEntry
        BY <2>1 DEF Relink
    <2>2. CASE d[i] # NoEntry
        BY <1>1, <2>2
    <2>3. QED BY <2>1, <2>2
<1>3. Relink(d, p, a, q, b) = [i \in Ids |-> Relink(d, p, a, q, b)[i]]
    BY DEF Relink
<1>4. QED BY <1>2, <1>3 DEF Contents

\* A chain is a sequence with its last record taken off, and that record.
LEMMA LinkedMore ==
    ASSUME NEW d \in Contents, NEW R, R \subseteq Ids, \A i \in R : d[i] # NoEntry,
           NEW f, NEW l \in R, NEW pos \in [Ids -> Nat], Chain(pos, d, R, f, l),
           NEW p, p = d[l].prev, NEW g, \A i \in R : g[i].next = IF i = p THEN NULL ELSE d[i].next,
           NEW ff, ff = (IF p = NULL THEN NULL ELSE f),
           NEW s, Linked(s, R \ {l}, g, ff, p)
    PROVE  Linked(Append(s, l), R, d, f, l)
<1> DEFINE t == Append(s, l)
           Q == R \ {l}
<1>1. /\ s \in Seq(Q) /\ Len(s) \in Nat /\ NULL \notin Q
      /\ \A n \in 1 .. Len(s) : s[n] \in Q /\ s[n] # NULL
    BY LinkedFacts
<1>2. s \in Seq(R)
    BY <1>1, SeqMonotonic
<1>3. /\ t \in Seq(R) /\ Len(t) = Len(s) + 1 /\ t[Len(s) + 1] = l
      /\ \A n \in 1 .. Len(s) : t[n] = s[n]
    BY <1>2
<1>4. l # NULL /\ d[l].next = NULL /\ (p = NULL <=> l = f) /\ (p # NULL => p \in R /\ d[p].next = l)
    BY NullAssumption DEF Chain
<1> HIDE DEF t
<1>5. \A i \in R : \E n \in 1 .. Len(t) : t[n] = i
    <2>1. ASSUME NEW i \in R, i # l PROVE \E n \in 1 .. Len(t) : t[n] = i
        <3>1. PICK n \in 1 .. Len(s) : s[n] = i
            BY <2>1 DEF Linked
        <3>2. n \in 1 .. Len(t) /\ t[n] = i
            BY <1>1, <1>3, <3>1
        <3>3. QED BY <3>2
    <2>2. Len(s) + 1 \in 1 .. Len(t)
        BY <1>1, <1>3
    <2>3. QED BY <1>3, <2>1, <2>2
<1>6. \A m, n \in 1 .. Len(t) : t[m] = t[n] => m = n
    <2>1. ASSUME NEW m \in 1 .. Len(t), NEW n \in 1 .. Len(t), t[m] = t[n], m < n
          PROVE  FALSE
        <3>1. m \in 1 .. Len(s)
            BY <1>1, <1>3, <2>1
        <3>2. CASE n = Len(s) + 1
            BY <1>1, <1>3, <2>1, <3>1, <3>2
        <3>3. CASE n # Len(s) + 1
            <4>1. n \in 1 .. Len(s)
                BY <1>1, <1>3, <3>3
            <4>2. s[m] = s[n]
                BY <1>3, <2>1, <3>1, <4>1
            <4>3. m = n
                BY <3>1, <4>1, <4>2 DEF Linked
            <4>4. QED BY <2>1, <4>3
        <3>4. QED BY <3>2, <3>3
    <2>2. QED BY <1>1, <1>3, <2>1
<1>7. f = t[1]
    <2>1. CASE Len(s) = 0
        <3>1. p = NULL
            BY <2>1 DEF Linked
        <3>2. QED BY <1>3, <1>4, <2>1, <3>1
    <2>2. CASE Len(s) # 0
        <3>1. p = s[Len(s)] /\ ff = s[1]
            BY <2>2 DEF Linked
        <3>2. 1 \in 1 .. Len(s) /\ Len(s) \in 1 .. Len(s)
            BY <1>1, <2>2
        <3>3. p # NULL
            BY <1>1, <3>1, <3>2
        <3>4. QED BY <1>3, <3>1, <3>2, <3>3
    <2>3. QED BY <2>1, <2>2
<1>8. ASSUME NEW n \in 1 .. Len(t)
      PROVE  d[t[n]].next = IF n = Len(t) THEN NULL ELSE t[n + 1]
    <2>1. CASE n = Len(t)
        BY <1>3, <1>4, <2>1
    <2>2. CASE n # Len(t)
        <3>1. n \in 1 .. Len(s) /\ t[n] = s[n] /\ s[n] \in R /\ s[n] # NULL
            BY <1>1, <1>3, <2>2
        <3>2. g[s[n]].next = IF n = Len(s) THEN NULL ELSE s[n + 1]
            BY <3>1 DEF Linked
        <3>3. p = s[Len(s)]
            BY <1>1, <3>1 DEF Linked
        <3>4. CASE n = Len(s)
            <4>1. d[p].next = l
                BY <1>4, <3>1, <3>3, <3>4
            <4>2. QED BY <1>3, <2>2, <3>1, <3>3, <3>4, <4>1
        <3>5. CASE n # Len(s)
            <4>1. n + 1 \in 1 .. Len(s) /\ Len(s) \in 1 .. Len(s)
                BY <1>1, <3>1, <3>5
            <4>2. s[n] # p
                BY <3>1, <3>3, <3>5, <4>1 DEF Linked
            <4>3. d[s[n]].next = s[n + 1]
                BY <3>1, <3>2, <3>5, <4>2
            <4>4. t[n + 1] = s[n + 1]
                BY <1>3, <4>1
            <4>5. QED BY <2>2, <3>1, <4>3, <4>4
        <3>6. QED BY <3>4, <3>5
    <2>3. QED BY <2>1, <2>2
<1>9. Len(t) # 0 /\ t[Len(t)] = l
    BY <1>1, <1>3
<1>10. Linked(t, R, d, f, l)
    BY <1>3, <1>5, <1>6, <1>7, <1>8, <1>9 DEF Linked
<1>11. QED BY <1>10 DEF t

\* There are Size ids.
LEMMA IdsFinite == IsFiniteSet(Ids) /\ Cardinality(Ids) = Size
<1>1. MinId \in Int /\ MaxId \in Int /\ MinId <= MaxId
    BY RangeAssumption
<1>2. /\ IsFiniteSet(MinId .. MaxId)
      /\ Cardinality(MinId .. MaxId) = IF MinId > MaxId THEN 0 ELSE MaxId - MinId + 1
    BY <1>1, FS_Interval
<1>3. QED BY <1>1, <1>2 DEF Ids, Size

\* What ThreadsWithout says of the last record.
LEMMA WithoutLast ==
    ASSUME NEW d \in Contents, NEW R \in SUBSET Ids, \A i \in R : d[i] # NoEntry,
           NEW f, NEW l \in R, Threads(d, R, f, l), d[l].next = NULL
    PROVE  /\ d[l].prev \in (R \ {l}) \cup {NULL}
           /\ Threads(Relink(d, d[l].prev, NULL, NULL, d[l].prev), R \ {l},
                      IF d[l].prev = NULL THEN NULL ELSE f, d[l].prev)
<1> DEFINE p == d[l].prev
           n == d[l].next
           y == IF p = NULL THEN n ELSE f
           z == IF n = NULL THEN p ELSE l
<1>1. /\ p \in (R \ {l}) \cup {NULL}
      /\ Threads(Relink(d, p, n, n, p), R \ {l}, y, z)
    <2>1. R \subseteq Ids
        OBVIOUS
    <2>2. QED BY <2>1, ThreadsWithout
<1>2. n = NULL /\ y = (IF p = NULL THEN NULL ELSE f) /\ z = p
    OBVIOUS
<1>3. QED BY <1>1, <1>2

\* Every chain of records is the sequence of some ids: the shortest that were
\* not would have a last record, and be such a sequence without it.
LEMMA ThreadsLinked ==
    ASSUME NEW d \in Contents, NEW R \in SUBSET Ids, \A i \in R : d[i] # NoEntry,
           NEW f, NEW l, Threads(d, R, f, l)
    PROVE  \E s : Linked(s, R, d, f, l)
<1> DEFINE Unlinked(e, Q, a, b) ==
               /\ \A i \in Q : e[i] # NoEntry
               /\ Threads(e, Q, a, b) /\ ~\E s : Linked(s, Q, e, a, b)
           Bad == {n \in Nat : \E Q \in SUBSET Ids : Cardinality(Q) = n
                                  /\ \E e \in Contents : \E a, b : Unlinked(e, Q, a, b)}
<1>1. ASSUME Bad # {} PROVE FALSE
    <2>1. PICK m \in Bad : \A k \in Bad : m <= k
        <3>1. Bad \subseteq Nat
            OBVIOUS
        <3> HIDE DEF Bad
        <3>2. QED BY <1>1, <3>1, LeastNatural
    <2>2. PICK Q \in SUBSET Ids : Cardinality(Q) = m
                  /\ \E e \in Contents : \E a, b : Unlinked(e, Q, a, b)
        OBVIOUS
    <2>3. PICK e \in Contents : \E a, b : Unlinked(e, Q, a, b)
        BY <2>2
    <2>4. PICK a, b : Unlinked(e, Q, a, b)
        BY <2>3
    <2>5. PICK pos \in [Ids -> Nat] : Chain(pos, e, Q, a, b)
        BY <2>4 DEF Threads
    <2> HIDE DEF Bad
    <2>6. CASE Q = {}
        <3>1. a = NULL /\ b = NULL
            BY <2>5, <2>6 DEF Chain
        <3>2. << >> \in Seq(Q) /\ Len(<< >>) = 0
            BY EmptySeq
        <3>3. Linked(<< >>, Q, e, a, b)
            BY <2>6, <3>1, <3>2 DEF Linked
        <3>4. QED BY <2>4, <3>3
    <2>7. CASE Q # {}
        <3> DEFINE p == e[b].prev
                   g == Relink(e, p, NULL, NULL, p)
                   ff == IF p = NULL THEN NULL ELSE a
        <3>1. b \in Q /\ b \in Ids /\ e[b].next = NULL
            BY <2>5, <2>7 DEF Chain
        <3>2. Threads(g, Q \ {b}, ff, p) /\ p \in (Q \ {b}) \cup {NULL}
            <4>1. Threads(e, Q, a, b) /\ \A i \in Q : e[i] # NoEntry
                BY <2>4
            <4>2. QED BY <3>1, <4>1, WithoutLast
        <3>3. g \in Contents
            BY <3>2, RelinkType DEF IdsOrNull
        <3>4. \A i \in Q : g[i].next = IF i = p THEN NULL ELSE e[i].next
            BY <2>4, RelinkIs
        <3>5. \A i \in Q \ {b} : g[i] # NoEntry
            <4>1. NoEntry \notin Entry
                BY NullAssumption DEF Entry
            <4>2. ASSUME NEW i \in Q PROVE g[i] \in Entry
                <5>1. e[i] \in Entry /\ i \in Ids
                    BY <2>4 DEF Contents
                <5>2. p \in IdsOrNull
                    BY <3>2 DEF IdsOrNull
                <5>3. [e[i] EXCEPT !.next = IF i = p THEN NULL ELSE @,
                                   !.prev = IF i = NULL THEN p ELSE @] \in Entry
                    BY <5>1, <5>2 DEF Entry, IdsOrNull
                <5>4. QED BY <2>4, <5>1, <5>3 DEF Relink
            <4>3. QED BY <4>1, <4>2
        <3>6. Cardinality(Q \ {b}) = m - 1 /\ m - 1 \in Nat
            <4>1. IsFiniteSet(Q)
                BY IdsFinite, FS_Subset
            <4>2. Cardinality(Q \ {b}) = Cardinality(Q) - 1
                BY <3>1, <4>1, FS_RemoveElement
            <4>3. Cardinality(Q) \in Nat /\ Cardinality(Q) # 0
                BY <2>7, <4>1, FS_EmptySet, FS_CardinalityType
            <4>4. QED BY <2>2, <4>2, <4>3
        <3>7. m - 1 \notin Bad
            BY <2>1, <3>6 DEF Bad
        <3> HIDE DEF g, ff, p
        <3>8. ~Unlinked(g, Q \ {b}, ff, p)
            <4>1. Q \ {b} \in SUBSET Ids
                OBVIOUS
            <4> HIDE DEF Unlinked
            <4>2. QED BY <3>3, <3>6, <3>7, <4>1 DEF Bad
        <3>9. PICK s : Linked(s, Q \ {b}, g, ff, p)
            BY <3>2, <3>5, <3>8
        <3>10. Linked(Append(s, b), Q, e, a, b)
            BY <2>4, <2>5, <3>1, <3>4, <3>9, LinkedMore DEF p, ff
        <3>11. QED BY <2>4, <3>10
    <2>8. QED BY <2>6, <2>7
<1>2. Cardinality(R) \in Nat
    BY IdsFinite, FS_Subset, FS_CardinalityType
<1>3. Cardinality(R) \notin Bad
    BY <1>1
<1>4. ~Unlinked(d, R, f, l)
    <2> HIDE DEF Unlinked
    <2> QED BY <1>2, <1>3
<1>5. QED BY <1>4

-----------------------------------------------------------------------------
(* What the iterator shows, where the list is followed from its head. *)

\* It is as long as there are records.
LEMMA LinkedLength ==
    ASSUME NEW s, NEW R, R \subseteq Ids, NEW e, NEW f, NEW l, Linked(s, R, e, f, l)
    PROVE  Len(s) <= Size
<1>1. /\ Len(s) \in Nat /\ \A p \in 1 .. Len(s) : s[p] \in Ids
      /\ s \in Seq(Ids)
    BY LinkedFacts
<1>2. s \in [1 .. Len(s) -> Ids]
    BY <1>1, LenProperties
<1>3. s \in Injection(1 .. Len(s), Ids)
    BY <1>2 DEF Linked, Injection, IsInjective
<1>4. Cardinality(1 .. Len(s)) <= Cardinality(Ids)
    BY <1>3, IdsFinite, FS_Injection
<1>5. Cardinality(1 .. Len(s)) = Len(s)
    <2>1. 1 \in Int /\ Len(s) \in Int
        BY <1>1
    <2>2. Cardinality(1 .. Len(s)) = IF 1 > Len(s) THEN 0 ELSE Len(s) - 1 + 1
        BY <2>1, FS_Interval
    <2>3. QED BY <1>1, <2>2
<1>6. QED BY <1>4, <1>5, IdsFinite

\* A walk passes the records of the list and then meets none.
LEMMA WalkFollows ==
    ASSUME LogInv, NEW s, NEW R, R \subseteq Used, NEW l, Linked(s, R, entry, head, l),
           NEW n \in 0 .. Size
    PROVE  Walk[n] = IF n < Len(s) THEN s[n + 1] ELSE NULL
<1> DEFINE Right(b) == Walk[b] = IF b < Len(s) THEN s[b + 1] ELSE NULL
           Bad == {b \in 0 .. Size : ~Right(b)}
<1>1. /\ Len(s) \in Nat
      /\ \A p \in 1 .. Len(s) : s[p] \in Used /\ s[p] # NULL /\ entry[s[p]] # NoEntry
    BY LinkedFacts, LogFacts
<1> HIDE DEF Walk
<1>2. ASSUME Bad # {} PROVE FALSE
    <2>1. Bad \subseteq Nat
        BY SizeType
    <2>2. PICK b \in Bad : \A k \in Bad : b <= k
        <3> HIDE DEF Bad
        <3> QED BY <1>2, <2>1, LeastNatural
    <2>3. b \in 0 .. Size /\ Walk[b] = Follow(Walk, b)
        BY WalkIs
    <2>4. CASE b = 0
        <3>1. Walk[b] = head
            BY <2>3, <2>4 DEF Follow
        <3>2. head = IF Len(s) = 0 THEN NULL ELSE s[1]
            BY DEF Linked
        <3>3. QED BY <1>1, <2>2, <2>4, <3>1, <3>2
    <2>5. CASE b # 0
        <3>1. b - 1 \in 0 .. Size /\ b - 1 \notin Bad
            BY <2>2, <2>3, <2>5, SizeType
        <3>2. Right(b - 1)
            BY <3>1
        <3>3. Walk[b] = IF Walk[b - 1] = NULL \/ entry[Walk[b - 1]] = NoEntry THEN NULL
                        ELSE entry[Walk[b - 1]].next
            BY <2>3, <2>5 DEF Follow
        <3>4. CASE b - 1 < Len(s)
            <4>1. b \in 1 .. Len(s) /\ Walk[b - 1] = s[b]
                BY <1>1, <2>3, <2>5, <3>2, <3>4, SizeType
            <4>2. Walk[b] = entry[s[b]].next
                BY <1>1, <3>3, <4>1
            <4>3. Walk[b] = IF b = Len(s) THEN NULL ELSE s[b + 1]
                BY <4>1, <4>2 DEF Linked
            <4>4. QED BY <1>1, <2>2, <4>1, <4>3
        <3>5. CASE ~(b - 1 < Len(s))
            <4>1. Walk[b - 1] = NULL /\ ~(b < Len(s))
                BY <1>1, <2>3, <3>2, <3>5, SizeType
            <4>2. Walk[b] = NULL
                BY <3>3, <4>1
            <4>3. QED BY <2>2, <4>1, <4>2
        <3>6. QED BY <3>4, <3>5
    <2>6. QED BY <2>4, <2>5
<1>3. n \notin Bad
    BY <1>2
<1>4. QED BY <1>3

\* So the mapping visits the records of the list, in order.
LEMMA VisitedIs ==
    ASSUME LogInv, NEW s, NEW R, R \subseteq Used, NEW l, Linked(s, R, entry, head, l)
    PROVE  Visited = s
<1> DEFINE walk == [p \in 1 .. Size + 1 |-> Walk[p - 1]]
           met == {n \in 0 .. Size : Walk[n] \in Used}
<1> HIDE DEF Walk
<1>1. /\ Used \subseteq Ids /\ NULL \notin Used /\ R \subseteq Ids /\ Size \in Nat
    BY LogFacts, SizeType
<1>2. /\ s \in Seq(Ids) /\ Len(s) \in Nat /\ Len(s) <= Size
      /\ \A p \in 1 .. Len(s) : s[p] \in Used
    BY <1>1, LinkedFacts, LinkedLength
<1>3. \A n \in 0 .. Size : Walk[n] = IF n < Len(s) THEN s[n + 1] ELSE NULL
    BY WalkFollows
<1>4. met = 0 .. Len(s) - 1
    <2>1. \A n \in 0 .. Size : n < Len(s) => n + 1 \in 1 .. Len(s)
        BY <1>1, <1>2
    <2>2. \A n \in 0 .. Size : Walk[n] \in Used <=> n < Len(s)
        BY <1>1, <1>2, <1>3, <2>1
    <2>3. QED BY <1>1, <1>2, <2>2
<1>5. Cardinality(met) = Len(s)
    <2>1. 0 \in Int /\ Len(s) - 1 \in Int
        BY <1>2
    <2>2. Cardinality(0 .. Len(s) - 1) = IF 0 > Len(s) - 1 THEN 0 ELSE Len(s) - 1 - 0 + 1
        BY <2>1, FS_Interval
    <2>3. Cardinality(0 .. Len(s) - 1) = Len(s)
        BY <1>2, <2>2
    <2> HIDE DEF met
    <2>4. QED BY <1>4, <2>3
<1>6. \A p \in 1 .. Len(s) : walk[p] = s[p] /\ walk[p] \in Ids
    <2>1. ASSUME NEW p \in 1 .. Len(s) PROVE walk[p] = s[p]
        <3>1. p \in 1 .. Size + 1 /\ p - 1 \in 0 .. Size /\ p - 1 < Len(s) /\ p - 1 + 1 = p
            BY <1>1, <1>2
        <3>2. QED BY <1>3, <3>1
    <2>2. QED BY <1>1, <1>2, <2>1
<1>7. Visited = SubSeq(walk, 1, Len(s))
    BY <1>5 DEF Visited
<1> HIDE DEF walk, met
<1>8. /\ SubSeq(walk, 1, Len(s)) \in Seq(Ids)
      /\ Len(SubSeq(walk, 1, Len(s))) = IF 1 <= Len(s) THEN Len(s) - 1 + 1 ELSE 0
      /\ \A i \in 1 .. Len(s) - 1 + 1 : SubSeq(walk, 1, Len(s))[i] = walk[1 + i - 1]
    <2>1. 1 \in Int /\ Len(s) \in Int
        BY <1>2
    <2>2. QED BY <1>6, <2>1, SubSeqProperties
<1> DEFINE t == SubSeq(walk, 1, Len(s))
<1> HIDE DEF t
<1>9. t \in Seq(Ids) /\ Len(t) = Len(s) /\ \A i \in 1 .. Len(s) : t[i] = s[i]
    <2>1. t \in Seq(Ids) /\ Len(t) = Len(s)
        BY <1>2, <1>8 DEF t
    <2>2. ASSUME NEW i \in 1 .. Len(s) PROVE t[i] = s[i]
        <3>1. i \in 1 .. Len(s) - 1 + 1 /\ 1 + i - 1 = i
            BY <1>2
        <3>2. t[i] = walk[1 + i - 1]
            BY <1>8, <3>1 DEF t
        <3>3. QED BY <1>6, <3>1, <3>2
    <2>3. QED BY <2>1, <2>2
<1>10. t = s
    BY <1>2, <1>9, SeqEqual
<1>11. QED BY <1>7, <1>10 DEF t

\* A list without its place k.
LEMMA PlaceTaken ==
    ASSUME NEW S, NEW q \in Seq(S), NEW k \in 1 .. Len(q)
    PROVE  /\ RemoveAt(q, k) \in Seq(S) /\ Len(RemoveAt(q, k)) = Len(q) - 1
           /\ \A n \in 1 .. Len(q) - 1 :
                RemoveAt(q, k)[n] = IF n < k THEN q[n] ELSE q[n + 1]
<1> DEFINE f == SubSeq(q, 1, k - 1)
           b == SubSeq(q, k + 1, Len(q))
<1>1. Len(q) \in Nat /\ k \in Nat /\ 1 <= k /\ k <= Len(q)
    OBVIOUS
<1>2. \A n \in 1 .. Len(q) : q[n] \in S
    BY ElementOfSeq
<1>3. f \in Seq(S) /\ Len(f) = k - 1 /\ \A n \in 1 .. k - 1 : f[n] = q[n]
    <2>1. \A n \in 1 .. k - 1 : q[n] \in S
        BY <1>1, <1>2
    <2>2. 1 \in Int /\ k - 1 \in Int
        BY <1>1
    <2>3. /\ f \in Seq(S) /\ Len(f) = (IF 1 <= k - 1 THEN (k - 1) - 1 + 1 ELSE 0)
          /\ \A n \in 1 .. (k - 1) - 1 + 1 : f[n] = q[1 + n - 1]
        BY <2>1, <2>2, SubSeqProperties
    <2> HIDE DEF f
    <2>4. QED BY <1>1, <2>3
<1>4. b \in Seq(S) /\ Len(b) = Len(q) - k /\ \A n \in 1 .. Len(q) - k : b[n] = q[k + n]
    <2>1. \A n \in k + 1 .. Len(q) : q[n] \in S
        BY <1>1, <1>2
    <2>2. k + 1 \in Int /\ Len(q) \in Int
        BY <1>1
    <2>3. /\ b \in Seq(S)
          /\ Len(b) = (IF k + 1 <= Len(q) THEN Len(q) - (k + 1) + 1 ELSE 0)
          /\ \A n \in 1 .. Len(q) - (k + 1) + 1 : b[n] = q[(k + 1) + n - 1]
        BY <2>1, <2>2, SubSeqProperties
    <2> HIDE DEF b
    <2>4. QED BY <1>1, <2>3
<1>5. RemoveAt(q, k) = f \o b
    BY DEF RemoveAt
<1> HIDE DEF f, b
<1>6. /\ f \o b \in Seq(S) /\ Len(f \o b) = Len(f) + Len(b)
      /\ \A n \in 1 .. Len(f) + Len(b) :
            (f \o b)[n] = IF n <= Len(f) THEN f[n] ELSE b[n - Len(f)]
    BY <1>3, <1>4, ConcatProperties
<1>7. ASSUME NEW n \in 1 .. Len(q) - 1
      PROVE  (f \o b)[n] = IF n < k THEN q[n] ELSE q[n + 1]
    <2>1. n \in 1 .. Len(f) + Len(b)
        BY <1>1, <1>3, <1>4
    <2>2. CASE n < k
        <3>1. n <= Len(f) /\ n \in 1 .. k - 1
            BY <1>1, <1>3, <2>2
        <3>2. QED BY <1>3, <1>6, <2>1, <2>2, <3>1
    <2>3. CASE ~(n < k)
        <3>1. ~(n <= Len(f)) /\ n - Len(f) \in 1 .. Len(q) - k /\ k + (n - Len(f)) = n + 1
            BY <1>1, <1>3, <2>3
        <3>2. QED BY <1>4, <1>6, <2>1, <2>3, <3>1
    <2>4. QED BY <2>2, <2>3
<1>8. Len(f \o b) = Len(q) - 1
    BY <1>1, <1>3, <1>4, <1>6
<1>9. QED BY <1>5, <1>6, <1>7, <1>8

-----------------------------------------------------------------------------
(* What counts, and the part of the invariant that finds it. *)

\* What leads to the successor of a record, or to the first.
Link(i) == IF i = NULL THEN head ELSE entry[i].next

\* An insertion that is not committed, or a deletion whose record is stored.
Pending ==
    \/ intent.state = "inserting" /\ tail # intent.target
    \/ intent.state = "deleting" /\ intent.target \in Used

\* The links on the way to the record of the intent, and the copy of a shift:
\* a link is either as it was or as it will be.
HalfLinked ==
    /\ Pending =>
        /\ Link(intent.prev) \in {intent.target, intent.next}
        /\ Link(intent.prev) = intent.target =>
            intent.target \in Used /\ entry[intent.target].next = intent.next
    /\ pc = "clear" /\ Pending => intent.target \notin Used
    /\ pc = "shift_prev" => Link(entry[curr].prev) = curr
    /\ pc \in CopyWindow => /\ entry[hole].key = entry[curr].key
                            /\ entry[hole].val = entry[curr].val
                            /\ entry[hole].next = entry[curr].next

\* The records that count, and their links once the operation is over.
Counting ==
    IF Pending THEN Others ELSE IF pc \in CopyWindow THEN Used \ {curr} ELSE Used
Mended ==
    IF Pending THEN Relink(entry, intent.prev, intent.next, intent.next, intent.prev)
    ELSE IF pc \in {"shift_prev", "shift_next"}
    THEN Relink(entry, entry[curr].prev, hole, entry[curr].next, hole)
    ELSE entry
First ==
    IF Pending THEN IF intent.prev = NULL THEN intent.next ELSE head
    ELSE IF pc \in {"shift_prev", "shift_next"} /\ entry[curr].prev = NULL THEN hole ELSE head
Final ==
    IF Pending THEN IF intent.next = NULL THEN intent.prev ELSE tail
    ELSE IF pc \in {"shift_prev", "shift_next"} /\ entry[curr].next = NULL THEN hole ELSE tail

\* They are s, in this order.
Settled(s) == Linked(s, Counting, Mended, First, Final)

\* Only one of the operations is going on.
LEMMA OneAtATime ==
    ASSUME LogInv, Structured, Pending
    PROVE  /\ pc \notin CopyWindow /\ intent.target \in Ids /\ WithoutTarget
           /\ intent.state \in {"inserting", "deleting"}
           /\ intent.state = "inserting" => tail = intent.prev /\ intent.next = NULL
<1>1. intent.state \in {"inserting", "deleting"}
    BY DEF Pending
<1>2. pc \notin CopyWindow
    BY <1>1 DEF LogInv, IntentCoversWrite, ShiftPhases, CopyWindow
<1>3. intent.target \in Ids
    BY <1>1 DEF LogInv, IntentCoversWrite
<1>4. WithoutTarget /\ (intent.state = "inserting" => tail = intent.prev /\ intent.next = NULL)
    BY DEF Pending, Structured, OnFlash
<1>5. QED BY <1>1, <1>2, <1>3, <1>4

\* Where nothing is pending the list on flash is the one that counts.
LEMMA NotPending ==
    ASSUME LogInv, Structured, ~Pending, pc \notin CopyWindow
    PROVE  Threads(entry, Used, head, tail)
<1>1. intent.state \in {"none", "updating", "inserting", "deleting", "shifting"}
    BY DEF LogInv, TypeOK, Intent, IntentStates
<1>2. CASE intent.state = "shifting" /\ pc = "shift_intent"
    BY <1>2 DEF Structured, ShiftStage
<1>3. CASE ~(intent.state = "shifting" /\ pc = "shift_intent")
    BY <1>1, <1>3 DEF Pending, Structured, OnFlash, Whole
<1>4. QED BY <1>2, <1>3

\* Relinking neither makes nor deletes a record.
LEMMA RelinkUsed ==
    ASSUME LogInv, NEW p \in IdsOrNull, NEW a \in IdsOrNull, NEW q \in IdsOrNull,
           NEW b \in IdsOrNull
    PROVE  \A i \in Used : Relink(entry, p, a, q, b)[i] # NoEntry
<1>1. /\ entry \in Contents /\ Used \subseteq Ids /\ \A i \in Used : entry[i] \in Entry
    BY LogFacts
<1>2. ASSUME NEW i \in Used PROVE Relink(entry, p, a, q, b)[i] \in Entry
    <2>1. [entry[i] EXCEPT !.next = IF i = p THEN a ELSE @,
                           !.prev = IF i = q THEN b ELSE @] \in Entry
        BY <1>1 DEF Entry
    <2>2. QED BY <1>1, <2>1 DEF Relink, Used
<1>3. NoEntry \notin Entry
    BY NullAssumption DEF Entry
<1>4. QED BY <1>2, <1>3

\* Whatever the phase, the records that count make one list.
LEMMA SettledExists == ASSUME LogInv, Structured PROVE \E s : Settled(s)
<1>0. /\ entry \in Contents /\ Used \subseteq Ids /\ \A i \in Used : entry[i] # NoEntry
      /\ intent.prev \in IdsOrNull /\ intent.next \in IdsOrNull
    BY LogFacts
<1>1. CASE Pending
    <2> DEFINE g == Relink(entry, intent.prev, intent.next, intent.next, intent.prev)
    <2>1. Threads(g, Others, First, Final)
        BY <1>1, OneAtATime DEF WithoutTarget, First, Final
    <2>2. g \in Contents /\ \A i \in Others : g[i] # NoEntry
        BY <1>0, RelinkType, RelinkUsed DEF Others
    <2>3. Others \in SUBSET Ids
        BY <1>0 DEF Others
    <2> HIDE DEF g
    <2>4. \E s : Linked(s, Others, g, First, Final)
        <3>1. PICK f, l : f = First /\ l = Final
            OBVIOUS
        <3>2. \E s : Linked(s, Others, g, f, l)
            BY <2>1, <2>2, <2>3, <3>1, ThreadsLinked
        <3>3. QED BY <3>1, <3>2
    <2>5. Counting = Others /\ Mended = g
        BY <1>1 DEF Counting, Mended, g
    <2>6. QED BY <2>4, <2>5 DEF Settled
<1>2. CASE ~Pending /\ pc \in {"shift_prev", "shift_next"}
    <2> DEFINE g == Relink(entry, entry[curr].prev, hole, entry[curr].next, hole)
               Q == Used \ {curr}
    <2>1. pc \in CopyWindow
        BY <1>2 DEF CopyWindow
    <2>2. Threads(g, Q, First, Final)
        BY <1>2 DEF Structured, ShiftStage, First, Final
    <2>3. hole \in IdsOrNull /\ entry[curr].prev \in IdsOrNull /\ entry[curr].next \in IdsOrNull
        BY <1>0, <2>1, Copying DEF IdsOrNull
    <2>4. g \in Contents /\ \A i \in Q : g[i] # NoEntry
        BY <1>0, <2>3, RelinkType, RelinkUsed
    <2>5. Q \in SUBSET Ids
        BY <1>0
    <2>6. Counting = Q /\ Mended = g
        BY <1>2, <2>1 DEF Counting, Mended
    <2> HIDE DEF g, Q
    <2>7. \E s : Linked(s, Q, g, First, Final)
        <3>1. PICK f, l : f = First /\ l = Final
            OBVIOUS
        <3>2. \E s : Linked(s, Q, g, f, l)
            BY <2>2, <2>4, <2>5, <3>1, ThreadsLinked
        <3>3. QED BY <3>1, <3>2
    <2>8. QED BY <2>6, <2>7 DEF Settled
<1>3. CASE ~Pending /\ pc \notin {"shift_prev", "shift_next"}
    <2> DEFINE Q == Counting
    <2>1. Threads(entry, Q, head, tail)
        <3>1. CASE pc = "shift_del"
            BY <1>3, <3>1 DEF Structured, ShiftStage, Counting, CopyWindow
        <3>2. CASE pc # "shift_del"
            BY <1>3, <3>2, NotPending DEF Counting, CopyWindow
        <3>3. QED BY <3>1, <3>2
    <2>2. Q \in SUBSET Ids /\ \A i \in Q : entry[i] # NoEntry
        BY <1>0, <1>3 DEF Counting
    <2>3. Mended = entry /\ First = head /\ Final = tail
        BY <1>3 DEF Mended, First, Final
    <2> HIDE DEF Q
    <2>4. \E s : Linked(s, Q, entry, head, tail)
        BY <1>0, <2>1, <2>2, ThreadsLinked
    <2>5. QED BY <2>3, <2>4 DEF Settled, Q
<1>4. QED BY <1>1, <1>2, <1>3

-----------------------------------------------------------------------------
(* Lists that differ in one record. *)

\* A record is the first, or follows one record.
LEMMA LinkedOnce ==
    ASSUME NEW s, NEW R, R \subseteq Ids, NEW e, NEW f, NEW l, Linked(s, R, e, f, l)
    PROVE  /\ \A i, j \in R : e[i].next = e[j].next /\ e[i].next # NULL => i = j
           /\ \A i \in R : e[i].next # NULL => e[i].next # f /\ e[i].next \in R
<1>1. /\ Len(s) \in Nat /\ NULL \notin R /\ \A n \in 1 .. Len(s) : s[n] \in R
    BY LinkedFacts
<1>2. ASSUME NEW i \in R, e[i].next # NULL
      PROVE  \E n \in 1 .. Len(s) : s[n] = i /\ n + 1 \in 1 .. Len(s) /\ e[i].next = s[n + 1]
    <2>1. PICK n \in 1 .. Len(s) : s[n] = i
        BY DEF Linked
    <2>2. e[i].next = IF n = Len(s) THEN NULL ELSE s[n + 1]
        BY <2>1 DEF Linked
    <2>3. n # Len(s)
        BY <1>2, <2>2
    <2>4. QED BY <1>1, <2>1, <2>2, <2>3
<1>3. ASSUME NEW i \in R, NEW j \in R, e[i].next = e[j].next, e[i].next # NULL
      PROVE  i = j
    <2>1. PICK m \in 1 .. Len(s) : s[m] = i /\ m + 1 \in 1 .. Len(s) /\ e[i].next = s[m + 1]
        BY <1>2, <1>3
    <2>2. PICK n \in 1 .. Len(s) : s[n] = j /\ n + 1 \in 1 .. Len(s) /\ e[j].next = s[n + 1]
        BY <1>2, <1>3
    <2>3. m + 1 = n + 1
        BY <1>3, <2>1, <2>2 DEF Linked
    <2>4. QED BY <1>1, <2>1, <2>2, <2>3
<1>4. ASSUME NEW i \in R, e[i].next # NULL
      PROVE  e[i].next # f /\ e[i].next \in R
    <2>1. PICK n \in 1 .. Len(s) : s[n] = i /\ n + 1 \in 1 .. Len(s) /\ e[i].next = s[n + 1]
        BY <1>2, <1>4
    <2>2. f = s[1] /\ 1 \in 1 .. Len(s)
        <3>1. Len(s) # 0 /\ 1 \in 1 .. Len(s)
            BY <1>1
        <3>2. QED BY <3>1 DEF Linked
    <2>3. s[n + 1] # s[1]
        BY <1>1, <2>1, <2>2 DEF Linked
    <2>4. QED BY <1>1, <2>1, <2>2, <2>3
<1>5. QED BY <1>3, <1>4

\* The links d from h lead through t as well, after p, where g from f does not.
LeadsThrough(t, p, R, d, h, g, f) ==
    /\ R \subseteq Ids /\ t \in Ids \ R /\ p \in R \cup {NULL}
    /\ d[t].next = IF p = NULL THEN f ELSE g[p].next
    /\ \A i \in R : d[i].next = IF i = p THEN t ELSE g[i].next
    /\ h = IF p = NULL THEN t ELSE f

\* s is w without t, which is at k.
TakenOut(s, w, k, t) ==
    /\ k \in 1 .. Len(w) /\ w[k] = t /\ Len(w) = Len(s) + 1
    /\ \A j \in 1 .. Len(s) : s[j] = IF j < k THEN w[j] ELSE w[j + 1]

\* Lists that differ in t alone, as sequences.
LEMMA Detour ==
    ASSUME NEW s, NEW R, NEW g, NEW f, NEW l, Linked(s, R, g, f, l),
           NEW t, NEW p, NEW d, NEW h, LeadsThrough(t, p, R, d, h, g, f)
    PROVE  \E w, k, last : Linked(w, R \cup {t}, d, h, last) /\ TakenOut(s, w, k, t)
<1>0. /\ R \subseteq Ids /\ t \in Ids /\ t \notin R /\ p \in R \cup {NULL}
      /\ d[t].next = (IF p = NULL THEN f ELSE g[p].next)
      /\ \A i \in R : d[i].next = IF i = p THEN t ELSE g[i].next
      /\ h = (IF p = NULL THEN t ELSE f)
    BY DEF LeadsThrough
<1> USE <1>0
<1>1. /\ Len(s) \in Nat /\ NULL \notin R /\ s \in Seq(R)
      /\ \A n \in 1 .. Len(s) : s[n] \in R /\ s[n] # NULL
    BY LinkedFacts
<1>2. \E k \in 1 .. Len(s) + 1 :
          /\ IF k = 1 THEN p = NULL ELSE p = s[k - 1] /\ p # NULL
          /\ d[t].next = IF k = Len(s) + 1 THEN NULL ELSE s[k]
    <2>1. CASE p = NULL
        <3>1. f = IF Len(s) = 0 THEN NULL ELSE s[1]
            BY DEF Linked
        <3>2. 1 \in 1 .. Len(s) + 1 /\ (1 = Len(s) + 1 <=> Len(s) = 0)
            BY <1>1
        <3>3. d[t].next = f
            BY <2>1
        <3>4. QED BY <2>1, <3>1, <3>2, <3>3
    <2>2. CASE p # NULL
        <3>1. PICK m \in 1 .. Len(s) : s[m] = p
            BY <2>2 DEF Linked
        <3>2. g[p].next = IF m = Len(s) THEN NULL ELSE s[m + 1]
            BY <3>1 DEF Linked
        <3>3. /\ m + 1 \in 1 .. Len(s) + 1 /\ m + 1 # 1 /\ (m + 1) - 1 = m
              /\ m = Len(s) <=> m + 1 = Len(s) + 1
            BY <1>1
        <3>4. d[t].next = g[p].next
            BY <2>2
        <3>5. QED BY <2>2, <3>1, <3>2, <3>3, <3>4
    <2>3. QED BY <2>1, <2>2
<1>3. PICK k \in 1 .. Len(s) + 1 :
          /\ IF k = 1 THEN p = NULL ELSE p = s[k - 1] /\ p # NULL
          /\ d[t].next = IF k = Len(s) + 1 THEN NULL ELSE s[k]
    BY <1>2
<1> DEFINE w == [j \in 1 .. Len(s) + 1 |-> IF j < k THEN s[j] ELSE IF j = k THEN t ELSE s[j - 1]]
           N == Len(s) + 1
           T == R \cup {t}
<1>4. \A j \in 1 .. N : /\ j < k => j \in 1 .. Len(s)
                        /\ j > k => j - 1 \in 1 .. Len(s)
    BY <1>1
<1>5. w \in [1 .. N -> T] /\ N \in Nat
    BY <1>1, <1>4
<1>6. w \in Seq(T) /\ Len(w) = N
    BY <1>5
<1>7. /\ \A j \in 1 .. N : j < k => w[j] = s[j]
      /\ w[k] = t
      /\ \A j \in 1 .. N : j > k => w[j] = s[j - 1]
    BY <1>1
<1> HIDE DEF w
<1>8. \A j \in 1 .. Len(s) : /\ j < k => j \in 1 .. N /\ w[j] = s[j]
                             /\ ~(j < k) => j + 1 \in 1 .. N /\ w[j + 1] = s[j]
    <2>1. ASSUME NEW j \in 1 .. Len(s), j < k PROVE j \in 1 .. N /\ w[j] = s[j]
        BY <1>1, <1>7, <2>1
    <2>2. ASSUME NEW j \in 1 .. Len(s), ~(j < k) PROVE j + 1 \in 1 .. N /\ w[j + 1] = s[j]
        <3>1. j + 1 \in 1 .. N /\ j + 1 > k /\ (j + 1) - 1 = j
            BY <1>1, <2>2
        <3>2. QED BY <1>7, <3>1
    <2>3. QED BY <2>1, <2>2
<1>9. \A i \in T : \E j \in 1 .. N : w[j] = i
    <2>1. ASSUME NEW i \in R PROVE \E j \in 1 .. N : w[j] = i
        <3>1. PICK j \in 1 .. Len(s) : s[j] = i
            BY DEF Linked
        <3>2. QED BY <1>8, <3>1
    <2>2. k \in 1 .. N /\ w[k] = t
        BY <1>7
    <2>3. QED BY <2>1, <2>2
<1>10. \A m, n \in 1 .. N : w[m] = w[n] => m = n
    <2>1. \A m, n \in 1 .. Len(s) : s[m] = s[n] => m = n
        BY DEF Linked
    <2>2. ASSUME NEW m \in 1 .. N, NEW n \in 1 .. N, m < n, w[m] = w[n] PROVE FALSE
        <3>1. CASE n < k
            <4>1. m \in 1 .. Len(s) /\ n \in 1 .. Len(s) /\ m < k
                BY <1>4, <2>2, <3>1
            <4>2. s[m] = s[n]
                BY <1>7, <2>2, <3>1, <4>1
            <4>3. QED BY <2>1, <2>2, <4>1, <4>2
        <3>2. CASE n = k
            <4>1. m \in 1 .. Len(s) /\ w[m] = s[m]
                BY <1>4, <1>7, <2>2, <3>2
            <4>2. QED BY <1>1, <1>7, <2>2, <3>2, <4>1
        <3>3. CASE n > k
            <4>1. n - 1 \in 1 .. Len(s) /\ w[n] = s[n - 1]
                BY <1>4, <1>7, <3>3
            <4>2. CASE m < k
                <5>1. m \in 1 .. Len(s) /\ w[m] = s[m]
                    BY <1>4, <1>7, <4>2
                <5>2. m = n - 1
                    BY <2>1, <2>2, <4>1, <5>1
                <5>3. QED BY <3>3, <4>2, <5>2
            <4>3. CASE m = k
                BY <1>1, <1>7, <2>2, <4>1, <4>3
            <4>4. CASE m > k
                <5>1. m - 1 \in 1 .. Len(s) /\ w[m] = s[m - 1]
                    BY <1>4, <1>7, <4>4
                <5>2. m - 1 = n - 1
                    BY <2>1, <2>2, <4>1, <5>1
                <5>3. QED BY <2>2, <5>2
            <4>5. QED BY <4>2, <4>3, <4>4
        <3>4. QED BY <3>1, <3>2, <3>3
    <2>3. QED BY <1>1, <2>2
<1>11. h = w[1]
    <2>1. CASE k = 1
        BY <1>3, <1>7, <2>1
    <2>2. CASE k # 1
        <3>1. 1 < k /\ 1 \in 1 .. N /\ Len(s) # 0
            BY <1>1, <2>2
        <3>2. w[1] = s[1] /\ h = f
            BY <1>3, <1>7, <2>2, <3>1
        <3>3. QED BY <3>1, <3>2 DEF Linked
    <2>3. QED BY <2>1, <2>2
<1>12. ASSUME NEW j \in 1 .. N
       PROVE  d[w[j]].next = IF j = N THEN NULL ELSE w[j + 1]
    <2>0. \A n \in 1 .. Len(s) : g[s[n]].next = IF n = Len(s) THEN NULL ELSE s[n + 1]
        BY DEF Linked
    <2>1. CASE j < k
        <3>1. j \in 1 .. Len(s) /\ w[j] = s[j] /\ j # N /\ j + 1 \in 1 .. N
            BY <1>1, <1>4, <1>7, <2>1
        <3>2. CASE j = k - 1
            <4>1. s[j] = p /\ w[j + 1] = t
                BY <1>3, <1>7, <3>1, <3>2
            <4>2. QED BY <1>1, <3>1, <4>1
        <3>3. CASE j # k - 1
            <4>1. k # 1 /\ k - 1 \in 1 .. Len(s) /\ j + 1 < k /\ j # Len(s)
                BY <1>1, <2>1, <3>1, <3>3
            <4>2. s[j] # p
                <5>1. \A m, n \in 1 .. Len(s) : s[m] = s[n] => m = n
                    BY DEF Linked
                <5>2. QED BY <1>3, <3>1, <3>3, <4>1, <5>1
            <4>3. d[s[j]].next = s[j + 1]
                BY <1>1, <2>0, <3>1, <4>1, <4>2
            <4>4. w[j + 1] = s[j + 1]
                BY <1>7, <3>1, <4>1
            <4>5. QED BY <3>1, <4>3, <4>4
        <3>4. QED BY <3>2, <3>3
    <2>2. CASE j = k
        <3>1. k # N => k \in 1 .. N /\ k + 1 \in 1 .. N /\ k + 1 > k /\ (k + 1) - 1 = k
            BY <1>1
        <3>2. k # N => w[k + 1] = s[k]
            BY <1>7, <3>1
        <3>3. QED BY <1>3, <1>7, <2>2, <3>2
    <2>3. CASE j > k
        <3>1. j - 1 \in 1 .. Len(s) /\ w[j] = s[j - 1] /\ (j - 1) + 1 = j /\ j - 1 # k - 1
            BY <1>4, <1>7, <2>3
        <3>2. s[j - 1] # p
            <4>1. CASE k = 1
                BY <1>1, <1>3, <3>1, <4>1
            <4>2. CASE k # 1
                <5>1. k - 1 \in 1 .. Len(s)
                    BY <1>1, <4>2
                <5>2. \A m, n \in 1 .. Len(s) : s[m] = s[n] => m = n
                    BY DEF Linked
                <5>3. s[k - 1] = p
                    BY <1>3, <4>2
                <5>4. QED BY <3>1, <5>1, <5>2, <5>3
            <4>3. QED BY <4>1, <4>2
        <3>3. d[s[j - 1]].next = g[s[j - 1]].next
            BY <1>1, <3>1, <3>2
        <3>4. CASE j = N
            <4>1. j - 1 = Len(s)
                BY <1>1, <3>4
            <4>2. g[s[j - 1]].next = NULL
                BY <2>0, <3>1, <4>1
            <4>3. QED BY <3>1, <3>3, <3>4, <4>2
        <3>5. CASE j # N
            <4>1. j - 1 # Len(s) /\ j + 1 \in 1 .. N /\ j + 1 > k /\ (j + 1) - 1 = j
                <5>1. j \in Int /\ k \in Int /\ 1 <= j /\ j <= N /\ j # N /\ Len(s) \in Nat
                    BY <1>1, <3>5
                <5>2. QED BY <2>3, <5>1
            <4>2. g[s[j - 1]].next = s[j]
                BY <2>0, <3>1, <4>1
            <4>3. w[j + 1] = s[j]
                BY <1>7, <4>1
            <4>4. QED BY <3>1, <3>3, <3>5, <4>2, <4>3
        <3>6. QED BY <3>4, <3>5
    <2>4. QED BY <2>1, <2>2, <2>3
<1>13. Linked(w, T, d, h, w[Len(w)])
    <2>1. Len(w) # 0 /\ Len(w) = N
        BY <1>1, <1>6
    <2> HIDE DEF N, T
    <2>2. /\ \A i \in T : \E j \in 1 .. Len(w) : w[j] = i
          /\ \A m, n \in 1 .. Len(w) : w[m] = w[n] => m = n
        BY <1>9, <1>10, <2>1
    <2>3. h = IF Len(w) = 0 THEN NULL ELSE w[1]
        BY <1>11, <2>1
    <2>4. \A j \in 1 .. Len(w) : d[w[j]].next = IF j = Len(w) THEN NULL ELSE w[j + 1]
        BY <1>12, <2>1
    <2>5. QED BY <1>6, <2>1, <2>2, <2>3, <2>4, Zenon DEF Linked
<1>14. \A j \in 1 .. Len(s) : s[j] = IF j < k THEN w[j] ELSE w[j + 1]
    BY <1>8
<1>15. TakenOut(s, w, k, t)
    BY <1>6, <1>7, <1>14 DEF TakenOut
<1>16. QED BY <1>13, <1>15

\* The links d from h to m have b where g from f to l has a.
Replaces(b, a, R, d, h, m, g, f, l) ==
    /\ R \subseteq Ids /\ a \in R /\ b \in Ids \ R /\ d[b].next = g[a].next
    /\ \A i \in R \ {a} : d[i].next = IF g[i].next = a THEN b ELSE g[i].next
    /\ h = IF f = a THEN b ELSE f
    /\ m = IF l = a THEN b ELSE l

\* Lists of which one has b in the place of a, as sequences.
LEMMA Swapped ==
    ASSUME NEW s, NEW R, NEW g, NEW f, NEW l, Linked(s, R, g, f, l),
           NEW a, NEW b, NEW d, NEW h, NEW m, Replaces(b, a, R, d, h, m, g, f, l)
    PROVE  Linked([j \in 1 .. Len(s) |-> IF s[j] = a THEN b ELSE s[j]],
                  (R \ {a}) \cup {b}, d, h, m)
<1> DEFINE w == [j \in 1 .. Len(s) |-> IF s[j] = a THEN b ELSE s[j]]
           T == (R \ {a}) \cup {b}
           N == Len(s)
<1>0. /\ R \subseteq Ids /\ a \in R /\ b \in Ids /\ b \notin R /\ d[b].next = g[a].next
      /\ \A i \in R \ {a} : d[i].next = IF g[i].next = a THEN b ELSE g[i].next
      /\ h = (IF f = a THEN b ELSE f) /\ m = (IF l = a THEN b ELSE l)
    BY DEF Replaces
<1> USE <1>0
<1>1. /\ N \in Nat /\ NULL \notin R /\ s \in Seq(R)
      /\ \A n \in 1 .. N : s[n] \in R /\ s[n] # NULL
    BY LinkedFacts
<1>2. w \in [1 .. N -> T] /\ N \in Nat
    BY <1>1
<1>3. w \in Seq(T) /\ Len(w) = N
    BY <1>2
<1>4. \A j \in 1 .. N : w[j] = IF s[j] = a THEN b ELSE s[j]
    OBVIOUS
<1>5. PICK k \in 1 .. N : s[k] = a
    BY DEF Linked
<1> HIDE DEF w
<1>6. \A i \in T : \E j \in 1 .. N : w[j] = i
    <2>1. ASSUME NEW i \in R \ {a} PROVE \E j \in 1 .. N : w[j] = i
        <3>1. PICK j \in 1 .. N : s[j] = i
            BY DEF Linked
        <3>2. QED BY <1>4, <3>1
    <2>2. w[k] = b
        BY <1>4, <1>5
    <2>3. QED BY <2>1, <2>2
<1>7. \A i, j \in 1 .. N : w[i] = w[j] => i = j
    <2>1. \A i, j \in 1 .. N : s[i] = s[j] => i = j
        BY DEF Linked
    <2>2. \A i, j \in 1 .. N : w[i] = w[j] => s[i] = s[j]
        BY <1>1, <1>4
    <2>3. QED BY <2>1, <2>2
<1>8. ASSUME NEW j \in 1 .. N
      PROVE  d[w[j]].next = IF j = N THEN NULL ELSE w[j + 1]
    <2>1. g[s[j]].next = IF j = N THEN NULL ELSE s[j + 1]
        BY DEF Linked
    <2>2. j # N => j + 1 \in 1 .. N
        BY <1>1
    <2>3. CASE s[j] = a
        <3>1. j # N => s[j + 1] # a
            <4>1. j # N => (s[j + 1] = s[j] => j + 1 = j)
                BY <2>2 DEF Linked
            <4>2. j + 1 # j
                BY <1>1
            <4>3. QED BY <2>3, <4>1, <4>2
        <3>2. d[w[j]].next = g[a].next
            BY <1>4, <2>3
        <3>3. QED BY <1>4, <2>1, <2>2, <2>3, <3>1, <3>2
    <2>4. CASE s[j] # a
        <3>1. w[j] = s[j] /\ s[j] \in R \ {a}
            BY <1>1, <1>4, <2>4
        <3>2. d[s[j]].next = IF g[s[j]].next = a THEN b ELSE g[s[j]].next
            BY <3>1
        <3>3. CASE j = N
            BY <1>1, <2>1, <3>1, <3>2, <3>3
        <3>4. CASE j # N
            BY <1>4, <2>1, <2>2, <3>1, <3>2, <3>4
        <3>5. QED BY <3>3, <3>4
    <2>5. QED BY <2>3, <2>4
<1>9. N # 0 /\ 1 \in 1 .. N /\ N \in 1 .. N /\ f = s[1] /\ l = s[N]
    BY <1>1, <1>5 DEF Linked
<1>10. h = w[1] /\ m = w[N]
    BY <1>4, <1>9
<1>11. Linked(w, T, d, h, m)
    BY <1>3, <1>6, <1>7, <1>8, <1>9, <1>10 DEF Linked
<1>12. QED BY <1>11 DEF w

-----------------------------------------------------------------------------
(* What is shown is what counts. *)

\* All of a list counts, if the record that does not is not in it.
LEMMA NoneTaken ==
    ASSUME NEW s \in Seq(Ids), \A p \in 1 .. Len(s) : ~Uncommitted(s[p])
    PROVE  Counted[s] = s
<1>1. {p \in DOMAIN s : Uncommitted(s[p])} = {}
    OBVIOUS
<1>2. QED BY <1>1 DEF Counted

\* The record that does not count is taken out.
LEMMA OneTaken ==
    ASSUME NEW s \in Seq(Ids), NEW k \in 1 .. Len(s), Uncommitted(s[k]),
           \A p, q \in 1 .. Len(s) : s[p] = s[q] => p = q
    PROVE  Counted[s] = RemoveAt(s, k)
<1> DEFINE places == {p \in DOMAIN s : Uncommitted(s[p])}
<1>1. \A p \in 1 .. Len(s) : Uncommitted(s[p]) => p = k
    BY DEF Uncommitted
<1>2. places = {k}
    BY <1>1
<1> HIDE DEF places
<1>3. Counted[s] = IF places = {} THEN s ELSE RemoveAt(s, CHOOSE p \in places : TRUE)
    BY DEF Counted, places
<1>4. places # {} /\ (CHOOSE p \in places : TRUE) = k
    BY <1>2
<1>5. QED BY <1>3, <1>4

\* What the records of a list store, one by one.
LEMMA PairsIs ==
    ASSUME NEW s \in Seq(Ids)
    PROVE  Pairs[s] = [p \in 1 .. Len(s) |-> [key |-> entry[s[p]].key, val |-> entry[s[p]].val]]
BY DEF Pairs

\* Where the list is the one that counts.
LEMMA SettledShown ==
    ASSUME LogInv, NEW s, NEW R, R \subseteq Used, NEW l, Linked(s, R, entry, head, l),
           \A i \in R : ~Uncommitted(i)
    PROVE  Items = Pairs[s]
<1>1. Used \subseteq Ids
    BY LogFacts
<1>2. s \in Seq(Ids) /\ \A p \in 1 .. Len(s) : s[p] \in R
    BY <1>1, LinkedFacts
<1>3. Counted[s] = s
    BY <1>2, NoneTaken
<1>4. Visited = s
    BY VisitedIs
<1>5. QED BY <1>3, <1>4 DEF Items

\* The refinement mapping shows what counts, in every phase.
LEMMA SettledItems ==
    ASSUME LogInv, Structured, HalfLinked, NEW s, Settled(s)
    PROVE  Items = Pairs[s]
<1> DEFINE t == intent.target
           p == intent.prev
           n == intent.next
<1>0. /\ entry \in Contents /\ Used \subseteq Ids /\ \A i \in Used : entry[i] # NoEntry
      /\ p \in IdsOrNull /\ n \in IdsOrNull /\ NULL \notin Used
    BY LogFacts
<1>1. CASE Pending
    <2> DEFINE g == Relink(entry, p, n, n, p)
    <2>1. Linked(s, Others, g, First, Final)
        BY <1>1 DEF Settled, Counting, Mended
    <2>2. \A i \in Others : g[i].next = IF i = p THEN n ELSE entry[i].next
        BY <1>0, RelinkIs DEF Others
    <2>3. /\ t \in Ids /\ p \in Others \cup {NULL} /\ n \in Others \cup {NULL}
          /\ t \notin Others /\ Others \subseteq Used /\ Others \subseteq Ids
        BY <1>0, <1>1, OneAtATime DEF WithoutTarget, Others
    <2>4. First = IF p = NULL THEN n ELSE head
        BY <1>1 DEF First
    <2> HIDE DEF g, t, p, n
    <2>5. CASE Link(p) # t
        <3>1. Link(p) = n
            BY <1>1, <2>5 DEF HalfLinked, p, n, t
        <3>2. First = head
            BY <2>4, <3>1 DEF Link
        <3>3. \A i \in Others : entry[i].next = g[i].next
            <4>1. p # NULL => entry[p].next = n
                BY <3>1 DEF Link
            <4>2. NULL \notin Others
                BY <1>0, <2>3
            <4>3. QED BY <2>2, <4>1, <4>2
        <3>4. Linked(s, Others, entry, head, Final)
            BY <2>1, <3>2, <3>3, LinkedSame
        <3>5. \A i \in Others : ~Uncommitted(i)
            BY <2>3 DEF Uncommitted, t
        <3>6. PICK l : l = Final
            OBVIOUS
        <3>7. QED BY <2>3, <3>4, <3>5, <3>6, SettledShown
    <2>6. CASE Link(p) = t
        <3>1. t \in Used /\ entry[t].next = n
            BY <1>1, <2>6 DEF HalfLinked, p, n, t
        <3>2. entry[t].next = IF p = NULL THEN First ELSE g[p].next
            BY <2>2, <2>3, <2>4, <3>1
        <3>3. \A i \in Others : entry[i].next = IF i = p THEN t ELSE g[i].next
            <4>1. NULL \notin Others
                BY <1>0, <2>3
            <4>2. QED BY <2>2, <2>6, <4>1 DEF Link
        <3>4. head = IF p = NULL THEN t ELSE First
            BY <2>4, <2>6 DEF Link
        <3>5. \E w, k, last : Linked(w, Others \cup {t}, entry, head, last) /\ TakenOut(s, w, k, t)
            <4>1. LeadsThrough(t, p, Others, entry, head, g, First)
                BY <2>3, <3>2, <3>3, <3>4 DEF LeadsThrough
            <4>2. PICK f, l, h, R, d, x : /\ f = First /\ l = Final /\ h = head
                                          /\ R = Others /\ d = entry /\ x = t
                OBVIOUS
            <4>3. PICK y, e : y = p /\ e = g
                OBVIOUS
            <4>4. Linked(s, R, e, f, l) /\ LeadsThrough(x, y, R, d, h, e, f)
                BY <2>1, <4>1, <4>2, <4>3
            <4>5. \E w, k, last : Linked(w, R \cup {x}, d, h, last) /\ TakenOut(s, w, k, x)
                BY <4>4, Detour
            <4>6. QED BY <4>2, <4>5
        <3>6. PICK w, k, last :
                 /\ Linked(w, Others \cup {t}, entry, head, last)
                 /\ k \in 1 .. Len(w) /\ w[k] = t /\ Len(w) = Len(s) + 1
                 /\ \A j \in 1 .. Len(s) : s[j] = IF j < k THEN w[j] ELSE w[j + 1]
            BY <3>5 DEF TakenOut
        <3>7. Others \cup {t} \subseteq Used
            BY <2>3, <3>1
        <3>8. w \in Seq(Ids) /\ s \in Seq(Ids) /\ Len(s) \in Nat
            BY <1>0, <2>1, <2>3, <3>6, <3>7, LinkedFacts
        <3>9. Uncommitted(w[k])
            BY <1>1, <3>6 DEF Uncommitted, Pending, t
        <3>10. Counted[w] = RemoveAt(w, k)
            <4>1. \A i, j \in 1 .. Len(w) : w[i] = w[j] => i = j
                BY <3>6 DEF Linked
            <4>2. QED BY <3>6, <3>8, <3>9, <4>1, OneTaken
        <3>11. RemoveAt(w, k) = s
            <4>1. /\ RemoveAt(w, k) \in Seq(Ids) /\ Len(RemoveAt(w, k)) = Len(w) - 1
                  /\ \A j \in 1 .. Len(w) - 1 :
                        RemoveAt(w, k)[j] = IF j < k THEN w[j] ELSE w[j + 1]
                BY <3>6, <3>8, PlaceTaken
            <4>2. Len(w) - 1 = Len(s)
                BY <3>6, <3>8
            <4>3. QED BY <3>6, <3>8, <4>1, <4>2, SeqEqual
        <3>12. Visited = w
            BY <3>6, <3>7, VisitedIs
        <3>13. QED BY <3>10, <3>11, <3>12 DEF Items
    <2>7. QED BY <2>5, <2>6
<1>2. ASSUME ~Pending, NEW i \in Used PROVE ~Uncommitted(i)
    BY <1>2 DEF Pending, Uncommitted
<1>3. CASE ~Pending /\ pc \notin {"shift_prev", "shift_next"}
    <2>1. Linked(s, Counting, entry, head, tail)
        BY <1>3 DEF Settled, Mended, First, Final
    <2>2. Counting \subseteq Used
        BY <1>3 DEF Counting
    <2>3. \A i \in Counting : ~Uncommitted(i)
        BY <1>2, <1>3, <2>2
    <2>4. PICK l, R : l = tail /\ R = Counting
        OBVIOUS
    <2>5. QED BY <2>1, <2>2, <2>3, <2>4, SettledShown
<1>4. CASE ~Pending /\ pc \in {"shift_prev", "shift_next"}
    <2> DEFINE cp == entry[curr].prev
               cn == entry[curr].next
               Q == Used \ {curr}
               g == Relink(entry, cp, hole, cn, hole)
    <2>1. /\ pc \in CopyWindow /\ hole \in Q /\ curr \in Used /\ curr \in Ids
          /\ cp \in (Used \ {hole, curr}) \cup {NULL} /\ cn \in (Used \ {hole, curr}) \cup {NULL}
        BY <1>4, Copying DEF CopyWindow
    <2>2. Linked(s, Q, g, First, Final)
        BY <1>4, <2>1 DEF Settled, Counting, Mended
    <2>3. \A i \in Q : g[i].next = IF i = cp THEN hole ELSE entry[i].next
        BY <1>0, RelinkIs
    <2>4. First = IF cp = NULL THEN hole ELSE head
        BY <1>4 DEF First
    <2>5. Q \subseteq Ids /\ Q \subseteq Used /\ NULL \notin Q /\ curr \notin Q
        BY <1>0
    <2>6. CASE pc = "shift_next"
        <3>1. IF cp = NULL THEN head = hole ELSE entry[cp].next = hole
            BY <2>6 DEF Structured, ShiftStage
        <3>2. First = head
            BY <2>4, <3>1
        <3>3. \A i \in Q : entry[i].next = g[i].next
            BY <2>3, <2>5, <3>1
        <3> HIDE DEF Q, g
        <3>4. Linked(s, Q, entry, head, Final)
            BY <2>2, <3>2, <3>3, LinkedSame
        <3>5. PICK l, R : l = Final /\ R = Q
            OBVIOUS
        <3>6. QED BY <1>2, <1>4, <2>5, <3>4, <3>5, SettledShown
    <2>7. CASE pc = "shift_prev"
        <3> DEFINE w == [j \in 1 .. Len(s) |-> IF s[j] = hole THEN curr ELSE s[j]]
                   m == IF Final = hole THEN curr ELSE Final
                   T == (Q \ {hole}) \cup {curr}
        <3>1. /\ Link(cp) = curr
              /\ entry[hole].key = entry[curr].key /\ entry[hole].val = entry[curr].val
              /\ entry[hole].next = cn
            BY <2>1, <2>7 DEF HalfLinked
        <3> HIDE DEF cp, cn, Q, g, m, T
        <3>2. /\ \A i, j \in Q : g[i].next = g[j].next /\ g[i].next # NULL => i = j
              /\ \A i \in Q : g[i].next # NULL => g[i].next # First
            BY <2>2, <2>5, LinkedOnce
        <3>3. hole # NULL /\ (cp # NULL => cp \in Q /\ cp # hole)
            BY <1>0, <2>1, <2>5 DEF Q
        <3>4. ASSUME NEW i \in Q \ {hole}
              PROVE  entry[i].next = IF g[i].next = hole THEN curr ELSE g[i].next
            <4>1. CASE i = cp
                BY <2>3, <2>5, <3>1, <4>1 DEF Link
            <4>2. CASE i # cp
                <5>1. g[i].next = entry[i].next
                    BY <2>3, <4>2
                <5>2. g[i].next # hole
                    <6>1. CASE cp = NULL
                        BY <2>4, <3>2, <3>3, <6>1
                    <6>2. CASE cp # NULL
                        <7>1. g[cp].next = hole
                            BY <2>3, <3>3, <6>2
                        <7>2. QED BY <3>2, <3>3, <4>2, <6>2, <7>1
                    <6>3. QED BY <6>1, <6>2
                <5>3. QED BY <5>1, <5>2
            <4>3. QED BY <4>1, <4>2
        <3>5. head = IF First = hole THEN curr ELSE First
            <4>1. CASE cp = NULL
                BY <2>4, <3>1, <4>1 DEF Link
            <4>2. CASE cp # NULL
                <5>1. g[cp].next = hole /\ First = head
                    BY <2>3, <2>4, <3>3, <4>2
                <5>2. QED BY <3>2, <3>3, <4>2, <5>1
            <4>3. QED BY <4>1, <4>2
        <3>6. entry[curr].next = g[hole].next
            BY <2>1, <2>3, <3>1, <3>3 DEF cn
        <3>7. Linked(w, T, entry, head, m)
            <4>1. Replaces(curr, hole, Q, entry, head, m, g, First, Final)
                BY <2>1, <2>5, <3>4, <3>5, <3>6 DEF Replaces, m
            <4>2. PICK f, l, h, R, d, e, y : /\ f = First /\ l = Final /\ h = head
                                             /\ R = Q /\ d = entry /\ e = g /\ y = m
                OBVIOUS
            <4>3. PICK a, b : a = hole /\ b = curr
                OBVIOUS
            <4>4. Linked(s, R, e, f, l) /\ Replaces(b, a, R, d, h, y, e, f, l)
                BY <2>2, <4>1, <4>2, <4>3
            <4>5. Linked([j \in 1 .. Len(s) |-> IF s[j] = a THEN b ELSE s[j]],
                         (R \ {a}) \cup {b}, d, h, y)
                BY <4>4, Swapped
            <4>6. QED BY <4>2, <4>3, <4>5 DEF T
        <3>8. T \subseteq Used
            BY <2>1, <2>5 DEF T
        <3>9. Items = Pairs[w]
            <4> HIDE DEF w
            <4>1. PICK l, R : l = m /\ R = T
                OBVIOUS
            <4>2. QED BY <1>2, <1>4, <3>7, <3>8, <4>1, SettledShown
        <3>10. w \in Seq(Ids) /\ s \in Seq(Ids) /\ Len(w) = Len(s)
            <4>1. s \in Seq(Ids) /\ Len(s) \in Nat
                BY <2>2, <2>5, LinkedFacts
            <4>2. T \subseteq Ids
                BY <1>0, <3>8
            <4>3. Len(w) = Len(s)
                BY <4>1
            <4> HIDE DEF w
            <4>4. w \in Seq(Ids)
                BY <3>7, <4>2, LinkedFacts
            <4>5. QED BY <4>1, <4>3, <4>4
        <3>11. \A j \in 1 .. Len(s) : /\ entry[w[j]].key = entry[s[j]].key
                                      /\ entry[w[j]].val = entry[s[j]].val
            BY <3>1
        <3>12. Pairs[w] = Pairs[s]
            <4> HIDE DEF w
            <4>1. Pairs[w] = [j \in 1 .. Len(s) |-> [key |-> entry[w[j]].key, val |-> entry[w[j]].val]]
                BY <3>10, PairsIs
            <4>2. Pairs[s] = [j \in 1 .. Len(s) |-> [key |-> entry[s[j]].key, val |-> entry[s[j]].val]]
                BY <3>10, PairsIs
            <4>3. QED BY <3>11, <4>1, <4>2
        <3>13. QED BY <3>9, <3>12
    <2>8. QED BY <1>4, <2>6, <2>7
<1>5. QED BY <1>1, <1>3, <1>4

-----------------------------------------------------------------------------
(* The links on the way are kept by every step. *)

\* Where intent, ends and links stay, so does what is on the way.
LEMMA HalfKept ==
    ASSUME HalfLinked, UNCHANGED flash, pc' \notin CopyWindow, pc' = "clear" => ~Pending
    PROVE  HalfLinked'
<1>1. UNCHANGED <<entry, head, tail, intent>> /\ Pending' = Pending
    BY DEF flash, Pending, Used
<1>2. pc' # "shift_prev"
    BY DEF CopyWindow
<1>3. QED BY <1>1, <1>2 DEF HalfLinked, Link, Used

\* Where no insertion or deletion is going on there is none on the way.
LEMMA HalfNone ==
    ASSUME ~Pending', pc' \notin CopyWindow
    PROVE  HalfLinked'
<1>1. pc' # "shift_prev"
    BY DEF CopyWindow
<1>2. QED BY <1>1 DEF HalfLinked

\* Every record is where its neighbours, or the ends, lead.
LEMMA ThreadsLead ==
    ASSUME LogInv, NEW R, R \subseteq Used, Threads(entry, R, head, tail), NEW i \in R
    PROVE  /\ Link(entry[i].prev) = i
           /\ entry[i].prev \in R \cup {NULL} /\ entry[i].prev # i
           /\ entry[i].next \in R \cup {NULL} /\ entry[i].next # i
           /\ entry[i].next = NULL <=> i = tail
<1>1. PICK pos \in [Ids -> Nat] : Chain(pos, entry, R, head, tail)
    BY DEF Threads
<1>2. R \subseteq Ids
    BY LogFacts
<1>3. /\ entry[i].prev = NULL <=> i = head
      /\ entry[i].prev # NULL =>
            entry[i].prev \in R /\ entry[entry[i].prev].next = i /\ pos[entry[i].prev] < pos[i]
      /\ entry[i].next = NULL <=> i = tail
      /\ entry[i].next # NULL => entry[i].next \in R /\ entry[entry[i].next].prev = i
    BY <1>1 DEF Chain
<1>4. \A j \in R : pos[j] \in Nat
    BY <1>2
<1>5. entry[i].prev # i
    <2>1. CASE entry[i].prev = NULL
        BY <1>2, <2>1, NullAssumption
    <2>2. CASE entry[i].prev # NULL
        <3>1. pos[entry[i].prev] < pos[i] /\ pos[i] \in Nat
            BY <1>3, <1>4, <2>2
        <3>2. QED BY <3>1
    <2>3. QED BY <2>1, <2>2
<1>6. entry[i].next # i
    <2>1. ASSUME entry[i].next = i PROVE FALSE
        <3>1. entry[i].next # NULL
            BY <1>2, <2>1, NullAssumption
        <3>2. entry[i].prev = i
            BY <1>3, <2>1, <3>1
        <3>3. QED BY <1>5, <3>2
    <2>2. QED BY <2>1
<1>7. Link(entry[i].prev) = i
    BY <1>3 DEF Link
<1>8. QED BY <1>3, <1>5, <1>6, <1>7

\* Rewriting a link leaves keys and values alone.
LEMMA PairsKept ==
    ASSUME LogInv, NEW i \in IdsOrNull, NEW n \in IdsOrNull, ~Dangling(i),
           entry' = SetNext(i, n) \/ entry' = SetPrev(i, n)
    PROVE  \A j \in Used : entry'[j].key = entry[j].key /\ entry'[j].val = entry[j].val
<1>1. /\ entry \in Contents /\ Used \subseteq Ids /\ \A j \in Used : entry[j] \in Entry
    BY LogFacts
<1>2. CASE i = NULL
    BY <1>2 DEF SetNext, SetPrev
<1>3. CASE i # NULL
    <2>1. i \in Ids /\ entry[i] \in Entry
        BY <1>1, <1>3 DEF IdsOrNull, Dangling, Contents
    <2>2. \/ entry' = [entry EXCEPT ![i].next = n]
          \/ entry' = [entry EXCEPT ![i].prev = n]
        BY <1>3 DEF SetNext, SetPrev
    <2>3. /\ [entry[i] EXCEPT !.next = n].key = entry[i].key
          /\ [entry[i] EXCEPT !.next = n].val = entry[i].val
          /\ [entry[i] EXCEPT !.prev = n].key = entry[i].key
          /\ [entry[i] EXCEPT !.prev = n].val = entry[i].val
        BY <2>1 DEF Entry
    <2>4. \A j \in Ids : \/ j # i /\ entry'[j] = entry[j]
                         \/ j = i /\ entry'[j] = [entry[i] EXCEPT !.next = n]
                         \/ j = i /\ entry'[j] = [entry[i] EXCEPT !.prev = n]
        BY <1>1, <2>1, <2>2 DEF Contents
    <2>5. QED BY <1>1, <2>3, <2>4
<1>4. QED BY <1>2, <1>3

\* Insertions: the new record is linked behind the tail, then becomes it.
LEMMA HalfInsert ==
    ASSUME LogInv, Structured, HalfLinked, Insert PROVE HalfLinked'
<1> DEFINE t == intent.target
<1>0. /\ entry \in Contents /\ Used \subseteq Ids /\ NULL \notin Used
      /\ intent.prev \in IdsOrNull /\ tail \in IdsOrNull
    BY LogFacts
<1>1. CASE InsertIntent
    <2> DEFINE i == Slot(req.key)
    <2>1. /\ UNCHANGED <<entry, head, tail>> /\ pc' = "payload" /\ Used' = Used
          /\ intent.state = "none"
        BY <1>1 DEF InsertIntent, Goto, Used, LogInv, IntentCoversWrite
    <2>2. Threads(entry, Used, head, tail)
        BY <2>1 DEF Structured, OnFlash, Whole
    <2>3. i \in Ids
        BY <1>1, SlotType DEF InsertIntent, LogInv, IntentCoversWrite, Requests
    <2> HIDE DEF i
    <2>4. CASE entry[i] = NoEntry
        <3>1. /\ intent'.state = "inserting" /\ intent'.target = i
              /\ intent'.prev = tail /\ intent'.next = NULL
            BY <1>1, <2>4 DEF InsertIntent, i
        <3>2. IF tail = NULL THEN head = NULL ELSE entry[tail].next = NULL
            BY <1>0, <2>2, ThreadsEnds
        <3>3. Link(tail)' = NULL
            BY <2>1, <3>2 DEF Link
        <3>4. i # NULL
            BY <2>3, NullAssumption
        <3>5. QED BY <2>1, <3>1, <3>3, <3>4 DEF HalfLinked, CopyWindow, Link
    <2>5. CASE entry[i] # NoEntry
        <3>1. intent'.state = "updating"
            BY <1>1, <2>5 DEF InsertIntent, i
        <3>2. QED BY <2>1, <3>1, HalfNone DEF Pending, CopyWindow
    <2>6. QED BY <2>4, <2>5
<1>2. CASE InsertPayload /\ intent.state = "updating"
    <2>1. intent' = intent /\ pc' = "clear"
        BY <1>2 DEF InsertPayload, Goto
    <2>2. QED BY <1>2, <2>1, HalfNone DEF Pending, CopyWindow
<1>3. CASE InsertPayload /\ intent.state # "updating"
    <2>1. /\ UNCHANGED <<head, tail, intent>> /\ pc' = "link"
          /\ intent.state = "inserting" /\ t \in Ids /\ t \notin Used /\ tail # t
        BY <1>3 DEF InsertPayload, Goto, LogInv, IntentCoversWrite, Structured, InsertStage
    <2>2. Pending
        BY <2>1 DEF Pending
    <2>3. /\ Link(intent.prev) = intent.next /\ intent.next = NULL
          /\ intent.prev = tail
        BY <2>1, <2>2, OneAtATime DEF HalfLinked
    <2>4. \A j \in Ids \ {t} : entry'[j] = entry[j]
        BY <1>0, <1>3 DEF InsertPayload, Contents
    <2>5. intent.prev # NULL => intent.prev \in Ids \ {t}
        BY <1>0, <2>1, <2>3 DEF IdsOrNull
    <2>6. Link(intent.prev)' = NULL
        BY <2>1, <2>3, <2>4, <2>5 DEF Link
    <2>7. t # NULL
        BY <2>1, NullAssumption
    <2>8. QED BY <2>1, <2>3, <2>6, <2>7 DEF HalfLinked, CopyWindow, Link
<1>4. CASE InsertLink
    <2>1. /\ UNCHANGED <<head, tail, intent>> /\ pc' = "ends"
          /\ intent.state = "inserting" /\ t \in Ids /\ t \in Used /\ tail # t
          /\ entry[t].next = NULL
        BY <1>4 DEF InsertLink, Goto, LogInv, IntentCoversWrite, InsertPhases,
                    Structured, InsertStage
    <2>2. Pending
        BY <2>1 DEF Pending
    <2>3. intent.next = NULL /\ intent.prev = tail
        BY <2>1, <2>2, OneAtATime
    <2>4. CASE tail = NULL
        <3>1. entry' = entry
            BY <1>4, <2>4 DEF InsertLink, SetNext
        <3>2. QED BY <2>1, <2>2, <3>1 DEF HalfLinked, CopyWindow, Link, Used
    <2>5. CASE tail # NULL
        <3>1. t \in IdsOrNull /\ ~Dangling(tail) /\ entry' = SetNext(tail, t)
            BY <1>4, <2>1 DEF InsertLink, IdsOrNull
        <3>2. /\ Used' = Used
              /\ \A j \in Used : entry'[j].next = IF j = tail THEN t ELSE entry[j].next
            BY <1>0, <3>1, NextChanged
        <3>3. tail \in Used
            BY <1>0, <2>5, <3>1 DEF Dangling, IdsOrNull, Used
        <3>4. Link(intent.prev)' = t /\ entry'[t].next = NULL
            BY <2>1, <2>3, <2>5, <3>2, <3>3 DEF Link
        <3>5. QED BY <2>1, <2>3, <3>2, <3>4 DEF HalfLinked, CopyWindow
    <2>6. QED BY <2>4, <2>5
<1>5. CASE InsertEnds
    <2>1. /\ intent' = intent /\ tail' = t /\ pc' = "clear" /\ intent.state = "inserting"
        BY <1>5 DEF InsertEnds, Goto, LogInv, IntentCoversWrite, InsertPhases
    <2>2. QED BY <2>1, HalfNone DEF Pending, CopyWindow
<1>6. QED BY <1>1, <1>2, <1>3, <1>4, <1>5 DEF Insert

\* Deletions: the neighbours are linked to each other, then the ends moved.
LEMMA HalfDelete ==
    ASSUME LogInv, Structured, HalfLinked, Delete PROVE HalfLinked'
<1> DEFINE t == intent.target
           p == intent.prev
           n == intent.next
<1>0. /\ entry \in Contents /\ Used \subseteq Ids /\ NULL \notin Used
      /\ p \in IdsOrNull /\ n \in IdsOrNull
    BY LogFacts
<1>1. CASE DeleteIntent
    <2> DEFINE i == Slot(req.key)
    <2>1. /\ UNCHANGED <<entry, head, tail>> /\ pc' = "unlink_prev" /\ Used' = Used
          /\ intent.state = "none"
          /\ intent'.state = "deleting" /\ intent'.target = i
          /\ intent'.prev = entry[i].prev /\ intent'.next = entry[i].next
        BY <1>1 DEF DeleteIntent, Goto, Used, LogInv, IntentCoversWrite
    <2>2. Threads(entry, Used, head, tail)
        BY <2>1 DEF Structured, OnFlash, Whole
    <2>3. i \in Used
        BY <1>1, SlotType DEF DeleteIntent, LogInv, IntentCoversWrite, Requests, Used
    <2> HIDE DEF i
    <2>4. Link(entry[i].prev) = i
        BY <2>2, <2>3, ThreadsLead
    <2>5. QED BY <2>1, <2>3, <2>4 DEF HalfLinked, CopyWindow, Link
<1>2. ASSUME UnlinkPrev \/ UnlinkNext \/ UnlinkEnds
      PROVE  /\ intent' = intent /\ t \in Used /\ Pending /\ n # t /\ p # t
             /\ pc' \in {"unlink_next", "unlink_ends", "erase"}
    <2>1. intent.state = "deleting" /\ t \in Used /\ WithoutTarget
        BY <1>2, Deleting DEF UnlinkPrev, UnlinkNext, UnlinkEnds
    <2>2. n # t /\ p # t
        BY <1>0, <2>1 DEF WithoutTarget, Others
    <2>3. QED BY <1>2, <2>1, <2>2 DEF UnlinkPrev, UnlinkNext, UnlinkEnds, Goto, Pending
<1>3. CASE UnlinkPrev
    <2>1. UNCHANGED <<head, tail>> /\ ~Dangling(p) /\ entry' = SetNext(p, n)
        BY <1>3 DEF UnlinkPrev
    <2>2. CASE p = NULL
        <3>1. entry' = entry
            BY <2>1, <2>2 DEF SetNext
        <3>2. QED BY <1>2, <1>3, <2>1, <3>1 DEF HalfLinked, CopyWindow, Link, Used
    <2>3. CASE p # NULL
        <3>1. /\ Used' = Used
              /\ \A j \in Used : entry'[j].next = IF j = p THEN n ELSE entry[j].next
            BY <1>0, <2>1, NextChanged
        <3>2. p \in Used
            BY <1>0, <2>1, <2>3 DEF Dangling, IdsOrNull, Used
        <3>3. Link(intent.prev)' = n
            BY <1>2, <1>3, <2>3, <3>1, <3>2 DEF Link
        <3>4. QED BY <1>2, <1>3, <3>3 DEF HalfLinked, CopyWindow
    <2>4. QED BY <2>2, <2>3
<1>4. CASE UnlinkNext
    <2>1. UNCHANGED <<head, tail>> /\ ~Dangling(n) /\ entry' = SetPrev(n, p)
        BY <1>4 DEF UnlinkNext
    <2>2. Used' = Used /\ \A j \in Used : entry'[j].next = entry[j].next
        BY <1>0, <2>1, PrevChanged
    <2>3. p # NULL => p \in Used
        BY <1>2, <1>4, OneAtATime DEF WithoutTarget, Others
    <2>4. Link(intent.prev)' = Link(p) /\ entry'[t].next = entry[t].next
        BY <1>2, <1>4, <2>1, <2>2, <2>3 DEF Link
    <2>5. QED BY <1>2, <1>4, <2>2, <2>4 DEF HalfLinked, CopyWindow
<1>5. CASE UnlinkEnds
    <2>1. /\ entry' = entry /\ Used' = Used
          /\ head' = IF p = NULL THEN n ELSE head
        BY <1>5 DEF UnlinkEnds, Used
    <2>2. Link(intent.prev)' = IF p = NULL THEN n ELSE Link(p)
        BY <1>2, <1>5, <2>1 DEF Link
    <2>3. QED BY <1>2, <1>5, <2>1, <2>2 DEF HalfLinked, CopyWindow
<1>6. CASE EraseTarget
    <2>1. /\ intent' = intent /\ pc' = "to_shifting" /\ t \in Ids
          /\ intent.state = "deleting"
        BY <1>0, <1>6, Deleting DEF EraseTarget, Goto
    <2>2. t \notin Used'
        BY <1>0, <1>6, <2>1 DEF EraseTarget, Used, Contents
    <2>3. QED BY <2>1, <2>2, HalfNone DEF Pending, CopyWindow
<1>7. CASE ToShifting
    <2>1. intent'.state = "shifting" /\ pc' = "shift"
        BY <1>7 DEF ToShifting, ShiftingFrom, Goto
    <2>2. QED BY <2>1, HalfNone DEF Pending, CopyWindow
<1>8. QED BY <1>1, <1>3, <1>4, <1>5, <1>6, <1>7 DEF Delete

\* Shifts: the neighbours are linked to the copy.
LEMMA HalfShift ==
    ASSUME LogInv, Structured, HalfLinked, Shift PROVE HalfLinked'
<1>0. /\ entry \in Contents /\ Used \subseteq Ids /\ NULL \notin Used
      /\ \A j \in Used : entry[j] \in Entry
    BY LogFacts
<1>1. /\ intent.state = "shifting" /\ ~Pending
      /\ pc \in ShiftPhases /\ hole \in Ids /\ curr \in Ids
    <2>1. pc \in ShiftPhases
        BY DEF Shift, ShiftDone, ShiftSkip, ShiftCopy, ShiftPrev, ShiftNext, ShiftDelete,
               ShiftIntent, ShiftPhases
    <2>2. QED BY <2>1 DEF LogInv, IntentCoversWrite, Pending
<1>2. CASE ShiftDone
    BY <1>1, <1>2, HalfKept DEF ShiftDone, Goto, CopyWindow
<1>3. CASE ShiftSkip
    BY <1>1, <1>3, HalfKept DEF ShiftSkip, CopyWindow
<1>4. CASE ShiftCopy
    <2>1. /\ UNCHANGED <<head, tail, intent, hole, curr>> /\ pc' = "shift_prev"
          /\ curr # hole /\ curr \in Used
        BY <1>1, <1>4 DEF ShiftCopy, Goto, loop, Used
    <2>2. hole \notin Used /\ Threads(entry, Used, head, tail)
        BY <1>4, Shifting DEF ShiftCopy
    <2>3. entry'[hole] = entry[curr] /\ \A j \in Ids \ {hole} : entry'[j] = entry[j]
        BY <1>0, <1>1, <1>4 DEF ShiftCopy, Contents
    <2>4. Link(entry[curr].prev) = curr /\ entry[curr].prev \in Used \cup {NULL}
        BY <2>1, <2>2, ThreadsLead
    <2>5. entry'[curr] = entry[curr]
        BY <1>1, <2>1, <2>3
    <2>6. Link(entry[curr].prev)' = curr
        <3>1. CASE entry[curr].prev = NULL
            BY <2>1, <2>4, <2>5, <3>1 DEF Link
        <3>2. CASE entry[curr].prev # NULL
            <4>1. entry[curr].prev \in Ids \ {hole}
                BY <1>0, <2>2, <2>4, <3>2
            <4>2. entry'[entry[curr].prev] = entry[entry[curr].prev]
                BY <2>3, <4>1
            <4>3. QED BY <2>1, <2>4, <2>5, <3>2, <4>2 DEF Link
        <3>3. QED BY <3>1, <3>2
    <2>7. ~Pending'
        BY <1>1, <2>1 DEF Pending
    <2>8. QED BY <2>1, <2>3, <2>5, <2>6, <2>7 DEF HalfLinked
<1>5. ASSUME ShiftPrev \/ ShiftNext
      PROVE  /\ UNCHANGED <<intent, hole, curr>> /\ pc \in CopyWindow /\ ~Pending'
             /\ hole \in Used /\ curr \in Used
             /\ entry[curr].prev \in (Used \ {hole, curr}) \cup {NULL}
             /\ entry[curr].next \in (Used \ {hole, curr}) \cup {NULL}
             /\ entry[curr].prev \in IdsOrNull /\ entry[curr].next \in IdsOrNull
             /\ hole \in IdsOrNull
             /\ entry[hole].key = entry[curr].key /\ entry[hole].val = entry[curr].val
             /\ entry[hole].next = entry[curr].next
    <2>1. UNCHANGED <<intent, hole, curr>> /\ pc \in CopyWindow
        BY <1>5 DEF ShiftPrev, ShiftNext, CopyWindow, loop
    <2>2. ~Pending'
        BY <1>1, <2>1 DEF Pending
    <2>3. /\ hole \in Used /\ curr \in Used
          /\ entry[curr].prev \in (Used \ {hole, curr}) \cup {NULL}
          /\ entry[curr].next \in (Used \ {hole, curr}) \cup {NULL}
        BY <2>1, Copying
    <2>4. /\ entry[hole].key = entry[curr].key /\ entry[hole].val = entry[curr].val
          /\ entry[hole].next = entry[curr].next
        BY <2>1 DEF HalfLinked
    <2>5. QED BY <1>0, <2>1, <2>2, <2>3, <2>4 DEF IdsOrNull
<1>6. CASE ShiftPrev
    <2>1. ~Dangling(entry[curr].prev) /\ entry' = SetNext(entry[curr].prev, hole) /\ pc' = "shift_next"
        BY <1>6 DEF ShiftPrev, Goto
    <2>2. \A j \in Used : entry'[j].key = entry[j].key /\ entry'[j].val = entry[j].val
        BY <1>5, <1>6, <2>1, PairsKept
    <2>3. /\ Used' = Used
          /\ \A j \in Used : entry'[j].next = IF j = entry[curr].prev THEN hole ELSE entry[j].next
        BY <1>5, <1>6, <2>1, NextChanged
    <2>4. entry'[hole].next = entry[hole].next /\ entry'[curr].next = entry[curr].next
        BY <1>0, <1>5, <1>6, <2>3
    <2>5. QED BY <1>5, <1>6, <2>1, <2>2, <2>4 DEF HalfLinked
<1>7. CASE ShiftNext
    <2>1. ~Dangling(entry[curr].next) /\ entry' = SetPrev(entry[curr].next, hole) /\ pc' = "shift_del"
        BY <1>7 DEF ShiftNext, Goto
    <2>2. \A j \in Used : entry'[j].key = entry[j].key /\ entry'[j].val = entry[j].val
        BY <1>5, <1>7, <2>1, PairsKept
    <2>3. \A j \in Used : entry'[j].next = entry[j].next
        BY <1>5, <1>7, <2>1, PrevChanged
    <2>4. QED BY <1>5, <1>7, <2>1, <2>2, <2>3 DEF HalfLinked
<1>8. CASE ShiftDelete
    <2>1. intent' = intent /\ pc' = "shift_intent"
        BY <1>8 DEF ShiftDelete, Goto
    <2>2. QED BY <1>1, <2>1, HalfNone DEF Pending, CopyWindow
<1>9. CASE ShiftIntent
    <2>1. intent'.state = "shifting" /\ pc' = "shift"
        BY <1>9 DEF ShiftIntent, ShiftingFrom, Goto
    <2>2. QED BY <2>1, HalfNone DEF Pending, CopyWindow
<1>10. QED BY <1>2, <1>3, <1>4, <1>6, <1>7, <1>8, <1>9 DEF Shift

\* The choices of a recovery.
LEMMA HalfResolve ==
    ASSUME LogInv, Structured, HalfLinked,
           \/ ResolveNothing \/ ResolveInsert \/ UndoLink \/ UndoPayload
           \/ ResolveUpdate \/ ResolveDelete \/ ResolveShift
    PROVE  HalfLinked'
<1>0. /\ entry \in Contents /\ Used \subseteq Ids /\ NULL \notin Used
    BY LogFacts
<1>1. CASE ResolveNothing \/ ResolveDelete \/ ResolveShift
    <2>1. /\ UNCHANGED flash
          /\ pc' \in {"idle", "exec", "to_shifting", "unlink_prev", "shift"}
        BY <1>1 DEF ResolveNothing, Answered, Leave, ResolveDelete, ResolveShift, Goto
    <2>2. QED BY <2>1, HalfKept DEF CopyWindow
<1>2. CASE ResolveInsert
    <2>1. /\ UNCHANGED flash /\ intent.state = "inserting"
          /\ pc' = IF tail = intent.target THEN "clear" ELSE "undo_link"
        BY <1>2 DEF ResolveInsert, Goto
    <2>2. QED BY <2>1, HalfKept DEF CopyWindow, Pending
<1>3. CASE ResolveUpdate
    <2>1. UNCHANGED flash /\ intent.state = "updating" /\ pc' = "clear"
        BY <1>3 DEF ResolveUpdate, Goto
    <2>2. QED BY <2>1, HalfKept DEF CopyWindow, Pending
<1>4. ASSUME UndoLink \/ UndoPayload
      PROVE  /\ UNCHANGED <<head, tail, intent>> /\ intent.prev = tail /\ intent.next = NULL
             /\ tail \in Others \cup {NULL}
             /\ tail = NULL => head = NULL
             /\ intent.target \in Ids /\ intent.target # NULL
             /\ Others \subseteq Ids /\ NULL \notin Others
             /\ pc' \in {"undo_payload", "clear"}
    <2>1. pc \in {"undo_link", "undo_payload"} /\ pc' \in {"undo_payload", "clear"}
        BY <1>4 DEF UndoLink, UndoPayload, Goto
    <2>2. UNCHANGED <<head, tail, intent>>
        BY <1>4 DEF UndoLink, UndoPayload
    <2>3. QED BY <1>0, <2>1, <2>2, Undoing, NullAssumption DEF Others
<1>5. CASE UndoLink
    <2>1. pc' = "undo_payload" /\ ~Dangling(intent.prev) /\ entry' = SetNext(intent.prev, NULL)
        BY <1>5 DEF UndoLink, Goto
    <2>2. Link(intent.prev)' = NULL
        <3>1. CASE tail = NULL
            BY <1>4, <1>5, <3>1 DEF Link
        <3>2. CASE tail # NULL
            <4>1. entry' = [entry EXCEPT ![tail].next = NULL] /\ tail \in Ids
                BY <1>4, <1>5, <2>1, <3>2 DEF SetNext
            <4>2. entry[tail] \in Entry
                BY <1>4, <1>5, <3>2, LogFacts DEF Others
            <4>3. entry'[tail].next = NULL
                BY <1>0, <4>1, <4>2 DEF Contents, Entry
            <4>4. QED BY <1>4, <1>5, <3>2, <4>3 DEF Link
        <3>3. QED BY <3>1, <3>2
    <2>3. QED BY <1>4, <1>5, <2>1, <2>2 DEF HalfLinked, CopyWindow
<1>6. CASE UndoPayload
    <2>1. /\ pc' = "clear" /\ pc = "undo_payload"
          /\ entry' = [entry EXCEPT ![intent.target] = NoEntry]
        BY <1>6 DEF UndoPayload, Goto
    <2>2. intent.target \notin Used' /\ \A j \in Others : entry'[j] = entry[j]
        BY <1>0, <1>4, <1>6, <2>1 DEF Used, Contents, Others
    <2>3. tail # NULL => entry[tail].next = NULL
        BY <2>1 DEF Structured, InsertStage
    <2>4. Link(intent.prev)' = NULL
        BY <1>4, <1>6, <2>2, <2>3 DEF Link
    <2>5. QED BY <1>4, <1>6, <2>1, <2>2, <2>4 DEF HalfLinked, CopyWindow
<1>7. QED BY <1>1, <1>2, <1>3, <1>5, <1>6

\* What cannot happen where faults spare the copy window.
LEMMA NotSpared ==
    ASSUME LogInv, Structured, Sparing
    PROVE  ~NeighbourMissing /\ ~Wipe /\ ~ResolveShiftWrapped /\ ~UndoPayloadRefused
<1>1. ~NeighbourMissing
    BY NoneMissing DEF NeighbourMissing
<1>2. ~Wipe
    BY DEF Wipe, Structured
<1>3. ~ResolveShiftWrapped
    <2>1. ASSUME ResolveShiftWrapped PROVE FALSE
        <3>1. pc = "resolve" /\ intent.state = "shifting" /\ HolesAhead = {}
            BY <2>1 DEF ResolveShiftWrapped
        <3>2. \E h \in Ids : IsHole(h)
            BY <3>1 DEF Structured, OnFlash, CopyWindow
        <3>3. QED BY <3>1, <3>2 DEF IsHole
    <2>2. QED BY <2>1
<1>4. ~UndoPayloadRefused
    BY DEF UndoPayloadRefused, Sparing
<1>5. QED BY <1>1, <1>2, <1>3, <1>4

\* A call that is cut short writes nothing.
LEMMA CutShort ==
    ASSUME LogInv, Structured, Sparing, PowerLoss \/ ZmsError
    PROVE  /\ UNCHANGED flash /\ req' = NoReq /\ res' = Answer("error", NULL)
           /\ pc' \in {"idle", "down"} /\ resolving' = FALSE /\ pc \notin CopyWindow
<1>1. CASE PowerLoss
    BY <1>1 DEF PowerLoss, Leave, Sparing
<1>2. CASE ZmsError
    <2>1. UNCHANGED flash /\ req.kind # "open" /\ Failed /\ pc \notin CopyWindow
        BY <1>2 DEF ZmsError, Sparing
    <2>2. Leave(Answer("error", NULL), "idle")
        BY <2>1 DEF Failed
    <2>3. QED BY <2>1, <2>2 DEF Leave
<1>3. QED BY <1>1, <1>2

\* What Next can be.
LEMMA SparedSteps ==
    ASSUME LogInv, Structured, Sparing, Next
    PROVE  \/ \E r \in Requests : Begin(r)
           \/ Insert \/ Delete \/ Shift \/ Clear \/ AnswerMiss \/ FindHit
           \/ ResolveNothing \/ ResolveInsert \/ UndoLink \/ UndoPayload
           \/ ResolveUpdate \/ ResolveDelete \/ ResolveShift
           \/ PowerLoss \/ ZmsError
BY NotSpared DEF Next, Work, Resolve, Fault

\* All steps.
LEMMA HalfStep ==
    ASSUME LogInv, Structured, HalfLinked, Sparing, [Next]_vars PROVE HalfLinked'
<1>1. CASE UNCHANGED vars
    <2>1. UNCHANGED <<entry, head, tail, intent, pc, hole, curr>>
        BY <1>1 DEF vars, flash, loop
    <2>2. QED BY <2>1 DEF HalfLinked, Pending, Link, Used
<1>2. CASE \E r \in Requests : Begin(r)
    <2>1. UNCHANGED flash /\ pc' = "resolve"
        BY <1>2 DEF Begin
    <2>2. QED BY <2>1, HalfKept DEF CopyWindow
<1>3. CASE AnswerMiss \/ FindHit
    <2>1. UNCHANGED flash /\ pc' = "idle"
        BY <1>3 DEF AnswerMiss, FindHit, Answered, Leave
    <2>2. QED BY <2>1, HalfKept DEF CopyWindow
<1>4. CASE PowerLoss \/ ZmsError
    <2>1. UNCHANGED flash /\ pc' \in {"idle", "down"}
        BY <1>4, CutShort
    <2>2. QED BY <2>1, HalfKept DEF CopyWindow
<1>5. CASE Clear
    <2>1. intent'.state = "none" /\ pc' \in {"exec", "idle"}
        BY <1>5 DEF Clear, Answered, Leave, NoIntent
    <2>2. QED BY <2>1, HalfNone DEF Pending, CopyWindow
<1>6. CASE Next
    BY <1>2, <1>3, <1>4, <1>5, <1>6, SparedSteps, HalfInsert, HalfDelete, HalfShift, HalfResolve
<1>7. QED BY <1>1, <1>6

-----------------------------------------------------------------------------
(* What the call in progress has done, when it is not recovering. *)

\* No record has the key of the call.
Gone == \A j \in Used : entry[j].key # req.key

\* A deletion before and after its record is erased.
UnlinkPhases == {"unlink_prev", "unlink_next", "unlink_ends", "erase"}
GonePhases == {"to_shifting", "clear"} \cup ShiftPhases

\* Before the log is cleared the pair of an insertion is stored under the record of
\* the intent, and the key of a deletion is gone; a resolution claims nothing.
Served ==
    /\ pc \in {"idle", "down"} => req = NoReq
    /\ pc \in {"resolve", "undo_link", "undo_payload"} => resolving
    /\ pc = "exec" => ~resolving
    /\ req.kind = "open" => resolving
    /\ ~resolving /\ pc \in {"link", "ends", "clear"} /\ req.kind = "insert" =>
        /\ intent.target \in Used
        /\ entry[intent.target].key = req.key /\ entry[intent.target].val = req.val
    /\ ~resolving /\ pc \in DeletePhases \cup ShiftPhases => req.kind = "delete"
    /\ ~resolving /\ pc \in UnlinkPhases => entry[intent.target].key = req.key
    /\ ~resolving /\ pc \in GonePhases /\ req.kind = "delete" => Gone
    /\ ~resolving /\ pc = "clear" => req.kind \in {"insert", "delete"}

\* A call that is over, or not begun, has done nothing.
LEMMA ServedLeft ==
    ASSUME req' = NoReq, pc' \in {"idle", "down"}
    PROVE  Served'
BY DEF Served, NoReq, DeletePhases, ShiftPhases, UnlinkPhases, GonePhases

\* While recovering nothing is claimed.
LEMMA ServedResolving ==
    ASSUME resolving', pc' \notin {"idle", "down", "exec"}
    PROVE  Served'
BY DEF Served

\* Nor before a call has written anything.
LEMMA ServedExec ==
    ASSUME ~resolving', pc' \in {"exec", "payload"}, req'.kind # "open"
    PROVE  Served'
BY DEF Served, DeletePhases, ShiftPhases, UnlinkPhases, GonePhases

\* A key stays gone while no record gets it.
LEMMA GoneKept ==
    ASSUME Gone, req' = req, \A j \in Used' : \E i \in Used : entry'[j].key = entry[i].key
    PROVE  Gone'
BY DEF Gone

\* A deletion that is past its commit.
LEMMA ServedGone ==
    ASSUME req' = req, resolving' = resolving, ~resolving, req.kind = "delete",
           pc' \in GonePhases, Gone'
    PROVE  Served'
BY DEF Served, UnlinkPhases, GonePhases, ShiftPhases

\* Insertions store the pair of the call.
LEMMA ServedInsert ==
    ASSUME LogInv, Structured, Served, Insert PROVE Served'
<1>0. /\ entry \in Contents /\ Used \subseteq Ids /\ tail \in IdsOrNull
    BY LogFacts
<1>1. CASE InsertIntent
    <2>1. pc = "exec" /\ pc' = "payload" /\ req' = req /\ resolving' = resolving
        BY <1>1 DEF InsertIntent, Goto, call
    <2>2. ~resolving /\ req.kind # "open"
        BY <2>1 DEF LogInv, IntentCoversWrite, CallPhases
    <2>3. QED BY <2>1, <2>2, ServedExec
<1>2. ASSUME InsertPayload \/ InsertLink \/ InsertEnds
      PROVE  /\ req' = req /\ resolving' = resolving /\ ~resolving /\ intent' = intent
             /\ req.kind = "insert" /\ req \in Requests /\ intent.target \in Ids
             /\ pc' \in {"link", "ends", "clear"}
    BY <1>2 DEF InsertPayload, InsertLink, InsertEnds, Goto, call, LogInv, IntentCoversWrite,
                InsertPhases, CallPhases
<1>3. ASSUME InsertPayload \/ InsertLink \/ InsertEnds, intent.target \in Used',
             entry'[intent.target].key = req.key, entry'[intent.target].val = req.val
      PROVE  Served'
    BY <1>2, <1>3 DEF Served, DeletePhases, ShiftPhases, UnlinkPhases, GonePhases
<1>4. CASE InsertPayload
    <2>1. entry'[intent.target] = [key |-> req.key, val |-> req.val,
                                   next |-> intent.next, prev |-> intent.prev]
        BY <1>0, <1>2, <1>4 DEF InsertPayload, Contents
    <2>2. req.key \in Keys /\ req.val \in Vals
        BY <1>2, <1>4 DEF Requests
    <2>3. intent.prev \in IdsOrNull /\ intent.next \in IdsOrNull
        BY LogFacts
    <2>4. entry'[intent.target] \in Entry
        BY <2>1, <2>2, <2>3 DEF Entry
    <2>5. intent.target \in Used'
        BY <1>2, <1>4, <2>4, NullAssumption DEF Used, Entry
    <2>6. QED BY <1>3, <1>4, <2>1, <2>5
<1>5. CASE InsertLink
    <2>1. pc = "link" /\ ~Dangling(tail) /\ entry' = SetNext(tail, intent.target)
        BY <1>5 DEF InsertLink
    <2>2. /\ intent.target \in Used
          /\ entry[intent.target].key = req.key /\ entry[intent.target].val = req.val
        BY <1>2, <1>5, <2>1 DEF Served
    <2>3. intent.target \in IdsOrNull
        BY <1>2, <1>5 DEF IdsOrNull
    <2>4. Used' = Used
        BY <1>0, <2>1, <2>3, NextChanged
    <2>5. /\ entry'[intent.target].key = entry[intent.target].key
          /\ entry'[intent.target].val = entry[intent.target].val
        BY <1>0, <2>1, <2>2, <2>3, PairsKept
    <2>6. QED BY <1>3, <1>5, <2>2, <2>4, <2>5
<1>6. CASE InsertEnds
    <2>1. pc = "ends" /\ entry' = entry
        BY <1>6 DEF InsertEnds
    <2>2. /\ intent.target \in Used
          /\ entry[intent.target].key = req.key /\ entry[intent.target].val = req.val
        BY <1>2, <1>6, <2>1 DEF Served
    <2>3. QED BY <1>3, <1>6, <2>1, <2>2 DEF Used
<1>7. QED BY <1>1, <1>4, <1>5, <1>6 DEF Insert

\* Deletions remove the key of the call.
LEMMA ServedDelete ==
    ASSUME LogInv, Structured, Served, Delete PROVE Served'
<1>0. /\ entry \in Contents /\ Used \subseteq Ids
      /\ intent.prev \in IdsOrNull /\ intent.next \in IdsOrNull
    BY LogFacts
<1>1. req' = req /\ resolving' = resolving /\ pc' \in DeletePhases \cup {"shift"}
    BY DEF Delete, DeleteIntent, UnlinkPrev, UnlinkNext, UnlinkEnds, EraseTarget, ToShifting,
           Goto, call, DeletePhases
<1>2. CASE resolving
    BY <1>1, <1>2, ServedResolving DEF DeletePhases
<1>3. CASE DeleteIntent
    <2>1. /\ pc = "exec" /\ req.kind = "delete" /\ pc' = "unlink_prev" /\ entry' = entry
          /\ Stops(req.key) # {} /\ entry[Slot(req.key)] # NoEntry
          /\ intent'.target = Slot(req.key)
        BY <1>3 DEF DeleteIntent, Goto
    <2>2. req.key \in Keys
        BY <2>1 DEF LogInv, IntentCoversWrite, Requests
    <2>3. Slot(req.key) \in Stops(req.key)
        BY <2>1, <2>2, SlotType
    <2>4. entry[Slot(req.key)].key = req.key
        BY <2>1, <2>3 DEF Stops, Holds
    <2>5. ~resolving
        BY <2>1 DEF Served
    <2>6. QED BY <1>1, <2>1, <2>4, <2>5
              DEF Served, DeletePhases, ShiftPhases, UnlinkPhases, GonePhases
<1>4. CASE ~resolving /\ (UnlinkPrev \/ UnlinkNext \/ UnlinkEnds)
    <2>1. /\ pc \in UnlinkPhases /\ pc' \in UnlinkPhases /\ intent' = intent
          /\ pc \in {"unlink_prev", "unlink_next", "unlink_ends", "erase"}
        BY <1>4 DEF UnlinkPrev, UnlinkNext, UnlinkEnds, Goto, UnlinkPhases
    <2>2. intent.target \in Used
        BY <2>1, Deleting
    <2>3. req.kind = "delete" /\ entry[intent.target].key = req.key
        BY <1>4, <2>1 DEF Served, UnlinkPhases, DeletePhases
    <2>4. entry'[intent.target].key = entry[intent.target].key
        <3>1. CASE UnlinkPrev
            BY <1>0, <2>2, <3>1, NextChanged DEF UnlinkPrev
        <3>2. CASE UnlinkNext
            BY <1>0, <2>2, <3>2, PrevChanged DEF UnlinkNext
        <3>3. CASE UnlinkEnds
            BY <3>3 DEF UnlinkEnds
        <3>4. QED BY <1>4, <3>1, <3>2, <3>3
    <2>5. QED BY <1>1, <2>1, <2>3, <2>4
              DEF Served, DeletePhases, ShiftPhases, UnlinkPhases, GonePhases
<1>5. CASE ~resolving /\ EraseTarget
    <2>1. /\ pc = "erase" /\ pc' = "to_shifting"
          /\ entry' = [entry EXCEPT ![intent.target] = NoEntry]
        BY <1>5 DEF EraseTarget, Goto
    <2>2. intent.target \in Used /\ Probed(entry, Used, {intent.target})
        BY <2>1, Deleting
    <2>3. req.kind = "delete" /\ entry[intent.target].key = req.key
        BY <1>5, <2>1 DEF Served, UnlinkPhases, DeletePhases
    <2>4. \A j \in Used' : j \in Used /\ j # intent.target /\ entry'[j] = entry[j]
        BY <1>0, <2>1, <2>2 DEF Used, Contents
    <2>5. \A j \in Used' : entry'[j].key # req.key
        BY <2>2, <2>3, <2>4 DEF Probed
    <2>6. Gone'
        BY <1>1, <2>5 DEF Gone
    <2>7. QED BY <1>1, <1>5, <2>1, <2>3, <2>6, ServedGone DEF GonePhases
<1>6. CASE ~resolving /\ ToShifting
    <2>1. pc = "to_shifting" /\ pc' = "shift" /\ entry' = entry
        BY <1>6 DEF ToShifting, Goto
    <2>2. req.kind = "delete"
        BY <1>6, <2>1 DEF Served, DeletePhases
    <2>3. Gone
        BY <1>6, <2>1, <2>2 DEF Served, GonePhases
    <2>4. Gone'
        BY <1>1, <2>1, <2>3 DEF Gone, Used
    <2>5. QED BY <1>1, <1>6, <2>1, <2>2, <2>4, ServedGone DEF GonePhases, ShiftPhases
<1>7. QED BY <1>2, <1>3, <1>4, <1>5, <1>6 DEF Delete

\* Shifts move records of other keys.
LEMMA ServedShift ==
    ASSUME LogInv, Structured, Served, Shift PROVE Served'
<1>0. /\ entry \in Contents /\ Used \subseteq Ids
    BY LogFacts
<1>1. /\ req' = req /\ resolving' = resolving
      /\ pc \in ShiftPhases /\ pc' \in ShiftPhases \cup {"clear"}
    BY DEF Shift, ShiftDone, ShiftSkip, ShiftCopy, ShiftPrev, ShiftNext, ShiftDelete,
           ShiftIntent, Goto, call, ShiftPhases
<1>2. CASE resolving
    BY <1>1, <1>2, ServedResolving DEF ShiftPhases
<1>3. hole \in Ids /\ curr \in Ids
    BY <1>1 DEF LogInv, IntentCoversWrite
<1>4. CASE ~resolving
    <2>1. req.kind = "delete"
        BY <1>1, <1>4 DEF Served
    <2>2. Gone
        BY <1>1, <1>4, <2>1 DEF Served, GonePhases
    <2>3. \A j \in Used' : \E i \in Used : entry'[j].key = entry[i].key
        <3>1. CASE ShiftDone \/ ShiftSkip \/ ShiftIntent
            <4>1. entry' = entry
                BY <3>1 DEF ShiftDone, ShiftSkip, ShiftIntent, flash
            <4>2. QED BY <4>1 DEF Used
        <3>2. CASE ShiftCopy
            <4>1. curr \in Used /\ entry' = [entry EXCEPT ![hole] = entry[curr]]
                BY <1>3, <3>2 DEF ShiftCopy, Used
            <4>2. \A j \in Used' : \/ j = hole /\ entry'[j] = entry[curr]
                                   \/ j \in Used /\ entry'[j] = entry[j]
                BY <1>0, <1>3, <4>1 DEF Used, Contents
            <4>3. QED BY <4>1, <4>2
        <3>3. CASE ShiftPrev
            <4>1. pc \in CopyWindow
                BY <3>3 DEF ShiftPrev, CopyWindow
            <4>2. entry[curr].prev \in IdsOrNull /\ hole \in IdsOrNull
                BY <1>0, <4>1, Copying DEF IdsOrNull
            <4>3. Used' = Used /\ \A j \in Used : entry'[j].key = entry[j].key
                BY <3>3, <4>2, NextChanged DEF ShiftPrev
            <4>4. QED BY <4>3
        <3>4. CASE ShiftNext
            <4>1. pc \in CopyWindow
                BY <3>4 DEF ShiftNext, CopyWindow
            <4>2. entry[curr].next \in IdsOrNull /\ hole \in IdsOrNull
                BY <1>0, <4>1, Copying DEF IdsOrNull
            <4>3. Used' = Used /\ \A j \in Used : entry'[j].key = entry[j].key
                BY <3>4, <4>2, PrevChanged DEF ShiftNext
            <4>4. QED BY <4>3
        <3>5. CASE ShiftDelete
            <4>1. \A j \in Used' : j \in Used /\ entry'[j] = entry[j]
                BY <1>0, <1>3, <3>5 DEF ShiftDelete, Used, Contents
            <4>2. QED BY <4>1
        <3>6. QED BY <3>1, <3>2, <3>3, <3>4, <3>5 DEF Shift
    <2>4. Gone'
        BY <1>1, <2>2, <2>3, GoneKept
    <2>5. QED BY <1>1, <1>4, <2>1, <2>4, ServedGone DEF GonePhases
<1>5. QED BY <1>2, <1>4 DEF LogInv, TypeOK

\* All steps.
LEMMA ServedStep ==
    ASSUME LogInv, Structured, Served, Sparing, [Next]_vars PROVE Served'
<1>1. CASE UNCHANGED vars
    <2>1. UNCHANGED <<entry, intent, pc, resolving, req>>
        BY <1>1 DEF vars, flash, call
    <2>2. QED BY <2>1 DEF Served, Gone, Used
<1>2. CASE \E r \in Requests : Begin(r)
    BY <1>2, ServedResolving DEF Begin
<1>3. CASE AnswerMiss \/ FindHit
    BY <1>3, ServedLeft DEF AnswerMiss, FindHit, Answered, Leave
<1>4. CASE PowerLoss \/ ZmsError
    BY <1>4, CutShort, ServedLeft
<1>5. CASE Clear
    <2>1. CASE resolving /\ req.kind # "open"
        BY <1>5, <2>1, ServedExec DEF Clear, call
    <2>2. CASE ~(resolving /\ req.kind # "open")
        BY <1>5, <2>2, ServedLeft DEF Clear, Answered, Leave
    <2>3. QED BY <2>1, <2>2
<1>6. CASE ResolveNothing
    <2>1. CASE req.kind = "open"
        BY <1>6, <2>1, ServedLeft DEF ResolveNothing, Answered, Leave
    <2>2. CASE req.kind # "open"
        BY <1>6, <2>2, ServedExec DEF ResolveNothing, call
    <2>3. QED BY <2>1, <2>2
<1>7. CASE \/ ResolveInsert \/ UndoLink \/ UndoPayload
           \/ ResolveUpdate \/ ResolveDelete \/ ResolveShift
    <2>1. pc \in {"resolve", "undo_link", "undo_payload"} /\ resolving' = resolving
        BY <1>7 DEF ResolveInsert, UndoLink, UndoPayload, ResolveUpdate, ResolveDelete,
                    ResolveShift, Goto
    <2>2. pc' \in {"clear", "undo_link", "undo_payload", "to_shifting", "unlink_prev", "shift"}
        BY <1>7 DEF ResolveInsert, UndoLink, UndoPayload, ResolveUpdate, ResolveDelete,
                    ResolveShift, Goto
    <2>3. resolving
        BY <2>1 DEF Served
    <2>4. QED BY <2>1, <2>2, <2>3, ServedResolving
<1>8. CASE Next
    BY <1>2, <1>3, <1>4, <1>5, <1>6, <1>7, <1>8, SparedSteps, ServedInsert, ServedDelete,
       ServedShift
<1>9. QED BY <1>1, <1>8

-----------------------------------------------------------------------------

\* Everything the refinement needs of a state.
AtomicInv == LogInv /\ Structured /\ HalfLinked /\ Served

\* An empty store has nothing on the way.
LEMMA AtomicInit == Init => HalfLinked /\ Served
<1> SUFFICES ASSUME Init PROVE HalfLinked /\ Served
    OBVIOUS
<1>1. /\ pc = "down" /\ req = NoReq /\ intent.state = "none" /\ resolving = FALSE
    BY DEF Init, NoIntent
<1>2. HalfLinked
    BY <1>1 DEF HalfLinked, Pending, CopyWindow
<1>3. Served
    BY <1>1 DEF Served, NoReq, DeletePhases, ShiftPhases, UnlinkPhases, GonePhases
<1>4. QED BY <1>2, <1>3

\* The invariant of the refinement.
LEMMA AtomicHolds == ASSUME Sparing PROVE Spec => []AtomicInv
<1>1. Init => AtomicInv
    BY LogInvInit, StructuredInit, AtomicInit DEF AtomicInv
<1>2. AtomicInv /\ [Next]_vars => AtomicInv'
    BY LogInvStep, StructuredStep, HalfStep, ServedStep DEF AtomicInv
<1>3. QED BY <1>1, <1>2, PTL DEF Spec

-----------------------------------------------------------------------------
(* The steps that the map does not see. *)

\* What the map is in a state.
ItemsAre == /\ \E s : Settled(s)
            /\ \A s : Settled(s) => Items = Pairs[s]

\* The invariant says what the map is.
LEMMA ItemsFollow == AtomicInv => ItemsAre
BY SettledExists, SettledItems DEF AtomicInv, ItemsAre

\* The same records count, in the same order and with the same contents.
SameRecords ==
    /\ Counting' = Counting /\ First' = First /\ Final' = Final
    /\ \A i \in Counting : /\ Mended'[i].next = Mended[i].next
                           /\ entry'[i].key = entry[i].key /\ entry'[i].val = entry[i].val

\* What counts is stored.
LEMMA CountingUsed == Counting \subseteq Used
BY DEF Counting, Others

\* Then the map is the same.
LEMMA ItemsKept ==
    ASSUME AtomicInv, ItemsAre, ItemsAre', SameRecords
    PROVE  Items' = Items
<1>1. PICK s : Settled(s)
    BY DEF ItemsAre
<1>2. Items = Pairs[s]
    BY <1>1 DEF ItemsAre
<1>3. Counting \subseteq Ids
    BY CountingUsed, LogFacts DEF AtomicInv
<1>4. s \in Seq(Ids) /\ \A p \in 1 .. Len(s) : s[p] \in Counting
    BY <1>1, <1>3, LinkedFacts DEF Settled
<1>5. Settled(s)'
    <2>1. Linked(s, Counting, Mended', First, Final)
        <3>1. PICK R, d, e, f, l : /\ R = Counting /\ d = Mended /\ e = Mended'
                                   /\ f = First /\ l = Final
            OBVIOUS
        <3>2. Linked(s, R, d, f, l) /\ \A i \in R : e[i].next = d[i].next
            BY <1>1, <3>1 DEF Settled, SameRecords
        <3>3. Linked(s, R, e, f, l)
            BY <3>2, LinkedSame
        <3>4. QED BY <3>1, <3>3
    <2>2. QED BY <2>1 DEF Settled, SameRecords
<1>6. Items' = Pairs'[s]
    BY <1>5 DEF ItemsAre
<1>7. Pairs'[s] = [p \in 1 .. Len(s) |-> [key |-> entry'[s[p]].key, val |-> entry'[s[p]].val]]
    BY <1>4 DEF Pairs
<1>8. Pairs[s] = [p \in 1 .. Len(s) |-> [key |-> entry[s[p]].key, val |-> entry[s[p]].val]]
    BY <1>4, PairsIs
<1>9. \A p \in 1 .. Len(s) : /\ entry'[s[p]].key = entry[s[p]].key
                             /\ entry'[s[p]].val = entry[s[p]].val
    BY <1>4 DEF SameRecords
<1>10. QED BY <1>2, <1>6, <1>7, <1>8, <1>9

\* Away from the copy window only the flash matters.
LEMMA FlashSame ==
    ASSUME UNCHANGED flash, pc \notin CopyWindow, pc' \notin CopyWindow
    PROVE  SameRecords
<1>1. UNCHANGED <<entry, head, tail, intent>> /\ Used' = Used /\ Others' = Others
    BY DEF flash, Used, Others
<1>2. Pending' = Pending
    BY <1>1 DEF Pending
<1>3. /\ pc \notin {"shift_prev", "shift_next"} /\ pc' \notin {"shift_prev", "shift_next"}
    BY DEF CopyWindow
<1>4. Counting' = Counting /\ First' = First /\ Final' = Final
    BY <1>1, <1>2, <1>3 DEF Counting, First, Final
<1>5. Mended' = Mended
    BY <1>1, <1>2, <1>3 DEF Mended, Relink
<1>6. QED BY <1>1, <1>4, <1>5 DEF SameRecords

\* Where nothing is pending, all records count as they are.
LEMMA CountAll ==
    ASSUME ~Pending, pc \notin CopyWindow
    PROVE  Counting = Used /\ Mended = entry /\ First = head /\ Final = tail
BY DEF Counting, Mended, First, Final, CopyWindow

\* Where something is pending, the records that count are those that will stay.
OthersCount ==
    /\ Counting = Others
    /\ First = IF intent.prev = NULL THEN intent.next ELSE head
    /\ Final = IF intent.next = NULL THEN intent.prev ELSE tail
    /\ \A i \in Others : Mended[i].next = IF i = intent.prev THEN intent.next
                                          ELSE entry[i].next

\* As the definition of what counts has it.
LEMMA CountOthers == LogInv /\ Pending => OthersCount
<1> SUFFICES ASSUME LogInv, Pending PROVE OthersCount
    OBVIOUS
<1>1. entry \in Contents /\ Used \subseteq Ids /\ \A i \in Used : entry[i] # NoEntry
    BY LogFacts
<1>2. Mended = Relink(entry, intent.prev, intent.next, intent.next, intent.prev)
    BY DEF Mended
<1>3. \A i \in Others : Mended[i].next = IF i = intent.prev THEN intent.next ELSE entry[i].next
    BY <1>1, <1>2, RelinkIs DEF Others
<1>4. QED BY <1>3 DEF Counting, First, Final, OthersCount

\* Both hold of the next state as well.
LEMMA CountAllNext ==
    ASSUME ~Pending', pc' \notin CopyWindow
    PROVE  Counting' = Used' /\ Mended' = entry' /\ First' = head' /\ Final' = tail'
BY DEF Counting, Mended, First, Final, CopyWindow

\* And of the next state.
LEMMA CountOthersNext == LogInv' /\ Pending' => OthersCount'
BY CountOthers, PTL

\* A step of a pending operation on a record that stays.
LEMMA PendingSame ==
    ASSUME LogInv, LogInv', Pending, Pending', intent' = intent, Others' = Others,
           intent.prev # NULL => head' = head, intent.next # NULL => tail' = tail,
           \A i \in Others : /\ i # intent.prev => entry'[i].next = entry[i].next
                             /\ entry'[i].key = entry[i].key /\ entry'[i].val = entry[i].val
    PROVE  SameRecords
<1>1. OthersCount /\ OthersCount'
    BY CountOthers, CountOthersNext
<1>2. Counting' = Counting /\ Counting = Others
    BY <1>1 DEF OthersCount
<1>3. First' = First /\ Final' = Final
    BY <1>1 DEF OthersCount
<1>4. \A i \in Others : /\ Mended[i].next = IF i = intent.prev THEN intent.next ELSE entry[i].next
                        /\ Mended'[i].next = IF i = intent.prev THEN intent.next ELSE entry'[i].next
    BY <1>1 DEF OthersCount
<1>5. QED BY <1>2, <1>3, <1>4 DEF SameRecords

\* Insertions, up to the record of the ends.
LEMMA InsertSame ==
    ASSUME AtomicInv, AtomicInv',
           InsertIntent \/ (InsertPayload /\ intent.state = "inserting") \/ InsertLink
    PROVE  SameRecords
<1> USE DEF AtomicInv
<1>0. /\ entry \in Contents /\ Used \subseteq Ids /\ NULL \notin Used
      /\ tail \in IdsOrNull
    BY LogFacts
<1>1. CASE InsertIntent
    <2> DEFINE i == Slot(req.key)
    <2>1. /\ UNCHANGED <<entry, head, tail>> /\ Used' = Used
          /\ pc \notin CopyWindow /\ pc' \notin CopyWindow /\ intent.state = "none"
        BY <1>1 DEF InsertIntent, Goto, Used, LogInv, IntentCoversWrite, CopyWindow
    <2>2. Threads(entry, Used, head, tail) /\ ~Pending
        BY <2>1 DEF Structured, OnFlash, Whole, Pending
    <2>3. Counting = Used /\ Mended = entry /\ First = head /\ Final = tail
        BY <2>1, <2>2, CountAll
    <2> HIDE DEF i
    <2>4. CASE entry[i] = NoEntry
        <3>1. /\ intent'.state = "inserting" /\ intent'.target = i
              /\ intent'.prev = tail /\ intent'.next = NULL
            BY <1>1, <2>4 DEF InsertIntent, i
        <3>2. /\ tail \in Used \cup {NULL}
              /\ tail = NULL => head = NULL
              /\ \A j \in Used : entry[j].next = NULL <=> j = tail
            <4>1. PICK e, R, f, l : e = entry /\ R = Used /\ f = head /\ l = tail
                OBVIOUS
            <4>2. R \subseteq Ids /\ Threads(e, R, f, l)
                BY <1>0, <2>2, <4>1
            <4>3. /\ l \in R \cup {NULL}
                  /\ l = NULL => f = NULL
                  /\ \A j \in R : e[j].next = NULL <=> j = l
                BY <4>2, ThreadsEnds
            <4>4. QED BY <4>1, <4>3
        <3>3. i \notin Used /\ i # NULL
            <4>1. i \in Ids
                BY <1>1, SlotType DEF InsertIntent, LogInv, IntentCoversWrite, Requests, i
            <4>2. QED BY <2>4, <4>1, NullAssumption DEF Used
        <3>4. Pending' /\ Others' = Used
            BY <2>1, <3>1, <3>2, <3>3 DEF Pending, Others
        <3>5. OthersCount'
            BY <3>4, CountOthersNext
        <3>6. Counting' = Used /\ First' = head /\ Final' = tail
            BY <2>1, <3>1, <3>2, <3>4, <3>5 DEF OthersCount
        <3>7. \A j \in Used : Mended'[j].next = IF j = tail THEN NULL ELSE entry[j].next
            BY <2>1, <3>1, <3>4, <3>5 DEF OthersCount
        <3>8. QED BY <2>1, <2>3, <3>2, <3>6, <3>7 DEF SameRecords
    <2>5. CASE entry[i] # NoEntry
        <3>1. intent'.state = "updating"
            BY <1>1, <2>5 DEF InsertIntent, i
        <3>2. ~Pending'
            BY <3>1 DEF Pending
        <3>3. Counting' = Used' /\ Mended' = entry' /\ First' = head' /\ Final' = tail'
            BY <2>1, <3>2, CountAllNext
        <3>4. QED BY <2>1, <2>3, <3>3 DEF SameRecords
    <2>6. QED BY <2>4, <2>5
<1>2. CASE InsertPayload /\ intent.state = "inserting"
    <2>1. /\ UNCHANGED <<head, tail, intent>> /\ tail # intent.target /\ intent.target \in Ids
          /\ entry' = [entry EXCEPT ![intent.target] =
                          [key |-> req.key, val |-> req.val,
                           next |-> intent.next, prev |-> intent.prev]]
        BY <1>2 DEF InsertPayload, LogInv, IntentCoversWrite, Structured, InsertStage
    <2>2. Pending /\ Pending'
        BY <1>2, <2>1 DEF Pending
    <2>3. \A j \in Ids \ {intent.target} : entry'[j] = entry[j]
        BY <1>0, <2>1 DEF Contents
    <2>4. Others' = Others
        BY <2>1, <2>3 DEF Others, Used
    <2>5. \A j \in Others : entry'[j] = entry[j]
        BY <1>0, <2>3 DEF Others
    <2>6. QED BY <2>1, <2>2, <2>4, <2>5, PendingSame
<1>3. CASE InsertLink
    <2>1. /\ UNCHANGED <<head, tail, intent>> /\ ~Dangling(tail)
          /\ entry' = SetNext(tail, intent.target) /\ intent.target \in Ids
          /\ intent.state = "inserting" /\ tail # intent.target
        BY <1>3 DEF InsertLink, LogInv, IntentCoversWrite, InsertPhases, Structured, InsertStage
    <2>2. Pending /\ Pending'
        BY <2>1 DEF Pending
    <2>3. tail = intent.prev
        BY <2>1, <2>2, OneAtATime
    <2>4. intent.target \in IdsOrNull
        BY <2>1 DEF IdsOrNull
    <2>5. /\ Used' = Used
          /\ \A j \in Used : entry'[j].next = IF j = tail THEN intent.target ELSE entry[j].next
        BY <1>0, <2>1, <2>4, NextChanged
    <2>6. \A j \in Used : entry'[j].key = entry[j].key /\ entry'[j].val = entry[j].val
        BY <1>0, <2>1, <2>4, PairsKept
    <2>7. Others' = Others /\ Others \subseteq Used
        BY <2>1, <2>5 DEF Others
    <2>8. QED BY <2>1, <2>2, <2>3, <2>5, <2>6, <2>7, PendingSame
<1>4. QED BY <1>1, <1>2, <1>3

\* Deletions, once they are logged.
LEMMA DeleteSame ==
    ASSUME AtomicInv, AtomicInv',
           UnlinkPrev \/ UnlinkNext \/ UnlinkEnds \/ EraseTarget \/ ToShifting
    PROVE  SameRecords
<1> USE DEF AtomicInv
<1> DEFINE p == intent.prev
           n == intent.next
<1>0. /\ entry \in Contents /\ Used \subseteq Ids /\ NULL \notin Used
      /\ p \in IdsOrNull /\ n \in IdsOrNull
    BY LogFacts
<1>1. ASSUME UnlinkPrev \/ UnlinkNext \/ UnlinkEnds \/ EraseTarget
      PROVE  /\ intent' = intent /\ Pending /\ intent.state = "deleting"
             /\ intent.target \in Used
             /\ p \in Others \cup {NULL} /\ n \in Others \cup {NULL}
    <2>1. /\ pc \in {"unlink_prev", "unlink_next", "unlink_ends", "erase"}
          /\ intent' = intent
        BY <1>1 DEF UnlinkPrev, UnlinkNext, UnlinkEnds, EraseTarget
    <2>2. intent.state = "deleting" /\ intent.target \in Used /\ WithoutTarget
        BY <2>1, Deleting
    <2>3. QED BY <2>1, <2>2 DEF WithoutTarget, Pending
<1>2. CASE UnlinkPrev
    <2>1. UNCHANGED <<head, tail>> /\ ~Dangling(p) /\ entry' = SetNext(p, n)
        BY <1>2 DEF UnlinkPrev
    <2>2. /\ Used' = Used
          /\ \A j \in Used : entry'[j].next = IF j = p THEN n ELSE entry[j].next
        BY <1>0, <2>1, NextChanged
    <2>3. \A j \in Used : entry'[j].key = entry[j].key /\ entry'[j].val = entry[j].val
        BY <1>0, <2>1, PairsKept
    <2>4. Others' = Others /\ Others \subseteq Used /\ Pending'
        BY <1>1, <1>2, <2>2 DEF Others, Pending
    <2>5. QED BY <1>1, <1>2, <2>1, <2>2, <2>3, <2>4, PendingSame
<1>3. CASE UnlinkNext
    <2>1. UNCHANGED <<head, tail>> /\ ~Dangling(n) /\ entry' = SetPrev(n, p)
        BY <1>3 DEF UnlinkNext
    <2>2. /\ Used' = Used
          /\ \A j \in Used : entry'[j].next = entry[j].next
        BY <1>0, <2>1, PrevChanged
    <2>3. \A j \in Used : entry'[j].key = entry[j].key /\ entry'[j].val = entry[j].val
        BY <1>0, <2>1, PairsKept
    <2>4. Others' = Others /\ Others \subseteq Used /\ Pending'
        BY <1>1, <1>3, <2>2 DEF Others, Pending
    <2>5. QED BY <1>1, <1>3, <2>1, <2>2, <2>3, <2>4, PendingSame
<1>4. CASE UnlinkEnds
    <2>1. /\ entry' = entry
          /\ p # NULL => head' = head
          /\ n # NULL => tail' = tail
        BY <1>4 DEF UnlinkEnds
    <2>2. Others' = Others /\ Pending'
        BY <1>1, <1>4, <2>1 DEF Others, Pending, Used, UnlinkEnds
    <2>3. QED BY <1>1, <1>4, <2>1, <2>2, PendingSame DEF UnlinkEnds
<1>5. CASE EraseTarget
    <2>1. /\ UNCHANGED <<head, tail>> /\ pc = "erase" /\ pc' = "to_shifting"
          /\ entry' = [entry EXCEPT ![intent.target] = NoEntry]
        BY <1>5 DEF EraseTarget, Goto
    <2>2. intent.target \notin Used' /\ Used' = Others /\ \A j \in Others : entry'[j] = entry[j]
        BY <1>0, <1>1, <1>5, <2>1 DEF Used, Contents, Others
    <2>3. ~Pending'
        BY <1>1, <1>5, <2>2 DEF Pending
    <2>4. Counting' = Used' /\ Mended' = entry' /\ First' = head' /\ Final' = tail'
        BY <2>1, <2>3, CountAllNext DEF CopyWindow
    <2>5. OthersCount
        BY <1>1, <1>5, CountOthers
    <2>6. /\ p # NULL => entry[p].next = n
          /\ p = NULL => head = n
          /\ n = NULL => tail = p
        BY <2>1 DEF Structured, DeleteStage
    <2>7. First' = First /\ Final' = Final /\ Counting' = Counting
        BY <2>1, <2>2, <2>4, <2>5, <2>6 DEF OthersCount
    <2>8. \A j \in Others : Mended[j].next = entry[j].next
        <3>1. NULL \notin Others
            BY <1>0 DEF Others
        <3>2. \A j \in Others : Mended[j].next = IF j = p THEN n ELSE entry[j].next
            BY <2>5 DEF OthersCount
        <3>3. QED BY <2>6, <3>1, <3>2
    <2>9. QED BY <2>2, <2>4, <2>7, <2>8 DEF SameRecords
<1>6. CASE ToShifting
    <2>1. /\ UNCHANGED <<entry, head, tail>> /\ pc = "to_shifting" /\ pc' = "shift"
          /\ intent'.state = "shifting"
        BY <1>6 DEF ToShifting, ShiftingFrom, Goto
    <2>2. intent.state = "deleting" /\ intent.target \notin Used
        BY <2>1 DEF LogInv, IntentCoversWrite, DeletePhases, Structured, DeleteStage
    <2>3. ~Pending /\ ~Pending' /\ Used' = Used
        BY <2>1, <2>2 DEF Pending, Used
    <2>4. Counting' = Used' /\ Mended' = entry' /\ First' = head' /\ Final' = tail'
        BY <2>1, <2>3, CountAllNext DEF CopyWindow
    <2>5. Counting = Used /\ Mended = entry /\ First = head /\ Final = tail
        BY <2>1, <2>3, CountAll DEF CopyWindow
    <2>6. QED BY <2>1, <2>3, <2>4, <2>5 DEF SameRecords
<1>7. QED BY <1>2, <1>3, <1>4, <1>5, <1>6

\* Shifts, but for the copy of a record.
LEMMA ShiftSame ==
    ASSUME AtomicInv, AtomicInv',
           ShiftDone \/ ShiftSkip \/ ShiftPrev \/ ShiftNext \/ ShiftDelete \/ ShiftIntent
    PROVE  SameRecords
<1> USE DEF AtomicInv
<1>0. /\ entry \in Contents /\ Used \subseteq Ids /\ NULL \notin Used
      /\ \A j \in Used : entry[j] # NoEntry
    BY LogFacts
<1>1. /\ intent.state = "shifting" /\ ~Pending /\ intent'.state = "shifting" /\ ~Pending'
    <2>1. pc \in ShiftPhases
        BY DEF ShiftDone, ShiftSkip, ShiftPrev, ShiftNext, ShiftDelete, ShiftIntent, ShiftPhases
    <2>2. intent.state = "shifting"
        BY <2>1 DEF LogInv, IntentCoversWrite
    <2>3. intent' = intent \/ intent'.state = "shifting"
        BY DEF ShiftDone, ShiftSkip, ShiftPrev, ShiftNext, ShiftDelete, ShiftIntent,
               ShiftingFrom, flash
    <2>4. QED BY <2>2, <2>3 DEF Pending
<1>2. CASE ShiftDone \/ ShiftSkip
    BY <1>2, FlashSame DEF ShiftDone, ShiftSkip, Goto, CopyWindow
<1>3. ASSUME pc \in CopyWindow
      PROVE  /\ Counting = Used \ {curr} /\ hole \in Used /\ curr \in Used /\ curr # hole
             /\ entry[curr].prev \in (Used \ {hole, curr}) \cup {NULL}
             /\ entry[curr].next \in (Used \ {hole, curr}) \cup {NULL}
             /\ entry[curr].prev \in IdsOrNull /\ entry[curr].next \in IdsOrNull
             /\ hole \in IdsOrNull
    <2>1. Counting = Used \ {curr}
        BY <1>1, <1>3 DEF Counting
    <2>2. QED BY <1>0, <1>3, <2>1, Copying DEF IdsOrNull
<1>4. ASSUME pc \in {"shift_prev", "shift_next"}
      PROVE  /\ \A i \in Used :
                    Mended[i].next = IF i = entry[curr].prev THEN hole ELSE entry[i].next
             /\ First = IF entry[curr].prev = NULL THEN hole ELSE head
             /\ Final = IF entry[curr].next = NULL THEN hole ELSE tail
    <2>1. Mended = Relink(entry, entry[curr].prev, hole, entry[curr].next, hole)
        BY <1>1, <1>4 DEF Mended
    <2>2. QED BY <1>0, <1>1, <1>4, <2>1, RelinkIs DEF First, Final
<1>5. CASE ShiftPrev
    <2>1. /\ pc = "shift_prev" /\ pc' = "shift_next" /\ UNCHANGED <<hole, curr, tail>>
          /\ ~Dangling(entry[curr].prev) /\ entry' = SetNext(entry[curr].prev, hole)
          /\ head' = IF entry[curr].prev = NULL THEN hole ELSE head
        BY <1>5 DEF ShiftPrev, Goto, loop
    <2>2. /\ entry' \in Contents /\ Used' = Used
          /\ \A j \in Used : /\ entry'[j] # NoEntry
                             /\ entry'[j].prev = entry[j].prev
                             /\ entry'[j].next = IF j = entry[curr].prev THEN hole
                                                 ELSE entry[j].next
        BY <1>3, <2>1, NextChanged DEF CopyWindow
    <2>3. \A j \in Used : entry'[j].key = entry[j].key /\ entry'[j].val = entry[j].val
        BY <1>3, <2>1, PairsKept DEF CopyWindow
    <2>4. Counting' = Used \ {curr} /\ Counting = Used \ {curr}
        BY <1>1, <1>3, <2>1, <2>2 DEF Counting, CopyWindow
    <2>5. entry'[curr].prev = entry[curr].prev /\ entry'[curr].next = entry[curr].next
        BY <1>0, <1>3, <2>1, <2>2 DEF CopyWindow
    <2>6. Mended' = Relink(entry', entry[curr].prev, hole, entry[curr].next, hole)
        <3>1. Mended' = Relink(entry', entry'[curr].prev, hole, entry'[curr].next, hole)
            BY <1>1, <2>1 DEF Mended
        <3>2. QED BY <2>5, <3>1
    <2>7. \A i \in Used :
            Mended'[i].next = IF i = entry[curr].prev THEN hole ELSE entry'[i].next
        <3>1. ASSUME NEW i \in Used
              PROVE  Mended'[i].next = IF i = entry[curr].prev THEN hole ELSE entry'[i].next
            <4>1. PICK d, p, n, h : /\ d = entry' /\ p = entry[curr].prev
                                    /\ n = entry[curr].next /\ h = hole
                OBVIOUS
            <4>2. d \in Contents /\ d[i] # NoEntry /\ i \in Ids
                BY <1>0, <2>2, <4>1
            <4>3. Relink(d, p, h, n, h)[i].next = IF i = p THEN h ELSE d[i].next
                BY <4>2, RelinkIs
            <4>4. QED BY <2>6, <4>1, <4>3
        <3>2. QED BY <3>1
    <2>8. First' = First /\ Final' = Final
        BY <1>1, <1>4, <2>1, <2>5 DEF First, Final
    <2>9. QED BY <1>4, <2>1, <2>2, <2>3, <2>4, <2>7, <2>8 DEF SameRecords
<1>6. CASE ShiftNext
    <2>1. /\ pc = "shift_next" /\ pc' = "shift_del" /\ UNCHANGED <<hole, curr, head>>
          /\ ~Dangling(entry[curr].next) /\ entry' = SetPrev(entry[curr].next, hole)
          /\ tail' = IF entry[curr].next = NULL THEN hole ELSE tail
        BY <1>6 DEF ShiftNext, Goto, loop
    <2>2. /\ Used' = Used
          /\ \A j \in Used : entry'[j].next = entry[j].next
        BY <1>3, <2>1, PrevChanged DEF CopyWindow
    <2>3. \A j \in Used : entry'[j].key = entry[j].key /\ entry'[j].val = entry[j].val
        BY <1>3, <2>1, PairsKept DEF CopyWindow
    <2>4. Counting' = Used \ {curr} /\ Counting = Used \ {curr}
        BY <1>1, <1>3, <2>1, <2>2 DEF Counting, CopyWindow
    <2>5. Mended' = entry' /\ First' = head' /\ Final' = tail'
        BY <1>1, <2>1 DEF Mended, First, Final
    <2>6. IF entry[curr].prev = NULL THEN head = hole ELSE entry[entry[curr].prev].next = hole
        BY <2>1 DEF Structured, ShiftStage
    <2>7. First' = First /\ Final' = Final
        BY <1>4, <2>1, <2>5, <2>6
    <2>8. \A i \in Used : Mended'[i].next = Mended[i].next
        BY <1>0, <1>4, <2>1, <2>2, <2>5, <2>6
    <2>9. QED BY <2>3, <2>4, <2>7, <2>8 DEF SameRecords
<1>7. CASE ShiftDelete
    <2>1. /\ pc = "shift_del" /\ pc' = "shift_intent" /\ UNCHANGED <<head, tail>>
          /\ entry' = [entry EXCEPT ![curr] = NoEntry]
        BY <1>7 DEF ShiftDelete, Goto
    <2>2. Counting = Used \ {curr} /\ Mended = entry /\ First = head /\ Final = tail
        BY <1>1, <1>3, <2>1 DEF CopyWindow, Mended, First, Final
    <2>3. Counting' = Used' /\ Mended' = entry' /\ First' = head' /\ Final' = tail'
        BY <1>1, <2>1, CountAllNext DEF CopyWindow
    <2>4. Used' = Used \ {curr} /\ \A j \in Used \ {curr} : entry'[j] = entry[j]
        BY <1>0, <1>3, <2>1 DEF Used, Contents, CopyWindow
    <2>5. QED BY <2>1, <2>2, <2>3, <2>4 DEF SameRecords
<1>8. CASE ShiftIntent
    <2>1. UNCHANGED <<entry, head, tail>> /\ pc \notin CopyWindow /\ pc' \notin CopyWindow
        BY <1>8 DEF ShiftIntent, Goto, CopyWindow
    <2>2. Counting' = Used' /\ Mended' = entry' /\ First' = head' /\ Final' = tail'
        BY <1>1, <2>1, CountAllNext
    <2>3. Counting = Used /\ Mended = entry /\ First = head /\ Final = tail
        BY <1>1, <2>1, CountAll
    <2>4. QED BY <2>1, <2>2, <2>3 DEF SameRecords, Used
<1>9. QED BY <1>2, <1>5, <1>6, <1>7, <1>8

\* What a recovery undoes did not count.
LEMMA UndoSame ==
    ASSUME AtomicInv, AtomicInv', UndoLink \/ UndoPayload
    PROVE  SameRecords
<1> USE DEF AtomicInv
<1>0. /\ entry \in Contents /\ Used \subseteq Ids /\ intent.prev \in IdsOrNull
    BY LogFacts
<1>1. UNCHANGED <<head, tail, intent>> /\ pc \in {"undo_link", "undo_payload"}
    BY DEF UndoLink, UndoPayload
<1>2. /\ intent.state = "inserting" /\ tail # intent.target /\ intent.target \in Ids
    BY <1>1, Undoing
<1>3. Pending /\ Pending'
    BY <1>1, <1>2 DEF Pending
<1>4. CASE UndoLink
    <2>1. ~Dangling(intent.prev) /\ entry' = SetNext(intent.prev, NULL) /\ NULL \in IdsOrNull
        BY <1>4 DEF UndoLink, IdsOrNull
    <2>2. /\ Used' = Used
          /\ \A j \in Used : entry'[j].next = IF j = intent.prev THEN NULL ELSE entry[j].next
        BY <1>0, <2>1, NextChanged
    <2>3. \A j \in Used : entry'[j].key = entry[j].key /\ entry'[j].val = entry[j].val
        BY <1>0, <2>1, PairsKept
    <2>4. Others' = Others /\ Others \subseteq Used
        BY <1>1, <2>2 DEF Others
    <2>5. QED BY <1>1, <1>3, <2>2, <2>3, <2>4, PendingSame
<1>5. CASE UndoPayload
    <2>1. entry' = [entry EXCEPT ![intent.target] = NoEntry]
        BY <1>5 DEF UndoPayload
    <2>2. \A j \in Ids \ {intent.target} : entry'[j] = entry[j]
        BY <1>0, <2>1 DEF Contents
    <2>3. Others' = Others
        BY <1>1, <2>2 DEF Others, Used
    <2>4. \A j \in Others : entry'[j] = entry[j]
        BY <1>0, <2>2 DEF Others
    <2>5. QED BY <1>1, <1>3, <2>3, <2>4, PendingSame
<1>6. QED BY <1>4, <1>5

\* When the log is about to be cleared, everything stored counts.
LEMMA ClearCounts ==
    ASSUME AtomicInv, pc = "clear"
    PROVE  /\ Counting = Used /\ First = head /\ Final = tail
           /\ \A i \in Used : Mended[i].next = entry[i].next
<1> USE DEF AtomicInv
<1>1. CASE ~Pending
    BY <1>1, CountAll DEF CopyWindow
<1>2. CASE Pending
    <2>1. intent.target \notin Used
        BY <1>2 DEF HalfLinked
    <2>2. intent.state = "inserting"
        BY <1>2, <2>1 DEF Pending
    <2>3. tail = intent.prev /\ intent.next = NULL
        BY <1>2, <2>2, OneAtATime
    <2>4. Others = Used
        BY <2>1 DEF Others
    <2>5. OthersCount
        BY <1>2, CountOthers
    <2>6. /\ tail = NULL => head = NULL
          /\ \A j \in Used : entry[j].next = NULL <=> j = tail
        <3>1. Used \subseteq Ids
            BY LogFacts
        <3>2. Threads(entry, Used, head, tail)
            BY DEF Structured, Whole
        <3>3. PICK e, R, f, l : e = entry /\ R = Used /\ f = head /\ l = tail
            OBVIOUS
        <3>4. /\ l = NULL => f = NULL
              /\ \A j \in R : e[j].next = NULL <=> j = l
            BY <3>1, <3>2, <3>3, ThreadsEnds
        <3>5. QED BY <3>3, <3>4
    <2>7. QED BY <2>3, <2>4, <2>5, <2>6 DEF OthersCount
<1>3. QED BY <1>1, <1>2

\* Clearing the log of a recovery changes nothing.
LEMMA ClearSame ==
    ASSUME AtomicInv, Clear
    PROVE  SameRecords
<1>1. /\ pc = "clear" /\ pc' \in {"exec", "idle"} /\ intent'.state = "none"
      /\ UNCHANGED <<entry, head, tail>>
    BY DEF Clear, NoIntent, Answered, Leave
<1>2. /\ Counting = Used /\ First = head /\ Final = tail
      /\ \A i \in Used : Mended[i].next = entry[i].next
    BY <1>1, ClearCounts
<1>3. ~Pending' /\ pc' \notin CopyWindow
    BY <1>1 DEF Pending, CopyWindow
<1>4. Counting' = Used' /\ Mended' = entry' /\ First' = head' /\ Final' = tail'
    BY <1>3, CountAllNext
<1>5. QED BY <1>1, <1>2, <1>4 DEF SameRecords, Used

\* Nor does choosing what to do.
LEMMA ResolveSame ==
    ASSUME \/ ResolveNothing \/ ResolveInsert \/ ResolveUpdate \/ ResolveDelete \/ ResolveShift
    PROVE  SameRecords
<1>1. UNCHANGED flash /\ pc = "resolve"
    BY DEF ResolveNothing, ResolveInsert, ResolveUpdate, ResolveDelete, ResolveShift
<1>2. pc' \in {"idle", "exec", "clear", "undo_link", "to_shifting", "unlink_prev", "shift"}
    BY DEF ResolveNothing, ResolveInsert, ResolveUpdate, ResolveDelete, ResolveShift,
           Goto, Answered, Leave
<1>3. QED BY <1>1, <1>2, FlashSame DEF CopyWindow

-----------------------------------------------------------------------------
(* The steps that move a record or change the map. *)

\* The copy takes the place of its source in the list.
LEMMA ShiftCopyItems ==
    ASSUME AtomicInv, AtomicInv', ItemsAre, ItemsAre', ShiftCopy
    PROVE  Items' = Items
<1> USE DEF AtomicInv
<1> DEFINE cp == entry[curr].prev
           cn == entry[curr].next
<1>0. /\ entry \in Contents /\ Used \subseteq Ids /\ NULL \notin Used
      /\ \A j \in Used : entry[j] # NoEntry
    BY LogFacts
<1>1. /\ UNCHANGED <<head, tail, intent, hole, curr>> /\ pc = "shift" /\ pc' = "shift_prev"
      /\ curr # hole /\ entry[curr] # NoEntry
      /\ entry' = [entry EXCEPT ![hole] = entry[curr]]
    BY DEF ShiftCopy, Goto, loop
<1>2. /\ intent.state = "shifting" /\ hole \in Ids /\ curr \in Ids /\ hole \notin Used
      /\ Threads(entry, Used, head, tail)
    BY <1>1, Shifting
<1>3. curr \in Used /\ ~Pending /\ ~Pending'
    BY <1>1, <1>2 DEF Used, Pending
<1>4. /\ Link(cp) = curr /\ cp \in Used \cup {NULL} /\ cp # curr
      /\ cn \in Used \cup {NULL} /\ cn # curr
      /\ cn = NULL <=> curr = tail
    BY <1>2, <1>3, ThreadsLead
<1>5. entry'[hole] = entry[curr] /\ \A j \in Ids \ {hole} : entry'[j] = entry[j]
    BY <1>0, <1>1, <1>2 DEF Contents
<1>6. entry' \in Contents /\ Used' = Used \cup {hole}
    BY <1>0, <1>2, <1>3, <1>5, LogFacts DEF Contents, Used, LogInv, TypeOK
<1>7. entry'[curr] = entry[curr]
    BY <1>1, <1>2, <1>5
<1>8. PICK s : Settled(s)
    BY DEF ItemsAre
<1>9. Linked(s, Used, entry, head, tail)
    BY <1>1, <1>3, <1>8, CountAll DEF Settled, CopyWindow
<1>10. /\ Counting' = Used' \ {curr} /\ Mended' = Relink(entry', cp, hole, cn, hole)
       /\ First' = (IF cp = NULL THEN hole ELSE head)
       /\ Final' = (IF cn = NULL THEN hole ELSE tail)
    BY <1>1, <1>3, <1>7 DEF Counting, Mended, First, Final, CopyWindow
<1>11. \A i \in Used' : Mended'[i].next = IF i = cp THEN hole ELSE entry'[i].next
    <2>1. ASSUME NEW i \in Used'
          PROVE  Mended'[i].next = IF i = cp THEN hole ELSE entry'[i].next
        <3>1. PICK d, p, n, h : d = entry' /\ p = cp /\ n = cn /\ h = hole
            OBVIOUS
        <3>2. d \in Contents /\ d[i] # NoEntry /\ i \in Ids
            BY <1>6, <2>1, <3>1 DEF Used
        <3>3. Relink(d, p, h, n, h)[i].next = IF i = p THEN h ELSE d[i].next
            BY <3>2, RelinkIs
        <3>4. QED BY <1>10, <3>1, <3>3
    <2>2. QED BY <2>1
<1> HIDE DEF cp, cn
<1>12. /\ \A i, j \in Used : entry[i].next = entry[j].next /\ entry[i].next # NULL => i = j
       /\ \A i \in Used : entry[i].next # NULL => entry[i].next # head
    <2>1. PICK e, R, f, l : e = entry /\ R = Used /\ f = head /\ l = tail
        OBVIOUS
    <2>2. Linked(s, R, e, f, l) /\ R \subseteq Ids
        BY <1>0, <1>9, <2>1
    <2>3. /\ \A i, j \in R : e[i].next = e[j].next /\ e[i].next # NULL => i = j
          /\ \A i \in R : e[i].next # NULL => e[i].next # f /\ e[i].next \in R
        BY <2>2, LinkedOnce
    <2>4. QED BY <2>1, <2>3
<1>13. curr # NULL /\ hole # cp
    BY <1>0, <1>2, <1>3, <1>4, NullAssumption
<1>14. \A i \in Used \ {curr} :
          Mended'[i].next = IF entry[i].next = curr THEN hole ELSE entry[i].next
    <2>1. ASSUME NEW i \in Used \ {curr}
          PROVE  Mended'[i].next = IF entry[i].next = curr THEN hole ELSE entry[i].next
        <3>1. i \in Used' /\ entry'[i] = entry[i]
            BY <1>0, <1>2, <1>5, <1>6
        <3>2. Mended'[i].next = IF i = cp THEN hole ELSE entry[i].next
            BY <1>11, <3>1
        <3>3. entry[i].next = curr <=> i = cp
            <4>1. CASE cp = NULL
                <5>1. head = curr
                    BY <1>4, <4>1 DEF Link
                <5>2. QED BY <1>0, <1>12, <1>13, <4>1, <5>1
            <4>2. CASE cp # NULL
                <5>1. cp \in Used /\ entry[cp].next = curr
                    BY <1>4, <4>2 DEF Link
                <5>2. QED BY <1>12, <1>13, <5>1
            <4>3. QED BY <4>1, <4>2
        <3>4. QED BY <3>2, <3>3
    <2>2. QED BY <2>1
<1>15. First' = IF head = curr THEN hole ELSE head
    <2>1. CASE cp = NULL
        BY <1>4, <1>10, <2>1 DEF Link
    <2>2. CASE cp # NULL
        <3>1. cp \in Used /\ entry[cp].next = curr
            BY <1>4, <2>2 DEF Link
        <3>2. head # curr
            BY <1>12, <1>13, <3>1
        <3>3. QED BY <1>10, <2>2, <3>2
    <2>3. QED BY <2>1, <2>2
<1>16. Final' = IF tail = curr THEN hole ELSE tail
    BY <1>4, <1>10
<1>17. Mended'[hole].next = entry[curr].next
    BY <1>5, <1>6, <1>11, <1>13
<1>18. PICK w : w = [j \in 1 .. Len(s) |-> IF s[j] = curr THEN hole ELSE s[j]]
    OBVIOUS
<1>19. Settled(w)'
    <2>1. Replaces(hole, curr, Used, Mended', First', Final', entry, head, tail)
        BY <1>0, <1>2, <1>3, <1>14, <1>15, <1>16, <1>17 DEF Replaces
    <2>2. PICK a, b, R, d, h, m : /\ a = curr /\ b = hole /\ R = Used /\ d = Mended'
                                  /\ h = First' /\ m = Final'
        OBVIOUS
    <2>3. PICK g, f, l : g = entry /\ f = head /\ l = tail
        OBVIOUS
    <2>4. Linked(s, R, g, f, l) /\ Replaces(b, a, R, d, h, m, g, f, l)
        BY <1>9, <2>1, <2>2, <2>3
    <2>5. Linked([j \in 1 .. Len(s) |-> IF s[j] = a THEN b ELSE s[j]], (R \ {a}) \cup {b}, d, h, m)
        BY <2>4, Swapped
    <2>6. (R \ {a}) \cup {b} = Counting'
        BY <1>1, <1>6, <1>10, <2>2
    <2>7. Linked(w, Counting', Mended', First', Final')
        BY <1>18, <2>2, <2>5, <2>6
    <2>8. QED BY <2>7 DEF Settled
<1>20. s \in Seq(Ids) /\ \A p \in 1 .. Len(s) : s[p] \in Used
    BY <1>0, <1>9, LinkedFacts
<1>21. Len(w) = Len(s) /\ DOMAIN w = 1 .. Len(s) /\ w \in Seq(Ids)
    BY <1>2, <1>20, <1>18
<1>22. \A p \in 1 .. Len(s) : entry'[w[p]] = entry[s[p]]
    BY <1>0, <1>2, <1>5, <1>20, <1>18
<1>23. Items' = Pairs'[w]
    BY <1>19 DEF ItemsAre
<1>24. Items = Pairs[s]
    BY <1>8 DEF ItemsAre
<1>25. Pairs'[w] = [p \in 1 .. Len(s) |-> [key |-> entry'[w[p]].key, val |-> entry'[w[p]].val]]
    BY <1>21 DEF Pairs
<1>26. Pairs[s] = [p \in 1 .. Len(s) |-> [key |-> entry[s[p]].key, val |-> entry[s[p]].val]]
    BY <1>20, PairsIs
<1>27. QED BY <1>22, <1>23, <1>24, <1>25, <1>26

\* What the map holds is what the records that count store.
Shown(s) ==
    /\ s \in Seq(Ids) /\ Len(Items) = Len(s) /\ DOMAIN Items = 1 .. Len(s)
    /\ Items = Pairs[s]
    /\ \A p \in 1 .. Len(s) : /\ s[p] \in Counting
                              /\ Items[p] = [key |-> entry[s[p]].key, val |-> entry[s[p]].val]
    /\ \A i \in Counting : \E p \in 1 .. Len(s) : s[p] = i
    /\ \A p, q \in 1 .. Len(s) : s[p] = s[q] => p = q

\* The map in terms of them.
LEMMA ItemsShown ==
    ASSUME LogInv, ItemsAre, NEW s, Settled(s)
    PROVE  Shown(s)
<1>1. Counting \subseteq Ids
    BY CountingUsed, LogFacts
<1>2. s \in Seq(Ids) /\ \A p \in 1 .. Len(s) : s[p] \in Counting
    BY <1>1, LinkedFacts DEF Settled
<1>3. Items = [p \in 1 .. Len(s) |-> [key |-> entry[s[p]].key, val |-> entry[s[p]].val]]
    BY <1>2, PairsIs DEF ItemsAre
<1>4. DOMAIN Items = 1 .. Len(s) /\ Len(Items) = Len(s)
    <2>1. Len(s) \in Nat
        BY <1>2
    <2>2. QED BY <1>3, <2>1
<1>5. \A p \in 1 .. Len(s) : Items[p] = [key |-> entry[s[p]].key, val |-> entry[s[p]].val]
    BY <1>3
<1>6. Items = Pairs[s]
    BY DEF ItemsAre
<1>7. QED BY <1>2, <1>4, <1>5, <1>6 DEF Shown, Settled, Linked

\* A record that is updated is found where its key is.
LEMMA UpdateApplies ==
    ASSUME AtomicInv, AtomicInv', ItemsAre, ItemsAre',
           InsertPayload, intent.state # "inserting"
    PROVE  Map!Apply
<1> USE DEF AtomicInv
<1> DEFINE t == intent.target
<1>0. /\ entry \in Contents /\ Used \subseteq Ids
      /\ \A j \in Used : entry[j] \in Entry
    BY LogFacts
<1>1. /\ UNCHANGED <<head, tail, intent, req, res>> /\ pc = "payload" /\ pc' = "clear"
      /\ entry' = [entry EXCEPT ![t] = [key |-> req.key, val |-> req.val,
                                        next |-> intent.next, prev |-> intent.prev]]
    BY DEF InsertPayload, Goto, call
<1>2. intent.state = "updating" /\ req.kind = "insert"
    BY <1>1 DEF LogInv, IntentCoversWrite
<1>3. /\ t \in Used /\ entry[t].key = req.key /\ entry[t].next = intent.next
    BY <1>1, <1>2 DEF Structured, InsertStage
<1>4. ~Pending /\ ~Pending' /\ Probed(entry, Used, {})
    BY <1>1, <1>2 DEF Pending, Structured, OnFlash, Whole
<1>5. /\ entry'[t].key = req.key /\ entry'[t].val = req.val /\ entry'[t].next = entry[t].next
      /\ \A j \in Used \ {t} : entry'[j] = entry[j]
    BY <1>0, <1>1, <1>3 DEF Contents
<1>6. Used' = Used
    <2>1. [key |-> req.key, val |-> req.val, next |-> intent.next, prev |-> intent.prev] \in Entry
        <3>1. req \in Requests /\ intent \in Intent
            BY <1>1 DEF LogInv, IntentCoversWrite, TypeOK
        <3>2. req.key \in Keys /\ req.val \in Vals
            BY <1>2, <3>1 DEF Requests
        <3>3. QED BY <3>1, <3>2 DEF Entry, Intent
    <2>2. t \in Used' /\ \A j \in Ids \ {t} : entry'[j] = entry[j]
        BY <1>0, <1>1, <1>3, <2>1, NullAssumption DEF Used, Contents, Entry
    <2>3. QED BY <1>0, <1>3, <2>2 DEF Used
<1>7. Counting = Used /\ Mended = entry /\ First = head /\ Final = tail
    BY <1>1, <1>4, CountAll DEF CopyWindow
<1>8. Counting' = Used' /\ Mended' = entry' /\ First' = head' /\ Final' = tail'
    BY <1>1, <1>4, CountAllNext DEF CopyWindow
<1>9. PICK s : Settled(s)
    BY DEF ItemsAre
<1>10. Shown(s)
    BY <1>9, ItemsShown
<1>11. Settled(s)'
    <2>1. PICK R, d, e, f, l : R = Used /\ d = entry /\ e = entry' /\ f = head /\ l = tail
        OBVIOUS
    <2>2. Linked(s, R, d, f, l) /\ \A i \in R : e[i].next = d[i].next
        BY <1>5, <1>7, <1>9, <2>1 DEF Settled
    <2>3. Linked(s, R, e, f, l)
        BY <2>2, LinkedSame
    <2>4. QED BY <1>1, <1>6, <1>8, <2>1, <2>3 DEF Settled
<1>12. Items' = Pairs'[s]
    BY <1>11 DEF ItemsAre
<1>13. Pairs'[s] = [p \in 1 .. Len(s) |-> [key |-> entry'[s[p]].key, val |-> entry'[s[p]].val]]
    BY <1>10 DEF Pairs, Shown
<1>14. \A p \in DOMAIN Items : /\ s[p] \in Used
                               /\ Items[p] = [key |-> entry[s[p]].key, val |-> entry[s[p]].val]
    BY <1>7, <1>10 DEF Shown
<1>15. Map!Present(req.key)
    <2>1. PICK p \in DOMAIN Items : s[p] = t
        BY <1>3, <1>7, <1>10 DEF Shown
    <2>2. QED BY <1>3, <1>14, <2>1 DEF Map!Present
<1> HIDE DEF t
<1>16. ASSUME NEW p \in DOMAIN Items
       PROVE  [key |-> entry'[s[p]].key, val |-> entry'[s[p]].val] =
              IF Items[p].key = req.key THEN [Items[p] EXCEPT !.val = req.val] ELSE Items[p]
    <2>1. CASE s[p] = t
        <3>1. Items[p] = [key |-> req.key, val |-> entry[t].val]
            BY <1>3, <1>14, <2>1
        <3>2. [key |-> entry'[s[p]].key, val |-> entry'[s[p]].val] = [key |-> req.key, val |-> req.val]
            BY <1>5, <2>1
        <3>3. QED BY <3>1, <3>2
    <2>2. CASE s[p] # t
        <3>1. entry'[s[p]] = entry[s[p]]
            BY <1>5, <1>14, <2>2
        <3>2. entry[s[p]].key # req.key
            BY <1>3, <1>4, <1>14, <2>2 DEF Probed
        <3>3. Items[p].key # req.key
            BY <1>14, <3>2
        <3>4. QED BY <1>14, <3>1, <3>3
    <2>3. QED BY <2>1, <2>2
<1>17. Items' = [p \in DOMAIN Items |->
                    IF Items[p].key = req.key THEN [Items[p] EXCEPT !.val = req.val] ELSE Items[p]]
    <2>1. DOMAIN Items = 1 .. Len(s)
        BY <1>10 DEF Shown
    <2>2. QED BY <1>12, <1>13, <1>16, <2>1
<1>18. Items' = Map!Put(req.key, req.val)
    BY <1>15, <1>17 DEF Map!Put
<1>19. QED BY <1>1, <1>2, <1>18 DEF Map!Apply

\* The links d from h lead to t after the last record l, where g from f ends.
Extends(t, R, d, h, g, f, l) ==
    /\ R \subseteq Ids /\ t \in Ids \ R /\ d[t].next = NULL
    /\ \A i \in R : d[i].next = IF i = l THEN t ELSE g[i].next
    /\ h = IF l = NULL THEN t ELSE f

\* Then it is the last of the sequence.
LEMMA LinkedAppend ==
    ASSUME NEW s, NEW R, NEW g, NEW f, NEW l, Linked(s, R, g, f, l),
           NEW t, NEW d, NEW h, Extends(t, R, d, h, g, f, l)
    PROVE  Linked(Append(s, t), R \cup {t}, d, h, t)
<1> DEFINE w == Append(s, t)
<1>0. /\ R \subseteq Ids /\ t \in Ids \ R /\ d[t].next = NULL
      /\ \A i \in R : d[i].next = IF i = l THEN t ELSE g[i].next
      /\ h = IF l = NULL THEN t ELSE f
    BY DEF Extends
<1>1. /\ s \in Seq(R) /\ Len(s) \in Nat /\ NULL \notin R
      /\ \A p \in 1 .. Len(s) : s[p] \in R
    BY <1>0, LinkedFacts
<1>2. /\ w \in Seq(R \cup {t}) /\ Len(w) = Len(s) + 1 /\ w[Len(s) + 1] = t
      /\ \A p \in 1 .. Len(s) : w[p] = s[p]
    BY <1>1
<1>3. \A p \in 1 .. Len(s) + 1 : p \in 1 .. Len(s) \/ p = Len(s) + 1
    BY <1>1
<1>4. \A i \in R \cup {t} : \E p \in 1 .. Len(w) : w[p] = i
    <2>1. ASSUME NEW i \in R PROVE \E p \in 1 .. Len(w) : w[p] = i
        <3>1. PICK p \in 1 .. Len(s) : s[p] = i
            BY <2>1 DEF Linked
        <3>2. p \in 1 .. Len(w) /\ w[p] = i
            BY <1>1, <1>2, <3>1
        <3>3. QED BY <3>2
    <2>2. Len(s) + 1 \in 1 .. Len(w)
        BY <1>1, <1>2
    <2>3. QED BY <1>2, <2>1, <2>2
<1>5. \A p, q \in 1 .. Len(w) : w[p] = w[q] => p = q
    <2>1. \A p, q \in 1 .. Len(s) : s[p] = s[q] => p = q
        BY DEF Linked
    <2> HIDE DEF w
    <2>2. QED BY <1>0, <1>1, <1>2, <1>3, <2>1
<1>6. /\ f = IF Len(s) = 0 THEN NULL ELSE s[1]
      /\ l = IF Len(s) = 0 THEN NULL ELSE s[Len(s)]
      /\ \A p \in 1 .. Len(s) : g[s[p]].next = IF p = Len(s) THEN NULL ELSE s[p + 1]
    BY DEF Linked
<1> HIDE DEF w
<1>7. l = NULL <=> Len(s) = 0
    <2>1. Len(s) # 0 => Len(s) \in 1 .. Len(s)
        BY <1>1
    <2>2. QED BY <1>1, <1>6, <2>1
<1>8. h = IF Len(w) = 0 THEN NULL ELSE w[1]
    <2>1. CASE Len(s) = 0
        BY <1>0, <1>2, <1>7, <2>1
    <2>2. CASE Len(s) # 0
        <3>1. 1 \in 1 .. Len(s) /\ Len(w) # 0
            BY <1>1, <1>2, <2>2
        <3>2. QED BY <1>0, <1>2, <1>6, <1>7, <2>2, <3>1
    <2>3. QED BY <2>1, <2>2
<1>9. t = IF Len(w) = 0 THEN NULL ELSE w[Len(w)]
    <2>1. Len(w) # 0
        BY <1>1, <1>2
    <2>2. QED BY <1>2, <2>1
<1>10. ASSUME NEW p \in 1 .. Len(w)
       PROVE  d[w[p]].next = IF p = Len(w) THEN NULL ELSE w[p + 1]
    <2>1. CASE p = Len(s) + 1
        BY <1>0, <1>2, <2>1
    <2>2. CASE p = Len(s) /\ p \in 1 .. Len(s)
        <3>1. l = s[p] /\ s[p] \in R
            BY <1>1, <1>6, <2>2
        <3>2. d[w[p]].next = t
            BY <1>0, <1>2, <2>2, <3>1
        <3>3. p # Len(w) /\ w[p + 1] = t
            BY <1>1, <1>2, <2>2
        <3>4. QED BY <3>2, <3>3
    <2>3. CASE p # Len(s) /\ p \in 1 .. Len(s)
        <3>1. Len(s) \in 1 .. Len(s) /\ p + 1 \in 1 .. Len(s) /\ p # Len(w) /\ Len(s) # 0
            BY <1>1, <1>2, <2>3
        <3>2. s[p] \in R /\ s[p] # l
            <4>1. \A i, j \in 1 .. Len(s) : s[i] = s[j] => i = j
                BY DEF Linked
            <4>2. QED BY <1>1, <1>6, <2>3, <3>1, <4>1
        <3>3. d[s[p]].next = s[p + 1]
            BY <1>0, <1>6, <2>3, <3>2
        <3>4. QED BY <1>2, <2>3, <3>1, <3>3
    <2>4. QED BY <1>2, <1>3, <2>1, <2>2, <2>3
<1>11. Linked(w, R \cup {t}, d, h, t)
    BY <1>2, <1>4, <1>5, <1>8, <1>9, <1>10 DEF Linked
<1>12. QED BY <1>11 DEF w

\* The commit of an insertion: the record becomes the last.
LEMMA InsertApplies ==
    ASSUME AtomicInv, AtomicInv', ItemsAre, ItemsAre', InsertEnds
    PROVE  Map!Apply
<1> USE DEF AtomicInv
<1> DEFINE t == intent.target
<1>0. /\ entry \in Contents /\ Used \subseteq Ids /\ NULL \notin Used
    BY LogFacts
<1>1. /\ UNCHANGED <<entry, intent, req, res>> /\ pc = "ends" /\ pc' = "clear"
      /\ head' = (IF tail = NULL THEN t ELSE head) /\ tail' = t
    BY DEF InsertEnds, Goto, call
<1>2. intent.state = "inserting" /\ req.kind = "insert" /\ ~resolving /\ t \in Ids
    BY <1>1 DEF LogInv, IntentCoversWrite, InsertPhases, CallPhases
<1>3. /\ t \in Used /\ tail # t /\ entry[t].next = NULL
      /\ tail # NULL => entry[tail].next = t
    BY <1>1 DEF Structured, InsertStage
<1>4. entry[t].key = req.key /\ entry[t].val = req.val
    BY <1>1, <1>2 DEF Served
<1>5. Pending /\ ~Pending'
    BY <1>1, <1>2, <1>3 DEF Pending
<1>6. intent.prev = tail /\ intent.next = NULL /\ Probed(entry, Used, {})
    BY <1>2, <1>5, OneAtATime DEF Structured, OnFlash
<1>7. /\ Counting = Others /\ Final = tail
      /\ First = IF tail = NULL THEN NULL ELSE head
      /\ \A i \in Others : Mended[i].next = IF i = tail THEN NULL ELSE entry[i].next
    <2>1. OthersCount
        BY <1>5, CountOthers
    <2>2. QED BY <1>6, <2>1 DEF OthersCount
<1>8. Counting' = Used' /\ Mended' = entry' /\ First' = head' /\ Final' = tail'
    BY <1>1, <1>5, CountAllNext DEF CopyWindow
<1>9. PICK s : Settled(s)
    BY DEF ItemsAre
<1>10. Shown(s)
    BY <1>9, ItemsShown
<1>11. Settled(Append(s, t))'
    <2>1. PICK x, R, d, g, f, l, h :
             /\ x = t /\ R = Others /\ d = entry /\ g = Mended /\ f = First /\ l = Final
             /\ h = head'
        OBVIOUS
    <2>2. R \subseteq Ids /\ x \in Ids \ R /\ d[x].next = NULL /\ Linked(s, R, g, f, l)
        BY <1>0, <1>2, <1>3, <1>7, <1>9, <2>1 DEF Others, Settled
    <2>3. \A i \in R : d[i].next = IF i = l THEN x ELSE g[i].next
        <3>1. NULL \notin Others
            BY <1>0 DEF Others
        <3>2. QED BY <1>3, <1>7, <2>1, <3>1
    <2>4. h = IF l = NULL THEN x ELSE f
        BY <1>1, <1>7, <2>1
    <2>5. Linked(Append(s, x), R \cup {x}, d, h, x)
        <3>1. Extends(x, R, d, h, g, f, l)
            BY <2>2, <2>3, <2>4 DEF Extends
        <3>2. QED BY <2>2, <3>1, LinkedAppend
    <2>6. R \cup {x} = Used' /\ d = entry'
        BY <1>1, <1>3, <2>1 DEF Others, Used
    <2>7. Linked(Append(s, x), Used', entry', head', tail')
        BY <1>1, <2>1, <2>5, <2>6
    <2>8. Settled(Append(s, x))'
        BY <1>8, <2>7 DEF Settled
    <2>9. intent'.target = x
        BY <1>1, <2>1
    <2>10. QED BY <2>8, <2>9
<1>12. PICK w : w = Append(s, t)
    OBVIOUS
<1>13. Settled(w)'
    BY <1>1, <1>11, <1>12
<1>14. Items' = Pairs'[w]
    BY <1>13 DEF ItemsAre
<1>15. /\ s \in Seq(Ids) /\ Len(s) \in Nat /\ w \in Seq(Ids) /\ Len(w) = Len(s) + 1
       /\ w[Len(s) + 1] = t /\ \A p \in 1 .. Len(s) : w[p] = s[p]
    BY <1>2, <1>10, <1>12 DEF Shown
<1>16. Items' = [p \in 1 .. Len(s) + 1 |-> [key |-> entry[w[p]].key, val |-> entry[w[p]].val]]
    BY <1>1, <1>14, <1>15 DEF Pairs
<1>17. Items = [p \in 1 .. Len(s) |-> [key |-> entry[s[p]].key, val |-> entry[s[p]].val]]
    BY <1>10, <1>15, PairsIs DEF Shown
<1> HIDE DEF t
<1>18. Items' = Append(Items, [key |-> req.key, val |-> req.val])
    <2> DEFINE a == [key |-> req.key, val |-> req.val]
    <2>1. Items \in Seq({Items[p] : p \in 1 .. Len(s)})
        <3>1. PICK S : S = {Items[p] : p \in 1 .. Len(s)}
            OBVIOUS
        <3>2. Items \in [1 .. Len(s) -> S]
            BY <1>17, <3>1
        <3>3. QED BY <1>15, <3>1, <3>2
    <2>2. /\ Append(Items, a) = [p \in 1 .. Len(s) + 1 |-> IF p <= Len(s) THEN Items[p] ELSE a]
        BY <1>15, <1>17, <2>1
    <2>3. ASSUME NEW p \in 1 .. Len(s) + 1
          PROVE  [key |-> entry[w[p]].key, val |-> entry[w[p]].val] =
                 IF p <= Len(s) THEN Items[p] ELSE a
        <3>1. CASE p \in 1 .. Len(s)
            BY <1>15, <1>17, <3>1
        <3>2. CASE p = Len(s) + 1
            BY <1>4, <1>15, <3>2
        <3>3. QED BY <1>15, <3>1, <3>2
    <2>4. QED BY <1>16, <2>2, <2>3
<1>19. ~Map!Present(req.key)
    <2>1. ASSUME NEW p \in DOMAIN Items PROVE Items[p].key # req.key
        <3>1. /\ s[p] \in Others
              /\ Items[p] = [key |-> entry[s[p]].key, val |-> entry[s[p]].val]
            BY <1>7, <1>10, <2>1 DEF Shown
        <3>2. entry[s[p]].key # req.key
            BY <1>3, <1>4, <1>6, <3>1 DEF Others, Probed, t
        <3>3. QED BY <3>1, <3>2
    <2>2. QED BY <2>1 DEF Map!Present
<1>20. Items' = Map!Put(req.key, req.val)
    BY <1>18, <1>19 DEF Map!Put
<1>21. QED BY <1>1, <1>2, <1>20 DEF Map!Apply

\* A deletion counts once it is logged: the record is taken out of the list.
LEMMA DeleteApplies ==
    ASSUME AtomicInv, AtomicInv', ItemsAre, ItemsAre', DeleteIntent
    PROVE  Map!Apply
<1> USE DEF AtomicInv
<1>0. /\ entry \in Contents /\ Used \subseteq Ids /\ NULL \notin Used
    BY LogFacts
<1>1. PICK t : t = Slot(req.key)
    OBVIOUS
<1>2. PICK x : x = entry[t].prev
    OBVIOUS
<1>3. PICK n : n = entry[t].next
    OBVIOUS
<1>4. /\ UNCHANGED <<entry, head, tail, req, res>> /\ pc = "exec" /\ pc' = "unlink_prev"
      /\ intent' = [state |-> "deleting", target |-> t, prev |-> x, next |-> n]
      /\ req.kind = "delete" /\ Stops(req.key) # {} /\ entry[t] # NoEntry
    BY <1>1, <1>2, <1>3 DEF DeleteIntent, Goto, call
<1>5. /\ t \in Used /\ entry[t].key = req.key
    <2>1. req.key \in Keys
        BY <1>4 DEF LogInv, IntentCoversWrite, Requests
    <2>2. t \in Stops(req.key) /\ t \in Ids
        BY <1>1, <1>4, <2>1, SlotType
    <2>3. QED BY <1>4, <2>2 DEF Stops, Holds, Used
<1>6. intent.state = "none" /\ ~Pending /\ Whole
    BY <1>4 DEF LogInv, IntentCoversWrite, Pending, Structured, OnFlash
<1>7. /\ Link(x) = t /\ x \in Used \cup {NULL} /\ x # t
    BY <1>2, <1>5, <1>6, ThreadsLead DEF Whole
<1>8. /\ Counting' = Used \ {t}
      /\ First' = IF x = NULL THEN n ELSE head
      /\ \A i \in Used \ {t} : Mended'[i].next = IF i = x THEN n ELSE entry[i].next
    <2>1. Used' = Used /\ Pending'
        BY <1>4, <1>5 DEF Used, Pending
    <2>2. OthersCount'
        BY <2>1, CountOthersNext
    <2>3. Others' = Used \ {t}
        BY <1>4, <2>1 DEF Others
    <2>4. QED BY <1>4, <2>2, <2>3 DEF OthersCount
<1>9. PICK s : Settled(s)'
    BY DEF ItemsAre
<1>10. PICK R, g, f, l, d, h : /\ R = Used \ {t} /\ g = Mended' /\ f = First' /\ l = Final'
                               /\ d = entry /\ h = head
    OBVIOUS
<1>11. Linked(s, R, g, f, l)
    BY <1>8, <1>9, <1>10 DEF Settled
<1>12. LeadsThrough(t, x, R, d, h, g, f)
    <2>1. R \subseteq Ids /\ t \in Ids \ R /\ x \in R \cup {NULL}
        BY <1>0, <1>5, <1>7, <1>10
    <2>2. d[t].next = IF x = NULL THEN f ELSE g[x].next
        BY <1>3, <1>7, <1>8, <1>10
    <2>3. \A i \in R : d[i].next = IF i = x THEN t ELSE g[i].next
        BY <1>0, <1>7, <1>8, <1>10 DEF Link
    <2>4. h = IF x = NULL THEN t ELSE f
        BY <1>7, <1>8, <1>10 DEF Link
    <2>5. QED BY <2>1, <2>2, <2>3, <2>4 DEF LeadsThrough
<1>13. PICK w, k, last : Linked(w, R \cup {t}, d, h, last) /\ TakenOut(s, w, k, t)
    BY <1>11, <1>12, Detour
<1>14. /\ k \in 1 .. Len(w) /\ w[k] = t /\ Len(w) = Len(s) + 1
       /\ \A j \in 1 .. Len(s) : s[j] = IF j < k THEN w[j] ELSE w[j + 1]
    BY <1>13 DEF TakenOut
<1>15. Linked(w, Used, entry, head, last)
    BY <1>5, <1>10, <1>13
<1>16. Items = Pairs[w]
    <2>1. \A i \in Used : ~Uncommitted(i)
        BY <1>6 DEF Uncommitted
    <2>2. QED BY <1>15, <2>1, SettledShown
<1>17. /\ w \in Seq(Ids) /\ Len(w) \in Nat /\ s \in Seq(Ids) /\ Len(s) \in Nat
       /\ \A j \in 1 .. Len(w) : w[j] \in Used
    <2>1. R \subseteq Ids
        BY <1>0, <1>10
    <2>2. s \in Seq(Ids) /\ Len(s) \in Nat
        BY <1>11, <2>1, LinkedFacts
    <2>3. w \in Seq(Ids) /\ Len(w) \in Nat /\ \A j \in 1 .. Len(w) : w[j] \in Used
        BY <1>0, <1>15, LinkedFacts
    <2>4. QED BY <2>2, <2>3
<1>18. Items = [j \in 1 .. Len(w) |-> [key |-> entry[w[j]].key, val |-> entry[w[j]].val]]
    BY <1>16, <1>17, PairsIs
<1>19. Items' = [j \in 1 .. Len(s) |-> [key |-> entry[s[j]].key, val |-> entry[s[j]].val]]
    <2>1. Items' = Pairs'[s]
        BY <1>9 DEF ItemsAre
    <2>2. QED BY <1>4, <1>17, <2>1 DEF Pairs
<1>20. PICK q, S : q = Items /\ S = {Items[j] : j \in 1 .. Len(w)}
    OBVIOUS
<1>21. q \in Seq(S) /\ Len(q) = Len(w) /\ DOMAIN q = 1 .. Len(w)
    <2>1. q \in [1 .. Len(w) -> S]
        BY <1>18, <1>20
    <2>2. QED BY <1>17, <2>1
<1>22. /\ RemoveAt(q, k) \in Seq(S) /\ Len(RemoveAt(q, k)) = Len(q) - 1
       /\ \A j \in 1 .. Len(q) - 1 : RemoveAt(q, k)[j] = IF j < k THEN q[j] ELSE q[j + 1]
    BY <1>14, <1>21, PlaceTaken
<1>23. Items' = RemoveAt(q, k)
    <2>1. Len(q) - 1 = Len(s)
        BY <1>14, <1>17, <1>21
    <2>2. \A j \in 1 .. Len(s) :
             /\ j < k => j \in 1 .. Len(w)
             /\ ~(j < k) => j + 1 \in 1 .. Len(w)
        BY <1>14, <1>17
    <2>3. ASSUME NEW j \in 1 .. Len(s)
          PROVE  RemoveAt(q, k)[j] = [key |-> entry[s[j]].key, val |-> entry[s[j]].val]
        <3>1. CASE j < k
            BY <1>14, <1>18, <1>20, <1>22, <2>1, <2>2, <3>1
        <3>2. CASE ~(j < k)
            <4>1. RemoveAt(q, k)[j] = q[j + 1]
                BY <1>22, <2>1, <3>2
            <4>2. s[j] = w[j + 1] /\ j + 1 \in 1 .. Len(w)
                BY <1>14, <2>2, <3>2
            <4>3. PICK m \in 1 .. Len(w) : m = j + 1
                BY <4>2
            <4>4. q[m] = [key |-> entry[w[m]].key, val |-> entry[w[m]].val]
                BY <1>18, <1>20, <4>3
            <4>5. QED BY <4>1, <4>2, <4>3, <4>4
        <3>3. QED BY <3>1, <3>2
    <2>4. RemoveAt(q, k) = [j \in 1 .. Len(s) |-> RemoveAt(q, k)[j]]
        <3>1. PICK y : y = RemoveAt(q, k)
            OBVIOUS
        <3>2. y \in Seq(S) /\ Len(y) = Len(s)
            BY <1>22, <2>1, <3>1
        <3>3. y \in [1 .. Len(s) -> S]
            BY <3>2
        <3>4. QED BY <3>1, <3>3
    <2>5. QED BY <1>19, <2>3, <2>4
<1>24. \A j \in DOMAIN Items : Items[j].key = req.key <=> j = k
    <2>1. ASSUME NEW j \in 1 .. Len(w) PROVE Items[j].key = req.key <=> j = k
        <3>1. Items[j].key = entry[w[j]].key
            BY <1>18
        <3>2. entry[w[j]].key = req.key <=> w[j] = t
            BY <1>5, <1>6, <1>17 DEF Whole, Probed
        <3>3. w[j] = t <=> j = k
            BY <1>14, <1>15 DEF Linked
        <3>4. QED BY <3>1, <3>2, <3>3
    <2>2. QED BY <1>20, <1>21, <2>1
<1>25. k \in DOMAIN Items
    BY <1>14, <1>20, <1>21
<1>26. Map!Present(req.key) /\ Map!Place(req.key) = k
    BY <1>24, <1>25 DEF Map!Present, Map!Place
<1>27. Map!Without(req.key) = RemoveAt(Items, k)
    BY <1>26 DEF Map!Without, Map!RemoveAt, RemoveAt
<1>28. QED BY <1>4, <1>20, <1>23, <1>27 DEF Map!Apply

-----------------------------------------------------------------------------
(* The answers. *)

\* Every stored record has its place in the map, where all of them count.
LEMMA PlacesShown ==
    ASSUME NEW s, Shown(s), Counting = Used
    PROVE  /\ DOMAIN Items = 1 .. Len(s)
           /\ \A p \in 1 .. Len(s) : /\ s[p] \in Used /\ Items[p].key = entry[s[p]].key
                                     /\ Items[p].val = entry[s[p]].val
           /\ \A i \in Used : \E p \in 1 .. Len(s) : s[p] = i
           /\ \A p, q \in 1 .. Len(s) : s[p] = s[q] => p = q
<1>1. /\ DOMAIN Items = 1 .. Len(s)
      /\ \A p \in 1 .. Len(s) :
            /\ s[p] \in Counting
            /\ Items[p] = [key |-> entry[s[p]].key, val |-> entry[s[p]].val]
      /\ \A i \in Counting : \E p \in 1 .. Len(s) : s[p] = i
      /\ \A p, q \in 1 .. Len(s) : s[p] = s[q] => p = q
    BY DEF Shown
<1>2. ASSUME NEW p \in 1 .. Len(s)
      PROVE  /\ s[p] \in Used /\ Items[p].key = entry[s[p]].key
             /\ Items[p].val = entry[s[p]].val
    BY <1>1
<1>3. QED BY <1>1, <1>2

\* Where every stored record counts, a key is present if a record has it.
LEMMA PresentIs ==
    ASSUME LogInv, NEW s, Shown(s), Counting = Used, NEW k
    PROVE  Map!Present(k) <=> \E i \in Used : entry[i].key = k
<1>1. /\ DOMAIN Items = 1 .. Len(s)
      /\ \A p \in 1 .. Len(s) : s[p] \in Used /\ Items[p].key = entry[s[p]].key
      /\ \A i \in Used : \E p \in 1 .. Len(s) : s[p] = i
    BY PlacesShown
<1>2. ASSUME NEW p \in DOMAIN Items, Items[p].key = k
      PROVE  \E i \in Used : entry[i].key = k
    BY <1>1, <1>2
<1>3. ASSUME NEW i \in Used, entry[i].key = k
      PROVE  \E p \in DOMAIN Items : Items[p].key = k
    <2>1. PICK p \in 1 .. Len(s) : s[p] = i
        BY <1>1, <1>3
    <2>2. QED BY <1>1, <1>3, <2>1
<1>4. QED BY <1>2, <1>3 DEF Map!Present

\* The value of a key is that of its record.
LEMMA ValueIs ==
    ASSUME LogInv, NEW s, Shown(s), Counting = Used, NEW free, Probed(entry, Used, free),
           NEW i \in Used
    PROVE  Map!ValueOf(entry[i].key) = entry[i].val
<1>1. /\ DOMAIN Items = 1 .. Len(s)
      /\ \A p \in 1 .. Len(s) : /\ s[p] \in Used /\ Items[p].key = entry[s[p]].key
                                /\ Items[p].val = entry[s[p]].val
      /\ \A j \in Used : \E p \in 1 .. Len(s) : s[p] = j
      /\ \A p, q \in 1 .. Len(s) : s[p] = s[q] => p = q
    BY PlacesShown
<1>2. PICK p \in 1 .. Len(s) : s[p] = i
    BY <1>1
<1>3. \A q \in DOMAIN Items : Items[q].key = entry[i].key <=> q = p
    <2>1. ASSUME NEW q \in 1 .. Len(s) PROVE Items[q].key = entry[i].key <=> q = p
        <3>1. s[q] \in Used /\ Items[q].key = entry[s[q]].key
            BY <1>1
        <3>2. entry[s[q]].key = entry[i].key <=> s[q] = i
            BY <3>1 DEF Probed
        <3>3. s[q] = i <=> q = p
            BY <1>1, <1>2
        <3>4. QED BY <3>1, <3>2, <3>3
    <2>2. QED BY <1>1, <2>1
<1>4. p \in DOMAIN Items
    BY <1>1
<1>5. Map!Place(entry[i].key) = p
    BY <1>3, <1>4 DEF Map!Place
<1>6. QED BY <1>1, <1>2, <1>5 DEF Map!ValueOf

\* Where every id is used there is no room for another pair.
LEMMA FullIs ==
    ASSUME LogInv, NEW s, Shown(s), Counting = Used, Used = Ids
    PROVE  Len(Items) = Size
<1>1. /\ s \in Seq(Ids) /\ Len(s) \in Nat /\ Len(Items) = Len(s)
      /\ \A i \in Ids : \E p \in 1 .. Len(s) : s[p] = i
      /\ \A p, q \in 1 .. Len(s) : s[p] = s[q] => p = q
    BY DEF Shown
<1>2. s \in [1 .. Len(s) -> Ids]
    BY <1>1, LenProperties
<1>3. s \in Injection(1 .. Len(s), Ids) /\ s \in Surjection(1 .. Len(s), Ids)
    BY <1>1, <1>2 DEF Injection, IsInjective, Surjection
<1>4. Cardinality(1 .. Len(s)) = Cardinality(Ids)
    BY <1>3, IdsFinite, FS_Injection
<1>5. Cardinality(1 .. Len(s)) = Len(s)
    <2>1. 1 \in Int /\ Len(s) \in Int
        BY <1>1
    <2>2. Cardinality(1 .. Len(s)) = IF 1 > Len(s) THEN 0 ELSE Len(s) - 1 + 1
        BY <2>1, FS_Interval
    <2>3. QED BY <1>1, <2>2
<1>6. QED BY <1>1, <1>4, <1>5, IdsFinite

\* What is answered is what the map holds.
LEMMA Returns ==
    ASSUME LogInv, Items' = Items, req' = NoReq, req \in Requests,
           NEW a \in Map!Answers, res' = a, Map!Justified(a)
    PROVE  Map!Return
<1>1. req # Map!NoReq
    BY DEF Requests, Map!NoReq
<1>2. req' = Map!NoReq
    BY DEF NoReq, Map!NoReq
<1>3. QED BY <1>1, <1>2 DEF Map!Return

\* Calls that write nothing answer at once.
LEMMA ExecReturns ==
    ASSUME AtomicInv, AtomicInv', ItemsAre, ItemsAre', AnswerMiss \/ FindHit
    PROVE  Map!Return
<1> USE DEF AtomicInv
<1>1. /\ UNCHANGED flash /\ pc = "exec" /\ pc' = "idle" /\ req' = NoReq
    BY DEF AnswerMiss, FindHit, Answered, Leave
<1>2. /\ intent.state = "none" /\ ~Pending /\ Probed(entry, Used, {})
      /\ req \in Requests /\ req.kind # "open"
    BY <1>1 DEF LogInv, IntentCoversWrite, CallPhases, Pending, Structured, OnFlash, Whole
<1>3. Counting = Used
    BY <1>1, <1>2, CountAll DEF CopyWindow
<1>4. Items' = Items
    BY <1>1, FlashSame, ItemsKept DEF CopyWindow
<1>5. PICK s : Shown(s)
    BY ItemsShown DEF ItemsAre
<1>6. /\ entry \in Contents /\ Used \subseteq Ids /\ \A j \in Used : entry[j] \in Entry
      /\ \A i \in Ids : i \in Used <=> entry[i] # NoEntry
    BY LogFacts
<1>7. req.kind \in {"insert", "find", "delete"} /\ req.key \in Keys
    BY <1>2 DEF Requests
<1>8. CASE Stops(req.key) = {} /\ res' = Answer("full", NULL)
    <2>1. \A i \in Ids : entry[i] # NoEntry /\ entry[i].key # req.key
        BY <1>8 DEF Stops, Holds
    <2>2. Used = Ids /\ ~\E i \in Used : entry[i].key = req.key
        BY <1>6, <2>1 DEF Used
    <2>3. Len(Items) = Size /\ ~Map!Present(req.key)
        BY <1>3, <1>5, <2>2, FullIs, PresentIs
    <2>4. Map!Justified(Answer("full", NULL))
        BY <1>7, <2>3 DEF Map!Justified, Map!Answer, Answer
    <2>5. Answer("full", NULL) \in Map!Answers
        BY DEF Map!Answers, Answer
    <2>6. QED BY <1>1, <1>2, <1>4, <1>8, <2>4, <2>5, Returns
<1>9. CASE /\ Stops(req.key) # {} /\ entry[Slot(req.key)] = NoEntry
           /\ req.kind # "insert" /\ res' = Answer("not_found", NULL)
    <2>1. ASSUME NEW i \in Used, entry[i].key = req.key PROVE FALSE
        <3>1. Slot(req.key) = i
            BY <1>2, <2>1, ProbeFinds DEF ProbeFindsEveryRecord
        <3>2. QED BY <1>6, <1>9, <2>1, <3>1
    <2>2. ~Map!Present(req.key)
        BY <1>3, <1>5, <2>1, PresentIs
    <2>3. Map!Justified(Answer("not_found", NULL))
        BY <1>7, <1>9, <2>2 DEF Map!Justified, Map!Answer, Answer
    <2>4. Answer("not_found", NULL) \in Map!Answers
        BY DEF Map!Answers, Answer
    <2>5. QED BY <1>1, <1>2, <1>4, <1>9, <2>3, <2>4, Returns
<1>10. CASE FindHit
    <2>1. PICK i : i = Slot(req.key)
        OBVIOUS
    <2>2. /\ req.kind = "find" /\ Stops(req.key) # {} /\ entry[i] # NoEntry
          /\ res' = Answer("ok", entry[i].val)
        BY <1>10, <2>1 DEF FindHit, Answered, Leave
    <2>3. i \in Stops(req.key) /\ i \in Ids
        BY <1>7, <2>1, <2>2, SlotType
    <2>4. i \in Used /\ entry[i].key = req.key
        BY <2>2, <2>3 DEF Stops, Holds, Used
    <2>5. Map!Present(req.key)
        BY <1>3, <1>5, <2>4, PresentIs
    <2>6. Map!ValueOf(req.key) = entry[i].val
        <3>1. Map!ValueOf(entry[i].key) = entry[i].val
            BY <1>2, <1>3, <1>5, <2>4, ValueIs
        <3>2. QED BY <2>4, <3>1
    <2>7. Map!Justified(Answer("ok", entry[i].val))
        BY <2>2, <2>5, <2>6 DEF Map!Justified, Map!Answer, Answer
    <2>8. Answer("ok", entry[i].val) \in Map!Answers
        BY <1>6, <2>4 DEF Map!Answers, Answer, Entry
    <2>9. QED BY <1>1, <1>2, <1>4, <2>2, <2>7, <2>8, Returns
<1>11. QED BY <1>8, <1>9, <1>10 DEF AnswerMiss, Answered, Leave

\* A call ends when the log is cleared.
LEMMA ClearReturns ==
    ASSUME AtomicInv, AtomicInv', ItemsAre, ItemsAre', Clear, ~(resolving /\ req.kind # "open")
    PROVE  Map!Return
<1> USE DEF AtomicInv
<1>1. pc = "clear" /\ req' = NoReq /\ res' = Answer("ok", NULL)
    BY DEF Clear, Answered, Leave
<1>2. req \in Requests /\ Probed(entry, Used, {})
    BY <1>1 DEF LogInv, IntentCoversWrite, Structured, Whole
<1>3. Counting = Used
    BY <1>1, ClearCounts
<1>4. Items' = Items
    BY ClearSame, ItemsKept
<1>5. PICK s : Shown(s)
    BY ItemsShown DEF ItemsAre
<1>6. Answer("ok", NULL) \in Map!Answers
    BY DEF Map!Answers, Answer
<1>7. Map!Justified(Answer("ok", NULL))
    <2>1. CASE req.kind = "open"
        BY <2>1 DEF Map!Justified, Map!Answer, Answer
    <2>2. CASE ~resolving /\ req.kind = "insert"
        <3>1. PICK i : i = intent.target
            OBVIOUS
        <3>2. i \in Used /\ entry[i].key = req.key /\ entry[i].val = req.val
            BY <1>1, <2>2, <3>1 DEF Served
        <3>3. Map!Present(req.key)
            BY <1>3, <1>5, <3>2, PresentIs
        <3>4. Map!ValueOf(entry[i].key) = entry[i].val
            BY <1>2, <1>3, <1>5, <3>2, ValueIs
        <3>5. QED BY <2>2, <3>2, <3>3, <3>4 DEF Map!Justified, Map!Answer, Answer
    <2>3. CASE ~resolving /\ req.kind = "delete"
        <3>1. Gone
            BY <1>1, <2>3 DEF Served, GonePhases
        <3>2. ~Map!Present(req.key)
            BY <1>3, <1>5, <3>1, PresentIs DEF Gone
        <3>3. QED BY <2>3, <3>2 DEF Map!Justified, Map!Answer, Answer
    <2>4. ~resolving => req.kind \in {"insert", "delete"}
        BY <1>1 DEF Served
    <2>5. QED BY <2>1, <2>2, <2>3, <2>4
<1>8. QED BY <1>1, <1>2, <1>4, <1>6, <1>7, Returns

-----------------------------------------------------------------------------
(* The refinement. *)

\* The empty store is the empty map.
LEMMA MapInit == Init => Map!Init
<1> SUFFICES ASSUME Init PROVE Map!Init
    OBVIOUS
<1>1. /\ Used = {} /\ head = NULL /\ tail = NULL /\ ~Pending /\ pc \notin CopyWindow
      /\ req = NoReq /\ res = NoAnswer
    BY DEF Init, Used, NoIntent, Pending, CopyWindow
<1>2. LogInv /\ Structured /\ HalfLinked
    BY LogInvInit, StructuredInit, AtomicInit
<1>3. PICK s : Settled(s)
    BY <1>2, SettledExists
<1>4. Items = Pairs[s]
    BY <1>2, <1>3, SettledItems
<1>5. Linked(s, {}, entry, NULL, NULL)
    BY <1>1, <1>3, CountAll DEF Settled
<1>6. s \in Seq({}) /\ Len(s) = 0
    BY <1>5 DEF Linked
<1>7. s \in Seq(Ids)
    BY <1>6
<1>8. Items = [p \in 1 .. Len(s) |-> [key |-> entry[s[p]].key, val |-> entry[s[p]].val]]
    BY <1>4, <1>7, PairsIs
<1>9. Items = <<>>
    BY <1>6, <1>8
<1>10. QED BY <1>1, <1>9 DEF Map!Init, NoReq, Map!NoReq, NoAnswer, Map!NoAnswer, Answer, Map!Answer

\* A step of the driver is a step of the map, or none.
LEMMA MapStep ==
    ASSUME Sparing, AtomicInv, AtomicInv', ItemsAre, ItemsAre', [Next]_vars
    PROVE  [Map!MapNext]_Map!mapVars
<1> USE DEF AtomicInv
<1>1. ASSUME Items' = Items, UNCHANGED call PROVE UNCHANGED Map!mapVars
    BY <1>1 DEF Map!mapVars, call
<1>2. ASSUME SameRecords, UNCHANGED call PROVE [Map!MapNext]_Map!mapVars
    BY <1>1, <1>2, ItemsKept
<1>3. CASE UNCHANGED vars
    <2>1. UNCHANGED <<entry, head, tail, intent, pc, hole, curr, call>>
        BY <1>3 DEF vars, flash, loop
    <2>2. SameRecords
        BY <2>1 DEF SameRecords, Counting, First, Final, Mended, Pending, Others, Used, Relink
    <2>3. QED BY <1>2, <2>1, <2>2
<1>4. CASE \E r \in Requests : Begin(r)
    <2>1. /\ UNCHANGED flash /\ pc \in {"down", "idle"} /\ pc' = "resolve"
          /\ req' \in Requests /\ res' = NoAnswer
        BY <1>4 DEF Begin
    <2>2. Items' = Items
        BY <2>1, FlashSame, ItemsKept DEF CopyWindow
    <2>3. req = NoReq
        BY <2>1 DEF Served
    <2>4. Map!Begin
        BY <2>1, <2>2, <2>3 DEF Map!Begin, NoReq, Map!NoReq, NoAnswer, Map!NoAnswer, Answer,
                               Map!Answer, Requests, Map!Requests
    <2>5. QED BY <2>4 DEF Map!MapNext
<1>5. CASE Insert
    <2>1. CASE InsertIntent \/ (InsertPayload /\ intent.state = "inserting") \/ InsertLink
        <3>1. UNCHANGED call
            BY <2>1 DEF InsertIntent, InsertPayload, InsertLink, Goto
        <3>2. QED BY <1>2, <2>1, <3>1, InsertSame
    <2>2. CASE InsertPayload /\ intent.state # "inserting"
        BY <2>2, UpdateApplies DEF Map!MapNext
    <2>3. CASE InsertEnds
        BY <2>3, InsertApplies DEF Map!MapNext
    <2>4. QED BY <1>5, <2>1, <2>2, <2>3 DEF Insert
<1>6. CASE Delete
    <2>1. CASE DeleteIntent
        BY <2>1, DeleteApplies DEF Map!MapNext
    <2>2. CASE UnlinkPrev \/ UnlinkNext \/ UnlinkEnds \/ EraseTarget \/ ToShifting
        <3>1. UNCHANGED call
            BY <2>2 DEF UnlinkPrev, UnlinkNext, UnlinkEnds, EraseTarget, ToShifting, Goto
        <3>2. QED BY <1>2, <2>2, <3>1, DeleteSame
    <2>3. QED BY <1>6, <2>1, <2>2 DEF Delete
<1>7. CASE Shift
    <2>1. UNCHANGED call
        BY <1>7 DEF Shift, ShiftDone, ShiftSkip, ShiftCopy, ShiftPrev, ShiftNext, ShiftDelete,
                    ShiftIntent, Goto
    <2>2. CASE ShiftCopy
        BY <1>1, <2>1, <2>2, ShiftCopyItems
    <2>3. CASE ~ShiftCopy
        <3>1. SameRecords
            BY <1>7, <2>3, ShiftSame DEF Shift
        <3>2. QED BY <1>2, <2>1, <3>1
    <2>4. QED BY <2>2, <2>3
<1>8. CASE UndoLink \/ UndoPayload
    <2>1. UNCHANGED call
        BY <1>8 DEF UndoLink, UndoPayload, Goto
    <2>2. QED BY <1>2, <1>8, <2>1, UndoSame
<1>9. CASE \/ ResolveNothing \/ ResolveInsert \/ ResolveUpdate \/ ResolveDelete \/ ResolveShift
    <2>1. SameRecords
        BY <1>9, ResolveSame
    <2>2. CASE UNCHANGED call
        BY <1>2, <2>1, <2>2
    <2>3. CASE ~UNCHANGED call
        <3>1. /\ pc = "resolve" /\ req.kind = "open" /\ req' = NoReq /\ res' = Answer("ok", NULL)
            BY <1>9, <2>3 DEF ResolveNothing, ResolveInsert, ResolveUpdate, ResolveDelete,
                              ResolveShift, Goto, Answered, Leave
        <3>2. req \in Requests
            BY <3>1 DEF LogInv, IntentCoversWrite
        <3>3. Answer("ok", NULL) \in Map!Answers /\ Map!Justified(Answer("ok", NULL))
            BY <3>1 DEF Map!Answers, Answer, Map!Answer, Map!Justified
        <3>4. Items' = Items
            BY <2>1, ItemsKept
        <3>5. QED BY <3>1, <3>2, <3>3, <3>4, Returns DEF Map!MapNext
    <2>4. QED BY <2>2, <2>3
<1>10. CASE AnswerMiss \/ FindHit
    BY <1>10, ExecReturns DEF Map!MapNext
<1>11. CASE Clear
    <2>1. CASE resolving /\ req.kind # "open"
        <3>1. UNCHANGED call
            BY <1>11, <2>1 DEF Clear
        <3>2. QED BY <1>2, <1>11, <3>1, ClearSame
    <2>2. CASE ~(resolving /\ req.kind # "open")
        BY <1>11, <2>2, ClearReturns DEF Map!MapNext
    <2>3. QED BY <2>1, <2>2
<1>12. CASE PowerLoss \/ ZmsError
    <2>1. /\ UNCHANGED flash /\ req' = NoReq /\ res' = Answer("error", NULL)
          /\ pc \notin CopyWindow /\ pc' \notin CopyWindow
        BY <1>12, CutShort DEF CopyWindow
    <2>2. Items' = Items
        BY <2>1, FlashSame, ItemsKept
    <2>3. Map!Fail
        BY <2>1, <2>2 DEF Map!Fail, NoReq, Map!NoReq, Answer, Map!Answer
    <2>4. QED BY <2>3 DEF Map!MapNext
<1>13. CASE Next
    BY <1>4, <1>5, <1>6, <1>7, <1>8, <1>9, <1>10, <1>11, <1>12, <1>13, SparedSteps
<1>14. QED BY <1>3, <1>13

\* The driver implements the atomic, insertion-ordered map: insert and delete
\* take effect at one write each, every answer is what the map holds then, and
\* a call cut short leaves the map as it was or as the call was to leave it
\* (entry.c, entry_delete.c and entry_intent.c), wherever faults strike that
\* spare the copy window and the wrap of a shift.
THEOREM DriverIsAtomicMap == ASSUME Sparing PROVE Spec => IsAtomicMap
<1>1. Spec => []AtomicInv
    BY AtomicHolds
<1>2. AtomicInv => ItemsAre
    BY ItemsFollow
<1>3. AtomicInv /\ AtomicInv' /\ ItemsAre /\ ItemsAre' /\ [Next]_vars => [Map!MapNext]_Map!mapVars
    BY MapStep
<1>4. QED BY <1>1, <1>2, <1>3, MapInit, PTL DEF Spec, IsAtomicMap, Map!MapSpec
=============================================================================
