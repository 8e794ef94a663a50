-------------------------- MODULE PropertiesProofs --------------------------
(***************************************************************************)
(* Theorems about Properties, for every number of ids, every hash, every   *)
(* set of keys, interfaces and firmwares, every sound past of the store    *)
(* and any number of changes and outages: that a walk sees to each         *)
(* property once although records move between the ids under it, and that  *)
(* the device and Astarte end up with the same values.                     *)
(***************************************************************************)
EXTENDS Properties, WellFoundedInduction, FiniteSetTheorems, SequenceTheorems, TLAPS

\* A non-empty set of numbers has a least one.
LEMMA LeastExists ==
    ASSUME NEW N \in SUBSET Nat, N # {}
    PROVE  \E n \in N : \A k \in N : n <= k
<1>1. PICK n \in N : \A k \in N : ~ (<<k, n>> \in OpToRel(<, Nat))
  BY WFMin, NatLessThanWellFounded
<1>2. \A k \in N : ~ (k < n)
  BY <1>1 DEF OpToRel
<1> QED BY <1>2

-----------------------------------------------------------------------------
(* Ids and distances. *)

LEMMA Constants ==
    /\ LastId \in Nat /\ LastId >= 1 /\ Hash \in [Keys -> Ids] /\ Mine \subseteq Keys
    /\ NULL \notin Ids /\ NULL \notin Keys /\ IsFiniteSet(Keys)
    /\ \A k \in Keys : Hash[k] \in Ids
    /\ \A i \in Ids : i \in Nat /\ 1 <= i /\ i <= LastId
BY StoreAssumption DEF Ids

LEMMA DistType ==
    ASSUME NEW a \in Ids, NEW b \in Ids
    PROVE  /\ Dist(a, b) \in Nat /\ Dist(a, b) < LastId
           /\ Dist(a, b) = 0 <=> a = b
BY Constants DEF Dist

\* Distances seen from an id o: a and b are where they lie ahead of it.
LEMMA DistFrom ==
    ASSUME NEW o \in Ids, NEW a \in Ids, NEW b \in Ids
    PROVE  /\ Dist(o, b) >= Dist(o, a) => Dist(a, b) = Dist(o, b) - Dist(o, a)
           /\ Dist(o, b) < Dist(o, a) => Dist(a, b) = LastId - (Dist(o, a) - Dist(o, b))
BY Constants DEF Dist

LEMMA DistSame ==
    ASSUME NEW a \in Ids, NEW b \in Ids, NEW c \in Ids, Dist(a, b) = Dist(a, c)
    PROVE  b = c
BY Constants DEF Dist

\* The id so many steps ahead, and how far it is to it.
LEMMA AheadIs ==
    ASSUME NEW i \in Ids, NEW n \in 1 .. LastId - 1
    PROVE  Ahead(i, n) \in Ids /\ Dist(i, Ahead(i, n)) = n
BY Constants DEF Ahead, Dist, Ids

-----------------------------------------------------------------------------
(* What is at which id. *)

Placements == [Keys -> IdsOrNull]
Taken(at, i) == \E k \in Keys : at[k] = i
Apart(at) == \A k, l \in Keys : at[k] = at[l] /\ at[k] # NULL => k = l
\* The probe for a key that is at id j passes id i before.
Passes(k, i, j) == Dist(Hash[k], i) < Dist(Hash[k], j)
Probed(at, free) ==
    \A k \in Keys, i \in Ids :
        at[k] # NULL /\ Passes(k, i, at[k]) => Taken(at, i) \/ i \in free
Anchor(at, e) == \A k \in Keys : at[k] # NULL => ~Passes(k, e, at[k])
\* All that Sound says of the ids.
Orderly(at) ==
    /\ at \in Placements /\ Apart(at) /\ Probed(at, {})
    /\ \E e \in Ids : Anchor(at, e)
\* All it says of the list.
Listed(st) == IsInjective(st.list) /\ Range(st.list) = Stored(st)

\* At each id there is at most one record: KeyAt gives it.
LEMMA KeyAtIs ==
    ASSUME NEW st \in Stores, NEW i \in Ids
    PROVE  /\ KeyAt(st, i) # NULL <=> Taken(st.at, i)
           /\ KeyAt(st, i) # NULL => /\ KeyAt(st, i) \in Keys /\ Has(st, KeyAt(st, i))
                                     /\ st.at[KeyAt(st, i)] = i
           /\ Apart(st.at) => \A k \in Keys : st.at[k] = i => KeyAt(st, i) = k
<1>1. Taken(st.at, i) <=> \E k \in Stored(st) : st.at[k] = i
    BY Constants DEF Taken, Stored, Has
<1>2. ASSUME NEW k \in Stored(st), st.at[k] = i
      PROVE  /\ KeyAt(st, i) \in Stored(st) /\ st.at[KeyAt(st, i)] = i
    BY <1>2 DEF KeyAt
<1>3. Stored(st) \subseteq Keys /\ \A k \in Stored(st) : Has(st, k)
    BY DEF Stored
<1>4. ~Taken(st.at, i) => KeyAt(st, i) = NULL
    BY <1>1 DEF KeyAt
<1>5. ASSUME Taken(st.at, i)
      PROVE  KeyAt(st, i) \in Stored(st) /\ st.at[KeyAt(st, i)] = i
    BY <1>1, <1>2, <1>5
<1>6. ASSUME Apart(st.at), NEW k \in Keys, st.at[k] = i PROVE KeyAt(st, i) = k
    <2>1. Taken(st.at, i)
        BY <1>6 DEF Taken
    <2>2. KeyAt(st, i) \in Keys /\ st.at[KeyAt(st, i)] = i /\ i # NULL
        BY <1>3, <1>5, <2>1, Constants
    <2>3. QED BY <1>6, <2>2 DEF Apart
<1>7. QED BY <1>3, <1>4, <1>5, <1>6, Constants

\* Sound in two parts, one of the ids and one of the list.
LEMMA SoundIs ==
    ASSUME NEW st \in Stores
    PROVE  Sound(st) <=> Listed(st) /\ Orderly(st.at)
<1>1. st.at \in Placements
    BY DEF Stores, Placements
<1>2. (\A k, l \in Stored(st) : st.at[k] = st.at[l] => k = l) <=> Apart(st.at)
    BY DEF Apart, Stored, Has
<1>3. (\A k \in Stored(st), i \in Ids :
          Dist(Hash[k], i) < Dist(Hash[k], st.at[k]) => KeyAt(st, i) # NULL)
      <=> Probed(st.at, {})
    BY KeyAtIs DEF Probed, Passes, Stored, Has
<1>4. ASSUME NEW i \in Ids, NEW k \in Stored(st)
      PROVE  Dist(Hash[k], st.at[k]) <= Dist(Hash[k], i) <=> ~Passes(k, i, st.at[k])
    <2>1. k \in Keys /\ st.at[k] \in Ids /\ Hash[k] \in Ids
        BY <1>1, Constants DEF Stored, Has, Placements, IdsOrNull
    <2>2. QED BY <2>1, DistType DEF Passes
<1>5. (\E i \in Ids : \A k \in Stored(st) : Dist(Hash[k], st.at[k]) <= Dist(Hash[k], i))
      <=> \E e \in Ids : Anchor(st.at, e)
    BY <1>4 DEF Anchor, Stored, Has
<1>6. QED BY <1>1, <1>2, <1>3, <1>5 DEF Sound, Listed, Orderly

-----------------------------------------------------------------------------
(* The shift.  Positions are counted from the id i of the deleted record.   *)

\* The scan of a shift is what it is defined to be, by the least number of
\* steps up to which it were not.
Single == [s \in Scans |-> [j \in Ids |-> ShiftSingle(s, j)]]
Scanned(at, i, f, n) ==
    IF n = 0 THEN [at |-> at, hole |-> i, over |-> FALSE]
    ELSE Single[f[n - 1]][Ahead(i, n)]

\* Each step of the scan is one of ShiftSingle on the result of the step before.
LEMMA ScanRuns ==
    ASSUME NEW at, NEW i
    PROVE  \E f : /\ f = [n \in 0 .. LastId - 1 |-> Scanned(at, i, f, n)]
                  /\ Shift(at, i) = f[LastId - 1].at
<1> DEFINE Scans_(w, m) == w = [n \in 0 .. m |-> Scanned(at, i, w, n)]
           Bad == {m \in Nat : \A w : ~Scans_(w, m)}
<1>1. ASSUME Bad # {} PROVE FALSE
    <2>1. PICK m \in Bad : \A k \in Bad : m <= k
        <3>1. Bad \subseteq Nat
            OBVIOUS
        <3> HIDE DEF Bad
        <3> QED BY <1>1, <3>1, LeastExists
    <2>2. m \in Nat
        OBVIOUS
    <2>3. m # 0
        <3> DEFINE w == [n \in 0 .. 0 |-> [at |-> at, hole |-> i, over |-> FALSE]]
        <3>1. w = [n \in 0 .. 0 |-> Scanned(at, i, w, n)]
            BY DEF Scanned
        <3> HIDE DEF w
        <3>2. Scans_(w, 0)
            BY <3>1
        <3>3. QED BY <3>2
    <2>4. m - 1 \in Nat /\ m - 1 \notin Bad
        BY <2>1, <2>2, <2>3
    <2>5. PICK w : Scans_(w, m - 1)
        BY <2>4
    <2> DEFINE u == [n \in 0 .. m |-> IF n = m THEN Scanned(at, i, w, m) ELSE w[n]]
    <2>6. \A n \in 0 .. m - 1 : u[n] = w[n] /\ n # m /\ n \in 0 .. m
        BY <2>2
    <2>7. \A n \in 0 .. m - 1 : w[n] = Scanned(at, i, w, n)
        BY <2>5
    <2>8. ASSUME NEW n \in 0 .. m PROVE u[n] = Scanned(at, i, u, n)
        <3>1. n # 0 => n - 1 \in 0 .. m - 1
            BY <2>2
        <3>2. n # 0 => u[n - 1] = w[n - 1]
            BY <2>6, <3>1
        <3>3. Scanned(at, i, u, n) = Scanned(at, i, w, n)
            <4> HIDE DEF u
            <4> QED BY <3>2 DEF Scanned
        <3>4. u[n] = Scanned(at, i, w, n)
            <4>1. CASE n = m
                BY <4>1
            <4>2. CASE n # m
                <5>1. n \in 0 .. m - 1
                    BY <2>2, <4>2
                <5> HIDE DEF u
                <5>2. QED BY <2>6, <2>7, <5>1
            <4>3. QED BY <4>1, <4>2
        <3>5. QED BY <3>3, <3>4
    <2>9. u = [n \in 0 .. m |-> u[n]]
        OBVIOUS
    <2> HIDE DEF u
    <2>10. u = [n \in 0 .. m |-> Scanned(at, i, u, n)]
        BY <2>8, <2>9
    <2>11. Scans_(u, m)
        BY <2>10
    <2>12. QED BY <2>1, <2>11
<1>2. \E w : w = [n \in 0 .. LastId - 1 |-> Scanned(at, i, w, n)]
    BY <1>1, Constants
<1> DEFINE scan == CHOOSE w : w = [n \in 0 .. LastId - 1 |-> Scanned(at, i, w, n)]
<1>3. Shift(at, i) = scan[LastId - 1].at
    BY DEF Shift, Scanned, Single
<1>4. scan = [n \in 0 .. LastId - 1 |-> Scanned(at, i, scan, n)]
    BY <1>2
<1>5. QED BY <1>3, <1>4

\* A probe that passes id h on its way to j passes what lies between.
LEMMA Between ==
    ASSUME NEW i \in Ids, NEW h \in Ids, NEW q \in Ids, NEW j \in Ids, NEW k \in Keys,
           Passes(k, h, j), Dist(i, h) <= Dist(i, q),
           Dist(i, q) < Dist(i, j) \/ Dist(i, j) < Dist(i, h)
    PROVE  Passes(k, q, j)
<1> DEFINE o == Hash[k]
<1>1. o \in Ids
    BY Constants
<1> HIDE DEF o
<1>2. /\ Dist(i, o) \in Nat /\ Dist(i, o) < LastId /\ Dist(i, h) \in Nat /\ Dist(i, h) < LastId
      /\ Dist(i, q) \in Nat /\ Dist(i, q) < LastId /\ Dist(i, j) \in Nat /\ Dist(i, j) < LastId
      /\ LastId \in Nat
    BY <1>1, DistType, Constants
<1>3. /\ Dist(o, h) = IF Dist(i, h) >= Dist(i, o) THEN Dist(i, h) - Dist(i, o)
                      ELSE LastId - (Dist(i, o) - Dist(i, h))
      /\ Dist(o, q) = IF Dist(i, q) >= Dist(i, o) THEN Dist(i, q) - Dist(i, o)
                      ELSE LastId - (Dist(i, o) - Dist(i, q))
      /\ Dist(o, j) = IF Dist(i, j) >= Dist(i, o) THEN Dist(i, j) - Dist(i, o)
                      ELSE LastId - (Dist(i, o) - Dist(i, j))
    BY <1>1, <1>2, DistFrom
<1>4. Dist(o, h) < Dist(o, j)
    BY DEF Passes, o
<1>5. Dist(o, q) < Dist(o, j)
    BY <1>2, <1>3, <1>4
<1>6. QED BY <1>5 DEF Passes, o

\* After n steps: where the hole is and what of the records is in order again.
\* No probe passes the anchor e, so that the hole does not get beyond it.
ScanInv(at, i, e, s, n) ==
    /\ s \in Scans /\ \A k \in Keys : s.at[k] # NULL <=> at[k] # NULL
    /\ Apart(s.at) /\ Anchor(s.at, e)
    /\ ~Taken(s.at, s.hole) /\ Dist(i, s.hole) <= n /\ Dist(i, s.hole) <= Dist(i, e)
    /\ s.over => Probed(s.at, {})
    /\ ~s.over =>
        /\ Probed(s.at, {s.hole})
        /\ \A j \in Ids : Dist(i, j) <= n /\ j # s.hole => Taken(s.at, j)
        /\ \A k \in Keys : Dist(i, s.hole) < Dist(i, s.at[k]) /\ Dist(i, s.at[k]) <= n
                           /\ s.at[k] # NULL => ~Passes(k, s.hole, s.at[k])

\* A hole that no later record has on its path is on no path at all.
LEMMA HoleFree ==
    ASSUME NEW p \in Placements, NEW i \in Ids, NEW e \in Ids, NEW h \in Ids,
           ~Taken(p, h), Probed(p, {h}), Anchor(p, e), Dist(i, h) <= Dist(i, e),
           \A k \in Keys : p[k] # NULL /\ Dist(i, h) < Dist(i, p[k]) => ~Passes(k, h, p[k])
    PROVE  Probed(p, {})
<1> SUFFICES ASSUME NEW k \in Keys, p[k] # NULL, Passes(k, h, p[k]) PROVE FALSE
    BY DEF Probed
<1>1. p[k] \in Ids /\ p[k] # h
    BY DEF Placements, IdsOrNull, Taken
<1>2. Dist(i, p[k]) # Dist(i, h) /\ Dist(i, p[k]) \in Nat /\ Dist(i, h) \in Nat
      /\ Dist(i, e) \in Nat
    BY <1>1, DistSame, DistType
<1>3. CASE Dist(i, h) < Dist(i, p[k])
    BY <1>3
<1>4. CASE Dist(i, p[k]) < Dist(i, h)
    <2>1. Passes(k, e, p[k])
        BY <1>1, <1>4, Between
    <2>2. QED BY <2>1 DEF Anchor
<1>5. QED BY <1>2, <1>3, <1>4

\* One id of the scan: its record moves into the hole or stays where a probe finds it.
LEMMA ScanStep ==
    ASSUME NEW at, NEW i \in Ids, NEW e \in Ids, NEW s, NEW n \in 1 .. LastId - 1,
           ScanInv(at, i, e, s, n - 1)
    PROVE  ScanInv(at, i, e, ShiftSingle(s, Ahead(i, n)), n)
<1> DEFINE c == Ahead(i, n)
           t == ShiftSingle(s, c)
<1>1. c \in Ids /\ Dist(i, c) = n /\ n \in Nat
    BY AheadIs
<1>2. /\ s \in Scans /\ s.at \in Placements /\ s.hole \in Ids /\ s.over \in BOOLEAN
      /\ \A k \in Keys : s.at[k] # NULL => s.at[k] \in Ids
      /\ NULL \notin Ids
    BY Constants DEF ScanInv, Scans, Placements, IdsOrNull
<1>3. /\ Dist(i, s.hole) \in Nat /\ Dist(i, e) \in Nat /\ Dist(i, s.hole) <= n - 1
      /\ Dist(i, s.hole) <= Dist(i, e)
    BY <1>2, DistType DEF ScanInv
<1>4. c # s.hole
    BY <1>1, <1>3
<1> HIDE DEF c
<1>5. CASE s.over
    <2>1. t = [s EXCEPT !.over = TRUE]
        BY <1>5 DEF ShiftSingle
    <2>2. t \in Scans /\ t.at = s.at /\ t.hole = s.hole /\ t.over = TRUE
        BY <1>2, <2>1 DEF Scans
    <2> HIDE DEF t
    <2>3. ScanInv(at, i, e, t, n)
        BY <1>1, <1>3, <1>5, <2>2 DEF ScanInv
    <2>4. QED BY <2>3 DEF t, c
<1>6. CASE ~s.over /\ ~Taken(s.at, c)
    <2>1. t = [s EXCEPT !.over = TRUE]
        BY <1>6 DEF ShiftSingle, Taken
    <2>2. t \in Scans /\ t.at = s.at /\ t.hole = s.hole /\ t.over = TRUE
        BY <1>2, <2>1 DEF Scans
    <2>3. ASSUME NEW k \in Keys, s.at[k] # NULL, Dist(i, s.hole) < Dist(i, s.at[k])
          PROVE  ~Passes(k, s.hole, s.at[k])
        <3>1. SUFFICES ASSUME Passes(k, s.hole, s.at[k]) PROVE FALSE
            OBVIOUS
        <3>2. s.at[k] \in Ids /\ s.at[k] # c /\ Dist(i, s.at[k]) \in Nat
            BY <1>2, <1>6, <2>3, DistType DEF Taken
        <3>3. Dist(i, s.at[k]) # n
            BY <1>1, <3>2, DistSame
        <3>4. ~(Dist(i, s.at[k]) <= n - 1)
            BY <1>6, <2>3, <3>1 DEF ScanInv
        <3>5. Passes(k, c, s.at[k])
            <4>1. Dist(i, s.hole) <= Dist(i, c) /\ Dist(i, c) < Dist(i, s.at[k])
                BY <1>1, <1>3, <3>2, <3>3, <3>4
            <4>2. QED BY <1>1, <1>2, <3>1, <3>2, <4>1, Between
        <3>6. Probed(s.at, {s.hole})
            BY <1>6 DEF ScanInv
        <3>7. QED BY <1>1, <1>4, <1>6, <2>3, <3>5, <3>6 DEF Probed
    <2>4. Probed(s.at, {})
        <3>1. Probed(s.at, {s.hole}) /\ ~Taken(s.at, s.hole) /\ Anchor(s.at, e)
            BY <1>6 DEF ScanInv
        <3>2. QED BY <1>2, <1>3, <2>3, <3>1, HoleFree
    <2> HIDE DEF t
    <2>5. ScanInv(at, i, e, t, n)
        BY <1>1, <1>3, <2>2, <2>4 DEF ScanInv
    <2>6. QED BY <2>5 DEF t, c
<1>7. CASE ~s.over /\ Taken(s.at, c)
    <2> DEFINE y == CHOOSE x \in Keys : s.at[x] = c
    <2>1. y \in Keys /\ s.at[y] = c /\ \A k \in Keys : s.at[k] = c => k = y
        BY <1>1, <1>2, <1>7 DEF Taken, ScanInv, Apart
    <2>2. t = IF Dist(Hash[y], s.hole) < Dist(Hash[y], c)
              THEN [at |-> [s.at EXCEPT ![y] = s.hole], hole |-> c, over |-> FALSE]
              ELSE s
        BY <1>7 DEF ShiftSingle, Taken
    <2> HIDE DEF y
    <2>3. CASE Passes(y, s.hole, c)
        <3> DEFINE p == [s.at EXCEPT ![y] = s.hole]
        <3>1. t = [at |-> p, hole |-> c, over |-> FALSE]
            BY <2>2, <2>3 DEF Passes
        <3>2. /\ p \in [Keys -> IdsOrNull] /\ p[y] = s.hole
              /\ \A k \in Keys : k # y => p[k] = s.at[k]
            BY <1>2, <2>1 DEF Placements, IdsOrNull
        <3>3. t \in Scans /\ t.at = p /\ t.hole = c /\ t.over = FALSE
            BY <1>1, <3>1, <3>2 DEF Scans
        <3> HIDE DEF p, t
        <3>4. \A k \in Keys : p[k] # NULL <=> at[k] # NULL
            BY <1>1, <1>2, <2>1, <3>2 DEF ScanInv
        <3>5. /\ Apart(s.at) /\ Anchor(s.at, e) /\ ~Taken(s.at, s.hole)
              /\ Probed(s.at, {s.hole})
              /\ \A j \in Ids : Dist(i, j) <= n - 1 /\ j # s.hole => Taken(s.at, j)
            BY <1>7 DEF ScanInv
        <3>6. Apart(p)
            BY <1>2, <3>2, <3>5 DEF Apart, Taken
        <3>7. ~Taken(p, c)
            BY <1>4, <2>1, <3>2 DEF Taken
        <3>8. ASSUME NEW q \in Ids, Passes(y, q, s.hole) PROVE Passes(y, q, c)
            <4>1. Hash[y] \in Ids
                BY <2>1, Constants
            <4>2. QED BY <1>1, <1>2, <2>3, <3>8, <4>1, DistType DEF Passes
        <3>9. Anchor(p, e)
            <4>1. ASSUME NEW k \in Keys, p[k] # NULL PROVE ~Passes(k, e, p[k])
                BY <1>1, <1>2, <2>1, <3>2, <3>5, <3>8, <4>1 DEF Anchor
            <4>2. QED BY <4>1 DEF Anchor
        <3>10. n <= Dist(i, e)
            <4>1. SUFFICES ASSUME Dist(i, e) < n PROVE FALSE
                BY <1>1, <1>3
            <4>2. Passes(y, e, c)
                BY <1>1, <1>2, <1>3, <2>1, <2>3, <4>1, Between
            <4>3. QED BY <1>1, <1>2, <2>1, <3>5, <4>2 DEF Anchor
        <3>11. ASSUME NEW j \in Ids, Taken(s.at, j), j # c PROVE Taken(p, j)
            BY <2>1, <3>2, <3>11 DEF Taken
        <3>12. Probed(p, {c})
            <4>1. ASSUME NEW k \in Keys, NEW q \in Ids, p[k] # NULL, Passes(k, q, p[k])
                  PROVE  Taken(p, q) \/ q = c
                <5>1. Passes(k, q, s.at[k]) /\ s.at[k] # NULL
                    <6>1. CASE k = y
                        BY <1>1, <1>2, <2>1, <3>2, <3>8, <4>1, <6>1
                    <6>2. CASE k # y
                        BY <3>2, <4>1, <6>2
                    <6>3. QED BY <6>1, <6>2
                <5>2. Taken(s.at, q) \/ q = s.hole
                    BY <3>5, <5>1 DEF Probed
                <5>3. Taken(p, s.hole)
                    BY <2>1, <3>2 DEF Taken
                <5>4. QED BY <3>11, <5>2, <5>3
            <4>2. QED BY <4>1 DEF Probed
        <3>13. ASSUME NEW j \in Ids, Dist(i, j) <= n, j # c PROVE Taken(p, j)
            <4>1. CASE j = s.hole
                BY <2>1, <3>2, <4>1 DEF Taken
            <4>2. CASE j # s.hole
                <5>1. Dist(i, j) # n /\ Dist(i, j) \in Nat
                    BY <1>1, <3>13, DistSame, DistType
                <5>2. Dist(i, j) <= n - 1
                    BY <1>1, <3>13, <5>1
                <5>3. QED BY <3>5, <3>11, <3>13, <4>2, <5>2
            <4>3. QED BY <4>1, <4>2
        <3>14. ScanInv(at, i, e, t, n)
            <4>1. n <= n /\ Dist(i, t.hole) = n /\ Dist(i, t.hole) <= n
                  /\ Dist(i, t.hole) <= Dist(i, e)
                BY <1>1, <3>3, <3>10
            <4>2. \A k \in Keys : ~(p[k] # NULL /\ n < Dist(i, p[k]) /\ Dist(i, p[k]) <= n)
                BY <1>1, <3>2, DistType DEF IdsOrNull
            <4>3. QED BY <1>1, <3>3, <3>4, <3>6, <3>7, <3>9, <3>12, <3>13, <4>1, <4>2 DEF ScanInv
        <3>15. QED BY <3>14 DEF t, c
    <2>4. CASE ~Passes(y, s.hole, c)
        <3>1. t = s
            BY <2>2, <2>4 DEF Passes
        <3>2. ASSUME NEW j \in Ids, Dist(i, j) <= n, j # s.hole PROVE Taken(s.at, j)
            <4>1. CASE j = c
                BY <1>7, <4>1
            <4>2. CASE j # c
                <5>1. Dist(i, j) # n /\ Dist(i, j) \in Nat
                    BY <1>1, <4>2, DistSame, DistType
                <5>2. Dist(i, j) <= n - 1
                    BY <1>1, <3>2, <5>1
                <5>3. QED BY <1>7, <3>2, <5>2 DEF ScanInv
            <4>3. QED BY <4>1, <4>2
        <3>3. ASSUME NEW k \in Keys, s.at[k] # NULL, Dist(i, s.hole) < Dist(i, s.at[k]),
                     Dist(i, s.at[k]) <= n
              PROVE  ~Passes(k, s.hole, s.at[k])
            <4>1. s.at[k] \in Ids /\ Dist(i, s.at[k]) \in Nat
                BY <1>2, <3>3, DistType
            <4>2. CASE s.at[k] = c
                BY <2>1, <2>4, <4>2
            <4>3. CASE s.at[k] # c
                <5>1. Dist(i, s.at[k]) # n
                    BY <1>1, <4>1, <4>3, DistSame
                <5>2. Dist(i, s.at[k]) <= n - 1
                    BY <1>1, <3>3, <4>1, <5>1
                <5>3. QED BY <1>7, <3>3, <5>2 DEF ScanInv
            <4>4. QED BY <4>2, <4>3
        <3>4. Dist(i, s.hole) <= n
            BY <1>1, <1>3
        <3>5. ScanInv(at, i, e, s, n)
            BY <1>7, <3>2, <3>3, <3>4 DEF ScanInv
        <3>6. QED BY <3>1, <3>5 DEF c
    <2>5. QED BY <2>3, <2>4
<1>8. QED BY <1>2, <1>5, <1>6, <1>7

\* The scan keeps the records, each where a probe for it comes to.
LEMMA ShiftFacts ==
    ASSUME NEW at \in Placements, NEW i \in Ids, NEW e \in Ids,
           Apart(at), ~Taken(at, i), Probed(at, {i}), Anchor(at, e)
    PROVE  /\ Orderly(Shift(at, i))
           /\ \A k \in Keys : Shift(at, i)[k] # NULL <=> at[k] # NULL
<1>1. PICK f : /\ f = [n \in 0 .. LastId - 1 |-> Scanned(at, i, f, n)]
               /\ Shift(at, i) = f[LastId - 1].at
    BY ScanRuns
<1>2. \A n \in 0 .. LastId - 1 : f[n] = Scanned(at, i, f, n)
    BY <1>1
<1> DEFINE Bad == {n \in 0 .. LastId - 1 : ~ScanInv(at, i, e, f[n], n)}
<1>3. ASSUME Bad # {} PROVE FALSE
    <2>1. PICK n \in Bad : \A m \in Bad : n <= m
        <3>1. Bad \subseteq Nat
            BY Constants
        <3> HIDE DEF Bad
        <3> QED BY <1>3, <3>1, LeastExists
    <2>2. n \in 0 .. LastId - 1 /\ ~ScanInv(at, i, e, f[n], n)
        OBVIOUS
    <2>3. n # 0
        <3>1. SUFFICES ASSUME n = 0 PROVE FALSE
            OBVIOUS
        <3>2. f[n] = [at |-> at, hole |-> i, over |-> FALSE]
            BY <1>2, <2>2, <3>1 DEF Scanned
        <3>3. f[n] \in Scans /\ f[n].at = at /\ f[n].hole = i /\ ~f[n].over
            BY <3>2 DEF Scans, Placements
        <3>4. Dist(i, i) = 0 /\ Dist(i, e) \in Nat
            BY DistType
        <3>5. \A j \in Ids : Dist(i, j) <= 0 => j = i
            BY DistType
        <3>6. \A k \in Keys : ~(at[k] # NULL /\ 0 < Dist(i, at[k]) /\ Dist(i, at[k]) <= 0)
            BY DistType DEF Placements, IdsOrNull
        <3>7. ScanInv(at, i, e, f[n], 0)
            BY <3>3, <3>4, <3>5, <3>6 DEF ScanInv
        <3>8. QED BY <2>2, <3>1, <3>7
    <2>4. n \in 1 .. LastId - 1 /\ n - 1 \in 0 .. LastId - 1 /\ n - 1 \notin Bad
        BY <2>1, <2>2, <2>3, Constants
    <2>5. ScanInv(at, i, e, f[n - 1], n - 1)
        BY <2>4
    <2>6. f[n] = ShiftSingle(f[n - 1], Ahead(i, n))
        <3>1. f[n] = Single[f[n - 1]][Ahead(i, n)]
            BY <1>2, <2>2, <2>3 DEF Scanned
        <3>2. f[n - 1] \in Scans /\ Ahead(i, n) \in Ids
            BY <2>4, <2>5, AheadIs DEF ScanInv
        <3>3. QED BY <3>1, <3>2 DEF Single
    <2>7. ScanInv(at, i, e, f[n], n)
        BY <2>4, <2>5, <2>6, ScanStep
    <2>8. QED BY <2>2, <2>7
<1> DEFINE N == LastId - 1
           s == f[N]
<1>4. N \in Nat /\ N \in 0 .. LastId - 1
    BY Constants
<1>5. ScanInv(at, i, e, s, N)
    BY <1>3, <1>4
<1>6. s.at = Shift(at, i)
    BY <1>1
<1> HIDE DEF s
<1>7. s.at \in Placements /\ s.hole \in Ids /\ s.over \in BOOLEAN
    BY <1>5 DEF ScanInv, Scans, Placements
<1>8. Probed(s.at, {})
    <2>1. CASE s.over
        BY <1>5, <2>1 DEF ScanInv
    <2>2. CASE ~s.over
        <3>1. \A k \in Keys : s.at[k] # NULL => s.at[k] \in Ids
            BY <1>7 DEF Placements, IdsOrNull
        <3>2. \A k \in Keys : s.at[k] # NULL => Dist(i, s.at[k]) <= N
            BY <3>1, DistType, Constants
        <3>3. \A k \in Keys : s.at[k] # NULL /\ Dist(i, s.hole) < Dist(i, s.at[k])
                              => ~Passes(k, s.hole, s.at[k])
            BY <1>5, <2>2, <3>2 DEF ScanInv
        <3>4. /\ ~Taken(s.at, s.hole) /\ Probed(s.at, {s.hole}) /\ Anchor(s.at, e)
              /\ Dist(i, s.hole) <= Dist(i, e)
            BY <1>5, <2>2 DEF ScanInv
        <3>5. QED BY <1>7, <3>3, <3>4, HoleFree
    <2>3. QED BY <1>7, <2>1, <2>2
<1>9. Orderly(s.at)
    BY <1>5, <1>7, <1>8 DEF Orderly, ScanInv
<1>10. QED BY <1>5, <1>6, <1>9 DEF ScanInv

\* A probe that stops, stops at an empty id and passes none before.
LEMMA SlotIs ==
    ASSUME NEW st \in Stores, NEW k \in Keys, ~Full(st)
    PROVE  /\ Slot(st, k) \in Ids /\ ~Taken(st.at, Slot(st, k))
           /\ \A j \in Ids : Passes(k, j, Slot(st, k)) => Taken(st.at, j)
<1> DEFINE E == {i \in Ids : KeyAt(st, i) = NULL}
           D == {Dist(Hash[k], i) : i \in E}
<1>1. Hash[k] \in Ids
    BY Constants
<1>2. D \subseteq Nat /\ D # {}
    BY <1>1, DistType DEF Full
<1>3. PICK m \in D : \A n \in D : m <= n
    <2> HIDE DEF D
    <2> QED BY <1>2, LeastExists
<1>4. \E i \in Ids : /\ KeyAt(st, i) = NULL
                     /\ \A j \in Ids : KeyAt(st, j) = NULL => Dist(Hash[k], i) <= Dist(Hash[k], j)
    BY <1>3
<1>5. /\ Slot(st, k) \in Ids /\ KeyAt(st, Slot(st, k)) = NULL
      /\ \A j \in Ids : KeyAt(st, j) = NULL => Dist(Hash[k], Slot(st, k)) <= Dist(Hash[k], j)
    BY <1>4 DEF Slot
<1>6. ASSUME NEW j \in Ids, Passes(k, j, Slot(st, k)) PROVE KeyAt(st, j) # NULL
    BY <1>1, <1>5, <1>6, DistType DEF Passes
<1>7. QED BY <1>5, <1>6, KeyAtIs

\* Insertion keeps the store in order.
LEMMA InsertFacts ==
    ASSUME NEW st \in Stores, Sound(st), NEW k \in Keys
    PROVE  /\ Insert(st, k) \in Stores /\ Sound(Insert(st, k))
           /\ \A x \in Keys : x # k => Insert(st, k).at[x] = st.at[x]
           /\ Has(st, k) => Insert(st, k) = st
           /\ Has(Insert(st, k), k) <=> Has(st, k) \/ ~Full(st)
           /\ ~Has(st, k) /\ ~Full(st) => Insert(st, k).list = Append(st.list, k)
<1> DEFINE new == Insert(st, k)
<1>1. CASE Has(st, k) \/ Full(st)
    BY <1>1 DEF Insert
<1>2. CASE ~Has(st, k) /\ ~Full(st)
    <2> DEFINE i == Slot(st, k)
               p == [st.at EXCEPT ![k] = i]
    <2>1. new = [list |-> Append(st.list, k), at |-> p]
        BY <1>2 DEF Insert
    <2>2. /\ i \in Ids /\ ~Taken(st.at, i) /\ i # NULL
          /\ \A j \in Ids : Passes(k, j, i) => Taken(st.at, j)
        BY <1>2, SlotIs, Constants
    <2> HIDE DEF i
    <2>3. /\ p \in Placements /\ p[k] = i /\ \A x \in Keys : x # k => p[x] = st.at[x]
          /\ st.at[k] = NULL /\ st.at \in Placements /\ st.list \in Seq(Keys)
        BY <1>2, <2>2 DEF Stores, Placements, IdsOrNull, Has
    <2>4. new \in Stores /\ new.at = p /\ new.list = Append(st.list, k)
        BY <2>1, <2>3 DEF Stores, Placements
    <2> HIDE DEF p, new
    <2>5. Orderly(st.at) /\ IsInjective(st.list) /\ Range(st.list) = Stored(st)
        BY SoundIs DEF Listed
    <2>6. Apart(p)
        BY <2>2, <2>3, <2>5 DEF Apart, Taken, Orderly
    <2>7. \A j \in Ids : Taken(st.at, j) => Taken(p, j)
        BY <2>3, Constants DEF Taken
    <2>8. Probed(p, {})
        BY <2>2, <2>3, <2>5, <2>7 DEF Probed, Orderly
    <2>9. Anchor(p, i)
        <3>1. \A x \in Keys : x # k /\ p[x] # NULL => ~Passes(x, i, p[x])
            BY <2>2, <2>3, <2>5 DEF Orderly, Probed
        <3>2. ~Passes(k, i, i)
            BY <2>2, Constants, DistType DEF Passes
        <3>3. QED BY <2>3, <3>1, <3>2 DEF Anchor
    <2>10. Listed(new)
        <3>1. k \notin Range(st.list)
            BY <1>2, <2>5 DEF Stored
        <3>2. /\ Len(new.list) = Len(st.list) + 1 /\ new.list[Len(st.list) + 1] = k
              /\ \A n \in 1 .. Len(st.list) : new.list[n] = st.list[n]
              /\ DOMAIN new.list = 1 .. Len(st.list) + 1 /\ DOMAIN st.list = 1 .. Len(st.list)
              /\ Len(st.list) \in Nat
            BY <2>3, <2>4
        <3>3. IsInjective(new.list)
            BY <2>5, <3>1, <3>2 DEF IsInjective, Range
        <3>4. Range(new.list) = Range(st.list) \cup {k}
            BY <3>2 DEF Range
        <3>5. Stored(new) = Stored(st) \cup {k}
            BY <2>2, <2>3, <2>4, Constants DEF Stored, Has
        <3>6. QED BY <2>5, <3>3, <3>4, <3>5 DEF Listed
    <2>11. Sound(new)
        BY <2>2, <2>3, <2>4, <2>6, <2>8, <2>9, <2>10, SoundIs DEF Orderly
    <2>12. QED BY <1>2, <2>2, <2>3, <2>4, <2>11 DEF new, Has
<1>3. QED BY <1>1, <1>2

\* A stored key has one place in the list.
LEMMA PlaceIs ==
    ASSUME NEW st \in Stores, Listed(st)
    PROVE  /\ \A k \in Stored(st) : /\ Place(st, k) \in 1 .. Len(st.list)
                                    /\ st.list[Place(st, k)] = k
           /\ \A p \in 1 .. Len(st.list) : /\ st.list[p] \in Stored(st)
                                           /\ Place(st, st.list[p]) = p
           /\ Len(st.list) \in Nat /\ DOMAIN st.list = 1 .. Len(st.list)
<1>1. st.list \in Seq(Keys) /\ DOMAIN st.list = 1 .. Len(st.list) /\ Len(st.list) \in Nat
    BY DEF Stores
<1>2. \A k \in Stored(st) : \E p \in 1 .. Len(st.list) : st.list[p] = k
    BY <1>1 DEF Listed, Range
<1>3. \A k \in Stored(st) : Place(st, k) \in 1 .. Len(st.list) /\ st.list[Place(st, k)] = k
    BY <1>1, <1>2 DEF Place
<1>4. \A p \in 1 .. Len(st.list) : st.list[p] \in Stored(st)
    BY <1>1 DEF Listed, Range
<1>5. \A p \in 1 .. Len(st.list) : Place(st, st.list[p]) = p
    BY <1>1, <1>3, <1>4 DEF Listed, IsInjective
<1>6. QED BY <1>1, <1>3, <1>4, <1>5

\* A new record comes behind all others.
LEMMA InsertOrder ==
    ASSUME NEW st \in Stores, Sound(st), NEW k \in Keys, NEW x \in Stored(st)
    PROVE  /\ Place(Insert(st, k), x) = Place(st, x)
           /\ ~Has(st, k) /\ Has(Insert(st, k), k) => Place(st, x) < Place(Insert(st, k), k)
<1> DEFINE new == Insert(st, k)
<1>1. CASE Has(st, k) \/ Full(st)
    <2>1. new = st
        BY <1>1 DEF Insert
    <2>2. QED BY <2>1
<1>2. CASE ~Has(st, k) /\ ~Full(st)
    <2>1. /\ new \in Stores /\ new.list = Append(st.list, k) /\ Listed(new) /\ Listed(st)
          /\ st.list \in Seq(Keys)
        BY <1>2, InsertFacts, SoundIs DEF Stores
    <2>2. /\ Len(new.list) = Len(st.list) + 1 /\ new.list[Len(st.list) + 1] = k
          /\ \A n \in 1 .. Len(st.list) : new.list[n] = st.list[n]
          /\ Len(st.list) \in Nat
        BY <2>1
    <2>3. Place(st, x) \in 1 .. Len(st.list) /\ st.list[Place(st, x)] = x
        BY <2>1, PlaceIs
    <2> HIDE DEF new
    <2>4. Place(new, x) = Place(st, x)
        BY <2>1, <2>2, <2>3, PlaceIs
    <2>5. Place(new, k) = Len(st.list) + 1
        BY <2>1, <2>2, PlaceIs
    <2>6. QED BY <2>2, <2>3, <2>4, <2>5 DEF new
<1>3. QED BY <1>1, <1>2

\* The list without the record at place p.
LEMMA WithoutPlace ==
    ASSUME NEW q \in Seq(Keys), NEW p \in 1 .. Len(q)
    PROVE  /\ RemoveAt(q, p) \in Seq(Keys) /\ Len(RemoveAt(q, p)) = Len(q) - 1
           /\ \A n \in 1 .. Len(q) - 1 :
                RemoveAt(q, p)[n] = IF n < p THEN q[n] ELSE q[n + 1]
<1> DEFINE f == SubSeq(q, 1, p - 1)
           b == SubSeq(q, p + 1, Len(q))
<1>1. Len(q) \in Nat /\ p \in Nat /\ 1 <= p /\ p <= Len(q)
    OBVIOUS
<1>2. \A n \in 1 .. Len(q) : q[n] \in Keys
    BY ElementOfSeq
<1>3. f \in Seq(Keys) /\ Len(f) = p - 1 /\ \A n \in 1 .. p - 1 : f[n] = q[n]
    <2>1. \A n \in 1 .. p - 1 : q[n] \in Keys
        BY <1>1, <1>2
    <2>2. 1 \in Int /\ p - 1 \in Int
        BY <1>1
    <2>3. /\ f \in Seq(Keys) /\ Len(f) = (IF 1 <= p - 1 THEN (p - 1) - 1 + 1 ELSE 0)
          /\ \A n \in 1 .. (p - 1) - 1 + 1 : f[n] = q[1 + n - 1]
        BY <2>1, <2>2, SubSeqProperties
    <2> HIDE DEF f
    <2>4. QED BY <1>1, <2>3
<1>4. b \in Seq(Keys) /\ Len(b) = Len(q) - p /\ \A n \in 1 .. Len(q) - p : b[n] = q[p + n]
    <2>1. \A n \in p + 1 .. Len(q) : q[n] \in Keys
        BY <1>1, <1>2
    <2>2. p + 1 \in Int /\ Len(q) \in Int
        BY <1>1
    <2>3. /\ b \in Seq(Keys)
          /\ Len(b) = (IF p + 1 <= Len(q) THEN Len(q) - (p + 1) + 1 ELSE 0)
          /\ \A n \in 1 .. Len(q) - (p + 1) + 1 : b[n] = q[(p + 1) + n - 1]
        BY <2>1, <2>2, SubSeqProperties
    <2> HIDE DEF b
    <2>4. QED BY <1>1, <2>3
<1>5. RemoveAt(q, p) = f \o b
    BY DEF RemoveAt
<1> HIDE DEF f, b
<1>6. /\ f \o b \in Seq(Keys) /\ Len(f \o b) = Len(f) + Len(b)
      /\ \A n \in 1 .. Len(f) + Len(b) :
            (f \o b)[n] = IF n <= Len(f) THEN f[n] ELSE b[n - Len(f)]
    BY <1>3, <1>4, ConcatProperties
<1>7. ASSUME NEW n \in 1 .. Len(q) - 1
      PROVE  (f \o b)[n] = IF n < p THEN q[n] ELSE q[n + 1]
    <2>1. n \in 1 .. Len(f) + Len(b)
        BY <1>1, <1>3, <1>4
    <2>2. CASE n < p
        <3>1. n <= Len(f) /\ n \in 1 .. p - 1
            BY <1>1, <1>3, <2>2
        <3>2. QED BY <1>3, <1>6, <2>1, <2>2, <3>1
    <2>3. CASE ~(n < p)
        <3>1. ~(n <= Len(f)) /\ n - Len(f) \in 1 .. Len(q) - p /\ p + (n - Len(f)) = n + 1
            BY <1>1, <1>3, <2>3
        <3>2. (f \o b)[n] = b[n - Len(f)]
            BY <1>6, <2>1, <3>1
        <3>3. b[n - Len(f)] = q[p + (n - Len(f))]
            BY <1>4, <3>1
        <3>4. QED BY <2>3, <3>1, <3>2, <3>3
    <2>4. QED BY <2>2, <2>3
<1>8. Len(f \o b) = Len(q) - 1
    BY <1>1, <1>3, <1>4, <1>6
<1>9. QED BY <1>5, <1>6, <1>7, <1>8

\* Deletion keeps the store, and what remains of the list, in order.
LEMMA DeleteFacts ==
    ASSUME NEW st \in Stores, Sound(st), NEW k \in Keys
    PROVE  /\ Delete(st, k) \in Stores /\ Sound(Delete(st, k))
           /\ \A x \in Keys : Has(Delete(st, k), x) <=> Has(st, x) /\ x # k
           /\ ~Has(st, k) => Delete(st, k) = st
           /\ \A x, y \in Stored(st) \ {k} :
                Place(Delete(st, k), x) < Place(Delete(st, k), y) <=> Place(st, x) < Place(st, y)
<1> DEFINE new == Delete(st, k)
<1>1. CASE ~Has(st, k)
    <2>1. new = st
        BY <1>1 DEF Delete
    <2>2. QED BY <1>1, <2>1 DEF Stored
<1>2. CASE Has(st, k)
    <2> DEFINE i == st.at[k]
               r == [st.at EXCEPT ![k] = NULL]
               p == Place(st, k)
    <2>1. new = [list |-> RemoveAt(st.list, p), at |-> Shift(r, i)]
        BY <1>2 DEF Delete
    <2>2. Listed(st) /\ Orderly(st.at) /\ st.at \in Placements /\ st.list \in Seq(Keys)
        BY SoundIs DEF Stores, Placements
    <2>3. i \in Ids /\ NULL \notin Ids
        BY <1>2, <2>2, Constants DEF Has, Placements, IdsOrNull
    <2>4. r \in Placements /\ r[k] = NULL /\ \A x \in Keys : x # k => r[x] = st.at[x]
        BY <2>2 DEF Placements, IdsOrNull
    <2> HIDE DEF r
    <2>5. PICK e \in Ids : Anchor(st.at, e)
        BY <2>2 DEF Orderly
    <2>6. Apart(r) /\ ~Taken(r, i) /\ Anchor(r, e)
        BY <2>2, <2>3, <2>4, <2>5 DEF Apart, Taken, Anchor, Orderly
    <2>7. Probed(r, {i})
        <3>1. ASSUME NEW x \in Keys, NEW j \in Ids, r[x] # NULL, Passes(x, j, r[x])
              PROVE  Taken(r, j) \/ j \in {i}
            <4>1. Taken(st.at, j)
                BY <2>2, <2>4, <3>1 DEF Probed, Orderly
            <4>2. QED BY <2>4, <4>1 DEF Taken
        <3>2. QED BY <3>1 DEF Probed
    <2>8. /\ Orderly(Shift(r, i))
          /\ \A x \in Keys : Shift(r, i)[x] # NULL <=> r[x] # NULL
        BY <2>3, <2>4, <2>5, <2>6, <2>7, ShiftFacts
    <2>9. k \in Stored(st) /\ p \in 1 .. Len(st.list) /\ st.list[p] = k
        BY <1>2, <2>2, PlaceIs DEF Stored
    <2> HIDE DEF i, p
    <2>10. /\ RemoveAt(st.list, p) \in Seq(Keys)
           /\ Len(RemoveAt(st.list, p)) = Len(st.list) - 1
           /\ \A n \in 1 .. Len(st.list) - 1 :
                RemoveAt(st.list, p)[n] = IF n < p THEN st.list[n] ELSE st.list[n + 1]
        BY <2>2, <2>9, WithoutPlace
    <2>11. new \in Stores /\ new.at = Shift(r, i) /\ new.list = RemoveAt(st.list, p)
        BY <2>1, <2>8, <2>10 DEF Stores, Orderly, Placements
    <2> HIDE DEF new
    <2>12. \A x \in Keys : Has(new, x) <=> Has(st, x) /\ x # k
        BY <2>4, <2>8, <2>11 DEF Has
    <2>13. Stored(new) = Stored(st) \ {k}
        BY <2>12 DEF Stored
    <2>14. /\ Len(st.list) \in Nat /\ DOMAIN new.list = 1 .. Len(st.list) - 1
           /\ \A n \in 1 .. Len(st.list) - 1 :
                new.list[n] = IF n < p THEN st.list[n] ELSE st.list[n + 1]
           /\ p \in Nat /\ 1 <= p /\ p <= Len(st.list)
        <3>1. p \in Nat /\ 1 <= p /\ p <= Len(st.list) /\ Len(st.list) \in Nat
            BY <2>2, <2>9
        <3> DEFINE rest == RemoveAt(st.list, p)
        <3> HIDE DEF rest
        <3>2. new.list \in Seq(Keys) /\ Len(new.list) = Len(st.list) - 1
            BY <2>10, <2>11
        <3>3. DOMAIN new.list = 1 .. Len(st.list) - 1
            BY <3>2
        <3>4. QED BY <2>10, <2>11, <3>1, <3>3
    \* Where a record that remains stands.
    <2>15. ASSUME NEW x \in Stored(st) \ {k}
           PROVE  \E n \in 1 .. Len(st.list) - 1 :
                    /\ new.list[n] = x
                    /\ n = IF Place(st, x) < p THEN Place(st, x) ELSE Place(st, x) - 1
                    /\ Place(st, x) # p
        <3> DEFINE m == Place(st, x)
        <3>1. m \in 1 .. Len(st.list) /\ st.list[m] = x /\ m # p
            BY <2>2, <2>9, PlaceIs
        <3> HIDE DEF m
        <3>2. CASE m < p
            <4>1. m \in 1 .. Len(st.list) - 1 /\ new.list[m] = x
                BY <2>14, <3>1, <3>2
            <4>2. QED BY <3>1, <3>2, <4>1 DEF m
        <3>3. CASE ~(m < p)
            <4>1. m - 1 \in 1 .. Len(st.list) - 1 /\ ~(m - 1 < p) /\ (m - 1) + 1 = m
                BY <2>14, <3>1, <3>3
            <4>2. new.list[m - 1] = x
                BY <2>14, <3>1, <4>1
            <4>3. QED BY <3>1, <3>3, <4>1, <4>2 DEF m
        <3>4. QED BY <3>2, <3>3
    <2>16. Listed(new)
        <3>1. IsInjective(new.list)
            <4>1. ASSUME NEW a \in 1 .. Len(st.list) - 1, NEW b \in 1 .. Len(st.list) - 1,
                         new.list[a] = new.list[b]
                  PROVE  a = b
                <5> DEFINE u == IF a < p THEN a ELSE a + 1
                           v == IF b < p THEN b ELSE b + 1
                <5>1. new.list[a] = st.list[u] /\ new.list[b] = st.list[v]
                    BY <2>14
                <5>2. u \in 1 .. Len(st.list) /\ v \in 1 .. Len(st.list)
                    BY <2>14
                <5>3. u = v
                    BY <2>2, <4>1, <5>1, <5>2, PlaceIs
                <5>4. QED BY <2>14, <5>3
            <4>2. QED BY <2>14, <4>1 DEF IsInjective
        <3>2. Stored(new) \subseteq Range(new.list)
            BY <2>13, <2>14, <2>15 DEF Range
        <3>3. Range(new.list) \subseteq Stored(new)
            <4>1. ASSUME NEW n \in 1 .. Len(st.list) - 1 PROVE new.list[n] \in Stored(st) \ {k}
                <5> DEFINE u == IF n < p THEN n ELSE n + 1
                <5>1. new.list[n] = st.list[u] /\ u \in 1 .. Len(st.list) /\ u # p
                    BY <2>14
                <5>2. QED BY <2>2, <2>9, <5>1, PlaceIs
            <4>2. QED BY <2>13, <2>14, <4>1 DEF Range
        <3>4. QED BY <3>1, <3>2, <3>3 DEF Listed
    <2>17. Sound(new)
        BY <2>8, <2>11, <2>16, SoundIs
    <2>18. ASSUME NEW x \in Stored(st) \ {k}
           PROVE  /\ Place(new, x) = IF Place(st, x) < p THEN Place(st, x) ELSE Place(st, x) - 1
                  /\ Place(st, x) \in Nat /\ Place(st, x) # p
        <3>1. PICK n \in 1 .. Len(st.list) - 1 :
                    /\ new.list[n] = x
                    /\ n = IF Place(st, x) < p THEN Place(st, x) ELSE Place(st, x) - 1
                    /\ Place(st, x) # p
            BY <2>15
        <3>2. Place(new, x) = n
            BY <2>11, <2>14, <2>16, <3>1, PlaceIs
        <3>3. Place(st, x) \in Nat
            BY <2>2, PlaceIs
        <3>4. QED BY <3>1, <3>2, <3>3
    <2>19. ASSUME NEW x \in Stored(st) \ {k}, NEW y \in Stored(st) \ {k}
           PROVE  Place(new, x) < Place(new, y) <=> Place(st, x) < Place(st, y)
        BY <2>14, <2>18
    <2>20. QED BY <1>2, <2>11, <2>12, <2>17, <2>19 DEF new
<1>3. QED BY <1>1, <1>2

-----------------------------------------------------------------------------
(* What the iterator does. *)

\* What the iterator stands on is a record of the list.
LEMMA RecordAt ==
    ASSUME NEW st \in Stores, Sound(st), NEW k \in Stored(st)
    PROVE  k \in Keys /\ st.at[k] \in Ids /\ st.at[k] # NULL /\ KeyAt(st, st.at[k]) = k
<1>1. k \in Keys /\ st.at[k] \in Ids /\ st.at[k] # NULL
    BY Constants DEF Stored, Has, Stores, IdsOrNull
<1>2. QED BY <1>1, KeyAtIs, SoundIs DEF Orderly

\* The record an iterator stands on, if it is not lost.
LEMMA StandsOn ==
    ASSUME NEW st \in Stores, NEW i \in IdsOrNull, KeyAt(st, i) # NULL
    PROVE  i \in Ids /\ KeyAt(st, i) \in Stored(st) /\ st.at[KeyAt(st, i)] = i
<1>1. i # NULL
    BY DEF KeyAt, Stored, Has
<1>2. i \in Ids
    BY <1>1 DEF IdsOrNull
<1>3. QED BY <1>2, KeyAtIs DEF Stored

\* The record behind the one at an id.
LEMMA BehindIs ==
    ASSUME NEW st \in Stores, NEW i
    PROVE  /\ Behind(st, i) \subseteq 1 .. Len(st.list) /\ Behind(st, i) \subseteq Nat
           /\ Behind(st, i) # {} =>
                /\ Min(Behind(st, i)) \in Behind(st, i)
                /\ \A p \in Behind(st, i) : Min(Behind(st, i)) <= p
<1>1. Behind(st, i) \subseteq 1 .. Len(st.list) /\ Len(st.list) \in Nat
    BY DEF Behind, Stores
<1>2. Behind(st, i) \subseteq Nat
    BY <1>1
<1> DEFINE S == Behind(st, i)
<1>3. ASSUME S # {} PROVE Min(S) \in S /\ \A p \in S : Min(S) <= p
    <2> HIDE DEF S
    <2>1. \E n \in S : \A m \in S : n <= m
        BY <1>2, <1>3, LeastExists DEF S
    <2>2. QED BY <2>1 DEF Min
<1>4. QED BY <1>1, <1>2, <1>3

\* The next record is the first of the namespace behind.
LEMMA AdvanceFacts ==
    ASSUME NEW st \in Stores, Sound(st), NEW i \in IdsOrNull
    PROVE  /\ Advance(st, i) \in IdsOrNull
           /\ Advance(st, i) # NULL => KeyAt(st, Advance(st, i)) \in Stored(st) \cap Mine
           /\ ~Lost(st, i) =>
                \A k \in Stored(st) \cap Mine :
                    /\ \/ Advance(st, i) = NULL
                       \/ Place(st, k) < Place(st, KeyAt(st, Advance(st, i)))
                    => i # NULL /\ Place(st, k) <= Place(st, KeyAt(st, i))
<1> DEFINE B == Behind(st, i)
           m == Min(B)
           y == st.list[m]
<1>1. Listed(st)
    BY SoundIs
<1>2. ASSUME NEW k \in Stored(st) \cap Mine, i # NULL => Place(st, KeyAt(st, i)) < Place(st, k)
      PROVE  Place(st, k) \in B
    <2>1. /\ Place(st, k) \in DOMAIN st.list /\ st.list[Place(st, k)] = k
        BY <1>1, PlaceIs
    <2>2. QED BY <1>2, <2>1 DEF Behind
<1>3. CASE Lost(st, i)
    BY <1>3 DEF Advance, IdsOrNull
<1>4. CASE ~Lost(st, i)
    <2>1. \A k \in Stored(st) : Place(st, k) \in Nat
        BY <1>1, PlaceIs
    <2>2. i # NULL => KeyAt(st, i) \in Stored(st)
        BY <1>4, StandsOn DEF Lost
    <2>3. CASE B = {}
        <3>1. Advance(st, i) = NULL
            BY <2>3 DEF Advance
        <3>2. ASSUME NEW k \in Stored(st) \cap Mine
              PROVE  i # NULL /\ Place(st, k) <= Place(st, KeyAt(st, i))
            BY <1>2, <2>1, <2>2, <2>3
        <3>3. QED BY <3>1, <3>2 DEF IdsOrNull
    <2>4. CASE B # {}
        <3>1. m \in B /\ \A p \in B : m <= p
            BY <2>4, BehindIs
        <3>2. m \in 1 .. Len(st.list) /\ y \in Mine
            BY <3>1, BehindIs DEF Behind
        <3>3. y \in Stored(st) /\ Place(st, y) = m
            BY <1>1, <3>2, PlaceIs
        <3>4. Advance(st, i) = st.at[y]
            BY <1>4, <2>4 DEF Advance
        <3> HIDE DEF B, m, y
        <3>5. st.at[y] \in Ids /\ st.at[y] # NULL /\ KeyAt(st, st.at[y]) = y
            BY <3>3, RecordAt
        <3>6. ASSUME NEW k \in Stored(st) \cap Mine, Place(st, k) < Place(st, y)
              PROVE  i # NULL /\ Place(st, k) <= Place(st, KeyAt(st, i))
            <4>1. Place(st, k) \notin B
                BY <2>1, <3>1, <3>3, <3>6
            <4>2. QED BY <1>2, <2>1, <2>2, <4>1
        <3>7. QED BY <3>2, <3>3, <3>4, <3>5, <3>6 DEF IdsOrNull
    <2>5. QED BY <2>3, <2>4
<1>5. QED BY <1>3, <1>4

\* Deletion under an iterator leaves it behind no record that was not passed.
LEMMA IteratorDeleteFacts ==
    ASSUME NEW st \in Stores, Sound(st), NEW i \in IdsOrNull
    PROVE  LET d == IteratorDelete(st, i)
           IN  /\ d.cur \in IdsOrNull
               /\ KeyAt(st, i) = NULL => d.kv = st
               /\ KeyAt(st, i) # NULL =>
                    /\ d.kv = Delete(st, KeyAt(st, i))
                    /\ d.cur # NULL =>
                         /\ KeyAt(d.kv, d.cur) # NULL
                         /\ \A k \in Stored(d.kv) \cap Mine :
                              Place(d.kv, k) <= Place(d.kv, KeyAt(d.kv, d.cur))
                                => Place(st, k) < Place(st, KeyAt(st, i))
<1> DEFINE d == IteratorDelete(st, i)
           x == KeyAt(st, i)
           B == Behind(st, i)
           left == Delete(st, x)
           y == st.list[Min(B)]
<1>1. Listed(st)
    BY SoundIs
<1>2. CASE x = NULL
    <2>1. d = [kv |-> st, cur |-> i]
        BY <1>2 DEF IteratorDelete, Lost
    <2>2. QED BY <1>2, <2>1
<1>3. CASE x # NULL
    <2>1. i \in Ids /\ x \in Stored(st) /\ i # NULL /\ x \in Keys
        BY <1>3, StandsOn, Constants DEF Stored
    <2>2. d = [kv |-> left, cur |-> IF B = {} THEN NULL ELSE PrevOf(left, y)]
        BY <1>3, <2>1 DEF IteratorDelete, Lost
    <2>3. /\ left \in Stores /\ Sound(left) /\ Stored(left) = Stored(st) \ {x}
          /\ \A a, b \in Stored(st) \ {x} :
                Place(left, a) < Place(left, b) <=> Place(st, a) < Place(st, b)
        <3>1. \A a \in Keys : Has(left, a) <=> Has(st, a) /\ a # x
            BY <2>1, DeleteFacts
        <3>2. Stored(left) = Stored(st) \ {x}
            BY <3>1 DEF Stored
        <3>3. QED BY <2>1, <3>2, DeleteFacts
    <2>4. CASE B = {}
        <3>1. d.kv = left /\ d.cur = NULL
            BY <2>2, <2>4
        <3>2. QED BY <1>3, <3>1 DEF IdsOrNull
    <2>5. CASE B # {}
        <3>1. Min(B) \in B /\ \A p \in B : Min(B) <= p
            BY <2>5, BehindIs
        <3>2. Min(B) \in 1 .. Len(st.list) /\ y \in Mine /\ Place(st, x) < Min(B)
            BY <2>1, <3>1, BehindIs DEF Behind
        <3>3. y \in Stored(st) /\ Place(st, y) = Min(B)
            BY <1>1, <3>2, PlaceIs
        <3>4. \A a \in Stored(st) : Place(st, a) \in Nat
            BY <1>1, PlaceIs
        <3>5. y # x /\ y \in Stored(left)
            BY <2>1, <2>3, <3>2, <3>3, <3>4
        <3>6. ASSUME NEW k \in Stored(left) \cap Mine, Place(left, k) < Place(left, y)
              PROVE  Place(st, k) < Place(st, x)
            <4>1. k \in Stored(st) /\ k # x /\ Place(st, k) < Place(st, y)
                BY <2>3, <3>3, <3>5, <3>6
            <4>2. Place(st, k) \in DOMAIN st.list /\ st.list[Place(st, k)] = k
                BY <1>1, <4>1, PlaceIs
            <4>3. Place(st, k) \notin B
                BY <3>1, <3>3, <3>4, <4>1
            <4>4. ~(Place(st, x) < Place(st, k))
                BY <3>6, <4>2, <4>3, <2>1 DEF Behind
            <4>5. Place(st, k) # Place(st, x)
                BY <1>1, <2>1, <4>1, PlaceIs
            <4>6. QED BY <2>1, <3>4, <4>1, <4>4, <4>5
        <3> HIDE DEF left, y, B, x
        <3>7. Listed(left) /\ \A a \in Stored(left) : Place(left, a) \in 1 .. Len(left.list)
            BY <2>3, SoundIs, PlaceIs
        <3>8. CASE Place(left, y) = 1
            <4>1. d.kv = left /\ d.cur = NULL
                BY <2>2, <2>5, <3>8 DEF PrevOf
            <4>2. QED BY <1>3, <4>1 DEF IdsOrNull, left, x
        <3>9. CASE Place(left, y) # 1
            <4> DEFINE q == Place(left, y) - 1
                       z == left.list[q]
            <4>1. q \in 1 .. Len(left.list) /\ Place(left, y) = q + 1 /\ q \in Nat
                BY <2>3, <3>5, <3>7, <3>9 DEF Stores
            <4>2. z \in Stored(left) /\ Place(left, z) = q
                BY <2>3, <3>7, <4>1, PlaceIs
            <4>3. d.kv = left /\ d.cur = left.at[z]
                BY <2>2, <2>5, <3>9 DEF PrevOf
            <4> HIDE DEF z, q, d
            <4>4. left.at[z] \in Ids /\ KeyAt(left, left.at[z]) = z /\ z # NULL
                BY <2>3, <4>2, RecordAt, Constants
            <4>5. \A k \in Stored(left) \cap Mine :
                    Place(left, k) <= Place(left, z) => Place(left, k) < Place(left, y)
                BY <3>7, <4>1, <4>2
            <4>6. QED BY <1>3, <3>6, <4>3, <4>4, <4>5 DEF IdsOrNull, left, x, d
        <3>10. QED BY <3>8, <3>9
    <2>6. QED BY <2>4, <2>5
<1>4. QED BY <1>2, <1>3

-----------------------------------------------------------------------------
(* What Astarte sends to a device that asks for all. *)

\* SetToSeq lists each element of a finite set once.
LEMMA SetToSeqIs ==
    ASSUME NEW S, IsFiniteSet(S)
    PROVE  /\ SetToSeq(S) \in Seq(S) /\ IsInjective(SetToSeq(S))
           /\ \A x \in S : \E n \in DOMAIN SetToSeq(S) : SetToSeq(S)[n] = x
<1> DEFINE n == Cardinality(S)
           F == [1 .. n -> S]
<1>1. n \in Nat /\ ExistsBijection(1 .. n, S)
    BY FS_CardinalityType
<1>2. \E f \in F : IsInjective(f)
    BY <1>1 DEF ExistsBijection, Bijection, Injection
<1>3. SetToSeq(S) \in F /\ IsInjective(SetToSeq(S))
    BY <1>2 DEF SetToSeq
<1> DEFINE s == SetToSeq(S)
<1> HIDE DEF n, s
<1>4. s \in Injection(1 .. n, S)
    BY <1>3 DEF Injection, s
<1>5. IsFiniteSet(1 .. n) /\ Cardinality(1 .. n) = n
    BY <1>1, FS_Interval
<1>6. s \in Surjection(1 .. n, S)
    BY <1>4, <1>5, FS_Injection DEF n
<1>7. s \in [1 .. n -> S] /\ DOMAIN s = 1 .. n
    BY <1>3 DEF s
<1>8. \A x \in S : \E m \in DOMAIN s : s[m] = x
    BY <1>6, <1>7 DEF Surjection
<1>9. s \in Seq(S)
    BY <1>1, <1>7
<1>10. QED BY <1>3, <1>8, <1>9 DEF s

\* The set messages in it, one per property that has a value.
Given == {k \in ServerOwned : Known(k) /\ cloud[k] # NULL}
SetOf(k) == [type |-> "set", key |-> k, value |-> cloud[k]]

\* Each property that the server gave a value is sent in a message of its own.
LEMMA GivenSent ==
    /\ IsFiniteSet({SetOf(k) : k \in Given}) /\ Given \subseteq ServerOwned
    /\ ServerState = <<[type |-> "purge", keys |-> Given]>> \o SetToSeq({SetOf(k) : k \in Given})
<1>1. IsFiniteSet(Given)
    BY Constants, FS_Subset DEF Given, ServerOwned
<1> DEFINE T == {SetOf(k) : k \in Given}
           f == [k \in Given |-> SetOf(k)]
<1>2. f \in Surjection(Given, T)
    BY DEF Surjection
<1> HIDE DEF T, f
<1>3. IsFiniteSet(T)
    BY <1>1, <1>2, FS_Surjection
<1>4. Given \subseteq ServerOwned
    BY DEF Given
<1>5. ServerState = <<[type |-> "purge", keys |-> Given]>> \o SetToSeq({SetOf(k) : k \in Given})
    BY DEF ServerState, Given, SetOf
<1>6. QED BY <1>3, <1>4, <1>5 DEF T

\* First the list of all that has a value, then the values, one message each.
LEMMA ServerStateIs ==
    ASSUME cloud \in [Mine -> Values \cup {NULL}]
    PROVE  /\ ServerState \in Seq(Downlinks) /\ Len(ServerState) \in Nat /\ Len(ServerState) >= 1
           /\ ServerState[1] = [type |-> "purge", keys |-> Given]
           /\ \A n \in 2 .. Len(ServerState) :
                \E k \in Given : ServerState[n] = SetOf(k)
           /\ \A m, n \in 2 .. Len(ServerState) :
                ServerState[m].key = ServerState[n].key => m = n
           /\ \A k \in Given : \E n \in 2 .. Len(ServerState) : ServerState[n] = SetOf(k)
<1> DEFINE T == {SetOf(k) : k \in Given}
           s == SetToSeq(T)
           h == [type |-> "purge", keys |-> Given]
<1>1. IsFiniteSet(T) /\ ServerState = <<h>> \o s /\ Given \subseteq ServerOwned
    BY GivenSent
<1>2. ASSUME NEW t \in T PROVE t \in Downlinks /\ \E k \in Given : t = SetOf(k)
    <2>1. PICK k \in Given : t = SetOf(k)
        OBVIOUS
    <2>2. k \in ServerOwned /\ cloud[k] \in Values \cup {NULL}
        BY <1>1 DEF ServerOwned
    <2>3. QED BY <2>1, <2>2 DEF SetOf, Downlinks
<1>3. \A k \in Given : SetOf(k) \in T
    OBVIOUS
<1>4. h \in Downlinks
    BY <1>1 DEF Downlinks
<1> HIDE DEF T, h
<1>5. s \in Seq(T) /\ IsInjective(s) /\ \A x \in T : \E n \in DOMAIN s : s[n] = x
    BY <1>1, SetToSeqIs
<1> HIDE DEF s
<1>6. Len(s) \in Nat /\ DOMAIN s = 1 .. Len(s) /\ \A n \in 1 .. Len(s) : s[n] \in T
    BY <1>5
<1>7. T \subseteq Downlinks
    BY <1>2
<1>8. s \in Seq(Downlinks) /\ <<h>> \in Seq(Downlinks)
    <2>1. \A n \in 1 .. Len(s) : s[n] \in Downlinks
        BY <1>6, <1>7
    <2>2. QED BY <1>4, <1>5, <1>6, <2>1
<1> DEFINE w == ServerState
<1>9. /\ w \in Seq(Downlinks) /\ Len(w) = Len(s) + 1 /\ w[1] = h
      /\ \A n \in 2 .. Len(w) : n - 1 \in 1 .. Len(s) /\ w[n] = s[n - 1]
      /\ \A n \in 1 .. Len(s) : n + 1 \in 2 .. Len(w) /\ w[n + 1] = s[n]
    BY <1>1, <1>6, <1>8
<1> HIDE DEF w
<1>10. \A n \in 2 .. Len(w) : \E k \in Given : w[n] = SetOf(k)
    <2>1. ASSUME NEW n \in 2 .. Len(w) PROVE w[n] \in T
        BY <1>6, <1>9
    <2>2. QED BY <1>2, <2>1
<1>11. ASSUME NEW m \in 2 .. Len(w), NEW n \in 2 .. Len(w), w[m].key = w[n].key
       PROVE  m = n
    <2>1. PICK k \in Given : w[m] = SetOf(k)
        BY <1>10
    <2>2. PICK l \in Given : w[n] = SetOf(l)
        BY <1>10
    <2>3. k = l
        BY <1>11, <2>1, <2>2 DEF SetOf
    <2>4. s[m - 1] = s[n - 1] /\ m - 1 \in DOMAIN s /\ n - 1 \in DOMAIN s
        BY <1>6, <1>9, <2>1, <2>2, <2>3
    <2>5. m - 1 = n - 1
        BY <1>5, <2>4 DEF IsInjective
    <2>6. m \in Nat /\ n \in Nat
        BY <1>6, <1>9
    <2>7. QED BY <2>5, <2>6
<1>12. \A k \in Given : \E n \in 2 .. Len(w) : w[n] = SetOf(k)
    BY <1>3, <1>5, <1>6, <1>9
<1>13. Len(w) \in Nat /\ Len(w) >= 1
    BY <1>6, <1>9
<1>14. QED BY <1>9, <1>10, <1>11, <1>12, <1>13 DEF w, h

-----------------------------------------------------------------------------
(* Types. *)

Contents == [value : Values \cup {NULL}, major : Nat]
Walks == [kind : WalkKinds, pc : {"sizes", "key", "handle", "load", "store", "next", "end"},
          cur : IdsOrNull, key : Mine \cup {NULL}, seen : Mine \cup {NULL},
          data : Contents, size : Nat, list : SUBSET Mine,
          before : SUBSET Mine, disturbed : BOOLEAN]

DeviceOK ==
    /\ kv \in Stores /\ Sound(kv) /\ property \in [Mine -> Contents]
    /\ \A k \in Mine : Has(kv, k) <=> property[k] # NoProperty
    /\ \A k \in Mine : Has(kv, k) <=> property[k].value # NULL
WalkShape ==
    /\ walk.pc \in {"load", "store"} => walk.kind = "send"
    /\ walk.pc = "store" => walk.key \in DeviceOwned
    /\ walk.pc \in {"handle", "load", "store"} => walk.key \in Mine
    /\ walk.pc = "store" \/ (walk.pc = "handle" /\ walk.kind = "send") => walk.data.value # NULL
    /\ walk.kind \notin {"fill", "purge"} => walk.list = {}
WalkOK == walk \in Walks /\ WalkShape
Reports == [key : DeviceOwned, value : Values \cup {NULL}]
LinkOK ==
    /\ queue \in Seq(Reports)
    /\ cloud \in [Mine -> Values \cup {NULL}] /\ down \in Seq(Downlinks)
    /\ lost \subseteq DeviceOwned
RestOK ==
    /\ firmware \in Firmwares /\ state \in States
    /\ app \in [key : DeviceOwned \cup {NULL}, value : Values \cup {NULL}]
    /\ app.key = NULL => app = IdleApp
    /\ synced \in BOOLEAN /\ spoiled \in BOOLEAN
    /\ spent \in [changes : 0 .. MaxChanges, server : 0 .. MaxServer, outages : 0 .. MaxOutages]
Shaped == DeviceOK /\ WalkOK /\ LinkOK /\ RestOK

LEMMA ShapedTypes == Shaped => TypeOK
BY DEF Shaped, DeviceOK, WalkOK, LinkOK, RestOK, TypeOK, Walks, Contents, Reports

LEMMA Owned ==
    /\ DeviceOwned \subseteq Mine /\ ServerOwned \subseteq Mine /\ NULL \notin Mine
    /\ Mine = DeviceOwned \cup ServerOwned /\ DeviceOwned \cap ServerOwned = {}
    /\ \A f \in Firmwares, k \in Mine : f[Iface[k]] \in Nat
BY Constants, InterfaceAssumption DEF DeviceOwned, ServerOwned

LEMMA StartedIs ==
    ASSUME NEW kind, NEW size
    PROVE  Started(kind, size) =
             [kind |-> kind, pc |-> IF Advance(kv, NULL) = NULL THEN "end" ELSE "sizes",
              cur |-> Advance(kv, NULL), key |-> NULL, seen |-> NULL, data |-> NoProperty,
              size |-> size, list |-> {}, before |-> Props, disturbed |-> FALSE]
<1> DEFINE c == Advance(kv, NULL)
           pc == IF c = NULL THEN "end" ELSE "sizes"
           all == Props
<1>1. Started(kind, size) = [NoWalk EXCEPT !.kind = kind, !.cur = c, !.size = size,
                                           !.before = all, !.pc = pc]
    BY DEF Started
<1> HIDE DEF c, pc, all
<1>2. Started(kind, size) =
             [kind |-> kind, pc |-> pc, cur |-> c, key |-> NULL, seen |-> NULL,
              data |-> NoProperty, size |-> size, list |-> {}, before |-> all,
              disturbed |-> FALSE]
    BY <1>1 DEF NoWalk
<1>3. QED BY <1>2 DEF c, pc, all

LEMMA StartedOK ==
    ASSUME DeviceOK, NEW kind \in WalkKinds \ {"none"}, NEW size \in Nat
    PROVE  /\ Started(kind, size) \in Walks
           /\ Started(kind, size).kind = kind /\ Started(kind, size).pc \in {"sizes", "end"}
           /\ Started(kind, size).list = {}
<1>1. Advance(kv, NULL) \in IdsOrNull
    BY AdvanceFacts DEF DeviceOK, IdsOrNull
<1>2. NoProperty \in Contents /\ Props \in SUBSET Mine
    BY DEF NoProperty, Contents, Props
<1>3. QED BY <1>1, <1>2, StartedIs DEF Walks

LEMMA NoWalkOK == NoWalk \in Walks
BY DEF NoWalk, Walks, WalkKinds, IdsOrNull, NoProperty, Contents

-----------------------------------------------------------------------------
(* The store under its operations. *)

\* Storing a property keeps the store in shape, whether there is room or not.
LEMMA StoreKeeps ==
    ASSUME DeviceOK, firmware \in Firmwares, NEW k \in Mine, NEW v \in Values, Store(k, v)
    PROVE  DeviceOK'
<1>1. k \in Keys /\ kv' = Insert(kv, k)
    BY Constants DEF Store
<1>2. /\ kv' \in Stores /\ Sound(kv')
      /\ \A x \in Keys : x # k => kv'.at[x] = kv.at[x]
      /\ Has(kv, k) => kv' = kv
      /\ Has(kv', k) <=> Has(kv, k) \/ ~Full(kv)
    BY <1>1, InsertFacts DEF DeviceOK
<1>3. \A x \in Mine : x # k => (Has(kv', x) <=> Has(kv, x))
    BY <1>2, Constants DEF Has
<1> DEFINE p == [value |-> v, major |-> firmware[Iface[k]]]
<1>4. p \in Contents /\ p.value # NULL /\ p # NoProperty
    BY Owned, ValueAssumption DEF Contents, NoProperty
<1>5. CASE ~Has(kv, k) /\ Full(kv)
    <2>1. property' = property /\ ~Has(kv', k)
        BY <1>2, <1>5 DEF Store
    <2>2. QED BY <1>2, <1>3, <1>5, <2>1 DEF DeviceOK
<1>6. CASE ~(~Has(kv, k) /\ Full(kv))
    <2>1. property' = [property EXCEPT ![k] = p] /\ Has(kv', k)
        BY <1>2, <1>6 DEF Store
    <2> HIDE DEF p
    <2>2. property' \in [Mine -> Contents] /\ property'[k] = p
          /\ \A x \in Mine : x # k => property'[x] = property[x]
        BY <1>4, <2>1 DEF DeviceOK
    <2>3. QED BY <1>2, <1>3, <1>4, <2>1, <2>2 DEF DeviceOK
<1>7. QED BY <1>5, <1>6

\* Forgetting a property keeps what does not depend on it.
LEMMA ForgetKeeps ==
    ASSUME DeviceOK, NEW left \in Stores, Sound(left),
           \A k \in Keys : Has(left, k) => Has(kv, k), Forget(left)
    PROVE  /\ DeviceOK' /\ kv' = left
           /\ \A k \in Mine : property'[k] = IF Has(left, k) THEN property[k] ELSE NoProperty
<1>1. /\ kv' = left
      /\ property' = [k \in Mine |-> IF left.at[k] # NULL THEN property[k] ELSE NoProperty]
    BY DEF Forget
<1>2. NoProperty \in Contents /\ NoProperty.value = NULL
    BY DEF NoProperty, Contents
<1>3. \A k \in Mine : property'[k] = IF Has(left, k) THEN property[k] ELSE NoProperty
    BY <1>1 DEF Has
<1>4. property' \in [Mine -> Contents]
    BY <1>1, <1>2 DEF DeviceOK
<1>5. \A k \in Mine : Has(left, k) => Has(kv, k)
    BY Constants
<1>6. QED BY <1>1, <1>2, <1>3, <1>4, <1>5 DEF DeviceOK

\* Erasing a record with its value.
LEMMA EraseKeeps ==
    ASSUME DeviceOK, NEW k \in Keys, Erase(k)
    PROVE  /\ DeviceOK' /\ kv' = Delete(kv, k)
           /\ \A x \in Keys : Has(kv', x) <=> Has(kv, x) /\ x # k
           /\ \A x \in Mine : property'[x] = IF Has(kv, x) /\ x # k THEN property[x] ELSE NoProperty
<1> DEFINE left == Delete(kv, k)
<1>1. /\ left \in Stores /\ Sound(left)
      /\ \A x \in Keys : Has(left, x) <=> Has(kv, x) /\ x # k
    BY DeleteFacts DEF DeviceOK
<1>2. Forget(left)
    BY DEF Erase
<1> HIDE DEF left
<1>3. /\ DeviceOK' /\ kv' = left
      /\ \A x \in Mine : property'[x] = IF Has(left, x) THEN property[x] ELSE NoProperty
    BY <1>1, <1>2, ForgetKeeps
<1>4. \A x \in Mine : Has(left, x) <=> Has(kv, x) /\ x # k
    BY <1>1, Constants
<1>5. QED BY <1>1, <1>3, <1>4 DEF left

\* Any deletion that erases a property with its value.
LEMMA RemovesKeeps ==
    ASSUME DeviceOK, WalkOK, NEW k \in Keys, Removes(k)
    PROVE  DeviceOK' /\ WalkOK' /\ kv' = Delete(kv, k)
<1>1. DeviceOK' /\ kv' = Delete(kv, k)
    BY EraseKeeps DEF Removes
<1>2. walk' = [walk EXCEPT !.disturbed = @ \/ (walk.kind # "none" /\ Has(kv, k))]
    BY DEF Removes
<1> DEFINE b == walk.disturbed \/ (walk.kind # "none" /\ Has(kv, k))
<1>3. b \in BOOLEAN
    BY DEF WalkOK, Walks
<1>5. walk' = [walk EXCEPT !.disturbed = b]
    BY <1>2
<1> HIDE DEF b
<1>6. walk' \in Walks
    BY <1>3, <1>5 DEF WalkOK, Walks
<1>8. WalkShape'
    BY <1>5, <1>6 DEF WalkOK, WalkShape, Walks
<1>9. QED BY <1>1, <1>6, <1>8 DEF WalkOK

\* A deletion under the iterator leaves it on an id.
LEMMA DeleteHereKeeps ==
    ASSUME DeviceOK, WalkOK, LinkOK, DeleteHere
    PROVE  /\ DeviceOK' /\ lost' \subseteq DeviceOwned
           /\ walk' = [Passed EXCEPT !.cur = IteratorDelete(kv, walk.cur).cur]
           /\ kv' = IteratorDelete(kv, walk.cur).kv
           /\ \A x \in Mine : property'[x] = IF Has(kv', x) THEN property[x] ELSE NoProperty
           /\ \A x \in Keys : Has(kv', x) => Has(kv, x)
<1> DEFINE d == IteratorDelete(kv, walk.cur)
<1>1. /\ Forget(d.kv) /\ walk' = [Passed EXCEPT !.cur = d.cur]
      /\ lost' = lost \cup {k \in DeviceOwned : Has(kv, k) /\ ~Has(d.kv, k)}
    BY DEF DeleteHere
<1>2. walk.cur \in IdsOrNull /\ kv \in Stores /\ Sound(kv)
    BY DEF WalkOK, Walks, DeviceOK
<1>3. d.kv = kv \/ (KeyAt(kv, walk.cur) # NULL /\ d.kv = Delete(kv, KeyAt(kv, walk.cur)))
    BY <1>2, IteratorDeleteFacts
<1>4. d.kv \in Stores /\ Sound(d.kv) /\ \A k \in Keys : Has(d.kv, k) => Has(kv, k)
    <2>1. CASE d.kv = kv
        BY <1>2, <2>1
    <2>2. CASE KeyAt(kv, walk.cur) # NULL /\ d.kv = Delete(kv, KeyAt(kv, walk.cur))
        <3>1. KeyAt(kv, walk.cur) \in Keys
            BY <1>2, <2>2, StandsOn DEF Stored
        <3>2. QED BY <1>2, <2>2, <3>1, DeleteFacts
    <2>3. QED BY <1>3, <2>1, <2>2
<1> HIDE DEF d
<1>5. /\ DeviceOK' /\ kv' = d.kv
      /\ \A k \in Mine : property'[k] = IF Has(d.kv, k) THEN property[k] ELSE NoProperty
    BY <1>1, <1>4, ForgetKeeps
<1>6. lost' \subseteq DeviceOwned
    BY <1>1 DEF LinkOK
<1>7. QED BY <1>1, <1>4, <1>5, <1>6 DEF d

-----------------------------------------------------------------------------
(* The steps keep the types. *)

LEMMA Untouched ==
    ASSUME Shaped
    PROVE  /\ UNCHANGED <<kv, property>> => DeviceOK'
           /\ UNCHANGED walk => WalkOK'
           /\ UNCHANGED <<queue, cloud, down, lost>> => LinkOK'
           /\ UNCHANGED <<firmware, state, app, synced, spoiled, spent>> => RestOK'
<1>1. UNCHANGED <<kv, property>> => DeviceOK'
    BY DEF Shaped, DeviceOK
<1>2. UNCHANGED walk => WalkOK'
    BY DEF Shaped, WalkOK, WalkShape
<1>3. UNCHANGED <<queue, cloud, down, lost>> => LinkOK'
    BY DEF Shaped, LinkOK
<1>4. UNCHANGED <<firmware, state, app, synced, spoiled, spent>> => RestOK'
    BY DEF Shaped, RestOK
<1>5. QED BY <1>1, <1>2, <1>3, <1>4

LEMMA PassedOK ==
    ASSUME WalkOK, walk.kind # "none", NEW c \in IdsOrNull
    PROVE  /\ [Passed EXCEPT !.cur = c] \in Walks
           /\ [Passed EXCEPT !.cur = c] =
                [walk EXCEPT !.pc = "next", !.key = NULL, !.data = NoProperty, !.cur = c]
           /\ Passed = [Passed EXCEPT !.cur = walk.cur]
           /\ walk' = [Passed EXCEPT !.cur = c] => WalkOK'
<1>1. NoProperty \in Contents
    BY DEF NoProperty, Contents
<1> DEFINE w == [walk EXCEPT !.pc = "next", !.key = NULL, !.data = NoProperty, !.cur = c]
<1>2. [Passed EXCEPT !.cur = c] = w
    BY DEF Passed, WalkOK, Walks
<1>3. w \in Walks
    BY <1>1 DEF WalkOK, Walks
<1>4. Passed = [Passed EXCEPT !.cur = walk.cur]
    BY DEF Passed, WalkOK, Walks
<1>5. w.pc = "next" /\ w.kind = walk.kind /\ w.list = walk.list
    BY DEF WalkOK, Walks
<1> HIDE DEF w
<1>6. ASSUME walk' = w PROVE WalkOK'
    BY <1>3, <1>5, <1>6 DEF WalkOK, WalkShape
<1>7. QED BY <1>2, <1>3, <1>4, <1>6 DEF w

LEMMA AbortKeeps ==
    ASSUME Shaped, walk.kind # "none", Abort, Away
    PROVE  Shaped'
<1>1. /\ walk' = NoWalk /\ state' = IF walk.kind = "purge" THEN state ELSE "error"
      /\ spoiled' = (spoiled \/ walk.kind = "purge")
      /\ UNCHANGED <<kv, property, cloud, lost, down>>
      /\ UNCHANGED <<firmware, app, queue, synced, spent>>
    BY DEF Abort, Away
<1>2. DeviceOK' /\ LinkOK'
    BY <1>1, Untouched
<1>3. WalkOK'
    BY <1>1, NoWalkOK DEF WalkOK, WalkShape, NoWalk
<1>4. RestOK'
    BY <1>1 DEF Shaped, RestOK, States
<1>5. QED BY <1>2, <1>3, <1>4 DEF Shaped

\* The steps that read: failing reads, the sizes, the key, the value.
LEMMA ReadSteps ==
    ASSUME Shaped, GetFails \/ GetSizes \/ GetKey \/ LoadProperty \/ MoveOn
    PROVE  Shaped'
<1>1. CASE Abort /\ Away /\ walk.kind # "none"
    BY <1>1, AbortKeeps
<1>2. ASSUME UNCHANGED <<kv, property, state, cloud, down, lost, spoiled>>, Away, WalkOK'
      PROVE  Shaped'
    <2>1. DeviceOK' /\ LinkOK' /\ RestOK'
        BY <1>2, Untouched DEF Away
    <2>2. QED BY <1>2, <2>1 DEF Shaped
<1>3. WalkOK
    BY DEF Shaped
<1>4. CASE GetFails
    BY <1>1, <1>4 DEF GetFails
<1>5. CASE GetSizes
    <2>1. walk' = [walk EXCEPT !.pc = "key", !.seen = KeyAt(kv, walk.cur)]
        BY <1>5 DEF GetSizes
    <2>2. KeyAt(kv, walk.cur) \in Mine
        BY <1>5 DEF GetSizes
    <2>3. WalkOK'
        BY <1>3, <2>1, <2>2 DEF WalkOK, WalkShape, Walks
    <2>4. QED BY <1>2, <1>5, <2>3 DEF GetSizes
<1>6. CASE GetKey
    <2>1. CASE walk.seen # KeyAt(kv, walk.cur) /\ Abort
        BY <1>1, <1>6, <2>1 DEF GetKey, WalkStep
    <2>2. CASE /\ walk' = [walk EXCEPT !.pc = IF walk.kind = "send" THEN "load" ELSE "handle",
                                       !.key = KeyAt(kv, walk.cur), !.seen = NULL]
               /\ UNCHANGED <<kv, property, state, cloud, down, lost, spoiled>>
        <3>1. KeyAt(kv, walk.cur) \in Mine
            BY <1>6 DEF GetKey
        <3>2. WalkOK'
            BY <1>3, <2>2, <3>1 DEF WalkOK, WalkShape, Walks
        <3>3. QED BY <1>2, <1>6, <2>2, <3>2 DEF GetKey
    <2>3. QED BY <1>6, <2>1, <2>2 DEF GetKey
<1>7. CASE LoadProperty
    <2>1. CASE ~Has(kv, walk.key)
        BY <1>1, <1>7, <2>1 DEF LoadProperty, WalkStep
    <2>2. CASE Has(kv, walk.key)
        <3>1. walk' = [walk EXCEPT !.pc = "handle", !.data = property[walk.key]]
            BY <1>7, <2>2 DEF LoadProperty
        <3>2. walk.key \in Mine
            BY <1>3, <1>7 DEF LoadProperty, WalkStep, WalkOK, WalkShape
        <3>3. property[walk.key] \in Contents /\ property[walk.key].value # NULL
            BY <2>2, <3>2 DEF Shaped, DeviceOK
        <3>4. WalkOK'
            BY <1>3, <3>1, <3>2, <3>3 DEF WalkOK, WalkShape, Walks
        <3>5. QED BY <1>2, <1>7, <2>2, <3>4 DEF LoadProperty
    <2>3. QED BY <2>1, <2>2
<1>8. CASE MoveOn
    <2> DEFINE c == Advance(kv, walk.cur)
    <2>1. c \in IdsOrNull
        BY <1>3, AdvanceFacts DEF Shaped, DeviceOK, WalkOK, Walks
    <2>2. walk' = [walk EXCEPT !.cur = c, !.pc = IF c = NULL THEN "end" ELSE "sizes"]
        BY <1>8 DEF MoveOn
    <2> HIDE DEF c
    <2>3. WalkOK'
        BY <1>3, <2>1, <2>2 DEF WalkOK, WalkShape, Walks
    <2>4. QED BY <1>2, <1>8, <2>3 DEF MoveOn
<1>9. QED BY <1>4, <1>5, <1>6, <1>7, <1>8

\* The steps that do what a walk is for.
LEMMA HandleSteps ==
    ASSUME Shaped, AppendProperty \/ PurgeProperty \/ SendProperty \/ StoreAgain
    PROVE  Shaped'
<1>1. WalkOK /\ walk.cur \in IdsOrNull /\ walk.kind # "none"
    BY DEF Shaped, WalkOK, Walks, AppendProperty, PurgeProperty, SendProperty, StoreAgain, WalkStep
<1>2. ASSUME walk' = Passed PROVE WalkOK'
    BY <1>1, <1>2, PassedOK
<1>3. ASSUME UNCHANGED <<state, spoiled>>, Away PROVE RestOK'
    BY <1>3, Untouched DEF Away
<1>4. ASSUME UNCHANGED <<cloud, down>>, Away, lost' \subseteq DeviceOwned PROVE LinkOK'
    BY <1>4 DEF Away, Shaped, LinkOK
<1>5. lost \subseteq DeviceOwned
    BY DEF Shaped, LinkOK
<1>6. ASSUME DeleteHere PROVE DeviceOK' /\ WalkOK' /\ lost' \subseteq DeviceOwned
    <2>1. /\ DeviceOK' /\ lost' \subseteq DeviceOwned
          /\ walk' = [Passed EXCEPT !.cur = IteratorDelete(kv, walk.cur).cur]
        BY <1>6, DeleteHereKeeps DEF Shaped
    <2> DEFINE c == IteratorDelete(kv, walk.cur).cur
    <2>2. c \in IdsOrNull
        BY <1>1, IteratorDeleteFacts DEF Shaped, DeviceOK
    <2> HIDE DEF c
    <2>3. walk' = [Passed EXCEPT !.cur = c]
        BY <2>1 DEF c
    <2>4. QED BY <1>1, <2>1, <2>2, <2>3, PassedOK
<1>7. CASE AppendProperty
    <2>1. walk.pc = "handle" /\ walk.kind \in {"size", "fill"} /\ walk.key \in Mine /\ Away
        BY <1>1, <1>7 DEF AppendProperty, WalkStep, WalkOK, WalkShape
    <2>2. CASE Abort
        BY <1>1, <2>1, <2>2, AbortKeeps
    <2>3. CASE ~Known(walk.key)
        <3>1. /\ Erase(walk.key) /\ walk' = Passed
              /\ lost' = lost \cup ({walk.key} \cap DeviceOwned)
              /\ UNCHANGED <<state, cloud, down, spoiled>>
            BY <1>7, <2>3 DEF AppendProperty
        <3>2. DeviceOK'
            BY <2>1, <3>1, EraseKeeps, Constants DEF Shaped
        <3>3. QED BY <1>2, <1>3, <1>4, <1>5, <2>1, <3>1, <3>2 DEF Shaped
    <2>4. CASE /\ UNCHANGED <<kv, property, state, cloud, down, lost, spoiled>>
               /\ WalkOK'
        BY <1>3, <1>4, <1>5, <2>1, <2>4, Untouched DEF Shaped
    <2>5. CASE walk' = Passed /\ UNCHANGED <<kv, property, state, cloud, down, lost, spoiled>>
        BY <1>2, <2>4, <2>5
    <2>6. CASE /\ walk.kind = "size" /\ walk' = [Passed EXCEPT !.size = @ + 1]
               /\ UNCHANGED <<kv, property, state, cloud, down, lost, spoiled>>
        <3>1. Passed \in Walks /\ Passed.pc = "next" /\ Passed.kind = walk.kind /\ Passed.list = walk.list
            BY <1>1, PassedOK DEF Passed, WalkOK, Walks
        <3>2. WalkOK'
            BY <1>1, <2>6, <3>1 DEF WalkOK, WalkShape, Walks
        <3>3. QED BY <2>4, <2>6, <3>2
    <2>7. CASE /\ walk.kind = "fill" /\ walk.size # 0
               /\ walk' = [Passed EXCEPT !.list = @ \cup {walk.key}, !.size = @ - 1]
               /\ UNCHANGED <<kv, property, state, cloud, down, lost, spoiled>>
        <3>1. Passed \in Walks /\ Passed.pc = "next" /\ Passed.kind = walk.kind /\ Passed.size = walk.size
            BY <1>1, PassedOK DEF Passed, WalkOK, Walks
        <3>2. Passed.size - 1 \in Nat /\ Passed.list \cup {walk.key} \in SUBSET Mine
            BY <2>1, <2>7, <3>1 DEF Walks
        <3>3. walk' \in Walks /\ walk'.pc = "next" /\ walk'.kind = "fill"
            BY <2>7, <3>1, <3>2 DEF Walks
        <3>4. WalkOK'
            BY <3>3 DEF WalkOK, WalkShape
        <3>5. QED BY <2>4, <2>7, <3>4
    <2>8. QED BY <1>7, <2>1, <2>2, <2>3, <2>5, <2>6, <2>7 DEF AppendProperty
<1>8. CASE PurgeProperty
    <2>1. Away /\ UNCHANGED <<state, cloud, down, spoiled>>
        BY <1>8 DEF PurgeProperty
    <2>2. DeleteHere \/ (walk' = Passed /\ UNCHANGED <<kv, property, lost>>)
        BY <1>8 DEF PurgeProperty
    <2>3. QED BY <1>2, <1>3, <1>4, <1>5, <1>6, <2>1, <2>2, Untouched DEF Shaped
<1>9. CASE SendProperty
    <2>1. Away /\ UNCHANGED <<state, cloud, down, spoiled>>
        BY <1>9 DEF SendProperty
    <2>2. CASE DeleteHere
        BY <1>3, <1>4, <1>6, <2>1, <2>2 DEF Shaped
    <2>3. CASE walk' = Passed /\ UNCHANGED <<kv, property, lost>>
        BY <1>2, <1>3, <1>4, <1>5, <2>1, <2>3, Untouched DEF Shaped
    <2>4. CASE /\ walk.key \in DeviceOwned /\ walk' = [walk EXCEPT !.pc = "store"]
               /\ UNCHANGED <<kv, property, lost>>
        <3>1. WalkOK'
            BY <1>1, <1>9, <2>4 DEF WalkOK, WalkShape, Walks, SendProperty, WalkStep
        <3>2. QED BY <1>3, <1>4, <1>5, <2>1, <2>4, <3>1, Untouched DEF Shaped
    <2>5. QED BY <1>9, <2>2, <2>3, <2>4 DEF SendProperty
<1>10. CASE StoreAgain
    <2>1. /\ Away /\ UNCHANGED <<state, cloud, down, spoiled>> /\ walk' = Passed
          /\ lost' = IF ValueOf(walk.key) = walk.data.value THEN lost ELSE lost \cup {walk.key}
          /\ Store(walk.key, walk.data.value)
        BY <1>10 DEF StoreAgain
    <2>2. walk.key \in DeviceOwned /\ walk.data.value \in Values
        BY <1>1, <1>10 DEF StoreAgain, WalkStep, WalkOK, WalkShape, Walks, Contents
    <2>3. DeviceOK'
        BY <2>1, <2>2, StoreKeeps, Owned DEF Shaped, RestOK
    <2>4. lost' \subseteq DeviceOwned
        BY <1>5, <2>1, <2>2
    <2>5. QED BY <1>2, <1>3, <1>4, <2>1, <2>3, <2>4 DEF Shaped
<1>11. QED BY <1>7, <1>8, <1>9, <1>10

LEMMA PublishKeeps ==
    ASSUME Shaped, NEW list, Publish(list)
    PROVE  /\ WalkOK' /\ cloud' \in [Mine -> Values \cup {NULL}] /\ lost' \subseteq DeviceOwned
           /\ UNCHANGED state
<1>1. /\ cloud' = [k \in Mine |-> IF k \in DeviceOwned \ list THEN NULL ELSE cloud[k]]
      /\ lost' \subseteq DeviceOwned /\ UNCHANGED state
      /\ walk' = [Started("send", 0) EXCEPT !.disturbed = walk.disturbed]
    BY DEF Publish
<1>2. cloud' \in [Mine -> Values \cup {NULL}]
    BY <1>1 DEF Shaped, LinkOK
<1> DEFINE s == Started("send", 0)
<1>3. s \in Walks /\ s.kind = "send" /\ s.pc \in {"sizes", "end"} /\ s.list = {}
    BY StartedOK DEF WalkKinds, Shaped
<1> HIDE DEF s
<1>4. walk' = [s EXCEPT !.disturbed = walk.disturbed] /\ walk.disturbed \in BOOLEAN
    BY <1>1 DEF s, Shaped, WalkOK, Walks
<1>5. walk' \in Walks /\ walk'.kind = "send" /\ walk'.pc \in {"sizes", "end"} /\ walk'.list = {}
    BY <1>3, <1>4 DEF Walks
<1>6. WalkOK'
    BY <1>5 DEF WalkOK, WalkShape
<1>7. QED BY <1>1, <1>2, <1>6

\* The four ways in which a walk ends.
LEMMA EndSteps ==
    ASSUME Shaped, EndSize \/ EndFill \/ EndSend \/ EndPurge
    PROVE  Shaped'
<1>1. UNCHANGED <<kv, property, down>> /\ Away
    BY DEF EndSize, EndFill, EndSend, EndPurge
<1>2. DeviceOK'
    BY <1>1, Untouched
<1>3. ASSUME cloud' \in [Mine -> Values \cup {NULL}], lost' \subseteq DeviceOwned PROVE LinkOK'
    BY <1>1, <1>3 DEF Away, Shaped, LinkOK
<1>4. ASSUME state' \in States, spoiled' \in BOOLEAN PROVE RestOK'
    BY <1>1, <1>4 DEF Away, Shaped, RestOK
<1>5. /\ state \in States /\ spoiled \in BOOLEAN /\ walk \in Walks
      /\ cloud \in [Mine -> Values \cup {NULL}] /\ lost \subseteq DeviceOwned
    BY DEF Shaped, RestOK, LinkOK, WalkOK
<1>6. ASSUME NEW list, Publish(list), UNCHANGED spoiled PROVE Shaped'
    BY <1>2, <1>3, <1>4, <1>5, <1>6, PublishKeeps DEF Shaped
<1>7. CASE EndSize
    <2>1. CASE walk.size = 0
        <3>1. Publish({}) /\ UNCHANGED spoiled
            BY <1>7, <2>1 DEF EndSize
        <3>2. QED BY <1>6, <3>1
    <2>2. CASE walk.size # 0
        <3>1. /\ walk' = [Started("fill", walk.size) EXCEPT !.disturbed = walk.disturbed]
              /\ UNCHANGED <<state, cloud, lost, spoiled>>
            BY <1>7, <2>2 DEF EndSize
        <3> DEFINE s == Started("fill", walk.size)
        <3>2. s \in Walks /\ s.kind = "fill" /\ s.pc \in {"sizes", "end"}
            BY <1>5, StartedOK DEF WalkKinds, Shaped, Walks
        <3> HIDE DEF s
        <3>3. walk' = [s EXCEPT !.disturbed = walk.disturbed] /\ walk.disturbed \in BOOLEAN
            BY <1>5, <3>1 DEF s, Walks
        <3>4. walk' \in Walks /\ walk'.kind = "fill" /\ walk'.pc \in {"sizes", "end"}
            BY <3>2, <3>3 DEF Walks
        <3>5. WalkOK'
            BY <3>4 DEF WalkOK, WalkShape
        <3>6. QED BY <1>2, <1>3, <1>4, <1>5, <3>1, <3>5 DEF Shaped
    <2>3. QED BY <2>1, <2>2
<1>8. CASE EndFill
    <2>1. Publish(walk.list) /\ UNCHANGED spoiled
        BY <1>8 DEF EndFill
    <2>2. QED BY <1>6, <2>1
<1>9. ASSUME walk' = NoWalk PROVE WalkOK'
    BY <1>9, NoWalkOK DEF WalkOK, WalkShape, NoWalk
<1>10. CASE EndSend
    <2>1. walk' = NoWalk /\ state' = "end" /\ UNCHANGED <<cloud, lost, spoiled>>
        BY <1>10 DEF EndSend
    <2>2. QED BY <1>2, <1>3, <1>4, <1>5, <1>9, <2>1 DEF Shaped, States
<1>11. CASE EndPurge
    <2>1. walk' = NoWalk /\ spoiled' = walk.disturbed /\ UNCHANGED <<state, cloud, lost>>
        BY <1>11 DEF EndPurge
    <2>2. walk.disturbed \in BOOLEAN
        BY <1>5 DEF Walks
    <2>3. QED BY <1>2, <1>3, <1>4, <1>5, <1>9, <2>1, <2>2 DEF Shaped
<1>12. QED BY <1>7, <1>8, <1>10, <1>11

\* What arrives from Astarte.
LEMMA ReceiveSteps ==
    ASSUME Shaped, Connected \/ Transmit \/ ReceiveSet \/ ReceiveUnset \/ ReceivePurge
    PROVE  Shaped'
<1>1. /\ queue \in Seq(Reports)
      /\ cloud \in [Mine -> Values \cup {NULL}] /\ down \in Seq(Downlinks)
      /\ lost \subseteq DeviceOwned
    BY DEF Shaped, LinkOK
<1>2. CASE Connected
    <2>1. /\ state' = "connected" /\ synced' = TRUE
          /\ UNCHANGED <<device, walk, app, queue, cloud, down, lost, spoiled, spent>>
        BY <1>2 DEF Connected
    <2>2. RestOK'
        BY <2>1 DEF Shaped, RestOK, States, device
    <2>3. QED BY <2>1, <2>2, Untouched DEF Shaped, device
<1>3. CASE Transmit
    <2>1. /\ queue # <<>> /\ cloud' = [cloud EXCEPT ![Head(queue).key] = Head(queue).value]
          /\ queue' = Tail(queue)
          /\ UNCHANGED <<device, state, walk, app, down, synced, lost, spoiled, spent>>
        BY <1>3 DEF Transmit
    <2>2. Head(queue) \in Reports /\ queue' \in Seq(Reports)
        BY <1>1, <2>1
    <2>3. cloud' \in [Mine -> Values \cup {NULL}]
        BY <1>1, <2>1, <2>2, Owned DEF Reports
    <2>4. LinkOK'
        BY <1>1, <2>1, <2>2, <2>3 DEF LinkOK
    <2>5. QED BY <2>1, <2>4, Untouched DEF Shaped, device
<1>4. ASSUME NEW type, Receives(type)
      PROVE  Head(down) \in Downlinks /\ Head(down).type = type /\ down' \in Seq(Downlinks)
    <2>1. down # <<>> /\ Head(down).type = type /\ down' = Tail(down)
        BY <1>4 DEF Receives
    <2>2. QED BY <1>1, <2>1
<1>5. ASSUME Receives("set")
      PROVE  Head(down).key \in Mine /\ Head(down).value \in Values \cup {NULL}
    <2>1. Head(down) \in Downlinks /\ Head(down).type = "set"
        BY <1>4, <1>5
    <2>2. QED BY <2>1, Owned DEF Downlinks
<1>6. ASSUME NEW type, Receives(type), UNCHANGED <<queue, cloud, lost>> PROVE LinkOK'
    BY <1>1, <1>4, <1>6 DEF LinkOK
<1>7. CASE ReceiveSet
    <2>1. /\ Receives("set") /\ Head(down).value # NULL
          /\ Store(Head(down).key, Head(down).value) \/ UNCHANGED <<kv, property>>
          /\ UNCHANGED <<firmware, state, walk, app, queue, cloud, synced, lost, spent>>
          /\ spoiled' = (spoiled \/ (Known(Head(down).key) /\ ~Has(kv, Head(down).key) /\ Full(kv)))
        BY <1>7 DEF ReceiveSet
    <2>2. Head(down).key \in Mine /\ Head(down).value \in Values
        BY <1>5, <2>1
    <2>3. DeviceOK'
        BY <2>1, <2>2, StoreKeeps, Untouched DEF Shaped, RestOK
    <2>4. spoiled' \in BOOLEAN
        BY <2>1
    <2>5. RestOK'
        BY <2>1, <2>4 DEF Shaped, RestOK
    <2>6. QED BY <1>6, <2>1, <2>3, <2>5, Untouched DEF Shaped
<1>8. CASE ReceiveUnset
    <2>1. /\ Receives("set")
          /\ Erase(Head(down).key) \/ UNCHANGED <<kv, property>>
          /\ UNCHANGED <<firmware, state, walk, app, queue, cloud, synced, lost, spoiled, spent>>
        BY <1>8 DEF ReceiveUnset
    <2>2. Head(down).key \in Keys
        BY <1>5, <2>1, Constants
    <2>3. DeviceOK'
        BY <2>1, <2>2, EraseKeeps, Untouched DEF Shaped
    <2>4. QED BY <1>6, <2>1, <2>3, Untouched DEF Shaped
<1>9. CASE ReceivePurge
    <2>1. /\ Receives("purge") /\ walk' = [Started("purge", 0) EXCEPT !.list = Head(down).keys]
          /\ UNCHANGED <<device, state, app, queue, cloud, synced, lost, spoiled, spent>>
        BY <1>9 DEF ReceivePurge
    <2> DEFINE s == Started("purge", 0)
               list == Head(down).keys
    <2>2. list \in SUBSET Mine
        BY <1>4, <2>1, Owned DEF Downlinks
    <2>3. s \in Walks /\ s.kind = "purge" /\ s.pc \in {"sizes", "end"}
        BY StartedOK DEF WalkKinds, Shaped
    <2> HIDE DEF s, list
    <2>4. walk' = [s EXCEPT !.list = list]
        BY <2>1 DEF s, list
    <2>5. walk' \in Walks /\ walk'.kind = "purge" /\ walk'.pc \in {"sizes", "end"}
        BY <2>2, <2>3, <2>4 DEF Walks
    <2>6. WalkOK'
        BY <2>5 DEF WalkOK, WalkShape
    <2>7. QED BY <1>6, <2>1, <2>6, Untouched DEF Shaped, device
<1>10. QED BY <1>2, <1>3, <1>7, <1>8, <1>9

LEMMA SpendsKeeps ==
    ASSUME RestOK, NEW what \in {"changes", "server", "outages"}, NEW max, Spends(what, max),
           \/ what = "changes" /\ max = MaxChanges
           \/ what = "server" /\ max = MaxServer
           \/ what = "outages" /\ max = MaxOutages
    PROVE  spent' \in [changes : 0 .. MaxChanges, server : 0 .. MaxServer, outages : 0 .. MaxOutages]
<1>1. spent[what] < max /\ spent' = [spent EXCEPT ![what] = @ + 1]
    BY DEF Spends
<1>2. spent \in [changes : 0 .. MaxChanges, server : 0 .. MaxServer, outages : 0 .. MaxOutages]
    BY DEF RestOK
<1>3. CASE what = "changes" /\ max = MaxChanges
    BY <1>1, <1>2, <1>3, BoundAssumption
<1>4. CASE what = "server" /\ max = MaxServer
    BY <1>1, <1>2, <1>4, BoundAssumption
<1>5. CASE what = "outages" /\ max = MaxOutages
    BY <1>1, <1>2, <1>5, BoundAssumption
<1>6. QED BY <1>3, <1>4, <1>5

\* The application and the other namespaces.
LEMMA ApplicationSteps ==
    ASSUME Shaped, Application
    PROVE  Shaped'
<1>1. ASSUME Spends("changes", MaxChanges), UNCHANGED <<firmware, state, synced, spoiled>>,
             app' \in [key : DeviceOwned \cup {NULL}, value : Values \cup {NULL}],
             app'.key = NULL => app' = IdleApp
      PROVE  RestOK'
    <2>1. spent' \in [changes : 0 .. MaxChanges, server : 0 .. MaxServer, outages : 0 .. MaxOutages]
        BY <1>1, SpendsKeeps DEF Shaped
    <2>2. QED BY <1>1, <2>1 DEF Shaped, RestOK
<1>2. ASSUME NEW k \in DeviceOwned, NEW v \in Values, AppSet(k, v) PROVE Shaped'
    <2>1. /\ Spends("changes", MaxChanges) /\ Store(k, v) /\ app' = [key |-> k, value |-> v]
          /\ UNCHANGED <<firmware, state, walk, queue, cloud, down, synced, lost, spoiled>>
        BY <1>2 DEF AppSet
    <2>2. DeviceOK'
        BY <2>1, StoreKeeps, Owned DEF Shaped, RestOK
    <2>3. RestOK'
        BY <1>1, <2>1, Owned
    <2>4. QED BY <2>1, <2>2, <2>3, Untouched DEF Shaped
<1>3. ASSUME NEW k \in DeviceOwned, AppUnset(k) PROVE Shaped'
    <2>1. /\ Spends("changes", MaxChanges) /\ Removes(k) /\ app' = [key |-> k, value |-> NULL]
          /\ UNCHANGED <<firmware, state, queue, cloud, down, synced, lost, spoiled>>
        BY <1>3 DEF AppUnset
    <2>2. DeviceOK' /\ WalkOK'
        BY <2>1, RemovesKeeps, Owned, Constants DEF Shaped
    <2>3. RestOK'
        BY <1>1, <2>1, Owned
    <2>4. QED BY <2>1, <2>2, <2>3, Untouched DEF Shaped
<1>4. CASE AppSend
    <2>1. /\ app # IdleApp /\ app' = IdleApp
          /\ queue' = IF state \in {"connected", "end"} THEN Append(queue, app) ELSE queue
          /\ lost' = (IF queue' # queue /\ ValueOf(app.key) = app.value
                      THEN lost \ {app.key} ELSE lost \cup {app.key})
          /\ UNCHANGED <<device, state, walk, cloud, down, synced, spoiled, spent>>
        BY <1>4 DEF AppSend
    <2>2. app.key # NULL
        BY <2>1 DEF Shaped, RestOK
    <2>3. app \in Reports
        BY <2>2 DEF Shaped, RestOK, Reports
    <2>4. queue' \in Seq(Reports)
        BY <2>1, <2>3 DEF Shaped, LinkOK
    <2>5. lost' \subseteq DeviceOwned
        BY <2>1, <2>3 DEF Shaped, LinkOK, Reports
    <2>6. LinkOK'
        BY <2>1, <2>4, <2>5 DEF Shaped, LinkOK
    <2>7. RestOK'
        BY <2>1 DEF Shaped, RestOK, IdleApp, device
    <2>8. QED BY <2>1, <2>6, <2>7, Untouched DEF Shaped, device
<1>5. ASSUME NEW k \in Keys, Foreign(k) PROVE Shaped'
    <2>1. /\ k \notin Mine /\ Spends("changes", MaxChanges)
          /\ Removes(k) \/ (kv' = Insert(kv, k) /\ UNCHANGED <<property, walk>>)
          /\ UNCHANGED <<firmware, state, app, queue, cloud, down, synced, lost, spoiled>>
        BY <1>5 DEF Foreign
    <2>2. RestOK'
        BY <1>1, <2>1 DEF Shaped, RestOK
    <2>3. CASE Removes(k)
        BY <2>1, <2>2, <2>3, RemovesKeeps, Untouched DEF Shaped
    <2>4. CASE kv' = Insert(kv, k) /\ UNCHANGED <<property, walk>>
        <3>1. /\ kv' \in Stores /\ Sound(kv')
              /\ \A x \in Keys : x # k => kv'.at[x] = kv.at[x]
            BY <2>4, InsertFacts DEF Shaped, DeviceOK
        <3>2. \A x \in Mine : Has(kv', x) <=> Has(kv, x)
            BY <2>1, <3>1, Constants DEF Has
        <3>3. DeviceOK'
            BY <2>4, <3>1, <3>2 DEF Shaped, DeviceOK
        <3>4. QED BY <2>1, <2>2, <2>4, <3>3, Untouched DEF Shaped
    <2>5. QED BY <2>1, <2>3, <2>4
<1>6. QED BY <1>2, <1>3, <1>4, <1>5 DEF Application

\* Connections, power and the server.
LEMMA EnvironmentSteps ==
    ASSUME Shaped, Environment
    PROVE  Shaped'
<1>1. ASSUME NEW present \in BOOLEAN, Connect(present) PROVE Shaped'
    <2>1. /\ synced' = (present /\ synced)
          /\ UNCHANGED <<device, app, queue, cloud, lost, spent>>
        BY <1>1 DEF Connect
    <2>2. synced' \in BOOLEAN
        BY <2>1
    <2>3. CASE state' = "end" /\ UNCHANGED <<walk, down, spoiled>>
        <3>1. RestOK'
            BY <2>1, <2>2, <2>3 DEF Shaped, RestOK, States, device
        <3>2. QED BY <2>1, <2>3, <3>1, Untouched DEF Shaped, device
    <2>4. CASE /\ state' = "start" /\ walk' = Started("size", 0) /\ spoiled' = TRUE
               /\ down' = (IF present THEN down ELSE <<>>) \o ServerState
        <3>1. RestOK'
            BY <2>1, <2>2, <2>4 DEF Shaped, RestOK, States, device
        <3>2. WalkOK'
            BY <2>4, StartedOK DEF WalkOK, WalkShape, Shaped, WalkKinds
        <3>3. ServerState \in Seq(Downlinks)
            BY ServerStateIs DEF Shaped, LinkOK
        <3>4. down' \in Seq(Downlinks)
            BY <2>4, <3>3 DEF Shaped, LinkOK
        <3>5. LinkOK'
            BY <2>1, <3>4 DEF Shaped, LinkOK
        <3>6. QED BY <2>1, <3>1, <3>2, <3>5, Untouched DEF Shaped, device
    <2>5. QED BY <1>1, <2>3, <2>4 DEF Connect
<1>2. ASSUME Spends("outages", MaxOutages)
      PROVE  spent' \in [changes : 0 .. MaxChanges, server : 0 .. MaxServer,
                         outages : 0 .. MaxOutages]
    BY <1>2, SpendsKeeps DEF Shaped
<1>3. CASE Disconnect
    <2>1. /\ Spends("outages", MaxOutages) /\ state' = "disconnected"
          /\ UNCHANGED <<device, walk, app, queue, cloud, down, synced, lost, spoiled>>
        BY <1>3 DEF Disconnect
    <2>2. RestOK'
        BY <1>2, <2>1 DEF Shaped, RestOK, States, device
    <2>3. QED BY <2>1, <2>2, Untouched DEF Shaped, device
<1>4. ASSUME NEW f \in Firmwares, Reboot(f) PROVE Shaped'
    <2>1. /\ Spends("outages", MaxOutages) /\ firmware' = f /\ state' = "disconnected"
          /\ synced' = (synced /\ f = firmware) /\ walk' = NoWalk /\ app' = IdleApp
          /\ lost' = (IF app = IdleApp THEN lost ELSE lost \cup {app.key})
          /\ spoiled' = (spoiled \/ walk.kind = "purge")
          /\ UNCHANGED <<kv, property, queue, cloud, down>>
        BY <1>4 DEF Reboot
    <2>2. synced' \in BOOLEAN /\ spoiled' \in BOOLEAN
        BY <2>1
    <2>3. app' \in [key : DeviceOwned \cup {NULL}, value : Values \cup {NULL}]
        BY <2>1 DEF IdleApp
    <2>4. RestOK'
        BY <1>2, <2>1, <2>2, <2>3 DEF Shaped, RestOK, States
    <2>5. WalkOK'
        BY <2>1, NoWalkOK DEF WalkOK, WalkShape, NoWalk
    <2>6. lost' \subseteq DeviceOwned
        BY <2>1 DEF Shaped, RestOK, LinkOK
    <2>7. LinkOK'
        BY <2>1, <2>6 DEF Shaped, LinkOK
    <2>8. QED BY <2>1, <2>4, <2>5, <2>7, Untouched DEF Shaped
<1>5. ASSUME NEW k \in ServerOwned, NEW v \in Values \cup {NULL}, ServerChange(k, v)
      PROVE  Shaped'
    <2>1. /\ Spends("server", MaxServer) /\ cloud' = [cloud EXCEPT ![k] = v]
          /\ down' = Append(down, [type |-> "set", key |-> k, value |-> v])
          /\ UNCHANGED <<device, state, walk, app, queue, synced, lost, spoiled>>
        BY <1>5 DEF ServerChange
    <2>2. spent' \in [changes : 0 .. MaxChanges, server : 0 .. MaxServer, outages : 0 .. MaxOutages]
        BY <2>1, SpendsKeeps DEF Shaped
    <2>3. RestOK'
        BY <2>1, <2>2 DEF Shaped, RestOK, device
    <2>4. [type |-> "set", key |-> k, value |-> v] \in Downlinks
        BY DEF Downlinks
    <2>5. down' \in Seq(Downlinks)
        BY <2>1, <2>4 DEF Shaped, LinkOK
    <2>6. cloud' \in [Mine -> Values \cup {NULL}]
        BY <2>1 DEF Shaped, LinkOK
    <2>7. LinkOK'
        BY <2>1, <2>5, <2>6 DEF Shaped, LinkOK, device
    <2>8. QED BY <2>1, <2>3, <2>7, Untouched DEF Shaped, device
<1>6. QED BY <1>1, <1>3, <1>4, <1>5 DEF Environment

LEMMA ShapedInit == Init => Shaped
<1> SUFFICES ASSUME Init PROVE Shaped
    OBVIOUS
<1>1. PICK past \in Pasts, old \in Firmwares :
        /\ kv = past
        /\ property = [k \in Mine |->
                         IF Has(past, k)
                         THEN [value |-> CHOOSE v \in Values : TRUE, major |-> old[Iface[k]]]
                         ELSE NoProperty]
        /\ \A k \in Stored(past) \cap Mine : old[Iface[k]] # 0
    BY DEF Init
<1> DEFINE v0 == CHOOSE v \in Values : TRUE
<1>2. v0 \in Values /\ v0 # NULL
    BY ValueAssumption
<1>3. property = [k \in Mine |-> IF Has(past, k) THEN [value |-> v0, major |-> old[Iface[k]]]
                                                 ELSE NoProperty]
    BY <1>1
<1> HIDE DEF v0
<1>4. NoProperty \in Contents /\ NoProperty.value = NULL
    BY DEF NoProperty, Contents
<1>5. \A k \in Mine : /\ [value |-> v0, major |-> old[Iface[k]]] \in Contents
                      /\ [value |-> v0, major |-> old[Iface[k]]].value # NULL
    BY <1>2, Owned DEF Contents
<1>6. property \in [Mine -> Contents]
    BY <1>3, <1>4, <1>5
<1>7. \A k \in Mine : /\ Has(kv, k) <=> property[k] # NoProperty
                      /\ Has(kv, k) <=> property[k].value # NULL
    BY <1>1, <1>3, <1>4, <1>5
<1>8. DeviceOK
    BY <1>1, <1>6, <1>7, PastAssumption DEF DeviceOK
<1>9. PICK unset \in {{}, ServerOwned} :
          cloud = [k \in Mine |-> IF k \in unset THEN NULL ELSE property[k].value]
    BY DEF Init
<1>10. cloud \in [Mine -> Values \cup {NULL}]
    BY <1>6, <1>9 DEF Contents
<1>11. LinkOK
    BY <1>10 DEF Init, LinkOK
<1>12. WalkOK
    BY NoWalkOK DEF Init, WalkOK, WalkShape, NoWalk
<1>13. RestOK
    <2>1. app = IdleApp /\ IdleApp \in [key : DeviceOwned \cup {NULL}, value : Values \cup {NULL}]
        BY DEF Init, IdleApp
    <2>2. spent \in [changes : 0 .. MaxChanges, server : 0 .. MaxServer, outages : 0 .. MaxOutages]
        BY BoundAssumption DEF Init
    <2>3. state \in States /\ synced \in BOOLEAN /\ spoiled \in BOOLEAN /\ firmware \in Firmwares
        BY DEF Init, States
    <2>4. QED BY <2>1, <2>2, <2>3 DEF RestOK
<1>14. QED BY <1>8, <1>11, <1>12, <1>13 DEF Shaped

\* The shape of the state is inductive on its own.
LEMMA ShapedStep == Shaped /\ [Next]_vars => Shaped'
<1> SUFFICES ASSUME Shaped, [Next]_vars PROVE Shaped'
    OBVIOUS
<1>1. CASE UNCHANGED vars
    BY <1>1, Untouched DEF vars, device, Shaped
<1>2. CASE Next
    BY <1>2, ReadSteps, HandleSteps, EndSteps, ReceiveSteps, ApplicationSteps, EnvironmentSteps
       DEF Next, Worker, Walk
<1>3. QED BY <1>1, <1>2

LEMMA AlwaysShaped == Spec => []Shaped
BY ShapedInit, ShapedStep, PTL DEF Spec

\* Whatever the store held before and whatever happens: the store stays sound, it
\* holds the key of a property if and only if there is a value for it, and the
\* worker, the application and the two queues stay in their types.
THEOREM PropertiesTyped == Spec => []TypeOK
BY AlwaysShaped, ShapedTypes, PTL

-----------------------------------------------------------------------------
(* What a step does to the values that are stored. *)

\* What a store leaves of the values.
LEMMA StoreValues ==
    ASSUME DeviceOK, NEW k \in Mine, NEW v \in Values, Store(k, v)
    PROVE  /\ \A x \in Mine : x # k => /\ ValueOf(x)' = ValueOf(x)
                                       /\ Has(kv', x) <=> Has(kv, x)
                                       /\ property'[x] = property[x]
           /\ Has(kv, k) \/ ~Full(kv) =>
                /\ Has(kv', k) /\ ValueOf(k)' = v
                /\ property'[k] = [value |-> v, major |-> firmware[Iface[k]]]
           /\ ~Has(kv, k) /\ Full(kv) => kv' = kv /\ property' = property
           /\ Has(kv, k) => kv' = kv
<1>1. k \in Keys /\ kv' = Insert(kv, k) /\ Mine \subseteq Keys
    BY Constants DEF Store
<1>2. /\ \A x \in Keys : x # k => kv'.at[x] = kv.at[x]
      /\ Has(kv', k) <=> Has(kv, k) \/ ~Full(kv)
      /\ Has(kv, k) => kv' = kv
    BY <1>1, InsertFacts DEF DeviceOK
<1>3. \A x \in Mine : x # k => (Has(kv', x) <=> Has(kv, x))
    BY <1>1, <1>2 DEF Has
<1>4. CASE ~Has(kv, k) /\ Full(kv)
    <2>1. property' = property /\ kv' = kv
        BY <1>1, <1>4 DEF Store, Insert
    <2>2. \A x \in Mine : ValueOf(x)' = ValueOf(x)
        BY <2>1 DEF ValueOf
    <2>3. QED BY <1>2, <1>3, <1>4, <2>1, <2>2
<1>5. CASE Has(kv, k) \/ ~Full(kv)
    <2>1. property' = [property EXCEPT ![k] = [value |-> v, major |-> firmware[Iface[k]]]]
        BY <1>5 DEF Store
    <2>2. /\ property'[k] = [value |-> v, major |-> firmware[Iface[k]]]
          /\ \A x \in Mine : x # k => property'[x] = property[x]
        BY <2>1 DEF DeviceOK
    <2>3. \A x \in Mine : x # k => ValueOf(x)' = ValueOf(x)
        BY <1>3, <2>2 DEF ValueOf
    <2>4. Has(kv', k) /\ ValueOf(k)' = v
        BY <1>2, <1>5, <2>2 DEF ValueOf
    <2>5. QED BY <1>2, <1>3, <1>5, <2>2, <2>3, <2>4
<1>6. QED BY <1>4, <1>5

\* What an erasure leaves of the values.
LEMMA EraseValues ==
    ASSUME DeviceOK, NEW k \in Keys, Erase(k)
    PROVE  \A x \in Mine : ValueOf(x)' = IF x = k THEN NULL ELSE ValueOf(x)
<1>1. \A x \in Mine : /\ Has(kv', x) <=> Has(kv, x) /\ x # k
                      /\ property'[x] = IF Has(kv, x) /\ x # k THEN property[x] ELSE NoProperty
    BY EraseKeeps, Constants
<1>2. QED BY <1>1 DEF ValueOf

\* What a deletion under the iterator leaves of the values.
LEMMA DeleteHereValues ==
    ASSUME Shaped, DeleteHere
    PROVE  /\ \A x \in Mine : Has(kv', x) => Has(kv, x) /\ ValueOf(x)' = ValueOf(x)
           /\ \A x \in DeviceOwned \ lost' : ValueOf(x)' = ValueOf(x)
           /\ lost \subseteq lost'
<1>1. /\ \A x \in Mine : property'[x] = IF Has(kv', x) THEN property[x] ELSE NoProperty
      /\ \A x \in Mine : Has(kv', x) => Has(kv, x)
      /\ kv' = IteratorDelete(kv, walk.cur).kv
    BY DeleteHereKeeps, Constants DEF Shaped
<1>2. lost' = lost \cup {k \in DeviceOwned : Has(kv, k) /\ ~Has(kv', k)}
    BY <1>1 DEF DeleteHere
<1>3. \A x \in Mine : Has(kv', x) => Has(kv, x) /\ ValueOf(x)' = ValueOf(x)
    BY <1>1 DEF ValueOf
<1>4. \A x \in DeviceOwned \ lost' : ValueOf(x)' = ValueOf(x)
    <2>1. ASSUME NEW x \in DeviceOwned \ lost' PROVE ValueOf(x)' = ValueOf(x)
        <3>1. x \in Mine /\ (Has(kv, x) => Has(kv', x))
            BY <1>2, Owned
        <3>2. CASE Has(kv, x)
            BY <1>3, <3>1, <3>2
        <3>3. CASE ~Has(kv, x)
            BY <1>1, <3>1, <3>3 DEF ValueOf
        <3>4. QED BY <3>2, <3>3
    <2>2. QED BY <2>1
<1>5. QED BY <1>2, <1>3, <1>4

\* Records of other namespaces change no value.
LEMMA ForeignValues ==
    ASSUME Shaped, NEW k \in Keys, Foreign(k)
    PROVE  \A x \in Mine : /\ ValueOf(x)' = ValueOf(x)
                           /\ Has(kv', x) <=> Has(kv, x)
                           /\ property'[x] = property[x]
<1>1. CASE Removes(k)
    <2>1. \A x \in Mine : /\ Has(kv', x) <=> Has(kv, x)
                          /\ property'[x] = IF Has(kv, x) THEN property[x] ELSE NoProperty
        BY <1>1, EraseKeeps, Constants DEF Foreign, Removes, Shaped
    <2>2. \A x \in Mine : ~Has(kv, x) => property[x] = NoProperty
        BY DEF Shaped, DeviceOK
    <2>3. QED BY <2>1, <2>2 DEF ValueOf
<1>2. CASE kv' = Insert(kv, k) /\ UNCHANGED property
    <2>1. \A x \in Keys : x # k => kv'.at[x] = kv.at[x]
        BY <1>2, InsertFacts DEF Shaped, DeviceOK
    <2>2. \A x \in Mine : Has(kv', x) <=> Has(kv, x)
        BY <2>1, Constants DEF Foreign, Has
    <2>3. QED BY <1>2, <2>2 DEF ValueOf
<1>3. QED BY <1>1, <1>2 DEF Foreign

-----------------------------------------------------------------------------
(* Towards Astarte. *)

\* The last queued message about k, or else Astarte, says v.
Says(k, v) ==
    \/ \E n \in DOMAIN queue :
          /\ queue[n].key = k /\ queue[n].value = v
          /\ \A m \in DOMAIN queue : queue[m].key = k => m <= n
    \/ cloud[k] = v /\ \A n \in DOMAIN queue : queue[n].key # k

\* What the store has of a property is said, unless a history tells otherwise or
\* the application is about to say it.
Uplink == \A k \in DeviceOwned \ (lost \cup {app.key}) : Says(k, ValueOf(k))

LEMMA UplinkSame ==
    ASSUME Uplink, UNCHANGED queue,
           \A k \in DeviceOwned \ (lost' \cup {app'.key}) :
              k \notin lost \cup {app.key} /\ ValueOf(k)' = ValueOf(k) /\ cloud'[k] = cloud[k]
    PROVE  Uplink'
<1>1. ASSUME NEW k \in DeviceOwned \ (lost' \cup {app'.key}) PROVE Says(k, ValueOf(k))'
    <2>1. Says(k, ValueOf(k)) /\ ValueOf(k)' = ValueOf(k) /\ cloud'[k] = cloud[k]
        BY <1>1 DEF Uplink
    <2>2. QED BY <2>1 DEF Says
<1>2. QED BY <1>1 DEF Uplink

\* The first message of the queue reaches Astarte.
LEMMA UplinkTransmit ==
    ASSUME Shaped, Uplink, Transmit
    PROVE  Uplink'
<1>1. /\ queue # <<>> /\ queue \in Seq(Reports)
      /\ cloud' = [cloud EXCEPT ![Head(queue).key] = Head(queue).value]
      /\ queue' = Tail(queue) /\ UNCHANGED <<kv, property, app, lost>>
    BY DEF Transmit, Shaped, LinkOK, device
<1>2. /\ Len(queue) \in Nat /\ Len(queue) >= 1 /\ DOMAIN queue = 1 .. Len(queue)
      /\ DOMAIN queue' = 1 .. Len(queue) - 1
      /\ \A n \in 1 .. Len(queue) - 1 : queue'[n] = queue[n + 1]
      /\ Head(queue) = queue[1] /\ queue[1] \in Reports
    BY <1>1
<1>3. queue[1].key \in Mine
    BY <1>2, Owned DEF Reports
<1>4. ASSUME NEW k \in DeviceOwned \ (lost' \cup {app'.key}) PROVE Says(k, ValueOf(k))'
    <2>1. Says(k, ValueOf(k)) /\ ValueOf(k)' = ValueOf(k) /\ k \in Mine
        BY <1>1, <1>4, Owned DEF Uplink, ValueOf
    <2> DEFINE v == ValueOf(k)
    <2>2. CASE cloud[k] = v /\ \A n \in DOMAIN queue : queue[n].key # k
        <3>1. queue[1].key # k
            BY <1>2, <2>2
        <3>2. cloud'[k] = v
            BY <1>1, <1>2, <2>1, <2>2, <3>1 DEF Shaped, LinkOK
        <3>3. \A n \in DOMAIN queue' : queue'[n].key # k
            BY <1>2, <2>2
        <3>4. QED BY <2>1, <3>2, <3>3 DEF Says
    <2>3. ASSUME NEW n \in DOMAIN queue, queue[n].key = k, queue[n].value = v,
                 \A m \in DOMAIN queue : queue[m].key = k => m <= n
          PROVE  Says(k, ValueOf(k))'
        <3>1. CASE n = 1
            <4>1. cloud'[k] = v
                BY <1>1, <1>2, <1>3, <2>1, <2>3, <3>1 DEF Shaped, LinkOK
            <4>2. \A m \in DOMAIN queue' : queue'[m].key # k
                BY <1>2, <2>3, <3>1
            <4>3. QED BY <2>1, <4>1, <4>2 DEF Says
        <3>2. CASE n # 1
            <4>1. n - 1 \in DOMAIN queue' /\ queue'[n - 1] = queue[n]
                BY <1>2, <3>2
            <4>2. \A m \in DOMAIN queue' : queue'[m].key = k => m <= n - 1
                BY <1>2, <2>3
            <4>3. QED BY <2>1, <2>3, <4>1, <4>2 DEF Says
        <3>3. QED BY <3>1, <3>2
    <2>4. QED BY <2>1, <2>2, <2>3 DEF Says
<1>5. QED BY <1>4 DEF Uplink

\* What the application has stored is queued, or lost when there is no connection.
LEMMA UplinkAppSend ==
    ASSUME Shaped, Uplink, AppSend
    PROVE  Uplink'
<1>1. /\ app.key # NULL /\ app \in Reports /\ queue \in Seq(Reports)
      /\ queue' = IF state \in {"connected", "end"} THEN Append(queue, app) ELSE queue
      /\ lost' = (IF queue' # queue /\ ValueOf(app.key) = app.value
                  THEN lost \ {app.key} ELSE lost \cup {app.key})
      /\ UNCHANGED <<kv, property, cloud>>
    BY DEF AppSend, Shaped, RestOK, LinkOK, Reports, device
<1>2. \A k \in Mine : ValueOf(k)' = ValueOf(k)
    BY <1>1 DEF ValueOf
<1>3. CASE queue' = queue
    <2>1. \A k \in DeviceOwned \ (lost' \cup {app'.key}) :
              k \notin lost \cup {app.key} /\ ValueOf(k)' = ValueOf(k) /\ cloud'[k] = cloud[k]
        BY <1>1, <1>2, <1>3, Owned
    <2>2. QED BY <1>3, <2>1, UplinkSame
<1>4. CASE queue' # queue
    <2>1. queue' = Append(queue, app)
        BY <1>1, <1>4
    <2>2. /\ Len(queue) \in Nat /\ DOMAIN queue = 1 .. Len(queue)
          /\ DOMAIN queue' = 1 .. Len(queue) + 1
          /\ \A n \in 1 .. Len(queue) : queue'[n] = queue[n]
          /\ queue'[Len(queue) + 1] = app
        BY <1>1, <2>1
    <2>3. ASSUME NEW k \in DeviceOwned \ (lost' \cup {app'.key}) PROVE Says(k, ValueOf(k))'
        <3>1. k \in Mine /\ ValueOf(k)' = ValueOf(k)
            BY <1>2, Owned
        <3>2. CASE k = app.key
            <4>1. ValueOf(k) = app.value
                BY <1>1, <1>4, <2>3, <3>2
            <4>2. QED BY <2>2, <3>1, <3>2, <4>1 DEF Says
        <3>3. CASE k # app.key
            <4>1. Says(k, ValueOf(k))
                BY <1>1, <2>3, <3>3 DEF Uplink
            <4> DEFINE v == ValueOf(k)
            <4>2. CASE cloud[k] = v /\ \A n \in DOMAIN queue : queue[n].key # k
                <5>1. \A n \in DOMAIN queue' : queue'[n].key # k
                    BY <2>2, <3>3, <4>2
                <5>2. QED BY <1>1, <3>1, <4>2, <5>1 DEF Says
            <4>3. ASSUME NEW n \in DOMAIN queue, queue[n].key = k, queue[n].value = v,
                         \A m \in DOMAIN queue : queue[m].key = k => m <= n
                  PROVE  Says(k, ValueOf(k))'
                <5>1. n \in DOMAIN queue' /\ queue'[n] = queue[n]
                    BY <2>2
                <5>2. \A m \in DOMAIN queue' : queue'[m].key = k => m <= n
                    BY <2>2, <3>3, <4>3
                <5>3. QED BY <3>1, <4>3, <5>1, <5>2 DEF Says
            <4>4. QED BY <4>1, <4>2, <4>3 DEF Says
        <3>4. QED BY <3>2, <3>3
    <2>4. QED BY <2>3 DEF Uplink
<1>5. QED BY <1>3, <1>4

\* Astarte drops what the list does not name: it was not there, or is lost.
LEMMA UplinkPublish ==
    ASSUME Shaped, Uplink, NEW list, Publish(list), UNCHANGED <<kv, property, queue, app>>
    PROVE  Uplink'
<1>1. /\ cloud' = [k \in Mine |-> IF k \in DeviceOwned \ list THEN NULL ELSE cloud[k]]
      /\ lost' = {k \in DeviceOwned : IF k \in list \/ (\E m \in Range(queue) : m.key = k)
                                      THEN k \in lost ELSE Has(kv, k)}
    BY DEF Publish
<1>2. ASSUME NEW k \in DeviceOwned \ (lost' \cup {app'.key}) PROVE Says(k, ValueOf(k))'
    <2>1. k \in Mine /\ k # app.key /\ ValueOf(k)' = ValueOf(k)
        BY <1>2, Owned DEF ValueOf
    <2>2. CASE k \in list
        <3>1. k \notin lost /\ cloud'[k] = cloud[k]
            BY <1>1, <1>2, <2>1, <2>2
        <3>2. Says(k, ValueOf(k))
            BY <1>2, <2>1, <3>1 DEF Uplink
        <3>3. QED BY <2>1, <3>1, <3>2 DEF Says
    <2>3. CASE \E m \in Range(queue) : m.key = k
        <3>1. k \notin lost
            BY <1>1, <1>2, <2>3
        <3>2. Says(k, ValueOf(k))
            BY <1>2, <2>1, <3>1 DEF Uplink
        <3>3. \E n \in DOMAIN queue : queue[n].key = k
            BY <2>3 DEF Range
        <3>4. QED BY <2>1, <3>2, <3>3 DEF Says
    <2>4. CASE k \notin list /\ ~ \E m \in Range(queue) : m.key = k
        <3>1. ~Has(kv, k) /\ cloud'[k] = NULL
            BY <1>1, <1>2, <2>1, <2>4
        <3>2. \A n \in DOMAIN queue : queue[n].key # k
            BY <2>4 DEF Range
        <3>3. ValueOf(k) = NULL
            BY <3>1 DEF ValueOf
        <3>4. QED BY <2>1, <3>1, <3>2, <3>3 DEF Says
    <2>5. QED BY <2>2, <2>3, <2>4
<1>3. QED BY <1>2 DEF Uplink

\* The inductive step of what is said to Astarte.
LEMMA UplinkStep == Shaped /\ Uplink /\ [Next]_vars => Uplink'
<1> SUFFICES ASSUME Shaped, Uplink, [Next]_vars PROVE Uplink'
    OBVIOUS
<1>1. ASSUME UNCHANGED <<queue, app>>, \A k \in DeviceOwned : cloud'[k] = cloud[k],
             lost \subseteq lost',
             \A k \in DeviceOwned \ lost' : ValueOf(k)' = ValueOf(k)
      PROVE  Uplink'
    BY <1>1, UplinkSame
<1>2. ASSUME UNCHANGED <<kv, property>> PROVE \A k \in Mine : ValueOf(k)' = ValueOf(k)
    BY <1>2 DEF ValueOf
<1>3. CASE UNCHANGED <<kv, property, queue, app, cloud, lost>>
    BY <1>1, <1>2, <1>3, Owned
<1>4. CASE Walk
    <2>1. Away
        BY <1>4 DEF Walk, GetFails, GetSizes, GetKey, AppendProperty, PurgeProperty, LoadProperty,
                    SendProperty, StoreAgain, MoveOn, EndSize, EndFill, EndSend, EndPurge
    <2>2. ASSUME DeleteHere, UNCHANGED cloud PROVE Uplink'
        BY <1>1, <2>1, <2>2, DeleteHereValues DEF Away
    <2>3. CASE GetFails \/ GetSizes \/ GetKey \/ LoadProperty \/ MoveOn \/ EndSend \/ EndPurge
        BY <1>3, <2>1, <2>3 DEF GetFails, GetSizes, GetKey, LoadProperty, MoveOn, EndSend, EndPurge,
                                Abort, Away
    <2>4. CASE PurgeProperty \/ SendProperty
        BY <1>3, <2>1, <2>2, <2>4 DEF PurgeProperty, SendProperty, Away
    <2>5. CASE AppendProperty
        <3>1. CASE UNCHANGED <<kv, property, cloud, lost>>
            BY <1>3, <2>1, <3>1 DEF Away
        <3>2. CASE /\ Erase(walk.key) /\ lost' = lost \cup ({walk.key} \cap DeviceOwned)
                   /\ UNCHANGED cloud
            <4>1. walk.key \in Keys
                BY <2>5, Constants DEF AppendProperty, WalkStep, Shaped, WalkOK, WalkShape
            <4>2. \A x \in Mine : ValueOf(x)' = IF x = walk.key THEN NULL ELSE ValueOf(x)
                BY <3>2, <4>1, EraseValues DEF Shaped
            <4>3. QED BY <1>1, <2>1, <3>2, <4>2, Owned DEF Away
        <3>3. QED BY <2>5, <3>1, <3>2 DEF AppendProperty, Abort
    <2>6. CASE StoreAgain
        <3>1. /\ Store(walk.key, walk.data.value) /\ UNCHANGED cloud
              /\ lost' = IF ValueOf(walk.key) = walk.data.value THEN lost ELSE lost \cup {walk.key}
            BY <2>6 DEF StoreAgain
        <3>2. walk.key \in DeviceOwned /\ walk.data.value \in Values
            BY <2>6 DEF StoreAgain, WalkStep, Shaped, WalkOK, WalkShape, Walks, Contents
        <3>3. PICK k \in DeviceOwned, v \in Values : k = walk.key /\ v = walk.data.value
            BY <3>2
        <3>4. /\ \A x \in Mine : x # k => ValueOf(x)' = ValueOf(x)
              /\ Has(kv, k) => ValueOf(k)' = v
            <4>1. Store(k, v) /\ k \in Mine /\ DeviceOK
                BY <3>1, <3>3, Owned DEF Shaped
            <4>2. QED BY <4>1, StoreValues
        <3>5. \A x \in DeviceOwned \ lost' : ValueOf(x)' = ValueOf(x)
            <4>1. ValueOf(k) = v => Has(kv, k)
                BY ValueAssumption DEF ValueOf
            <4>2. QED BY <3>1, <3>3, <3>4, <4>1, Owned
        <3>6. QED BY <1>1, <2>1, <3>1, <3>5 DEF Away
    <2>7. CASE EndSize \/ EndFill
        <3>1. CASE \E list \in SUBSET Mine : Publish(list)
            BY <2>1, <2>7, <3>1, UplinkPublish DEF Away, EndSize, EndFill
        <3>2. {} \in SUBSET Mine /\ walk.list \in SUBSET Mine
            BY DEF Shaped, WalkOK, Walks
        <3>3. CASE UNCHANGED <<cloud, lost>>
            BY <1>3, <2>1, <2>7, <3>3 DEF EndSize, EndFill, Away
        <3>4. QED BY <2>7, <3>1, <3>2, <3>3 DEF EndSize, EndFill
    <2>8. QED BY <1>4, <2>3, <2>4, <2>5, <2>6, <2>7 DEF Walk
<1>5. CASE Connected \/ ReceivePurge
    BY <1>3, <1>5 DEF Connected, ReceivePurge, device
<1>6. CASE Transmit
    BY <1>6, UplinkTransmit
<1>7. CASE ReceiveSet \/ ReceiveUnset
    <2>1. UNCHANGED <<app, queue, cloud, lost>> /\ Receives("set")
        BY <1>7 DEF ReceiveSet, ReceiveUnset
    <2>2. Head(down) \in [type : {"set"}, key : ServerOwned, value : Values \cup {NULL}]
        <3>1. down # <<>> /\ Head(down).type = "set" /\ down \in Seq(Downlinks)
            BY <2>1 DEF Receives, Shaped, LinkOK
        <3>2. Head(down) \in Downlinks
            BY <3>1
        <3>3. QED BY <3>1, <3>2 DEF Downlinks
    <2>3. Head(down).key \in Mine /\ Head(down).key \notin DeviceOwned /\ Mine \subseteq Keys
        BY <2>2, Owned, Constants
    <2>4. \A k \in DeviceOwned : ValueOf(k)' = ValueOf(k)
        <3>1. CASE UNCHANGED <<kv, property>>
            BY <1>2, <3>1, Owned
        <3>2. CASE ReceiveSet /\ Store(Head(down).key, Head(down).value)
            <4>1. Head(down).value \in Values
                BY <2>2, <3>2 DEF ReceiveSet
            <4>2. QED BY <2>3, <3>2, <4>1, StoreValues, Owned DEF Shaped
        <3>3. CASE Erase(Head(down).key)
            BY <2>3, <3>3, EraseValues, Owned DEF Shaped
        <3>4. QED BY <1>7, <3>1, <3>2, <3>3 DEF ReceiveSet, ReceiveUnset
    <2>5. QED BY <1>1, <2>1, <2>4
<1>8. ASSUME NEW k \in DeviceOwned, app = IdleApp, app'.key = k, UNCHANGED <<queue, cloud, lost>>,
             \A x \in Mine : x # k => ValueOf(x)' = ValueOf(x)
      PROVE  Uplink'
    <2>1. \A x \in DeviceOwned \ (lost' \cup {app'.key}) :
              x \notin lost \cup {app.key} /\ ValueOf(x)' = ValueOf(x) /\ cloud'[x] = cloud[x]
        BY <1>8, Owned DEF IdleApp
    <2>2. QED BY <1>8, <2>1, UplinkSame
<1>9. ASSUME NEW k \in DeviceOwned, NEW v \in Values, AppSet(k, v) PROVE Uplink'
    BY <1>8, <1>9, StoreValues, Owned DEF AppSet, Shaped
<1>10. ASSUME NEW k \in DeviceOwned, AppUnset(k) PROVE Uplink'
    BY <1>8, <1>10, EraseValues, Owned, Constants DEF AppUnset, Removes, Shaped
<1>11. CASE AppSend
    BY <1>11, UplinkAppSend
<1>12. ASSUME NEW k \in Keys, Foreign(k) PROVE Uplink'
    <2>1. UNCHANGED <<queue, app, cloud, lost>>
        BY <1>12 DEF Foreign
    <2>2. QED BY <1>1, <1>12, <2>1, ForeignValues, Owned
<1>13. ASSUME NEW present \in BOOLEAN, Connect(present) PROVE Uplink'
    BY <1>3, <1>13 DEF Connect, device
<1>14. CASE Disconnect
    BY <1>3, <1>14 DEF Disconnect, device
<1>15. ASSUME NEW f \in Firmwares, Reboot(f) PROVE Uplink'
    <2>1. /\ app' = IdleApp /\ lost' = (IF app = IdleApp THEN lost ELSE lost \cup {app.key})
          /\ UNCHANGED <<kv, property, queue, cloud>>
        BY <1>15 DEF Reboot
    <2>2. \A x \in DeviceOwned \ (lost' \cup {app'.key}) :
              x \notin lost \cup {app.key} /\ ValueOf(x)' = ValueOf(x) /\ cloud'[x] = cloud[x]
        BY <1>2, <2>1, Owned DEF IdleApp
    <2>3. QED BY <2>1, <2>2, UplinkSame
<1>16. ASSUME NEW k \in ServerOwned, NEW v \in Values \cup {NULL}, ServerChange(k, v) PROVE Uplink'
    <2>1. /\ cloud' = [cloud EXCEPT ![k] = v] /\ UNCHANGED <<kv, property, app, queue, lost>>
        BY <1>16 DEF ServerChange, device
    <2>2. \A x \in DeviceOwned : cloud'[x] = cloud[x]
        BY <2>1, Owned DEF Shaped, LinkOK
    <2>3. QED BY <1>1, <1>2, <2>1, <2>2, Owned
<1>17. CASE UNCHANGED vars
    BY <1>3, <1>17 DEF vars, device
<1>18. QED BY <1>4, <1>5, <1>6, <1>7, <1>9, <1>10, <1>11, <1>12, <1>13, <1>14, <1>15, <1>16, <1>17
       DEF Next, Worker, Application, Environment

LEMMA UplinkInit == Init => Uplink
<1> SUFFICES ASSUME Init, NEW k \in DeviceOwned PROVE Says(k, ValueOf(k))
    BY DEF Uplink
<1>1. Shaped /\ k \in Mine /\ k \notin ServerOwned
    BY ShapedInit, Owned
<1>2. PICK unset \in {{}, ServerOwned} :
          cloud = [x \in Mine |-> IF x \in unset THEN NULL ELSE property[x].value]
    BY DEF Init
<1>3. cloud[k] = property[k].value
    BY <1>1, <1>2
<1>4. ValueOf(k) = property[k].value
    BY <1>1 DEF Shaped, DeviceOK, ValueOf
<1>5. queue = <<>>
    BY DEF Init
<1>6. QED BY <1>3, <1>4, <1>5 DEF Says

\* Whatever was changed, discarded, erased or overwritten in whatever order: once
\* the device is connected and its queue is empty, Astarte has what the device
\* stores of every property that is not in lost.
THEOREM UplinkAgreement == Spec => []UplinkAgrees
<1>1. Uplink => UplinkAgrees
    <2> SUFFICES ASSUME Uplink, Settled, queue = <<>>, NEW k \in DeviceOwned \ lost
                 PROVE  cloud[k] = ValueOf(k)
        BY DEF UplinkAgrees
    <2>1. k # app.key
        BY Owned DEF Settled, IdleApp
    <2>2. QED BY <2>1 DEF Uplink, Says
<1>2. Spec => []Uplink
    BY UplinkInit, UplinkStep, AlwaysShaped, PTL DEF Spec
<1>3. QED BY <1>1, <1>2, PTL

-----------------------------------------------------------------------------
(* What a walk has seen to. *)

Here == KeyAt(kv, walk.cur)
\* A property that stays in a purge.
Fits(k) == Known(k) /\ (k \in ServerOwned => k \in walk.list)
\* What a walk owes to a property that it has passed.
Done(k) ==
    /\ walk.kind = "size" /\ k \in walk.before \cap DeviceOwned => walk.size > 0
    /\ walk.kind = "fill" /\ k \in walk.before \cap DeviceOwned => k \in walk.list
    /\ walk.kind = "send" => Known(k) /\ property[k].major = firmware[Iface[k]]
    /\ walk.kind = "purge" => Fits(k)
\* The walks of which the properties speak.
Sheltered ==
    /\ walk.kind # "none" /\ ~walk.disturbed
    /\ walk.kind \in {"size", "fill"} => NoForgotten
\* The records that lie behind the walk: those up to the one the iterator stands
\* on once it is handled, those before it until then.
Passing(k) ==
    \/ walk.pc = "end"
    \/ walk.pc = "next" /\ walk.cur # NULL /\ Place(kv, k) <= Place(kv, Here)
    \/ walk.pc \notin {"next", "end"} /\ Place(kv, k) < Place(kv, Here)
Stands ==
    /\ walk.pc \notin {"next", "end"} => Here \in Mine
    /\ walk.pc = "next" /\ walk.cur # NULL => Here # NULL
    /\ walk.pc \in {"handle", "load", "store"} => walk.key = Here
    /\ walk.pc = "store" => Known(walk.key)
Loaded ==
    walk.pc = "handle" /\ walk.kind = "send" => property[walk.key] = walk.data \/ Done(walk.key)
AllDone == \A k \in Props : Passing(k) => Done(k)
Gathered ==
    /\ walk.kind \in {"size", "fill"} =>
            walk.before \subseteq Props /\ \A k \in Props : k \in walk.before \/ Known(k)
    /\ walk.kind = "purge" => \A k \in walk.before : Fits(k) => Has(kv, k)
Walked == Sheltered => Stands /\ Loaded /\ AllDone /\ Gathered

LEMMA WalkedSame ==
    ASSUME Walked, UNCHANGED <<kv, property, firmware, walk>>
    PROVE  Walked'
BY DEF Walked, Sheltered, NoForgotten, Stands, Loaded, AllDone, Gathered, Here, Fits, Done, Passing,
       Known, Props

\* A sheltered walk stands on the record it read.
LEMMA HereIs ==
    ASSUME Shaped, Here # NULL
    PROVE  Here \in Stored(kv) /\ Here \in Keys /\ kv.at[Here] = walk.cur
<1>1. kv \in Stores /\ walk.cur \in IdsOrNull
    BY DEF Shaped, DeviceOK, WalkOK, Walks
<1>2. QED BY <1>1, StandsOn DEF Here, Stored

\* A walk that begins has passed nothing.
LEMMA WalkedStarts ==
    ASSUME Shaped, UNCHANGED <<kv, property, firmware>>, walk' \in Walks,
           walk'.kind # "none", walk'.cur = Advance(kv, NULL), walk'.before = Props,
           walk'.pc = IF Advance(kv, NULL) = NULL THEN "end" ELSE "sizes"
    PROVE  Walked'
<1> DEFINE c == Advance(kv, NULL)
<1>1. ~Lost(kv, NULL) /\ NULL \in IdsOrNull /\ kv \in Stores /\ Sound(kv)
    BY DEF Lost, IdsOrNull, Shaped, DeviceOK
<1>2. /\ c # NULL => KeyAt(kv, c) \in Stored(kv) \cap Mine
      /\ \A k \in Props : ~(c = NULL \/ Place(kv, k) < Place(kv, KeyAt(kv, c)))
    BY <1>1, AdvanceFacts DEF Props
<1> HIDE DEF c
<1>3. walk'.cur = c /\ walk'.pc = IF c = NULL THEN "end" ELSE "sizes"
    BY DEF c
<1>4. Here' = KeyAt(kv, c) /\ Props' = Props
    BY <1>3 DEF Here, Props
<1>5. Stands' /\ Loaded'
    BY <1>2, <1>3, <1>4 DEF Stands, Loaded
<1>6. AllDone'
    <2>1. \A k \in Props : ~Passing(k)'
        BY <1>2, <1>3, <1>4 DEF Passing
    <2>2. QED BY <1>4, <2>1 DEF AllDone
<1>7. Gathered'
    BY <1>4 DEF Gathered, Props, Stored
<1>8. QED BY <1>5, <1>6, <1>7 DEF Walked

\* A new record is the last one: the others keep their places.
LEMMA InsertKeepsPlaces ==
    ASSUME NEW st \in Stores, Sound(st), NEW k \in Keys, NEW i \in IdsOrNull, KeyAt(st, i) # NULL
    PROVE  KeyAt(Insert(st, k), i) = KeyAt(st, i) /\ KeyAt(st, i) \in Stored(st)
<1> DEFINE x == KeyAt(st, i)
           new == Insert(st, k)
<1>1. i \in Ids /\ x \in Stored(st) /\ x \in Keys /\ st.at[x] = i
    BY StandsOn DEF Stored
<1>2. new \in Stores /\ Sound(new) /\ (x # k => new.at[x] = st.at[x]) /\ (Has(st, k) => new = st)
    BY <1>1, InsertFacts
<1>3. new.at[x] = i
    BY <1>1, <1>2 DEF Stored
<1> HIDE DEF x, new
<1>4. KeyAt(new, i) = x
    BY <1>1, <1>2, <1>3, KeyAtIs, SoundIs DEF Orderly
<1>5. QED BY <1>1, <1>4 DEF x, new

\* A record that is stored or stored again does not mislead a walk.
LEMMA WalkedGrows ==
    ASSUME Shaped, Walked, UNCHANGED <<firmware, walk>>, NEW k \in Keys, kv' = Insert(kv, k),
           \A x \in Mine \ {k} : property'[x] = property[x],
           Has(kv', k),
           k \in Mine => k \in DeviceOwned /\ Known(k) /\ property'[k].major = firmware[Iface[k]]
    PROVE  Walked'
<1> SUFFICES ASSUME Sheltered' PROVE (Stands /\ Loaded /\ AllDone /\ Gathered)'
    BY DEF Walked
<1>1. Sheltered /\ Stands /\ Loaded /\ AllDone /\ Gathered
    BY DEF Walked, Sheltered, NoForgotten, Known
<1>2. kv \in Stores /\ Sound(kv) /\ walk.cur \in IdsOrNull /\ Mine \subseteq Keys
    BY Constants DEF Shaped, DeviceOK, WalkOK, Walks
<1>3. \A x \in Keys : x # k => (Has(kv', x) <=> Has(kv, x))
    BY <1>2, InsertFacts DEF Has
<1>4. Here # NULL => Here' = Here /\ Here \in Stored(kv)
    BY <1>2, InsertKeepsPlaces DEF Here
<1>5. \A x \in Stored(kv) : Place(kv', x) = Place(kv, x)
    BY <1>2, InsertOrder
<1>6. NULL \notin Mine /\ \A x \in Mine : Known(x)' <=> Known(x)
    BY Constants DEF Known
<1>7. Stands'
    <2>1. walk.pc \in {"handle", "load", "store"} => walk.key \in Mine
        BY DEF Shaped, WalkOK, WalkShape
    <2>2. walk.pc \notin {"next", "end"} => Here # NULL
        BY <1>1, <1>6 DEF Stands
    <2>3. QED BY <1>1, <1>4, <1>6, <2>1, <2>2 DEF Stands
\* k itself: it is settled, or the walk has nothing to settle about it.
<1>8. k \in Mine => Done(k)' \/ (Has(kv, k) /\ walk.kind \in {"size", "fill"})
    <2>1. SUFFICES ASSUME k \in Mine, ~(Has(kv, k) /\ walk.kind \in {"size", "fill"}) PROVE Done(k)'
        OBVIOUS
    <2>2. walk.kind \in {"size", "fill"} => k \notin walk.before
        BY <1>1, <2>1 DEF Gathered, Props, Stored
    <2>3. Fits(k)'
        BY <1>6, <2>1, Owned DEF Fits
    <2>4. QED BY <1>6, <2>1, <2>2, <2>3 DEF Done
<1>9. \A x \in Mine : Fits(x)' <=> Fits(x)
    BY <1>6 DEF Fits
<1>10. \A x \in Mine \ {k} : Done(x)' <=> Done(x)
    BY <1>6, <1>9 DEF Done
<1>11. k \in Mine /\ walk.kind \in {"size", "fill"} => (Done(k)' <=> Done(k))
    BY DEF Done
<1>12. Loaded'
    <2>1. SUFFICES ASSUME walk.pc = "handle", walk.kind = "send"
                   PROVE  property'[walk.key] = walk.data \/ Done(walk.key)'
        BY DEF Loaded
    <2>2. PICK x \in Mine : x = walk.key
        BY <2>1 DEF Shaped, WalkOK, WalkShape
    <2>3. property[x] = walk.data \/ Done(x)
        BY <1>1, <2>1, <2>2 DEF Loaded
    <2>4. property'[x] = walk.data \/ Done(x)'
        BY <1>8, <1>10, <2>1, <2>2, <2>3
    <2>5. QED BY <2>2, <2>4
<1>13. AllDone'
    <2>1. ASSUME NEW x \in Props', Passing(x)' PROVE Done(x)'
        <3>1. x \in Mine /\ x \in Keys
            BY <1>2, <2>1 DEF Props
        <3>2. CASE Has(kv, x)
            <4>1. x \in Props /\ Place(kv', x) = Place(kv, x)
                BY <1>5, <3>1, <3>2 DEF Props, Stored
            <4>2. Passing(x)
                BY <1>1, <1>4, <1>5, <1>6, <2>1, <4>1 DEF Passing, Stands
            <4>3. Done(x)
                BY <1>1, <4>1, <4>2 DEF AllDone
            <4>4. QED BY <1>8, <1>10, <1>11, <3>1, <4>3
        <3>3. CASE ~Has(kv, x)
            <4>1. x = k
                BY <1>3, <2>1, <3>1, <3>3 DEF Props, Stored
            <4>2. QED BY <1>8, <3>1, <3>3, <4>1
        <3>4. QED BY <3>2, <3>3
    <2>2. QED BY <2>1 DEF AllDone
<1>14. Gathered'
    <2>1. Props \subseteq Props' /\ Props' \subseteq Props \cup {k}
        BY <1>2, <1>3 DEF Props, Stored
    <2>2. walk.before \subseteq Mine
        BY DEF Shaped, WalkOK, Walks
    <2>3. walk.kind \in {"size", "fill"} => walk.before \subseteq Props'
        BY <1>1, <2>1 DEF Gathered
    <2>4. walk.kind \in {"size", "fill"} => \A x \in Props' : x \in walk.before \/ Known(x)'
        BY <1>1, <1>6, <2>1 DEF Gathered, Props
    <2>5. walk.kind = "purge" => \A x \in walk.before : Fits(x)' => Has(kv', x)
        BY <1>1, <1>2, <1>3, <1>9, <2>2 DEF Gathered
    <2>6. QED BY <2>3, <2>4, <2>5 DEF Gathered
<1>15. QED BY <1>7, <1>12, <1>13, <1>14

LEMMA PassedFields ==
    ASSUME WalkOK, NEW c \in IdsOrNull
    PROVE  LET w == [Passed EXCEPT !.cur = c]
           IN  /\ w.kind = walk.kind /\ w.pc = "next" /\ w.cur = c /\ w.key = NULL
               /\ w.size = walk.size /\ w.list = walk.list /\ w.before = walk.before
               /\ w.disturbed = walk.disturbed
BY DEF Passed, WalkOK, Walks

\* The walk has handled the record it stands on, and it is done.
LEMMA WalkedPasses ==
    ASSUME Shaped, Walked, UNCHANGED <<kv, firmware>>, walk.pc \in {"handle", "store"},
           walk'.pc = "next", walk'.cur = walk.cur, walk'.kind = walk.kind,
           walk'.before = walk.before, walk'.disturbed = walk.disturbed,
           walk.kind = "purge" => walk'.list = walk.list,
           NEW h \in Mine, h = walk.key, Sheltered => Done(h)',
           \A k \in Mine : Done(k) => Done(k)'
    PROVE  Walked'
<1> SUFFICES ASSUME Sheltered' PROVE (Stands /\ Loaded /\ AllDone /\ Gathered)'
    BY DEF Walked
<1>1. Sheltered /\ Stands /\ AllDone /\ Gathered
    BY DEF Walked, Sheltered, NoForgotten, Known
<1>2. Here' = Here /\ Props' = Props /\ \A k : Place(kv', k) = Place(kv, k)
    BY DEF Here, Props
<1>3. Here = walk.key /\ Here \in Mine /\ Here # NULL
    BY <1>1, Constants DEF Stands
<1>4. Stands' /\ Loaded'
    BY <1>2, <1>3 DEF Stands, Loaded
<1>5. AllDone'
    <2>1. ASSUME NEW k \in Props, Passing(k)' PROVE Done(k)'
        <3>1. Place(kv, k) <= Place(kv, Here) /\ k \in Mine /\ k \in Stored(kv)
            BY <1>2, <2>1 DEF Passing, Props
        <3>2. /\ Place(kv, k) \in 1 .. Len(kv.list) /\ kv.list[Place(kv, k)] = k
              /\ Place(kv, Here) \in 1 .. Len(kv.list) /\ kv.list[Place(kv, Here)] = Here
              /\ Len(kv.list) \in Nat
            BY <1>3, <3>1, HereIs, PlaceIs, SoundIs DEF Shaped, DeviceOK
        <3>3. CASE Place(kv, k) < Place(kv, Here)
            <4>1. Passing(k)
                BY <3>3 DEF Passing
            <4>2. QED BY <1>1, <2>1, <3>1, <4>1 DEF AllDone
        <3>4. CASE Place(kv, k) = Place(kv, Here)
            <4>1. k = h
                BY <1>3, <3>2, <3>4
            <4>2. QED BY <1>1, <4>1
        <3>5. QED BY <3>1, <3>2, <3>3, <3>4
    <2>2. QED BY <1>2, <2>1 DEF AllDone
<1>6. Gathered'
    BY <1>1, <1>2 DEF Gathered, Known, Fits
<1>7. QED BY <1>4, <1>5, <1>6

\* The walk deletes the record it stands on.
LEMMA WalkedDeletes ==
    ASSUME Shaped, Walked, DeleteHere, UNCHANGED firmware, walk.pc = "handle",
           walk.kind \in {"send", "purge"}, walk.kind = "purge" => ~Fits(walk.key)
    PROVE  Walked'
<1> SUFFICES ASSUME Sheltered' PROVE (Stands /\ Loaded /\ AllDone /\ Gathered)'
    BY DEF Walked
<1> DEFINE d == IteratorDelete(kv, walk.cur)
<1>1. /\ walk' = [Passed EXCEPT !.cur = d.cur] /\ kv' = d.kv
      /\ \A x \in Mine : property'[x] = IF Has(kv', x) THEN property[x] ELSE NoProperty
      /\ DeviceOK'
    BY DeleteHereKeeps DEF Shaped
<1>2. kv \in Stores /\ Sound(kv) /\ walk.cur \in IdsOrNull /\ WalkOK /\ Mine \subseteq Keys
    BY Constants DEF Shaped, DeviceOK, WalkOK, Walks
<1>3. d.cur \in IdsOrNull
    BY <1>2, IteratorDeleteFacts
<1> HIDE DEF d
<1>4. /\ walk'.kind = walk.kind /\ walk'.pc = "next" /\ walk'.cur = d.cur /\ walk'.key = NULL
      /\ walk'.size = walk.size /\ walk'.list = walk.list /\ walk'.before = walk.before
      /\ walk'.disturbed = walk.disturbed
    BY <1>1, <1>2, <1>3, PassedFields
<1>5. Sheltered /\ Stands /\ AllDone /\ Gathered
    BY <1>4 DEF Walked, Sheltered, NoForgotten, Known
<1>6. Here = walk.key /\ Here \in Mine /\ Here # NULL
    BY <1>5, Constants DEF Stands
<1>7. /\ d.kv = Delete(kv, Here)
      /\ d.cur # NULL =>
           /\ KeyAt(d.kv, d.cur) # NULL
           /\ \A k \in Stored(d.kv) \cap Mine :
                Place(d.kv, k) <= Place(d.kv, KeyAt(d.kv, d.cur)) => Place(kv, k) < Place(kv, Here)
    BY <1>2, <1>6, IteratorDeleteFacts DEF Here, d
<1>8. Here' = KeyAt(d.kv, d.cur)
    BY <1>1, <1>4 DEF Here
<1>9. \A x \in Keys : Has(kv', x) <=> Has(kv, x) /\ x # Here
    BY <1>1, <1>2, <1>6, <1>7, DeleteFacts
<1>10. Stands' /\ Loaded'
    BY <1>4, <1>7, <1>8 DEF Stands, Loaded
<1>11. \A k \in Mine : (Known(k)' <=> Known(k)) /\ (Fits(k)' <=> Fits(k))
    BY <1>4 DEF Known, Fits
<1>12. AllDone'
    <2>1. ASSUME NEW k \in Props', Passing(k)' PROVE Done(k)'
        <3>1. k \in Mine /\ Has(kv', k) /\ k \in Stored(d.kv)
            BY <1>1, <2>1 DEF Props, Stored
        <3>2. d.cur # NULL /\ Place(d.kv, k) <= Place(d.kv, KeyAt(d.kv, d.cur))
            BY <1>1, <1>4, <1>8, <2>1 DEF Passing
        <3>3. Place(kv, k) < Place(kv, Here)
            BY <1>7, <3>1, <3>2
        <3>4. k \in Props /\ Passing(k)
            BY <1>2, <1>9, <3>1, <3>3 DEF Props, Stored, Passing
        <3>5. Done(k)
            BY <1>5, <3>4 DEF AllDone
        <3>6. property'[k] = property[k]
            BY <1>1, <3>1
        <3>7. QED BY <1>4, <1>11, <3>1, <3>5, <3>6 DEF Done
    <2>2. QED BY <2>1 DEF AllDone
<1>13. Gathered'
    <2>1. walk.before \subseteq Mine
        BY <1>2 DEF WalkOK, Walks
    <2>2. walk.kind = "purge" => \A k \in walk.before : Fits(k) => Has(kv', k)
        BY <1>2, <1>5, <1>6, <1>9, <2>1 DEF Gathered
    <2>3. QED BY <1>4, <1>11, <2>1, <2>2 DEF Gathered
<1>14. QED BY <1>10, <1>12, <1>13

\* Going on to the next record passes none.
LEMMA WalkedMoves ==
    ASSUME Shaped, Walked, MoveOn
    PROVE  Walked'
<1> SUFFICES ASSUME Sheltered' PROVE (Stands /\ Loaded /\ AllDone /\ Gathered)'
    BY DEF Walked
<1> DEFINE c == Advance(kv, walk.cur)
<1>1. /\ walk' = [walk EXCEPT !.cur = c, !.pc = IF c = NULL THEN "end" ELSE "sizes"]
      /\ walk.pc = "next" /\ UNCHANGED <<kv, property, firmware>>
    BY DEF MoveOn, WalkStep, Away
<1>2. kv \in Stores /\ Sound(kv) /\ walk.cur \in IdsOrNull /\ walk \in Walks
    BY DEF Shaped, DeviceOK, WalkOK, Walks
<1> HIDE DEF c
<1>3. /\ walk'.kind = walk.kind /\ walk'.cur = c /\ walk'.pc = IF c = NULL THEN "end" ELSE "sizes"
      /\ walk'.list = walk.list /\ walk'.before = walk.before /\ walk'.size = walk.size
      /\ walk'.disturbed = walk.disturbed
    BY <1>1, <1>2 DEF Walks
<1>4. Sheltered /\ Stands /\ AllDone /\ Gathered
    BY <1>1, <1>3 DEF Walked, Sheltered, NoForgotten, Known
<1>5. ~Lost(kv, walk.cur)
    BY <1>1, <1>4 DEF Stands, Lost, Here
<1>6. /\ c # NULL => KeyAt(kv, c) \in Stored(kv) \cap Mine
      /\ \A k \in Props : c = NULL \/ Place(kv, k) < Place(kv, KeyAt(kv, c))
                            => walk.cur # NULL /\ Place(kv, k) <= Place(kv, Here)
    BY <1>2, <1>5, AdvanceFacts DEF c, Props, Here
<1>7. Here' = KeyAt(kv, c) /\ Props' = Props
    BY <1>1, <1>3 DEF Here, Props
<1>8. Stands' /\ Loaded'
    BY <1>3, <1>6, <1>7 DEF Stands, Loaded
<1>9. \A k \in Mine : Done(k)' <=> Done(k)
    BY <1>1, <1>3 DEF Done, Fits, Known
<1>10. \A k \in Props : Passing(k)' => Passing(k)
    BY <1>1, <1>3, <1>6, <1>7 DEF Passing
<1>11. AllDone'
    BY <1>4, <1>7, <1>9, <1>10 DEF AllDone, Props
<1>12. Gathered'
    BY <1>1, <1>3, <1>4, <1>7 DEF Gathered, Fits, Known
<1>13. QED BY <1>8, <1>11, <1>12

\* Reading changes no record that was passed.
LEMMA WalkedReads ==
    ASSUME Shaped, Walked, GetSizes \/ GetKey \/ LoadProperty, walk'.kind # "none"
    PROVE  Walked'
<1>1. /\ UNCHANGED <<kv, property, firmware>> /\ walk.pc \in {"sizes", "key", "load"}
      /\ walk' \in Walks /\ walk \in Walks
      /\ \/ /\ walk.pc = "sizes" /\ walk' = [walk EXCEPT !.pc = "key", !.seen = KeyAt(kv, walk.cur)]
         \/ /\ walk.pc = "key"
            /\ walk' = [walk EXCEPT !.pc = IF walk.kind = "send" THEN "load" ELSE "handle",
                                    !.key = KeyAt(kv, walk.cur), !.seen = NULL]
         \/ /\ walk.pc = "load" /\ walk' = [walk EXCEPT !.pc = "handle", !.data = property[walk.key]]
    <2>1. ~Abort
        BY DEF Abort, NoWalk
    <2>2. walk' \in Walks
        BY ReadSteps DEF Shaped, WalkOK
    <2>3. QED BY <2>1, <2>2 DEF GetSizes, GetKey, LoadProperty, WalkStep, Away, Shaped, WalkOK
<1>2. /\ walk'.kind = walk.kind /\ walk'.cur = walk.cur /\ walk'.pc \in {"key", "handle", "load"}
      /\ walk'.list = walk.list /\ walk'.before = walk.before /\ walk'.size = walk.size
      /\ walk'.disturbed = walk.disturbed
      /\ walk'.pc \in {"handle", "load"} => walk'.key = walk.key \/ walk'.key = Here
      /\ walk'.pc \in {"handle", "load"} /\ walk'.key # Here => walk.pc = "load"
      /\ walk'.pc = "handle" /\ walk'.kind = "send" =>
            walk'.data = property[walk.key] /\ walk'.key = walk.key
    <2>1. CASE walk.pc = "sizes"
        BY <1>1, <2>1 DEF Walks
    <2>2. CASE walk.pc = "key"
        <3> DEFINE pc == IF walk.kind = "send" THEN "load" ELSE "handle"
        <3>1. walk' = [walk EXCEPT !.pc = pc, !.key = Here, !.seen = NULL]
            BY <1>1, <2>2 DEF Here
        <3>2. walk'.kind = walk.kind /\ walk'.cur = walk.cur /\ walk'.pc = pc
              /\ walk'.list = walk.list /\ walk'.before = walk.before /\ walk'.size = walk.size
              /\ walk'.disturbed = walk.disturbed /\ walk'.key = Here
            BY <1>1, <3>1 DEF Walks
        <3>3. QED BY <2>2, <3>2
    <2>3. CASE walk.pc = "load"
        BY <1>1, <2>3 DEF Walks
    <2>4. QED BY <1>1, <2>1, <2>2, <2>3
<1> SUFFICES ASSUME Sheltered' PROVE (Stands /\ Loaded /\ AllDone /\ Gathered)'
    BY DEF Walked
<1>3. Sheltered /\ Stands /\ AllDone /\ Gathered
    BY <1>1, <1>2 DEF Walked, Sheltered, NoForgotten, Known
<1>4. Here' = Here /\ Props' = Props /\ Here \in Mine
    BY <1>1, <1>2, <1>3 DEF Here, Props, Stands
<1>5. Stands'
    BY <1>1, <1>2, <1>3, <1>4 DEF Stands
<1>6. Loaded'
    BY <1>1, <1>2 DEF Loaded
<1>7. \A k \in Mine : Done(k)' <=> Done(k)
    BY <1>1, <1>2 DEF Done, Fits, Known
<1>8. \A k \in Props : Passing(k)' => Passing(k)
    BY <1>1, <1>2, <1>4 DEF Passing
<1>9. AllDone'
    BY <1>3, <1>4, <1>7, <1>8 DEF AllDone, Props
<1>10. Gathered'
    BY <1>1, <1>2, <1>3, <1>4 DEF Gathered, Fits, Known
<1>11. QED BY <1>5, <1>6, <1>9, <1>10

LEMMA WalkedEnds == ASSUME walk' = NoWalk PROVE Walked'
BY DEF Walked, Sheltered, NoWalk

\* A key that is counted or appended to the list is done.
LEMMA WalkedAppend ==
    ASSUME Shaped, Walked, AppendProperty
    PROVE  Walked'
<1>1. walk.pc = "handle" /\ walk.kind \in {"size", "fill"} /\ walk \in Walks /\ WalkOK
      /\ walk.cur \in IdsOrNull /\ UNCHANGED firmware
    BY DEF AppendProperty, WalkStep, Away, Shaped, WalkOK, Walks
<1>2. PICK h \in Mine : h = walk.key
    BY <1>1 DEF Shaped, WalkOK, WalkShape
<1> DEFINE p == Passed
<1>3. /\ p.kind = walk.kind /\ p.pc = "next" /\ p.cur = walk.cur /\ p.size = walk.size
      /\ p.list = walk.list /\ p.before = walk.before /\ p.disturbed = walk.disturbed
      /\ p \in Walks
    <2>1. Passed = [Passed EXCEPT !.cur = walk.cur] /\ [Passed EXCEPT !.cur = walk.cur] \in Walks
        BY <1>1, PassedOK
    <2>2. QED BY <1>1, <2>1, PassedFields
<1> HIDE DEF p
<1>4. CASE Abort
    BY <1>4, WalkedEnds DEF Abort
<1>5. ASSUME ~Known(h), walk'.before = walk.before, walk'.kind = walk.kind,
             walk'.disturbed = walk.disturbed
      PROVE  Walked'
    <2>1. SUFFICES ASSUME Sheltered' PROVE FALSE
        BY DEF Walked
    <2>2. Sheltered /\ Stands /\ Gathered
        BY <1>1, <1>5, <2>1 DEF Walked, Sheltered, NoForgotten, Known
    <2>3. h = Here /\ Here # NULL
        BY <1>1, <1>2, <2>2, Constants DEF Stands
    <2>4. h \in Props
        BY <1>2, <2>3, HereIs DEF Props
    <2>5. QED BY <1>1, <1>5, <2>2, <2>4 DEF Gathered, Sheltered, NoForgotten
<1>6. ASSUME UNCHANGED kv, walk'.kind = walk.kind, walk'.pc = "next", walk'.cur = walk.cur,
             walk'.before = walk.before, walk'.disturbed = walk.disturbed,
             walk.kind = "size" => walk'.size = walk.size \/ walk'.size > 0,
             walk.kind = "fill" => walk.list \subseteq walk'.list,
             h \in DeviceOwned => /\ walk.kind = "size" => walk'.size > 0
                                  /\ walk.kind = "fill" => h \in walk'.list
      PROVE  Walked'
    <2>1. Done(h)'
        BY <1>1, <1>6 DEF Done
    <2>2. \A k \in Mine : Done(k) => Done(k)'
        BY <1>1, <1>6 DEF Done
    <2>3. QED BY <1>1, <1>2, <1>6, <2>1, <2>2, WalkedPasses
<1>7. CASE ~Known(walk.key) /\ walk' = p
    BY <1>2, <1>3, <1>5, <1>7
<1>8. CASE walk.key \notin DeviceOwned /\ walk' = p /\ UNCHANGED kv
    BY <1>2, <1>3, <1>6, <1>8
<1>9. CASE walk.kind = "size" /\ walk' = [p EXCEPT !.size = @ + 1] /\ UNCHANGED kv
    <2>1. /\ walk'.kind = walk.kind /\ walk'.pc = "next" /\ walk'.cur = walk.cur
          /\ walk'.before = walk.before /\ walk'.disturbed = walk.disturbed
          /\ walk'.size = walk.size + 1 /\ walk.size \in Nat
        BY <1>1, <1>3, <1>9 DEF Walks
    <2>2. walk'.size > 0
        BY <2>1
    <2>3. QED BY <1>6, <1>9, <2>1, <2>2
<1>10. CASE /\ walk.kind = "fill" /\ walk' = [p EXCEPT !.list = @ \cup {walk.key}, !.size = @ - 1]
            /\ UNCHANGED kv
    <2>1. /\ walk'.kind = walk.kind /\ walk'.pc = "next" /\ walk'.cur = walk.cur
          /\ walk'.before = walk.before /\ walk'.disturbed = walk.disturbed
          /\ walk'.list = walk.list \cup {walk.key}
        BY <1>1, <1>3, <1>10 DEF Walks
    <2>2. QED BY <1>2, <1>6, <1>10, <2>1
<1>11. QED BY <1>1, <1>4, <1>7, <1>8, <1>9, <1>10 DEF AppendProperty, p

\* A purge keeps the record or deletes it.
LEMMA WalkedPurge ==
    ASSUME Shaped, Walked, PurgeProperty
    PROVE  Walked'
<1>1. walk.pc = "handle" /\ walk.kind = "purge" /\ WalkOK /\ walk.cur \in IdsOrNull
      /\ UNCHANGED firmware
    BY DEF PurgeProperty, WalkStep, Away, Shaped, WalkOK, Walks
<1>2. PICK h \in Mine : h = walk.key
    BY <1>1 DEF Shaped, WalkOK, WalkShape
<1>3. CASE ~Fits(walk.key)
    <2>1. DeleteHere
        BY <1>2, <1>3, Owned DEF PurgeProperty, Fits
    <2>2. QED BY <1>1, <1>3, <2>1, WalkedDeletes
<1>4. CASE Fits(walk.key)
    <2>1. walk' = Passed /\ UNCHANGED <<kv, property>>
        BY <1>4 DEF PurgeProperty, Fits
    <2>2. walk' = [Passed EXCEPT !.cur = walk.cur]
        BY <1>1, <2>1, PassedOK
    <2>3. /\ walk'.kind = walk.kind /\ walk'.pc = "next" /\ walk'.cur = walk.cur
          /\ walk'.list = walk.list /\ walk'.before = walk.before /\ walk'.disturbed = walk.disturbed
        BY <1>1, <2>2, PassedFields
    <2>4. \A k \in Mine : Fits(k)' <=> Fits(k)
        BY <1>1, <2>3 DEF Fits, Known
    <2>5. Done(h)' /\ \A k \in Mine : Done(k) => Done(k)'
        BY <1>1, <1>2, <1>4, <2>3, <2>4 DEF Done
    <2>6. QED BY <1>1, <1>2, <2>1, <2>3, <2>5, WalkedPasses
<1>5. QED BY <1>3, <1>4

\* The handshake sends the property, or deletes it when its interface moved on.
LEMMA WalkedSend ==
    ASSUME Shaped, Walked, SendProperty
    PROVE  Walked'
<1>1. walk.pc = "handle" /\ walk.kind = "send" /\ WalkOK /\ walk.cur \in IdsOrNull /\ walk \in Walks
      /\ UNCHANGED firmware
    BY DEF SendProperty, WalkStep, Away, Shaped, WalkOK, Walks
<1>2. PICK h \in Mine : h = walk.key
    BY <1>1 DEF Shaped, WalkOK, WalkShape
<1>3. CASE Stale(walk.key, walk.data.major)
    <2>1. DeleteHere
        BY <1>3 DEF SendProperty
    <2>2. QED BY <1>1, <2>1, WalkedDeletes
<1>4. CASE ~Stale(walk.key, walk.data.major)
    <2>1. UNCHANGED <<kv, property>> /\ Known(h) /\ firmware[Iface[h]] = walk.data.major
        BY <1>2, <1>4 DEF SendProperty, Stale
    <2>2. CASE walk' = [walk EXCEPT !.pc = "store"]
        <3>1. /\ walk'.kind = walk.kind /\ walk'.pc = "store" /\ walk'.cur = walk.cur
              /\ walk'.list = walk.list /\ walk'.before = walk.before /\ walk'.size = walk.size
              /\ walk'.disturbed = walk.disturbed /\ walk'.key = walk.key
            BY <1>1, <2>2 DEF Walks
        <3> SUFFICES ASSUME Sheltered' PROVE (Stands /\ Loaded /\ AllDone /\ Gathered)'
            BY DEF Walked
        <3>2. Sheltered /\ Stands /\ AllDone /\ Gathered
            BY <1>1, <3>1 DEF Walked, Sheltered, NoForgotten, Known
        <3>3. Here' = Here /\ Props' = Props
            BY <2>1, <3>1 DEF Here, Props
        <3>4. Stands' /\ Loaded'
            BY <1>1, <1>2, <2>1, <3>1, <3>2, <3>3 DEF Stands, Loaded, Known
        <3>5. \A k \in Mine : Done(k)' <=> Done(k)
            BY <1>1, <2>1, <3>1 DEF Done, Fits, Known
        <3>6. \A k \in Props : Passing(k)' => Passing(k)
            BY <1>1, <2>1, <3>1, <3>3 DEF Passing
        <3>7. AllDone'
            BY <3>2, <3>3, <3>5, <3>6 DEF AllDone, Props
        <3>8. Gathered'
            BY <1>1, <3>1 DEF Gathered
        <3>9. QED BY <3>4, <3>7, <3>8
    <2>3. CASE walk' = Passed
        <3>1. walk' = [Passed EXCEPT !.cur = walk.cur]
            BY <1>1, <2>3, PassedOK
        <3>2. /\ walk'.kind = walk.kind /\ walk'.pc = "next" /\ walk'.cur = walk.cur
              /\ walk'.list = walk.list /\ walk'.before = walk.before
              /\ walk'.disturbed = walk.disturbed
            BY <1>1, <3>1, PassedFields
        <3>3. \A k \in Mine : Done(k) => Done(k)'
            BY <1>1, <2>1, <3>2 DEF Done, Known
        <3>4. ASSUME Sheltered PROVE Done(h)'
            <4>1. property[h] = walk.data \/ Done(h)
                BY <1>1, <1>2, <3>4 DEF Walked, Loaded
            <4>2. CASE property[h] = walk.data
                BY <1>1, <2>1, <3>2, <4>2 DEF Done, Known
            <4>3. QED BY <3>3, <4>1, <4>2
        <3>5. QED BY <1>1, <1>2, <2>1, <3>2, <3>3, <3>4, WalkedPasses
    <2>4. QED BY <1>4, <2>2, <2>3 DEF SendProperty
<1>5. QED BY <1>3, <1>4

\* The handshake stores what it loaded.
LEMMA WalkedStores ==
    ASSUME Shaped, Walked, StoreAgain
    PROVE  Walked'
<1>1. walk.pc = "store" /\ walk.kind = "send" /\ WalkOK /\ walk.cur \in IdsOrNull
      /\ UNCHANGED firmware /\ walk' = Passed /\ DeviceOK
    BY DEF StoreAgain, WalkStep, Away, Shaped, WalkOK, Walks, WalkShape
<1>2. PICK h \in Mine, v \in Values : h = walk.key /\ v = walk.data.value /\ Store(h, v)
    <2>1. walk.key \in Mine /\ walk.data.value \in Values /\ Store(walk.key, walk.data.value)
        BY <1>1, Owned DEF WalkOK, WalkShape, Walks, Contents, StoreAgain
    <2>2. QED BY <2>1
<1>3. walk' = [Passed EXCEPT !.cur = walk.cur]
    BY <1>1, PassedOK
<1>4. /\ walk'.kind = walk.kind /\ walk'.pc = "next" /\ walk'.cur = walk.cur
      /\ walk'.list = walk.list /\ walk'.before = walk.before
      /\ walk'.disturbed = walk.disturbed
    BY <1>1, <1>3, PassedFields
<1>5. SUFFICES ASSUME Sheltered PROVE Walked'
    BY <1>1, <1>4 DEF Walked, Sheltered, NoForgotten, Known
<1>6. Known(h) /\ Has(kv, h)
    <2>1. Stands
        BY <1>5 DEF Walked
    <2>2. h = Here /\ Here # NULL /\ Known(h)
        BY <1>1, <1>2, <2>1, Constants DEF Stands
    <2>3. QED BY <2>2, HereIs DEF Stored
<1>7. /\ kv' = kv /\ \A x \in Mine : x # h => property'[x] = property[x]
      /\ property'[h] = [value |-> v, major |-> firmware[Iface[h]]]
    BY <1>1, <1>2, <1>6, StoreValues
<1>8. Done(h)'
    BY <1>1, <1>4, <1>6, <1>7 DEF Done, Known
<1>9. \A k \in Mine : Done(k) => Done(k)'
    <2>1. ASSUME NEW k \in Mine, Done(k), k # h PROVE Done(k)'
        BY <1>1, <1>4, <1>7, <2>1 DEF Done, Known
    <2>2. QED BY <1>8, <2>1
<1>10. QED BY <1>1, <1>2, <1>4, <1>7, <1>8, <1>9, WalkedPasses

LEMMA WalkedPublish ==
    ASSUME Shaped, NEW list, Publish(list), UNCHANGED <<kv, property, firmware>>
    PROVE  Walked' /\ walk'.kind = "send"
<1> DEFINE s == Started("send", 0)
           c == Advance(kv, NULL)
<1>1. walk' = [s EXCEPT !.disturbed = walk.disturbed]
    BY DEF Publish
<1>2. /\ s.kind = "send" /\ s.cur = c /\ s.before = Props
      /\ s.pc = (IF c = NULL THEN "end" ELSE "sizes") /\ s \in Walks
    <2> HIDE DEF c
    <2>1. s \in Walks
        BY StartedOK DEF Shaped, WalkKinds
    <2>2. QED BY <2>1, StartedIs DEF c
<1> HIDE DEF s, c
<1>3. /\ walk'.kind = "send" /\ walk'.cur = c /\ walk'.before = Props
      /\ walk'.pc = (IF c = NULL THEN "end" ELSE "sizes")
    BY <1>1, <1>2 DEF Walks
<1>4. walk' \in Walks
    BY PublishKeeps DEF WalkOK
<1>5. Walked'
    BY <1>3, <1>4, WalkedStarts DEF c
<1>6. QED BY <1>3, <1>5

LEMMA WalkedEndSteps ==
    ASSUME Shaped, EndSize \/ EndFill \/ EndSend \/ EndPurge
    PROVE  Walked'
<1>1. UNCHANGED <<kv, property, firmware>>
    BY DEF EndSize, EndFill, EndSend, EndPurge, Away
<1>2. CASE walk' = NoWalk
    BY <1>2, WalkedEnds
<1>3. CASE \E list \in SUBSET Mine : Publish(list)
    BY <1>1, <1>3, WalkedPublish
<1>4. CASE walk' = [Started("fill", walk.size) EXCEPT !.disturbed = walk.disturbed]
    <2> DEFINE s == Started("fill", walk.size)
               c == Advance(kv, NULL)
    <2>1. walk.size \in Nat
        BY DEF Shaped, WalkOK, Walks
    <2>2. /\ s.kind = "fill" /\ s.cur = c /\ s.before = Props
          /\ s.pc = (IF c = NULL THEN "end" ELSE "sizes") /\ s \in Walks
        <3> HIDE DEF c
        <3>1. s \in Walks
            BY <2>1, StartedOK DEF Shaped, WalkKinds
        <3>2. QED BY <3>1, StartedIs DEF c
    <2> HIDE DEF s, c
    <2>3. /\ walk'.kind = "fill" /\ walk'.cur = c /\ walk'.before = Props
          /\ walk'.pc = (IF c = NULL THEN "end" ELSE "sizes") /\ walk' \in Walks
        <3>1. walk' = [s EXCEPT !.disturbed = walk.disturbed] /\ walk.disturbed \in BOOLEAN
            BY <1>4 DEF s, Shaped, WalkOK, Walks
        <3>2. QED BY <2>2, <3>1 DEF Walks
    <2>4. QED BY <1>1, <2>3, WalkedStarts DEF c
<1>5. {} \in SUBSET Mine /\ walk.list \in SUBSET Mine
    BY DEF Shaped, WalkOK, Walks
<1>6. QED BY <1>2, <1>3, <1>4, <1>5 DEF EndSize, EndFill, EndSend, EndPurge

\* Another thread adds records, or disturbs the walk.
LEMMA WalkedApplication ==
    ASSUME Shaped, Walked, Application
    PROVE  Walked'
<1>1. ASSUME UNCHANGED <<kv, firmware, walk>>, \A x \in Mine : property'[x] = property[x],
             property' \in [Mine -> Contents]
      PROVE  Walked'
    <2>1. property' = property
        BY <1>1 DEF Shaped, DeviceOK
    <2>2. QED BY <1>1, <2>1, WalkedSame
<1>2. ASSUME NEW k \in Keys, Removes(k), UNCHANGED firmware PROVE Walked'
    <2>1. walk' = [walk EXCEPT !.disturbed = walk.disturbed \/ (walk.kind # "none" /\ Has(kv, k))]
          /\ walk \in Walks
        BY <1>2 DEF Removes, Shaped, WalkOK
    <2>2. CASE Has(kv, k)
        <3>1. walk'.kind = walk.kind /\ (walk'.disturbed \/ walk.kind = "none")
            BY <2>1, <2>2 DEF Walks
        <3>2. QED BY <3>1 DEF Walked, Sheltered
    <2>3. CASE ~Has(kv, k)
        <3>1. walk' = walk
            <4>1. (walk.disturbed \/ (walk.kind # "none" /\ Has(kv, k))) = walk.disturbed
                BY <2>1, <2>3 DEF Walks
            <4>2. walk' = [walk EXCEPT !.disturbed = walk.disturbed]
                BY <2>1, <4>1
            <4>3. QED BY <2>1, <4>2 DEF Walks
        <3>2. /\ kv' = kv /\ property' \in [Mine -> Contents]
              /\ \A x \in Mine : property'[x] = IF Has(kv, x) /\ x # k THEN property[x] ELSE NoProperty
            BY <1>2, <2>3, EraseKeeps, DeleteFacts DEF Removes, Shaped, DeviceOK
        <3>3. \A x \in Mine : property'[x] = property[x]
            BY <2>3, <3>2 DEF Shaped, DeviceOK
        <3>4. QED BY <1>1, <1>2, <3>1, <3>2, <3>3
    <2>4. QED BY <2>2, <2>3
<1>3. ASSUME NEW k \in DeviceOwned, NEW v \in Values, AppSet(k, v) PROVE Walked'
    <2>1. Store(k, v) /\ Known(k) /\ UNCHANGED <<firmware, walk>> /\ k \in Mine /\ k \in Keys
        BY <1>3, Owned, Constants DEF AppSet
    <2>2. CASE ~Has(kv, k) /\ Full(kv)
        BY <2>1, <2>2, StoreValues, WalkedSame DEF Shaped
    <2>3. CASE Has(kv, k) \/ ~Full(kv)
        <3>1. /\ Has(kv', k) /\ property'[k] = [value |-> v, major |-> firmware[Iface[k]]]
              /\ \A x \in Mine \ {k} : property'[x] = property[x]
            BY <2>1, <2>3, StoreValues DEF Shaped
        <3>2. kv' = Insert(kv, k) /\ property'[k].major = firmware[Iface[k]]
            BY <2>1, <3>1 DEF Store
        <3>3. QED BY <2>1, <3>1, <3>2, WalkedGrows
    <2>4. QED BY <2>2, <2>3
<1>4. ASSUME NEW k \in DeviceOwned, AppUnset(k) PROVE Walked'
    BY <1>2, <1>4, Owned, Constants DEF AppUnset
<1>5. CASE AppSend
    BY <1>5, WalkedSame DEF AppSend, device
<1>6. ASSUME NEW k \in Keys, Foreign(k) PROVE Walked'
    <2>1. k \notin Mine /\ UNCHANGED firmware
        BY <1>6 DEF Foreign
    <2>2. CASE Removes(k)
        BY <1>2, <2>1, <2>2
    <2>3. CASE kv' = Insert(kv, k) /\ UNCHANGED <<property, walk>>
        <3>1. CASE Has(kv', k)
            BY <2>1, <2>3, <3>1, WalkedGrows
        <3>2. CASE ~Has(kv', k)
            <4>1. ~Has(kv, k) /\ Full(kv)
                BY <2>3, <3>2, InsertFacts DEF Shaped, DeviceOK
            <4>2. kv' = kv
                BY <2>3, <4>1 DEF Insert
            <4>3. QED BY <2>1, <2>3, <4>2, WalkedSame
        <3>3. QED BY <3>1, <3>2
    <2>4. QED BY <1>6, <2>2, <2>3 DEF Foreign
<1>7. QED BY <1>3, <1>4, <1>5, <1>6 DEF Application

\* The inductive step of what a walk has seen to.
LEMMA WalkedStep == Shaped /\ Walked /\ [Next]_vars => Walked'
<1> SUFFICES ASSUME Shaped, Walked, [Next]_vars PROVE Walked'
    OBVIOUS
<1>1. ASSUME walk.kind = "none", UNCHANGED walk PROVE Walked'
    BY <1>1 DEF Walked, Sheltered
<1>2. CASE GetFails \/ GetSizes \/ GetKey \/ LoadProperty
    <2>1. CASE walk'.kind = "none"
        BY <2>1 DEF Walked, Sheltered
    <2>2. CASE walk'.kind # "none"
        <3>1. ~GetFails
            BY <2>2 DEF GetFails, Abort, NoWalk
        <3>2. QED BY <1>2, <2>2, <3>1, WalkedReads
    <2>3. QED BY <2>1, <2>2
<1>3. CASE AppendProperty \/ PurgeProperty \/ SendProperty \/ StoreAgain
    BY <1>3, WalkedAppend, WalkedPurge, WalkedSend, WalkedStores
<1>4. CASE MoveOn
    BY <1>4, WalkedMoves
<1>5. CASE EndSize \/ EndFill \/ EndSend \/ EndPurge
    BY <1>5, WalkedEndSteps
<1>6. CASE Connected \/ Transmit \/ ReceiveSet \/ ReceiveUnset
    BY <1>1, <1>6 DEF Connected, Transmit, ReceiveSet, ReceiveUnset, Receives
<1>7. CASE ReceivePurge
    <2> DEFINE s == Started("purge", 0)
               c == Advance(kv, NULL)
    <2>1. walk' = [s EXCEPT !.list = Head(down).keys] /\ UNCHANGED <<kv, property, firmware>>
        BY <1>7 DEF ReceivePurge, device
    <2>2. /\ s.kind = "purge" /\ s.cur = c /\ s.before = Props
          /\ s.pc = (IF c = NULL THEN "end" ELSE "sizes") /\ s \in Walks
        <3> HIDE DEF c
        <3>1. s \in Walks
            BY StartedOK DEF Shaped, WalkKinds
        <3>2. QED BY <3>1, StartedIs DEF c
    <2> HIDE DEF s, c
    <2>3. /\ walk'.kind = "purge" /\ walk'.cur = c /\ walk'.before = Props
          /\ walk'.pc = (IF c = NULL THEN "end" ELSE "sizes")
        BY <2>1, <2>2 DEF Walks
    <2>4. walk' \in Walks
        BY <1>7, ReceiveSteps DEF Shaped, WalkOK
    <2>5. QED BY <2>1, <2>3, <2>4, WalkedStarts DEF c
<1>8. CASE Application
    BY <1>8, WalkedApplication
<1>9. ASSUME NEW present \in BOOLEAN, Connect(present) PROVE Walked'
    <2>1. walk.kind = "none" /\ UNCHANGED <<kv, property, firmware>>
        BY <1>9 DEF Connect, device
    <2>2. CASE walk' = Started("size", 0)
        <3> DEFINE s == Started("size", 0)
                   c == Advance(kv, NULL)
        <3>1. /\ s.kind = "size" /\ s.cur = c /\ s.before = Props
              /\ s.pc = (IF c = NULL THEN "end" ELSE "sizes") /\ s \in Walks
            <4> HIDE DEF c
            <4>1. s \in Walks
                BY StartedOK DEF Shaped, WalkKinds
            <4>2. QED BY <4>1, StartedIs DEF c
        <3> HIDE DEF s, c
        <3>2. walk' = s
            BY <2>2 DEF s
        <3>3. QED BY <2>1, <3>1, <3>2, WalkedStarts DEF c
    <2>3. CASE UNCHANGED walk
        BY <1>1, <2>1, <2>3
    <2>4. QED BY <1>9, <2>2, <2>3 DEF Connect
<1>10. CASE Disconnect
    BY <1>1, <1>10 DEF Disconnect
<1>11. ASSUME NEW f \in Firmwares, Reboot(f) PROVE Walked'
    BY <1>11, WalkedEnds DEF Reboot
<1>12. ASSUME NEW k \in ServerOwned, NEW v \in Values \cup {NULL}, ServerChange(k, v) PROVE Walked'
    BY <1>12, WalkedSame DEF ServerChange, device
<1>13. CASE UNCHANGED vars
    BY <1>13, WalkedSame DEF vars, device
<1>14. QED BY <1>2, <1>3, <1>4, <1>5, <1>6, <1>7, <1>8, <1>9, <1>10, <1>11, <1>12, <1>13
       DEF Next, Worker, Walk, Environment

LEMMA AlwaysWalked == Spec => []Walked
<1>1. Init => Walked
    BY DEF Init, Walked, Sheltered, NoWalk
<1>2. QED BY <1>1, WalkedStep, AlwaysShaped, PTL DEF Spec

-----------------------------------------------------------------------------
(* What a walk leaves when it ends. *)

\* A purge removes what its list does not name and what has no interface, all of
\* it and nothing else, although every deletion moves other records to other ids
\* under the iterator, other keys come in between, and the iterator restarts from
\* the head when it loses its last record.
THEOREM PurgeExactly == Spec => PurgeExact
<1> DEFINE A == walk.kind = "purge" /\ walk.pc = "end" /\ walk'.kind = "none" /\ ~walk.disturbed =>
                    \A k \in walk.before :
                        Has(kv, k) <=> Known(k) /\ (k \in ServerOwned => k \in walk.list)
<1>1. Shaped /\ Walked => A
    <2> SUFFICES ASSUME Shaped, Walked, walk.kind = "purge", walk.pc = "end", ~walk.disturbed,
                        NEW k \in walk.before
                 PROVE  Has(kv, k) <=> Known(k) /\ (k \in ServerOwned => k \in walk.list)
        OBVIOUS
    <2>1. AllDone /\ Gathered /\ k \in Mine /\ k \in Keys
        BY Constants DEF Walked, Sheltered, Shaped, WalkOK, Walks
    <2>2. Fits(k) => Has(kv, k)
        BY <2>1 DEF Gathered
    <2>3. Has(kv, k) => Fits(k)
        BY <2>1 DEF AllDone, Passing, Done, Props, Stored
    <2>4. QED BY <2>2, <2>3 DEF Fits
<1>2. Shaped /\ Walked /\ [Next]_vars => [A]_vars
    BY <1>1
<1>3. QED BY <1>2, AlwaysShaped, AlwaysWalked, PTL DEF Spec, PurgeExact

\* Where the list of properties to keep is sent: at the end of the second walk,
\* or at that of the first one if there is nothing to name.
LEMMA SendsList ==
    ASSUME Shaped, Next, walk.kind \in {"size", "fill"}, walk'.kind = "send"
    PROVE  walk.pc = "end" /\ (walk.kind = "size" => walk.size = 0)
<1>1. walk \in Walks /\ WalkOK /\ walk.cur \in IdsOrNull
    BY DEF Shaped, WalkOK, Walks
<1>2. Passed.kind = walk.kind /\ Passed \in Walks
    <2>1. Passed = [Passed EXCEPT !.cur = walk.cur] /\ [Passed EXCEPT !.cur = walk.cur] \in Walks
        BY <1>1, PassedOK
    <2>2. QED BY <1>1, <2>1, PassedFields
<1>3. walk' # NoWalk /\ ~Abort
    BY DEF Abort, NoWalk
<1>4. walk # walk'
    OBVIOUS
<1>5. ASSUME EndSize, walk.size # 0 PROVE FALSE
    <2> DEFINE s == Started("fill", walk.size)
    <2>1. s \in Walks /\ s.kind = "fill"
        <3>1. walk.size \in Nat
            BY <1>1 DEF Walks
        <3>2. QED BY <3>1, StartedOK DEF Shaped, WalkKinds
    <2> HIDE DEF s
    <2>2. walk' = [s EXCEPT !.disturbed = walk.disturbed]
        BY <1>5 DEF EndSize, s
    <2>3. walk'.kind = "fill"
        BY <2>1, <2>2 DEF Walks
    <2>4. QED BY <2>3
<1>6. CASE GetFails \/ GetSizes \/ GetKey \/ LoadProperty \/ MoveOn
    BY <1>1, <1>3, <1>6 DEF GetFails, GetSizes, GetKey, LoadProperty, MoveOn, Walks
<1>7. CASE AppendProperty
    BY <1>2, <1>3, <1>7 DEF AppendProperty, Walks
<1>8. CASE PurgeProperty \/ SendProperty \/ StoreAgain \/ EndSend \/ EndPurge
    <2>1. walk.pc = "store" => walk.kind = "send"
        BY <1>1 DEF WalkOK, WalkShape
    <2>2. QED BY <1>8, <2>1 DEF PurgeProperty, SendProperty, StoreAgain, EndSend, EndPurge, WalkStep
<1>9. CASE EndSize \/ EndFill
    BY <1>5, <1>9 DEF EndSize, EndFill, WalkStep
<1>10. CASE Connected \/ Transmit \/ ReceiveSet \/ ReceiveUnset \/ ReceivePurge
    BY <1>10 DEF Connected, Transmit, ReceiveSet, ReceiveUnset, ReceivePurge, Receives
<1>11. CASE Application
    <2>1. \/ UNCHANGED walk
          \/ \E k \in Keys : Removes(k)
        BY <1>11, Owned, Constants DEF Application, AppSet, AppUnset, AppSend, Foreign
    <2>2. walk'.kind = walk.kind
        BY <1>1, <2>1 DEF Removes, Walks
    <2>3. QED BY <2>2
<1>12. CASE Environment
    BY <1>3, <1>4, <1>12 DEF Environment, Connect, Disconnect, Reboot, ServerChange
<1>13. QED BY <1>6, <1>7, <1>8, <1>9, <1>10, <1>11, <1>12 DEF Next, Worker, Walk

\* The list that Astarte gets of the properties to keep names every device owned
\* property that the walks set out with, unless they meet one of a forgotten
\* interface or another thread deletes a record under them.
THEOREM PurgeListNamesAll == Spec => PurgeListComplete
<1> DEFINE A == walk.kind \in {"size", "fill"} /\ walk'.kind = "send" /\ NoForgotten
                    /\ ~walk.disturbed => walk.before \cap DeviceOwned \subseteq walk.list
<1>1. Shaped /\ Walked /\ Next => A
    <2> SUFFICES ASSUME Shaped, Walked, Next, walk.kind \in {"size", "fill"}, walk'.kind = "send",
                        NoForgotten, ~walk.disturbed, NEW k \in walk.before \cap DeviceOwned
                 PROVE  k \in walk.list
        OBVIOUS
    <2>1. walk.pc = "end" /\ (walk.kind = "size" => walk.size = 0)
        BY SendsList
    <2>2. AllDone /\ Gathered
        BY DEF Walked, Sheltered
    <2>3. k \in Props /\ Passing(k)
        BY <2>1, <2>2 DEF Gathered, Passing
    <2>4. Done(k)
        BY <2>2, <2>3 DEF AllDone
    <2>5. QED BY <2>1, <2>4 DEF Done
<1>2. Shaped /\ Walked /\ [Next]_vars => [A]_vars
    BY <1>1
<1>3. QED BY <1>2, AlwaysShaped, AlwaysWalked, PTL DEF Spec, PurgeListComplete

\* The walks of the handshake belong to it, and a purge to a connected device.
Phase ==
    /\ walk.kind \in {"size", "fill", "send"} => state = "start"
    /\ walk.kind = "purge" => state \in {"end", "connected"}

\* A walk goes on as what it is, or the handshake goes on to its next walk.
LEMMA WalkKeepsKind ==
    ASSUME Shaped, Walk
    PROVE  \/ walk'.kind = walk.kind /\ state' = state
           \/ walk'.kind = "none"
           \/ /\ walk.kind \in {"size", "fill"} /\ walk'.kind \in {"fill", "send"}
              /\ UNCHANGED state
<1>1. walk \in Walks /\ WalkOK /\ walk.cur \in IdsOrNull
    BY DEF Shaped, WalkOK, Walks
<1>2. ASSUME walk.kind # "none"
      PROVE  Passed.kind = walk.kind /\ Passed \in Walks
    <2>1. Passed = [Passed EXCEPT !.cur = walk.cur] /\ [Passed EXCEPT !.cur = walk.cur] \in Walks
        BY <1>1, <1>2, PassedOK
    <2>2. QED BY <1>1, <2>1, PassedFields
<1>3. Abort => walk'.kind = "none"
    BY DEF Abort, NoWalk
<1>4. ASSUME DeleteHere, walk.kind # "none" PROVE walk'.kind = walk.kind
    <2>1. walk' = [Passed EXCEPT !.cur = IteratorDelete(kv, walk.cur).cur]
        BY <1>4 DEF DeleteHere
    <2>2. QED BY <1>2, <1>4, <2>1 DEF Walks
<1>5. CASE GetFails \/ GetSizes \/ GetKey \/ LoadProperty \/ MoveOn
    BY <1>1, <1>3, <1>5 DEF GetFails, GetSizes, GetKey, LoadProperty, MoveOn, Walks
<1>6. CASE AppendProperty
    BY <1>2, <1>3, <1>6 DEF AppendProperty, Walks, WalkStep
<1>7. CASE PurgeProperty \/ SendProperty
    <2>1. UNCHANGED state /\ walk.kind # "none"
        BY <1>7 DEF PurgeProperty, SendProperty, WalkStep
    <2>2. DeleteHere \/ walk' = Passed \/ walk' = [walk EXCEPT !.pc = "store"]
        BY <1>7 DEF PurgeProperty, SendProperty
    <2>3. QED BY <1>1, <1>2, <1>4, <2>1, <2>2 DEF Walks
<1>8. CASE StoreAgain
    BY <1>2, <1>8 DEF StoreAgain, WalkStep
<1>9. CASE EndSend \/ EndPurge
    BY <1>9 DEF EndSend, EndPurge, NoWalk
<1>10. CASE EndSize \/ EndFill
    <2>1. walk.kind \in {"size", "fill"} /\ UNCHANGED state
        BY <1>10 DEF EndSize, EndFill, WalkStep, Publish
    <2>2. PICK kind \in {"fill", "send"}, size \in Nat :
              walk' = [Started(kind, size) EXCEPT !.disturbed = walk.disturbed]
        BY <1>1, <1>10 DEF EndSize, EndFill, Publish, Walks
    <2>3. Started(kind, size) \in Walks /\ Started(kind, size).kind = kind
        BY StartedOK DEF Shaped, WalkKinds
    <2>4. walk'.kind = kind
        BY <2>2, <2>3 DEF Walks
    <2>5. QED BY <2>1, <2>4
<1>11. QED BY <1>5, <1>6, <1>7, <1>8, <1>9, <1>10 DEF Walk

LEMMA PhaseStep == Shaped /\ Phase /\ [Next]_vars => Phase'
<1> SUFFICES ASSUME Shaped, Phase, [Next]_vars PROVE Phase'
    OBVIOUS
<1>1. CASE Walk
    BY <1>1, WalkKeepsKind DEF Phase
<1>2. CASE Connected \/ Transmit \/ ReceiveSet \/ ReceiveUnset
    BY <1>2 DEF Connected, Transmit, ReceiveSet, ReceiveUnset, Receives, Phase
<1>3. CASE ReceivePurge
    <2>1. Started("purge", 0) \in Walks /\ Started("purge", 0).kind = "purge"
        BY StartedOK DEF Shaped, WalkKinds
    <2>2. walk' = [Started("purge", 0) EXCEPT !.list = Head(down).keys]
          /\ state \in {"end", "connected"} /\ UNCHANGED state
        BY <1>3 DEF ReceivePurge, Receives
    <2>3. walk'.kind = "purge"
        BY <2>1, <2>2 DEF Walks
    <2>4. QED BY <2>2, <2>3 DEF Phase
<1>4. CASE Application
    <2>1. /\ UNCHANGED state
          /\ UNCHANGED walk \/ \E k \in Keys : Removes(k)
        BY <1>4, Owned, Constants DEF Application, AppSet, AppUnset, AppSend, Foreign
    <2>2. walk'.kind = walk.kind
        BY <2>1 DEF Removes, Walks, Shaped, WalkOK
    <2>3. QED BY <2>1, <2>2 DEF Phase
<1>5. ASSUME NEW present \in BOOLEAN, Connect(present) PROVE Phase'
    <2>1. CASE UNCHANGED walk
        BY <1>5, <2>1 DEF Connect, Phase
    <2>2. CASE walk' = Started("size", 0) /\ state' = "start"
        <3>1. Started("size", 0).kind = "size"
            BY StartedOK DEF Shaped, WalkKinds
        <3>2. QED BY <2>2, <3>1 DEF Phase
    <2>3. QED BY <1>5, <2>1, <2>2 DEF Connect
<1>6. CASE Disconnect
    BY <1>6 DEF Disconnect, Phase
<1>7. ASSUME NEW f \in Firmwares, Reboot(f) PROVE Phase'
    BY <1>7 DEF Reboot, Phase, NoWalk
<1>8. ASSUME NEW k \in ServerOwned, NEW v \in Values \cup {NULL}, ServerChange(k, v) PROVE Phase'
    BY <1>8 DEF ServerChange, Phase
<1>9. CASE UNCHANGED vars
    BY <1>9 DEF vars, Phase
<1>10. QED BY <1>1, <1>2, <1>3, <1>4, <1>5, <1>6, <1>7, <1>8, <1>9
       DEF Next, Worker, Environment

LEMMA AlwaysPhase == Spec => []Phase
<1>1. Init => Phase
    BY DEF Init, Phase, NoWalk
<1>2. QED BY <1>1, PhaseStep, AlwaysShaped, PTL DEF Spec

\* After the walk of the handshake nothing is left that belongs to an interface
\* that is gone or has another major version, although the walk deletes under its
\* own iterator and an application may set properties ahead of it and behind it.
THEOREM NoneStaleLeft == Spec => NoneStale
<1> DEFINE A == walk.kind = "send" /\ state' = "end" /\ ~walk.disturbed =>
                    \A k \in Props : Known(k) /\ property[k].major = firmware[Iface[k]]
<1>1. Shaped /\ Walked /\ Phase /\ Next => A
    <2> SUFFICES ASSUME Shaped, Walked, Phase, Next, walk.kind = "send", state' = "end",
                        ~walk.disturbed, NEW k \in Props
                 PROVE  Known(k) /\ property[k].major = firmware[Iface[k]]
        OBVIOUS
    <2>1. state = "start"
        BY DEF Phase
    <2>2. EndSend
        <3>1. CASE Walk
            <4>1. ~EndSend => UNCHANGED state \/ state' = "error"
                BY <3>1 DEF Walk, GetFails, GetSizes, GetKey, AppendProperty, PurgeProperty,
                            LoadProperty, SendProperty, StoreAgain, MoveOn, EndSize, EndFill,
                            EndPurge, Publish, Abort
            <4>2. QED BY <2>1, <4>1
        <3>2. CASE Application
            BY <2>1, <3>2 DEF Application, AppSet, AppUnset, AppSend, Foreign
        <3>3. CASE Environment
            BY <2>1, <3>3 DEF Environment, Connect, Disconnect, Reboot, ServerChange
        <3>4. CASE Connected \/ Transmit \/ ReceiveSet \/ ReceiveUnset \/ ReceivePurge
            BY <2>1, <3>4 DEF Connected, Transmit, ReceiveSet, ReceiveUnset, ReceivePurge, Receives
        <3>5. QED BY <3>1, <3>2, <3>3, <3>4 DEF Next, Worker
    <2>3. walk.pc = "end" /\ AllDone
        BY <2>2 DEF EndSend, WalkStep, Walked, Sheltered
    <2>4. Done(k)
        BY <2>3 DEF AllDone, Passing
    <2>5. QED BY <2>4 DEF Done
<1>2. Shaped /\ Walked /\ Phase /\ [Next]_vars => [A]_vars
    BY <1>1
<1>3. QED BY <1>2, AlwaysShaped, AlwaysWalked, AlwaysPhase, PTL DEF Spec, NoneStale

-----------------------------------------------------------------------------
(* From Astarte. *)

\* A message that sets k, and no such message behind place n.
Sets(m, k) == m.type = "set" /\ m.key = k
Silent(k, n) == \A m \in DOMAIN down : n < m => ~Sets(down[m], k)
\* No list of properties to keep comes behind place n.
NoPurge(n) == \A m \in DOMAIN down : n < m => down[m].type = "set"
\* What the messages that are on their way will make of k, if they all arrive.
SetAhead(k) ==
    \E n \in DOMAIN down :
        Sets(down[n], k) /\ down[n].value = cloud[k] /\ Silent(k, n) /\ NoPurge(n)
PurgeAhead(k) ==
    /\ cloud[k] = NULL
    /\ \E n \in DOMAIN down :
          down[n].type = "purge" /\ NoPurge(n) /\ Silent(k, n) /\ k \notin down[n].keys
\* None will change it: it is as Astarte has it, or the purge that goes on sees to it.
Settles(k) == IF walk.kind = "purge" THEN cloud[k] = NULL /\ k \notin walk.list
              ELSE spoiled \/ ValueOf(k) = cloud[k]
Will(k) == SetAhead(k) \/ PurgeAhead(k) \/ (NoPurge(0) /\ Silent(k, 0) /\ Settles(k))

Current == synced \/ state \in {"start", "end", "connected"}
Downlink ==
    /\ Current => \A k \in ServerOwned : Known(k) => Will(k)
    /\ walk.kind \in {"size", "fill", "send"} => spoiled

LEMMA DownIs ==
    ASSUME Shaped
    PROVE  /\ Len(down) \in Nat /\ DOMAIN down = 1 .. Len(down) /\ down \in Seq(Downlinks)
           /\ \A n \in DOMAIN down :
                /\ down[n].type \in {"set", "purge"}
                /\ down[n].type = "set" => /\ down[n].key \in ServerOwned
                                           /\ down[n].value \in Values \cup {NULL}
                /\ down[n].type = "purge" => down[n].keys \subseteq ServerOwned
<1>1. down \in Seq(Downlinks) /\ Len(down) \in Nat /\ DOMAIN down = 1 .. Len(down)
    BY DEF Shaped, LinkOK
<1>2. \A m \in Downlinks :
        /\ m.type \in {"set", "purge"}
        /\ m.type = "set" => m.key \in ServerOwned /\ m.value \in Values \cup {NULL}
        /\ m.type = "purge" => m.keys \subseteq ServerOwned
    BY DEF Downlinks
<1>3. \A n \in DOMAIN down : down[n] \in Downlinks
    BY <1>1
<1>4. QED BY <1>1, <1>2, <1>3

LEMMA WillSame ==
    ASSUME NEW k, Will(k), UNCHANGED down, cloud'[k] = cloud[k], Settles(k) => Settles(k)'
    PROVE  Will(k)'
<1>1. SetAhead(k) => SetAhead(k)'
    BY DEF SetAhead, Silent, NoPurge
<1>2. PurgeAhead(k) => PurgeAhead(k)'
    BY DEF PurgeAhead, Silent, NoPurge
<1>3. (NoPurge(0) => NoPurge(0)') /\ (Silent(k, 0) => Silent(k, 0)')
    BY DEF Silent, NoPurge
<1>4. QED BY <1>1, <1>2, <1>3 DEF Will

\* The first message arrives.
LEMMA WillTail ==
    ASSUME Shaped, NEW k \in ServerOwned, Will(k), down # <<>>, down' = Tail(down), UNCHANGED cloud,
           Sets(Head(down), k) /\ Head(down).value = cloud[k] => Settles(k)',
           Head(down).type = "purge" /\ cloud[k] = NULL /\ k \notin Head(down).keys => Settles(k)',
           Head(down).type = "set" /\ ~Sets(Head(down), k) /\ Settles(k) => Settles(k)'
    PROVE  Will(k)'
<1>1. /\ Len(down) \in Nat /\ Len(down) >= 1 /\ DOMAIN down = 1 .. Len(down)
      /\ DOMAIN down' = 1 .. Len(down) - 1
      /\ \A n \in 1 .. Len(down) - 1 : down'[n] = down[n + 1]
      /\ Head(down) = down[1]
    BY DownIs
<1>2. ASSUME NEW n \in 1 .. Len(down), NoPurge(n)
      PROVE  /\ n - 1 \in 0 .. Len(down) - 1
             /\ \A m \in DOMAIN down' : n - 1 < m => down'[m].type = "set"
    BY <1>1, <1>2 DEF NoPurge
<1>3. ASSUME NEW n \in 1 .. Len(down), Silent(k, n)
      PROVE  \A m \in DOMAIN down' : n - 1 < m => ~Sets(down'[m], k)
    BY <1>1, <1>3 DEF Silent
<1>4. ASSUME NEW n \in DOMAIN down, Sets(down[n], k), down[n].value = cloud[k], Silent(k, n),
             NoPurge(n)
      PROVE  Will(k)'
    <2>1. /\ \A m \in DOMAIN down' : n - 1 < m => down'[m].type = "set"
          /\ \A m \in DOMAIN down' : n - 1 < m => ~Sets(down'[m], k)
        BY <1>1, <1>2, <1>3, <1>4
    <2>2. CASE n = 1
        <3>1. NoPurge(0)' /\ Silent(k, 0)'
            BY <2>1, <2>2 DEF NoPurge, Silent
        <3>2. QED BY <1>1, <1>4, <2>2, <3>1 DEF Will
    <2>3. CASE n # 1
        <3>1. n - 1 \in DOMAIN down' /\ down'[n - 1] = down[n]
            BY <1>1, <2>3
        <3>2. SetAhead(k)'
            BY <1>4, <2>1, <3>1 DEF SetAhead, Silent, NoPurge
        <3>3. QED BY <3>2 DEF Will
    <2>4. QED BY <2>2, <2>3
<1>5. ASSUME cloud[k] = NULL, NEW n \in DOMAIN down, down[n].type = "purge", NoPurge(n),
             Silent(k, n), k \notin down[n].keys
      PROVE  Will(k)'
    <2>1. /\ \A m \in DOMAIN down' : n - 1 < m => down'[m].type = "set"
          /\ \A m \in DOMAIN down' : n - 1 < m => ~Sets(down'[m], k)
        BY <1>1, <1>2, <1>3, <1>5
    <2>2. CASE n = 1
        <3>1. NoPurge(0)' /\ Silent(k, 0)'
            BY <2>1, <2>2 DEF NoPurge, Silent
        <3>2. QED BY <1>1, <1>5, <2>2, <3>1 DEF Will
    <2>3. CASE n # 1
        <3>1. n - 1 \in DOMAIN down' /\ down'[n - 1] = down[n]
            BY <1>1, <2>3
        <3>2. PurgeAhead(k)'
            BY <1>5, <2>1, <3>1 DEF PurgeAhead, Silent, NoPurge
        <3>3. QED BY <3>2 DEF Will
    <2>4. QED BY <2>2, <2>3
<1>6. CASE NoPurge(0) /\ Silent(k, 0) /\ Settles(k)
    <2>1. Head(down).type = "set" /\ ~Sets(Head(down), k)
        BY <1>1, <1>6 DEF NoPurge, Silent
    <2>2. NoPurge(0)' /\ Silent(k, 0)'
        BY <1>1, <1>6 DEF NoPurge, Silent
    <2>3. QED BY <1>6, <2>1, <2>2 DEF Will
<1>7. QED BY <1>4, <1>5, <1>6 DEF Will, SetAhead, PurgeAhead

\* A message that sets another property.
LEMMA WillAppend ==
    ASSUME Shaped, NEW k \in ServerOwned, Will(k), NEW m0 \in Downlinks, m0.type = "set", m0.key # k,
           down' = Append(down, m0), cloud'[k] = cloud[k], Settles(k) => Settles(k)'
    PROVE  Will(k)'
<1>1. /\ Len(down) \in Nat /\ DOMAIN down = 1 .. Len(down)
      /\ DOMAIN down' = 1 .. Len(down) + 1
      /\ \A n \in 1 .. Len(down) : down'[n] = down[n]
      /\ down'[Len(down) + 1] = m0
    BY DownIs
<1>2. ASSUME NEW n \in Nat, NoPurge(n) PROVE NoPurge(n)'
    BY <1>1, <1>2 DEF NoPurge
<1>3. ASSUME NEW n \in Nat, Silent(k, n) PROVE Silent(k, n)'
    BY <1>1, <1>3 DEF Silent, Sets
<1>4. SetAhead(k) => SetAhead(k)'
    BY <1>1, <1>2, <1>3 DEF SetAhead
<1>5. PurgeAhead(k) => PurgeAhead(k)'
    BY <1>1, <1>2, <1>3 DEF PurgeAhead
<1>6. (NoPurge(0) => NoPurge(0)') /\ (Silent(k, 0) => Silent(k, 0)')
    BY <1>2, <1>3
<1>7. QED BY <1>4, <1>5, <1>6 DEF Will

\* Astarte sends all it has.
LEMMA WillConnect ==
    ASSUME Shaped, NEW k \in ServerOwned, Known(k), NEW old \in Seq(Downlinks),
           down' = old \o ServerState, UNCHANGED cloud
    PROVE  Will(k)'
<1> DEFINE w == ServerState
           L == Len(old)
<1>1. /\ w \in Seq(Downlinks) /\ Len(w) \in Nat /\ Len(w) >= 1
      /\ w[1] = [type |-> "purge", keys |-> Given]
      /\ \A n \in 2 .. Len(w) : \E x \in Given : w[n] = SetOf(x)
      /\ \A m, n \in 2 .. Len(w) : w[m].key = w[n].key => m = n
      /\ \A x \in Given : \E n \in 2 .. Len(w) : w[n] = SetOf(x)
    BY ServerStateIs DEF Shaped, LinkOK
<1> HIDE DEF w
<1>2. down' = old \o w
    BY DEF w
<1>3. /\ L \in Nat /\ DOMAIN down' = 1 .. L + Len(w)
      /\ \A n \in 1 .. Len(w) : L + n \in DOMAIN down' /\ down'[L + n] = w[n]
    BY <1>1, <1>2
<1> HIDE DEF L
<1>4. ASSUME NEW m \in DOMAIN down', L < m
      PROVE  \E n \in 1 .. Len(w) : m = L + n /\ down'[m] = w[n]
    <2>1. m - L \in 1 .. Len(w) /\ m = L + (m - L)
        BY <1>1, <1>3, <1>4
    <2>2. QED BY <1>3, <2>1
<1>5. ASSUME NEW n \in 2 .. Len(w) PROVE w[n].type = "set"
    <2>1. PICK x \in Given : w[n] = SetOf(x)
        BY <1>1
    <2>2. QED BY <2>1 DEF SetOf
<1>6. ASSUME NEW n \in 1 .. Len(w) PROVE \A m \in DOMAIN down' : L + n < m => down'[m].type = "set"
    <2>1. ASSUME NEW m \in DOMAIN down', L + n < m PROVE down'[m].type = "set"
        <3>1. L < m
            BY <1>3, <2>1
        <3>2. PICK i \in 1 .. Len(w) : m = L + i /\ down'[m] = w[i]
            BY <1>4, <2>1, <3>1
        <3>3. i \in 2 .. Len(w)
            BY <1>1, <1>3, <2>1, <3>2
        <3>4. QED BY <1>5, <3>2, <3>3
    <2>2. QED BY <2>1
<1>7. CASE cloud[k] # NULL
    <2>1. k \in Given
        BY <1>7 DEF Given
    <2>2. PICK n \in 2 .. Len(w) : w[n] = SetOf(k)
        BY <1>1, <2>1
    <2>3. L + n \in DOMAIN down' /\ down'[L + n] = SetOf(k) /\ n \in 1 .. Len(w)
        BY <1>1, <1>3, <2>2
    <2>4. ASSUME NEW m \in DOMAIN down', L + n < m PROVE ~Sets(down'[m], k)
        <3>1. L < m
            BY <1>3, <2>4
        <3>2. PICK i \in 1 .. Len(w) : m = L + i /\ down'[m] = w[i]
            BY <1>4, <2>4, <3>1
        <3>3. i \in 2 .. Len(w) /\ i # n
            BY <1>1, <1>3, <2>4, <3>2
        <3>4. w[i].key # w[n].key
            BY <1>1, <3>3
        <3>5. QED BY <2>2, <3>2, <3>4 DEF Sets, SetOf
    <2>5. NoPurge(L + n)' /\ Silent(k, L + n)'
        BY <1>6, <2>3, <2>4 DEF NoPurge, Silent
    <2>6. Sets(down'[L + n], k) /\ down'[L + n].value = cloud'[k]
        BY <2>3 DEF Sets, SetOf
    <2>7. SetAhead(k)'
        BY <2>3, <2>5, <2>6 DEF SetAhead
    <2>8. QED BY <2>7 DEF Will
<1>8. CASE cloud[k] = NULL
    <2>1. k \notin Given
        BY <1>8 DEF Given
    <2>2. L + 1 \in DOMAIN down' /\ down'[L + 1] = [type |-> "purge", keys |-> Given]
          /\ 1 \in 1 .. Len(w)
        BY <1>1, <1>3
    <2>3. ASSUME NEW m \in DOMAIN down', L + 1 < m PROVE ~Sets(down'[m], k)
        <3>1. L < m
            BY <1>3, <2>3
        <3>2. PICK i \in 1 .. Len(w) : m = L + i /\ down'[m] = w[i]
            BY <1>4, <2>3, <3>1
        <3>3. i \in 2 .. Len(w)
            BY <1>1, <1>3, <2>3, <3>2
        <3>4. PICK x \in Given : w[i] = SetOf(x)
            BY <1>1, <3>3
        <3>5. QED BY <2>1, <3>2, <3>4 DEF Sets, SetOf
    <2>4. NoPurge(L + 1)' /\ Silent(k, L + 1)'
        BY <1>6, <2>2, <2>3 DEF NoPurge, Silent
    <2>5. PurgeAhead(k)'
        BY <1>8, <2>1, <2>2, <2>4 DEF PurgeAhead
    <2>6. QED BY <2>5 DEF Will
<1>9. QED BY <1>7, <1>8

\* The steps of a walk settle what the purge that arrived was about.
LEMMA DownlinkWalk ==
    ASSUME Shaped, Walked, Phase, Downlink, Walk
    PROVE  Downlink'
<1>1. Away /\ UNCHANGED down /\ walk.kind # "none"
    BY DEF Walk, GetFails, GetSizes, GetKey, AppendProperty, PurgeProperty, LoadProperty,
           SendProperty, StoreAgain, MoveOn, EndSize, EndFill, EndSend, EndPurge, WalkStep, Abort,
           Publish
<1>2. UNCHANGED <<firmware, synced>>
    BY <1>1 DEF Away
<1>3. \A k \in ServerOwned : cloud'[k] = cloud[k]
    <2>1. UNCHANGED cloud \/ \E list : Publish(list)
        BY DEF Walk, GetFails, GetSizes, GetKey, AppendProperty, PurgeProperty, LoadProperty,
               SendProperty, StoreAgain, MoveOn, EndSize, EndFill, EndSend, EndPurge, Abort
    <2>2. QED BY <2>1, Owned DEF Publish
<1>4. ASSUME walk.kind # "purge" PROVE walk'.kind # "purge" /\ UNCHANGED spoiled /\ spoiled
    <2>1. walk.kind \in {"size", "fill", "send"}
        BY <1>1, <1>4 DEF Shaped, WalkOK, Walks, WalkKinds
    <2>2. spoiled /\ walk'.kind # "purge"
        BY <2>1, WalkKeepsKind DEF Downlink
    <2>3. UNCHANGED spoiled
        BY <1>4 DEF Walk, GetFails, GetSizes, GetKey, AppendProperty, PurgeProperty, LoadProperty,
                    SendProperty, StoreAgain, MoveOn, EndSize, EndFill, EndSend, EndPurge, Abort,
                    Publish, Shaped, RestOK, WalkStep
    <2>4. QED BY <2>2, <2>3
\* A purge goes on with its list, is given up, or has seen to all that there is.
<1>5. ASSUME walk.kind = "purge"
      PROVE  \/ walk'.kind = "purge" /\ walk'.list = walk.list
             \/ walk'.kind = "none" /\ spoiled'
             \/ EndPurge
    <2>1. walk \in Walks /\ WalkOK /\ walk.cur \in IdsOrNull
        BY DEF Shaped, WalkOK, Walks
    <2>2. Passed.kind = walk.kind /\ Passed.list = walk.list /\ Passed \in Walks
        <3>1. Passed = [Passed EXCEPT !.cur = walk.cur] /\ [Passed EXCEPT !.cur = walk.cur] \in Walks
            BY <1>1, <2>1, PassedOK
        <3>2. QED BY <2>1, <3>1, PassedFields
    <2>3. Abort => walk'.kind = "none" /\ spoiled'
        <3>1. Abort => walk' = NoWalk /\ (spoiled' = (spoiled \/ walk.kind = "purge"))
            BY Zenon DEF Abort
        <3>2. NoWalk.kind = "none"
            BY DEF NoWalk
        <3>3. (spoiled' = (spoiled \/ walk.kind = "purge")) => spoiled'
            BY <1>5, Zenon
        <3>4. QED BY <3>1, <3>2, <3>3, Zenon
    <2>4. CASE GetFails \/ GetSizes \/ GetKey \/ LoadProperty \/ MoveOn
        BY <1>5, <2>1, <2>3, <2>4 DEF GetFails, GetSizes, GetKey, LoadProperty, MoveOn, Walks
    <2>5. CASE PurgeProperty
        <3>1. DeleteHere \/ walk' = Passed
            BY <2>5 DEF PurgeProperty
        <3>2. ASSUME DeleteHere PROVE walk'.kind = walk.kind /\ walk'.list = walk.list
            <4>1. walk' = [Passed EXCEPT !.cur = IteratorDelete(kv, walk.cur).cur]
                BY <3>2 DEF DeleteHere
            <4>2. QED BY <2>2, <4>1 DEF Walks
        <3>3. QED BY <1>5, <2>2, <3>1, <3>2
    <2>6. ~(AppendProperty \/ SendProperty \/ StoreAgain \/ EndSize \/ EndFill \/ EndSend)
        BY <1>5, <2>1 DEF AppendProperty, SendProperty, StoreAgain, EndSize, EndFill, EndSend,
                          WalkStep, WalkOK, WalkShape
    <2>7. QED BY <2>4, <2>5, <2>6 DEF Walk
<1>6. ASSUME NEW k \in ServerOwned, Known(k), Settles(k) PROVE Settles(k)'
    <2>1. CASE walk.kind # "purge"
        BY <1>4, <2>1 DEF Settles
    <2>2. CASE walk.kind = "purge"
        <3>1. cloud[k] = NULL /\ k \notin walk.list /\ cloud'[k] = NULL
            BY <1>3, <1>6, <2>2 DEF Settles
        <3>2. CASE walk'.kind = "purge" /\ walk'.list = walk.list
            BY <3>1, <3>2 DEF Settles
        <3>3. CASE walk'.kind = "none" /\ spoiled'
            BY <3>3 DEF Settles
        <3>4. CASE EndPurge
            <4>1. /\ walk' = NoWalk /\ spoiled' = walk.disturbed /\ walk.pc = "end"
                  /\ UNCHANGED <<kv, property>>
                BY <3>4 DEF EndPurge, WalkStep
            <4>2. CASE walk.disturbed
                BY <4>1, <4>2 DEF Settles, NoWalk
            <4>3. CASE ~walk.disturbed
                <5>1. AllDone
                    BY <2>2, <4>3 DEF Walked, Sheltered
                <5>2. ~Has(kv, k)
                    <6>1. SUFFICES ASSUME Has(kv, k) PROVE FALSE
                        OBVIOUS
                    <6>2. k \in Props
                        BY <6>1, Owned, Constants DEF Props, Stored
                    <6>3. Done(k)
                        BY <4>1, <5>1, <6>2 DEF AllDone, Passing
                    <6>4. QED BY <2>2, <3>1, <6>3 DEF Done, Fits
                <5>3. ValueOf(k)' = NULL
                    BY <4>1, <5>2 DEF ValueOf
                <5>4. QED BY <3>1, <4>1, <5>3 DEF Settles, NoWalk
            <4>4. QED BY <4>2, <4>3
        <3>5. QED BY <1>5, <2>2, <3>2, <3>3, <3>4
    <2>3. QED BY <2>1, <2>2
<1>7. Current' => Current
    <2>1. \/ state' = state \/ state' = "error" \/ (state' = "end" /\ walk.kind = "send" /\ EndSend)
        BY DEF Walk, GetFails, GetSizes, GetKey, AppendProperty, PurgeProperty, LoadProperty,
               SendProperty, StoreAgain, MoveOn, EndSize, EndFill, EndSend, EndPurge, Abort,
               Publish, WalkStep
    <2>2. QED BY <1>2, <2>1 DEF Current, Phase
<1>8. walk'.kind \in {"size", "fill", "send"} => spoiled'
    <2>1. walk.kind = "purge" => walk'.kind \notin {"size", "fill", "send"}
        BY WalkKeepsKind
    <2>2. QED BY <1>4, <2>1
<1>9. ASSUME Current', NEW k \in ServerOwned, Known(k)' PROVE Will(k)'
    <2>1. Known(k) /\ Will(k)
        BY <1>2, <1>7, <1>9 DEF Known, Downlink
    <2>2. QED BY <1>1, <1>3, <1>6, <2>1, WillSame
<1>10. QED BY <1>8, <1>9 DEF Downlink

\* The first message from Astarte is taken in.
LEMMA DownlinkReceives ==
    ASSUME Shaped, Downlink, ReceiveSet \/ ReceiveUnset \/ ReceivePurge
    PROVE  Downlink'
<1>1. /\ state \in {"end", "connected"} /\ walk.kind = "none" /\ down # <<>> /\ down' = Tail(down)
      /\ UNCHANGED <<firmware, state, synced, cloud>>
    BY DEF ReceiveSet, ReceiveUnset, ReceivePurge, Receives, device
<1>2. /\ 1 \in DOMAIN down /\ Head(down) = down[1]
      /\ Head(down).type = "set" => /\ Head(down).key \in ServerOwned
                                    /\ Head(down).value \in Values \cup {NULL}
    <2>1. 1 \in DOMAIN down /\ Head(down) = down[1]
        BY <1>1, DownIs
    <2>2. QED BY <2>1, DownIs
<1>3. ASSUME NEW k \in ServerOwned, Known(k)' PROVE Will(k)'
    <2>1. Known(k) /\ Will(k) /\ k \in Mine
        BY <1>1, <1>3, Owned DEF Known, Downlink, Current
    <2>2. CASE ReceiveSet \/ ReceiveUnset
        <3>1. Head(down).type = "set" /\ walk' = walk
            BY <2>2 DEF ReceiveSet, ReceiveUnset, Receives
        <3>2. PICK h \in ServerOwned, v \in Values \cup {NULL} :
                  h = Head(down).key /\ v = Head(down).value
            BY <1>2, <3>1
        <3>3. h \in Mine /\ h \in Keys
            BY Owned, Constants
        <3>4. \/ spoiled'
              \/ /\ k # h => ValueOf(k)' = ValueOf(k)
                 /\ k = h => ValueOf(k)' = v
                 /\ spoiled' = spoiled
            <4>1. CASE ~Known(h)
                <5>1. UNCHANGED <<kv, property, spoiled>> /\ k # h
                    BY <2>1, <2>2, <3>2, <4>1 DEF ReceiveSet, ReceiveUnset, Shaped, RestOK
                <5>2. QED BY <5>1 DEF ValueOf
            <4>2. CASE Known(h) /\ ReceiveSet
                <5>1. /\ Store(h, v) /\ v \in Values
                      /\ spoiled' = (spoiled \/ (~Has(kv, h) /\ Full(kv)))
                    BY <3>2, <4>2 DEF ReceiveSet
                <5>2. CASE ~Has(kv, h) /\ Full(kv)
                    BY <5>1, <5>2
                <5>3. CASE Has(kv, h) \/ ~Full(kv)
                    <6>1. /\ k # h => ValueOf(k)' = ValueOf(k)
                          /\ k = h => ValueOf(k)' = v
                        BY <2>1, <3>3, <5>1, <5>3, StoreValues DEF Shaped
                    <6>2. spoiled' = spoiled
                        BY <5>1, <5>3 DEF Shaped, RestOK
                    <6>3. QED BY <6>1, <6>2
                <5>4. QED BY <5>2, <5>3
            <4>3. CASE Known(h) /\ ReceiveUnset
                <5>1. Erase(h) /\ v = NULL /\ spoiled' = spoiled
                    BY <3>2, <4>3 DEF ReceiveUnset
                <5>2. ValueOf(k)' = IF k = h THEN NULL ELSE ValueOf(k)
                    BY <2>1, <3>3, <5>1, EraseValues DEF Shaped
                <5>3. QED BY <5>1, <5>2
            <4>4. QED BY <2>2, <4>1, <4>2, <4>3
        <3>5. Sets(Head(down), k) <=> k = h
            BY <3>1, <3>2 DEF Sets
        <3>6. walk'.kind # "purge" /\ walk.kind # "purge"
            BY <1>1, <3>1
        <3>7. Sets(Head(down), k) /\ Head(down).value = cloud[k] => Settles(k)'
            BY <1>1, <3>2, <3>4, <3>5, <3>6 DEF Settles
        <3>8. ~Sets(Head(down), k) /\ Settles(k) => Settles(k)'
            BY <1>1, <3>4, <3>5, <3>6 DEF Settles
        <3>9. QED BY <1>1, <2>1, <3>1, <3>7, <3>8, WillTail
    <2>3. CASE ReceivePurge
        <3> DEFINE s == Started("purge", 0)
        <3>1. Head(down).type = "purge" /\ walk' = [s EXCEPT !.list = Head(down).keys]
            BY <2>3 DEF ReceivePurge, Receives
        <3>2. s \in Walks /\ s.kind = "purge"
            BY StartedOK DEF Shaped, WalkKinds
        <3> HIDE DEF s
        <3>3. walk'.kind = "purge" /\ walk'.list = Head(down).keys
            BY <3>1, <3>2 DEF Walks
        <3>4. Head(down).type = "purge" /\ cloud[k] = NULL /\ k \notin Head(down).keys => Settles(k)'
            BY <1>1, <3>3 DEF Settles
        <3>5. ~Sets(Head(down), k)
            BY <3>1 DEF Sets
        <3>6. QED BY <1>1, <2>1, <3>1, <3>4, <3>5, WillTail
    <2>4. QED BY <2>2, <2>3
<1>4. walk'.kind \notin {"size", "fill", "send"}
    <2>1. CASE ReceivePurge
        <3> DEFINE s == Started("purge", 0)
        <3>1. s \in Walks /\ s.kind = "purge" /\ walk' = [s EXCEPT !.list = Head(down).keys]
            BY <2>1, StartedOK DEF Shaped, WalkKinds, ReceivePurge
        <3> HIDE DEF s
        <3>2. QED BY <3>1 DEF Walks
    <2>2. CASE UNCHANGED walk
        BY <1>1, <2>2
    <2>3. QED BY <2>1, <2>2 DEF ReceiveSet, ReceiveUnset
<1>5. QED BY <1>3, <1>4 DEF Downlink

\* The inductive step of what is on its way from Astarte.
LEMMA DownlinkStep == Shaped /\ Walked /\ Phase /\ Downlink /\ [Next]_vars => Downlink'
<1> SUFFICES ASSUME Shaped, Walked, Phase, Downlink, [Next]_vars PROVE Downlink'
    OBVIOUS
<1>1. ASSUME UNCHANGED <<firmware, down>>, \A k \in ServerOwned : cloud'[k] = cloud[k],
             Current' => Current,
             walk'.kind = walk.kind, walk'.list = walk.list, spoiled' = spoiled,
             \A k \in ServerOwned : ValueOf(k)' = ValueOf(k)
      PROVE  Downlink'
    <2>1. \A k \in ServerOwned : Settles(k) => Settles(k)'
        BY <1>1 DEF Settles
    <2>2. ASSUME Current', NEW k \in ServerOwned, Known(k)' PROVE Will(k)'
        <3>1. Will(k)
            BY <1>1, <2>2 DEF Downlink, Known
        <3>2. QED BY <1>1, <2>1, <3>1, WillSame
    <2>3. QED BY <1>1, <2>2 DEF Downlink
<1>2. ASSUME UNCHANGED <<kv, property>> PROVE \A k \in ServerOwned : ValueOf(k)' = ValueOf(k)
    BY <1>2 DEF ValueOf
<1>3. CASE Walk
    BY <1>3, DownlinkWalk
<1>4. CASE Connected
    BY <1>1, <1>2, <1>4 DEF Connected, Current, device
<1>5. CASE Transmit
    <2>1. /\ cloud' = [cloud EXCEPT ![Head(queue).key] = Head(queue).value]
          /\ queue # <<>> /\ queue \in Seq(Reports)
          /\ UNCHANGED <<device, state, walk, app, down, synced, lost, spoiled, spent>>
        BY <1>5 DEF Transmit, Shaped, LinkOK
    <2>2. Head(queue) \in Reports
        BY <2>1
    <2>3. \A k \in ServerOwned : cloud'[k] = cloud[k]
        BY <2>1, <2>2, Owned DEF Reports, Shaped, LinkOK
    <2>4. QED BY <1>1, <1>2, <2>1, <2>3 DEF Current, device
<1>6. CASE ReceiveSet \/ ReceiveUnset \/ ReceivePurge
    BY <1>6, DownlinkReceives
<1>7. CASE Application
    <2>1. UNCHANGED <<firmware, state, cloud, down, synced, spoiled>>
        BY <1>7 DEF Application, AppSet, AppUnset, AppSend, Foreign, device
    <2>2. walk'.kind = walk.kind /\ walk'.list = walk.list
        <3>1. UNCHANGED walk \/ \E k \in Keys : Removes(k)
            BY <1>7, Owned, Constants DEF Application, AppSet, AppUnset, AppSend, Foreign
        <3>2. QED BY <3>1 DEF Removes, Walks, Shaped, WalkOK
    <2>3. \A k \in ServerOwned : ValueOf(k)' = ValueOf(k)
        <3>1. ASSUME NEW k \in DeviceOwned, NEW v \in Values, AppSet(k, v)
              PROVE  \A x \in ServerOwned : ValueOf(x)' = ValueOf(x)
            <4>1. Store(k, v) /\ k \in Mine
                BY <3>1, Owned DEF AppSet
            <4>2. \A x \in Mine : x # k => ValueOf(x)' = ValueOf(x)
                BY <4>1, StoreValues DEF Shaped
            <4>3. QED BY <4>2, Owned
        <3>2. ASSUME NEW k \in DeviceOwned, AppUnset(k)
              PROVE  \A x \in ServerOwned : ValueOf(x)' = ValueOf(x)
            <4>1. Erase(k) /\ k \in Keys
                BY <3>2, Owned, Constants DEF AppUnset, Removes
            <4>2. \A x \in Mine : ValueOf(x)' = IF x = k THEN NULL ELSE ValueOf(x)
                BY <4>1, EraseValues DEF Shaped
            <4>3. QED BY <4>2, Owned
        <3>3. CASE AppSend
            BY <1>2, <3>3 DEF AppSend, device
        <3>4. ASSUME NEW k \in Keys, Foreign(k)
              PROVE  \A x \in ServerOwned : ValueOf(x)' = ValueOf(x)
            BY <3>4, ForeignValues, Owned
        <3>5. QED BY <1>7, <3>1, <3>2, <3>3, <3>4 DEF Application
    <2>4. QED BY <1>1, <2>1, <2>2, <2>3 DEF Current
<1>8. ASSUME NEW present \in BOOLEAN, Connect(present) PROVE Downlink'
    <2>1. UNCHANGED <<device, cloud>>
        BY <1>8 DEF Connect
    <2>2. CASE present /\ synced
        <3>1. synced /\ UNCHANGED <<walk, down, spoiled>>
            BY <1>8, <2>2 DEF Connect
        <3>2. QED BY <1>1, <1>2, <2>1, <3>1 DEF Current, device
    <2>3. CASE ~(present /\ synced)
        <3>1. /\ walk' = Started("size", 0) /\ spoiled'
              /\ down' = (IF present THEN down ELSE <<>>) \o ServerState
            BY <1>8, <2>3 DEF Connect
        <3>2. PICK old \in Seq(Downlinks) : down' = old \o ServerState
            <4>1. (IF present THEN down ELSE <<>>) \in Seq(Downlinks)
                BY DEF Shaped, LinkOK
            <4>2. QED BY <3>1, <4>1
        <3>3. ASSUME NEW k \in ServerOwned, Known(k)' PROVE Will(k)'
            <4>1. Known(k)
                BY <2>1, <3>3 DEF Known, device
            <4>2. QED BY <2>1, <3>2, <4>1, WillConnect
        <3>4. QED BY <3>1, <3>3 DEF Downlink
    <2>4. QED BY <2>2, <2>3
<1>9. CASE Disconnect
    BY <1>1, <1>2, <1>9 DEF Disconnect, Current, device
<1>10. ASSUME NEW f \in Firmwares, Reboot(f) PROVE Downlink'
    <2>1. /\ firmware' = f /\ state' = "disconnected" /\ synced' = (synced /\ f = firmware)
          /\ walk' = NoWalk /\ spoiled' = (spoiled \/ walk.kind = "purge")
          /\ UNCHANGED <<kv, property, cloud, down>>
        BY <1>10 DEF Reboot
    <2>2. ASSUME NEW k \in ServerOwned, Settles(k) PROVE Settles(k)'
        <3>1. ValueOf(k)' = ValueOf(k) /\ walk'.kind = "none" /\ cloud' = cloud
            BY <1>2, <2>1 DEF NoWalk
        <3>2. spoiled' \/ ValueOf(k)' = cloud'[k]
            BY <2>1, <2>2, <3>1 DEF Settles
        <3>3. QED BY <3>1, <3>2 DEF Settles
    <2>3. ASSUME Current', NEW k \in ServerOwned, Known(k)' PROVE Will(k)'
        <3>1. Current /\ Known(k)
            BY <2>1, <2>3 DEF Current, Known
        <3>2. Will(k)
            BY <3>1 DEF Downlink
        <3>3. QED BY <2>1, <2>2, <3>2, WillSame
    <2>4. QED BY <2>1, <2>3 DEF Downlink, NoWalk
<1>11. ASSUME NEW k0 \in ServerOwned, NEW v \in Values \cup {NULL}, ServerChange(k0, v)
       PROVE  Downlink'
    <2> DEFINE m0 == [type |-> "set", key |-> k0, value |-> v]
    <2>1. /\ cloud' = [cloud EXCEPT ![k0] = v] /\ down' = Append(down, m0)
          /\ UNCHANGED <<device, state, walk, synced, spoiled>>
        BY <1>11 DEF ServerChange
    <2>2. m0 \in Downlinks /\ m0.type = "set" /\ m0.key = k0 /\ m0.value = v
        BY DEF Downlinks
    <2> HIDE DEF m0
    <2>3. cloud'[k0] = v /\ \A k \in ServerOwned \ {k0} : cloud'[k] = cloud[k]
        BY <2>1, Owned DEF Shaped, LinkOK
    <2>4. ASSUME Current', NEW k \in ServerOwned, Known(k)' PROVE Will(k)'
        <3>1. Will(k)
            BY <2>1, <2>4 DEF Downlink, Current, Known, device
        <3>2. CASE k = k0
            <4>1. PICK n \in Nat : /\ n \in DOMAIN down' /\ down'[n] = m0
                                   /\ \A m \in DOMAIN down' : ~(n < m)
                <5>1. /\ Len(down) + 1 \in Nat /\ Len(down) + 1 \in DOMAIN down'
                      /\ down'[Len(down) + 1] = m0
                      /\ \A m \in DOMAIN down' : ~(Len(down) + 1 < m)
                    BY <2>1, <2>2, DownIs
                <5>2. QED BY <5>1
            <4>2. NoPurge(n)' /\ Silent(k, n)'
                BY <4>1 DEF NoPurge, Silent
            <4>3. QED BY <2>2, <2>3, <3>2, <4>1, <4>2 DEF Will, SetAhead, Sets
        <3>3. CASE k # k0
            <4>1. cloud'[k] = cloud[k] /\ (Settles(k) => Settles(k)')
                BY <1>2, <2>1, <2>3, <3>3 DEF Settles, device
            <4>2. QED BY <2>1, <2>2, <3>1, <3>3, <4>1, WillAppend
        <3>4. QED BY <3>2, <3>3
    <2>5. QED BY <2>1, <2>4 DEF Downlink
<1>12. CASE UNCHANGED vars
    BY <1>1, <1>2, <1>12 DEF vars, device, Current
<1>13. QED BY <1>3, <1>4, <1>5, <1>6, <1>7, <1>8, <1>9, <1>10, <1>11, <1>12
       DEF Next, Worker, Environment

\* Whatever a device missed while it was away and in whatever order sets, unsets and
\* purges arrive: connected and with nothing on its way it stores what the server
\* set and nothing else, unless a purge was interfered with or a value found no room.
THEOREM ServerValuesAgreement == Spec => []ServerValuesAgree
<1>1. Shaped /\ Downlink => ServerValuesAgree
    <2> SUFFICES ASSUME Shaped, Downlink, Settled, down = <<>>, ~spoiled,
                        NEW k \in ServerOwned, Known(k)
                 PROVE  ValueOf(k) = cloud[k]
        BY DEF ServerValuesAgree
    <2>1. Will(k)
        BY DEF Settled, Downlink, Current
    <2>2. DOMAIN down = {}
        OBVIOUS
    <2>3. Settles(k)
        BY <2>1, <2>2 DEF Will, SetAhead, PurgeAhead
    <2>4. QED BY <2>3 DEF Settles, Settled
<1>2. Init => Downlink
    BY DEF Init, Downlink, Current, NoWalk
<1>3. Spec => []Downlink
    BY <1>2, DownlinkStep, AlwaysShaped, AlwaysWalked, AlwaysPhase, PTL DEF Spec
<1>4. QED BY <1>1, <1>3, AlwaysShaped, PTL
=============================================================================
