----------------------- MODULE TransmissionQueueProofs -----------------------
(***************************************************************************)
(* Theorems about TransmissionQueue, for any threads, messages, sizes and  *)
(* number of faults: the types of the state, that the stored messages are  *)
(* a segment of the ring which a boot finds again, that numbers are ahead  *)
(* of those in use, that messages of a class keep their order, and that    *)
(* none is lost unless one is removed under the hands of the worker.       *)
(***************************************************************************)
EXTENDS TransmissionQueue, WellFoundedInduction, FiniteSetTheorems, TLAPS

\* A non-empty set of numbers has a least one.
LEMMA LeastExists ==
    ASSUME NEW N \in SUBSET Nat, N # {}
    PROVE  \E n \in N : \A k \in N : n <= k
<1>1. PICK n \in N : \A k \in N : ~ (<<k, n>> \in OpToRel(<, Nat))
  BY WFMin, NatLessThanWellFounded
<1>2. \A k \in N : ~ (k < n)
  BY <1>1 DEF OpToRel
<1> QED BY <1>2

-----------------------------------------------------------------------------
(* Arithmetic of the ring.                                                 *)

LEMMA Constants ==
    /\ IdSpace \in Nat /\ StoreSize \in Nat \ {0} /\ IdSpace > StoreSize + 1 /\ IdSpace > 2
    /\ QueueSize \in Nat \ {0} /\ MaxFaults \in Nat
    /\ FirstId \in StoreIds
BY BoundAssumption DEF StoreIds

LEMMA Below == ASSUME NEW a \in StoreIds PROVE a % IdSpace = a /\ (a + IdSpace) % IdSpace = a
BY BoundAssumption DEF StoreIds

LEMMA Within == ASSUME NEW a \in Int PROVE a % IdSpace \in StoreIds
BY BoundAssumption DEF StoreIds

LEMMA Whole == ASSUME NEW a \in Int, NEW m \in Nat \ {0} PROVE (a * m) \div m = a
OBVIOUS

\* Of two numbers in a row one is even.
LEMMA TwoInARow == ASSUME NEW n \in Nat PROVE 2 * ((n * (n - 1)) \div 2) = n * (n - 1)
<1>1. n = 2 * (n \div 2) \/ n = 2 * (n \div 2) + 1
  OBVIOUS
<1> DEFINE q == n \div 2
<1>2. q \in Int
  OBVIOUS
<1> HIDE DEF q
<1>3. n = 2 * q \/ n = 2 * q + 1
  BY <1>1 DEF q
<1>4. \E k \in Int : n * (n - 1) = k * 2
  <2>1. CASE n = 2 * q
    <3>1. n * (n - 1) = (q * (n - 1)) * 2
      BY <1>2, <2>1
    <3>2. q * (n - 1) \in Int
      BY <1>2
    <3> QED BY <3>1, <3>2
  <2>2. CASE n = 2 * q + 1
    <3>1. n * (n - 1) = (n * q) * 2
      BY <1>2, <2>2
    <3>2. n * q \in Int
      BY <1>2
    <3> QED BY <3>1, <3>2
  <2> QED BY <1>3, <2>1, <2>2
<1>5. PICK k \in Int : n * (n - 1) = k * 2
  BY <1>4
<1>6. (k * 2) \div 2 = k
  BY Whole
<1> QED BY <1>5, <1>6

-----------------------------------------------------------------------------
(* The sum of a finite set, which the library folds in an order it chooses. *)

\* One step of the fold, and a function that takes it for the subsets of S of
\* no more than n elements.
Step(f, s) == IF s = {} THEN 0 ELSE LET x == CHOOSE x \in s : TRUE IN x + f[s \ {x}]
UpTo(S, n) == {s \in SUBSET S : Cardinality(s) <= n}
Folds(S, n, f) == f = [s \in UpTo(S, n) |-> Step(f, s)]

LEMMA Smaller ==
    ASSUME NEW S, IsFiniteSet(S), S # {}, NEW x \in S
    PROVE  /\ IsFiniteSet(S \ {x}) /\ Cardinality(S) \in Nat \ {0}
           /\ Cardinality(S \ {x}) = Cardinality(S) - 1
<1>1. IsFiniteSet(S \ {x}) /\ Cardinality(S \ {x}) = Cardinality(S) - 1
  BY FS_RemoveElement
<1>2. Cardinality(S) \in Nat /\ Cardinality(S \ {x}) \in Nat
  BY <1>1, FS_CardinalityType
<1> QED BY <1>1, <1>2

LEMMA SubsetFinite ==
    ASSUME NEW S, IsFiniteSet(S), NEW s \in SUBSET S
    PROVE  IsFiniteSet(s) /\ Cardinality(s) \in Nat /\ Cardinality(s) <= Cardinality(S)
           /\ Cardinality(S) \in Nat
BY FS_Subset, FS_CardinalityType

LEMMA FoldsExist ==
    ASSUME NEW S, IsFiniteSet(S), NEW n \in Nat PROVE \E f : Folds(S, n, f)
<1> DEFINE Bad == {m \in Nat : ~ \E f : Folds(S, m, f)}
<1> SUFFICES ASSUME Bad # {} PROVE FALSE
  OBVIOUS
<1>1. PICK m \in Bad : \A k \in Bad : m <= k
  BY LeastExists
<1>2. CASE m = 0
  <2> DEFINE f == [s \in UpTo(S, 0) |-> 0]
  <2>1. \A s \in UpTo(S, 0) : s = {}
    BY SubsetFinite, FS_EmptySet DEF UpTo
  <2>2. \A s \in UpTo(S, 0) : Step(f, s) = 0
    BY <2>1 DEF Step
  <2>3. Folds(S, 0, f)
    BY <2>2 DEF Folds
  <2> QED BY <1>1, <1>2, <2>3
<1>3. CASE m # 0
  <2>1. m \in Nat /\ m - 1 \in Nat /\ ~ (m <= m - 1)
    BY <1>1, <1>3
  <2>2. PICK g : Folds(S, m - 1, g)
    BY <1>1, <2>1
  <2> DEFINE f == [s \in UpTo(S, m) |-> IF Cardinality(s) <= m - 1 THEN g[s] ELSE Step(g, s)]
  <2>3. ASSUME NEW s \in UpTo(S, m) PROVE f[s] = Step(g, s) /\ Step(f, s) = Step(g, s)
    <3>1. Cardinality(s) \in Nat /\ Cardinality(s) <= m /\ IsFiniteSet(s) /\ s \in SUBSET S
      BY SubsetFinite DEF UpTo
    <3>2. Cardinality(s) <= m - 1 => g[s] = Step(g, s)
      BY <2>2, <3>1 DEF Folds, UpTo
    <3>3. f[s] = Step(g, s)
      BY <3>2
    <3>4. ASSUME NEW x \in s PROVE f[s \ {x}] = g[s \ {x}]
      <4>1. Cardinality(s \ {x}) = Cardinality(s) - 1 /\ Cardinality(s) \in Nat
        BY <3>1, Smaller
      <4>2. s \ {x} \in UpTo(S, m) /\ Cardinality(s \ {x}) <= m - 1
        BY <2>1, <3>1, <4>1 DEF UpTo
      <4> QED BY <4>2
    <3> HIDE DEF f
    <3>5. CASE s = {}
      BY <3>3, <3>5 DEF Step
    <3>6. CASE s # {}
      <4> DEFINE x == CHOOSE x \in s : TRUE
      <4>1. x \in s
        BY <3>6
      <4>2. Step(f, s) = x + f[s \ {x}] /\ Step(g, s) = x + g[s \ {x}]
        BY <3>6 DEF Step
      <4> QED BY <3>3, <3>4, <4>1, <4>2
    <3> QED BY <3>5, <3>6
  <2>4. f = [s \in UpTo(S, m) |-> Step(f, s)]
    BY <2>3
  <2> HIDE DEF f
  <2>5. Folds(S, m, f)
    BY <2>4 DEF Folds
  <2> QED BY <1>1, <2>5
<1> QED BY <1>2, <1>3

SumOver(S) == CHOOSE f : f = [s \in SUBSET S |-> Step(f, s)]

LEMMA SumOverFolds ==
    ASSUME NEW S, IsFiniteSet(S)
    PROVE  /\ SumSet(S) = SumOver(S)[S]
           /\ \A s \in SUBSET S : SumOver(S)[s] = Step(SumOver(S), s)
<1>1. SumSet(S) = SumOver(S)[S]
  BY DEF SumSet, FoldSet, MapThenFoldSet, SumOver, Step
<1>2. UpTo(S, Cardinality(S)) = SUBSET S /\ Cardinality(S) \in Nat
  BY SubsetFinite DEF UpTo
<1>3. \E f : f = [s \in SUBSET S |-> Step(f, s)]
  <2>1. PICK f : Folds(S, Cardinality(S), f)
    BY <1>2, FoldsExist
  <2>2. f = [s \in UpTo(S, Cardinality(S)) |-> Step(f, s)]
    BY <2>1 DEF Folds
  <2>3. f = [s \in SUBSET S |-> Step(f, s)]
    BY <1>2, <2>2
  <2> QED BY <2>3
<1>4. SumOver(S) = [s \in SUBSET S |-> Step(SumOver(S), s)]
  BY <1>3 DEF SumOver
<1> HIDE DEF SumOver
<1> QED BY <1>1, <1>4

\* The sum of a subset is the same wherever it is looked up.
LEMMA SumOverSubset ==
    ASSUME NEW S, IsFiniteSet(S), NEW T \in SUBSET S PROVE SumOver(S)[T] = SumSet(T)
<1>1. IsFiniteSet(T)
  BY SubsetFinite
<1> DEFINE Bad == {n \in Nat : \E s \in SUBSET T : Cardinality(s) = n /\ SumOver(S)[s] # SumOver(T)[s]}
<1>2. ASSUME Bad # {} PROVE FALSE
  <2>1. PICK n \in Bad : \A k \in Bad : n <= k
    BY <1>2, LeastExists
  <2>2. PICK s \in SUBSET T : Cardinality(s) = n /\ SumOver(S)[s] # SumOver(T)[s]
    BY <2>1
  <2>3. SumOver(S)[s] = Step(SumOver(S), s) /\ SumOver(T)[s] = Step(SumOver(T), s)
    BY <1>1, SumOverFolds
  <2>4. s # {}
    BY <2>2, <2>3 DEF Step
  <2> DEFINE x == CHOOSE x \in s : TRUE
  <2>5. x \in s
    BY <2>4
  <2>6. SumOver(S)[s] = x + SumOver(S)[s \ {x}] /\ SumOver(T)[s] = x + SumOver(T)[s \ {x}]
    BY <2>3, <2>4 DEF Step
  <2> HIDE DEF x
  <2>7. s \ {x} \in SUBSET T /\ SumOver(S)[s \ {x}] # SumOver(T)[s \ {x}]
    BY <2>2, <2>6
  <2>8. IsFiniteSet(s)
    BY <1>1, SubsetFinite
  <2>9. Cardinality(s \ {x}) = n - 1 /\ n - 1 \in Nat /\ n \in Nat
    BY <2>2, <2>4, <2>5, <2>8, Smaller
  <2>10. n - 1 \in Bad
    BY <2>7, <2>9
  <2> QED BY <2>1, <2>9, <2>10
<1>3. T \in SUBSET T /\ Cardinality(T) \in Nat
  BY <1>1, SubsetFinite
<1>4. SumOver(S)[T] = SumOver(T)[T]
  BY <1>2, <1>3
<1> QED BY <1>1, <1>4, SumOverFolds

LEMMA SumTakesOne ==
    ASSUME NEW S, IsFiniteSet(S), S # {}
    PROVE  LET x == CHOOSE x \in S : TRUE IN SumSet(S) = x + SumSet(S \ {x})
<1> DEFINE x == CHOOSE x \in S : TRUE
<1>1. SumSet(S) = Step(SumOver(S), S)
  BY SumOverFolds
<1>2. SumSet(S) = x + SumOver(S)[S \ {x}]
  BY <1>1 DEF Step
<1>3. SumOver(S)[S \ {x}] = SumSet(S \ {x})
  BY SumOverSubset
<1> QED BY <1>2, <1>3

LEMMA SumNone == SumSet({}) = 0
BY SumOverFolds, FS_EmptySet DEF Step

LEMMA SumInt ==
    ASSUME NEW S \in SUBSET Int, IsFiniteSet(S) PROVE SumSet(S) \in Int
<1> DEFINE Bad == {n \in Nat : \E s \in SUBSET S : Cardinality(s) = n /\ SumSet(s) \notin Int}
<1>1. ASSUME Bad # {} PROVE FALSE
  <2>1. PICK n \in Bad : \A k \in Bad : n <= k
    BY <1>1, LeastExists
  <2>2. PICK s \in SUBSET S : Cardinality(s) = n /\ SumSet(s) \notin Int
    BY <2>1
  <2>3. s # {} /\ IsFiniteSet(s)
    <3>1. s # {}
      BY <2>2, SumNone
    <3>2. IsFiniteSet(s)
      BY SubsetFinite
    <3> QED BY <3>1, <3>2
  <2>4. PICK x \in s : SumSet(s) = x + SumSet(s \ {x})
    BY <2>3, SumTakesOne
  <2>5. s \ {x} \in SUBSET S /\ SumSet(s \ {x}) \notin Int
    BY <2>2, <2>4
  <2>6. Cardinality(s \ {x}) = n - 1 /\ n - 1 \in Nat /\ n \in Nat
    <3>1. Cardinality(s) \in Nat \ {0} /\ Cardinality(s \ {x}) = Cardinality(s) - 1
      BY <2>3, Smaller
    <3> QED BY <2>2, <3>1
  <2>7. n - 1 \in Bad
    BY <2>5, <2>6
  <2> QED BY <2>1, <2>6, <2>7
<1> QED BY <1>1, SubsetFinite

\* Any element may be taken first.
LEMMA SumTakesAny ==
    ASSUME NEW S \in SUBSET Int, IsFiniteSet(S), NEW x \in S
    PROVE  SumSet(S) = x + SumSet(S \ {x})
<1> DEFINE Off(s) == \E y \in s : SumSet(s) # y + SumSet(s \ {y})
           Bad == {n \in Nat : \E s \in SUBSET S : Cardinality(s) = n /\ Off(s)}
<1>1. ASSUME Bad # {} PROVE FALSE
  <2>1. PICK n \in Bad : \A k \in Bad : n <= k
    BY <1>1, LeastExists
  <2>2. PICK s \in SUBSET S : Cardinality(s) = n /\ Off(s)
    BY <2>1
  <2>3. PICK y \in s : SumSet(s) # y + SumSet(s \ {y})
    BY <2>2
  <2>4. s # {} /\ IsFiniteSet(s) /\ \A z \in s : IsFiniteSet(s \ {z})
    BY <2>3, SubsetFinite
  <2>5. PICK c \in s : SumSet(s) = c + SumSet(s \ {c})
    BY <2>4, SumTakesOne
  <2>6. c # y
    BY <2>3, <2>5
  <2>7. ASSUME NEW z \in s PROVE ~Off(s \ {z})
    <3>1. Cardinality(s \ {z}) = n - 1 /\ n - 1 \in Nat /\ n \in Nat
      BY <2>2, <2>4, Smaller
    <3> QED BY <2>1, <3>1
  <2>8. SumSet(s \ {c}) = y + SumSet((s \ {c}) \ {y})
    BY <2>6, <2>7
  <2>9. SumSet(s \ {y}) = c + SumSet((s \ {y}) \ {c})
    BY <2>6, <2>7
  <2>10. (s \ {c}) \ {y} = (s \ {y}) \ {c}
    OBVIOUS
  <2> DEFINE rest == SumSet((s \ {c}) \ {y})
  <2>11. rest \in Int /\ c \in Int /\ y \in Int
    BY <2>4, SumInt, SubsetFinite
  <2> HIDE DEF rest
  <2>12. SumSet(s) = c + (y + rest) /\ SumSet(s \ {y}) = c + rest
    BY <2>5, <2>8, <2>9, <2>10 DEF rest
  <2> QED BY <2>3, <2>11, <2>12
<1> QED BY <1>1, SubsetFinite

\* One more element, and k numbers from h on.
LEMMA SumMore ==
    ASSUME NEW S \in SUBSET Int, IsFiniteSet(S), NEW x \in Int, x \notin S
    PROVE  SumSet(S \cup {x}) = SumSet(S) + x /\ IsFiniteSet(S \cup {x})
<1>1. IsFiniteSet(S \cup {x})
  BY FS_AddElement
<1>2. (S \cup {x}) \ {x} = S /\ S \cup {x} \in SUBSET Int
  OBVIOUS
<1>3. SumSet(S \cup {x}) = x + SumSet(S)
  BY <1>1, <1>2, SumTakesAny
<1>4. SumSet(S) \in Int
  BY SumInt
<1> QED BY <1>1, <1>3, <1>4

LEMMA SumRow ==
    ASSUME NEW S \in SUBSET Int, IsFiniteSet(S), NEW h \in Int, NEW k \in Nat,
           \A x \in S : x < h
    PROVE  2 * SumSet(S \cup (h .. h + k - 1)) = 2 * SumSet(S) + k * (2 * h + k - 1)
<1> DEFINE Row(n) == S \cup (h .. h + n - 1)
           Bad == {n \in Nat : ~ /\ 2 * SumSet(Row(n)) = 2 * SumSet(S) + n * (2 * h + n - 1)
                                 /\ IsFiniteSet(Row(n))}
<1>1. ASSUME Bad # {} PROVE FALSE
  <2>1. PICK n \in Bad : \A m \in Bad : n <= m
    BY <1>1, LeastExists
  <2>2. CASE n = 0
    <3>1. Row(0) = S
      OBVIOUS
    <3>2. SumSet(S) \in Int
      BY SumInt
    <3> HIDE DEF Row
    <3>3. 2 * SumSet(Row(0)) = 2 * SumSet(S) + 0 * (2 * h + 0 - 1)
      BY <3>1, <3>2
    <3> QED BY <2>1, <2>2, <3>1, <3>3
  <2>3. CASE n # 0
    <3> DEFINE m == n - 1
    <3>1. m \in Nat /\ n = m + 1 /\ m \notin Bad
      BY <2>1, <2>3
    <3> HIDE DEF m
    <3>2. Row(n) = Row(m) \cup {h + m} /\ h + m \notin Row(m) /\ Row(m) \in SUBSET Int
      BY <3>1
    <3>3. 2 * SumSet(Row(m)) = 2 * SumSet(S) + m * (2 * h + m - 1) /\ IsFiniteSet(Row(m))
      BY <3>1
    <3> HIDE DEF Row
    <3>4. SumSet(Row(n)) = SumSet(Row(m)) + (h + m) /\ IsFiniteSet(Row(n))
      BY <3>1, <3>2, <3>3, SumMore
    <3>5. SumSet(S) \in Int /\ SumSet(Row(m)) \in Int
      BY <3>2, <3>3, SumInt
    <3>6. n * (2 * h + n - 1) = m * (2 * h + m - 1) + 2 * (h + m)
      BY <3>1
    <3>7. 2 * SumSet(Row(n)) = 2 * SumSet(S) + n * (2 * h + n - 1)
      <4> DEFINE a == n * (2 * h + n - 1)
                 b == m * (2 * h + m - 1)
      <4>1. a \in Int /\ b \in Int /\ a = b + 2 * (h + m) /\ 2 * SumSet(Row(m)) = 2 * SumSet(S) + b
        BY <3>1, <3>3, <3>6
      <4> DEFINE sn == SumSet(Row(n))
                 sm == SumSet(Row(m))
                 s0 == SumSet(S)
      <4>2. sn = sm + (h + m) /\ sm \in Int /\ s0 \in Int
        BY <3>4, <3>5
      <4> HIDE DEF a, b, sn, sm, s0
      <4>3. 2 * sm = 2 * s0 + b
        BY <4>1 DEF sm, s0
      <4>4. 2 * sn = 2 * s0 + a
        BY <3>1, <4>1, <4>2, <4>3
      <4> QED BY <4>4 DEF a, sn, s0
    <3> QED BY <2>1, <3>4, <3>7
  <2> QED BY <2>2, <2>3
<1> QED BY <1>1

-----------------------------------------------------------------------------
(* astarte_storage_transmission_get_indexes.                               *)

\* How far an id lies behind the head, and the n ids from the head on.
Dist(h, id) == IF h <= id THEN id - h ELSE id - h + IdSpace
Segment(h, n) == {id \in StoreIds : Dist(h, id) < n}

LEMMA Next1Is ==
    ASSUME NEW id \in StoreIds
    PROVE  /\ Next1(id) = IF id = IdSpace - 1 THEN 0 ELSE id + 1
           /\ Next1(id) \in StoreIds
<1>1. CASE id = IdSpace - 1
  <2>1. (0 + IdSpace) % IdSpace = 0 /\ id + 1 = 0 + IdSpace /\ 0 \in StoreIds
    BY <1>1, Below, Constants DEF StoreIds
  <2> QED BY <1>1, <2>1 DEF Next1
<1>2. CASE id # IdSpace - 1
  <2>1. id + 1 \in StoreIds
    BY <1>2, Constants DEF StoreIds
  <2> QED BY <1>2, <2>1, Below DEF Next1
<1> QED BY <1>1, <1>2

LEMMA RingIs ==
    ASSUME NEW h \in StoreIds, NEW i \in 0 .. IdSpace - 1
    PROVE  /\ (h + i) % IdSpace = IF h + i < IdSpace THEN h + i ELSE h + i - IdSpace
           /\ (h + i) % IdSpace \in StoreIds
           /\ Dist(h, (h + i) % IdSpace) = i
<1>1. (h + i) % IdSpace = IF h + i < IdSpace THEN h + i ELSE h + i - IdSpace
  <2>1. CASE h + i < IdSpace
    <3>1. h + i \in StoreIds
      BY <2>1, Constants DEF StoreIds
    <3> QED BY <2>1, <3>1, Below
  <2>2. CASE ~ (h + i < IdSpace)
    <3>1. h + i - IdSpace \in StoreIds /\ (h + i - IdSpace) + IdSpace = h + i
      BY <2>2, Constants DEF StoreIds
    <3> QED BY <2>2, <3>1, Below
  <2> QED BY <2>1, <2>2
<1> QED BY <1>1, Constants DEF Dist, StoreIds

\* The sum and the number of the ids of a segment, and the least and the greatest
\* of them, tell where it starts and where it ends: the closed formula of
\* astarte_storage_transmission_get_indexes is right for every segment that
\* leaves at least two ids free, wherever on the ring it lies.
THEOREM IndexesOfSegment ==
    ASSUME NEW h \in StoreIds, NEW n \in Nat \ {0}, n < IdSpace - 1, NEW t \in StoreIds,
           Next1(t) = (h + n) % IdSpace, NEW ids, ids = Segment(h, n), Cardinality(ids) = n
    PROVE  IndexesOf(ids) = [head |-> h, tail |-> t]
<1>1. IdSpace \in Nat /\ IdSpace > 2 /\ h \in 0 .. IdSpace - 1 /\ t \in 0 .. IdSpace - 1
  BY Constants DEF StoreIds
<1>2. t = IF h + n - 1 < IdSpace THEN h + n - 1 ELSE h + n - 1 - IdSpace
  <2>1. (h + n) % IdSpace = IF h + n < IdSpace THEN h + n ELSE h + n - IdSpace
    BY <1>1, RingIs
  <2>2. Next1(t) = IF t = IdSpace - 1 THEN 0 ELSE t + 1
    BY Next1Is
  <2> QED BY <1>1, <2>1, <2>2
<1>3. h \in ids /\ ids \subseteq 0 .. IdSpace - 1
  BY <1>1 DEF Segment, Dist, StoreIds
<1>4. CASE h + n <= IdSpace
  <2>1. ids = h .. h + n - 1
    BY <1>1, <1>4 DEF Segment, Dist, StoreIds
  <2>2. Min(ids) = h
    <3>1. \A x \in ids : (\A y \in ids : x <= y) <=> x = h
      BY <1>1, <2>1
    <3> QED BY <1>3, <3>1 DEF Min
  <2>3. Max(ids) = h + n - 1
    <3>1. \A x \in ids : (\A y \in ids : x >= y) <=> x = h + n - 1
      BY <1>1, <2>1
    <3>2. h + n - 1 \in ids
      BY <1>1, <2>1
    <3> QED BY <3>1, <3>2 DEF Max
  <2>4. Max(ids) - Min(ids) + 1 = n /\ t = h + n - 1
    BY <1>1, <1>2, <1>4, <2>2, <2>3
  <2> QED BY <1>3, <2>2, <2>3, <2>4 DEF IndexesOf
<1>5. CASE h + n > IdSpace
  <2>1. ids = (0 .. t) \cup (h .. IdSpace - 1) /\ t = h + n - 1 - IdSpace /\ t + 1 < h
    BY <1>1, <1>2, <1>5 DEF Segment, Dist, StoreIds
  <2>2. Min(ids) = 0
    <3>1. \A x \in ids : (\A y \in ids : x <= y) <=> x = 0
      BY <1>1, <2>1
    <3>2. 0 \in ids
      BY <1>1, <2>1
    <3> QED BY <3>1, <3>2 DEF Min
  <2>3. Max(ids) = IdSpace - 1
    <3>1. \A x \in ids : (\A y \in ids : x >= y) <=> x = IdSpace - 1
      BY <1>1, <2>1
    <3>2. IdSpace - 1 \in ids
      BY <1>1, <2>1
    <3> QED BY <3>1, <3>2 DEF Max
  <2>4. Max(ids) - Min(ids) + 1 # n
    BY <1>1, <2>2, <2>3
  <2> DEFINE all == (IdSpace * (IdSpace - 1)) \div 2
             missing == IdSpace - n
             sumMissing == all - SumSet(ids)
  <2>5. 2 * all = IdSpace * (IdSpace - 1) /\ all \in Int
    BY <1>1, TwoInARow
  <2>6. 2 * SumSet(ids) = (t + 1) * t + (IdSpace - h) * (h + IdSpace - 1) /\ SumSet(ids) \in Int
    <3>1. 0 .. t = {} \cup (0 .. 0 + (t + 1) - 1) /\ 0 .. t \in SUBSET Int /\ IsFiniteSet(0 .. t)
      BY <1>1, FS_Interval
    <3>2. 2 * SumSet(0 .. t) = 2 * SumSet({}) + (t + 1) * (2 * 0 + (t + 1) - 1)
      <4>1. {} \in SUBSET Int /\ IsFiniteSet({}) /\ 0 \in Int /\ t + 1 \in Nat /\ \A x \in {} : x < 0
        BY <1>1, FS_EmptySet
      <4>2. 2 * SumSet({} \cup (0 .. 0 + (t + 1) - 1)) = 2 * SumSet({}) + (t + 1) * (2 * 0 + (t + 1) - 1)
        BY <4>1, SumRow
      <4> QED BY <3>1, <4>2
    <3>3. 2 * SumSet(0 .. t) = (t + 1) * t
      BY <1>1, <3>2, SumNone
    <3>4. ids = (0 .. t) \cup (h .. h + (IdSpace - h) - 1)
      BY <1>1, <2>1
    <3>5. 2 * SumSet(ids) = 2 * SumSet(0 .. t) + (IdSpace - h) * (2 * h + (IdSpace - h) - 1)
      <4>1. h \in Int /\ IdSpace - h \in Nat /\ \A x \in 0 .. t : x < h
        BY <1>1, <2>1
      <4>2. 2 * SumSet((0 .. t) \cup (h .. h + (IdSpace - h) - 1))
                = 2 * SumSet(0 .. t) + (IdSpace - h) * (2 * h + (IdSpace - h) - 1)
        BY <3>1, <4>1, SumRow
      <4> QED BY <3>4, <4>2
    <3>6. 2 * h + (IdSpace - h) - 1 = h + IdSpace - 1
      BY <1>1
    <3>7. IsFiniteSet(ids) /\ ids \in SUBSET Int
      <4>1. IsFiniteSet(0 .. IdSpace - 1)
        BY <1>1, FS_Interval
      <4>2. ids \in SUBSET Int
        BY <1>1, <1>3
      <4> QED BY <1>3, <4>1, <4>2, FS_Subset
    <3> QED BY <3>3, <3>5, <3>6, <3>7, SumInt
  <2>7. missing = h - t - 1 /\ missing \in Nat \ {0}
    BY <1>1, <2>1
  <2>8. 2 * sumMissing = (h + t) * missing
    <3> DEFINE a == IdSpace * (IdSpace - 1)
               b == (t + 1) * t
               c == (IdSpace - h) * (h + IdSpace - 1)
               d == h * (h - 1)
    <3>1. a \in Int /\ b \in Int /\ c \in Int /\ d \in Int
      BY <1>1
    <3>2. 2 * all = a /\ 2 * SumSet(ids) = b + c
      BY <2>5, <2>6
    <3>3. c = a - d
      BY <1>1
    <3>4. d - b = (h + t) * (h - t - 1)
      BY <1>1
    <3> HIDE DEF a, b, c, d, all
    <3>5. 2 * (all - SumSet(ids)) = d - b
      BY <2>5, <2>6, <3>1, <3>2, <3>3
    <3> QED BY <2>7, <3>4, <3>5
  <2> HIDE DEF all, missing, sumMissing
  <2>9. (2 * sumMissing) \div missing = h + t
    BY <1>1, <2>7, <2>8, Whole
  <2>10. /\ (((h + t) + (missing + 1)) \div 2) % IdSpace = h
         /\ (((h + t) - (missing + 1)) \div 2) % IdSpace = t
    <3>1. (h + t) + (missing + 1) = h * 2 /\ (h + t) - (missing + 1) = t * 2
      BY <1>1, <2>7
    <3>2. (h * 2) \div 2 = h /\ (t * 2) \div 2 = t
      BY <1>1
    <3> QED BY <3>1, <3>2, Below
  <2>11. ids # {} /\ Cardinality(ids) = n
    BY <1>3
  <2> QED BY <2>4, <2>9, <2>10, <2>11 DEF IndexesOf, all, missing, sumMissing
<1> QED BY <1>1, <1>4, <1>5
-----------------------------------------------------------------------------
(* The stored messages on the ring.                                        *)

\* The ids are the segment from head h to tail t, within the quota.
InRing(ids, h, t) ==
    /\ h \in StoreIds /\ t \in StoreIds
    /\ IsFiniteSet(ids) /\ Cardinality(ids) <= StoreSize
    /\ ids = Segment(h, Cardinality(ids))
    /\ Next1(t) = (h + Cardinality(ids)) % IdSpace

LEMMA RingSize == ASSUME NEW ids, NEW h, NEW t, InRing(ids, h, t)
                  PROVE  Cardinality(ids) \in Nat /\ Cardinality(ids) < IdSpace - 1
BY FS_CardinalityType, Constants DEF InRing

LEMMA RingNone == ASSUME NEW h \in StoreIds, NEW t \in StoreIds, Next1(t) = h
                  PROVE  InRing({}, h, t)
<1>1. Cardinality({}) = 0 /\ IsFiniteSet({})
  BY FS_EmptySet
<1>2. Segment(h, 0) = {}
  BY Constants DEF Segment, Dist, StoreIds
<1>3. (h + 0) % IdSpace = h
  BY Below, Constants DEF StoreIds
<1> QED BY <1>1, <1>2, <1>3, Constants DEF InRing

\* The id after the tail is free, and not just behind the head.
LEMMA RingFree ==
    ASSUME NEW ids, NEW h, NEW t, InRing(ids, h, t)
    PROVE  /\ Next1(t) \notin ids /\ Next1(t) \in StoreIds
           /\ Dist(h, Next1(t)) = Cardinality(ids)
           /\ \A g \in StoreIds : Next1(g) = h => Next1(t) # g
<1> DEFINE n == Cardinality(ids)
           x == Next1(t)
<1>1. n \in 0 .. IdSpace - 1 /\ n < IdSpace - 1
  BY RingSize, Constants
<1>2. h \in StoreIds /\ x = (h + n) % IdSpace /\ ids = Segment(h, n)
  BY DEF InRing
<1> HIDE DEF n, x
<1>3. x \in StoreIds /\ Dist(h, x) = n /\ x = IF h + n < IdSpace THEN h + n ELSE h + n - IdSpace
  BY <1>1, <1>2, RingIs
<1>4. x \notin ids
  BY <1>1, <1>2, <1>3 DEF Segment
<1>5. ASSUME NEW g \in StoreIds, Next1(g) = h PROVE x # g
  <2>1. h = IF g = IdSpace - 1 THEN 0 ELSE g + 1
    BY <1>5, Next1Is
  <2> QED BY <1>1, <1>3, <2>1, Constants DEF StoreIds
<1> QED BY <1>3, <1>4, <1>5 DEF n, x

LEMMA RingAppend ==
    ASSUME NEW ids, NEW h, NEW t, InRing(ids, h, t), Cardinality(ids) < StoreSize
    PROVE  InRing(ids \cup {Next1(t)}, h, Next1(t))
<1> DEFINE n == Cardinality(ids)
           x == Next1(t)
<1>1. n \in 0 .. IdSpace - 1 /\ n + 1 \in 0 .. IdSpace - 1 /\ n < StoreSize
  BY RingSize, Constants
<1>2. h \in StoreIds /\ t \in StoreIds /\ x = (h + n) % IdSpace /\ ids = Segment(h, n) /\ IsFiniteSet(ids)
  BY DEF InRing
<1>4. x \notin ids
  BY RingFree
<1> HIDE DEF n, x
<1>3. x \in StoreIds /\ Dist(h, x) = n /\ x = IF h + n < IdSpace THEN h + n ELSE h + n - IdSpace
  BY <1>1, <1>2, RingIs
<1>5. IsFiniteSet(ids \cup {x}) /\ Cardinality(ids \cup {x}) = n + 1
  BY <1>2, <1>4, FS_AddElement DEF n
<1>6. ASSUME NEW id \in StoreIds PROVE Dist(h, id) < n + 1 <=> (Dist(h, id) < n \/ id = x)
  BY <1>1, <1>2, <1>3, <1>6, Constants DEF Dist, StoreIds
<1>7. ids \cup {x} = Segment(h, n + 1)
  BY <1>2, <1>3, <1>6 DEF Segment
<1>8. Next1(x) = (h + (n + 1)) % IdSpace
  <2>1. (h + (n + 1)) % IdSpace = IF h + (n + 1) < IdSpace THEN h + (n + 1) ELSE h + (n + 1) - IdSpace
    BY <1>1, <1>2, RingIs
  <2>2. Next1(x) = IF x = IdSpace - 1 THEN 0 ELSE x + 1
    BY <1>3, Next1Is
  <2> QED BY <1>1, <1>2, <1>3, <2>1, <2>2, Constants DEF StoreIds
<1>9. n + 1 <= StoreSize
  BY <1>1, Constants
<1> QED BY <1>2, <1>3, <1>4, <1>5, <1>7, <1>8, <1>9 DEF InRing, n, x

LEMMA RingFront ==
    ASSUME NEW ids, NEW h, NEW t, InRing(ids, h, t)
    PROVE  h \in ids <=> ids # {}
<1> DEFINE n == Cardinality(ids)
<1>1. n \in Nat /\ h \in StoreIds /\ ids = Segment(h, n)
  BY RingSize DEF InRing
<1> HIDE DEF n
<1>2. h \in ids <=> n > 0
  BY <1>1, Constants DEF Segment, Dist, StoreIds
<1>3. n > 0 <=> ids # {}
  BY FS_EmptySet, <1>1 DEF n, InRing
<1> QED BY <1>2, <1>3

LEMMA RingRemove ==
    ASSUME NEW ids, NEW h, NEW t, InRing(ids, h, t), h \in ids
    PROVE  /\ InRing(ids \ {h}, Next1(h), t)
           /\ \A id \in ids \ {h} : Dist(Next1(h), id) = Dist(h, id) - 1
<1> DEFINE n == Cardinality(ids)
           g == Next1(h)
<1>1. n \in 0 .. IdSpace - 1 /\ n <= StoreSize
  BY RingSize, Constants DEF InRing
<1>2. h \in StoreIds /\ t \in StoreIds /\ Next1(t) = (h + n) % IdSpace /\ ids = Segment(h, n) /\ IsFiniteSet(ids)
  BY DEF InRing
<1>3. g \in StoreIds /\ g = IF h = IdSpace - 1 THEN 0 ELSE h + 1
  BY <1>2, Next1Is
<1>4. IsFiniteSet(ids \ {h}) /\ Cardinality(ids \ {h}) = n - 1 /\ n # 0
  BY <1>2, Smaller
<1>11. g = Next1(h)
  OBVIOUS
<1> HIDE DEF n, g
<1>5. ASSUME NEW id \in StoreIds, id # h PROVE Dist(g, id) = Dist(h, id) - 1
  BY <1>2, <1>3, <1>5, Constants DEF Dist, StoreIds
<1>6. ~(Dist(g, h) < n - 1)
  BY <1>1, <1>2, <1>3, Constants DEF Dist, StoreIds
<1>7. \A id \in StoreIds : Dist(h, id) \in Int
  BY <1>2, Constants DEF Dist, StoreIds
<1>8. ids \ {h} = Segment(g, n - 1)
  BY <1>1, <1>2, <1>5, <1>6, <1>7 DEF Segment
<1>9. Next1(t) = (g + (n - 1)) % IdSpace
  <2>1. (h + n) % IdSpace = IF h + n < IdSpace THEN h + n ELSE h + n - IdSpace
    BY <1>1, <1>2, RingIs
  <2>2. (g + (n - 1)) % IdSpace = IF g + (n - 1) < IdSpace THEN g + (n - 1) ELSE g + (n - 1) - IdSpace
    <3>1. n - 1 \in 0 .. IdSpace - 1
      BY <1>1, <1>4, Constants
    <3> QED BY <1>3, <3>1, RingIs
  <2> QED BY <1>1, <1>2, <1>3, <1>4, <2>1, <2>2, Constants DEF StoreIds
<1>10. \A id \in ids \ {h} : Dist(g, id) = Dist(h, id) - 1
  BY <1>2, <1>5 DEF Segment
<1>12. Cardinality(ids \ {h}) <= StoreSize
  BY <1>1, <1>4, Constants
<1>13. InRing(ids \ {h}, g, t)
  BY <1>2, <1>3, <1>4, <1>8, <1>9, <1>12 DEF InRing
<1> QED BY <1>10, <1>11, <1>13

LEMMA RingIndexes ==
    ASSUME NEW ids, NEW h, NEW t, InRing(ids, h, t), ids # {}
    PROVE  IndexesOf(ids) = [head |-> h, tail |-> t]
<1>1. Cardinality(ids) \in Nat \ {0}
  BY RingSize, FS_EmptySet DEF InRing
<1> QED BY <1>1, RingSize, IndexesOfSegment DEF InRing

\* What init works out of the ids, none included, is again such a segment.
LEMMA RingFound ==
    ASSUME NEW ids, NEW h, NEW t, InRing(ids, h, t)
    PROVE  InRing(ids, IndexesOf(ids).head, IndexesOf(ids).tail)
<1>1. CASE ids # {}
  BY <1>1, RingIndexes
<1>2. CASE ids = {}
  <2>1. IndexesOf(ids) = [head |-> 1, tail |-> 0]
    BY <1>2 DEF IndexesOf
  <2>2. 1 \in StoreIds /\ 0 \in StoreIds /\ Next1(0) = 1
    BY Next1Is, Constants DEF StoreIds
  <2> QED BY <1>2, <2>1, <2>2, RingNone
<1> QED BY <1>1, <1>2

\* The tail is the last of them.
LEMMA RingLast ==
    ASSUME NEW ids, NEW h, NEW t, InRing(ids, h, t), ids # {}
    PROVE  t \in ids /\ \A id \in ids : id # t => Dist(h, id) < Dist(h, t)
<1> DEFINE n == Cardinality(ids)
<1>1. n \in 0 .. IdSpace - 1 /\ n # 0
  BY RingSize, FS_EmptySet, Constants DEF InRing
<1>2. h \in StoreIds /\ t \in StoreIds /\ Next1(t) = (h + n) % IdSpace /\ ids = Segment(h, n)
  BY DEF InRing
<1> HIDE DEF n
<1>3. (h + n) % IdSpace = IF h + n < IdSpace THEN h + n ELSE h + n - IdSpace
  BY <1>1, <1>2, RingIs
<1>4. Next1(t) = IF t = IdSpace - 1 THEN 0 ELSE t + 1
  BY <1>2, Next1Is
<1>5. Dist(h, t) = n - 1
  BY <1>1, <1>2, <1>3, <1>4, Constants DEF Dist, StoreIds
<1>6. ASSUME NEW id \in ids, id # t PROVE Dist(h, id) < n - 1
  <2>1. id \in StoreIds /\ Dist(h, id) < n
    BY <1>2, <1>6 DEF Segment
  <2>2. Dist(h, id) # Dist(h, t) /\ Dist(h, id) \in Int
    BY <1>2, <1>6, <2>1, Constants DEF Dist, StoreIds
  <2> QED BY <1>1, <1>5, <2>1, <2>2, Constants
<1> QED BY <1>1, <1>2, <1>5, <1>6, Constants DEF Segment


\* Whatever the ids, the indexes lie on the ring.
LEMMA IndexesType ==
    ASSUME NEW ids \in SUBSET StoreIds
    PROVE  IndexesOf(ids) \in [head : StoreIds, tail : StoreIds]
<1>1. StoreIds = 0 .. IdSpace - 1 /\ IdSpace \in Nat /\ IdSpace > 2
  BY Constants DEF StoreIds
<1>2. IsFiniteSet(StoreIds) /\ Cardinality(StoreIds) = IdSpace
  BY <1>1, FS_Interval
<1>3. IsFiniteSet(ids) /\ Cardinality(ids) \in Nat /\ Cardinality(ids) <= IdSpace
  BY <1>2, SubsetFinite
<1>4. CASE ids = {}
  BY <1>1, <1>4 DEF IndexesOf
<1>5. ASSUME ids # {} PROVE Min(ids) \in ids /\ Max(ids) \in ids
  <2>1. ids \in SUBSET Nat
    BY <1>1
  <2>2. \E x \in ids : \A y \in ids : x <= y
    BY <1>5, <2>1, LeastExists
  <2> DEFINE above == {k \in Nat : \A y \in ids : y <= k}
  <2>3. IdSpace \in above
    BY <1>1
  <2>4. PICK k \in above : \A m \in above : k <= m
    BY <2>3, LeastExists
  <2>5. k \in ids
    <3> SUFFICES ASSUME k \notin ids PROVE FALSE
      OBVIOUS
    <3>1. PICK y \in ids : y <= k
      BY <1>5, <2>4
    <3>2. k - 1 \in Nat /\ \A z \in ids : z <= k - 1
      BY <2>1, <2>4, <3>1
    <3> QED BY <2>4, <3>2
  <2>6. \E x \in ids : \A y \in ids : x >= y
    BY <2>1, <2>4, <2>5
  <2> QED BY <2>2, <2>6 DEF Min, Max
<1>6. CASE ids # {} /\ Max(ids) - Min(ids) + 1 = Cardinality(ids)
  BY <1>5, <1>6 DEF IndexesOf
<1>7. CASE ids # {} /\ Max(ids) - Min(ids) + 1 # Cardinality(ids)
  <2> DEFINE missing == IdSpace - Cardinality(ids)
             sumMissing == (IdSpace * (IdSpace - 1)) \div 2 - SumSet(ids)
             sumHT == (2 * sumMissing) \div missing
  <2>1. Cardinality(ids) # IdSpace
    <3> SUFFICES ASSUME Cardinality(ids) = IdSpace PROVE FALSE
      OBVIOUS
    <3>1. ids = StoreIds
      BY <1>2, FS_Subset
    <3>2. Min(ids) = 0
      <4>1. \A x \in StoreIds : (\A y \in StoreIds : x <= y) <=> x = 0
        BY <1>1
      <4> QED BY <1>1, <3>1, <4>1 DEF Min
    <3>3. Max(ids) = IdSpace - 1
      <4>1. \A x \in StoreIds : (\A y \in StoreIds : x >= y) <=> x = IdSpace - 1
        BY <1>1
      <4>2. IdSpace - 1 \in StoreIds
        BY <1>1
      <4> QED BY <3>1, <4>1, <4>2 DEF Max
    <3> QED BY <1>1, <1>7, <3>2, <3>3
  <2>2. missing \in Nat \ {0}
    BY <1>1, <1>3, <2>1
  <2>3. SumSet(ids) \in Int
    BY <1>1, <1>3, SumInt
  <2>4. sumMissing \in Int
    BY <1>1, <2>3
  <2> HIDE DEF missing, sumMissing
  <2>5. sumHT \in Int
    BY <2>2, <2>4
  <2> HIDE DEF sumHT
  <2>6. /\ (sumHT + (missing + 1)) \div 2 \in Int
        /\ (sumHT - (missing + 1)) \div 2 \in Int
    BY <2>2, <2>5
  <2>7. IndexesOf(ids) = [head |-> ((sumHT + (missing + 1)) \div 2) % IdSpace,
                          tail |-> ((sumHT - (missing + 1)) \div 2) % IdSpace]
    BY <1>7 DEF IndexesOf, sumHT, sumMissing, missing
  <2> QED BY <2>6, <2>7, Within
<1> QED BY <1>4, <1>6, <1>7

-----------------------------------------------------------------------------
(* Types, and what a call holds.                                           *)

LEMMA RankType == ASSUME NEW m \in Msg PROVE Rank(m) \in 1 .. 4
<1>1. m.class \in {"interface", "discard", "volatile", "stored"}
  BY DEF Msg, Range, PeekOrder
<1>2. \E n \in 1 .. 4 : Preference[n] = m.class
  BY <1>1 DEF Preference
<1> QED BY <1>2 DEF Rank

\* There is an oldest among the fronts that were seen.
LEMMA OldestExists == ASSUME NEW seen \in SUBSET Msg, seen # {} PROVE Oldest(seen) \in seen
<1> DEFINE Key(m) == 4 * m.seq + Rank(m)
           keys == {Key(m) : m \in seen}
<1>1. \A m \in seen : m.seq \in Nat /\ Rank(m) \in 1 .. 4
  BY RankType DEF Msg
<1>2. keys \in SUBSET Nat /\ keys # {}
  BY <1>1
<1>3. PICK k \in keys : \A i \in keys : k <= i
  BY <1>2, LeastExists
<1>4. PICK m \in seen : k = Key(m)
  BY <1>3
<1>5. \A o \in seen : Key(m) <= Key(o)
  BY <1>3, <1>4
<1>6. ASSUME NEW o \in seen PROVE Older(m, o)
  <2>1. /\ m.seq \in Nat /\ o.seq \in Nat /\ Rank(m) \in 1 .. 4 /\ Rank(o) \in 1 .. 4
        /\ 4 * m.seq + Rank(m) <= 4 * o.seq + Rank(o)
    BY <1>1, <1>5
  <2>2. m.seq < o.seq \/ (m.seq = o.seq /\ Rank(m) <= Rank(o))
    BY <2>1
  <2> QED BY <2>2 DEF Older
<1> QED BY <1>6 DEF Oldest

Holds(t) ==
    IF At(t, "idle") THEN sender[t] = Idle
    ELSE /\ sender[t].msg \in Msg /\ sender[t].msg.by = t /\ sender[t].msg.nr = sends[t]
         /\ At(t, "moved_head") \/ At(t, "moved_tail") => sender[t].msg.class = "stored"
SendersType == sender \in [Senders -> [pc : SenderPcs, msg : Msg \cup {NoMsg}]]
InHand ==
    /\ sends \in [Senders -> Nat]
    /\ \A t \in Senders : Holds(t)
    /\ AtW("held") \/ AtW("discard") => worker.msg \in Msg

LEMMA Moves ==
    ASSUME SendersType, NEW t \in Senders, ~At(t, "idle"), NEW pc \in SenderPcs \ {"idle"},
           SenderTo(t, pc), UNCHANGED sends, \A u \in Senders : Holds(u),
           pc \in {"moved_head", "moved_tail"} => sender[t].msg.class = "stored"
    PROVE  SendersType' /\ \A u \in Senders : Holds(u)'
<1>1. sender'[t].pc = pc /\ sender'[t].msg = sender[t].msg /\ SendersType'
  BY DEF SenderTo, SendersType
<1>2. \A u \in Senders : u # t => sender'[u] = sender[u]
  BY DEF SenderTo, SendersType
<1>3. Holds(t)'
  BY <1>1 DEF Holds, At
<1>4. \A u \in Senders : u # t => Holds(u)'
  BY <1>2 DEF Holds, At
<1> QED BY <1>1, <1>3, <1>4

LEMMA Returns ==
    ASSUME SendersType, NEW t \in Senders, Returned(t), UNCHANGED sends,
           \A u \in Senders : Holds(u)
    PROVE  SendersType' /\ \A u \in Senders : Holds(u)'
<1>1. sender'[t] = Idle /\ \A u \in Senders : u # t => sender'[u] = sender[u]
  BY DEF Returned, SendersType
<1>2. SendersType'
  BY <1>1 DEF Returned, SendersType, Idle, SenderPcs
<1>3. \A u \in Senders : u # t => Holds(u)'
  BY <1>1 DEF Holds, At
<1>4. Holds(t)'
  BY <1>1 DEF Holds, At, Idle
<1> QED BY <1>2, <1>3, <1>4

LEMMA InitType == ASSUME Init PROVE TypeOK /\ InHand
<1>1. FirstId \in Int /\ FirstId + IdSpace - 1 \in Int
  BY Constants DEF StoreIds
<1>2. head \in StoreIds /\ tail \in StoreIds
  BY <1>1, Constants, Within DEF Init
<1>3. queue \in [RamQueues -> Seq(Msg)] /\ \A c \in RamQueues : Len(queue[c]) <= QueueSize
  BY Constants DEF Init
<1>4. /\ sender \in [Senders -> [pc : SenderPcs, msg : Msg \cup {NoMsg}]]
      /\ worker \in [pc : WorkerPcs, seen : SUBSET Msg, msg : Msg \cup {NoMsg}]
  BY DEF Init, Idle, Looping, SenderPcs, WorkerPcs
<1>5. /\ next_seq \in Nat /\ store \in [StoreIds -> Msg \cup {NoMsg}]
      /\ connected \in BOOLEAN /\ raced \in BOOLEAN
      /\ boot \in 0 .. MaxFaults /\ errors \in 0 .. MaxFaults
  <2>1. next_seq = 0 /\ store = [id \in StoreIds |-> NoMsg] /\ connected = FALSE
        /\ raced = FALSE /\ boot = 0 /\ errors = 0
    BY DEF Init
  <2>2. 0 \in 0 .. MaxFaults
    BY BoundAssumption
  <2>3. store \in [StoreIds -> Msg \cup {NoMsg}]
    BY <2>1
  <2>4. connected \in BOOLEAN /\ raced \in BOOLEAN
    BY <2>1
  <2> QED BY <2>1, <2>2, <2>3, <2>4
<1>8. /\ published \in Seq([msg : Msg, boot : 0 .. MaxFaults])
      /\ gone \subseteq [by : Senders, nr : Nat, why : {"overtaken", "given up"}]
  BY DEF Init
<1>6. \A t \in Senders : sends[t] \in 0 .. MaxSends[t]
  BY BoundAssumption DEF Init
<1>7. InHand
  BY DEF Init, InHand, Holds, At, AtW, Idle, Looping
<1> QED BY <1>2, <1>3, <1>4, <1>5, <1>6, <1>7, <1>8 DEF TypeOK

LEMMA Given2 == ASSUME NEW m \in Msg, NEW why \in {"overtaken", "given up"}
                PROVE  Given(m, why) \in [by : Senders, nr : Nat, why : {"overtaken", "given up"}]
BY DEF Given, Msg

\* The messages of the queues and of the calls are messages.
LEMMA RamMessagesType == ASSUME TypeOK PROVE RamMessages \in SUBSET Msg
<1>1. ASSUME NEW c \in RamQueues PROVE Range(queue[c]) \subseteq Msg
  <2>1. queue[c] \in Seq(Msg)
    BY DEF TypeOK
  <2> QED BY <2>1 DEF Range
<1>2. \A t \in Senders : sender[t].msg \in Msg \cup {NoMsg}
  BY DEF TypeOK
<1>3. UNION {Range(queue[c]) : c \in RamQueues} \subseteq Msg
  BY <1>1
<1>4. {sender[t].msg : t \in Senders} \ {NoMsg} \subseteq Msg
  <2>1. {sender[t].msg : t \in Senders} \subseteq Msg \cup {NoMsg}
    BY <1>2
  <2> QED BY <2>1
<1> QED BY <1>3, <1>4 DEF RamMessages

\* What a step of an application thread leaves alone, and the queues and the store.
Rest == /\ next_seq \in Nat /\ head \in StoreIds /\ tail \in StoreIds
        /\ \A t \in Senders : sends[t] \in 0 .. MaxSends[t]
        /\ raced \in BOOLEAN
        /\ worker \in [pc : WorkerPcs, seen : SUBSET Msg, msg : Msg \cup {NoMsg}]
        /\ connected \in BOOLEAN
        /\ published \in Seq([msg : Msg, boot : 0 .. MaxFaults])
        /\ boot \in 0 .. MaxFaults
QueuesType == /\ queue \in [RamQueues -> Seq(Msg)]
              /\ \A c \in RamQueues : Len(queue[c]) <= QueueSize
StoreType == store \in [StoreIds -> Msg \cup {NoMsg}] /\ errors \in 0 .. MaxFaults
GoneType == gone \subseteq [by : Senders, nr : Nat, why : {"overtaken", "given up"}]

LEMMA TypeParts == TypeOK <=> Rest /\ QueuesType /\ StoreType /\ GoneType /\ SendersType
BY DEF TypeOK, Rest, QueuesType, StoreType, GoneType, SendersType

LEMMA GivenUp == ASSUME GoneType, NEW S \in SUBSET Msg, GiveUp(S) PROVE GoneType'
BY Given2 DEF GoneType, GiveUp

LEMMA Dropped == ASSUME GoneType, NEW S \in SUBSET Msg, Drop(S) PROVE GoneType'
BY Given2 DEF GoneType, Drop, Why

LEMMA QueueAppended ==
    ASSUME QueuesType, NEW c \in RamQueues, NEW m \in Msg, Len(queue[c]) < QueueSize,
           queue' = [queue EXCEPT ![c] = Append(@, m)]
    PROVE  QueuesType'
<1>1. queue'[c] \in Seq(Msg) /\ Len(queue'[c]) <= QueueSize
  BY Constants DEF QueuesType
<1>2. \A d \in RamQueues : d # c => queue'[d] = queue[d]
  BY DEF QueuesType
<1> QED BY <1>1, <1>2 DEF QueuesType

LEMMA QueueShortened ==
    ASSUME QueuesType, NEW c \in RamQueues, NEW q, q \in {<<>>} \/ (queue[c] # <<>> /\ q = Tail(queue[c])),
           queue' = [queue EXCEPT ![c] = q]
    PROVE  QueuesType'
<1>1. queue'[c] \in Seq(Msg) /\ Len(queue'[c]) <= QueueSize
  <2>1. queue[c] \in Seq(Msg) /\ Len(queue[c]) <= QueueSize /\ queue'[c] = q
    BY DEF QueuesType
  <2>2. CASE q = <<>>
    BY <2>1, <2>2, Constants
  <2>3. CASE queue[c] # <<>> /\ q = Tail(queue[c])
    <3>1. q \in Seq(Msg) /\ Len(q) = Len(queue[c]) - 1 /\ Len(queue[c]) \in Nat
      BY <2>1, <2>3
    <3> QED BY <2>1, <3>1, Constants
  <2> QED BY <2>2, <2>3
<1>2. \A d \in RamQueues : d # c => queue'[d] = queue[d]
  BY DEF QueuesType
<1> QED BY <1>1, <1>2 DEF QueuesType

LEMMA ErrorType ==
    ASSUME StoreType, boot \in 0 .. MaxFaults, KvError PROVE errors' \in 0 .. MaxFaults
<1>1. errors \in 0 .. MaxFaults /\ boot + errors < MaxFaults /\ errors' = errors + 1
  BY DEF StoreType, KvError, Fault
<1> QED BY <1>1, Constants

LEMMA DeleteType ==
    ASSUME StoreType, boot \in 0 .. MaxFaults, head \in StoreIds, NEW ok \in BOOLEAN,
           DeleteHead(ok)
    PROVE  StoreType' /\ store' \in {store, Deleted} /\ (ok => store[head] \in Msg)
<1>1. Deleted \in [StoreIds -> Msg \cup {NoMsg}]
  BY DEF Deleted, StoreType
<1>2. store' \in {store, Deleted} /\ errors' \in 0 .. MaxFaults
  BY ErrorType DEF DeleteHead, StoreType, flash
<1>3. ok => store[head] \in Msg
  BY DEF DeleteHead, StoreType
<1> QED BY <1>1, <1>2, <1>3 DEF StoreType

LEMMA PushType ==
    ASSUME StoreType, boot \in 0 .. MaxFaults, tail \in StoreIds, NEW m \in Msg,
           PushDone(m) \/ PushFails(m)
    PROVE  StoreType'
<1>1. Next1(tail) \in StoreIds
  BY Next1Is
<1> DEFINE pushed == [store EXCEPT ![Next1(tail)] = m]
<1>2. pushed \in [StoreIds -> Msg \cup {NoMsg}]
  BY <1>1 DEF StoreType
<1>3. store' \in {store, pushed} /\ errors' \in 0 .. MaxFaults
  BY ErrorType DEF PushDone, PushFails, StoreType, flash
<1> QED BY <1>2, <1>3 DEF StoreType

LEMMA InsertType ==
    ASSUME TypeOK, InHand, NEW t \in Senders, Insert(t) PROVE TypeOK' /\ InHand'
<1> DEFINE m == sender[t].msg
<1>1. Rest /\ QueuesType /\ StoreType /\ GoneType /\ SendersType
  BY TypeParts
<1>2. sends \in [Senders -> Nat] /\ \A u \in Senders : Holds(u)
  BY DEF InHand
<1>3. ~At(t, "idle") => m \in Msg
  BY <1>2 DEF Holds
<1>4. (AtW("held") \/ AtW("discard") => worker.msg \in Msg) /\ UNCHANGED worker
  BY DEF Insert, Take, Count, PutRam, EvictRam, Push, MoveTail, EvictStored, MoveHead, InHand
<1> DEFINE Goal == Rest' /\ QueuesType' /\ StoreType' /\ GoneType' /\ SendersType'
                   /\ sends' \in [Senders -> Nat] /\ \A u \in Senders : Holds(u)'
<1> SUFFICES Goal
  <2>1. Goal => TypeOK'
    BY DEF TypeOK, Rest, QueuesType, StoreType, GoneType, SendersType
  <2>2. Goal => InHand'
    BY <1>4 DEF InHand, AtW
  <2> QED BY <2>1, <2>2
<1> HIDE DEF Goal
<1> USE DEF flash, indexes, calls
<1>5. ASSUME NEW c \in Range(PeekOrder), Take(t, c) PROVE Goal
  <2> DEFINE n == [by |-> t, nr |-> sends[t] + 1, class |-> c, seq |-> next_seq]
  <2>1. /\ sends[t] \in 0 .. MaxSends[t] /\ MaxSends[t] \in Nat /\ sends[t] < MaxSends[t]
        /\ next_seq \in Nat
    BY <1>1, <1>5, BoundAssumption DEF Rest, Take
  <2>2. n \in Msg
    BY <2>1 DEF Msg
  <2>3. /\ sends' = [sends EXCEPT ![t] = @ + 1]
        /\ sender' = [sender EXCEPT ![t] = [pc |-> "count", msg |-> n]]
    BY <1>5 DEF Take
  <2> HIDE DEF n
  <2>4. SendersType'
    BY <1>1, <2>2, <2>3 DEF SendersType, SenderPcs
  <2>5. sender'[t] = [pc |-> "count", msg |-> n] /\ \A u \in Senders : u # t => sender'[u] = sender[u]
    BY <1>1, <2>3 DEF SendersType
  <2>6. \A u \in Senders : sends'[u] = IF u = t THEN sends[u] + 1 ELSE sends[u]
    BY <1>2, <2>3
  <2>7. Holds(t)' /\ \A u \in Senders : u # t => Holds(u)'
    <3>1. Holds(t)'
      BY <1>2, <2>1, <2>2, <2>3, <2>5 DEF Holds, At, n
    <3>2. ASSUME NEW u \in Senders, u # t PROVE Holds(u)'
      BY <1>2, <2>3, <2>5, <3>2 DEF Holds, At
    <3> QED BY <3>1, <3>2
  <2>8. sends' \in [Senders -> Nat] /\ \A u \in Senders : sends'[u] \in 0 .. MaxSends[u]
    BY <1>1, <1>2, <2>1, <2>3, BoundAssumption DEF Rest
  <2>9. raced' \in BOOLEAN
    BY <1>1, <1>5 DEF Take, Rest
  <2>10. Rest'
    BY <1>1, <1>5, <2>8, <2>9 DEF Take, Rest
  <2>11. QueuesType' /\ StoreType' /\ GoneType'
    BY <1>1, <1>5 DEF Take, QueuesType, StoreType, GoneType
  <2> QED BY <2>4, <2>7, <2>8, <2>10, <2>11 DEF Goal
<1>7. CASE Count(t)
  <2>1. UNCHANGED <<queue, head, tail, store, errors, worker, connected, sends, raced, published, gone, boot>>
    BY <1>7 DEF Count
  <2>2. next_seq' \in Nat
    BY <1>3, <1>7 DEF Count, At, Msg
  <2>3. SendersType' /\ \A u \in Senders : Holds(u)'
    BY <1>1, <1>2, <1>7, <2>1, Moves DEF Count, At, SenderPcs
  <2>4. Rest' /\ QueuesType' /\ StoreType' /\ GoneType'
    BY <1>1, <2>1, <2>2 DEF Rest, QueuesType, StoreType, GoneType
  <2> QED BY <1>2, <2>1, <2>3, <2>4 DEF Goal
<1>8. CASE PutRam(t)
  <2>1. UNCHANGED <<next_seq, head, tail, store, errors, worker, connected, sends, raced, published, boot>>
    BY <1>8 DEF PutRam
  <2>2. Rest' /\ StoreType'
    BY <1>1, <2>1 DEF Rest, StoreType
  <2>3. ~At(t, "idle") /\ m \in Msg /\ m.class \in RamQueues
    BY <1>3, <1>8 DEF PutRam, At
  <2>4. CASE Len(queue[m.class]) < QueueSize
    <3>1. queue' = [queue EXCEPT ![m.class] = Append(@, m)] /\ Returned(t) /\ UNCHANGED gone
      BY <1>8, <2>4 DEF PutRam
    <3>2. QueuesType'
      BY <1>1, <2>3, <2>4, <3>1, QueueAppended
    <3>3. SendersType' /\ \A u \in Senders : Holds(u)'
      BY <1>1, <1>2, <2>1, <3>1, Returns
    <3> QED BY <1>1, <1>2, <2>1, <2>2, <3>1, <3>2, <3>3 DEF Goal, GoneType
  <2>5. CASE ~(Len(queue[m.class]) < QueueSize)
    <3>1. /\ UNCHANGED queue
          /\ \/ SenderTo(t, "evict") /\ UNCHANGED gone
             \/ Returned(t) /\ GiveUp({m})
      BY <1>8, <2>5 DEF PutRam
    <3>2. CASE SenderTo(t, "evict") /\ UNCHANGED gone
      <4>1. SendersType' /\ \A u \in Senders : Holds(u)'
        BY <1>1, <1>2, <2>1, <2>3, <3>2, Moves DEF SenderPcs
      <4> QED BY <1>1, <1>2, <2>1, <2>2, <3>1, <3>2, <4>1 DEF Goal, GoneType, QueuesType
    <3>3. CASE Returned(t) /\ GiveUp({m})
      <4>1. SendersType' /\ \A u \in Senders : Holds(u)'
        BY <1>1, <1>2, <2>1, <3>3, Returns
      <4>2. GoneType'
        BY <1>1, <2>3, <3>3, GivenUp
      <4> QED BY <1>1, <1>2, <2>1, <2>2, <3>1, <4>1, <4>2 DEF Goal, QueuesType
    <3> QED BY <3>1, <3>2, <3>3
  <2> QED BY <2>4, <2>5
<1>9. CASE EvictRam(t)
  <2>1. UNCHANGED <<next_seq, head, tail, store, errors, worker, connected, sends, raced, published, boot>>
    BY <1>9 DEF EvictRam
  <2>2. Rest' /\ StoreType'
    BY <1>1, <2>1 DEF Rest, StoreType
  <2>3. ~At(t, "idle") /\ m \in Msg /\ m.class \in RamQueues
    BY <1>3, <1>9 DEF EvictRam, At
  <2>4. CASE queue[m.class] = <<>>
    <3>1. Returned(t) /\ GiveUp({m}) /\ UNCHANGED queue
      BY <1>9, <2>4 DEF EvictRam
    <3>2. SendersType' /\ \A u \in Senders : Holds(u)'
      BY <1>1, <1>2, <2>1, <3>1, Returns
    <3>3. GoneType'
      BY <1>1, <2>3, <3>1, GivenUp
    <3> QED BY <1>1, <1>2, <2>1, <2>2, <3>1, <3>2, <3>3 DEF Goal, QueuesType
  <2>5. CASE queue[m.class] # <<>>
    <3>1. /\ queue' = [queue EXCEPT ![m.class] = Tail(@)]
          /\ SenderTo(t, "reput") /\ Drop({Head(queue[m.class])})
      BY <1>9, <2>5 DEF EvictRam
    <3>2. QueuesType'
      BY <1>1, <2>3, <2>5, <3>1, QueueShortened
    <3>3. SendersType' /\ \A u \in Senders : Holds(u)'
      BY <1>1, <1>2, <2>1, <2>3, <3>1, Moves DEF SenderPcs
    <3>4. Head(queue[m.class]) \in Msg
      BY <1>1, <2>3, <2>5 DEF QueuesType
    <3>5. GoneType'
      BY <1>1, <3>1, <3>4, Dropped
    <3> QED BY <1>2, <2>1, <2>2, <3>2, <3>3, <3>5 DEF Goal
  <2> QED BY <2>4, <2>5
<1>10. CASE Push(t)
  <2>1. UNCHANGED <<queue, next_seq, head, tail, worker, connected, sends, raced, published, boot>>
    BY <1>10 DEF Push
  <2>2. Rest' /\ QueuesType'
    BY <1>1, <2>1 DEF Rest, QueuesType
  <2>3. ~At(t, "idle") /\ m \in Msg /\ m.class = "stored"
    BY <1>3, <1>10 DEF Push, At
  <2>4. StoreType'
    BY <1>1, <1>10, <2>3, PushType DEF Push, Rest
  <2>5. \/ SenderTo(t, "moved_tail") /\ UNCHANGED gone
        \/ SenderTo(t, "evict") /\ UNCHANGED gone
        \/ Returned(t) /\ GiveUp({m})
    BY <1>10 DEF Push
  <2>6. CASE (SenderTo(t, "moved_tail") \/ SenderTo(t, "evict")) /\ UNCHANGED gone
    <3>1. SendersType' /\ \A u \in Senders : Holds(u)'
      BY <1>1, <1>2, <2>1, <2>3, <2>6, Moves DEF SenderPcs
    <3> QED BY <1>1, <1>2, <2>1, <2>2, <2>4, <2>6, <3>1 DEF Goal, GoneType
  <2>7. CASE Returned(t) /\ GiveUp({m})
    <3>1. SendersType' /\ \A u \in Senders : Holds(u)'
      BY <1>1, <1>2, <2>1, <2>7, Returns
    <3>2. GoneType'
      BY <1>1, <2>3, <2>7, GivenUp
    <3> QED BY <1>2, <2>1, <2>2, <2>4, <3>1, <3>2 DEF Goal
  <2> QED BY <2>5, <2>6, <2>7
<1>11. CASE MoveTail(t)
  <2>1. UNCHANGED <<queue, next_seq, head, store, errors, worker, connected, sends, raced, published, gone, boot>>
    BY <1>11 DEF MoveTail
  <2>2. tail' \in StoreIds
    BY <1>1, <1>11, Next1Is DEF MoveTail, Rest
  <2>3. Rest' /\ QueuesType' /\ StoreType' /\ GoneType'
    BY <1>1, <2>1, <2>2 DEF Rest, QueuesType, StoreType, GoneType
  <2>4. SendersType' /\ \A u \in Senders : Holds(u)'
    BY <1>1, <1>2, <1>11, <2>1, Returns DEF MoveTail
  <2> QED BY <1>2, <2>1, <2>3, <2>4 DEF Goal
<1>12. CASE EvictStored(t)
  <2>1. UNCHANGED <<queue, next_seq, head, tail, worker, connected, sends, raced, published, boot>>
    BY <1>12 DEF EvictStored
  <2>2. Rest' /\ QueuesType'
    BY <1>1, <2>1 DEF Rest, QueuesType
  <2>3. ~At(t, "idle") /\ m \in Msg /\ m.class = "stored"
    BY <1>3, <1>12 DEF EvictStored, At
  <2>4. head \in StoreIds /\ boot \in 0 .. MaxFaults
    BY <1>1 DEF Rest
  <2>5. CASE DeleteHead(TRUE) /\ SenderTo(t, "moved_head") /\ Drop({store[head]})
    <3>1. StoreType' /\ store[head] \in Msg
      BY <1>1, <2>4, <2>5, DeleteType
    <3>2. GoneType'
      BY <1>1, <2>5, <3>1, Dropped
    <3>3. SendersType' /\ \A u \in Senders : Holds(u)'
      BY <1>1, <1>2, <2>1, <2>3, <2>5, Moves DEF SenderPcs
    <3> QED BY <1>2, <2>1, <2>2, <3>1, <3>2, <3>3 DEF Goal
  <2>6. CASE DeleteHead(FALSE) /\ Returned(t)
             /\ GiveUp({m} \cup ({store[head]} \ {store'[head], NoMsg}))
    <3>1. StoreType'
      BY <1>1, <2>4, <2>6, DeleteType
    <3>2. {m} \cup ({store[head]} \ {store'[head], NoMsg}) \in SUBSET Msg
      BY <1>1, <2>3, <2>4 DEF StoreType
    <3>3. GoneType'
      BY <1>1, <2>6, <3>2, GivenUp
    <3>4. SendersType' /\ \A u \in Senders : Holds(u)'
      BY <1>1, <1>2, <2>1, <2>6, Returns
    <3> QED BY <1>2, <2>1, <2>2, <3>1, <3>3, <3>4 DEF Goal
  <2> QED BY <1>12, <2>5, <2>6 DEF EvictStored
<1>13. CASE MoveHead(t)
  <2>1. UNCHANGED <<queue, next_seq, tail, store, errors, worker, connected, sends, raced, published, gone, boot>>
    BY <1>13 DEF MoveHead
  <2>2. head' \in StoreIds
    BY <1>1, <1>13, Next1Is DEF MoveHead, Rest
  <2>3. Rest' /\ QueuesType' /\ StoreType' /\ GoneType'
    BY <1>1, <2>1, <2>2 DEF Rest, QueuesType, StoreType, GoneType
  <2>4. SendersType' /\ \A u \in Senders : Holds(u)'
    BY <1>1, <1>2, <1>13, <2>1, Moves DEF MoveHead, At, SenderPcs
  <2> QED BY <1>2, <2>1, <2>3, <2>4 DEF Goal
<1> QED BY <1>5, <1>7, <1>8, <1>9, <1>10, <1>11, <1>12, <1>13 DEF Insert

LEMMA FrontType ==
    ASSUME QueuesType, StoreType, head \in StoreIds, NEW c \in Range(PeekOrder)
    PROVE  FrontOf(c) \in SUBSET Msg
<1>1. CASE c = "stored"
  BY <1>1 DEF FrontOf, StoreType
<1>2. CASE c # "stored"
  <2>1. c \in RamQueues
    BY <1>2 DEF RamQueues, PeekOrder, Range
  <2>2. queue[c] # <<>> => Head(queue[c]) \in Msg
    BY <2>1 DEF QueuesType
  <2> QED BY <1>2, <2>2 DEF FrontOf
<1> QED BY <1>1, <1>2

LEMMA LoopingType == Looping \in [pc : WorkerPcs, seen : SUBSET Msg, msg : Msg \cup {NoMsg}]
BY DEF Looping, WorkerPcs

LEMMA WorkerType ==
    ASSUME TypeOK, InHand, Progress \/ LookFails \/ PublishFails PROVE TypeOK' /\ InHand'
<1>1. Rest /\ QueuesType /\ StoreType /\ GoneType /\ SendersType
  BY TypeParts
<1>2. sends \in [Senders -> Nat] /\ \A u \in Senders : Holds(u)
  BY DEF InHand
<1>3. AtW("held") \/ AtW("discard") => worker.msg \in Msg
  BY DEF InHand
<1> USE DEF flash, indexes, calls
<1>4. UNCHANGED <<next_seq, tail, sender, connected, sends, raced, gone, boot>>
  BY DEF Progress, StartPeek, Look, Publish, DiscardRam, DiscardStored, WorkerMovesHead,
         LookFails, PublishFails
<1>5. SendersType' /\ GoneType' /\ sends' \in [Senders -> Nat] /\ \A u \in Senders : Holds(u)'
  BY <1>1, <1>2, <1>4 DEF SendersType, GoneType, Holds, At
<1> DEFINE WorkerOK == worker' \in [pc : WorkerPcs, seen : SUBSET Msg, msg : Msg \cup {NoMsg}]
                       /\ (AtW("held")' \/ AtW("discard")' => worker'.msg \in Msg)
           PublishedOK == published' \in Seq([msg : Msg, boot : 0 .. MaxFaults])
           HeadOK == head' \in StoreIds
           Goal == WorkerOK /\ PublishedOK /\ HeadOK /\ QueuesType' /\ StoreType'
<1> SUFFICES Goal
  <2>1. Goal => Rest'
    BY <1>1, <1>4 DEF Rest
  <2>2. Goal => TypeOK'
    BY <1>5, <2>1 DEF TypeOK, Rest, QueuesType, StoreType, GoneType, SendersType
  <2>3. Goal => InHand'
    BY <1>5 DEF InHand
  <2> QED BY <2>2, <2>3
<1> HIDE DEF Goal, WorkerOK, PublishedOK, HeadOK
<1>6. worker' = Looping => WorkerOK
  BY LoopingType DEF WorkerOK, AtW, Looping
<1>7. UNCHANGED published => PublishedOK
  BY <1>1 DEF PublishedOK, Rest
<1>8. UNCHANGED head => HeadOK
  BY <1>1 DEF HeadOK, Rest
<1>9. (UNCHANGED queue => QueuesType') /\ (UNCHANGED <<store, errors>> => StoreType')
  BY <1>1 DEF QueuesType, StoreType
<1>10. CASE StartPeek
  <2>1. WorkerOK
    BY <1>10 DEF StartPeek, WorkerOK, AtW, Looping, WorkerPcs
  <2> QED BY <1>7, <1>8, <1>9, <1>10, <2>1 DEF StartPeek, Goal
<1>11. ASSUME NEW n \in 1 .. 4, Look(n) PROVE Goal
  <2> DEFINE seen == worker.seen \cup FrontOf(PeekOrder[n])
  <2>1. PeekOrder[n] \in Range(PeekOrder)
    BY DEF Range, PeekOrder
  <2>2. seen \in SUBSET Msg
    BY <1>1, <2>1, FrontType DEF Rest
  <2>3. /\ n < 4 => worker' = [worker EXCEPT !.pc = AfterPeek(n), !.seen = seen]
        /\ n >= 4 /\ seen = {} => worker' = Looping
        /\ n >= 4 /\ seen # {} => worker' = [pc |-> "held", seen |-> {}, msg |-> Oldest(seen)]
    BY <1>11 DEF Look
  <2> HIDE DEF seen
  <2>4. ASSUME n \in 1 .. 3 PROVE WorkerOK
    <3>1. AfterPeek(n) \in {"peek2", "peek3", "peek4"}
      BY <2>4 DEF AfterPeek, PeekPcs
    <3>2. worker' = [worker EXCEPT !.pc = AfterPeek(n), !.seen = seen]
      BY <2>3, <2>4
    <3> QED BY <1>1, <2>2, <3>1, <3>2 DEF WorkerOK, Rest, AtW, WorkerPcs
  <2>5. ASSUME n = 4, seen # {} PROVE WorkerOK
    <3>1. Oldest(seen) \in Msg
      BY <2>2, <2>5, OldestExists
    <3>2. worker' = [pc |-> "held", seen |-> {}, msg |-> Oldest(seen)]
      BY <2>3, <2>5
    <3> QED BY <3>1, <3>2 DEF WorkerOK, AtW, WorkerPcs
  <2>6. ASSUME n = 4, seen = {} PROVE WorkerOK
    BY <1>6, <2>3, <2>6
  <2>7. n \in 1 .. 3 \/ n = 4
    BY <1>11
  <2>8. WorkerOK
    BY <2>4, <2>5, <2>6, <2>7
  <2> QED BY <1>7, <1>8, <1>9, <1>11, <2>8 DEF Look, Goal
<1>12. CASE LookFails
  <2>1. worker' = Looping /\ errors' \in 0 .. MaxFaults /\ UNCHANGED <<store, queue, head, published>>
    BY <1>1, <1>12, ErrorType DEF LookFails, Rest
  <2>2. StoreType'
    BY <1>1, <2>1 DEF StoreType
  <2> QED BY <1>6, <1>7, <1>8, <1>9, <2>1, <2>2 DEF Goal
<1>13. CASE Publish
  <2>1. worker.msg \in Msg /\ boot \in 0 .. MaxFaults
    BY <1>1, <1>3, <1>13 DEF Publish, Rest
  <2>2. PublishedOK
    BY <1>1, <1>13, <2>1 DEF Publish, PublishedOK, Rest
  <2>3. WorkerOK
    BY <1>1, <1>13, <2>1 DEF Publish, WorkerOK, Rest, AtW, WorkerPcs
  <2> QED BY <1>8, <1>9, <1>13, <2>2, <2>3 DEF Publish, Goal
<1>14. CASE PublishFails
  BY <1>6, <1>7, <1>8, <1>9, <1>14 DEF PublishFails, Goal
<1>15. CASE DiscardRam
  <2> DEFINE c == worker.msg.class
             q == IF queue[c] = <<>> THEN queue[c] ELSE Tail(queue[c])
  <2>1. c \in RamQueues /\ worker' = Looping /\ UNCHANGED <<published, head, store, errors>>
        /\ queue' = [queue EXCEPT ![c] = q]
    BY <1>15 DEF DiscardRam
  <2>2. q \in {<<>>} \/ (queue[c] # <<>> /\ q = Tail(queue[c]))
    OBVIOUS
  <2> HIDE DEF q, c
  <2>3. QueuesType'
    BY <1>1, <2>1, <2>2, QueueShortened
  <2> QED BY <1>6, <1>7, <1>8, <1>9, <2>1, <2>3 DEF Goal
<1>16. CASE DiscardStored
  <2>1. /\ DeleteHead(TRUE) \/ DeleteHead(FALSE)
        /\ worker' = [Looping EXCEPT !.pc = "moved_head"] \/ worker' = Looping
        /\ UNCHANGED <<queue, head, published>>
    BY <1>16 DEF DiscardStored
  <2>2. StoreType'
    BY <1>1, <2>1, DeleteType DEF Rest
  <2>3. worker' = [Looping EXCEPT !.pc = "moved_head"] => WorkerOK
    BY LoopingType DEF WorkerOK, AtW, Looping, WorkerPcs
  <2> QED BY <1>6, <1>7, <1>8, <1>9, <2>1, <2>2, <2>3 DEF Goal
<1>17. CASE WorkerMovesHead
  <2>1. HeadOK
    BY <1>1, <1>17, Next1Is DEF WorkerMovesHead, HeadOK, Rest
  <2> QED BY <1>6, <1>7, <1>9, <1>17, <2>1 DEF WorkerMovesHead, Goal
<1> QED BY <1>10, <1>11, <1>12, <1>13, <1>14, <1>15, <1>16, <1>17 DEF Progress

LEMMA RestartType ==
    ASSUME TypeOK, InHand, NEW kept \in [StoreIds -> Msg \cup {NoMsg}],
           Initialised(kept), GiveUp(RamMessages) \/ \E S \in SUBSET Msg : GiveUp(S),
           UNCHANGED <<errors, sends, raced, published>>, store' = kept,
           Fault, boot' = boot + 1
    PROVE  TypeOK' /\ InHand'
<1>1. Rest /\ QueuesType /\ StoreType /\ GoneType /\ SendersType
  BY TypeParts
<1> DEFINE ids == {id \in StoreIds : kept[id] # NoMsg}
           ix == IndexesOf(ids)
<1>2. ix \in [head : StoreIds, tail : StoreIds]
  BY IndexesType
<1>3. head' = ix.head /\ tail' = ix.tail /\ next_seq' = SeqAfter(kept[ix.tail])
  BY DEF Initialised
<1>4. kept[ix.tail] \in Msg \cup {NoMsg}
  BY <1>2
<1> HIDE DEF ix
<1>5. next_seq' \in Nat
  BY <1>3, <1>4 DEF SeqAfter, Msg
<1>6. queue' = [c \in RamQueues |-> <<>>] /\ sender' = [t \in Senders |-> Idle]
      /\ worker' = Looping /\ connected' = FALSE
  BY DEF Initialised
<1>7. QueuesType'
  BY <1>6, BoundAssumption DEF QueuesType
<1>8. SendersType' /\ \A u \in Senders : Holds(u)'
  BY <1>6 DEF SendersType, Holds, At, Idle, SenderPcs
<1>9. GoneType'
  BY <1>1, GivenUp, RamMessagesType
<1>10. StoreType'
  BY <1>1 DEF StoreType
<1>11. boot' \in 0 .. MaxFaults
  <2>1. /\ boot \in 0 .. MaxFaults /\ errors \in 0 .. MaxFaults
        /\ boot + errors < MaxFaults /\ boot' = boot + 1
    BY <1>1 DEF Rest, StoreType, Fault
  <2> QED BY <2>1, Constants
<1>12. connected' \in BOOLEAN /\ worker' \in [pc : WorkerPcs, seen : SUBSET Msg, msg : Msg \cup {NoMsg}]
  BY <1>6, LoopingType
<1>13. Rest'
  BY <1>1, <1>2, <1>3, <1>5, <1>11, <1>12 DEF Rest
<1>14. TypeOK'
  BY <1>7, <1>8, <1>9, <1>10, <1>13 DEF TypeOK, Rest, QueuesType, StoreType, GoneType, SendersType
<1>15. InHand'
  BY <1>6, <1>8 DEF InHand, AtW, Looping
<1> QED BY <1>14, <1>15

LEMMA EnvironmentType ==
    ASSUME TypeOK, InHand, Connect \/ Disconnect \/ Reboot \/ Recreate PROVE TypeOK' /\ InHand'
<1>1. Rest /\ QueuesType /\ StoreType /\ GoneType /\ SendersType
  BY TypeParts
<1> USE DEF flash, indexes, calls
<1>2. CASE Connect
  <2>1. connected' \in BOOLEAN /\ UNCHANGED <<queue, next_seq, head, tail, store, errors, sender,
            worker, sends, raced, published, gone, boot>>
    BY <1>2 DEF Connect
  <2>2. TypeOK'
    BY <1>1, <2>1 DEF TypeOK, Rest, QueuesType, StoreType, GoneType, SendersType
  <2> QED BY <2>1, <2>2 DEF InHand, Holds, At, AtW
<1>3. CASE Disconnect
  <2>1. connected' \in BOOLEAN /\ UNCHANGED <<next_seq, head, tail, store, errors, sender,
            worker, sends, raced, published, boot>>
    BY <1>3 DEF Disconnect
  <2>2. "discard" \in RamQueues
    BY DEF RamQueues
  <2> DEFINE q == IF queue["discard"] = <<>> THEN queue["discard"] ELSE Tail(queue["discard"])
  <2>3. QueuesType'
    <3>1. queue' = [queue EXCEPT !["discard"] = q]
      BY <1>3 DEF Disconnect
    <3>2. q \in {<<>>} \/ (queue["discard"] # <<>> /\ q = Tail(queue["discard"]))
      OBVIOUS
    <3> HIDE DEF q
    <3> QED BY <1>1, <2>2, <3>1, <3>2, QueueShortened
  <2>4. queue["discard"] \in Seq(Msg)
    BY <1>1, <2>2 DEF QueuesType
  <2>5. FrontOf("discard") \in SUBSET Msg
    BY <2>4 DEF FrontOf
  <2>6. GoneType'
    BY <1>1, <1>3, <2>5, Dropped DEF Disconnect
  <2>7. TypeOK'
    BY <1>1, <2>1, <2>3, <2>6 DEF TypeOK, Rest, QueuesType, StoreType, GoneType, SendersType
  <2> QED BY <2>1, <2>7 DEF InHand, Holds, At, AtW
<1>4. CASE Reboot
  <2>1. store \in [StoreIds -> Msg \cup {NoMsg}]
    BY <1>1 DEF StoreType
  <2>2. /\ Initialised(store) /\ GiveUp(RamMessages) /\ Fault /\ boot' = boot + 1
        /\ UNCHANGED <<errors, sends, raced, published>> /\ store' = store
    BY <1>4 DEF Reboot
  <2> QED BY <2>1, <2>2, RestartType
<1>5. CASE Recreate
  <2> DEFINE cleared == UNION {Run(n) : n \in {k \in 0 .. IdSpace - 1 : Run(k) \subseteq Occupied}}
             kept == [id \in StoreIds |-> IF id \in cleared THEN NoMsg ELSE store[id]]
             S == RamMessages \cup {store[id] : id \in cleared}
  <2>1. /\ Initialised(kept) /\ GiveUp(S) /\ Fault /\ boot' = boot + 1
        /\ UNCHANGED <<errors, sends, raced, published>> /\ store' = kept
    BY <1>5 DEF Recreate
  <2>2. kept \in [StoreIds -> Msg \cup {NoMsg}]
    BY <1>1 DEF StoreType
  <2>3. cleared \subseteq Occupied
    OBVIOUS
  <2>4. S \in SUBSET Msg
    BY <1>1, <2>3, RamMessagesType DEF Occupied, StoreType
  <2> HIDE DEF kept, S
  <2> QED BY <2>1, <2>2, <2>4, RestartType
<1> QED BY <1>2, <1>3, <1>4, <1>5

LEMMA TypeStep == ASSUME TypeOK, InHand, [Next]_vars PROVE TypeOK' /\ InHand'
<1>1. ASSUME NEW t \in Senders, Insert(t) PROVE TypeOK' /\ InHand'
  BY <1>1, InsertType
<1>2. CASE Progress \/ LookFails \/ PublishFails
  BY <1>2, WorkerType
<1>3. CASE Connect \/ Disconnect \/ Reboot \/ Recreate
  BY <1>3, EnvironmentType
<1>4. CASE UNCHANGED vars
  BY <1>4 DEF vars, flash, indexes, calls, TypeOK, InHand, Holds, At, AtW
<1> QED BY <1>1, <1>2, <1>3, <1>4 DEF Next

\* The queues, the store and the threads keep their types, also through power
\* losses and failing storage: in particular no queue outgrows its k_msgq, and
\* the head and the tail (get_indexes and the two increments modulo the id
\* space in trans.c) never leave the ring.
THEOREM TypeCorrect == Spec => []TypeOK
<1>1. Init => TypeOK /\ InHand
  BY InitType
<1>2. TypeOK /\ InHand /\ [Next]_vars => TypeOK' /\ InHand'
  BY TypeStep
<1> QED BY <1>1, <1>2, PTL DEF Spec

-----------------------------------------------------------------------------
(* While nothing disturbs it the store is a segment of the ring.           *)

Alone == \A t, u \in Senders : ~At(t, "idle") /\ ~At(u, "idle") => t = u
Contiguous ==
    /\ Alone
    /\ ~(AtW("moved_head") /\ \E t \in Senders : At(t, "moved_head"))
    /\ AtW("moved_head") \/ (\E t \in Senders : At(t, "moved_head")) => store[head] = NoMsg
    /\ InRing(Occupied, HeadDone, TailDone)

LEMMA Flags == ASSUME TypeOK PROVE errors \in Nat /\ raced \in BOOLEAN
<1>1. errors \in 0 .. MaxFaults /\ raced \in BOOLEAN
  BY DEF TypeOK
<1> QED BY <1>1

LEMMA Calm == ASSUME TypeOK, [Next]_vars, Undisturbed' PROVE Undisturbed
<1>1. errors \in Nat /\ raced \in BOOLEAN
  BY Flags
<1>2. errors' = errors \/ errors' = errors + 1
  <2>1. ASSUME NEW t \in Senders, Insert(t) PROVE errors' = errors \/ errors' = errors + 1
    BY <2>1 DEF Insert, Take, Count, PutRam, EvictRam, Push, MoveTail, EvictStored, MoveHead,
                PushDone, PushFails, DeleteHead, KvError, flash
  <2>2. CASE Progress \/ LookFails \/ PublishFails
    BY <2>2 DEF Progress, StartPeek, Look, Publish, DiscardRam, DiscardStored, WorkerMovesHead,
                LookFails, PublishFails, DeleteHead, KvError, flash
  <2>3. CASE Connect \/ Disconnect \/ Reboot \/ Recreate \/ UNCHANGED vars
    BY <2>3 DEF Connect, Disconnect, Reboot, Recreate, flash, vars
  <2> QED BY <2>1, <2>2, <2>3 DEF Next
<1>3. raced => raced'
  <2>1. ASSUME NEW t \in Senders, Insert(t) PROVE raced => raced'
    BY <2>1 DEF Insert, Take, Count, PutRam, EvictRam, Push, MoveTail, EvictStored, MoveHead, calls
  <2>2. CASE Progress \/ LookFails \/ PublishFails
    BY <2>2 DEF Progress, StartPeek, Look, Publish, DiscardRam, DiscardStored, WorkerMovesHead,
                LookFails, PublishFails, calls
  <2>3. CASE Connect \/ Disconnect \/ Reboot \/ Recreate \/ UNCHANGED vars
    BY <2>3 DEF Connect, Disconnect, Reboot, Recreate, calls, vars
  <2> QED BY <2>1, <2>2, <2>3 DEF Next
<1> QED BY <1>1, <1>2, <1>3 DEF Undisturbed

\* Where the head and the tail are with at most the thread t in insert.
Others(t) == \A u \in Senders : u # t => At(u, "idle")

LEMMA DoneNow ==
    ASSUME NEW t \in Senders, Others(t)
    PROVE  /\ Alone
           /\ \A pc \in {"moved_head", "moved_tail"} : (\E u \in Senders : At(u, pc)) <=> At(t, pc)
           /\ HeadDone = IF AtW("moved_head") \/ At(t, "moved_head") THEN Next1(head) ELSE head
           /\ TailDone = IF At(t, "moved_tail") THEN Next1(tail) ELSE tail
<1>1. \A pc \in {"moved_head", "moved_tail"} : (\E u \in Senders : At(u, pc)) <=> At(t, pc)
  BY DEF Others, At
<1>2. Alone
  BY DEF Others, Alone
<1> QED BY <1>1, <1>2 DEF HeadDone, TailDone

LEMMA DoneNext ==
    ASSUME NEW t \in Senders, Others(t)'
    PROVE  /\ Alone'
           /\ \A pc \in {"moved_head", "moved_tail"} : (\E u \in Senders : At(u, pc)') <=> At(t, pc)'
           /\ HeadDone' = IF AtW("moved_head")' \/ At(t, "moved_head")' THEN Next1(head)' ELSE head'
           /\ TailDone' = IF At(t, "moved_tail")' THEN Next1(tail)' ELSE tail'
<1>1. \A pc \in {"moved_head", "moved_tail"} : (\E u \in Senders : At(u, pc)') <=> At(t, pc)'
  BY DEF Others, At
<1>2. Alone'
  BY DEF Others, Alone
<1> QED BY <1>1, <1>2 DEF HeadDone, TailDone

\* What a step of insert leaves at most in hand.
LEMMA OneInserts ==
    ASSUME TypeOK, Alone, NEW t \in Senders, Insert(t), ~raced' PROVE Others(t) /\ Others(t)'
<1>1. sender \in [Senders -> [pc : SenderPcs, msg : Msg \cup {NoMsg}]] /\ raced \in BOOLEAN
  BY DEF TypeOK
<1>2. Others(t)
  <2>1. CASE \E c \in Range(PeekOrder) : Take(t, c)
    BY <1>1, <2>1 DEF Take, Others
  <2>2. CASE ~ \E c \in Range(PeekOrder) : Take(t, c)
    BY <2>2 DEF Insert, Count, PutRam, EvictRam, Push, MoveTail, EvictStored, MoveHead, At, Alone, Others
  <2> QED BY <2>1, <2>2
<1>3. \A u \in Senders : u # t => sender'[u] = sender[u]
  BY <1>1 DEF Insert, Take, Count, PutRam, EvictRam, Push, MoveTail, EvictStored, MoveHead, SenderTo, Returned
<1>4. Others(t)'
  BY <1>2, <1>3 DEF Others, At
<1> QED BY <1>2, <1>4

LEMMA InsertContiguous ==
    ASSUME TypeOK, InHand, Contiguous, NEW t \in Senders, Insert(t), Undisturbed'
    PROVE  Contiguous'
<1>1. Others(t) /\ Others(t)'
  BY OneInserts DEF Contiguous, Undisturbed
<1> DEFINE was == AtW("moved_head") \/ At(t, "moved_head")
<1>2. /\ HeadDone = IF AtW("moved_head") \/ At(t, "moved_head") THEN Next1(head) ELSE head
      /\ TailDone = IF At(t, "moved_tail") THEN Next1(tail) ELSE tail
      /\ ~(AtW("moved_head") /\ At(t, "moved_head"))
      /\ AtW("moved_head") \/ At(t, "moved_head") => store[head] = NoMsg
      /\ InRing(Occupied, HeadDone, TailDone)
  BY <1>1, DoneNow DEF Contiguous
<1>3. /\ HeadDone' = IF AtW("moved_head")' \/ At(t, "moved_head")' THEN Next1(head)' ELSE head'
      /\ TailDone' = IF At(t, "moved_tail")' THEN Next1(tail)' ELSE tail'
      /\ Alone'
  BY <1>1, DoneNext
<1> DEFINE Goal == /\ ~(AtW("moved_head")' /\ At(t, "moved_head")')
                   /\ AtW("moved_head")' \/ At(t, "moved_head")' => store'[head'] = NoMsg
                   /\ InRing(Occupied', HeadDone', TailDone')
<1> SUFFICES Goal
  BY <1>1, <1>3, DoneNext DEF Contiguous
<1>4. /\ sender \in [Senders -> [pc : SenderPcs, msg : Msg \cup {NoMsg}]]
      /\ store \in [StoreIds -> Msg \cup {NoMsg}] /\ head \in StoreIds /\ tail \in StoreIds
  BY DEF TypeOK
<1>5. UNCHANGED worker /\ (AtW("moved_head")' <=> AtW("moved_head"))
  BY DEF Insert, Take, Count, PutRam, EvictRam, Push, MoveTail, EvictStored, MoveHead, AtW
<1> USE DEF flash, indexes
<1>6. CASE /\ UNCHANGED <<head, tail, store>> /\ ~At(t, "moved_head") /\ ~At(t, "moved_head")'
           /\ ~At(t, "moved_tail") /\ ~At(t, "moved_tail")'
  <2>1. UNCHANGED <<Occupied, HeadDone, TailDone>>
    BY <1>2, <1>3, <1>5, <1>6 DEF Occupied, Next1
  <2> QED BY <1>2, <1>5, <1>6, <2>1
<1> HIDE DEF Goal
<1>7. CASE \E c \in Range(PeekOrder) : Take(t, c)
  BY <1>4, <1>6, <1>7 DEF Take, At
<1>8. CASE Count(t)
  BY <1>4, <1>6, <1>8 DEF Count, At, SenderTo
<1>9. CASE PutRam(t)
  BY <1>4, <1>6, <1>9 DEF PutRam, At, SenderTo, Returned, Idle
<1>10. CASE EvictRam(t)
  BY <1>4, <1>6, <1>10 DEF EvictRam, At, SenderTo, Returned, Idle
<1>11. CASE Push(t)
  <2> DEFINE m == sender[t].msg
  <2>1. UNCHANGED <<head, tail>> /\ ~At(t, "moved_head") /\ ~At(t, "moved_tail") /\ m.class = "stored"
    BY <1>11 DEF Push, At
  <2>2. errors \in Nat /\ errors' = 0
    BY Flags DEF Undisturbed
  <2>3. CASE PushDone(m) /\ SenderTo(t, "moved_tail")
    <3> DEFINE x == Next1(tail)
    <3>1. TailDone = tail /\ HeadDone' = HeadDone /\ TailDone' = x /\ ~At(t, "moved_head")'
      BY <1>2, <1>3, <1>4, <1>5, <2>1, <2>3 DEF At, SenderTo, Next1
    <3>2. /\ x \in StoreIds /\ x \notin Occupied
          /\ \A g \in StoreIds : Next1(g) = HeadDone => x # g
      BY <1>2, <3>1, RingFree
    <3>3. Cardinality(Occupied) < StoreSize /\ store' = [store EXCEPT ![x] = m]
      BY <2>3, <3>2 DEF PushDone, Occupied
    <3>4. m # NoMsg
      BY <1>11, NoMsgAssumption DEF Push, InHand, Holds, At
    <3>5. Occupied' = Occupied \cup {x}
      BY <1>4, <3>2, <3>3, <3>4 DEF Occupied
    <3>6. InRing(Occupied \cup {x}, HeadDone, x)
      BY <1>2, <3>1, <3>3, RingAppend
    <3>7. AtW("moved_head") => x # head
      BY <1>2, <1>4, <2>1, <3>2
    <3>8. AtW("moved_head") => store'[head'] = NoMsg
      BY <1>2, <1>4, <2>1, <3>2, <3>3, <3>7
    <3> QED BY <1>2, <1>5, <3>1, <3>5, <3>6, <3>8 DEF Goal
  <2>4. CASE PushFails(m) /\ (SenderTo(t, "evict") \/ Returned(t))
    <3>1. UNCHANGED store
      BY <2>2, <2>4 DEF PushFails, KvError
    <3>2. ~At(t, "moved_head")' /\ ~At(t, "moved_tail")'
      BY <1>4, <2>4 DEF At, SenderTo, Returned, Idle
    <3> QED BY <1>6, <2>1, <3>1, <3>2
  <2> QED BY <1>11, <2>3, <2>4 DEF Push
<1>12. CASE MoveTail(t)
  <2>1. tail' = Next1(tail) /\ UNCHANGED <<head, store>> /\ At(t, "moved_tail") /\ sender'[t] = Idle
    BY <1>4, <1>12 DEF MoveTail, Returned
  <2>2. ~At(t, "moved_head") /\ ~At(t, "moved_head")' /\ ~At(t, "moved_tail")'
    BY <2>1 DEF At, Idle
  <2>3. UNCHANGED <<Occupied, HeadDone, TailDone>>
    BY <1>2, <1>3, <1>5, <2>1, <2>2 DEF Occupied, Next1
  <2> QED BY <1>2, <1>5, <2>1, <2>2, <2>3 DEF Goal
<1>13. CASE MoveHead(t)
  <2>1. head' = Next1(head) /\ UNCHANGED <<tail, store>> /\ At(t, "moved_head") /\ sender'[t].pc = "reput"
    BY <1>4, <1>13 DEF MoveHead, SenderTo
  <2>2. ~At(t, "moved_tail") /\ ~At(t, "moved_head")' /\ ~At(t, "moved_tail")' /\ ~AtW("moved_head")'
    BY <1>2, <1>5, <2>1 DEF At
  <2>3. UNCHANGED <<Occupied, HeadDone, TailDone>>
    BY <1>2, <1>3, <1>5, <2>1, <2>2 DEF Occupied
  <2> QED BY <1>2, <1>5, <2>1, <2>2, <2>3 DEF Goal
<1>14. CASE EvictStored(t)
  <2>1. UNCHANGED <<head, tail>> /\ ~At(t, "moved_head") /\ ~At(t, "moved_tail")
    BY <1>14 DEF EvictStored, At
  <2>2. errors \in Nat /\ errors' = 0
    BY Flags DEF Undisturbed
  <2>3. CASE DeleteHead(TRUE) /\ SenderTo(t, "moved_head")
    <3>1. store[head] # NoMsg /\ store' = [store EXCEPT ![head] = NoMsg]
      BY <2>3 DEF DeleteHead, Deleted
    <3>2. ~AtW("moved_head") /\ At(t, "moved_head")' /\ ~At(t, "moved_tail")'
      BY <1>2, <1>4, <2>3, <3>1 DEF At, SenderTo
    <3>3. HeadDone = head /\ HeadDone' = Next1(head) /\ UNCHANGED TailDone
      BY <1>2, <1>3, <2>1, <3>2 DEF Next1
    <3>4. Occupied' = Occupied \ {head} /\ head \in Occupied
      BY <1>4, <3>1 DEF Occupied
    <3>5. InRing(Occupied', HeadDone', TailDone')
      BY <1>2, <3>3, <3>4, RingRemove
    <3> QED BY <1>4, <1>5, <2>1, <3>1, <3>2, <3>5 DEF Goal
  <2>4. CASE DeleteHead(FALSE) /\ Returned(t)
    <3>1. UNCHANGED store
      BY <2>2, <2>4 DEF DeleteHead, KvError
    <3>2. ~At(t, "moved_head")' /\ ~At(t, "moved_tail")'
      BY <1>4, <2>4 DEF At, Returned, Idle
    <3> QED BY <1>6, <2>1, <3>1, <3>2
  <2> QED BY <1>14, <2>3, <2>4 DEF EvictStored
<1> QED BY <1>7, <1>8, <1>9, <1>10, <1>11, <1>12, <1>13, <1>14 DEF Insert

LEMMA WorkerContiguous ==
    ASSUME TypeOK, Contiguous, Progress \/ LookFails \/ PublishFails, Undisturbed' PROVE Contiguous'
<1> USE DEF flash, indexes
<1>1. UNCHANGED <<sender, tail>>
  BY DEF Progress, StartPeek, Look, Publish, DiscardRam, DiscardStored, WorkerMovesHead,
         LookFails, PublishFails
<1>2. /\ store \in [StoreIds -> Msg \cup {NoMsg}] /\ head \in StoreIds /\ tail \in StoreIds
      /\ worker \in [pc : WorkerPcs, seen : SUBSET Msg, msg : Msg \cup {NoMsg}]
  BY DEF TypeOK
<1>3. errors \in Nat /\ errors' = 0
  BY Flags DEF Undisturbed
<1> DEFINE evicting == \E t \in Senders : At(t, "moved_head")
<1>4. /\ Alone' /\ UNCHANGED TailDone
      /\ (\E t \in Senders : At(t, "moved_head")') <=> evicting
      /\ HeadDone' = IF AtW("moved_head")' \/ evicting THEN Next1(head)' ELSE head'
  BY <1>1 DEF Contiguous, Alone, At, TailDone, HeadDone, Next1
<1>5. /\ HeadDone = IF AtW("moved_head") \/ evicting THEN Next1(head) ELSE head
      /\ ~(AtW("moved_head") /\ evicting)
      /\ AtW("moved_head") \/ evicting => store[head] = NoMsg
      /\ InRing(Occupied, HeadDone, TailDone)
  BY DEF Contiguous, HeadDone
<1> DEFINE Goal == /\ ~(AtW("moved_head")' /\ evicting)
                   /\ AtW("moved_head")' \/ evicting => store'[head'] = NoMsg
                   /\ InRing(Occupied', HeadDone', TailDone')
<1> SUFFICES Goal
  BY <1>4 DEF Contiguous
<1> HIDE DEF evicting
<1>6. CASE UNCHANGED <<head, store>> /\ ~AtW("moved_head") /\ ~AtW("moved_head")'
  <2>1. UNCHANGED <<Occupied, HeadDone>>
    BY <1>4, <1>5, <1>6 DEF Occupied, Next1
  <2> QED BY <1>4, <1>5, <1>6, <2>1
<1> HIDE DEF Goal
<1>7. CASE StartPeek
  BY <1>6, <1>7 DEF StartPeek, AtW, Looping
<1>8. ASSUME NEW n \in 1 .. 4, Look(n) PROVE Goal
  <2>1. worker.pc = PeekPcs[n] /\ worker'.pc \in {"loop", "held", AfterPeek(n)}
    BY <1>2, <1>8 DEF Look, AtW, Looping
  <2>2. PeekPcs[n] # "moved_head" /\ AfterPeek(n) # "moved_head"
    BY DEF PeekPcs, AfterPeek
  <2> QED BY <1>6, <1>8, <2>1, <2>2 DEF Look, AtW
<1>9. CASE LookFails
  BY <1>3, <1>9 DEF LookFails, KvError
<1>10. CASE Publish
  BY <1>2, <1>6, <1>10 DEF Publish, AtW
<1>11. CASE PublishFails
  BY <1>6, <1>11 DEF PublishFails, AtW, Looping
<1>12. CASE DiscardRam
  BY <1>6, <1>12 DEF DiscardRam, AtW, Looping
<1>13. CASE DiscardStored
  <2>1. UNCHANGED head /\ ~AtW("moved_head")
    BY <1>13 DEF DiscardStored, AtW
  <2>2. CASE DeleteHead(TRUE) /\ worker' = [Looping EXCEPT !.pc = "moved_head"]
    <3>1. store[head] # NoMsg /\ store' = [store EXCEPT ![head] = NoMsg]
      BY <2>2 DEF DeleteHead, Deleted
    <3>2. ~evicting /\ AtW("moved_head")'
      BY <1>5, <2>2, <3>1 DEF AtW, Looping
    <3>3. HeadDone = head /\ HeadDone' = Next1(head) /\ UNCHANGED TailDone
      BY <1>4, <1>5, <2>1, <3>2 DEF Next1
    <3>4. Occupied' = Occupied \ {head} /\ head \in Occupied
      BY <1>2, <3>1 DEF Occupied
    <3>5. InRing(Occupied', HeadDone', TailDone')
      BY <1>5, <3>3, <3>4, RingRemove
    <3> QED BY <1>2, <2>1, <3>1, <3>2, <3>5 DEF Goal
  <2>3. CASE DeleteHead(FALSE) /\ worker' = Looping
    <3>1. UNCHANGED store
      BY <1>3, <2>3 DEF DeleteHead, KvError
    <3> QED BY <1>6, <2>1, <2>3, <3>1 DEF AtW, Looping
  <2> QED BY <1>13, <2>2, <2>3 DEF DiscardStored
<1>14. CASE WorkerMovesHead
  <2>1. head' = Next1(head) /\ UNCHANGED store /\ AtW("moved_head") /\ ~AtW("moved_head")'
    BY <1>14 DEF WorkerMovesHead, AtW, Looping
  <2>2. ~evicting /\ UNCHANGED <<Occupied, HeadDone>>
    BY <1>4, <1>5, <2>1 DEF Occupied
  <2> QED BY <1>4, <1>5, <2>1, <2>2 DEF Goal
<1> QED BY <1>7, <1>8, <1>9, <1>10, <1>11, <1>12, <1>13, <1>14 DEF Progress

\* After a boot nothing is under way.
LEMMA RestartContiguous ==
    ASSUME NEW kept, NEW h, NEW t, InRing({id \in StoreIds : kept[id] # NoMsg}, h, t),
           store' = kept, Initialised(kept)
    PROVE  Contiguous'
<1> DEFINE ids == {id \in StoreIds : kept[id] # NoMsg}
<1>1. InRing(ids, IndexesOf(ids).head, IndexesOf(ids).tail)
  BY RingFound
<1>2. Occupied' = ids
  BY DEF Occupied
<1>3. head' = IndexesOf(ids).head /\ tail' = IndexesOf(ids).tail
      /\ sender' = [u \in Senders |-> Idle] /\ worker' = Looping
  BY DEF Initialised
<1> HIDE DEF ids
<1>4. ~AtW("moved_head")' /\ \A u \in Senders : At(u, "idle")' /\ ~At(u, "moved_head")' /\ ~At(u, "moved_tail")'
  BY <1>3 DEF AtW, At, Idle, Looping
<1>5. HeadDone' = head' /\ TailDone' = tail' /\ Alone'
  BY <1>4 DEF HeadDone, TailDone, Alone
<1> QED BY <1>1, <1>2, <1>3, <1>4, <1>5 DEF Contiguous

\* astarte_transmission_queue_clear leaves nothing: the run of records from the
\* head on is all there is.
LEMMA RecreateClears ==
    ASSUME TypeOK, InRing(Occupied, HeadDone, TailDone), Recreate
    PROVE  Occupied' = {} /\ Initialised(store') /\ {id \in StoreIds : store'[id] # NoMsg} = {}
<1> DEFINE cleared == UNION {Run(n) : n \in {k \in 0 .. IdSpace - 1 : Run(k) \subseteq Occupied}}
           kept == [id \in StoreIds |-> IF id \in cleared THEN NoMsg ELSE store[id]]
           n == Cardinality(Occupied)
<1>1. store' = kept /\ Initialised(kept) /\ AtW("loop") /\ \A t \in Senders : At(t, "idle")
  BY DEF Recreate
<1>2. HeadDone = head /\ head \in StoreIds
  BY <1>1 DEF HeadDone, AtW, At, TypeOK
<1>3. n \in 0 .. IdSpace - 1 /\ Occupied = Segment(head, n)
  BY <1>2, RingSize, Constants DEF InRing
<1> HIDE DEF n
<1>4. ASSUME NEW id \in Occupied PROVE id \in cleared
  <2>0. id \in StoreIds /\ Dist(head, id) < n
    BY <1>3, <1>4 DEF Segment
  <2>1. id \in StoreIds /\ Dist(head, id) \in 0 .. n - 1
    BY <1>2, <1>3, <2>0, Constants DEF Dist, StoreIds
  <2>2. n - 1 \in 0 .. IdSpace - 1
    BY <1>3, <2>1, Constants
  <2>3. \A i \in 0 .. n - 1 : (head + i) % IdSpace \in StoreIds /\ Dist(head, (head + i) % IdSpace) = i
    BY <1>2, <1>3, RingIs, Constants
  <2>4. Run(n - 1) \subseteq Occupied
    BY <1>3, <2>3 DEF Run, Segment
  <2>5. id = (head + Dist(head, id)) % IdSpace
    <3>1. (head + Dist(head, id)) % IdSpace =
            IF head + Dist(head, id) < IdSpace THEN head + Dist(head, id) ELSE head + Dist(head, id) - IdSpace
      BY <1>2, <1>3, <2>1, RingIs, Constants
    <3> QED BY <1>2, <2>1, <3>1, Constants DEF Dist, StoreIds
  <2>6. id \in Run(n - 1)
    BY <2>1, <2>5 DEF Run
  <2> QED BY <2>2, <2>4, <2>6
<1>5. {id \in StoreIds : kept[id] # NoMsg} = {}
  BY <1>4 DEF Occupied
<1> HIDE DEF kept
<1>6. store' = kept /\ Initialised(store')
  BY <1>1
<1> QED BY <1>5, <1>6 DEF Occupied

LEMMA EnvironmentContiguous ==
    ASSUME TypeOK, Contiguous, Connect \/ Disconnect \/ Reboot \/ Recreate PROVE Contiguous'
<1> USE DEF flash, indexes
<1>1. InRing(Occupied, HeadDone, TailDone)
  BY DEF Contiguous
<1>2. CASE Connect \/ Disconnect
  <2>1. UNCHANGED <<head, tail, store, sender, worker>>
    BY <1>2 DEF Connect, Disconnect
  <2>2. UNCHANGED <<Occupied, HeadDone, TailDone>>
    BY <2>1 DEF Occupied, HeadDone, TailDone, AtW, At, Next1
  <2> QED BY <2>1, <2>2 DEF Contiguous, Alone, AtW, At
<1>3. CASE Reboot
  <2>1. store' = store /\ Initialised(store)
    BY <1>3 DEF Reboot
  <2> QED BY <1>1, <2>1, RestartContiguous DEF Occupied
<1>4. CASE Recreate
  <2>1. Initialised(store') /\ {id \in StoreIds : store'[id] # NoMsg} = {}
    BY <1>1, <1>4, RecreateClears
  <2>2. InRing({}, 1, 0)
    BY Next1Is, RingNone, Constants DEF StoreIds
  <2> QED BY <2>1, <2>2, RestartContiguous
<1> QED BY <1>2, <1>3, <1>4

LEMMA InitContiguous == ASSUME Init PROVE Contiguous
<1>1. /\ head = FirstId /\ tail = (FirstId + IdSpace - 1) % IdSpace /\ worker = Looping
      /\ sender = [u \in Senders |-> Idle] /\ store = [id \in StoreIds |-> NoMsg]
  BY DEF Init
<1>2. ~AtW("moved_head") /\ \A u \in Senders : At(u, "idle") /\ ~At(u, "moved_head") /\ ~At(u, "moved_tail")
  BY <1>1 DEF AtW, At, Idle, Looping
<1>3. HeadDone = head /\ TailDone = tail /\ Alone /\ Occupied = {}
  BY <1>1, <1>2 DEF HeadDone, TailDone, Alone, Occupied
<1>4. FirstId \in 0 .. IdSpace - 1 /\ IdSpace - 1 \in 0 .. IdSpace - 1
  BY Constants DEF StoreIds
<1>5. tail = IF FirstId + (IdSpace - 1) < IdSpace THEN FirstId + (IdSpace - 1) ELSE FirstId + (IdSpace - 1) - IdSpace
  BY <1>1, <1>4, RingIs, Constants
<1>6. head \in StoreIds /\ tail \in StoreIds /\ Next1(tail) = head
  BY <1>1, <1>4, <1>5, Next1Is, Constants DEF StoreIds
<1> QED BY <1>2, <1>3, <1>6, RingNone DEF Contiguous

LEMMA ContiguousStep ==
    ASSUME TypeOK, InHand, Undisturbed => Contiguous, [Next]_vars, Undisturbed' PROVE Contiguous'
<1>1. Contiguous
  BY Calm
<1>2. ASSUME NEW t \in Senders, Insert(t) PROVE Contiguous'
  BY <1>1, <1>2, InsertContiguous
<1>3. CASE Progress \/ LookFails \/ PublishFails
  BY <1>1, <1>3, WorkerContiguous
<1>4. CASE Connect \/ Disconnect \/ Reboot \/ Recreate
  BY <1>1, <1>4, EnvironmentContiguous
<1>5. CASE UNCHANGED vars
  <2>1. UNCHANGED <<head, tail, store, sender, worker>>
    BY <1>5 DEF vars, flash, indexes
  <2>2. UNCHANGED <<Occupied, HeadDone, TailDone>>
    BY <2>1 DEF Occupied, HeadDone, TailDone, AtW, At, Next1
  <2> QED BY <1>1, <2>1, <2>2 DEF Contiguous, Alone, AtW, At
<1> QED BY <1>2, <1>3, <1>4, <1>5 DEF Next

LEMMA ContiguousStates ==
    ASSUME InRing(Occupied, HeadDone, TailDone) PROVE StoreIsContiguous /\ RebootFindsIndexes
<1> DEFINE n == Cardinality(Occupied)
           h == HeadDone
<1>1. n \in Nat /\ n < IdSpace - 1 /\ h \in StoreIds /\ Occupied = Segment(h, n)
      /\ Next1(TailDone) = (h + n) % IdSpace
  BY RingSize DEF InRing
<1>2. RebootFindsIndexes
  BY RingIndexes DEF RebootFindsIndexes
<1> HIDE DEF n, h
<1>3. Occupied = {(h + i) % IdSpace : i \in 0 .. n - 1}
  <2>1. \A i \in 0 .. n - 1 : (h + i) % IdSpace \in StoreIds /\ Dist(h, (h + i) % IdSpace) = i
    BY <1>1, RingIs, Constants
  <2>2. ASSUME NEW id \in Occupied PROVE \E i \in 0 .. n - 1 : id = (h + i) % IdSpace
    <3>1. id \in StoreIds /\ Dist(h, id) \in 0 .. n - 1
      BY <1>1, <2>2, Constants DEF Segment, Dist, StoreIds
    <3>2. (h + Dist(h, id)) % IdSpace =
            IF h + Dist(h, id) < IdSpace THEN h + Dist(h, id) ELSE h + Dist(h, id) - IdSpace
      BY <1>1, <3>1, RingIs, Constants
    <3>3. id = (h + Dist(h, id)) % IdSpace
      BY <1>1, <3>1, <3>2, Constants DEF Dist, StoreIds
    <3> QED BY <3>1, <3>3
  <2>3. \A i \in 0 .. n - 1 : (h + i) % IdSpace \in Occupied
    BY <1>1, <2>1 DEF Segment
  <2> QED BY <2>2, <2>3
<1> QED BY <1>1, <1>2, <1>3 DEF StoreIsContiguous, n, h

-----------------------------------------------------------------------------
(* The order of the messages of a thread.                                  *)

Follows(x, y) == y.by = x.by => x.nr < y.nr
NotAfter(x, y) == y.by = x.by => x.nr <= y.nr
Out(m, out) == m.nr <= out[m.by]
Publications == Seq([msg : Msg, boot : 0 .. MaxFaults])
Outs == [Senders -> Int]

\* The queue q of class c is in the order of the calls and holds none beyond
\* out, the last call of each thread whose message may have left its hands.
QueueOrder(c, q, out) ==
    \A i \in DOMAIN q :
        /\ q[i].class = c /\ Out(q[i], out)
        /\ \A j \in DOMAIN q : i < j => Follows(q[i], q[j])

\* What the worker has in view is ahead of everything but the front.
ViewOrder(c, q, view, out) ==
    \A m \in view : m.class = c =>
        Out(m, out) /\ \A i \in DOMAIN q : i = 1 \/ Follows(m, q[i])

\* What was published is ahead of what is in view and of what is queued, except
\* the front that is about to be discarded.
PublishedOrder(c, q, view, pub, discarding, out) ==
    \A k \in DOMAIN pub : pub[k].msg.class = c =>
        /\ Out(pub[k].msg, out)
        /\ \A m \in view : m.class = c => Follows(pub[k].msg, m)
        /\ \A i \in DOMAIN q : Follows(pub[k].msg, q[i]) \/ (i = 1 /\ discarding)
        /\ \A l \in DOMAIN pub : k < l /\ pub[l].msg.class = c => Follows(pub[k].msg, pub[l].msg)

Ordered(c, q, view, pub, discarding, out) ==
    /\ QueueOrder(c, q, out) /\ ViewOrder(c, q, view, out)
    /\ PublishedOrder(c, q, view, pub, discarding, out)

LEMMA PublicationType ==
    ASSUME NEW pub \in Publications, NEW k \in DOMAIN pub
    PROVE  pub[k].msg \in Msg /\ pub[k].boot \in 0 .. MaxFaults
<1> DEFINE P == [msg : Msg, boot : 0 .. MaxFaults]
<1>2. pub \in Seq(P)
  BY DEF Publications
<1>3. \A p \in P : p.msg \in Msg /\ p.boot \in 0 .. MaxFaults
  OBVIOUS
<1> HIDE DEF P
<1>1. pub[k] \in P
  BY <1>2
<1> QED BY <1>1, <1>3

LEMMA OutMore ==
    ASSUME NEW m \in Msg, NEW out \in Outs, NEW more \in Outs,
           \A t \in Senders : out[t] <= more[t], Out(m, out)
    PROVE  Out(m, more)
<1>1. m.by \in Senders /\ m.nr \in Int /\ out[m.by] \in Int /\ more[m.by] \in Int
  BY DEF Msg, Outs
<1> QED BY <1>1 DEF Out

LEMMA OrderedStays ==
    ASSUME NEW c, NEW q \in Seq(Msg), NEW view \in SUBSET Msg, NEW pub \in Publications,
           NEW discarding \in BOOLEAN, NEW out \in Outs,
           NEW less, \A m \in less : m.class = c => m \in view,
           NEW still \in BOOLEAN, discarding => still,
           NEW more \in Outs, \A t \in Senders : out[t] <= more[t],
           Ordered(c, q, view, pub, discarding, out)
    PROVE  Ordered(c, q, less, pub, still, more)
<1>1. \A m \in Msg : Out(m, out) => Out(m, more)
  BY OutMore
<1>2. \A i \in DOMAIN q : q[i] \in Msg
  OBVIOUS
<1>3. \A k \in DOMAIN pub : pub[k].msg \in Msg
  BY PublicationType
<1>4. QueueOrder(c, q, more)
  BY <1>1, <1>2 DEF Ordered, QueueOrder
<1>5. ViewOrder(c, q, less, more)
  BY <1>1 DEF Ordered, ViewOrder
<1>6. PublishedOrder(c, q, less, pub, still, more)
  BY <1>1, <1>3 DEF Ordered, PublishedOrder
<1> QED BY <1>4, <1>5, <1>6 DEF Ordered

\* The front is removed.
LEMMA OrderedTail ==
    ASSUME NEW c, NEW q \in Seq(Msg), q # <<>>, NEW view, NEW pub,
           NEW discarding \in BOOLEAN, NEW still \in BOOLEAN, NEW out,
           Ordered(c, q, view, pub, discarding, out)
    PROVE  Ordered(c, Tail(q), view, pub, still, out)
<1> DEFINE r == Tail(q)
<1>1. \A i \in DOMAIN r : i + 1 \in DOMAIN q /\ i + 1 # 1 /\ r[i] = q[i + 1] /\ i \in Nat
  OBVIOUS
<1> HIDE DEF r
<1>2. QueueOrder(c, r, out)
  <2>1. ASSUME NEW i \in DOMAIN r
        PROVE  r[i].class = c /\ Out(r[i], out) /\ \A j \in DOMAIN r : i < j => Follows(r[i], r[j])
    <3>1. q[i + 1].class = c /\ Out(q[i + 1], out)
          /\ \A j \in DOMAIN q : i + 1 < j => Follows(q[i + 1], q[j])
      BY <1>1, <2>1 DEF Ordered, QueueOrder
    <3>2. \A j \in DOMAIN r : i < j => i + 1 < j + 1
      BY <1>1, <2>1
    <3> QED BY <1>1, <2>1, <3>1, <3>2
  <2> QED BY <2>1 DEF QueueOrder
<1>3. ViewOrder(c, r, view, out)
  BY <1>1 DEF Ordered, ViewOrder
<1>4. PublishedOrder(c, r, view, pub, still, out)
  BY <1>1 DEF Ordered, PublishedOrder
<1> QED BY <1>2, <1>3, <1>4 DEF Ordered, r

\* The queue is emptied.
LEMMA OrderedEmpty ==
    ASSUME NEW c, NEW q, NEW view, NEW pub, NEW discarding, NEW still, NEW out,
           Ordered(c, q, view, pub, discarding, out)
    PROVE  Ordered(c, <<>>, view, pub, still, out)
<1>1. QueueOrder(c, <<>>, out)
  BY DEF QueueOrder
<1>2. ViewOrder(c, <<>>, view, out)
  BY DEF Ordered, ViewOrder
<1>3. PublishedOrder(c, <<>>, view, pub, still, out)
  BY DEF Ordered, PublishedOrder
<1> QED BY <1>1, <1>2, <1>3 DEF Ordered

\* A message that was still in the hands of its thread is appended.
LEMMA OrderedAppend ==
    ASSUME NEW c, NEW q \in Seq(Msg), NEW view \in SUBSET Msg, NEW pub \in Publications,
           NEW discarding \in BOOLEAN, NEW out \in Outs, NEW more \in Outs,
           \A t \in Senders : out[t] <= more[t],
           NEW x \in Msg, x.class = c, out[x.by] < x.nr, x.nr <= more[x.by],
           Ordered(c, q, view, pub, discarding, out)
    PROVE  Ordered(c, Append(q, x), view, pub, discarding, more)
<1> DEFINE r == Append(q, x)
           n == Len(q) + 1
<1>1. /\ \A i \in DOMAIN r : (i \in DOMAIN q /\ r[i] = q[i] /\ i < n) \/ (i = n /\ r[i] = x)
      /\ \A i \in DOMAIN r : i <= n /\ i \in Nat
      /\ n \in Nat
  OBVIOUS
<1> HIDE DEF r, n
<1>2. Ordered(c, q, view, pub, discarding, more)
  BY OrderedStays
<1>3. ASSUME NEW m \in Msg, Out(m, out) PROVE Follows(m, x)
  <2>1. m.nr \in Int /\ x.nr \in Int /\ m.by \in Senders /\ out[m.by] \in Int
    BY DEF Msg, Outs
  <2> QED BY <1>3, <2>1 DEF Out, Follows
<1>4. Out(x, more)
  BY DEF Out
<1>5. QueueOrder(c, r, more)
  <2>1. ASSUME NEW i \in DOMAIN r
        PROVE  r[i].class = c /\ Out(r[i], more) /\ \A j \in DOMAIN r : i < j => Follows(r[i], r[j])
    <3>1. CASE i = n
      BY <1>1, <1>4, <3>1
    <3>2. CASE i \in DOMAIN q /\ r[i] = q[i]
      <4>1. q[i] \in Msg /\ Out(q[i], out)
        BY <3>2 DEF Ordered, QueueOrder
      <4>2. Follows(q[i], x)
        BY <1>3, <4>1
      <4>3. q[i].class = c /\ Out(q[i], more) /\ \A j \in DOMAIN q : i < j => Follows(q[i], q[j])
        BY <1>2, <3>2 DEF Ordered, QueueOrder
      <4> QED BY <1>1, <3>2, <4>2, <4>3
    <3> QED BY <1>1, <3>1, <3>2
  <2> QED BY <2>1 DEF QueueOrder
<1>6. ViewOrder(c, r, view, more)
  <2>1. ASSUME NEW m \in view, m.class = c
        PROVE  Out(m, more) /\ \A i \in DOMAIN r : i = 1 \/ Follows(m, r[i])
    <3>1. Out(m, more) /\ \A i \in DOMAIN q : i = 1 \/ Follows(m, q[i])
      BY <1>2, <2>1 DEF Ordered, ViewOrder
    <3>2. Out(m, out) /\ m \in Msg
      BY <2>1 DEF Ordered, ViewOrder
    <3>3. Follows(m, x)
      BY <1>3, <3>2
    <3> QED BY <1>1, <3>1, <3>3
  <2> QED BY <2>1 DEF ViewOrder
<1>7. PublishedOrder(c, r, view, pub, discarding, more)
  <2>1. ASSUME NEW k \in DOMAIN pub, pub[k].msg.class = c
        PROVE  \A i \in DOMAIN r : Follows(pub[k].msg, r[i]) \/ (i = 1 /\ discarding)
    <3>1. \A i \in DOMAIN q : Follows(pub[k].msg, q[i]) \/ (i = 1 /\ discarding)
      BY <1>2, <2>1 DEF Ordered, PublishedOrder
    <3>2. Out(pub[k].msg, out) /\ pub[k].msg \in Msg
      BY <2>1, PublicationType DEF Ordered, PublishedOrder
    <3>3. Follows(pub[k].msg, x)
      BY <1>3, <3>2
    <3> QED BY <1>1, <3>1, <3>3
  <2> QED BY <1>2, <2>1 DEF Ordered, PublishedOrder
<1> QED BY <1>5, <1>6, <1>7 DEF Ordered, r

\* The front comes into view.
LEMMA OrderedView ==
    ASSUME NEW c, NEW q \in Seq(Msg), q # <<>>, NEW view, NEW pub, NEW out,
           Ordered(c, q, view, pub, FALSE, out)
    PROVE  Ordered(c, q, view \cup {Head(q)}, pub, FALSE, out)
<1> DEFINE x == Head(q)
<1>1. 1 \in DOMAIN q /\ x = q[1] /\ \A i \in DOMAIN q : i = 1 \/ 1 < i
  OBVIOUS
<1> HIDE DEF x
<1>2. Out(x, out) /\ \A i \in DOMAIN q : i = 1 \/ Follows(x, q[i])
  BY <1>1 DEF Ordered, QueueOrder
<1>3. ViewOrder(c, q, view \cup {x}, out)
  BY <1>2 DEF Ordered, ViewOrder
<1>4. PublishedOrder(c, q, view \cup {x}, pub, FALSE, out)
  <2>1. \A k \in DOMAIN pub : pub[k].msg.class = c => Follows(pub[k].msg, x)
    BY <1>1 DEF Ordered, PublishedOrder
  <2> QED BY <2>1 DEF Ordered, PublishedOrder
<1> QED BY <1>3, <1>4 DEF Ordered, x

\* A message in view is published.
LEMMA OrderedPublish ==
    ASSUME NEW c, NEW q, NEW view, NEW pub \in Publications, NEW out, NEW b \in 0 .. MaxFaults,
           NEW m \in Msg, m \in view,
           Ordered(c, q, view, pub, FALSE, out)
    PROVE  Ordered(c, q, {}, Append(pub, [msg |-> m, boot |-> b]), m.class = c, out)
<1> DEFINE p == [msg |-> m, boot |-> b]
           more == Append(pub, p)
           n == Len(pub) + 1
<1>1. pub \in Seq([msg : Msg, boot : 0 .. MaxFaults]) /\ p \in [msg : Msg, boot : 0 .. MaxFaults]
  BY DEF Publications
<1>5. p.msg = m
  OBVIOUS
<1> HIDE DEF p
<1>2. /\ \A k \in DOMAIN more : (k \in DOMAIN pub /\ more[k] = pub[k] /\ k < n) \/ (k = n /\ more[k] = p)
      /\ \A k \in DOMAIN more : k <= n /\ k \in Nat
      /\ n \in Nat
  BY <1>1
<1> HIDE DEF more, n
<1>3. QueueOrder(c, q, out) /\ ViewOrder(c, q, {}, out)
  BY DEF Ordered, ViewOrder
<1>4. ASSUME NEW k \in DOMAIN more, more[k].msg.class = c
      PROVE  /\ Out(more[k].msg, out)
             /\ \A i \in DOMAIN q : Follows(more[k].msg, q[i]) \/ (i = 1 /\ m.class = c)
             /\ \A l \in DOMAIN more : k < l /\ more[l].msg.class = c => Follows(more[k].msg, more[l].msg)
  <2>1. CASE k = n /\ more[k] = p
    <3>1. Out(m, out) /\ \A i \in DOMAIN q : i = 1 \/ Follows(m, q[i])
      BY <1>4, <1>5, <2>1 DEF Ordered, ViewOrder
    <3> QED BY <1>2, <1>4, <1>5, <2>1, <3>1
  <2>2. CASE k \in DOMAIN pub /\ more[k] = pub[k]
    <3>1. /\ Out(pub[k].msg, out)
          /\ m.class = c => Follows(pub[k].msg, m)
          /\ \A i \in DOMAIN q : Follows(pub[k].msg, q[i])
          /\ \A l \in DOMAIN pub : k < l /\ pub[l].msg.class = c => Follows(pub[k].msg, pub[l].msg)
      BY <1>4, <2>2 DEF Ordered, PublishedOrder
    <3> QED BY <1>2, <1>5, <2>2, <3>1
  <2> QED BY <1>2, <1>4, <2>1, <2>2
<1>6. PublishedOrder(c, q, {}, more, m.class = c, out)
  BY <1>4 DEF PublishedOrder
<1> QED BY <1>3, <1>6 DEF Ordered, more, p

-----------------------------------------------------------------------------
(* The queues in RAM keep the order, whatever else happens.                *)

OutNow == [t \in Senders |->
    IF At(t, "idle") \/ At(t, "moved_tail") THEN sends[t] ELSE sends[t] - 1]
InView == worker.seen \cup (IF AtW("held") THEN {worker.msg} ELSE {})
Discarding(c) == AtW("discard") /\ worker.msg.class = c

\* Stored messages are on flash, and are looked at when the others were seen.
Placed ==
    /\ \A id \in Occupied : store[id].class = "stored"
    /\ \A m \in worker.seen : m.class \in RamQueues
    /\ AtW("loop") \/ AtW("held") \/ AtW("discard") \/ AtW("moved_head") => worker.seen = {}

RamOrdered ==
    \A c \in RamQueues : Ordered(c, queue[c], InView, published, Discarding(c), OutNow)

LEMMA OutType == ASSUME InHand PROVE OutNow \in Outs
<1>1. \A t \in Senders : sends[t] \in Nat
  BY DEF InHand
<1> QED BY <1>1 DEF OutNow, Outs

\* A message leaves the hands of its thread, and does not come back.
LEMMA OutGrows ==
    ASSUME TypeOK, InHand, InHand', [Next]_vars, NEW t \in Senders PROVE OutNow[t] <= OutNow'[t]
<1> DEFINE free == At(t, "idle") \/ At(t, "moved_tail")
<1>1. /\ OutNow[t] = IF free THEN sends[t] ELSE sends[t] - 1
      /\ OutNow'[t] = IF free' THEN sends'[t] ELSE sends'[t] - 1
      /\ sends[t] \in Nat /\ sends'[t] \in Nat
  BY DEF OutNow, InHand
<1>2. /\ sender \in [Senders -> [pc : SenderPcs, msg : Msg \cup {NoMsg}]]
      /\ sends \in [Senders -> Nat]
  BY DEF TypeOK, InHand
<1> SUFFICES (sends'[t] = sends[t] /\ (free => free')) \/ sends'[t] = sends[t] + 1
  BY <1>1
<1> USE DEF calls
<1>3. ASSUME NEW u \in Senders, NEW c \in Range(PeekOrder), Take(u, c)
      PROVE  (sends'[t] = sends[t] /\ (free => free')) \/ sends'[t] = sends[t] + 1
  BY <1>2, <1>3 DEF Take, At
<1>4. ASSUME NEW u \in Senders, Insert(u), \A c \in Range(PeekOrder) : ~Take(u, c)
      PROVE  sends'[t] = sends[t] /\ (free => free')
  <2>1. sends' = sends
    BY <1>4 DEF Insert, Count, PutRam, EvictRam, Push, MoveTail, EvictStored, MoveHead
  <2>2. CASE u # t
    <3>1. sender'[t] = sender[t]
      BY <1>2, <1>4, <2>2 DEF Insert, Count, PutRam, EvictRam, Push, MoveTail, EvictStored, MoveHead,
                              SenderTo, Returned
    <3> QED BY <2>1, <3>1 DEF At
  <2>3. CASE u = t
    <3>1. ~At(t, "idle") /\ (At(t, "moved_tail") => MoveTail(t))
      BY <1>4, <2>3 DEF Insert, Count, PutRam, EvictRam, Push, MoveTail, EvictStored, MoveHead, At
    <3>2. MoveTail(t) => At(t, "idle")'
      BY <1>2 DEF MoveTail, Returned, At, Idle
    <3> QED BY <2>1, <3>1, <3>2
  <2> QED BY <2>2, <2>3
<1>5. CASE Progress \/ LookFails \/ PublishFails
  <2>1. UNCHANGED <<sends, sender>>
    BY <1>5 DEF Progress, StartPeek, Look, Publish, DiscardRam, DiscardStored, WorkerMovesHead,
                LookFails, PublishFails
  <2> QED BY <2>1 DEF At
<1>6. CASE Connect \/ Disconnect \/ UNCHANGED vars
  <2>1. UNCHANGED <<sends, sender>>
    BY <1>6 DEF Connect, Disconnect, vars
  <2> QED BY <2>1 DEF At
<1>7. CASE Reboot \/ Recreate
  <2>1. sends' = sends /\ sender' = [u \in Senders |-> Idle]
    BY <1>7 DEF Reboot, Recreate, Initialised
  <2> QED BY <2>1 DEF At, Idle
<1> QED BY <1>3, <1>4, <1>5, <1>6, <1>7 DEF Next

LEMMA ViewType ==
    ASSUME TypeOK, InHand PROVE InView \in SUBSET Msg /\ published \in Publications
<1>1. worker.seen \in SUBSET Msg
  BY DEF TypeOK
<1>2. AtW("held") => worker.msg \in Msg
  BY DEF InHand
<1>3. published \in Publications
  BY DEF TypeOK, Publications
<1> QED BY <1>1, <1>2, <1>3 DEF InView

\* A class that a step does not touch.
LEMMA ClassKept ==
    ASSUME TypeOK, InHand, TypeOK', InHand', [Next]_vars, RamOrdered, NEW c \in RamQueues,
           queue'[c] = queue[c], UNCHANGED published,
           \A m \in InView' : m.class = c => m \in InView,
           Discarding(c) => Discarding(c)'
    PROVE  Ordered(c, queue'[c], InView', published', Discarding(c)', OutNow')
<1>1. OutNow \in Outs /\ InView \in SUBSET Msg /\ published \in Publications
      /\ Discarding(c) \in BOOLEAN
  BY OutType, ViewType DEF Discarding
<1>2. OutNow' \in Outs /\ Discarding(c)' \in BOOLEAN
  <2>1. \A t \in Senders : sends'[t] \in Nat
    BY DEF InHand
  <2> QED BY <2>1 DEF OutNow, Outs, Discarding
<1>3. \A t \in Senders : OutNow[t] <= OutNow'[t]
  BY OutGrows
<1>4. Ordered(c, queue[c], InView, published, Discarding(c), OutNow) /\ queue[c] \in Seq(Msg)
  BY DEF RamOrdered, TypeOK
<1> HIDE DEF OutNow, InView, Discarding
<1>5. Ordered(c, queue[c], InView', published, Discarding(c)', OutNow')
  BY <1>1, <1>2, <1>3, <1>4, OrderedStays
<1> QED BY <1>5

LEMMA InsertRamOrdered ==
    ASSUME TypeOK, InHand, TypeOK', InHand', [Next]_vars, RamOrdered, NEW t \in Senders, Insert(t)
    PROVE  RamOrdered'
<1>1. UNCHANGED <<worker, published>>
  BY DEF Insert, Take, Count, PutRam, EvictRam, Push, MoveTail, EvictStored, MoveHead
<1>2. UNCHANGED InView /\ \A c : UNCHANGED Discarding(c)
  BY <1>1 DEF InView, Discarding, AtW
<1>3. ASSUME NEW c \in RamQueues, queue'[c] = queue[c]
      PROVE  Ordered(c, queue'[c], InView', published', Discarding(c)', OutNow')
  BY <1>1, <1>2, <1>3, ClassKept
<1>4. CASE UNCHANGED queue
  BY <1>3, <1>4 DEF RamOrdered
<1>5. CASE PutRam(t) \/ EvictRam(t)
  <2>0. /\ sender[t].msg \in Msg /\ sender[t].msg.by = t /\ sender[t].msg.nr = sends[t]
        /\ sender[t].msg.class \in RamQueues /\ ~At(t, "idle") /\ ~At(t, "moved_tail")
    BY <1>5 DEF PutRam, EvictRam, InHand, Holds, At
  <2>1. PICK m \in Msg, c \in RamQueues : m = sender[t].msg /\ c = m.class /\ m.by = t /\ m.nr = sends[t]
    BY <2>0
  <2>2. OutNow[t] < m.nr /\ OutNow[t] \in Int
    BY <2>0, <2>1 DEF OutNow, Msg
  <2>3. queue \in [RamQueues -> Seq(Msg)]
    BY DEF TypeOK
  <2>4. OutNow \in Outs /\ InView \in SUBSET Msg /\ published \in Publications
        /\ Discarding(c) \in BOOLEAN
    BY OutType, ViewType DEF Discarding
  <2>5. OutNow' \in Outs
    <3>1. \A u \in Senders : sends'[u] \in Nat
      BY DEF InHand
    <3> QED BY <3>1 DEF OutNow, Outs
  <2>6. \A u \in Senders : OutNow[u] <= OutNow'[u]
    BY OutGrows
  <2>7. Ordered(c, queue[c], InView, published, Discarding(c), OutNow)
    BY <2>1 DEF RamOrdered
  <2>8. CASE queue' = [queue EXCEPT ![c] = Append(@, m)] /\ Returned(t) /\ UNCHANGED sends
    <3>1. OutNow'[t] = m.nr
      BY <2>1, <2>8 DEF OutNow, Returned, At, Idle, TypeOK
    <3>2. m.nr <= OutNow'[t]
      BY <2>1, <3>1 DEF Msg
    <3>3. Ordered(c, Append(queue[c], m), InView, published, Discarding(c), OutNow')
      BY <2>1, <2>2, <2>3, <2>4, <2>5, <2>6, <2>7, <3>2, OrderedAppend
    <3>4. queue'[c] = Append(queue[c], m) /\ \A d \in RamQueues : d # c => queue'[d] = queue[d]
      BY <2>1, <2>3, <2>8
    <3>5. Ordered(c, queue'[c], InView', published', Discarding(c)', OutNow')
      BY <1>1, <1>2, <3>3, <3>4
    <3> QED BY <1>3, <3>4, <3>5 DEF RamOrdered
  <2>9. CASE queue' = [queue EXCEPT ![c] = Tail(@)] /\ queue[c] # <<>>
    <3>1. Ordered(c, Tail(queue[c]), InView, published, Discarding(c), OutNow)
      BY <2>1, <2>3, <2>4, <2>7, <2>9, OrderedTail
    <3>2. Tail(queue[c]) \in Seq(Msg) /\ queue'[c] = Tail(queue[c])
          /\ \A d \in RamQueues : d # c => queue'[d] = queue[d]
      BY <2>1, <2>3, <2>9
    <3>3. Ordered(c, queue'[c], InView, published, Discarding(c), OutNow')
      <4>1. PICK q \in Seq(Msg) : q = Tail(queue[c])
        BY <3>2
      <4>2. Ordered(c, q, InView, published, Discarding(c), OutNow)
        BY <3>1, <4>1
      <4>3. Ordered(c, q, InView, published, Discarding(c), OutNow')
        BY <2>4, <2>5, <2>6, <4>2, OrderedStays
      <4> QED BY <3>2, <4>1, <4>3
    <3>4. Ordered(c, queue'[c], InView', published', Discarding(c)', OutNow')
      BY <1>1, <1>2, <3>3
    <3> QED BY <1>3, <3>2, <3>4 DEF RamOrdered
  <2> QED BY <1>4, <1>5, <2>1, <2>8, <2>9 DEF PutRam, EvictRam, calls
<1> QED BY <1>4, <1>5 DEF Insert, Take, Count, Push, MoveTail, EvictStored, MoveHead

LEMMA WorkerRamOrdered ==
    ASSUME TypeOK, InHand, TypeOK', InHand', [Next]_vars, RamOrdered, Placed,
           Progress \/ LookFails \/ PublishFails
    PROVE  RamOrdered'
<1>1. /\ worker \in [pc : WorkerPcs, seen : SUBSET Msg, msg : Msg \cup {NoMsg}]
      /\ queue \in [RamQueues -> Seq(Msg)]
  BY DEF TypeOK
<1>2. OutNow \in Outs /\ InView \in SUBSET Msg /\ published \in Publications
      /\ \A c : Discarding(c) \in BOOLEAN
  BY OutType, ViewType DEF Discarding
<1>3. \A c \in RamQueues : Ordered(c, queue[c], InView, published, Discarding(c), OutNow)
  BY DEF RamOrdered
<1>4. UNCHANGED OutNow
  BY DEF Progress, StartPeek, Look, Publish, DiscardRam, DiscardStored, WorkerMovesHead,
         LookFails, PublishFails, OutNow, At, calls
<1>5. AtW("held") => InView = {worker.msg}
  BY DEF InView, Placed
\* The worker gives up what it has in view.
<1>6. CASE UNCHANGED <<queue, published>> /\ InView' = {} /\ ~AtW("discard")
  <2>1. \A c \in RamQueues : ~Discarding(c)
    BY <1>6 DEF Discarding
  <2> QED BY <1>6, <2>1, ClassKept DEF RamOrdered
<1>7. worker' = Looping \/ worker' = [Looping EXCEPT !.pc = "moved_head"] \/ worker' = [Looping EXCEPT !.pc = "peek1"]
      => InView' = {} /\ \A c : Discarding(c)' = FALSE
  BY DEF Looping, InView, AtW, Discarding
<1>8. CASE StartPeek
  <2>1. UNCHANGED <<queue, published>> /\ ~AtW("discard") /\ worker' = [Looping EXCEPT !.pc = "peek1"]
    BY <1>8 DEF StartPeek, AtW
  <2> QED BY <1>6, <1>7, <2>1
<1>9. CASE LookFails \/ PublishFails
  <2>1. UNCHANGED <<queue, published>> /\ ~AtW("discard") /\ worker' = Looping
    BY <1>9 DEF LookFails, PublishFails, AtW
  <2> QED BY <1>6, <1>7, <2>1
<1>10. ASSUME NEW n \in 1 .. 4, Look(n) PROVE RamOrdered'
  <2> DEFINE d == PeekOrder[n]
             seen == worker.seen \cup FrontOf(d)
  <2>1. /\ AtW(PeekPcs[n]) /\ UNCHANGED <<queue, published>>
        /\ n < 4 => worker' = [worker EXCEPT !.pc = AfterPeek(n), !.seen = seen]
        /\ n >= 4 /\ seen = {} => worker' = Looping
        /\ n >= 4 /\ seen # {} => worker' = [pc |-> "held", seen |-> {}, msg |-> Oldest(seen)]
    BY <1>10 DEF Look
  <2>2. PeekPcs[n] \in {"peek1", "peek2", "peek3", "peek4"} /\ d \in Range(PeekOrder)
        /\ (n < 4 => d \in RamQueues) /\ (n = 4 => d = "stored")
    BY DEF PeekPcs, PeekOrder, Range, RamQueues
  <2>3. ~AtW("discard") /\ ~AtW("held") /\ InView = worker.seen /\ \A c : Discarding(c) = FALSE
    BY <2>1, <2>2 DEF AtW, InView, Discarding
  <2>4. seen \in SUBSET Msg
    BY <1>1, <2>2, FrontType, TypeParts DEF Rest
  <2>5. CASE n \in 1 .. 3
    <3>0. d \in RamQueues /\ AfterPeek(n) \in {"peek2", "peek3", "peek4"} /\ d # "stored"
      BY <2>2, <2>5 DEF AfterPeek, PeekPcs, RamQueues
    <3>1. worker' = [worker EXCEPT !.pc = AfterPeek(n), !.seen = seen]
      BY <2>1, <2>5
    <3>2. InView' = seen /\ \A c : Discarding(c)' = FALSE
      BY <1>1, <3>0, <3>1 DEF InView, AtW, Discarding
    <3>3. CASE queue[d] = <<>>
      <4>1. InView' = InView
        BY <2>3, <3>0, <3>2, <3>3 DEF FrontOf
      <4> QED BY <2>1, <2>3, <4>1, ClassKept DEF RamOrdered
    <3>4. CASE queue[d] # <<>>
      <4>1. InView' = InView \cup {Head(queue[d])}
        BY <2>3, <3>0, <3>2, <3>4 DEF FrontOf
      <4>2. Head(queue[d]).class = d
        BY <1>1, <1>3, <3>0, <3>4 DEF Ordered, QueueOrder
      <4>3. Ordered(d, queue[d], InView \cup {Head(queue[d])}, published, FALSE, OutNow)
        BY <1>1, <1>3, <2>3, <3>0, <3>4, OrderedView
      <4>4. ASSUME NEW c \in RamQueues PROVE Ordered(c, queue'[c], InView', published', Discarding(c)', OutNow')
        <5>1. CASE c = d
          BY <1>4, <2>1, <3>2, <4>1, <4>3, <5>1
        <5>2. CASE c # d
          <6>1. \A m \in InView' : m.class = c => m \in InView
            BY <4>1, <4>2, <5>2
          <6> QED BY <2>1, <2>3, <6>1, ClassKept
        <5> QED BY <5>1, <5>2
      <4> QED BY <4>4 DEF RamOrdered
    <3> QED BY <3>3, <3>4
  <2>6. CASE n = 4 /\ seen = {}
    BY <1>6, <1>7, <2>1, <2>3, <2>6
  <2>7. CASE n = 4 /\ seen # {}
    <3>1. Oldest(seen) \in seen
      BY <2>4, <2>7, OldestExists
    <3>2. worker' = [pc |-> "held", seen |-> {}, msg |-> Oldest(seen)]
      BY <2>1, <2>7
    <3>3. InView' = {Oldest(seen)}
      BY <3>2 DEF InView, AtW
    <3>4. \A m \in FrontOf("stored") : m.class = "stored"
      BY DEF FrontOf, Placed, Occupied, TypeOK
    <3>5. ASSUME NEW c \in RamQueues PROVE Ordered(c, queue'[c], InView', published', Discarding(c)', OutNow')
      <4>1. c # "stored"
        BY DEF RamQueues
      <4>2. \A m \in InView' : m.class = c => m \in InView
        BY <2>2, <2>3, <2>7, <3>1, <3>3, <3>4, <4>1
      <4> QED BY <2>1, <2>3, <4>2, ClassKept
    <3> QED BY <3>5 DEF RamOrdered
  <2>8. n \in 1 .. 3 \/ n = 4
    OBVIOUS
  <2> QED BY <2>5, <2>6, <2>7, <2>8
<1>11. CASE Publish
  <2>1. /\ AtW("held") /\ worker.msg \in Msg /\ InView = {worker.msg} /\ UNCHANGED queue
        /\ published' = Append(published, [msg |-> worker.msg, boot |-> boot])
        /\ worker' = [worker EXCEPT !.pc = "discard"] /\ boot \in 0 .. MaxFaults
    BY <1>5, <1>11 DEF Publish, InHand, TypeOK
  <2>2. PICK m \in Msg, b \in 0 .. MaxFaults : m = worker.msg /\ b = boot
    BY <2>1
  <2>3. ~AtW("discard") /\ InView' = {} /\ AtW("discard")' /\ worker'.msg = m
    BY <1>1, <2>1, <2>2 DEF AtW, InView, Placed
  <2>4. ASSUME NEW c \in RamQueues PROVE Ordered(c, queue'[c], InView', published', Discarding(c)', OutNow')
    <3>1. Ordered(c, queue[c], InView, published, FALSE, OutNow)
      BY <1>3, <2>3 DEF Discarding
    <3>2. Discarding(c)' = (m.class = c)
      BY <2>3 DEF Discarding
    <3>3. Ordered(c, queue[c], {}, Append(published, [msg |-> m, boot |-> b]), m.class = c, OutNow)
      BY <1>2, <2>1, <2>2, <3>1, OrderedPublish
    <3> QED BY <1>4, <2>1, <2>2, <2>3, <3>2, <3>3
  <2> QED BY <2>4 DEF RamOrdered
<1>12. CASE DiscardRam
  <2>1. PICK d \in RamQueues : d = worker.msg.class
    BY <1>12 DEF DiscardRam
  <2>2. queue' = [queue EXCEPT ![d] = IF @ = <<>> THEN @ ELSE Tail(@)] /\ worker' = Looping
        /\ UNCHANGED published
    BY <1>12, <2>1 DEF DiscardRam
  <2>3. InView = {} /\ InView' = {} /\ \A c : Discarding(c)' = FALSE
    BY <1>7, <1>12, <2>2 DEF DiscardRam, InView, AtW, Placed
  <2>4. ASSUME NEW c \in RamQueues PROVE Ordered(c, queue'[c], InView', published', Discarding(c)', OutNow')
    <3>1. CASE c # d
      <4>1. Discarding(c) = FALSE /\ queue'[c] = queue[c]
        BY <1>1, <2>1, <2>2, <3>1 DEF Discarding
      <4> QED BY <2>2, <2>3, <4>1, ClassKept
    <3>2. CASE c = d /\ queue[c] = <<>>
      <4>1. queue'[c] = <<>>
        BY <1>1, <2>2, <3>2
      <4>2. Ordered(c, <<>>, InView, published, FALSE, OutNow)
        BY <1>3, OrderedEmpty
      <4> QED BY <1>4, <2>2, <2>3, <4>1, <4>2
    <3>3. CASE c = d /\ queue[c] # <<>>
      <4>1. queue'[c] = Tail(queue[c]) /\ queue[c] \in Seq(Msg)
        BY <1>1, <2>2, <3>3
      <4>2. Ordered(c, Tail(queue[c]), InView, published, FALSE, OutNow)
        BY <1>2, <1>3, <3>3, <4>1, OrderedTail
      <4> QED BY <1>4, <2>2, <2>3, <4>1, <4>2
    <3> QED BY <3>1, <3>2, <3>3
  <2> QED BY <2>4 DEF RamOrdered
<1>13. CASE DiscardStored \/ WorkerMovesHead
  <2>1. UNCHANGED <<queue, published>> /\ InView' = {} /\ (AtW("discard") => worker.msg.class = "stored")
    BY <1>7, <1>13 DEF DiscardStored, WorkerMovesHead, AtW
  <2>2. ASSUME NEW c \in RamQueues PROVE ~Discarding(c)
    <3>1. c # "stored"
      BY DEF RamQueues
    <3> QED BY <2>1, <3>1 DEF Discarding
  <2> QED BY <2>1, <2>2, ClassKept DEF RamOrdered
<1> QED BY <1>8, <1>9, <1>10, <1>11, <1>12, <1>13 DEF Progress

LEMMA EnvironmentRamOrdered ==
    ASSUME TypeOK, InHand, TypeOK', InHand', [Next]_vars, RamOrdered, Placed,
           Connect \/ Disconnect \/ Reboot \/ Recreate \/ UNCHANGED vars
    PROVE  RamOrdered'
<1>1. OutNow \in Outs /\ InView \in SUBSET Msg /\ published \in Publications
      /\ \A c : Discarding(c) \in BOOLEAN
  BY OutType, ViewType DEF Discarding
<1>2. OutNow' \in Outs
  <2>1. \A u \in Senders : sends'[u] \in Nat
    BY DEF InHand
  <2> QED BY <2>1 DEF OutNow, Outs
<1>3. CASE Connect \/ UNCHANGED vars
  <2>1. UNCHANGED <<queue, published, worker>>
    BY <1>3 DEF Connect, vars
  <2>2. UNCHANGED InView /\ \A c : UNCHANGED Discarding(c)
    BY <2>1 DEF InView, Discarding, AtW
  <2> QED BY <2>1, <2>2, ClassKept DEF RamOrdered
\* A queue that is emptied.
<1>4. ASSUME NEW c \in RamQueues, queue'[c] = <<>>, UNCHANGED published, InView' \subseteq InView
      PROVE  Ordered(c, queue'[c], InView', published', Discarding(c)', OutNow')
  <2>1. Ordered(c, <<>>, InView, published, Discarding(c)', OutNow)
    BY OrderedEmpty DEF RamOrdered
  <2>2. \A u \in Senders : OutNow[u] <= OutNow'[u]
    BY OutGrows
  <2>3. Discarding(c)' \in BOOLEAN /\ <<>> \in Seq(Msg) /\ \A m \in InView' : m.class = c => m \in InView
    BY <1>4 DEF Discarding
  <2> HIDE DEF OutNow, InView, Discarding
  <2>4. Ordered(c, <<>>, InView', published, Discarding(c)', OutNow')
    <3>1. PICK q \in Seq(Msg) : q = <<>>
      BY <2>3
    <3>2. Ordered(c, q, InView, published, Discarding(c)', OutNow)
      BY <2>1, <3>1
    <3>3. Ordered(c, q, InView', published, Discarding(c)', OutNow')
      BY <1>1, <1>2, <2>2, <2>3, <3>2, OrderedStays
    <3> QED BY <3>1, <3>3
  <2> QED BY <1>4, <2>4
<1>5. CASE Disconnect
  <2>1. UNCHANGED <<published, worker>>
    BY <1>5 DEF Disconnect
  <2>2. UNCHANGED InView /\ \A c : UNCHANGED Discarding(c)
    BY <2>1 DEF InView, Discarding, AtW
  <2>3. queue \in [RamQueues -> Seq(Msg)]
    BY DEF TypeOK
  <2>4. ASSUME NEW c \in RamQueues, queue'[c] = queue[c]
        PROVE  Ordered(c, queue'[c], InView', published', Discarding(c)', OutNow')
    BY <2>1, <2>2, <2>4, ClassKept
  <2>5. ASSUME NEW c \in RamQueues, queue[c] # <<>>, queue'[c] = Tail(queue[c])
        PROVE  Ordered(c, queue'[c], InView', published', Discarding(c)', OutNow')
    <3>1. Ordered(c, queue[c], InView, published, Discarding(c), OutNow)
      BY DEF RamOrdered
    <3>2. queue[c] \in Seq(Msg) /\ Tail(queue[c]) \in Seq(Msg)
      BY <2>3, <2>5
    <3>3. Ordered(c, Tail(queue[c]), InView, published, Discarding(c), OutNow)
      BY <1>1, <2>5, <3>1, <3>2, OrderedTail
    <3>4. PICK q \in Seq(Msg) : q = Tail(queue[c])
      BY <3>2
    <3>5. \A u \in Senders : OutNow[u] <= OutNow'[u]
      BY OutGrows
    <3>6. Ordered(c, q, InView, published, Discarding(c), OutNow')
      <4>1. OutNow \in Outs /\ InView \in SUBSET Msg /\ published \in Publications
            /\ Discarding(c) \in BOOLEAN /\ q \in Seq(Msg)
        BY <1>1, <3>4
      <4>2. Ordered(c, q, InView, published, Discarding(c), OutNow)
        BY <3>3, <3>4
      <4> QED BY <1>2, <3>5, <4>1, <4>2, OrderedStays
    <3> QED BY <2>1, <2>2, <2>5, <3>4, <3>6
  <2>6. ASSUME NEW c \in RamQueues
        PROVE  queue'[c] = queue[c] \/ (queue[c] # <<>> /\ queue'[c] = Tail(queue[c]))
    BY <1>5, <2>3 DEF Disconnect
  <2> QED BY <2>4, <2>5, <2>6 DEF RamOrdered
<1>6. CASE Reboot \/ Recreate
  <2>1. queue' = [c \in RamQueues |-> <<>>] /\ worker' = Looping /\ UNCHANGED published
    BY <1>6 DEF Reboot, Recreate, Initialised
  <2>2. InView' = {}
    BY <2>1 DEF InView, AtW, Looping
  <2> QED BY <1>4, <2>1, <2>2 DEF RamOrdered
<1> QED BY <1>3, <1>5, <1>6

LEMMA PlacedStep ==
    ASSUME TypeOK, InHand, RamOrdered, Placed, [Next]_vars PROVE Placed'
<1> DEFINE StorePlaced == \A id \in Occupied : store[id].class = "stored"
           SeenPlaced == /\ \A m \in worker.seen : m.class \in RamQueues
                         /\ AtW("loop") \/ AtW("held") \/ AtW("discard") \/ AtW("moved_head") => worker.seen = {}
<1>1. SeenPlaced' /\ StorePlaced' => Placed'
  BY DEF Placed
<1>2. SeenPlaced /\ StorePlaced
  BY DEF Placed
<1>3. /\ store \in [StoreIds -> Msg \cup {NoMsg}] /\ head \in StoreIds /\ tail \in StoreIds
      /\ worker \in [pc : WorkerPcs, seen : SUBSET Msg, msg : Msg \cup {NoMsg}]
      /\ queue \in [RamQueues -> Seq(Msg)]
  BY DEF TypeOK
<1>4. UNCHANGED store => StorePlaced'
  BY <1>2 DEF Occupied
<1>5. ASSUME NEW kept, \A id \in StoreIds : kept[id] \in {store[id], NoMsg}, store' = kept PROVE StorePlaced'
  BY <1>2, <1>5 DEF Occupied
<1>6. UNCHANGED worker => SeenPlaced'
  BY <1>2 DEF AtW
<1>7. worker' = Looping => SeenPlaced'
  BY DEF Looping
<1> HIDE DEF StorePlaced, SeenPlaced
<1>8. store' \in {store, Deleted} => StorePlaced'
  <2>1. \A id \in StoreIds : Deleted[id] \in {store[id], NoMsg}
    BY <1>3 DEF Deleted
  <2> QED BY <1>4, <1>5, <2>1
<1> USE DEF flash, indexes
<1>9. ASSUME NEW t \in Senders, Insert(t) PROVE Placed'
  <2>1. UNCHANGED worker
    BY <1>9 DEF Insert, Take, Count, PutRam, EvictRam, Push, MoveTail, EvictStored, MoveHead
  <2>2. CASE UNCHANGED store
    BY <1>1, <1>4, <1>6, <2>1, <2>2
  <2>3. CASE Push(t)
    <3> DEFINE m == sender[t].msg
    <3>1. m.class = "stored" /\ store' \in {store, [store EXCEPT ![Next1(tail)] = m]}
      BY <2>3 DEF Push, PushDone, PushFails
    <3>2. store' = [store EXCEPT ![Next1(tail)] = m] => StorePlaced'
      BY <1>2, <1>3, <3>1 DEF StorePlaced, Occupied
    <3> QED BY <1>1, <1>4, <1>6, <2>1, <3>1, <3>2
  <2>4. CASE EvictStored(t)
    <3>1. store' \in {store, Deleted}
      BY <2>4 DEF EvictStored, DeleteHead
    <3> QED BY <1>1, <1>6, <1>8, <2>1, <3>1
  <2> QED BY <1>9, <2>2, <2>3, <2>4 DEF Insert, Take, Count, PutRam, EvictRam, MoveTail, MoveHead
<1>10. CASE Progress \/ LookFails \/ PublishFails
  <2>1. StorePlaced'
    <3>1. store' \in {store, Deleted}
      BY <1>10 DEF Progress, StartPeek, Look, Publish, DiscardRam, DiscardStored, WorkerMovesHead,
                   LookFails, PublishFails, DeleteHead
    <3> QED BY <1>8, <3>1
  <2>2. CASE StartPeek \/ LookFails \/ PublishFails \/ DiscardRam \/ DiscardStored \/ WorkerMovesHead
    <3>1. worker' = Looping \/ worker' = [Looping EXCEPT !.pc = "moved_head"]
          \/ worker' = [Looping EXCEPT !.pc = "peek1"]
      BY <2>2 DEF StartPeek, LookFails, PublishFails, DiscardRam, DiscardStored, WorkerMovesHead
    <3>2. worker'.seen = {}
      BY <3>1 DEF Looping
    <3> QED BY <1>1, <2>1, <3>2 DEF SeenPlaced
  <2>3. CASE Publish
    <3>1. worker'.seen = {}
      BY <1>2, <1>3, <2>3 DEF Publish, SeenPlaced
    <3> QED BY <1>1, <2>1, <3>1 DEF SeenPlaced
  <2>4. ASSUME NEW n \in 1 .. 4, Look(n) PROVE Placed'
    <3> DEFINE d == PeekOrder[n]
               seen == worker.seen \cup FrontOf(d)
    <3>1. /\ n < 4 => worker' = [worker EXCEPT !.pc = AfterPeek(n), !.seen = seen]
          /\ n >= 4 => worker'.seen = {}
      BY <2>4 DEF Look, Looping
    <3>2. CASE n \in 1 .. 3
      <4>1. d \in RamQueues /\ AfterPeek(n) \in {"peek2", "peek3", "peek4"} /\ d # "stored"
        BY <3>2 DEF PeekOrder, RamQueues, AfterPeek, PeekPcs
      <4>2. worker'.seen = seen /\ worker'.pc = AfterPeek(n)
        <5>1. worker' = [worker EXCEPT !.pc = AfterPeek(n), !.seen = seen]
          BY <3>1, <3>2
        <5> HIDE DEF seen
        <5> QED BY <1>3, <5>1
      <4>3. queue[d] # <<>> => Head(queue[d]).class = d
        BY <1>3, <4>1 DEF RamOrdered, Ordered, QueueOrder
      <4>4. \A m \in FrontOf(d) : m.class = d
        BY <4>1, <4>3 DEF FrontOf
      <4>5. SeenPlaced'
        BY <1>2, <4>1, <4>2, <4>4 DEF SeenPlaced, AtW
      <4> QED BY <1>1, <2>1, <4>5
    <3>3. CASE n = 4
      BY <1>1, <2>1, <3>1, <3>3 DEF SeenPlaced
    <3> QED BY <2>4, <3>2, <3>3
  <2> QED BY <1>10, <2>2, <2>3, <2>4 DEF Progress
<1>11. CASE Connect \/ Disconnect \/ UNCHANGED vars
  BY <1>1, <1>4, <1>6, <1>11 DEF Connect, Disconnect, vars
<1>12. CASE Reboot
  BY <1>1, <1>4, <1>7, <1>12 DEF Reboot, Initialised
<1>13. CASE Recreate
  <2> DEFINE cleared == UNION {Run(n) : n \in {k \in 0 .. IdSpace - 1 : Run(k) \subseteq Occupied}}
             kept == [id \in StoreIds |-> IF id \in cleared THEN NoMsg ELSE store[id]]
  <2>1. store' = kept /\ worker' = Looping
    BY <1>13 DEF Recreate, Initialised
  <2>2. \A id \in StoreIds : kept[id] \in {store[id], NoMsg}
    OBVIOUS
  <2> HIDE DEF kept
  <2> QED BY <1>1, <1>5, <1>7, <2>1, <2>2
<1> QED BY <1>9, <1>10, <1>11, <1>12, <1>13 DEF Next

LEMMA InitRamOrdered == ASSUME Init PROVE RamOrdered /\ Placed
<1>1. queue = [c \in RamQueues |-> <<>>] /\ published = <<>> /\ worker = Looping
      /\ store = [id \in StoreIds |-> NoMsg]
  BY DEF Init
<1>2. InView = {} /\ Occupied = {}
  BY <1>1 DEF InView, AtW, Looping, Occupied
<1>3. ASSUME NEW c, NEW d, NEW out PROVE Ordered(c, <<>>, {}, <<>>, d, out)
  BY DEF Ordered, QueueOrder, ViewOrder, PublishedOrder
<1>4. RamOrdered
  BY <1>1, <1>2, <1>3 DEF RamOrdered
<1>5. Placed
  BY <1>1, <1>2 DEF Placed, Looping
<1> QED BY <1>4, <1>5

LEMMA RamOrderedStep ==
    ASSUME TypeOK, InHand, RamOrdered, Placed, [Next]_vars PROVE RamOrdered' /\ Placed'
<1>1. TypeOK' /\ InHand'
  BY TypeStep
<1>2. ASSUME NEW t \in Senders, Insert(t) PROVE RamOrdered'
  BY <1>1, <1>2, InsertRamOrdered
<1>3. CASE Progress \/ LookFails \/ PublishFails
  BY <1>1, <1>3, WorkerRamOrdered, PlacedStep
<1>4. CASE Connect \/ Disconnect \/ Reboot \/ Recreate \/ UNCHANGED vars
  BY <1>1, <1>4, EnvironmentRamOrdered, PlacedStep
<1>5. RamOrdered'
  BY <1>2, <1>3, <1>4 DEF Next
<1> QED BY <1>5, PlacedStep

-----------------------------------------------------------------------------
(* The order of the stored messages.                                       *)

\* Along the ring s from its head h, with the ids that are occupied.
RingOrder(s, ids, h, out) ==
    \A id \in ids :
        /\ Out(s[id], out)
        /\ \A jd \in ids : Dist(h, id) < Dist(h, jd) => Follows(s[id], s[jd]) /\ s[id].seq < s[jd].seq

\* What the worker holds is the record in front, or ahead of all of them.
HeldOrder(s, ids, front, held, out) ==
    \A m \in held :
        /\ Out(m, out)
        /\ \A id \in ids : Follows(m, s[id]) \/ (id = front /\ NotAfter(m, s[id]))

\* The record in front may have been published, by this boot or an earlier one.
RingPublished(s, ids, front, held, pub, b, discarding, out) ==
    \A k \in DOMAIN pub : pub[k].msg.class = "stored" =>
        /\ Out(pub[k].msg, out)
        /\ \A id \in ids :
            \/ Follows(pub[k].msg, s[id])
            \/ id = front /\ NotAfter(pub[k].msg, s[id]) /\ (pub[k].boot < b \/ discarding)
        /\ \A m \in held : Follows(pub[k].msg, m) \/ (NotAfter(pub[k].msg, m) /\ pub[k].boot < b)
        /\ \A l \in DOMAIN pub : k < l /\ pub[l].msg.class = "stored" =>
            \/ Follows(pub[k].msg, pub[l].msg)
            \/ NotAfter(pub[k].msg, pub[l].msg) /\ pub[k].boot < pub[l].boot

RingOrdered(s, ids, h, front, held, pub, b, discarding, out) ==
    /\ RingOrder(s, ids, h, out) /\ HeldOrder(s, ids, front, held, out)
    /\ RingPublished(s, ids, front, held, pub, b, discarding, out)

LEMMA RingStays ==
    ASSUME NEW s, NEW ids, \A id \in ids : s[id] \in Msg, NEW h, NEW front,
           NEW held \in SUBSET Msg, NEW pub \in Publications, NEW b \in Nat,
           NEW discarding \in BOOLEAN, NEW still \in BOOLEAN, discarding => still,
           NEW less \in SUBSET held,
           NEW out \in Outs, NEW more \in Outs, \A t \in Senders : out[t] <= more[t],
           RingOrdered(s, ids, h, front, held, pub, b, discarding, out)
    PROVE  RingOrdered(s, ids, h, front, less, pub, b, still, more)
<1>1. \A m \in Msg : Out(m, out) => Out(m, more)
  BY OutMore
<1>2. \A k \in DOMAIN pub : pub[k].msg \in Msg
  BY PublicationType
<1>3. RingOrder(s, ids, h, more)
  BY <1>1 DEF RingOrdered, RingOrder
<1>4. HeldOrder(s, ids, front, less, more)
  BY <1>1 DEF RingOrdered, HeldOrder
<1>5. RingPublished(s, ids, front, less, pub, b, still, more)
  BY <1>1, <1>2 DEF RingOrdered, RingPublished
<1> QED BY <1>3, <1>4, <1>5 DEF RingOrdered

\* With no record in front nothing depends on where the front is.
LEMMA RingPast ==
    ASSUME NEW s, NEW ids, NEW h, NEW front, front \notin ids, NEW other, NEW held, NEW pub,
           NEW b, NEW discarding, NEW still, NEW out,
           RingOrdered(s, ids, h, front, held, pub, b, discarding, out)
    PROVE  RingOrdered(s, ids, h, other, held, pub, b, still, out)
<1>1. HeldOrder(s, ids, other, held, out)
  BY DEF RingOrdered, HeldOrder
<1>2. RingPublished(s, ids, other, held, pub, b, still, out)
  BY DEF RingOrdered, RingPublished
<1> QED BY <1>1, <1>2 DEF RingOrdered

\* The record in front is deleted.
LEMMA RingDeleted ==
    ASSUME NEW s, NEW ids, NEW h, NEW t, InRing(ids, h, t), h \in ids, NEW s2,
           \A id \in ids \ {h} : s2[id] = s[id],
           NEW held, NEW pub, NEW b, NEW discarding, NEW still, NEW out,
           RingOrdered(s, ids, h, h, held, pub, b, discarding, out)
    PROVE  RingOrdered(s2, ids \ {h}, Next1(h), h, held, pub, b, still, out)
<1> DEFINE g == Next1(h)
           rest == ids \ {h}
<1>1. \A id \in rest : Dist(g, id) = Dist(h, id) - 1
  BY RingRemove
<1>2. \A id \in rest : Dist(h, id) \in Int
  BY Constants DEF InRing, Segment, Dist, StoreIds
<1>3. \A id \in rest : id \in ids /\ id # h /\ s2[id] = s[id]
  OBVIOUS
<1> HIDE DEF g, rest
<1>4. RingOrder(s2, rest, g, out)
  <2>1. \A id \in rest, jd \in rest : Dist(g, id) < Dist(g, jd) => Dist(h, id) < Dist(h, jd)
    BY <1>1, <1>2
  <2> QED BY <1>3, <2>1 DEF RingOrdered, RingOrder
<1>5. HeldOrder(s2, rest, h, held, out)
  BY <1>3 DEF RingOrdered, HeldOrder
<1>6. RingPublished(s2, rest, h, held, pub, b, still, out)
  BY <1>3 DEF RingOrdered, RingPublished
<1> QED BY <1>4, <1>5, <1>6 DEF RingOrdered, g, rest

\* A message that was in the hands of its thread becomes the last record.
LEMMA RingPushed ==
    ASSUME NEW s, NEW ids, \A id \in ids : s[id] \in Msg, NEW h, NEW t, InRing(ids, h, t),
           NEW x \in Msg, NEW s2, \A id \in ids : s2[id] = s[id], s2[Next1(t)] = x,
           NEW front, NEW held \in SUBSET Msg, NEW pub \in Publications, NEW b \in Nat,
           NEW discarding \in BOOLEAN, NEW out \in Outs, NEW more \in Outs,
           \A u \in Senders : out[u] <= more[u], out[x.by] < x.nr, x.nr <= more[x.by],
           \A id \in ids : s[id].seq < x.seq,
           RingOrdered(s, ids, h, front, held, pub, b, discarding, out)
    PROVE  RingOrdered(s2, ids \cup {Next1(t)}, h, front, held, pub, b, discarding, more)
<1> DEFINE y == Next1(t)
           n == Cardinality(ids)
           all == ids \cup {y}
<1>1. y \notin ids /\ Dist(h, y) = n
  BY RingFree
<1>2. \A id \in ids : Dist(h, id) < n /\ Dist(h, id) \in Int
  <2>1. ids = Segment(h, n) /\ h \in StoreIds
    BY DEF InRing
  <2> HIDE DEF n
  <2>2. \A id \in ids : id \in StoreIds /\ Dist(h, id) < n
    BY <2>1 DEF Segment
  <2> QED BY <2>1, <2>2, Constants DEF Dist, StoreIds
<1>3. n \in Nat
  BY RingSize
<1>4. /\ \A id \in all : (id \in ids /\ s2[id] = s[id] /\ id # y) \/ (id = y /\ s2[id] = x)
  BY <1>1
<1>5. RingOrdered(s, ids, h, front, held, pub, b, discarding, more)
  BY RingStays
<1>6. ASSUME NEW m \in Msg, Out(m, out) PROVE Follows(m, x)
  <2>1. m.nr \in Int /\ x.nr \in Int /\ m.by \in Senders /\ out[m.by] \in Int
    BY DEF Msg, Outs
  <2> QED BY <1>6, <2>1 DEF Out, Follows
<1> HIDE DEF y, n, all
<1>7. RingOrder(s2, all, h, more)
  <2>1. ASSUME NEW id \in all
        PROVE  Out(s2[id], more) /\ \A jd \in all : Dist(h, id) < Dist(h, jd) =>
                   Follows(s2[id], s2[jd]) /\ s2[id].seq < s2[jd].seq
    <3>1. CASE id = y
      <4>1. \A jd \in all : ~(Dist(h, id) < Dist(h, jd))
        BY <1>1, <1>2, <1>3, <1>4, <3>1
      <4>2. Out(s2[id], more)
        BY <1>4, <2>1, <3>1 DEF Out
      <4> QED BY <4>1, <4>2
    <3>2. CASE id \in ids /\ s2[id] = s[id]
      <4>1. Out(s[id], more) /\ Out(s[id], out) /\ \A jd \in ids : Dist(h, id) < Dist(h, jd) =>
                Follows(s[id], s[jd]) /\ s[id].seq < s[jd].seq
        BY <1>5, <3>2 DEF RingOrdered, RingOrder
      <4>2. Follows(s[id], x) /\ s[id].seq < x.seq
        BY <1>6, <3>2, <4>1
      <4> QED BY <1>4, <3>2, <4>1, <4>2
    <3> QED BY <1>4, <2>1, <3>1, <3>2
  <2> QED BY <2>1 DEF RingOrder
<1>8. HeldOrder(s2, all, front, held, more)
  <2>1. ASSUME NEW m \in held PROVE Out(m, out) /\ Out(m, more)
    BY <1>5 DEF RingOrdered, HeldOrder
  <2>2. ASSUME NEW m \in held, NEW id \in all
        PROVE  Follows(m, s2[id]) \/ (id = front /\ NotAfter(m, s2[id]))
    <3>1. CASE id = y /\ s2[id] = x
      BY <1>6, <2>1, <3>1
    <3>2. CASE id \in ids /\ s2[id] = s[id]
      BY <3>2 DEF RingOrdered, HeldOrder
    <3> QED BY <1>4, <3>1, <3>2
  <2> QED BY <2>1, <2>2 DEF HeldOrder
<1>9. RingPublished(s2, all, front, held, pub, b, discarding, more)
  <2>1. ASSUME NEW k \in DOMAIN pub, pub[k].msg.class = "stored"
        PROVE  \A id \in all :
            \/ Follows(pub[k].msg, s2[id])
            \/ id = front /\ NotAfter(pub[k].msg, s2[id]) /\ (pub[k].boot < b \/ discarding)
    <3>1. Out(pub[k].msg, out) /\ pub[k].msg \in Msg
      BY <2>1, PublicationType DEF RingOrdered, RingPublished
    <3>2. Follows(pub[k].msg, x)
      BY <1>6, <3>1
    <3>3. \A id \in ids :
            \/ Follows(pub[k].msg, s[id])
            \/ id = front /\ NotAfter(pub[k].msg, s[id]) /\ (pub[k].boot < b \/ discarding)
      BY <2>1 DEF RingOrdered, RingPublished
    <3> QED BY <1>4, <3>2, <3>3
  <2> QED BY <1>5, <2>1 DEF RingOrdered, RingPublished
<1> QED BY <1>7, <1>8, <1>9 DEF RingOrdered, all, y

\* The record in front is taken hold of.
LEMMA RingHeld ==
    ASSUME NEW s, NEW ids, \A id \in ids : s[id] \in Msg, NEW h, NEW t, InRing(ids, h, t), h \in ids,
           NEW pub, NEW b, NEW out,
           RingOrdered(s, ids, h, h, {}, pub, b, FALSE, out)
    PROVE  RingOrdered(s, ids, h, h, {s[h]}, pub, b, FALSE, out)
<1>1. ASSUME NEW id \in ids PROVE Follows(s[h], s[id]) \/ (id = h /\ NotAfter(s[h], s[id]))
  <2>1. CASE id = h
    <3>1. s[h].nr \in Nat
      BY DEF Msg
    <3> QED BY <2>1, <3>1 DEF NotAfter
  <2>2. CASE id # h
    <3>1. Dist(h, h) < Dist(h, id)
      BY <2>2, Constants DEF InRing, Segment, Dist, StoreIds
    <3> QED BY <3>1 DEF RingOrdered, RingOrder
  <2> QED BY <2>1, <2>2
<1>2. Out(s[h], out)
  BY DEF RingOrdered, RingOrder
<1>3. HeldOrder(s, ids, h, {s[h]}, out)
  BY <1>1, <1>2 DEF HeldOrder
<1>4. RingPublished(s, ids, h, {s[h]}, pub, b, FALSE, out)
  BY DEF RingOrdered, RingPublished
<1> QED BY <1>3, <1>4 DEF RingOrdered

\* What is held is published; it may also be a message of another class.
LEMMA RingPublishes ==
    ASSUME NEW s, NEW ids, NEW h, NEW front, NEW held, NEW pub \in Publications,
           NEW b \in 0 .. MaxFaults, NEW out, NEW m \in Msg, m.class = "stored" => m \in held,
           RingOrdered(s, ids, h, front, held, pub, b, FALSE, out)
    PROVE  RingOrdered(s, ids, h, front, {}, Append(pub, [msg |-> m, boot |-> b]), b,
                       m.class = "stored", out)
<1> DEFINE p == [msg |-> m, boot |-> b]
           more == Append(pub, p)
           n == Len(pub) + 1
           now == m.class = "stored"
<1>1. pub \in Seq([msg : Msg, boot : 0 .. MaxFaults]) /\ p \in [msg : Msg, boot : 0 .. MaxFaults]
  BY DEF Publications
<1>2. p.msg = m /\ p.boot = b
  OBVIOUS
<1> HIDE DEF p
<1>3. /\ \A k \in DOMAIN more : (k \in DOMAIN pub /\ more[k] = pub[k] /\ k < n) \/ (k = n /\ more[k] = p)
      /\ \A k \in DOMAIN more : k <= n /\ k \in Nat
      /\ n \in Nat
  BY <1>1
<1> HIDE DEF more, n
<1>4. RingOrder(s, ids, h, out) /\ HeldOrder(s, ids, front, {}, out)
  BY DEF RingOrdered, HeldOrder
<1>5. ASSUME NEW k \in DOMAIN more, more[k].msg.class = "stored"
      PROVE  /\ Out(more[k].msg, out)
             /\ \A id \in ids :
                 \/ Follows(more[k].msg, s[id])
                 \/ id = front /\ NotAfter(more[k].msg, s[id]) /\ (more[k].boot < b \/ now)
             /\ \A l \in DOMAIN more : k < l /\ more[l].msg.class = "stored" =>
                 \/ Follows(more[k].msg, more[l].msg)
                 \/ NotAfter(more[k].msg, more[l].msg) /\ more[k].boot < more[l].boot
  <2>1. CASE k = n /\ more[k] = p
    <3>1. m \in held /\ now
      BY <1>2, <1>5, <2>1
    <3>2. Out(m, out) /\ \A id \in ids : Follows(m, s[id]) \/ (id = front /\ NotAfter(m, s[id]))
      BY <3>1 DEF RingOrdered, HeldOrder
    <3> QED BY <1>2, <1>3, <2>1, <3>1, <3>2
  <2>2. CASE k \in DOMAIN pub /\ more[k] = pub[k]
    <3>1. /\ Out(pub[k].msg, out)
          /\ now => Follows(pub[k].msg, m) \/ (NotAfter(pub[k].msg, m) /\ pub[k].boot < b)
          /\ \A id \in ids : Follows(pub[k].msg, s[id])
                             \/ (id = front /\ NotAfter(pub[k].msg, s[id]) /\ pub[k].boot < b)
          /\ \A l \in DOMAIN pub : k < l /\ pub[l].msg.class = "stored" =>
                 \/ Follows(pub[k].msg, pub[l].msg)
                 \/ NotAfter(pub[k].msg, pub[l].msg) /\ pub[k].boot < pub[l].boot
      BY <1>5, <2>2 DEF RingOrdered, RingPublished
    <3>2. ASSUME NEW l \in DOMAIN more, k < l, more[l].msg.class = "stored"
          PROVE  \/ Follows(more[k].msg, more[l].msg)
                 \/ NotAfter(more[k].msg, more[l].msg) /\ more[k].boot < more[l].boot
      <4>1. CASE l = n /\ more[l] = p
        BY <1>2, <2>2, <3>1, <3>2, <4>1
      <4>2. CASE l \in DOMAIN pub /\ more[l] = pub[l]
        BY <2>2, <3>1, <3>2, <4>2
      <4> QED BY <1>3, <4>1, <4>2
    <3> QED BY <2>2, <3>1, <3>2
  <2> QED BY <1>3, <1>5, <2>1, <2>2
<1>6. RingPublished(s, ids, front, {}, more, b, now, out)
  BY <1>5 DEF RingPublished
<1> QED BY <1>4, <1>6 DEF RingOrdered, more, p

\* The power is lost: the front is again what the ids tell.
LEMMA RingRebooted ==
    ASSUME NEW s, NEW ids, \A id \in ids : s[id] \in Msg, NEW h, NEW front, front \in ids => front = h,
           NEW held, NEW pub \in Publications, NEW b \in Nat, \A k \in DOMAIN pub : pub[k].boot <= b,
           NEW discarding, NEW out \in Outs, NEW more \in Outs, \A t \in Senders : out[t] <= more[t],
           NEW other, ids # {} => other = h,
           RingOrdered(s, ids, h, front, held, pub, b, discarding, out)
    PROVE  RingOrdered(s, ids, other, other, {}, pub, b + 1, FALSE, more)
<1>1. \A m \in Msg : Out(m, out) => Out(m, more)
  BY OutMore
<1>2. \A k \in DOMAIN pub : pub[k].msg \in Msg /\ pub[k].boot \in Nat
  BY PublicationType, Constants
<1>3. RingOrder(s, ids, other, more)
  BY <1>1 DEF RingOrdered, RingOrder
<1>4. HeldOrder(s, ids, other, {}, more)
  BY DEF HeldOrder
<1>5. \A k \in DOMAIN pub : pub[k].boot < b + 1
  BY <1>2
<1>6. RingPublished(s, ids, other, {}, pub, b + 1, FALSE, more)
  BY <1>1, <1>2, <1>5 DEF RingOrdered, RingPublished
<1> QED BY <1>3, <1>4, <1>6 DEF RingOrdered

LEMMA RingCleared ==
    ASSUME NEW s, NEW ids, NEW h, NEW front, NEW held, NEW pub \in Publications, NEW b, NEW b2,
           NEW discarding, NEW out \in Outs, NEW more \in Outs, \A t \in Senders : out[t] <= more[t],
           NEW s2, NEW other, RingOrdered(s, ids, h, front, held, pub, b, discarding, out)
    PROVE  RingOrdered(s2, {}, other, other, {}, pub, b2, FALSE, more)
<1>1. \A m \in Msg : Out(m, out) => Out(m, more)
  BY OutMore
<1>2. \A k \in DOMAIN pub : pub[k].msg \in Msg
  BY PublicationType
<1>3. RingOrder(s2, {}, other, more) /\ HeldOrder(s2, {}, other, {}, more)
  BY DEF RingOrder, HeldOrder
<1>4. RingPublished(s2, {}, other, {}, pub, b2, FALSE, more)
  BY <1>1, <1>2 DEF RingOrdered, RingPublished
<1> QED BY <1>3, <1>4 DEF RingOrdered

-----------------------------------------------------------------------------
(* The stored messages keep the order while nothing disturbs the queue.    *)

HeldStored == {m \in InView : m.class = "stored"}
Boots == \A k \in DOMAIN published : published[k].boot <= boot
StoredOrdered ==
    RingOrdered(store, Occupied, HeadDone, head, HeldStored, published, boot,
                Discarding("stored"), OutNow)

\* The numbers of the messages that are stored, queued and in hand.
Numbered ==
    /\ \A id \in Occupied : store[id].seq < next_seq
    /\ \A c \in RamQueues : \A i \in DOMAIN queue[c] : queue[c][i].seq < next_seq
    /\ \A t \in Senders :
        /\ At(t, "count") => sender[t].msg.seq = next_seq
        /\ ~At(t, "idle") /\ ~At(t, "count") => sender[t].msg.seq < next_seq
        /\ ~At(t, "idle") /\ ~At(t, "moved_tail") =>
            \A id \in Occupied : store[id].seq < sender[t].msg.seq

\* Records and queued messages disappear, and the threads go on or return.
LEMMA NumberedLess ==
    ASSUME Numbered, UNCHANGED next_seq,
           \A id \in Occupied' : id \in Occupied /\ store'[id] = store[id],
           \A c \in RamQueues : \A i \in DOMAIN queue'[c] :
               \E j \in DOMAIN queue[c] : queue'[c][i] = queue[c][j],
           \A t \in Senders :
               \/ sender'[t] = sender[t]
               \/ At(t, "idle")'
               \/ /\ sender'[t].msg = sender[t].msg /\ ~At(t, "count")'
                  /\ ~At(t, "idle") /\ ~At(t, "count") /\ ~At(t, "moved_tail")
    PROVE  Numbered'
<1>1. \A id \in Occupied' : store'[id].seq < next_seq'
  BY DEF Numbered
<1>2. \A c \in RamQueues : \A i \in DOMAIN queue'[c] : queue'[c][i].seq < next_seq'
  BY DEF Numbered
<1>3. ASSUME NEW t \in Senders
      PROVE  /\ At(t, "count")' => sender'[t].msg.seq = next_seq'
             /\ ~At(t, "idle")' /\ ~At(t, "count")' => sender'[t].msg.seq < next_seq'
             /\ ~At(t, "idle")' /\ ~At(t, "moved_tail")' =>
                 \A id \in Occupied' : store'[id].seq < sender'[t].msg.seq
  <2>1. CASE sender'[t] = sender[t]
    BY <2>1 DEF Numbered, At
  <2>2. CASE At(t, "idle")'
    BY <2>2 DEF At
  <2>3. CASE /\ sender'[t].msg = sender[t].msg /\ ~At(t, "count")'
             /\ ~At(t, "idle") /\ ~At(t, "count") /\ ~At(t, "moved_tail")
    BY <2>3 DEF Numbered
  <2> QED BY <2>1, <2>2, <2>3
<1> QED BY <1>1, <1>2, <1>3 DEF Numbered

LEMMA TailIndexes ==
    ASSUME NEW q \in Seq(Msg), q # <<>>
    PROVE  \A i \in DOMAIN Tail(q) : \E j \in DOMAIN q : Tail(q)[i] = q[j]
<1>1. \A i \in DOMAIN Tail(q) : i + 1 \in DOMAIN q /\ Tail(q)[i] = q[i + 1]
  OBVIOUS
<1> QED BY <1>1

LEMMA InsertNumbered ==
    ASSUME TypeOK, InHand, Contiguous, Numbered, NEW t \in Senders, Insert(t), Undisturbed'
    PROVE  Numbered'
<1>1. Others(t) /\ Others(t)'
  BY OneInserts DEF Contiguous, Undisturbed
<1>2. /\ sender \in [Senders -> [pc : SenderPcs, msg : Msg \cup {NoMsg}]]
      /\ queue \in [RamQueues -> Seq(Msg)] /\ next_seq \in Nat
      /\ store \in [StoreIds -> Msg \cup {NoMsg}] /\ head \in StoreIds /\ tail \in StoreIds
  BY DEF TypeOK
<1>3. errors \in Nat /\ errors' = 0
  BY Flags DEF Undisturbed
<1>4. \A id \in Occupied : store[id] \in Msg
  BY <1>2 DEF Occupied
<1>5. ~At(t, "idle") => sender[t].msg \in Msg
  BY DEF InHand, Holds
<1>6. \A u \in Senders : u # t => sender'[u] = sender[u]
  BY <1>2 DEF Insert, Take, Count, PutRam, EvictRam, Push, MoveTail, EvictStored, MoveHead, SenderTo, Returned
<1> USE DEF flash, indexes
<1> DEFINE onWay == \/ At(t, "idle")'
                    \/ /\ sender'[t].msg = sender[t].msg /\ ~At(t, "count")'
                       /\ ~At(t, "idle") /\ ~At(t, "count") /\ ~At(t, "moved_tail")
\* The thread goes on, and at most removes something.
<1>7. ASSUME UNCHANGED next_seq, onWay, store' = store \/ store' = Deleted,
             \A c \in RamQueues : \A i \in DOMAIN queue'[c] :
                 \E j \in DOMAIN queue[c] : queue'[c][i] = queue[c][j]
      PROVE  Numbered'
  <2>1. \A id \in Occupied' : id \in Occupied /\ store'[id] = store[id]
    BY <1>2, <1>7 DEF Occupied, Deleted
  <2>2. \A u \in Senders : sender'[u] = sender[u] \/ (u = t /\ onWay)
    BY <1>6, <1>7
  <2> QED BY <1>7, <2>1, <2>2, NumberedLess
<1>8. UNCHANGED queue => \A c \in RamQueues : \A i \in DOMAIN queue'[c] :
                            \E j \in DOMAIN queue[c] : queue'[c][i] = queue[c][j]
  OBVIOUS
<1>9. ASSUME NEW pc \in {"evict", "reput", "moved_head", "moved_tail"}, SenderTo(t, pc),
             ~At(t, "idle") /\ ~At(t, "count") /\ ~At(t, "moved_tail")
      PROVE  onWay
  <2>1. sender'[t].pc = pc /\ sender'[t].msg = sender[t].msg
    BY <1>2, <1>9 DEF SenderTo
  <2> QED BY <1>9, <2>1 DEF At
<1>10. Returned(t) => onWay
  BY <1>2 DEF Returned, At, Idle
<1> HIDE DEF onWay
<1>11. ASSUME NEW c \in Range(PeekOrder), Take(t, c) PROVE Numbered'
  <2>1. /\ UNCHANGED <<store, queue, next_seq>> /\ sender'[t].pc = "count"
        /\ sender'[t].msg.seq = next_seq
    BY <1>2, <1>11 DEF Take
  <2>2. UNCHANGED Occupied
    BY <2>1 DEF Occupied
  <2>3. \A u \in Senders : u # t => At(u, "idle")'
    BY <1>1 DEF Others
  <2> QED BY <2>1, <2>2, <2>3 DEF Numbered, At
<1>12. CASE Count(t)
  <2>1. /\ UNCHANGED <<store, queue>> /\ At(t, "count") /\ sender'[t].pc = "put"
        /\ sender'[t].msg = sender[t].msg /\ next_seq' = sender[t].msg.seq + 1
    BY <1>2, <1>12 DEF Count, SenderTo
  <2>2. UNCHANGED Occupied /\ next_seq' = next_seq + 1
    BY <2>1 DEF Occupied, Numbered
  <2>3. \A id \in Occupied : store[id].seq < next_seq' /\ store[id].seq < next_seq
    BY <1>2, <1>4, <2>2 DEF Numbered, Msg
  <2>4. ASSUME NEW d \in RamQueues, NEW i \in DOMAIN queue[d] PROVE queue[d][i].seq < next_seq'
    <3>1. queue[d][i] \in Msg /\ queue[d][i].seq < next_seq
      BY <1>2 DEF Numbered
    <3> QED BY <1>2, <2>2, <3>1 DEF Msg
  <2>5. sender'[t].msg.seq = next_seq /\ next_seq < next_seq'
    BY <1>2, <2>1, <2>2 DEF Numbered
  <2>6. \A u \in Senders : u # t => At(u, "idle")'
    BY <1>1 DEF Others
  <2> QED BY <2>1, <2>2, <2>3, <2>4, <2>5, <2>6 DEF Numbered, At
<1>13. CASE PutRam(t)
  <2>0. /\ sender[t].msg \in Msg /\ sender[t].msg.class \in RamQueues
        /\ ~At(t, "idle") /\ ~At(t, "count") /\ ~At(t, "moved_tail") /\ UNCHANGED <<store, next_seq>>
    BY <1>5, <1>13 DEF PutRam, At
  <2>1. PICK m \in Msg, d \in RamQueues : m = sender[t].msg /\ d = m.class
    BY <2>0
  <2>2. CASE UNCHANGED queue /\ (Returned(t) \/ SenderTo(t, "evict"))
    BY <1>7, <1>8, <1>9, <1>10, <2>0, <2>2
  <2>3. CASE queue' = [queue EXCEPT ![d] = Append(@, m)] /\ Returned(t)
    <3>1. queue'[d] = Append(queue[d], m) /\ queue[d] \in Seq(Msg)
          /\ \A c \in RamQueues : c # d => queue'[c] = queue[c]
      BY <1>2, <2>3
    <3>2. m.seq < next_seq
      BY <2>0, <2>1 DEF Numbered
    <3>3. \A i \in DOMAIN queue'[d] : (i \in DOMAIN queue[d] /\ queue'[d][i] = queue[d][i]) \/ queue'[d][i] = m
      BY <3>1
    <3>4. \A c \in RamQueues : \A i \in DOMAIN queue'[c] : queue'[c][i].seq < next_seq
      BY <3>1, <3>2, <3>3 DEF Numbered
    <3>5. \A u \in Senders : At(u, "idle")'
      BY <1>1, <1>2, <2>3 DEF Others, Returned, At, Idle
    <3>6. UNCHANGED Occupied
      BY <2>0 DEF Occupied
    <3> QED BY <2>0, <3>4, <3>5, <3>6 DEF Numbered, At
  <2> QED BY <1>13, <2>1, <2>2, <2>3 DEF PutRam
<1>14. CASE EvictRam(t)
  <2>0. /\ sender[t].msg.class \in RamQueues
        /\ ~At(t, "idle") /\ ~At(t, "count") /\ ~At(t, "moved_tail") /\ UNCHANGED <<store, next_seq>>
    BY <1>14 DEF EvictRam, At
  <2>1. PICK d \in RamQueues : d = sender[t].msg.class
    BY <2>0
  <2>2. CASE UNCHANGED queue /\ Returned(t)
    BY <1>7, <1>8, <1>10, <2>0, <2>2
  <2>3. CASE queue[d] # <<>> /\ queue' = [queue EXCEPT ![d] = Tail(@)] /\ SenderTo(t, "reput")
    <3>1. queue'[d] = Tail(queue[d]) /\ queue[d] \in Seq(Msg)
          /\ \A c \in RamQueues : c # d => queue'[c] = queue[c]
      BY <1>2, <2>3
    <3>2. \A i \in DOMAIN queue'[d] : \E j \in DOMAIN queue[d] : queue'[d][i] = queue[d][j]
      BY <2>3, <3>1, TailIndexes
    <3>3. \A c \in RamQueues : \A i \in DOMAIN queue'[c] : \E j \in DOMAIN queue[c] : queue'[c][i] = queue[c][j]
      BY <3>1, <3>2
    <3> QED BY <1>7, <1>9, <2>0, <2>3, <3>3
  <2> QED BY <1>14, <2>1, <2>2, <2>3 DEF EvictRam
<1>15. CASE Push(t)
  <2>0. /\ sender[t].msg \in Msg /\ UNCHANGED <<queue, next_seq>>
        /\ ~At(t, "idle") /\ ~At(t, "count") /\ ~At(t, "moved_tail")
    BY <1>5, <1>15 DEF Push, At
  <2>1. CASE PushFails(sender[t].msg) /\ (Returned(t) \/ SenderTo(t, "evict"))
    <3>1. UNCHANGED store
      BY <1>3, <2>1 DEF PushFails, KvError
    <3> QED BY <1>7, <1>8, <1>9, <1>10, <2>0, <2>1, <3>1
  <2>2. CASE PushDone(sender[t].msg) /\ SenderTo(t, "moved_tail")
    <3>1. PICK m \in Msg : m = sender[t].msg
      BY <2>0
    <3>2. store' = [store EXCEPT ![Next1(tail)] = m] /\ sender'[t].msg = m /\ At(t, "moved_tail")'
      BY <1>2, <2>2, <3>1 DEF PushDone, SenderTo, At
    <3>3. m.seq < next_seq
      BY <2>0, <3>1 DEF Numbered
    <3>4. \A id \in Occupied' : store'[id] = m \/ (id \in Occupied /\ store'[id] = store[id])
      BY <1>2, <3>2 DEF Occupied
    <3>5. \A id \in Occupied' : store'[id].seq < next_seq
      BY <3>3, <3>4 DEF Numbered
    <3>6. \A u \in Senders : u # t => At(u, "idle")'
      BY <1>1 DEF Others
    <3> QED BY <2>0, <3>2, <3>3, <3>5, <3>6 DEF Numbered, At
  <2> QED BY <1>15, <2>1, <2>2 DEF Push
<1>16. CASE MoveTail(t)
  BY <1>7, <1>8, <1>10, <1>16 DEF MoveTail
<1>17. CASE EvictStored(t)
  <2>1. /\ UNCHANGED <<queue, next_seq>>
        /\ ~At(t, "idle") /\ ~At(t, "count") /\ ~At(t, "moved_tail")
        /\ SenderTo(t, "moved_head") \/ Returned(t)
        /\ store' = store \/ store' = Deleted
    BY <1>17 DEF EvictStored, At, DeleteHead
  <2> QED BY <1>7, <1>8, <1>9, <1>10, <2>1
<1>18. CASE MoveHead(t)
  <2>1. /\ UNCHANGED <<queue, next_seq, store>>
        /\ ~At(t, "idle") /\ ~At(t, "count") /\ ~At(t, "moved_tail") /\ SenderTo(t, "reput")
    BY <1>18 DEF MoveHead, At
  <2> QED BY <1>7, <1>8, <1>9, <2>1
<1> QED BY <1>11, <1>12, <1>13, <1>14, <1>15, <1>16, <1>17, <1>18 DEF Insert

LEMMA WorkerNumbered ==
    ASSUME TypeOK, Numbered, Progress \/ LookFails \/ PublishFails PROVE Numbered'
<1> USE DEF flash, indexes
<1>1. UNCHANGED <<next_seq, sender>>
  BY DEF Progress, StartPeek, Look, Publish, DiscardRam, DiscardStored, WorkerMovesHead,
         LookFails, PublishFails
<1>2. /\ queue \in [RamQueues -> Seq(Msg)] /\ head \in StoreIds
      /\ store \in [StoreIds -> Msg \cup {NoMsg}]
  BY DEF TypeOK
<1>3. store' = store \/ store' = Deleted
  BY DEF Progress, StartPeek, Look, Publish, DiscardRam, DiscardStored, WorkerMovesHead,
         LookFails, PublishFails, DeleteHead
<1>4. \A id \in Occupied' : id \in Occupied /\ store'[id] = store[id]
  BY <1>2, <1>3 DEF Occupied, Deleted
<1>5. \A c \in RamQueues : \A i \in DOMAIN queue'[c] : \E j \in DOMAIN queue[c] : queue'[c][i] = queue[c][j]
  <2>1. CASE UNCHANGED queue
    BY <2>1
  <2>2. CASE DiscardRam
    <3>1. PICK d \in RamQueues : queue' = [queue EXCEPT ![d] = IF @ = <<>> THEN @ ELSE Tail(@)]
      BY <2>2 DEF DiscardRam
    <3>2. \A c \in RamQueues : queue'[c] = queue[c] \/ (queue[c] # <<>> /\ queue'[c] = Tail(queue[c]))
      BY <1>2, <3>1
    <3>3. ASSUME NEW c \in RamQueues, NEW i \in DOMAIN queue'[c]
          PROVE  \E j \in DOMAIN queue[c] : queue'[c][i] = queue[c][j]
      <4>1. queue[c] \in Seq(Msg)
        BY <1>2
      <4>2. CASE queue'[c] = queue[c]
        BY <3>3, <4>2
      <4>3. CASE queue[c] # <<>> /\ queue'[c] = Tail(queue[c])
        BY <3>3, <4>1, <4>3, TailIndexes
      <4> QED BY <3>2, <4>2, <4>3
    <3> QED BY <3>3
  <2> QED BY <2>1, <2>2 DEF Progress, StartPeek, Look, Publish, DiscardStored, WorkerMovesHead,
                            LookFails, PublishFails
<1> QED BY <1>1, <1>4, <1>5, NumberedLess

LEMMA EnvironmentNumbered ==
    ASSUME TypeOK, Contiguous, StoredOrdered, Numbered,
           Connect \/ Disconnect \/ Reboot \/ Recreate \/ UNCHANGED vars
    PROVE  Numbered'
<1> USE DEF flash, indexes
<1>1. /\ queue \in [RamQueues -> Seq(Msg)] /\ store \in [StoreIds -> Msg \cup {NoMsg}]
  BY DEF TypeOK
<1>2. CASE Connect \/ Disconnect \/ UNCHANGED vars
  <2>1. UNCHANGED <<next_seq, sender, store>>
    BY <1>2 DEF Connect, Disconnect, vars
  <2>2. \A id \in Occupied' : id \in Occupied /\ store'[id] = store[id]
    BY <2>1 DEF Occupied
  <2>3. \A c \in RamQueues : queue'[c] = queue[c] \/ (queue[c] # <<>> /\ queue'[c] = Tail(queue[c]))
    BY <1>1, <1>2 DEF Connect, Disconnect, vars
  <2>4. ASSUME NEW c \in RamQueues, NEW i \in DOMAIN queue'[c]
        PROVE  \E j \in DOMAIN queue[c] : queue'[c][i] = queue[c][j]
    <3>1. queue[c] \in Seq(Msg)
      BY <1>1
    <3>2. CASE queue[c] # <<>> /\ queue'[c] = Tail(queue[c])
      <4>1. i + 1 \in DOMAIN queue[c] /\ queue'[c][i] = queue[c][i + 1]
        BY <2>4, <3>1, <3>2
      <4> QED BY <4>1
    <3> QED BY <2>3, <2>4, <3>2
  <2> QED BY <2>1, <2>2, <2>4, NumberedLess
<1>3. ASSUME NEW kept, Initialised(kept), store' = kept,
             \A id \in Occupied' : kept[id].seq < SeqAfter(kept[IndexesOf({i \in StoreIds : kept[i] # NoMsg}).tail])
      PROVE  Numbered'
  <2>1. /\ next_seq' = SeqAfter(kept[IndexesOf({i \in StoreIds : kept[i] # NoMsg}).tail])
        /\ queue' = [c \in RamQueues |-> <<>>] /\ sender' = [u \in Senders |-> Idle]
    BY <1>3 DEF Initialised
  <2>2. \A u \in Senders : At(u, "idle")'
    BY <2>1 DEF At, Idle
  <2>3. \A c \in RamQueues : DOMAIN queue'[c] = {}
    BY <2>1
  <2> QED BY <1>3, <2>1, <2>2, <2>3 DEF Numbered, At
<1>4. CASE Reboot
  <2>1. store' = store /\ Initialised(store)
    BY <1>4 DEF Reboot
  <2>2. InRing(Occupied, HeadDone, TailDone)
    BY DEF Contiguous
  <2>3. CASE Occupied = {}
    <3>1. Occupied' = {}
      BY <2>1, <2>3 DEF Occupied
    <3> QED BY <1>3, <2>1, <3>1
  <2>4. CASE Occupied # {}
    <3>1. IndexesOf(Occupied).tail = TailDone
      BY <2>2, <2>4, RingIndexes
    <3>2. TailDone \in Occupied /\ \A id \in Occupied : id # TailDone => Dist(HeadDone, id) < Dist(HeadDone, TailDone)
      BY <2>2, <2>4, RingLast
    <3>3. \A id \in Occupied : id # TailDone => store[id].seq < store[TailDone].seq
      BY <3>2 DEF StoredOrdered, RingOrdered, RingOrder
    <3>4. \A id \in Occupied : store[id] \in Msg /\ store[id] # NoMsg
      BY <1>1 DEF Occupied
    <3>5. SeqAfter(store[TailDone]) = store[TailDone].seq + 1
      BY <3>2, <3>4 DEF SeqAfter
    <3>6. \A id \in Occupied : store[id].seq < SeqAfter(store[TailDone])
      BY <3>2, <3>3, <3>4, <3>5 DEF Msg
    <3>7. Occupied' = Occupied /\ {i \in StoreIds : store[i] # NoMsg} = Occupied
      BY <2>1 DEF Occupied
    <3> QED BY <1>3, <2>1, <3>1, <3>6, <3>7
  <2> QED BY <2>3, <2>4
<1>5. CASE Recreate
  <2>1. Occupied' = {} /\ Initialised(store')
    BY <1>5, RecreateClears DEF Contiguous
  <2> QED BY <1>3, <2>1
<1> QED BY <1>2, <1>4, <1>5

LEMMA StoredTypes ==
    ASSUME TypeOK, InHand
    PROVE  /\ OutNow \in Outs /\ HeldStored \in SUBSET Msg /\ published \in Publications
           /\ boot \in Nat /\ Discarding("stored") \in BOOLEAN
           /\ \A id \in Occupied : store[id] \in Msg
<1>1. InView \in SUBSET Msg /\ published \in Publications
  BY ViewType
<1>2. boot \in 0 .. MaxFaults /\ store \in [StoreIds -> Msg \cup {NoMsg}]
  BY DEF TypeOK
<1>3. boot \in Nat
  BY <1>2, Constants
<1>4. \A id \in Occupied : store[id] \in Msg
  BY <1>2 DEF Occupied
<1> QED BY <1>1, <1>3, <1>4, OutType DEF HeldStored, Discarding

LEMMA OutTypeNext == ASSUME InHand' PROVE OutNow' \in Outs
<1>1. \A t \in Senders : sends'[t] \in Nat
  BY DEF InHand
<1> QED BY <1>1 DEF OutNow, Outs

\* What is known of the ring after a step, but for what is out of the hands.
LEMMA StoredGrows ==
    ASSUME TypeOK, InHand, InHand', [Next]_vars, UNCHANGED <<published, boot>>,
           \A id \in Occupied' : store'[id] \in Msg,
           NEW held \in SUBSET Msg, NEW discarding \in BOOLEAN,
           RingOrdered(store', Occupied', HeadDone', head', held, published, boot, discarding, OutNow),
           HeldStored' \subseteq held, discarding => Discarding("stored")'
    PROVE  StoredOrdered'
<1>1. OutNow \in Outs /\ published \in Publications /\ boot \in Nat
  BY StoredTypes
<1>2. OutNow' \in Outs /\ \A t \in Senders : OutNow[t] <= OutNow'[t]
  BY OutTypeNext, OutGrows
<1>3. HeldStored' \in SUBSET held /\ Discarding("stored")' \in BOOLEAN
  BY DEF Discarding
<1> HIDE DEF OutNow, HeldStored, Discarding
<1>4. PICK s, ids, h, front, less, still, more :
        /\ s = store' /\ ids = Occupied' /\ h = HeadDone' /\ front = head'
        /\ less = HeldStored' /\ still = Discarding("stored")' /\ more = OutNow'
  OBVIOUS
<1>5. RingOrdered(s, ids, h, front, held, published, boot, discarding, OutNow)
  BY <1>4
<1>6. /\ less \in SUBSET held /\ still \in BOOLEAN /\ more \in Outs /\ (discarding => still)
      /\ \A t \in Senders : OutNow[t] <= more[t]
      /\ \A id \in ids : s[id] \in Msg
  BY <1>2, <1>3, <1>4
<1>7. RingOrdered(s, ids, h, front, less, published, boot, still, more)
  BY <1>1, <1>5, <1>6, RingStays
<1> QED BY <1>4, <1>7 DEF StoredOrdered

LEMMA StoredKept ==
    ASSUME TypeOK, InHand, InHand', [Next]_vars, StoredOrdered,
           UNCHANGED <<published, boot, store, head, HeadDone>>,
           HeldStored' \subseteq HeldStored, Discarding("stored") => Discarding("stored")'
    PROVE  StoredOrdered'
<1>1. HeldStored \in SUBSET Msg /\ Discarding("stored") \in BOOLEAN
      /\ \A id \in Occupied : store[id] \in Msg
  BY StoredTypes
<1>2. UNCHANGED Occupied
  BY DEF Occupied
<1>3. RingOrdered(store', Occupied', HeadDone', head', HeldStored, published, boot, Discarding("stored"), OutNow)
  BY <1>2 DEF StoredOrdered
<1>4. \A id \in Occupied' : store'[id] \in Msg
  BY <1>1, <1>2
<1> HIDE DEF HeldStored, Discarding
<1> QED BY <1>1, <1>3, <1>4, StoredGrows

LEMMA InsertStoredOrdered ==
    ASSUME TypeOK, InHand, TypeOK', InHand', [Next]_vars, Contiguous, Numbered, StoredOrdered,
           NEW t \in Senders, Insert(t), Undisturbed'
    PROVE  StoredOrdered'
<1>1. Others(t) /\ Others(t)'
  BY OneInserts DEF Contiguous, Undisturbed
<1>2. /\ HeadDone = IF AtW("moved_head") \/ At(t, "moved_head") THEN Next1(head) ELSE head
      /\ TailDone = IF At(t, "moved_tail") THEN Next1(tail) ELSE tail
      /\ AtW("moved_head") \/ At(t, "moved_head") => store[head] = NoMsg
      /\ InRing(Occupied, HeadDone, TailDone)
      /\ ~(AtW("moved_head") /\ At(t, "moved_head"))
  BY <1>1, DoneNow DEF Contiguous
<1>3. HeadDone' = IF AtW("moved_head")' \/ At(t, "moved_head")' THEN Next1(head)' ELSE head'
  BY <1>1, DoneNext
<1>4. /\ sender \in [Senders -> [pc : SenderPcs, msg : Msg \cup {NoMsg}]]
      /\ store \in [StoreIds -> Msg \cup {NoMsg}] /\ head \in StoreIds /\ tail \in StoreIds
  BY DEF TypeOK
<1>5. UNCHANGED <<worker, published, boot>> /\ (AtW("moved_head")' <=> AtW("moved_head"))
  BY DEF Insert, Take, Count, PutRam, EvictRam, Push, MoveTail, EvictStored, MoveHead, AtW
<1>6. UNCHANGED HeldStored /\ UNCHANGED Discarding("stored")
  BY <1>5 DEF HeldStored, InView, Discarding, AtW
<1>7. errors \in Nat /\ errors' = 0
  BY Flags DEF Undisturbed
<1>8. /\ HeldStored \in SUBSET Msg /\ Discarding("stored") \in BOOLEAN /\ OutNow \in Outs
      /\ published \in Publications /\ boot \in Nat /\ \A id \in Occupied : store[id] \in Msg
  BY StoredTypes
<1>9. RingOrdered(store, Occupied, HeadDone, head, HeldStored, published, boot, Discarding("stored"), OutNow)
  BY DEF StoredOrdered
<1> USE DEF flash, indexes
<1>10. CASE UNCHANGED <<head, store>> /\ ~At(t, "moved_head") /\ ~At(t, "moved_head")'
  <2>1. UNCHANGED HeadDone
    BY <1>2, <1>3, <1>5, <1>10 DEF Next1
  <2> QED BY <1>5, <1>6, <1>10, <2>1, StoredKept
<1>11. CASE \E c \in Range(PeekOrder) : Take(t, c)
  BY <1>4, <1>10, <1>11 DEF Take, At
<1>12. CASE Count(t)
  BY <1>4, <1>10, <1>12 DEF Count, At, SenderTo
<1>13. CASE PutRam(t)
  BY <1>4, <1>10, <1>13 DEF PutRam, At, SenderTo, Returned, Idle
<1>14. CASE EvictRam(t)
  BY <1>4, <1>10, <1>14 DEF EvictRam, At, SenderTo, Returned, Idle
<1>15. CASE MoveTail(t)
  BY <1>4, <1>10, <1>15 DEF MoveTail, At, Returned, Idle
<1>16. CASE Push(t)
  <2>0. /\ UNCHANGED <<head, sends>> /\ ~At(t, "moved_head") /\ ~At(t, "moved_tail") /\ ~At(t, "idle") /\ ~At(t, "count")
    BY <1>16 DEF Push, At, calls
  <2>1. CASE PushFails(sender[t].msg) /\ (Returned(t) \/ SenderTo(t, "evict"))
    <3>1. UNCHANGED store
      BY <1>7, <2>1 DEF PushFails, KvError
    <3>2. ~At(t, "moved_head")'
      BY <1>4, <2>1 DEF At, SenderTo, Returned, Idle
    <3> QED BY <1>10, <2>0, <3>1, <3>2
  <2>2. CASE PushDone(sender[t].msg) /\ SenderTo(t, "moved_tail")
    <3>1. sender[t].msg \in Msg /\ sender[t].msg.by = t /\ sender[t].msg.nr = sends[t]
      BY <2>0 DEF InHand, Holds
    <3>2. PICK x \in Msg : x = sender[t].msg
      BY <3>1
    <3>3. TailDone = tail /\ HeadDone' = HeadDone /\ At(t, "moved_tail")'
      BY <1>2, <1>3, <1>4, <1>5, <2>0, <2>2 DEF At, SenderTo, Next1
    <3>4. store' = [store EXCEPT ![Next1(tail)] = x]
      BY <2>2, <3>2 DEF PushDone
    <3>5. Next1(tail) \notin Occupied /\ Next1(tail) \in StoreIds
      BY <1>2, <3>3, RingFree
    <3>6. /\ store'[Next1(tail)] = x /\ \A id \in Occupied : store'[id] = store[id]
          /\ Occupied' = Occupied \cup {Next1(tail)}
      BY <1>4, <3>4, <3>5, NoMsgAssumption DEF Occupied
    <3>7. OutNow[t] < x.nr /\ x.nr <= OutNow'[t] /\ x.by = t
      <4>1. OutNow[t] = sends[t] - 1 /\ OutNow'[t] = sends[t] /\ sends[t] \in Nat
        BY <2>0, <3>3 DEF OutNow, At, InHand
      <4> QED BY <3>1, <3>2, <4>1
    <3>8. \A id \in Occupied : store[id].seq < x.seq
      BY <2>0, <3>2 DEF Numbered
    <3>9. OutNow' \in Outs /\ \A u \in Senders : OutNow[u] <= OutNow'[u]
      BY OutTypeNext, OutGrows
    <3> HIDE DEF OutNow, HeldStored, Discarding
    <3>10. PICK s2, more : s2 = store' /\ more = OutNow'
      OBVIOUS
    <3>11. RingOrdered(s2, Occupied \cup {Next1(tail)}, HeadDone, head, HeldStored, published, boot,
                       Discarding("stored"), more)
      <4>1. PICK d \in BOOLEAN : d = Discarding("stored")
        BY <1>8
      <4>2. InRing(Occupied, HeadDone, tail)
        BY <1>2, <3>3
      <4>3. RingOrdered(store, Occupied, HeadDone, head, HeldStored, published, boot, d, OutNow)
        BY <1>9, <4>1
      <4>4. /\ s2[Next1(tail)] = x /\ \A id \in Occupied : s2[id] = store[id]
            /\ more \in Outs /\ \A u \in Senders : OutNow[u] <= more[u]
            /\ OutNow[x.by] < x.nr /\ x.nr <= more[x.by]
        BY <3>6, <3>7, <3>9, <3>10
      <4>5. RingOrdered(s2, Occupied \cup {Next1(tail)}, HeadDone, head, HeldStored, published, boot, d, more)
        BY <1>8, <3>8, <4>2, <4>3, <4>4, RingPushed
      <4> QED BY <4>1, <4>5
    <3>12. UNCHANGED <<head, HeadDone, published, boot, HeldStored, Discarding("stored")>>
      BY <1>5, <1>6, <2>0, <3>3
    <3> QED BY <3>6, <3>10, <3>11, <3>12 DEF StoredOrdered
  <2> QED BY <1>16, <2>1, <2>2 DEF Push
<1>17. CASE EvictStored(t)
  <2>0. UNCHANGED head /\ ~At(t, "moved_head")
    BY <1>17 DEF EvictStored, At
  <2>1. CASE DeleteHead(FALSE) /\ Returned(t)
    <3>1. UNCHANGED store
      BY <1>7, <2>1 DEF DeleteHead, KvError
    <3>2. ~At(t, "moved_head")'
      BY <1>4, <2>1 DEF At, Returned, Idle
    <3> QED BY <1>10, <2>0, <3>1, <3>2
  <2>2. CASE DeleteHead(TRUE) /\ SenderTo(t, "moved_head")
    <3>1. store[head] # NoMsg /\ store' = [store EXCEPT ![head] = NoMsg]
      BY <2>2 DEF DeleteHead, Deleted
    <3>2. ~AtW("moved_head") /\ At(t, "moved_head")'
      BY <1>2, <1>4, <2>2, <3>1 DEF At, SenderTo
    <3>3. HeadDone = head /\ HeadDone' = Next1(head)
      BY <1>2, <1>3, <2>0, <3>2 DEF Next1
    <3>4. Occupied' = Occupied \ {head} /\ head \in Occupied /\ \A id \in Occupied \ {head} : store'[id] = store[id]
      BY <1>4, <3>1 DEF Occupied
    <3>5. PICK s2 : s2 = store'
      OBVIOUS
    <3> HIDE DEF OutNow, HeldStored, Discarding
    <3>6. RingOrdered(s2, Occupied \ {head}, Next1(head), head, HeldStored, published, boot,
                      Discarding("stored"), OutNow)
      BY <1>2, <1>9, <3>3, <3>4, <3>5, RingDeleted
    <3>7. \A id \in Occupied' : store'[id] \in Msg
      BY <1>8, <3>4
    <3> QED BY <1>5, <1>6, <1>8, <2>0, <3>3, <3>4, <3>5, <3>6, <3>7, StoredGrows
  <2> QED BY <1>17, <2>1, <2>2 DEF EvictStored
<1>18. CASE MoveHead(t)
  <2>1. UNCHANGED store /\ head' = Next1(head) /\ At(t, "moved_head") /\ ~At(t, "moved_head")'
    BY <1>4, <1>18 DEF MoveHead, At, SenderTo
  <2>2. HeadDone' = HeadDone /\ head \notin Occupied /\ Occupied' = Occupied
    BY <1>2, <1>3, <1>5, <2>1 DEF Occupied
  <2> HIDE DEF OutNow, HeldStored, Discarding
  <2>3. PICK other : other = head'
    OBVIOUS
  <2>4. RingOrdered(store, Occupied, HeadDone, other, HeldStored, published, boot, Discarding("stored"), OutNow)
    BY <1>9, <2>2, RingPast
  <2>5. \A id \in Occupied' : store'[id] \in Msg
    BY <1>8, <2>1, <2>2
  <2> QED BY <1>5, <1>6, <1>8, <2>1, <2>2, <2>3, <2>4, <2>5, StoredGrows
<1> QED BY <1>11, <1>12, <1>13, <1>14, <1>15, <1>16, <1>17, <1>18 DEF Insert


LEMMA WorkerStoredOrdered ==
    ASSUME TypeOK, InHand, TypeOK', InHand', [Next]_vars, Contiguous, Placed, Placed', StoredOrdered,
           Progress \/ LookFails \/ PublishFails, Undisturbed'
    PROVE  StoredOrdered'
<1> USE DEF flash, indexes
<1>1. UNCHANGED <<sender, tail, boot, sends>>
  BY DEF Progress, StartPeek, Look, Publish, DiscardRam, DiscardStored, WorkerMovesHead,
         LookFails, PublishFails, calls
<1>2. /\ store \in [StoreIds -> Msg \cup {NoMsg}] /\ head \in StoreIds
      /\ worker \in [pc : WorkerPcs, seen : SUBSET Msg, msg : Msg \cup {NoMsg}]
  BY DEF TypeOK
<1>3. errors \in Nat /\ errors' = 0
  BY Flags DEF Undisturbed
<1> DEFINE evicting == \E t \in Senders : At(t, "moved_head")
<1>4. /\ (\E t \in Senders : At(t, "moved_head")') <=> evicting
      /\ HeadDone' = IF AtW("moved_head")' \/ evicting THEN Next1(head)' ELSE head'
  BY <1>1 DEF At, HeadDone, Next1
<1>5. /\ HeadDone = IF AtW("moved_head") \/ evicting THEN Next1(head) ELSE head
      /\ ~(AtW("moved_head") /\ evicting)
      /\ AtW("moved_head") \/ evicting => store[head] = NoMsg
      /\ InRing(Occupied, HeadDone, TailDone)
  BY DEF Contiguous, HeadDone
<1> HIDE DEF evicting
<1>6. /\ HeldStored \in SUBSET Msg /\ OutNow \in Outs /\ published \in Publications
      /\ boot \in Nat /\ boot \in 0 .. MaxFaults /\ \A id \in Occupied : store[id] \in Msg
  BY StoredTypes DEF TypeOK
<1>7. RingOrdered(store, Occupied, HeadDone, head, HeldStored, published, boot, Discarding("stored"), OutNow)
  BY DEF StoredOrdered
<1>8. /\ AtW("held") => HeldStored = {m \in {worker.msg} : m.class = "stored"}
      /\ ~AtW("held") => HeldStored = {}
  <2>1. \A m \in worker.seen : m.class # "stored"
    BY DEF Placed, RamQueues
  <2> QED BY <2>1 DEF HeldStored, InView, Placed
<1>9. ~AtW("held")' => HeldStored' = {}
  <2>1. \A m \in worker'.seen : m.class # "stored"
    BY DEF Placed, RamQueues
  <2> QED BY <2>1 DEF HeldStored, InView
\* The store is as it was, and no stored message comes into view.
<1>10. CASE /\ UNCHANGED <<head, store, published>> /\ ~AtW("moved_head") /\ ~AtW("moved_head")'
            /\ HeldStored' \subseteq HeldStored /\ ~Discarding("stored")
  <2>1. UNCHANGED HeadDone
    BY <1>4, <1>5, <1>10 DEF Next1
  <2> QED BY <1>1, <1>10, <2>1, StoredKept
<1>11. CASE StartPeek
  BY <1>9, <1>10, <1>11 DEF StartPeek, AtW, Looping, Discarding
<1>12. CASE LookFails
  BY <1>3, <1>12 DEF LookFails, KvError
<1>13. CASE PublishFails
  BY <1>9, <1>10, <1>13 DEF PublishFails, AtW, Looping, Discarding
<1>14. CASE DiscardRam
  <2>1. ~Discarding("stored")
    BY <1>14 DEF DiscardRam, Discarding, RamQueues
  <2> QED BY <1>9, <1>10, <1>14, <2>1 DEF DiscardRam, AtW, Looping
<1>15. ASSUME NEW n \in 1 .. 4, Look(n) PROVE StoredOrdered'
  <2> DEFINE d == PeekOrder[n]
             seen == worker.seen \cup FrontOf(d)
  <2>1. /\ AtW(PeekPcs[n]) /\ UNCHANGED <<head, store, published>>
        /\ n < 4 => worker' = [worker EXCEPT !.pc = AfterPeek(n), !.seen = seen]
        /\ n >= 4 /\ seen = {} => worker' = Looping
        /\ n >= 4 /\ seen # {} => worker' = [pc |-> "held", seen |-> {}, msg |-> Oldest(seen)]
    BY <1>15 DEF Look
  <2>2. PeekPcs[n] \in {"peek1", "peek2", "peek3", "peek4"} /\ d \in Range(PeekOrder)
        /\ (n = 4 => d = "stored")
    BY DEF PeekPcs, PeekOrder, Range
  <2>3. ~AtW("discard") /\ ~AtW("held") /\ ~AtW("moved_head") /\ ~Discarding("stored") /\ HeldStored = {}
    BY <1>8, <2>1, <2>2 DEF AtW, Discarding
  <2>4. CASE n \in 1 .. 3
    <3>1. AfterPeek(n) \in {"peek2", "peek3", "peek4"}
      BY <2>4 DEF AfterPeek, PeekPcs
    <3>2. worker'.pc = AfterPeek(n)
      <4>1. worker' = [worker EXCEPT !.pc = AfterPeek(n), !.seen = seen]
        BY <2>1, <2>4
      <4> HIDE DEF seen
      <4> QED BY <1>2, <4>1
    <3>3. ~AtW("moved_head")' /\ ~AtW("held")'
      BY <3>1, <3>2 DEF AtW
    <3> QED BY <1>9, <1>10, <2>1, <2>3, <3>3
  <2>5. CASE n = 4 /\ seen = {}
    <3>1. ~AtW("moved_head")' /\ ~AtW("held")'
      BY <2>1, <2>5 DEF AtW, Looping
    <3> QED BY <1>9, <1>10, <2>1, <2>3, <3>1
  <2>6. CASE n = 4 /\ seen # {}
    <3>1. worker' = [pc |-> "held", seen |-> {}, msg |-> Oldest(seen)]
      BY <2>1, <2>6
    <3>2. AtW("held")' /\ ~AtW("moved_head")' /\ worker'.seen = {} /\ worker'.msg = Oldest(seen)
      BY <3>1 DEF AtW
    <3>3. HeldStored' = {m \in {Oldest(seen)} : m.class = "stored"}
      BY <3>2 DEF HeldStored, InView
    <3>4. Oldest(seen) \in seen
      <4>1. seen \in SUBSET Msg
        BY <1>2, <2>2, FrontType, TypeParts DEF Rest
      <4> QED BY <2>6, <4>1, OldestExists
    <3>5. CASE Oldest(seen).class # "stored"
      BY <1>10, <2>1, <2>3, <3>2, <3>3, <3>5
    <3>6. CASE Oldest(seen).class = "stored"
      <4>1. Oldest(seen) \in FrontOf("stored")
        BY <2>2, <2>6, <3>4, <3>6 DEF Placed, RamQueues
      <4>2. Oldest(seen) = store[head] /\ store[head] # NoMsg
        BY <4>1 DEF FrontOf
      <4>3. head \in Occupied /\ HeadDone = head /\ HeadDone' = head /\ UNCHANGED Occupied
        BY <1>2, <1>4, <1>5, <2>1, <2>3, <3>2, <4>2 DEF Occupied, Next1
      <4>4. Discarding("stored") = FALSE
        BY <2>3 DEF Discarding
      <4> HIDE DEF OutNow, HeldStored, Discarding
      <4>5. RingOrdered(store, Occupied, head, head, {}, published, boot, FALSE, OutNow)
        BY <1>7, <2>3, <4>3, <4>4
      <4>6. InRing(Occupied, head, TailDone)
        BY <1>5, <4>3
      <4>7. RingOrdered(store, Occupied, head, head, {store[head]}, published, boot, FALSE, OutNow)
        BY <1>6, <4>3, <4>5, <4>6, RingHeld
      <4>8. HeldStored' \subseteq {store[head]} /\ store[head] \in Msg
        BY <1>6, <3>3, <4>2, <4>3
      <4>9. PICK held \in SUBSET Msg, no \in BOOLEAN : held = {store[head]} /\ no = FALSE
        BY <4>8
      <4>10. RingOrdered(store', Occupied', HeadDone', head', held, published, boot, no, OutNow)
        BY <2>1, <4>3, <4>7, <4>9
      <4>11. \A id \in Occupied' : store'[id] \in Msg
        BY <1>6, <2>1, <4>3
      <4> QED BY <1>1, <2>1, <4>8, <4>9, <4>10, <4>11, StoredGrows
    <3> QED BY <3>5, <3>6
  <2>7. n \in 1 .. 3 \/ n = 4
    OBVIOUS
  <2> QED BY <2>4, <2>5, <2>6, <2>7
<1>16. CASE Publish
  <2>1. /\ AtW("held") /\ worker.msg \in Msg /\ UNCHANGED <<head, store>>
        /\ published' = Append(published, [msg |-> worker.msg, boot |-> boot])
        /\ worker' = [worker EXCEPT !.pc = "discard"]
    BY <1>16 DEF Publish, InHand
  <2>2. PICK m \in Msg, b \in 0 .. MaxFaults : m = worker.msg /\ b = boot
    BY <1>6, <2>1
  <2>3. ~AtW("discard") /\ AtW("discard")' /\ worker'.msg = m /\ ~AtW("held")' /\ ~AtW("moved_head") /\ ~AtW("moved_head")'
    BY <1>2, <2>1, <2>2 DEF AtW
  <2>4. UNCHANGED <<HeadDone, Occupied>>
    BY <1>4, <1>5, <2>1, <2>3 DEF Occupied, Next1
  <2>5. Discarding("stored") = FALSE /\ Discarding("stored")' = (m.class = "stored")
    BY <2>3 DEF Discarding
  <2>6. m.class = "stored" => m \in HeldStored
    BY <1>8, <2>1, <2>2
  <2>7. UNCHANGED OutNow /\ HeldStored' = {}
    BY <1>1, <1>9, <2>3 DEF OutNow, At
  <2> HIDE DEF OutNow, HeldStored, Discarding
  <2>8. RingOrdered(store, Occupied, HeadDone, head, HeldStored, published, b, FALSE, OutNow)
    BY <1>7, <2>2, <2>5
  <2>9. RingOrdered(store, Occupied, HeadDone, head, {}, Append(published, [msg |-> m, boot |-> b]), b,
                    m.class = "stored", OutNow)
    BY <1>6, <2>6, <2>8, RingPublishes
  <2> QED BY <1>1, <2>1, <2>2, <2>4, <2>5, <2>7, <2>9 DEF StoredOrdered
<1>17. CASE DiscardStored
  <2>1. UNCHANGED <<head, published>> /\ ~AtW("moved_head") /\ ~AtW("held") /\ HeldStored = {}
    BY <1>8, <1>17 DEF DiscardStored, AtW
  <2>2. CASE DeleteHead(TRUE) /\ worker' = [Looping EXCEPT !.pc = "moved_head"]
    <3>1. store[head] # NoMsg /\ store' = [store EXCEPT ![head] = NoMsg]
      BY <2>2 DEF DeleteHead, Deleted
    <3>2. ~evicting /\ AtW("moved_head")' /\ ~AtW("held")'
      BY <1>5, <2>2, <3>1 DEF AtW, Looping
    <3>3. HeadDone = head /\ HeadDone' = Next1(head)
      BY <1>4, <1>5, <2>1, <3>2 DEF Next1
    <3>4. Occupied' = Occupied \ {head} /\ head \in Occupied /\ \A id \in Occupied \ {head} : store'[id] = store[id]
      BY <1>2, <3>1 DEF Occupied
    <3>5. PICK s2 : s2 = store'
      OBVIOUS
    <3>10. PICK no \in BOOLEAN : no = FALSE
      OBVIOUS
    <3>6. HeldStored' \subseteq HeldStored
      BY <1>9, <3>2
    <3> HIDE DEF OutNow, HeldStored, Discarding
    <3>7. RingOrdered(s2, Occupied \ {head}, Next1(head), head, HeldStored, published, boot, no, OutNow)
      BY <1>5, <1>7, <3>3, <3>4, <3>5, <3>10, RingDeleted
    <3>8. \A id \in Occupied' : store'[id] \in Msg
      BY <1>6, <3>4
    <3>9. RingOrdered(store', Occupied', HeadDone', head', HeldStored, published, boot, no, OutNow)
      BY <2>1, <3>3, <3>4, <3>5, <3>7, <3>10
    <3> QED BY <1>1, <1>6, <2>1, <3>6, <3>8, <3>9, <3>10, StoredGrows
  <2>3. CASE DeleteHead(FALSE) /\ worker' = Looping
    <3>1. UNCHANGED store /\ store[head] = NoMsg
      BY <1>3, <2>3 DEF DeleteHead, KvError
    <3>2. ~AtW("moved_head")' /\ ~AtW("held")'
      BY <2>3 DEF AtW, Looping
    <3>3. UNCHANGED <<HeadDone, Occupied>> /\ head \notin Occupied
      BY <1>4, <1>5, <2>1, <3>1, <3>2 DEF Occupied, Next1
    <3>4. PICK no \in BOOLEAN : no = FALSE
      OBVIOUS
    <3>5. HeldStored' \subseteq HeldStored
      BY <1>9, <3>2
    <3> HIDE DEF OutNow, HeldStored, Discarding
    <3>6. RingOrdered(store, Occupied, HeadDone, head, HeldStored, published, boot, no, OutNow)
      BY <1>7, <3>3, RingPast
    <3>7. RingOrdered(store', Occupied', HeadDone', head', HeldStored, published, boot, no, OutNow)
      BY <2>1, <3>1, <3>3, <3>6
    <3>8. \A id \in Occupied' : store'[id] \in Msg
      BY <1>6, <3>1, <3>3
    <3> QED BY <1>1, <1>6, <2>1, <3>4, <3>5, <3>7, <3>8, StoredGrows
  <2> QED BY <1>17, <2>2, <2>3 DEF DiscardStored
<1>18. CASE WorkerMovesHead
  <2>1. head' = Next1(head) /\ UNCHANGED <<store, published>> /\ AtW("moved_head") /\ ~AtW("moved_head")'
        /\ ~AtW("held")'
    BY <1>18 DEF WorkerMovesHead, AtW, Looping
  <2>2. ~evicting /\ UNCHANGED <<Occupied, HeadDone>> /\ head \notin Occupied
    BY <1>4, <1>5, <2>1 DEF Occupied
  <2>3. PICK other : other = head'
    OBVIOUS
  <2>8. PICK no \in BOOLEAN : no = FALSE
    OBVIOUS
  <2>4. HeldStored' \subseteq HeldStored
    BY <1>9, <2>1
  <2> HIDE DEF OutNow, HeldStored, Discarding
  <2>5. RingOrdered(store, Occupied, HeadDone, other, HeldStored, published, boot, no, OutNow)
    BY <1>7, <2>2, <2>8, RingPast
  <2>6. RingOrdered(store', Occupied', HeadDone', head', HeldStored, published, boot, no, OutNow)
    BY <2>1, <2>2, <2>3, <2>5, <2>8
  <2>7. \A id \in Occupied' : store'[id] \in Msg
    BY <1>6, <2>1, <2>2
  <2> QED BY <1>1, <1>6, <2>1, <2>4, <2>6, <2>7, <2>8, StoredGrows
<1> QED BY <1>11, <1>12, <1>13, <1>14, <1>15, <1>16, <1>17, <1>18 DEF Progress

LEMMA EnvironmentStoredOrdered ==
    ASSUME TypeOK, InHand, TypeOK', InHand', [Next]_vars, Contiguous, StoredOrdered, Boots,
           Connect \/ Disconnect \/ Reboot \/ Recreate \/ UNCHANGED vars
    PROVE  StoredOrdered'
<1> USE DEF flash, indexes
<1>1. /\ HeldStored \in SUBSET Msg /\ OutNow \in Outs /\ published \in Publications
      /\ boot \in Nat /\ Discarding("stored") \in BOOLEAN /\ \A id \in Occupied : store[id] \in Msg
  BY StoredTypes
<1>2. RingOrdered(store, Occupied, HeadDone, head, HeldStored, published, boot, Discarding("stored"), OutNow)
  BY DEF StoredOrdered
<1>3. OutNow' \in Outs /\ \A t \in Senders : OutNow[t] <= OutNow'[t]
  BY OutTypeNext, OutGrows
<1>4. InRing(Occupied, HeadDone, TailDone)
  BY DEF Contiguous
<1>5. CASE Connect \/ Disconnect \/ UNCHANGED vars
  <2>1. UNCHANGED <<published, boot, store, head, worker, sender>>
    BY <1>5 DEF Connect, Disconnect, vars
  <2>2. UNCHANGED <<HeadDone, HeldStored, Discarding("stored")>>
    BY <2>1 DEF HeadDone, Next1, At, AtW, HeldStored, InView, Discarding
  <2> QED BY <2>1, <2>2, StoredKept
<1>6. ASSUME Initialised(store'), UNCHANGED published
      PROVE  /\ HeadDone' = head' /\ HeldStored' = {} /\ Discarding("stored")' = FALSE
             /\ Occupied' = {i \in StoreIds : store'[i] # NoMsg} /\ head' = IndexesOf(Occupied').head
  <2>1. /\ sender' = [u \in Senders |-> Idle] /\ worker' = Looping
        /\ head' = IndexesOf({i \in StoreIds : store'[i] # NoMsg}).head
    BY <1>6 DEF Initialised
  <2>2. ~AtW("moved_head")' /\ \A u \in Senders : ~At(u, "moved_head")'
    BY <2>1 DEF AtW, At, Idle, Looping
  <2>3. HeldStored' = {} /\ Discarding("stored")' = FALSE
    BY <2>1 DEF HeldStored, InView, Discarding, AtW, Looping
  <2> QED BY <2>1, <2>2, <2>3 DEF HeadDone, Occupied
<1>7. CASE Reboot
  <2>1. store' = store /\ Initialised(store') /\ UNCHANGED published /\ boot' = boot + 1
    BY <1>7 DEF Reboot
  <2>2. Occupied' = Occupied
    BY <2>1 DEF Occupied
  <2>3. Occupied # {} => head' = HeadDone
    BY <1>4, <1>6, <2>1, <2>2, RingIndexes
  <2>4. head \in Occupied => head = HeadDone
    BY DEF Contiguous, HeadDone, Occupied
  <2>5. \A k \in DOMAIN published : published[k].boot <= boot
    BY DEF Boots
  <2>6. PICK other, more : other = head' /\ more = OutNow'
    OBVIOUS
  <2>7. Occupied # {} => other = HeadDone
    BY <2>3, <2>6
  <2>8. more \in Outs /\ \A t \in Senders : OutNow[t] <= more[t]
    BY <1>3, <2>6
  <2> HIDE DEF OutNow, HeldStored, Discarding
  <2>9. PICK d \in BOOLEAN : d = Discarding("stored")
    BY <1>1
  <2>10. RingOrdered(store, Occupied, HeadDone, head, HeldStored, published, boot, d, OutNow)
    BY <1>2, <2>9
  <2>11. RingOrdered(store, Occupied, other, other, {}, published, boot + 1, FALSE, more)
    BY <1>1, <2>4, <2>5, <2>7, <2>8, <2>10, RingRebooted
  <2> QED BY <1>6, <2>1, <2>2, <2>6, <2>11 DEF StoredOrdered
<1>8. CASE Recreate
  <2>1. UNCHANGED published /\ Initialised(store') /\ Occupied' = {}
    BY <1>4, <1>8, RecreateClears DEF Recreate
  <2>2. PICK other, more, s2, b2 : other = head' /\ more = OutNow' /\ s2 = store' /\ b2 = boot'
    OBVIOUS
  <2>3. more \in Outs /\ \A t \in Senders : OutNow[t] <= more[t]
    BY <1>3, <2>2
  <2>4. PICK d : d = Discarding("stored")
    OBVIOUS
  <2> HIDE DEF OutNow, HeldStored, Discarding
  <2>5. RingOrdered(store, Occupied, HeadDone, head, HeldStored, published, boot, d, OutNow)
    BY <1>2, <2>4
  <2>6. RingOrdered(s2, {}, other, other, {}, published, b2, FALSE, more)
    BY <1>1, <2>3, <2>5, RingCleared
  <2> QED BY <1>6, <2>1, <2>2, <2>6 DEF StoredOrdered
<1> QED BY <1>5, <1>7, <1>8

LEMMA BootsStep == ASSUME TypeOK, InHand, Boots, [Next]_vars PROVE Boots'
<1>1. published \in Publications /\ boot \in 0 .. MaxFaults /\ boot \in Nat
  BY StoredTypes DEF TypeOK
<1>2. \A k \in DOMAIN published : published[k].boot \in Nat
  BY <1>1, PublicationType, Constants
<1>3. (UNCHANGED published /\ (boot' = boot \/ boot' = boot + 1)) \/ Publish
  <2>1. ASSUME NEW t \in Senders, Insert(t) PROVE UNCHANGED <<published, boot>>
    BY <2>1 DEF Insert, Take, Count, PutRam, EvictRam, Push, MoveTail, EvictStored, MoveHead
  <2>2. ASSUME Progress \/ LookFails \/ PublishFails, ~Publish PROVE UNCHANGED <<published, boot>>
    BY <2>2 DEF Progress, StartPeek, Look, DiscardRam, DiscardStored, WorkerMovesHead,
                LookFails, PublishFails
  <2>3. CASE Connect \/ Disconnect \/ Reboot \/ Recreate \/ UNCHANGED vars
    BY <2>3 DEF Connect, Disconnect, Reboot, Recreate, vars
  <2> QED BY <2>1, <2>2, <2>3 DEF Next
<1>4. CASE UNCHANGED published /\ (boot' = boot \/ boot' = boot + 1)
  BY <1>1, <1>2, <1>4 DEF Boots
<1>5. CASE Publish
  <2>1. PICK m : m = worker.msg
    OBVIOUS
  <2>2. published' = Append(published, [msg |-> m, boot |-> boot]) /\ UNCHANGED boot /\ m \in Msg
    BY <1>5, <2>1 DEF Publish, InHand
  <2>3. \A k \in DOMAIN published' : (k \in DOMAIN published /\ published'[k] = published[k])
                                     \/ published'[k] = [msg |-> m, boot |-> boot]
    BY <1>1, <2>2 DEF Publications
  <2> QED BY <1>1, <2>2, <2>3 DEF Boots
<1> QED BY <1>3, <1>4, <1>5

\* What holds of the stored messages while nothing disturbs the queue.
StoredInv == Contiguous /\ StoredOrdered /\ Numbered

LEMMA InitStored == ASSUME Init PROVE Boots /\ StoredInv
<1>1. /\ queue = [c \in RamQueues |-> <<>>] /\ published = <<>> /\ worker = Looping
      /\ store = [id \in StoreIds |-> NoMsg] /\ sender = [u \in Senders |-> Idle]
  BY DEF Init
<1>2. Occupied = {} /\ HeldStored = {} /\ DOMAIN published = {}
      /\ \A u \in Senders : At(u, "idle")
  BY <1>1 DEF Occupied, HeldStored, InView, AtW, Looping, At, Idle
<1>3. Boots
  BY <1>2 DEF Boots
<1>4. StoredOrdered
  BY <1>2 DEF StoredOrdered, RingOrdered, RingOrder, HeldOrder, RingPublished
<1>5. \A c \in RamQueues : DOMAIN queue[c] = {}
  BY <1>1
<1>6. Numbered
  BY <1>2, <1>5 DEF Numbered, At
<1> QED BY <1>3, <1>4, <1>6, InitContiguous DEF StoredInv

LEMMA StoredStep ==
    ASSUME TypeOK, InHand, RamOrdered, Placed, Boots, Undisturbed => StoredInv, [Next]_vars, Undisturbed'
    PROVE  StoredInv'
<1>1. TypeOK' /\ InHand' /\ Placed'
  BY TypeStep, RamOrderedStep
<1>2. Contiguous /\ StoredOrdered /\ Numbered
  BY Calm DEF StoredInv
<1>3. Contiguous'
  BY <1>2, ContiguousStep
<1>4. ASSUME NEW t \in Senders, Insert(t) PROVE StoredOrdered' /\ Numbered'
  <2>1. StoredOrdered'
    BY <1>1, <1>2, <1>4, InsertStoredOrdered
  <2>2. Numbered'
    BY <1>2, <1>4, InsertNumbered
  <2> QED BY <2>1, <2>2
<1>5. ASSUME Progress \/ LookFails \/ PublishFails PROVE StoredOrdered' /\ Numbered'
  <2>1. StoredOrdered'
    BY <1>1, <1>2, <1>5, WorkerStoredOrdered
  <2>2. Numbered'
    BY <1>2, <1>5, WorkerNumbered
  <2> QED BY <2>1, <2>2
<1>6. ASSUME Connect \/ Disconnect \/ Reboot \/ Recreate \/ UNCHANGED vars PROVE StoredOrdered' /\ Numbered'
  <2>1. StoredOrdered'
    BY <1>1, <1>2, <1>6, EnvironmentStoredOrdered
  <2>2. Numbered'
    BY <1>2, <1>6, EnvironmentNumbered
  <2> QED BY <2>1, <2>2
<1>7. StoredOrdered' /\ Numbered'
  BY <1>4, <1>5, <1>6 DEF Next
<1> QED BY <1>3, <1>7 DEF StoredInv

-----------------------------------------------------------------------------
(* The theorems.                                                           *)

QueueInv == RamOrdered /\ Placed /\ Boots /\ (Undisturbed => StoredInv)

LEMMA QueueInvariant == Spec => [](TypeOK /\ InHand /\ QueueInv)
<1>1. Init => TypeOK /\ InHand /\ QueueInv
  BY InitType, InitRamOrdered, InitStored DEF QueueInv
<1>2. ASSUME TypeOK, InHand, QueueInv, [Next]_vars PROVE TypeOK' /\ InHand' /\ QueueInv'
  <2>1. RamOrdered /\ Placed /\ Boots /\ (Undisturbed => StoredInv)
    BY <1>2 DEF QueueInv
  <2>2. TypeOK' /\ InHand'
    BY <1>2, TypeStep
  <2>3. RamOrdered' /\ Placed'
    BY <1>2, <2>1, RamOrderedStep
  <2>4. Boots'
    BY <1>2, <2>1, BootsStep
  <2>5. Undisturbed' => StoredInv'
    BY <1>2, <2>1, StoredStep
  <2> QED BY <2>2, <2>3, <2>4, <2>5 DEF QueueInv
<1> QED BY <1>1, <1>2, PTL DEF Spec

\* The stored messages occupy the segment of the ring from the head to the tail
\* (astarte_storage_transmission_push, _discard and _get_indexes), once a push
\* or a discard that is half done is complete: whatever the threads, the worker,
\* the quota and the power losses do, as long as two threads do not insert at
\* once and no key-value call fails.
THEOREM StoreContiguous == Spec => []StoreIsContiguous
<1>1. QueueInv => StoreIsContiguous
  <2>1. Undisturbed /\ QueueInv => InRing(Occupied, HeadDone, TailDone)
    BY DEF QueueInv, StoredInv, Contiguous
  <2>2. ~Undisturbed => StoreIsContiguous
    BY DEF StoreIsContiguous
  <2> QED BY <2>1, <2>2, ContiguousStates
<1> QED BY <1>1, QueueInvariant, PTL

\* So the indexes that astarte_storage_transmission_get_indexes works out of the
\* sum, the count and the extremes of the ids are those the queue had, at every
\* moment the power may be lost, also where the ids wrap around.
THEOREM IndexesRecovered == Spec => []RebootFindsIndexes
<1>1. QueueInv => RebootFindsIndexes
  <2>1. Undisturbed /\ QueueInv => InRing(Occupied, HeadDone, TailDone)
    BY DEF QueueInv, StoredInv, Contiguous
  <2>2. ~Undisturbed => RebootFindsIndexes
    BY DEF RebootFindsIndexes
  <2> QED BY <2>1, <2>2, ContiguousStates
<1> QED BY <1>1, QueueInvariant, PTL

\* The number that astarte_transmission_queue_insert gives to a message is beyond
\* those of all the messages queued and stored, also after a boot resumed from
\* the last stored one.
THEOREM NumbersAhead == Spec => []SequenceAhead
<1>1. TypeOK /\ QueueInv => SequenceAhead
  <2>1. TypeOK => queue \in [RamQueues -> Seq(Msg)]
    BY DEF TypeOK
  <2>2. Undisturbed /\ QueueInv => Numbered
    BY DEF QueueInv, StoredInv
  <2>3. ASSUME NEW c \in RamQueues, NEW m \in Range(queue[c]) PROVE \E i \in DOMAIN queue[c] : m = queue[c][i]
    BY <2>3 DEF Range
  <2>4. Numbered => /\ \A id \in Occupied : store[id].seq < next_seq
                    /\ \A c \in RamQueues : \A m \in Range(queue[c]) : m.seq < next_seq
    BY <2>3 DEF Numbered
  <2> QED BY <2>2, <2>4 DEF SequenceAhead
<1> QED BY <1>1, QueueInvariant, PTL

\* Within a class the worker hands the messages of a thread to the MQTT client in
\* the order of the thread's calls to insert, and none twice, but for a stored
\* one that was not yet deleted when the power was lost; the queues in RAM do so
\* whatever the threads and the storage do.
THEOREM ClassOrder == Spec => []PublishedInClassOrder
<1>1. TypeOK /\ QueueInv => PublishedInClassOrder
  <2> SUFFICES ASSUME TypeOK, QueueInv, NEW i \in DOMAIN published, NEW j \in DOMAIN published,
                      Earlier(i, j), published[i].msg.class = published[j].msg.class
               PROVE  \/ published[i].msg.nr < published[j].msg.nr
                      \/ /\ published[i].msg.class = "stored"
                         /\ \/ ~Undisturbed
                            \/ published[i].msg.nr = published[j].msg.nr
                               /\ published[i].boot < published[j].boot
    BY DEF PublishedInClassOrder
  <2> DEFINE m == published[i].msg
             o == published[j].msg
  <2>1. published \in Publications
    BY DEF TypeOK, Publications
  <2>2. m \in Msg /\ o \in Msg /\ i < j /\ m.by = o.by /\ m.class = o.class
    BY <2>1, PublicationType DEF Earlier
  <2>3. m.class \in RamQueues \/ m.class = "stored"
    BY <2>2 DEF Msg, Range, PeekOrder, RamQueues
  <2>4. CASE m.class \in RamQueues
    <3>1. PublishedOrder(m.class, queue[m.class], InView, published, Discarding(m.class), OutNow)
      BY <2>4 DEF QueueInv, RamOrdered, Ordered
    <3>2. Follows(m, o)
      BY <2>2, <3>1 DEF PublishedOrder
    <3> QED BY <2>2, <3>2 DEF Follows
  <2>5. CASE m.class = "stored" /\ Undisturbed
    <3>1. RingPublished(store, Occupied, head, HeldStored, published, boot, Discarding("stored"), OutNow)
      BY <2>5 DEF QueueInv, StoredInv, StoredOrdered, RingOrdered
    <3>2. Follows(m, o) \/ (NotAfter(m, o) /\ published[i].boot < published[j].boot)
      BY <2>2, <2>5, <3>1 DEF RingPublished
    <3>3. m.nr \in Nat /\ o.nr \in Nat
      BY <2>2 DEF Msg
    <3> QED BY <2>2, <2>5, <3>2, <3>3 DEF Follows, NotAfter
  <2> QED BY <2>3, <2>4, <2>5
<1> QED BY <1>1, QueueInvariant, PTL

-----------------------------------------------------------------------------
(* Nothing is lost unless it is removed under the hands of the worker.     *)

NoneTaken == Undisturbed /\ \A g \in gone : g.why # "overtaken"

InQueue(t, n) == \E c \in RamQueues : \E i \in DOMAIN queue[c] : Name(queue[c][i]) = [by |-> t, nr |-> n]
InStore(t, n) == \E id \in Occupied : Name(store[id]) = [by |-> t, nr |-> n]
InCall(t, n) == n = sends[t] /\ ~At(t, "idle") /\ ~At(t, "moved_tail")
Over(t, n) == Delivered(t, n) \/ \E g \in gone : g.by = t /\ g.nr = n

\* Unlike NothingLost it does not count on a call that has stored its message.
Accounted(t, n) == InQueue(t, n) \/ InStore(t, n) \/ InCall(t, n) \/ Over(t, n)
AllAccounted == \A t \in Senders : \A n \in 1 .. sends[t] : Accounted(t, n)

StillInFront(m) ==
    IF m.class = "stored" THEN store[head] = m
    ELSE queue[m.class] # <<>> /\ Head(queue[m.class]) = m

\* What the worker looked at, holds or is about to discard is where it was.
Handed ==
    /\ \A m \in InView : StillInFront(m)
    /\ AtW("discard") => /\ StillInFront(worker.msg)
                         /\ \E k \in DOMAIN published : published[k].msg = worker.msg

LEMMA HistoryGrows ==
    ASSUME TypeOK, InHand, [Next]_vars
    PROVE  /\ gone \subseteq gone'
           /\ \A k \in DOMAIN published : k \in DOMAIN published' /\ published'[k] = published[k]
<1>1. published \in Publications
  BY ViewType
<1>2. ASSUME NEW t \in Senders, Insert(t) PROVE UNCHANGED published /\ gone \subseteq gone'
  BY <1>2 DEF Insert, Take, Count, PutRam, EvictRam, Push, MoveTail, EvictStored, MoveHead, GiveUp, Drop
<1>3. ASSUME Progress \/ LookFails \/ PublishFails, ~Publish PROVE UNCHANGED <<published, gone>>
  BY <1>3 DEF Progress, StartPeek, Look, DiscardRam, DiscardStored, WorkerMovesHead,
              LookFails, PublishFails
<1>4. CASE Publish
  <2>1. PICK m : m = worker.msg
    OBVIOUS
  <2>2. published' = Append(published, [msg |-> m, boot |-> boot]) /\ UNCHANGED gone
    BY <1>4, <2>1 DEF Publish
  <2> QED BY <1>1, <2>2 DEF Publications
<1>5. ASSUME Connect \/ Disconnect \/ Reboot \/ Recreate \/ UNCHANGED vars
      PROVE  UNCHANGED published /\ gone \subseteq gone'
  BY <1>5 DEF Connect, Disconnect, Reboot, Recreate, vars, GiveUp, Drop
<1>6. (UNCHANGED published /\ gone \subseteq gone') \/ Publish
  BY <1>2, <1>3, <1>5 DEF Next
<1> QED BY <1>4, <1>6

LEMMA OverStays ==
    ASSUME TypeOK, InHand, [Next]_vars, NEW t, NEW n, Over(t, n) PROVE Over(t, n)'
BY HistoryGrows DEF Over, Delivered

LEMMA NoneTakenBefore == ASSUME TypeOK, InHand, [Next]_vars, NoneTaken' PROVE NoneTaken
<1>1. Undisturbed
  BY Calm DEF NoneTaken
<1> QED BY <1>1, HistoryGrows DEF NoneTaken

LEMMA GivenUpOver ==
    ASSUME NEW S, GiveUp(S), NEW m \in S PROVE \E g \in gone' : g.by = m.by /\ g.nr = m.nr
<1>1. Given(m, "given up") \in gone'
  BY DEF GiveUp
<1> QED BY <1>1 DEF Given

LEMMA DropOver ==
    ASSUME NEW S, Drop(S), NEW m \in S PROVE \E g \in gone' : g.by = m.by /\ g.nr = m.nr
<1>1. Given(m, Why(m)) \in gone'
  BY DEF Drop
<1> QED BY <1>1 DEF Given

\* While NoneTaken holds nothing the worker has looked at is evicted or purged.
LEMMA NeverOvertakes ==
    ASSUME NEW S, Drop(S), NoneTaken' PROVE \A m \in S : m \notin worker.seen \cup {worker.msg}
<1>1. ASSUME NEW m \in S, m \in worker.seen \cup {worker.msg} PROVE FALSE
  <2>1. Given(m, "overtaken") \in gone'
    BY <1>1 DEF Drop, Why
  <2>2. Given(m, "overtaken").why = "overtaken"
    BY DEF Given
  <2> QED BY <2>1, <2>2 DEF NoneTaken
<1> QED BY <1>1

\* An eviction or a purge takes a front.
RamDropped(c) ==
    /\ queue[c] # <<>> /\ queue' = [queue EXCEPT ![c] = Tail(@)]
    /\ Drop({Head(queue[c])}) /\ UNCHANGED <<store, head>>
StoredDropped ==
    /\ store[head] # NoMsg /\ store' = [store EXCEPT ![head] = NoMsg]
    /\ Drop({store[head]}) /\ UNCHANGED <<queue, head>>
FrontDropped == StoredDropped \/ \E c \in RamQueues : RamDropped(c)
Evicts(t) ==
    /\ FrontDropped /\ UNCHANGED <<worker, published, sends>>
    /\ At(t, "evict") /\ \E pc \in {"reput", "moved_head"} : SenderTo(t, pc)

LEMMA DropHanded ==
    ASSUME TypeOK, InHand, Handed, NoneTaken', FrontDropped, UNCHANGED <<worker, published>>
    PROVE  Handed'
<1>1. /\ queue \in [RamQueues -> Seq(Msg)] /\ InView \in SUBSET Msg
      /\ AtW("discard") => worker.msg \in Msg
  BY ViewType DEF TypeOK, InHand
<1>2. ASSUME NEW m \in Msg, StillInFront(m), m \in worker.seen \cup {worker.msg}
      PROVE  StillInFront(m)'
  <2>1. CASE StoredDropped
    <3>1. store[head] # m
      BY <1>2, <2>1, NeverOvertakes DEF StoredDropped
    <3> QED BY <1>2, <2>1, <3>1 DEF StillInFront, StoredDropped
  <2>2. ASSUME NEW c \in RamQueues, RamDropped(c) PROVE StillInFront(m)'
    <3>1. Head(queue[c]) # m
      BY <1>2, <2>2, NeverOvertakes DEF RamDropped
    <3>2. CASE m.class = "stored"
      BY <1>2, <2>2, <3>2 DEF StillInFront, RamDropped
    <3>3. CASE m.class # "stored"
      <4>1. m.class # c /\ m.class \in RamQueues
        BY <1>2, <3>1, <3>3 DEF StillInFront, Msg, Range, PeekOrder, RamQueues
      <4>2. queue'[m.class] = queue[m.class]
        BY <1>1, <2>2, <4>1 DEF RamDropped
      <4> QED BY <1>2, <3>3, <4>2 DEF StillInFront
    <3> QED BY <3>2, <3>3
  <2> QED BY <2>1, <2>2 DEF FrontDropped
<1>3. UNCHANGED InView /\ (AtW("discard")' <=> AtW("discard")) /\ InView \subseteq worker.seen \cup {worker.msg}
  BY DEF InView, AtW
<1> HIDE DEF InView
<1> QED BY <1>1, <1>2, <1>3 DEF Handed

LEMMA DropAccounted ==
    ASSUME TypeOK, FrontDropped, NEW u \in Senders, NEW n \in Nat
    PROVE  /\ InQueue(u, n) => InQueue(u, n)' \/ Over(u, n)'
           /\ InStore(u, n) => InStore(u, n)' \/ Over(u, n)'
<1>1. /\ queue \in [RamQueues -> Seq(Msg)] /\ store \in [StoreIds -> Msg \cup {NoMsg}] /\ head \in StoreIds
  BY DEF TypeOK
<1>2. ASSUME NEW m, Drop({m}), Name(m) = [by |-> u, nr |-> n] PROVE Over(u, n)'
  BY <1>2, DropOver DEF Over, Name
<1>3. CASE StoredDropped
  <2>1. \A id \in Occupied : store[id] = store[head] \/ (id \in Occupied' /\ store'[id] = store[id])
    BY <1>1, <1>3 DEF StoredDropped, Occupied
  <2>2. ASSUME InStore(u, n) PROVE InStore(u, n)' \/ Over(u, n)'
    <3>1. PICK id \in Occupied : Name(store[id]) = [by |-> u, nr |-> n]
      BY <2>2 DEF InStore
    <3>2. CASE store[id] = store[head]
      BY <1>2, <1>3, <3>1, <3>2 DEF StoredDropped
    <3>3. CASE id \in Occupied' /\ store'[id] = store[id]
      BY <3>1, <3>3 DEF InStore
    <3> QED BY <2>1, <3>2, <3>3
  <2>3. InQueue(u, n) => InQueue(u, n)'
    BY <1>3 DEF StoredDropped, InQueue
  <2> QED BY <2>2, <2>3
<1>4. ASSUME NEW c \in RamQueues, RamDropped(c)
      PROVE  /\ InQueue(u, n) => InQueue(u, n)' \/ Over(u, n)'
             /\ InStore(u, n) => InStore(u, n)'
  <2>1. queue[c] # <<>> /\ queue[c] \in Seq(Msg) /\ queue'[c] = Tail(queue[c])
        /\ \A d \in RamQueues : d # c => queue'[d] = queue[d]
    BY <1>1, <1>4 DEF RamDropped
  <2>2. \A i \in DOMAIN queue[c] : \/ queue[c][i] = Head(queue[c])
                                   \/ i - 1 \in DOMAIN queue'[c] /\ queue'[c][i - 1] = queue[c][i]
    BY <2>1
  <2>3. ASSUME InQueue(u, n) PROVE InQueue(u, n)' \/ Over(u, n)'
    <3>1. PICK d \in RamQueues : \E i \in DOMAIN queue[d] : Name(queue[d][i]) = [by |-> u, nr |-> n]
      BY <2>3 DEF InQueue
    <3>2. PICK i \in DOMAIN queue[d] : Name(queue[d][i]) = [by |-> u, nr |-> n]
      BY <3>1
    <3>3. CASE d # c
      BY <2>1, <3>2, <3>3 DEF InQueue
    <3>4. CASE d = c /\ queue[c][i] = Head(queue[c])
      BY <1>2, <1>4, <3>2, <3>4 DEF RamDropped
    <3>5. CASE d = c /\ i - 1 \in DOMAIN queue'[c] /\ queue'[c][i - 1] = queue[c][i]
      BY <3>2, <3>5 DEF InQueue
    <3> QED BY <2>2, <3>2, <3>3, <3>4, <3>5
  <2>4. InStore(u, n) => InStore(u, n)'
    BY <1>4 DEF RamDropped, InStore, Occupied
  <2> QED BY <2>3, <2>4
<1> QED BY <1>3, <1>4 DEF FrontDropped

\* A thread goes on, returns or gives up what it holds, and nothing is removed.
LEMMA CallAccounted ==
    ASSUME TypeOK, InHand, [Next]_vars, AllAccounted, UNCHANGED sends, NEW t \in Senders,
           \A u \in Senders : u # t => sender'[u] = sender[u],
           \A u \in Senders : \A n \in Nat : InQueue(u, n) => InQueue(u, n)',
           \A u \in Senders : \A n \in Nat : InStore(u, n) => InStore(u, n)',
           ~At(t, "idle") /\ ~At(t, "moved_tail") => Accounted(t, sends[t])'
    PROVE  AllAccounted'
<1>0. sends \in [Senders -> Nat]
  BY DEF InHand
<1>1. ASSUME NEW u \in Senders, NEW n \in 1 .. sends[u] PROVE Accounted(u, n)'
  <2>0. n \in Nat
    BY <1>0
  <2>1. CASE InQueue(u, n) \/ InStore(u, n)
    BY <2>0, <2>1 DEF Accounted
  <2>2. CASE Over(u, n)
    BY <2>2, OverStays DEF Accounted
  <2>3. CASE InCall(u, n) /\ u # t
    BY <2>3 DEF InCall, Accounted, At
  <2>4. CASE InCall(u, n) /\ u = t
    <3>1. Accounted(t, sends[t])' /\ n = sends[t] /\ sends' = sends
      BY <2>4 DEF InCall
    <3> QED BY <2>4, <3>1 DEF Accounted, InQueue, InStore, InCall, Over, Delivered
  <2> QED BY <2>1, <2>2, <2>3, <2>4 DEF AllAccounted, Accounted
<1> QED BY <1>1 DEF AllAccounted

\* A step of insert adds to the queues, unless it evicts or a call fails.
LEMMA InsertKeeps ==
    ASSUME TypeOK, InHand, [Next]_vars, Contiguous, Placed, NEW t \in Senders, Insert(t), NoneTaken',
           ~Evicts(t)
    PROVE  /\ \A c \in RamQueues :
                \/ queue'[c] = queue[c]
                \/ queue'[c] = Append(queue[c], sender[t].msg) /\ sender[t].msg \in Msg
           /\ \/ store' = store
              \/ /\ store' = [store EXCEPT ![Next1(tail)] = sender[t].msg]
                 /\ Next1(tail) \notin Occupied /\ Next1(tail) \in StoreIds /\ sender[t].msg \in Msg
           /\ head' = head \/ store[head] = NoMsg
<1>1. Others(t)
  BY OneInserts DEF Contiguous, Undisturbed, NoneTaken
<1>2. /\ TailDone = (IF At(t, "moved_tail") THEN Next1(tail) ELSE tail)
      /\ At(t, "moved_head") => store[head] = NoMsg
      /\ InRing(Occupied, HeadDone, TailDone)
  BY <1>1, DoneNow DEF Contiguous
<1>3. queue \in [RamQueues -> Seq(Msg)] /\ errors \in Nat /\ errors' = 0
  BY Flags DEF TypeOK, NoneTaken, Undisturbed
<1>4. ~At(t, "idle") => sender[t].msg \in Msg
  BY DEF InHand, Holds
<1> USE DEF flash, indexes
<1>5. CASE UNCHANGED <<queue, store, head>>
  BY <1>5
<1>6. CASE (\E c \in Range(PeekOrder) : Take(t, c)) \/ Count(t) \/ MoveTail(t)
  BY <1>5, <1>6 DEF Take, Count, MoveTail
<1>7. CASE PutRam(t)
  <2>1. UNCHANGED <<store, head>> /\ sender[t].msg \in Msg
    BY <1>4, <1>7 DEF PutRam, At
  <2>2. PICK m : m = sender[t].msg
    OBVIOUS
  <2>3. UNCHANGED queue \/ queue' = [queue EXCEPT ![m.class] = Append(@, m)]
    BY <1>7, <2>2 DEF PutRam
  <2>4. \A c \in RamQueues : queue'[c] = queue[c] \/ queue'[c] = Append(queue[c], m)
    BY <1>3, <2>3
  <2> QED BY <2>1, <2>2, <2>4
<1>8. CASE EvictRam(t)
  <2>1. UNCHANGED <<store, head, worker, published, sends>> /\ At(t, "evict")
        /\ sender[t].msg.class \in RamQueues
    BY <1>8 DEF EvictRam, calls
  <2>2. PICK c \in RamQueues : c = sender[t].msg.class
    BY <2>1
  <2>3. CASE queue[c] # <<>>
    <3>1. RamDropped(c) /\ SenderTo(t, "reput")
      BY <1>8, <2>1, <2>2, <2>3 DEF EvictRam, RamDropped
    <3> QED BY <2>1, <3>1 DEF Evicts, FrontDropped
  <2>4. CASE queue[c] = <<>>
    <3>1. UNCHANGED queue
      BY <1>8, <2>2, <2>4 DEF EvictRam
    <3> QED BY <1>5, <2>1, <3>1
  <2> QED BY <2>3, <2>4
<1>9. CASE Push(t)
  <2>1. UNCHANGED <<queue, head>> /\ sender[t].msg \in Msg /\ ~At(t, "moved_tail")
    BY <1>4, <1>9 DEF Push, At
  <2>2. TailDone = tail
    BY <1>2, <2>1
  <2>3. Next1(tail) \notin Occupied /\ Next1(tail) \in StoreIds
    BY <1>2, <2>2, RingFree
  <2>4. store' = store \/ store' = [store EXCEPT ![Next1(tail)] = sender[t].msg]
    BY <1>3, <1>9 DEF Push, PushDone, PushFails, KvError
  <2> QED BY <2>1, <2>3, <2>4
<1>10. CASE EvictStored(t)
  <2>1. UNCHANGED <<queue, head, worker, published, sends>> /\ At(t, "evict")
    BY <1>10 DEF EvictStored, calls
  <2>2. CASE DeleteHead(FALSE)
    <3>1. UNCHANGED store
      BY <1>3, <2>2 DEF DeleteHead, KvError
    <3> QED BY <1>5, <2>1, <3>1
  <2>3. CASE DeleteHead(TRUE) /\ SenderTo(t, "moved_head") /\ Drop({store[head]})
    <3>1. StoredDropped
      BY <2>1, <2>3 DEF StoredDropped, DeleteHead, Deleted
    <3> QED BY <2>1, <2>3, <3>1 DEF Evicts, FrontDropped
  <2> QED BY <1>10, <2>2, <2>3 DEF EvictStored
<1>11. CASE MoveHead(t)
  BY <1>2, <1>11 DEF MoveHead
<1> QED BY <1>6, <1>7, <1>8, <1>9, <1>10, <1>11 DEF Insert

LEMMA InsertHanded ==
    ASSUME TypeOK, InHand, [Next]_vars, Contiguous, Placed, Handed, NEW t \in Senders, Insert(t), NoneTaken'
    PROVE  Handed'
<1>1. UNCHANGED <<worker, published>>
  BY DEF Insert, Take, Count, PutRam, EvictRam, Push, MoveTail, EvictStored, MoveHead
<1>2. UNCHANGED InView /\ (AtW("discard")' <=> AtW("discard"))
  BY <1>1 DEF InView, AtW
<1>3. /\ queue \in [RamQueues -> Seq(Msg)] /\ head \in StoreIds
      /\ store \in [StoreIds -> Msg \cup {NoMsg}]
  BY DEF TypeOK
<1>4. InView \in SUBSET Msg /\ (AtW("discard") => worker.msg \in Msg)
  BY ViewType DEF InHand
<1>5. ASSUME NEW m \in Msg, StillInFront(m), ~Evicts(t) PROVE StillInFront(m)'
  <2>1. PICK x : x = sender[t].msg
    OBVIOUS
  <2>2. /\ \A c \in RamQueues : queue'[c] = queue[c] \/ (queue'[c] = Append(queue[c], x) /\ x \in Msg)
        /\ \/ store' = store
           \/ store' = [store EXCEPT ![Next1(tail)] = x] /\ Next1(tail) \notin Occupied
        /\ head' = head \/ store[head] = NoMsg
    BY <1>5, <2>1, InsertKeeps
  <2>3. CASE m.class = "stored"
    <3>1. store[head] = m /\ m # NoMsg
      BY <1>5, <2>3, NoMsgAssumption DEF StillInFront
    <3>2. head \in Occupied /\ head' = head
      BY <1>3, <2>2, <3>1 DEF Occupied
    <3>3. store'[head] = m
      BY <1>3, <2>2, <3>1, <3>2
    <3> QED BY <2>3, <3>2, <3>3 DEF StillInFront
  <2>4. CASE m.class # "stored"
    <3>1. PICK c \in RamQueues : c = m.class
      BY <2>4 DEF Msg, Range, PeekOrder, RamQueues
    <3>2. queue[c] # <<>> /\ Head(queue[c]) = m /\ queue[c] \in Seq(Msg)
      BY <1>3, <1>5, <2>4, <3>1 DEF StillInFront
    <3>3. queue'[c] # <<>> /\ Head(queue'[c]) = m
      <4>1. CASE queue'[c] = queue[c]
        BY <3>2, <4>1
      <4>2. CASE queue'[c] = Append(queue[c], x) /\ x \in Msg
        BY <3>2, <4>2
      <4> QED BY <2>2, <4>1, <4>2
    <3> QED BY <2>4, <3>1, <3>3 DEF StillInFront
  <2> QED BY <2>3, <2>4
<1> HIDE DEF InView
<1>6. CASE ~Evicts(t)
  BY <1>1, <1>2, <1>4, <1>5, <1>6 DEF Handed
<1>7. CASE Evicts(t)
  BY <1>7, DropHanded DEF Evicts
<1> QED BY <1>6, <1>7

LEMMA InsertAccounted ==
    ASSUME TypeOK, InHand, [Next]_vars, Contiguous, Placed, AllAccounted, NEW t \in Senders, Insert(t), NoneTaken',
           ~Evicts(t)
    PROVE  AllAccounted'
<1>1. /\ queue \in [RamQueues -> Seq(Msg)] /\ store \in [StoreIds -> Msg \cup {NoMsg}]
      /\ sender \in [Senders -> [pc : SenderPcs, msg : Msg \cup {NoMsg}]] /\ sends \in [Senders -> Nat]
  BY DEF TypeOK, InHand
<1>2. \A u \in Senders : u # t => sender'[u] = sender[u]
  BY <1>1 DEF Insert, Take, Count, PutRam, EvictRam, Push, MoveTail, EvictStored, MoveHead, SenderTo, Returned
<1>3. \A u \in Senders : \A n \in Nat : InQueue(u, n) => InQueue(u, n)'
  <2>1. PICK x : x = sender[t].msg
    OBVIOUS
  <2>2. \A c \in RamQueues : queue'[c] = queue[c] \/ (queue'[c] = Append(queue[c], x) /\ x \in Msg)
    BY <2>1, InsertKeeps
  <2>3. ASSUME NEW c \in RamQueues, NEW i \in DOMAIN queue[c]
        PROVE  i \in DOMAIN queue'[c] /\ queue'[c][i] = queue[c][i]
    <3>1. queue[c] \in Seq(Msg)
      BY <1>1
    <3>2. CASE queue'[c] = queue[c]
      BY <3>2
    <3>3. CASE queue'[c] = Append(queue[c], x) /\ x \in Msg
      BY <3>1, <3>3
    <3> QED BY <2>2, <3>2, <3>3
  <2> QED BY <2>3 DEF InQueue
<1>4. \A u \in Senders : \A n \in Nat : InStore(u, n) => InStore(u, n)'
  <2>1. PICK x : x = sender[t].msg
    OBVIOUS
  <2>2. store' = store \/ (store' = [store EXCEPT ![Next1(tail)] = x] /\ Next1(tail) \notin Occupied)
    BY <2>1, InsertKeeps
  <2>3. \A id \in Occupied : store'[id] = store[id] /\ id \in Occupied'
    BY <1>1, <2>2 DEF Occupied
  <2> QED BY <2>3 DEF InStore
<1>5. ~At(t, "idle") => /\ sender[t].msg \in Msg /\ Name(sender[t].msg) = [by |-> t, nr |-> sends[t]]
                        /\ sender[t].msg.by = t /\ sender[t].msg.nr = sends[t]
  BY DEF InHand, Holds, Name
<1> DEFINE Goal == ~At(t, "idle") /\ ~At(t, "moved_tail") => Accounted(t, sends[t])'
<1>6. UNCHANGED sends /\ Goal => AllAccounted'
  BY <1>2, <1>3, <1>4, CallAccounted
<1>7. ASSUME NEW pc \in {"put", "evict", "reput", "moved_head"}, SenderTo(t, pc), UNCHANGED sends
      PROVE  AllAccounted'
  <2>1. sender'[t].pc = pc
    BY <1>1, <1>7 DEF SenderTo
  <2>2. InCall(t, sends[t])'
    BY <1>7, <2>1 DEF InCall, At
  <2> QED BY <1>6, <1>7, <2>2 DEF Accounted
<1>8. ASSUME NEW S, GiveUp(S), sender[t].msg \in S, UNCHANGED sends, ~At(t, "idle") PROVE AllAccounted'
  <2>1. PICK m \in S : m = sender[t].msg
    BY <1>8
  <2>2. \E g \in gone' : g.by = t /\ g.nr = sends[t]
    BY <1>5, <1>8, <2>1, GivenUpOver
  <2>3. Over(t, sends[t])'
    BY <1>8, <2>2 DEF Over
  <2> QED BY <1>6, <1>8, <2>3 DEF Accounted
<1> USE DEF calls, flash
<1>9. ASSUME NEW c \in Range(PeekOrder), Take(t, c) PROVE AllAccounted'
  <2>1. /\ sends' = [sends EXCEPT ![t] = @ + 1] /\ sender'[t].pc = "count" /\ At(t, "idle")
    BY <1>1, <1>9 DEF Take
  <2>2. ASSUME NEW u \in Senders, NEW n \in 1 .. sends'[u] PROVE Accounted(u, n)'
    <3>1. n \in Nat /\ (n \in 1 .. sends[u] \/ (u = t /\ n = sends'[t]))
      BY <1>1, <2>1, <2>2
    <3>2. CASE u = t /\ n = sends'[t]
      BY <2>1, <3>2 DEF Accounted, InCall, At
    <3>3. CASE n \in 1 .. sends[u]
      <4>1. Accounted(u, n)
        BY <3>3 DEF AllAccounted
      <4>2. InCall(u, n) => InCall(u, n)'
        <5>1. InCall(u, n) => u # t
          BY <2>1 DEF InCall
        <5>2. u # t => sends'[u] = sends[u] /\ sender'[u] = sender[u]
          BY <1>1, <1>2, <2>1
        <5> QED BY <5>1, <5>2 DEF InCall, At
      <4>3. Over(u, n) => Over(u, n)'
        BY OverStays
      <4> QED BY <1>3, <1>4, <3>1, <4>1, <4>2, <4>3 DEF Accounted
    <3> QED BY <3>1, <3>2, <3>3
  <2> QED BY <2>2 DEF AllAccounted
<1>10. CASE Count(t)
  BY <1>7, <1>10 DEF Count
<1>11. CASE PutRam(t)
  <2>1. UNCHANGED sends /\ ~At(t, "idle") /\ sender[t].msg.class \in RamQueues
    BY <1>11 DEF PutRam, At
  <2>2. PICK m \in Msg, c \in RamQueues : m = sender[t].msg /\ c = m.class
    BY <1>5, <2>1
  <2>3. CASE SenderTo(t, "evict")
    BY <1>7, <2>1, <2>3
  <2>4. CASE GiveUp({m})
    BY <1>8, <2>1, <2>2, <2>4
  <2>5. CASE queue' = [queue EXCEPT ![c] = Append(@, m)]
    <3>1. queue'[c] = Append(queue[c], m) /\ queue[c] \in Seq(Msg)
      BY <1>1, <2>5
    <3>2. Len(queue[c]) + 1 \in DOMAIN queue'[c] /\ queue'[c][Len(queue[c]) + 1] = m
      BY <3>1
    <3>3. InQueue(t, sends[t])'
      BY <1>5, <2>1, <2>2, <3>2 DEF InQueue
    <3> QED BY <1>6, <2>1, <3>3 DEF Accounted
  <2> QED BY <1>11, <2>2, <2>3, <2>4, <2>5 DEF PutRam
<1>12. CASE EvictRam(t)
  <2>1. UNCHANGED sends /\ ~At(t, "idle")
    BY <1>12 DEF EvictRam, At
  <2>2. SenderTo(t, "reput") \/ GiveUp({sender[t].msg})
    BY <1>12 DEF EvictRam
  <2> QED BY <1>7, <1>8, <2>1, <2>2
<1>13. CASE Push(t)
  <2>1. UNCHANGED sends /\ ~At(t, "idle")
    BY <1>13 DEF Push, At
  <2>2. CASE SenderTo(t, "evict")
    BY <1>7, <2>1, <2>2
  <2>3. CASE GiveUp({sender[t].msg})
    BY <1>8, <2>1, <2>3
  <2>4. CASE PushDone(sender[t].msg)
    <3>1. PICK m \in Msg, x \in StoreIds : m = sender[t].msg /\ x = Next1(tail)
      BY <1>5, <2>1, Next1Is DEF TypeOK
    <3>2. store' = [store EXCEPT ![x] = m]
      BY <2>4, <3>1 DEF PushDone
    <3>3. x \in Occupied' /\ store'[x] = m
      BY <1>1, <3>2, NoMsgAssumption DEF Occupied
    <3>4. InStore(t, sends[t])'
      BY <1>5, <2>1, <3>1, <3>3 DEF InStore
    <3> QED BY <1>6, <2>1, <3>4 DEF Accounted
  <2> QED BY <1>13, <2>2, <2>3, <2>4 DEF Push
<1>14. CASE MoveTail(t)
  <2>1. UNCHANGED sends /\ Goal
    BY <1>14 DEF MoveTail, At
  <2> QED BY <1>6, <2>1
<1>15. CASE EvictStored(t)
  <2>1. UNCHANGED sends /\ ~At(t, "idle")
    BY <1>15 DEF EvictStored, At
  <2>2. SenderTo(t, "moved_head") \/ \E S : GiveUp({sender[t].msg} \cup S)
    BY <1>15 DEF EvictStored
  <2> QED BY <1>7, <1>8, <2>1, <2>2
<1>16. CASE MoveHead(t)
  BY <1>7, <1>16 DEF MoveHead
<1> QED BY <1>9, <1>10, <1>11, <1>12, <1>13, <1>14, <1>15, <1>16 DEF Insert

\* What leaves a queue or the store was published or is given up.
LEMMA MovedAccounted ==
    ASSUME TypeOK, InHand, [Next]_vars, AllAccounted, UNCHANGED sends,
           \A u \in Senders : \A n \in Nat : InQueue(u, n) => InQueue(u, n)' \/ Over(u, n)',
           \A u \in Senders : \A n \in Nat : InStore(u, n) => InStore(u, n)' \/ Over(u, n)',
           \A u \in Senders : InCall(u, sends[u]) => InCall(u, sends[u])' \/ Over(u, sends[u])'
    PROVE  AllAccounted'
<1>0. sends \in [Senders -> Nat]
  BY DEF InHand
<1>1. ASSUME NEW u \in Senders, NEW n \in 1 .. sends[u] PROVE Accounted(u, n)'
  <2>0. n \in Nat
    BY <1>0
  <2>1. CASE InQueue(u, n) \/ InStore(u, n)
    BY <2>0, <2>1 DEF Accounted
  <2>2. CASE Over(u, n)
    BY <2>2, OverStays DEF Accounted
  <2>3. CASE InCall(u, n)
    <3>1. n = sends[u] /\ sends' = sends
      BY <2>3 DEF InCall
    <3>2. InCall(u, n)' \/ Over(u, n)'
      BY <2>3, <3>1 DEF InCall, Over, Delivered
    <3> QED BY <3>2 DEF Accounted
  <2> QED BY <2>1, <2>2, <2>3 DEF AllAccounted, Accounted
<1> QED BY <1>1 DEF AllAccounted

LEMMA EvictionAccounted ==
    ASSUME TypeOK, InHand, [Next]_vars, AllAccounted, NEW t \in Senders, Evicts(t)
    PROVE  AllAccounted'
<1>1. sender \in [Senders -> [pc : SenderPcs, msg : Msg \cup {NoMsg}]] /\ UNCHANGED sends
  BY DEF TypeOK, Evicts
<1>2. PICK pc \in {"reput", "moved_head"} : SenderTo(t, pc)
  BY DEF Evicts
<1>3. ASSUME NEW u \in Senders, InCall(u, sends[u]) PROVE InCall(u, sends[u])'
  <2>1. sender'[u].pc \in {sender[u].pc, "reput", "moved_head"}
    BY <1>1, <1>2 DEF SenderTo
  <2> QED BY <1>1, <1>3, <2>1 DEF InCall, At
<1>4. FrontDropped
  BY DEF Evicts
<1> QED BY <1>1, <1>3, <1>4, DropAccounted, MovedAccounted

LEMMA WorkerAccounted ==
    ASSUME TypeOK, InHand, [Next]_vars, Placed, Handed, AllAccounted, Undisturbed',
           Progress \/ LookFails \/ PublishFails
    PROVE  AllAccounted'
<1>1. /\ queue \in [RamQueues -> Seq(Msg)] /\ store \in [StoreIds -> Msg \cup {NoMsg}] /\ head \in StoreIds
      /\ errors \in Nat /\ errors' = 0
  BY Flags DEF TypeOK, Undisturbed
<1> USE DEF flash, indexes, calls
<1>2. UNCHANGED <<sends, sender>>
  BY DEF Progress, StartPeek, Look, Publish, DiscardRam, DiscardStored, WorkerMovesHead,
         LookFails, PublishFails
<1>3. \A u \in Senders : InCall(u, sends[u]) => InCall(u, sends[u])'
  BY <1>2 DEF InCall, At
<1>4. UNCHANGED queue => \A u \in Senders : \A n \in Nat : InQueue(u, n) => InQueue(u, n)'
  BY DEF InQueue
<1>5. UNCHANGED store => \A u \in Senders : \A n \in Nat : InStore(u, n) => InStore(u, n)'
  BY DEF InStore, Occupied
<1>6. CASE UNCHANGED <<queue, store>>
  BY <1>2, <1>3, <1>4, <1>5, <1>6, MovedAccounted
<1>7. CASE StartPeek \/ (\E n \in 1 .. 4 : Look(n)) \/ Publish \/ WorkerMovesHead \/ PublishFails
  BY <1>6, <1>7 DEF StartPeek, Look, Publish, WorkerMovesHead, PublishFails
<1>8. CASE LookFails
  BY <1>1, <1>8 DEF LookFails, KvError
\* What the worker discards was published.
<1>9. ASSUME AtW("discard"), NEW u, NEW n, Name(worker.msg) = [by |-> u, nr |-> n] PROVE Over(u, n)'
  <2>1. Over(u, n)
    BY <1>9 DEF Over, Delivered, Handed
  <2> QED BY <2>1, OverStays
<1>10. CASE DiscardRam
  <2>1. PICK c \in RamQueues : c = worker.msg.class
    BY <1>10 DEF DiscardRam
  <2>2. AtW("discard") /\ c # "stored" /\ UNCHANGED store
        /\ queue' = [queue EXCEPT ![c] = IF @ = <<>> THEN @ ELSE Tail(@)]
    BY <1>10, <2>1 DEF DiscardRam, RamQueues
  <2>3. queue[c] # <<>> /\ Head(queue[c]) = worker.msg /\ queue[c] \in Seq(Msg)
    BY <1>1, <2>1, <2>2 DEF Handed, StillInFront
  <2>4. queue'[c] = Tail(queue[c]) /\ \A d \in RamQueues : d # c => queue'[d] = queue[d]
    BY <1>1, <2>2, <2>3
  <2>5. \A i \in DOMAIN queue[c] : \/ i = 1 /\ queue[c][i] = worker.msg
                                   \/ i - 1 \in DOMAIN queue'[c] /\ queue'[c][i - 1] = queue[c][i]
    BY <2>3, <2>4
  <2>6. ASSUME NEW u \in Senders, NEW n \in Nat, InQueue(u, n) PROVE InQueue(u, n)' \/ Over(u, n)'
    <3>1. PICK d \in RamQueues : \E i \in DOMAIN queue[d] : Name(queue[d][i]) = [by |-> u, nr |-> n]
      BY <2>6 DEF InQueue
    <3>5. PICK i \in DOMAIN queue[d] : Name(queue[d][i]) = [by |-> u, nr |-> n]
      BY <3>1
    <3>2. CASE d # c
      BY <2>4, <3>5, <3>2 DEF InQueue
    <3>3. CASE d = c /\ queue[c][i] = worker.msg
      BY <1>9, <2>2, <3>5, <3>3
    <3>4. CASE d = c /\ i - 1 \in DOMAIN queue'[c] /\ queue'[c][i - 1] = queue[c][i]
      BY <3>5, <3>4 DEF InQueue
    <3> QED BY <2>5, <3>5, <3>2, <3>3, <3>4
  <2> QED BY <1>2, <1>3, <1>5, <2>2, <2>6, MovedAccounted
<1>11. CASE DiscardStored
  <2>1. AtW("discard") /\ store[head] = worker.msg /\ UNCHANGED queue
    BY <1>11 DEF DiscardStored, Handed, StillInFront
  <2>2. store' = store \/ store' = [store EXCEPT ![head] = NoMsg]
    BY <1>1, <1>11 DEF DiscardStored, DeleteHead, Deleted, KvError
  <2>3. \A id \in Occupied : store[id] = worker.msg \/ (id \in Occupied' /\ store'[id] = store[id])
    BY <1>1, <2>1, <2>2 DEF Occupied
  <2>4. ASSUME NEW u \in Senders, NEW n \in Nat, InStore(u, n) PROVE InStore(u, n)' \/ Over(u, n)'
    <3>1. PICK id \in Occupied : Name(store[id]) = [by |-> u, nr |-> n]
      BY <2>4 DEF InStore
    <3>2. CASE store[id] = worker.msg
      BY <1>9, <2>1, <3>1, <3>2
    <3>3. CASE id \in Occupied' /\ store'[id] = store[id]
      BY <3>1, <3>3 DEF InStore
    <3> QED BY <2>3, <3>2, <3>3
  <2> QED BY <1>2, <1>3, <1>4, <2>1, <2>4, MovedAccounted
<1> QED BY <1>7, <1>8, <1>10, <1>11 DEF Progress

LEMMA WorkerHanded ==
    ASSUME TypeOK, InHand, RamOrdered, Placed, Handed, Progress \/ LookFails \/ PublishFails
    PROVE  Handed'
<1>1. /\ worker \in [pc : WorkerPcs, seen : SUBSET Msg, msg : Msg \cup {NoMsg}]
      /\ queue \in [RamQueues -> Seq(Msg)]
  BY DEF TypeOK
<1> USE DEF flash, indexes
<1>2. worker' = Looping \/ worker' = [Looping EXCEPT !.pc = "moved_head"] \/ worker' = [Looping EXCEPT !.pc = "peek1"]
      => InView' = {} /\ ~AtW("discard")'
  BY DEF Looping, InView, AtW
<1>3. CASE StartPeek \/ LookFails \/ PublishFails \/ DiscardRam \/ DiscardStored \/ WorkerMovesHead
  BY <1>2, <1>3 DEF StartPeek, LookFails, PublishFails, DiscardRam, DiscardStored, WorkerMovesHead, Handed
<1>4. ASSUME NEW n \in 1 .. 4, Look(n) PROVE Handed'
  <2> DEFINE d == PeekOrder[n]
             seen == worker.seen \cup FrontOf(d)
  <2>1. /\ AtW(PeekPcs[n]) /\ UNCHANGED <<queue, head, store>>
        /\ n < 4 => worker' = [worker EXCEPT !.pc = AfterPeek(n), !.seen = seen]
        /\ n >= 4 /\ seen = {} => worker' = Looping
        /\ n >= 4 /\ seen # {} => worker' = [pc |-> "held", seen |-> {}, msg |-> Oldest(seen)]
    BY <1>4 DEF Look
  <2>2. d \in Range(PeekOrder) /\ (d = "stored" \/ d \in RamQueues)
    BY DEF PeekOrder, Range, RamQueues
  <2>3. seen \in SUBSET Msg
    BY <1>1, <2>2, FrontType, TypeParts DEF Rest
  <2>4. ASSUME NEW m \in FrontOf(d) PROVE StillInFront(m)
    <3>1. CASE d = "stored"
      <4>1. m = store[head] /\ store[head] # NoMsg
        BY <2>4, <3>1 DEF FrontOf
      <4>2. m.class = "stored"
        BY <4>1 DEF Placed, Occupied, TypeOK
      <4> QED BY <4>1, <4>2 DEF StillInFront
    <3>2. CASE d # "stored"
      <4>1. queue[d] # <<>> /\ m = Head(queue[d])
        BY <2>4, <3>2 DEF FrontOf
      <4>2. QueueOrder(d, queue[d], OutNow) /\ queue[d] \in Seq(Msg)
        BY <1>1, <2>2, <3>2 DEF RamOrdered, Ordered
      <4>3. m.class = d
        BY <4>1, <4>2 DEF QueueOrder
      <4> QED BY <3>2, <4>1, <4>3 DEF StillInFront
    <3> QED BY <3>1, <3>2
  <2>5. \A m \in seen : StillInFront(m)
    BY <2>4 DEF Handed, InView
  <2>6. ASSUME NEW m, StillInFront(m) PROVE StillInFront(m)'
    BY <2>1, <2>6 DEF StillInFront
  <2> HIDE DEF seen, d
  <2>7. InView' \subseteq seen /\ ~AtW("discard")'
    <3>1. CASE n \in 1 .. 3
      <4>1. AfterPeek(n) \in {"peek2", "peek3", "peek4"}
        BY <3>1 DEF AfterPeek, PeekPcs
      <4>2. worker' = [worker EXCEPT !.pc = AfterPeek(n), !.seen = seen]
        BY <2>1, <3>1
      <4> QED BY <1>1, <4>1, <4>2 DEF InView, AtW
    <3>2. CASE n = 4 /\ seen = {}
      BY <1>2, <2>1, <3>2
    <3>3. CASE n = 4 /\ seen # {}
      <4>1. worker' = [pc |-> "held", seen |-> {}, msg |-> Oldest(seen)] /\ Oldest(seen) \in seen
        BY <2>1, <2>3, <3>3, OldestExists
      <4> QED BY <4>1 DEF InView, AtW
    <3>4. n \in 1 .. 3 \/ n = 4
      OBVIOUS
    <3> QED BY <3>1, <3>2, <3>3, <3>4
  <2> QED BY <2>5, <2>6, <2>7 DEF Handed
<1>5. CASE Publish
  <2>1. PICK m : m = worker.msg
    OBVIOUS
  <2>2. /\ AtW("held") /\ m \in Msg /\ UNCHANGED <<queue, head, store>>
        /\ published' = Append(published, [msg |-> m, boot |-> boot])
        /\ worker' = [worker EXCEPT !.pc = "discard"]
    BY <1>5, <2>1 DEF Publish, InHand
  <2>3. StillInFront(m) /\ worker.seen = {}
    BY <2>1, <2>2 DEF Handed, InView, Placed
  <2>4. StillInFront(m)' /\ worker'.msg = m /\ worker'.seen = {} /\ ~AtW("held")'
    BY <1>1, <2>1, <2>2, <2>3 DEF StillInFront, AtW
  <2>5. published \in Publications
    BY ViewType
  <2>6. Len(published) + 1 \in DOMAIN published' /\ published'[Len(published) + 1].msg = m
    BY <2>2, <2>5 DEF Publications
  <2>7. InView' = {}
    BY <2>4 DEF InView
  <2>8. StillInFront(worker.msg)'
    BY <2>4 DEF StillInFront
  <2> QED BY <2>4, <2>6, <2>7, <2>8 DEF Handed
<1> QED BY <1>3, <1>4, <1>5 DEF Progress

LEMMA EnvironmentAccounted ==
    ASSUME TypeOK, InHand, [Next]_vars, Contiguous, Placed, Handed, AllAccounted, NoneTaken',
           Connect \/ Disconnect \/ Reboot \/ Recreate \/ UNCHANGED vars
    PROVE  AllAccounted' /\ Handed'
<1>1. /\ queue \in [RamQueues -> Seq(Msg)] /\ store \in [StoreIds -> Msg \cup {NoMsg}]
  BY DEF TypeOK
<1> USE DEF flash, indexes, calls
<1>2. UNCHANGED sends
  BY DEF Connect, Disconnect, Reboot, Recreate, vars
<1>3. UNCHANGED sender => \A u \in Senders : InCall(u, sends[u]) => InCall(u, sends[u])'
  BY <1>2 DEF InCall, At
<1>4. UNCHANGED queue => \A u \in Senders : \A n \in Nat : InQueue(u, n) => InQueue(u, n)'
  BY DEF InQueue
<1>5. UNCHANGED store => \A u \in Senders : \A n \in Nat : InStore(u, n) => InStore(u, n)'
  BY DEF InStore, Occupied
<1>6. ASSUME NEW S, GiveUp(S), NEW m \in S, NEW u, NEW n, Name(m) = [by |-> u, nr |-> n] PROVE Over(u, n)'
  <2>1. m.by = u /\ m.nr = n
    BY <1>6 DEF Name
  <2> QED BY <1>6, <2>1, GivenUpOver DEF Over
<1>7. CASE Connect \/ UNCHANGED vars
  <2>1. UNCHANGED <<queue, store, sender, worker, head, published>>
    BY <1>7 DEF Connect, vars
  <2>2. UNCHANGED InView /\ \A m : StillInFront(m)' <=> StillInFront(m)
    BY <2>1 DEF InView, AtW, StillInFront
  <2>3. Handed'
    BY <2>1, <2>2 DEF Handed, AtW, StillInFront
  <2> QED BY <1>2, <1>3, <1>4, <1>5, <2>1, <2>3, MovedAccounted
<1>8. CASE Disconnect
  <2>1. "discard" \in RamQueues /\ UNCHANGED <<store, head, sender, worker, published>>
    BY <1>8 DEF Disconnect, RamQueues
  <2>2. CASE queue["discard"] # <<>>
    <3>1. RamDropped("discard")
      BY <1>1, <1>8, <2>1, <2>2 DEF Disconnect, FrontOf, RamDropped
    <3>2. FrontDropped
      BY <2>1, <3>1 DEF FrontDropped
    <3>3. Handed'
      BY <2>1, <3>2, DropHanded
    <3> QED BY <1>2, <1>3, <2>1, <3>2, <3>3, DropAccounted, MovedAccounted
  <2>3. CASE queue["discard"] = <<>>
    <3>1. UNCHANGED queue
      BY <1>1, <1>8, <2>1, <2>3 DEF Disconnect
    <3>2. UNCHANGED InView /\ \A m : StillInFront(m)' <=> StillInFront(m)
      BY <2>1, <3>1 DEF InView, AtW, StillInFront
    <3>3. Handed'
      BY <2>1, <3>2 DEF Handed, AtW, StillInFront
    <3> QED BY <1>2, <1>3, <1>4, <1>5, <2>1, <3>1, <3>3, MovedAccounted
  <2> QED BY <2>2, <2>3
\* What was in RAM is given up at a boot.
<1>9. ASSUME NEW S, GiveUp(RamMessages \cup S)
      PROVE  /\ \A u \in Senders : \A n \in Nat : InQueue(u, n) => Over(u, n)'
             /\ \A u \in Senders : InCall(u, sends[u]) => Over(u, sends[u])'
  <2>1. ASSUME NEW u \in Senders, NEW n \in Nat, InQueue(u, n) PROVE Over(u, n)'
    <3>1. PICK c \in RamQueues : \E i \in DOMAIN queue[c] : Name(queue[c][i]) = [by |-> u, nr |-> n]
      BY <2>1 DEF InQueue
    <3>2. PICK i \in DOMAIN queue[c] : Name(queue[c][i]) = [by |-> u, nr |-> n]
      BY <3>1
    <3>3. queue[c][i] \in RamMessages \cup S
      BY <3>1, <3>2 DEF RamMessages, Range
    <3> QED BY <1>6, <1>9, <3>2, <3>3
  <2>2. ASSUME NEW u \in Senders, InCall(u, sends[u]) PROVE Over(u, sends[u])'
    <3>1. sender[u].msg \in Msg /\ Name(sender[u].msg) = [by |-> u, nr |-> sends[u]]
      BY <2>2 DEF InCall, InHand, Holds, Name
    <3>2. sender[u].msg \in RamMessages \cup S
      BY <3>1, NoMsgAssumption DEF RamMessages
    <3>3. PICK n : n = sends[u]
      OBVIOUS
    <3>4. Over(u, n)'
      BY <1>6, <1>9, <3>1, <3>2, <3>3
    <3> QED BY <1>2, <3>3, <3>4 DEF Over, Delivered
  <2> QED BY <2>1, <2>2
<1>10. ASSUME NEW kept, Initialised(kept) PROVE Handed'
  <2>1. InView' = {} /\ ~AtW("discard")'
    BY <1>10 DEF Initialised, Looping, InView, AtW
  <2> QED BY <2>1 DEF Handed
<1>11. CASE Reboot
  <2>1. UNCHANGED store /\ GiveUp(RamMessages \cup {}) /\ Initialised(store)
    BY <1>11 DEF Reboot
  <2>2. /\ \A u \in Senders : \A n \in Nat : InQueue(u, n) => Over(u, n)'
        /\ \A u \in Senders : InCall(u, sends[u]) => Over(u, sends[u])'
    BY <1>9, <2>1
  <2>3. AllAccounted'
    BY <1>2, <1>5, <2>1, <2>2, MovedAccounted
  <2> QED BY <1>10, <2>1, <2>3
<1>12. CASE Recreate
  <2> DEFINE cleared == UNION {Run(n) : n \in {k \in 0 .. IdSpace - 1 : Run(k) \subseteq Occupied}}
  <2>1. /\ store' = [id \in StoreIds |-> IF id \in cleared THEN NoMsg ELSE store[id]]
        /\ GiveUp(RamMessages \cup {store[id] : id \in cleared}) /\ Initialised(store')
    BY <1>12 DEF Recreate
  <2>2. Occupied' = {}
    BY <1>12, RecreateClears DEF Contiguous
  <2> HIDE DEF cleared
  <2>3. \A id \in Occupied : id \in cleared
    BY <2>1, <2>2 DEF Occupied
  <2>4. /\ \A u \in Senders : \A n \in Nat : InQueue(u, n) => Over(u, n)'
        /\ \A u \in Senders : InCall(u, sends[u]) => Over(u, sends[u])'
    BY <1>9, <2>1
  <2>5. ASSUME NEW u \in Senders, NEW n \in Nat, InStore(u, n) PROVE Over(u, n)'
    <3>1. PICK id \in Occupied : Name(store[id]) = [by |-> u, nr |-> n]
      BY <2>5 DEF InStore
    <3>2. store[id] \in RamMessages \cup {store[jd] : jd \in cleared}
      BY <2>3
    <3> QED BY <1>6, <2>1, <3>1, <3>2
  <2>6. AllAccounted'
    BY <1>2, <2>4, <2>5, MovedAccounted
  <2> QED BY <1>10, <2>1, <2>6
<1> QED BY <1>7, <1>8, <1>11, <1>12

NoneTakenInv == Handed /\ AllAccounted

LEMMA NoneTakenStep ==
    ASSUME TypeOK, InHand, QueueInv, NoneTaken => NoneTakenInv, [Next]_vars, NoneTaken' PROVE NoneTakenInv'
<1>1. Contiguous /\ RamOrdered /\ Placed /\ Handed /\ AllAccounted
  BY NoneTakenBefore DEF NoneTaken, QueueInv, StoredInv, NoneTakenInv
<1>2. ASSUME NEW t \in Senders, Insert(t) PROVE Handed' /\ AllAccounted'
  <2>1. Handed'
    BY <1>1, <1>2, InsertHanded
  <2>2. AllAccounted'
    BY <1>1, <1>2, InsertAccounted, EvictionAccounted
  <2> QED BY <2>1, <2>2
<1>3. ASSUME Progress \/ LookFails \/ PublishFails PROVE Handed' /\ AllAccounted'
  <2>1. Handed'
    BY <1>1, <1>3, WorkerHanded
  <2>2. AllAccounted'
    BY <1>1, <1>3, WorkerAccounted DEF NoneTaken
  <2> QED BY <2>1, <2>2
<1>4. ASSUME Connect \/ Disconnect \/ Reboot \/ Recreate \/ UNCHANGED vars PROVE Handed' /\ AllAccounted'
  BY <1>1, <1>4, EnvironmentAccounted
<1> QED BY <1>2, <1>3, <1>4 DEF Next, NoneTakenInv

\* Unless an eviction or a purge takes a message that the worker has looked at,
\* two threads inserted at once or a key-value call failed, every message is with
\* the MQTT client, in the queue or given up for a reason the code states, full
\* queues and sessions that end at any point of the worker included: what the
\* worker discards after it published a message (discard_by_retention,
\* discard_interface and astarte_storage_transmission_discard remove whatever is
\* in front) is that message.
THEOREM NothingIsLost == Spec => []NothingLostUnlessOvertaken
<1>1. Init => (NoneTaken => NoneTakenInv)
  <2>1. ASSUME Init PROVE NoneTakenInv
    <3>1. worker = Looping /\ sends = [t \in Senders |-> 0]
      BY <2>1 DEF Init
    <3>2. InView = {} /\ ~AtW("discard") /\ \A t \in Senders : 1 .. sends[t] = {}
      BY <3>1 DEF InView, AtW, Looping
    <3> QED BY <3>2 DEF NoneTakenInv, Handed, AllAccounted
  <2> QED BY <2>1
<1>2. ASSUME TypeOK, InHand, QueueInv, NoneTaken => NoneTakenInv, [Next]_vars PROVE (NoneTaken => NoneTakenInv)'
  BY <1>2, NoneTakenStep
<1>3. TypeOK /\ InHand /\ (NoneTaken => NoneTakenInv) => NothingLostUnlessOvertaken
  <2> SUFFICES ASSUME TypeOK, InHand, AllAccounted, NEW t \in Senders, NEW n \in 1 .. sends[t]
               PROVE  Delivered(t, n) \/ Held(t, n) \/ \E g \in gone : g.by = t /\ g.nr = n
    BY DEF NothingLostUnlessOvertaken, NothingLost, NoneTaken, NoneTakenInv
  <2>1. Accounted(t, n)
    BY DEF AllAccounted
  <2>2. CASE InQueue(t, n)
    <3>1. PICK c \in RamQueues : \E i \in DOMAIN queue[c] : Name(queue[c][i]) = [by |-> t, nr |-> n]
      BY <2>2 DEF InQueue
    <3>2. PICK i \in DOMAIN queue[c] : Name(queue[c][i]) = [by |-> t, nr |-> n]
      BY <3>1
    <3>3. queue[c][i] \in RamMessages
      BY <3>1, <3>2 DEF RamMessages, Range
    <3> QED BY <3>2, <3>3 DEF Held
  <2>3. CASE InStore(t, n)
    BY <2>3 DEF InStore, Held
  <2>4. CASE InCall(t, n)
    <3>1. sender[t].msg \in Msg /\ Name(sender[t].msg) = [by |-> t, nr |-> n]
      BY <2>4 DEF InCall, InHand, Holds, Name
    <3>2. sender[t].msg \in RamMessages
      BY <3>1, NoMsgAssumption DEF RamMessages
    <3> QED BY <3>1, <3>2 DEF Held
  <2> QED BY <2>1, <2>2, <2>3, <2>4 DEF Accounted, Over
<1> QED BY <1>1, <1>2, <1>3, QueueInvariant, PTL DEF Spec
=============================================================================
