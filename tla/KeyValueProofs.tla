--------------------------- MODULE KeyValueProofs ---------------------------
(* Proofs about KeyValue, for every ring of ids and every hash function: of   *)
(* the log, wherever faults strike; of the list and the probes, wherever the *)
(* faults strike that spare the copy window (Sparing).                       *)
EXTENDS KeyValue, FiniteSetTheorems, WellFoundedInduction, TLAPS

\* A nonempty set of naturals has a least element.
LEMMA LeastNatural ==
    ASSUME NEW S, S \subseteq Nat, S # {}
    PROVE  \E m \in S : \A n \in S : m <= n
<1> DEFINE less == OpToRel(<, Nat)
<1>1. \A x, y \in Nat : x < y => <<x, y>> \in less
    BY SMT DEF OpToRel
<1>2. IsWellFoundedOn(less, Nat)
    BY NatLessThanWellFounded
<1> HIDE DEF less
<1>3. PICK m \in S : \A n \in S : ~(<<n, m>> \in less)
    BY <1>2, WFMin
<1>4. ASSUME NEW n \in S
      PROVE  m <= n
    <2>1. ~(n < m)
        BY <1>1, <1>3
    <2>2. QED BY <2>1
<1>5. QED BY <1>4

-----------------------------------------------------------------------------
(* The probe and the hole scan return usable ids. *)

LEMMA IdsAreNaturals == Ids \subseteq Nat
BY RangeAssumption DEF Ids

\* Probe distances are naturals.
LEMMA DistType ==
    ASSUME NEW a \in Ids, NEW b \in Ids
    PROVE  Dist(a, b) \in Nat
BY RangeAssumption DEF Dist, Size, Ids

LEMMA SuccType ==
    ASSUME NEW i \in Ids
    PROVE  Succ(i) \in Ids
BY RangeAssumption DEF Succ, Ids

\* A probe that stops at all stops at a usable id, no later than anywhere else.
LEMMA SlotType ==
    ASSUME NEW k \in Keys, Stops(k) # {}
    PROVE  /\ Slot(k) \in Stops(k)
           /\ Slot(k) \in Ids
           /\ \A j \in Stops(k) : Dist(Hash[k], Slot(k)) <= Dist(Hash[k], j)
<1> DEFINE D == {Dist(Hash[k], i) : i \in Stops(k)}
<1>1. Hash[k] \in Ids
    BY HashAssumption
<1>2. Stops(k) \subseteq Ids
    BY DEF Stops
<1>3. D \subseteq Nat /\ D # {}
    BY <1>1, <1>2, DistType
<1>4. PICK m \in D : \A n \in D : m <= n
    <2> HIDE DEF D
    <2> QED BY <1>3, LeastNatural
<1>5. \E i \in Stops(k) :
          \A j \in Stops(k) : Dist(Hash[k], i) <= Dist(Hash[k], j)
    BY <1>4
<1>6. QED BY <1>2, <1>5 DEF Slot

\* The least empty id ahead of the logged hole is a usable id.
LEMMA HoleType ==
    ASSUME HolesAhead # {}
    PROVE  (CHOOSE i \in HolesAhead : \A j \in HolesAhead : i <= j) \in Ids
<1>1. HolesAhead \subseteq Ids
    BY DEF HolesAhead
<1>2. \E i \in HolesAhead : \A j \in HolesAhead : i <= j
    BY <1>1, IdsAreNaturals, LeastNatural
<1>3. QED BY <1>1, <1>2

\* Rewriting a link of a record that exists keeps the partition well typed.
LEMMA LinkTypes ==
    ASSUME entry \in [Ids -> Entry \cup {NoEntry}],
           NEW i \in IdsOrNull, NEW n \in IdsOrNull, ~Dangling(i)
    PROVE  /\ SetNext(i, n) \in [Ids -> Entry \cup {NoEntry}]
           /\ SetPrev(i, n) \in [Ids -> Entry \cup {NoEntry}]
           /\ \A j \in Ids : /\ SetNext(i, n)[j] = NoEntry <=> entry[j] = NoEntry
                             /\ SetPrev(i, n)[j] = NoEntry <=> entry[j] = NoEntry
<1>1. CASE i = NULL
    BY <1>1 DEF SetNext, SetPrev
<1>2. CASE i # NULL
    <2>1. i \in Ids /\ entry[i] \in Entry
        BY <1>2 DEF IdsOrNull, Dangling
    <2>2. [entry[i] EXCEPT !.next = n] \in Entry /\ [entry[i] EXCEPT !.prev = n] \in Entry
        BY <2>1 DEF Entry
    <2>3. NoEntry \notin Entry
        BY NullAssumption DEF Entry
    <2>4. QED BY <1>2, <2>1, <2>2, <2>3 DEF SetNext, SetPrev
<1>3. QED BY <1>1, <1>2

-----------------------------------------------------------------------------
(* Type correctness and the log discipline, proved together: the type of     *)
(* what a phase writes depends on what the log and the call hold then.       *)

LogInv == TypeOK /\ IntentCoversWrite

LEMMA LogInvInit == Init => LogInv
<1> SUFFICES ASSUME Init PROVE LogInv
    OBVIOUS
<1>1. intent \in Intent /\ intent.state = "none"
    BY DEF Init, NoIntent, Intent, IntentStates, IdsOrNull
<1>2. TypeOK
    BY <1>1 DEF Init, TypeOK, IdsOrNull, Phases, NoAnswer, Answer
<1>3. IntentCoversWrite
    BY <1>1 DEF Init, IntentCoversWrite, InsertPhases, DeletePhases, ShiftPhases,
                CallPhases
<1>4. QED BY <1>2, <1>3 DEF LogInv

\* Ending a call, with or without an error, needs nothing of the log.
LEMMA LeaveKeepsLog ==
    ASSUME LogInv, UNCHANGED flash,
           NEW code \in {"ok", "not_found", "full", "error"}, NEW v \in Vals \cup {NULL},
           NEW to \in {"idle", "down", "wipe"},
           Leave(Answer(code, v), to)
    PROVE  LogInv'
BY DEF LogInv, TypeOK, IntentCoversWrite, Leave, Answer, flash, IdsOrNull, Phases,
       InsertPhases, DeletePhases, ShiftPhases, CallPhases

LEMMA BeginKeepsLog ==
    ASSUME LogInv, NEW r \in Requests, Begin(r)
    PROVE  LogInv'
BY DEF LogInv, TypeOK, IntentCoversWrite, Begin, flash, loop, Phases, NoAnswer,
       Answer, InsertPhases, DeletePhases, ShiftPhases, CallPhases

LEMMA InsertKeepsLog ==
    ASSUME LogInv, Insert
    PROVE  LogInv'
<1> USE DEF LogInv, TypeOK, IntentCoversWrite, Goto, call, loop, Phases, WritePhases,
            InsertPhases, DeletePhases, ShiftPhases, CallPhases
<1>1. CASE InsertIntent
    <2>1. req.key \in Keys
        BY <1>1 DEF InsertIntent, Requests
    <2>2. Slot(req.key) \in Ids
        BY <1>1, <2>1, SlotType DEF InsertIntent
    <2>3. intent' \in Intent /\ intent'.state \in {"inserting", "updating"}
          /\ intent'.target \in Ids
        BY <1>1, <2>2 DEF InsertIntent, Intent, IntentStates, IdsOrNull, Entry
    <2>4. QED BY <1>1, <2>3 DEF InsertIntent
<1>2. CASE InsertPayload
    <2>1. [key |-> req.key, val |-> req.val, next |-> intent.next, prev |-> intent.prev]
            \in Entry
        BY <1>2 DEF InsertPayload, Entry, Requests, Intent
    <2>2. entry' \in [Ids -> Entry \cup {NoEntry}]
        BY <1>2, <2>1 DEF InsertPayload
    <2>3. QED BY <1>2, <2>2 DEF InsertPayload
<1>3. CASE InsertLink
    <2>1. entry' \in [Ids -> Entry \cup {NoEntry}]
        BY <1>3, LinkTypes DEF InsertLink, Intent
    <2>2. QED BY <1>3, <2>1 DEF InsertLink
<1>4. CASE InsertEnds
    BY <1>4 DEF InsertEnds, IdsOrNull
<1>5. QED BY <1>1, <1>2, <1>3, <1>4 DEF Insert

LEMMA DeleteKeepsLog ==
    ASSUME LogInv, Delete
    PROVE  LogInv'
<1> USE DEF LogInv, TypeOK, IntentCoversWrite, Goto, call, loop, Phases, WritePhases,
            InsertPhases, DeletePhases, ShiftPhases, CallPhases
<1>1. CASE DeleteIntent
    <2>1. req.key \in Keys
        BY <1>1 DEF DeleteIntent, Requests
    <2>2. Slot(req.key) \in Ids
        BY <1>1, <2>1, SlotType DEF DeleteIntent
    <2>3. intent' \in Intent /\ intent'.state = "deleting" /\ intent'.target \in Ids
        BY <1>1, <2>2 DEF DeleteIntent, Intent, IntentStates, IdsOrNull, Entry
    <2>4. QED BY <1>1, <2>3 DEF DeleteIntent
<1>2. CASE UnlinkPrev
    <2>1. entry' \in [Ids -> Entry \cup {NoEntry}]
        BY <1>2, LinkTypes DEF UnlinkPrev, Intent
    <2>2. QED BY <1>2, <2>1 DEF UnlinkPrev
<1>3. CASE UnlinkNext
    <2>1. entry' \in [Ids -> Entry \cup {NoEntry}]
        BY <1>3, LinkTypes DEF UnlinkNext, Intent
    <2>2. QED BY <1>3, <2>1 DEF UnlinkNext
<1>4. CASE UnlinkEnds
    BY <1>4 DEF UnlinkEnds, Intent
<1>5. CASE EraseTarget
    BY <1>5 DEF EraseTarget
<1>6. CASE ToShifting
    BY <1>6, SuccType DEF ToShifting, ShiftingFrom, Intent, IntentStates, IdsOrNull
<1>7. QED BY <1>1, <1>2, <1>3, <1>4, <1>5, <1>6 DEF Delete

LEMMA ShiftKeepsLog ==
    ASSUME LogInv, Shift
    PROVE  LogInv'
<1> USE DEF LogInv, TypeOK, IntentCoversWrite, Goto, call, loop, flash, Phases,
            WritePhases, InsertPhases, DeletePhases, ShiftPhases, CallPhases
<1>1. CASE ShiftDone
    BY <1>1 DEF ShiftDone
<1>2. CASE ShiftSkip
    BY <1>2, SuccType DEF ShiftSkip, IdsOrNull
<1>3. CASE ShiftCopy
    BY <1>3 DEF ShiftCopy
<1>4. CASE ShiftPrev
    <2>1. entry[curr] \in Entry /\ entry[curr].prev \in IdsOrNull
        BY <1>4 DEF ShiftPrev, Entry
    <2>2. /\ entry' \in [Ids -> Entry \cup {NoEntry}]
          /\ entry'[curr] # NoEntry
        BY <1>4, <2>1, LinkTypes DEF ShiftPrev, IdsOrNull
    <2>3. QED BY <1>4, <2>2 DEF ShiftPrev
<1>5. CASE ShiftNext
    <2>1. entry[curr] \in Entry /\ entry[curr].next \in IdsOrNull
        BY <1>5 DEF ShiftNext, Entry
    <2>2. entry' \in [Ids -> Entry \cup {NoEntry}]
        BY <1>5, <2>1, LinkTypes DEF ShiftNext, IdsOrNull
    <2>3. QED BY <1>5, <2>2 DEF ShiftNext
<1>6. CASE ShiftDelete
    BY <1>6 DEF ShiftDelete
<1>7. CASE ShiftIntent
    BY <1>7, SuccType DEF ShiftIntent, ShiftingFrom, Intent, IntentStates, IdsOrNull
<1>8. QED BY <1>1, <1>2, <1>3, <1>4, <1>5, <1>6, <1>7 DEF Shift

LEMMA ResolveKeepsLog ==
    ASSUME LogInv, Resolve \/ UndoPayloadRefused
    PROVE  LogInv'
<1> USE DEF LogInv, TypeOK, IntentCoversWrite, Goto, call, loop, flash, Phases,
            WritePhases, InsertPhases, DeletePhases, ShiftPhases, CallPhases
<1>1. CASE ResolveNothing /\ req.kind = "open"
    BY <1>1, LeaveKeepsLog DEF ResolveNothing, Answered
<1>2. CASE ResolveNothing /\ req.kind # "open"
    BY <1>2 DEF ResolveNothing
<1>3. CASE ResolveInsert
    BY <1>3 DEF ResolveInsert
<1>4. CASE UndoLink
    <2>1. entry' \in [Ids -> Entry \cup {NoEntry}]
        BY <1>4, LinkTypes DEF UndoLink, Intent, IdsOrNull
    <2>2. QED BY <1>4, <2>1 DEF UndoLink
<1>5. CASE UndoPayload
    BY <1>5 DEF UndoPayload
<1>6. CASE UndoPayloadRefused
    BY <1>6 DEF UndoPayloadRefused
<1>7. CASE ResolveUpdate
    BY <1>7 DEF ResolveUpdate
<1>8. CASE ResolveDelete
    BY <1>8 DEF ResolveDelete
<1>9. CASE ResolveShift
    <2>1. hole' \in Ids
        BY <1>9, HoleType DEF ResolveShift
    <2>2. QED BY <1>9, <2>1, SuccType DEF ResolveShift, IdsOrNull
<1>10. CASE ResolveShiftWrapped
    BY <1>10, LeaveKeepsLog DEF ResolveShiftWrapped, Failed
<1>11. QED BY <1>1, <1>2, <1>3, <1>4, <1>5, <1>6, <1>7, <1>8, <1>9, <1>10 DEF Resolve

LEMMA OtherKeepsLog ==
    ASSUME LogInv,
           \/ AnswerMiss \/ FindHit \/ NeighbourMissing \/ Clear \/ Wipe
           \/ PowerLoss \/ ZmsError
    PROVE  LogInv'
<1>1. CASE AnswerMiss
    BY <1>1, LeaveKeepsLog DEF AnswerMiss, Answered
<1>2. CASE FindHit
    <2>1. req.key \in Keys
        BY <1>2 DEF FindHit, Requests, LogInv, IntentCoversWrite
    <2>2. Slot(req.key) \in Ids
        BY <1>2, <2>1, SlotType DEF FindHit
    <2>3. entry[Slot(req.key)].val \in Vals
        BY <1>2, <2>2 DEF FindHit, LogInv, TypeOK, Entry
    <2>4. QED BY <1>2, <2>3, LeaveKeepsLog DEF FindHit, Answered
<1>3. CASE NeighbourMissing
    BY <1>3, LeaveKeepsLog DEF NeighbourMissing, Failed
<1>4. CASE Clear
    <2>1. intent' \in Intent /\ intent'.state = "none"
        BY <1>4 DEF Clear, NoIntent, Intent, IntentStates, IdsOrNull
    <2> USE DEF LogInv, TypeOK, IntentCoversWrite, IdsOrNull, Phases, WritePhases,
                InsertPhases, DeletePhases, ShiftPhases, CallPhases
    <2>2. CASE resolving /\ req.kind # "open"
        <3>1. /\ pc' = "exec" /\ resolving' = FALSE
              /\ hole' = NULL /\ curr' = NULL /\ UNCHANGED <<call, entry, head, tail>>
            BY <1>4, <2>2, Zenon DEF Clear
        <3>2. QED BY <1>4, <2>1, <2>2, <3>1 DEF Clear, call
    <2>3. CASE ~(resolving /\ req.kind # "open")
        <3>1. /\ Answered("ok", NULL) /\ UNCHANGED <<entry, head, tail>>
            BY <1>4, <2>3, Zenon DEF Clear
        <3>2. QED BY <2>1, <3>1 DEF Answered, Leave, Answer
    <2>4. QED BY <2>2, <2>3
<1>5. CASE Wipe
    BY <1>5 DEF Wipe, LogInv, TypeOK, IntentCoversWrite, call, loop, NoIntent, Intent,
                IntentStates, IdsOrNull, Phases, WritePhases, InsertPhases,
                DeletePhases, ShiftPhases, CallPhases
<1>6. CASE PowerLoss
    BY <1>6, LeaveKeepsLog DEF PowerLoss
<1>7. CASE ZmsError
    BY <1>7, LeaveKeepsLog DEF ZmsError, Failed
<1>8. QED BY <1>1, <1>2, <1>3, <1>4, <1>5, <1>6, <1>7

LEMMA LogInvStep == LogInv /\ [Next]_vars => LogInv'
<1>1. ASSUME LogInv, Next
      PROVE  LogInv'
    BY <1>1, BeginKeepsLog, InsertKeepsLog, DeleteKeepsLog, ShiftKeepsLog,
       ResolveKeepsLog, OtherKeepsLog DEF Next, Work, Fault
<1>2. ASSUME LogInv, UNCHANGED vars
      PROVE  LogInv'
    BY <1>2 DEF LogInv, TypeOK, IntentCoversWrite, vars, flash, call, loop
<1>3. QED BY <1>1, <1>2

LEMMA LogInvHolds == Spec => []LogInv
BY LogInvInit, LogInvStep, PTL DEF Spec

\* Every record, link, log entry and loop register always holds a value of its
\* kind: in particular no probe, recovery scan or shift (find_or_alloc,
\* resolve_shift_intent, resume_shift) leaves the usable ids.
THEOREM TypeCorrect == Spec => []TypeOK
<1>1. LogInv => TypeOK
    BY DEF LogInv
<1>2. QED BY <1>1, LogInvHolds, PTL

\* At every write of entry.c, entry_delete.c and entry_intent.c the log names
\* the operation and the record being changed.
THEOREM LogCoversEveryWrite == Spec => []IntentCoversWrite
<1>1. LogInv => IntentCoversWrite
    BY DEF LogInv
<1>2. QED BY <1>1, LogInvHolds, PTL

\* No record and no end of the list changes while the log is clear: the order
\* of intent_write, zms_write and intent_clear in entry.c and entry_delete.c.
THEOREM LogBeforeWrite == Spec => WriteAhead
<1> DEFINE Quiet == intent.state = "none" /\ pc # "wipe"
                        => UNCHANGED <<entry, head, tail>>
<1>1. ASSUME LogInv, Next, intent.state = "none", pc # "wipe"
      PROVE  UNCHANGED <<entry, head, tail>>
    <2> USE <1>1 DEF LogInv, TypeOK, IntentCoversWrite, InsertPhases, DeletePhases,
                     ShiftPhases, flash
    <2>1. CASE \E r \in Requests : Begin(r)
        BY <2>1 DEF Begin
    <2>2. CASE Insert
        BY <2>2 DEF Insert, InsertIntent, InsertPayload, InsertLink, InsertEnds
    <2>3. CASE Delete
        BY <2>3 DEF Delete, DeleteIntent, UnlinkPrev, UnlinkNext, UnlinkEnds,
                    EraseTarget, ToShifting
    <2>4. CASE Shift
        BY <2>4 DEF Shift, ShiftDone, ShiftSkip, ShiftCopy, ShiftPrev, ShiftNext,
                    ShiftDelete, ShiftIntent
    <2>5. CASE Resolve
        BY <2>5 DEF Resolve, ResolveNothing, ResolveInsert, UndoLink, UndoPayload,
                    ResolveUpdate, ResolveDelete, ResolveShift, ResolveShiftWrapped
    <2>6. CASE AnswerMiss \/ FindHit \/ NeighbourMissing \/ Clear \/ Wipe \/ Fault
        BY <2>6 DEF AnswerMiss, FindHit, NeighbourMissing, Clear, Wipe, Fault,
                    PowerLoss, ZmsError, UndoPayloadRefused
    <2>7. QED BY <2>1, <2>2, <2>3, <2>4, <2>5, <2>6 DEF Next, Work
<1>2. LogInv /\ [Next]_vars => [Quiet]_vars
    BY <1>1
<1>3. QED BY <1>2, LogInvHolds, PTL DEF Spec, WriteAhead
-----------------------------------------------------------------------------
(* The list, as a property of any contents e of the flash.                 *)

\* The records R from first to last, each after the one it is linked to.
Chain(pos, e, R, first, last) ==
    /\ R = {} => first = NULL /\ last = NULL
    /\ R # {} => first \in R /\ last \in R
    /\ \A i \in R :
        /\ e[i].prev = NULL <=> i = first
        /\ e[i].prev # NULL =>
            e[i].prev \in R /\ e[e[i].prev].next = i /\ pos[e[i].prev] < pos[i]
        /\ e[i].next = NULL <=> i = last
        /\ e[i].next # NULL => e[i].next \in R /\ e[e[i].next].prev = i

\* They are threaded by their links, in some order.
Threads(e, R, first, last) == \E pos \in [Ids -> Nat] : Chain(pos, e, R, first, last)

\* The contents once the successor of p is a and the predecessor of q is b.
Relink(e, p, a, q, b) ==
    [i \in Ids |->
        IF e[i] = NoEntry THEN NoEntry
        ELSE [e[i] EXCEPT !.next = IF i = p THEN a ELSE @, !.prev = IF i = q THEN b ELSE @]]

Contents == [Ids -> Entry \cup {NoEntry}]

\* Only the links of its records make a list.
LEMMA ThreadsSame ==
    ASSUME NEW d, NEW e, NEW R, NEW f, NEW l, Threads(d, R, f, l),
           \A i \in R : e[i].next = d[i].next /\ e[i].prev = d[i].prev
    PROVE  Threads(e, R, f, l)
<1>1. PICK pos \in [Ids -> Nat] : Chain(pos, d, R, f, l)
    BY DEF Threads
<1>2. Chain(pos, e, R, f, l)
    BY <1>1 DEF Chain
<1>3. QED BY <1>2 DEF Threads

\* An empty list has no ends, and NULL is the end of no other.
LEMMA ThreadsEnds ==
    ASSUME NEW e, NEW R, R \subseteq Ids, NEW f, NEW l, Threads(e, R, f, l)
    PROVE  /\ f \in R \cup {NULL} /\ l \in R \cup {NULL}
           /\ f = NULL <=> R = {}
           /\ l = NULL <=> R = {}
           /\ \A i \in R : (e[i].next = NULL <=> i = l) /\ (e[i].prev = NULL <=> i = f)
<1>1. PICK pos \in [Ids -> Nat] : Chain(pos, e, R, f, l)
    BY DEF Threads
<1>2. NULL \notin R
    BY NullAssumption
<1>3. QED BY <1>1, <1>2 DEF Chain

\* A record without neighbours is alone.
LEMMA OnlyRecord ==
    ASSUME NEW pos \in [Ids -> Nat], NEW e, NEW R, R \subseteq Ids, NEW f, NEW l,
           Chain(pos, e, R, f, l), NEW t \in R, e[t].prev = NULL, e[t].next = NULL
    PROVE  R = {t}
<1> SUFFICES ASSUME R \ {t} # {} PROVE FALSE
    OBVIOUS
<1> DEFINE P == {pos[i] : i \in R \ {t}}
<1>1. P \subseteq Nat /\ P # {}
    OBVIOUS
<1>2. PICK m \in P : \A n \in P : m <= n
    <2> HIDE DEF P
    <2> QED BY <1>1, LeastNatural
<1>3. PICK i \in R \ {t} : pos[i] = m
    OBVIOUS
<1>4. i # f /\ NULL \notin R
    BY NullAssumption DEF Chain
<1>5. e[i].prev \in R /\ e[e[i].prev].next = i /\ pos[e[i].prev] < pos[i]
    BY <1>4 DEF Chain
<1>6. e[i].prev # t
    BY <1>4, <1>5
<1>7. pos[e[i].prev] \in P
    BY <1>5, <1>6
<1>8. pos[e[i].prev] \in Nat /\ pos[i] \in Nat
    BY <1>5
<1>9. QED BY <1>2, <1>3, <1>5, <1>7, <1>8


\* A record after the last one.
LEMMA ThreadsMore ==
    ASSUME NEW d, NEW e, NEW R, R \subseteq Ids, NEW f, NEW l, Threads(d, R, f, l),
           NEW t \in Ids \ R, e[t].next = NULL, e[t].prev = l,
           NEW ff, ff = (IF l = NULL THEN t ELSE f),
           \A i \in R : /\ e[i].next = IF i = l THEN t ELSE d[i].next
                        /\ e[i].prev = d[i].prev
    PROVE  Threads(e, R \cup {t}, ff, t)
<1> DEFINE Q == R \cup {t}
<1>1. PICK pos \in [Ids -> Nat] : Chain(pos, d, R, f, l)
    BY DEF Threads
<1>2. NULL \notin Q /\ Q \subseteq Ids
    BY NullAssumption
<1>3. /\ l \in R \cup {NULL} /\ f \in R \cup {NULL}
      /\ f = NULL <=> R = {}
      /\ l = NULL <=> R = {}
    BY ThreadsEnds
<1> DEFINE after == IF l = NULL THEN 0 ELSE pos[l] + 1
           new == [pos EXCEPT ![t] = after]
<1>4. /\ after \in Nat
      /\ l # NULL => pos[l] < after
    BY <1>3
<1>5. /\ new \in [Ids -> Nat] /\ new[t] = after
      /\ \A i \in R : new[i] = pos[i]
    <2> HIDE DEF after
    <2> QED BY <1>2, <1>4
<1> HIDE DEF new, after
<1>6. /\ e[t].prev = NULL <=> t = ff
      /\ e[t].prev # NULL =>
          e[t].prev \in Q /\ e[e[t].prev].next = t /\ new[e[t].prev] < new[t]
      /\ e[t].next = NULL
    BY <1>2, <1>3, <1>4, <1>5
<1>7. ASSUME NEW i \in R
      PROVE  /\ e[i].prev = NULL <=> i = ff
             /\ e[i].prev # NULL =>
                 e[i].prev \in Q /\ e[e[i].prev].next = i /\ new[e[i].prev] < new[i]
    <2>1. d[i].prev # NULL =>
              d[i].prev \in R /\ d[d[i].prev].next = i /\ pos[d[i].prev] < pos[i]
        BY <1>1 DEF Chain
    <2>2. d[i].prev # NULL => d[i].prev # l
        BY <1>1, <1>2, <2>1 DEF Chain
    <2>3. d[i].prev = NULL <=> i = f
        BY <1>1 DEF Chain
    <2>4. QED BY <1>2, <1>3, <1>5, <2>1, <2>2, <2>3
<1>8. ASSUME NEW i \in R
      PROVE  /\ e[i].next = NULL <=> i = t
             /\ e[i].next # NULL => e[i].next \in Q /\ e[e[i].next].prev = i
    <2>1. CASE i = l
        BY <1>2, <2>1
    <2>2. CASE i # l
        BY <1>1, <2>2 DEF Chain
    <2>3. QED BY <2>1, <2>2
<1>9. ff \in Q
    BY <1>3
<1>10. Chain(new, e, Q, ff, t)
    BY <1>6, <1>7, <1>8, <1>9 DEF Chain
<1>11. QED BY <1>5, <1>10 DEF Threads

(* Relinking, done or to be done.                                          *)
LEMMA RelinkIs ==
    ASSUME NEW e \in Contents, NEW p, NEW a, NEW q, NEW b, NEW i \in Ids, e[i] # NoEntry
    PROVE  /\ Relink(e, p, a, q, b)[i].next = IF i = p THEN a ELSE e[i].next
           /\ Relink(e, p, a, q, b)[i].prev = IF i = q THEN b ELSE e[i].prev
BY DEF Relink, Contents, Entry

LEMMA RelinkSame ==
    ASSUME NEW d \in Contents, NEW e \in Contents, NEW R, R \subseteq Ids,
           NEW p, NEW a, NEW q, NEW b, NEW f, NEW l,
           Threads(Relink(d, p, a, q, b), R, f, l),
           \A i \in R : /\ d[i] # NoEntry /\ e[i] # NoEntry
                        /\ i # p => e[i].next = d[i].next
                        /\ i # q => e[i].prev = d[i].prev
    PROVE  Threads(Relink(e, p, a, q, b), R, f, l)
<1>1. \A i \in R : /\ Relink(e, p, a, q, b)[i].next = Relink(d, p, a, q, b)[i].next
                   /\ Relink(e, p, a, q, b)[i].prev = Relink(d, p, a, q, b)[i].prev
    BY RelinkIs
<1>2. QED BY <1>1, ThreadsSame

LEMMA RelinkDone ==
    ASSUME NEW d \in Contents, NEW e, NEW R, R \subseteq Ids,
           NEW p, NEW a, NEW q, NEW b, NEW f, NEW l,
           Threads(Relink(d, p, a, q, b), R, f, l),
           \A i \in R : /\ d[i] # NoEntry
                        /\ e[i].next = IF i = p THEN a ELSE d[i].next
                        /\ e[i].prev = IF i = q THEN b ELSE d[i].prev
    PROVE  Threads(e, R, f, l)
<1>1. \A i \in R : /\ e[i].next = Relink(d, p, a, q, b)[i].next
                   /\ e[i].prev = Relink(d, p, a, q, b)[i].prev
    BY RelinkIs
<1>2. QED BY <1>1, ThreadsSame


\* Its neighbours are linked to each other where a record is taken out.
LEMMA ThreadsWithout ==
    ASSUME NEW d \in Contents, NEW R, R \subseteq Ids, \A i \in R : d[i] # NoEntry,
           NEW f, NEW l, Threads(d, R, f, l),
           NEW t \in R, NEW p, NEW n, p = d[t].prev, n = d[t].next,
           NEW ff, ff = (IF p = NULL THEN n ELSE f),
           NEW ll, ll = (IF n = NULL THEN p ELSE l)
    PROVE  /\ p \in (R \ {t}) \cup {NULL} /\ n \in (R \ {t}) \cup {NULL}
           /\ Threads(Relink(d, p, n, n, p), R \ {t}, ff, ll)
<1> DEFINE Q == R \ {t}
           e == Relink(d, p, n, n, p)
<1>0. \A i \in R : /\ e[i].next = IF i = p THEN n ELSE d[i].next
                   /\ e[i].prev = IF i = n THEN p ELSE d[i].prev
    BY RelinkIs
<1> HIDE DEF e
<1>1. PICK pos \in [Ids -> Nat] : Chain(pos, d, R, f, l)
    BY DEF Threads
<1>2. NULL \notin R
    BY NullAssumption
<1>3. \A i \in R : pos[i] \in Nat
    OBVIOUS
<1>4. p \in Q \cup {NULL} /\ n \in Q \cup {NULL}
    BY <1>1, <1>2, <1>3 DEF Chain
<1>5. p # NULL => d[p].next = t
    BY <1>1 DEF Chain
<1>6. n # NULL => d[n].prev = t
    BY <1>1 DEF Chain
<1>7. (p = NULL <=> t = f) /\ (n = NULL <=> t = l)
    BY <1>1 DEF Chain
<1>8. p # NULL /\ n # NULL => pos[p] < pos[n]
    <2>1. p # NULL => pos[p] < pos[t]
        BY <1>1 DEF Chain
    <2>2. n # NULL => pos[t] < pos[n]
        BY <1>1, <1>2, <1>6 DEF Chain
    <2>3. QED BY <1>3, <1>4, <2>1, <2>2
<1>9. ASSUME NEW i \in Q
      PROVE  /\ e[i].prev = NULL <=> i = ff
             /\ e[i].prev # NULL =>
                 e[i].prev \in Q /\ e[e[i].prev].next = i /\ pos[e[i].prev] < pos[i]
    <2>1. CASE i = n
        BY <1>0, <1>2, <1>4, <1>5, <1>7, <1>8, <2>1, <1>1 DEF Chain
    <2>2. CASE i # n
        <3>1. e[i].prev = d[i].prev
            BY <1>0, <2>2
        <3>2. d[i].prev # t
            BY <1>1, <1>2, <2>2 DEF Chain
        <3>3. d[i].prev # NULL =>
                  d[i].prev \in R /\ d[d[i].prev].next = i /\ pos[d[i].prev] < pos[i]
            BY <1>1 DEF Chain
        <3>4. d[i].prev # p \/ d[i].prev = NULL
            BY <1>5, <3>3
        <3>5. d[i].prev # NULL => e[d[i].prev].next = i
            BY <1>0, <3>3, <3>4
        <3>6. d[i].prev = NULL <=> i = f
            BY <1>1 DEF Chain
        <3>7. i = f <=> i = ff
            BY <1>1, <1>7, <2>2 DEF Chain
        <3>8. QED BY <1>0, <3>1, <3>2, <3>3, <3>5, <3>6, <3>7
    <2>3. QED BY <2>1, <2>2
<1>10. ASSUME NEW i \in Q
       PROVE  /\ e[i].next = NULL <=> i = ll
              /\ e[i].next # NULL => e[i].next \in Q /\ e[e[i].next].prev = i
    <2>1. CASE i = p
        BY <1>0, <1>2, <1>4, <1>6, <1>7, <2>1, <1>1 DEF Chain
    <2>2. CASE i # p
        <3>1. e[i].next = d[i].next
            BY <1>0, <2>2
        <3>2. d[i].next # t
            BY <1>1, <1>2, <2>2 DEF Chain
        <3>3. d[i].next # NULL => d[i].next \in R /\ d[d[i].next].prev = i
            BY <1>1 DEF Chain
        <3>4. d[i].next # n \/ d[i].next = NULL
            BY <1>6, <3>3
        <3>5. d[i].next # NULL => e[d[i].next].prev = i
            BY <1>0, <3>3, <3>4
        <3>6. d[i].next = NULL <=> i = l
            BY <1>1 DEF Chain
        <3>7. i = l <=> i = ll
            BY <1>1, <1>7, <2>2 DEF Chain
        <3>8. QED BY <1>0, <3>1, <3>2, <3>3, <3>5, <3>6, <3>7
    <2>3. QED BY <2>1, <2>2
<1>11. (Q = {} => ff = NULL /\ ll = NULL) /\ (Q # {} => ff \in Q /\ ll \in Q)
    <2>1. f \in R /\ l \in R
        BY <1>1 DEF Chain
    <2>2. Q = {} => ff = NULL /\ ll = NULL
        BY <1>4, <1>7, <2>1
    <2>3. Q # {} => ~(p = NULL /\ n = NULL)
        BY <1>1, OnlyRecord
    <2>4. Q # {} => ff \in Q /\ ll \in Q
        BY <1>4, <1>7, <2>1, <2>3
    <2>5. QED BY <2>2, <2>4
<1>12. Chain(pos, e, Q, ff, ll)
    BY <1>9, <1>10, <1>11 DEF Chain
<1>13. QED BY <1>4, <1>12 DEF Threads, e

\* A record in another place.
LEMMA ThreadsMoved ==
    ASSUME NEW d \in Contents, NEW R, R \subseteq Ids, \A i \in R : d[i] # NoEntry,
           NEW f, NEW l, Threads(d, R, f, l),
           NEW c \in R, NEW h \in Ids \ R, NEW p, NEW n, p = d[c].prev, n = d[c].next,
           NEW g \in Contents, g[h] = d[c], \A i \in R : g[i] = d[i],
           NEW ff, ff = (IF p = NULL THEN h ELSE f),
           NEW ll, ll = (IF n = NULL THEN h ELSE l)
    PROVE  /\ p \in (R \ {c}) \cup {NULL} /\ n \in (R \ {c}) \cup {NULL}
           /\ Threads(Relink(g, p, h, n, h), (R \ {c}) \cup {h}, ff, ll)
<1> DEFINE Q == (R \ {c}) \cup {h}
           e == Relink(g, p, h, n, h)
<1>1. PICK pos \in [Ids -> Nat] : Chain(pos, d, R, f, l)
    BY DEF Threads
<1>2. NULL \notin R /\ h # NULL
    BY NullAssumption
<1>3. \A i \in R : pos[i] \in Nat
    OBVIOUS
<1>4. p \in (R \ {c}) \cup {NULL} /\ n \in (R \ {c}) \cup {NULL}
    BY <1>1, <1>2, <1>3 DEF Chain
<1>0. /\ e[h].prev = p /\ e[h].next = n
      /\ \A i \in R : /\ e[i].next = IF i = p THEN h ELSE d[i].next
                      /\ e[i].prev = IF i = n THEN h ELSE d[i].prev
    <2>1. p # h /\ n # h /\ g[h] # NoEntry /\ \A i \in R : g[i] # NoEntry
        BY <1>2, <1>4
    <2>2. QED BY <2>1, RelinkIs
<1> HIDE DEF e
<1>5. p # NULL => d[p].next = c /\ pos[p] < pos[c]
    BY <1>1 DEF Chain
<1>6. n # NULL => d[n].prev = c /\ pos[c] < pos[n]
    BY <1>1, <1>2 DEF Chain
<1>7. (p = NULL <=> c = f) /\ (n = NULL <=> c = l)
    BY <1>1 DEF Chain
<1>8. f \in R /\ l \in R
    BY <1>1 DEF Chain
<1> DEFINE new == [pos EXCEPT ![h] = pos[c]]
<1>9. /\ new \in [Ids -> Nat] /\ new[h] = pos[c]
      /\ \A i \in R : new[i] = pos[i]
    BY <1>3
<1> HIDE DEF new
<1>10. ASSUME NEW i \in Q
       PROVE  /\ e[i].prev = NULL <=> i = ff
              /\ e[i].prev # NULL =>
                  e[i].prev \in Q /\ e[e[i].prev].next = i /\ new[e[i].prev] < new[i]
    <2>1. CASE i = h
        BY <1>0, <1>2, <1>4, <1>5, <1>7, <1>8, <1>9, <2>1
    <2>2. CASE i # h /\ i = n
        BY <1>0, <1>2, <1>4, <1>6, <1>7, <1>8, <1>9, <2>2, <1>1 DEF Chain
    <2>3. CASE i # h /\ i # n
        <3>1. i \in R \ {c} /\ e[i].prev = d[i].prev
            BY <1>0, <2>3
        <3>2. d[i].prev # NULL =>
                  d[i].prev \in R /\ d[d[i].prev].next = i /\ pos[d[i].prev] < pos[i]
            BY <1>1, <3>1 DEF Chain
        <3>3. d[i].prev # NULL => d[i].prev # c /\ d[i].prev # p
            BY <1>5, <2>3, <3>1, <3>2
        <3>4. d[i].prev = NULL <=> i = f
            BY <1>1, <3>1 DEF Chain
        <3>5. i = f <=> i = ff
            BY <1>7, <2>3, <3>1
        <3>6. QED BY <1>0, <1>9, <3>1, <3>2, <3>3, <3>4, <3>5
    <2>4. QED BY <2>1, <2>2, <2>3
<1>11. ASSUME NEW i \in Q
       PROVE  /\ e[i].next = NULL <=> i = ll
              /\ e[i].next # NULL => e[i].next \in Q /\ e[e[i].next].prev = i
    <2>1. CASE i = h
        BY <1>0, <1>2, <1>4, <1>6, <1>7, <1>8, <2>1
    <2>2. CASE i # h /\ i = p
        BY <1>0, <1>2, <1>4, <1>5, <1>7, <1>8, <2>2, <1>1 DEF Chain
    <2>3. CASE i # h /\ i # p
        <3>1. i \in R \ {c} /\ e[i].next = d[i].next
            BY <1>0, <2>3
        <3>2. d[i].next # NULL => d[i].next \in R /\ d[d[i].next].prev = i
            BY <1>1, <3>1 DEF Chain
        <3>3. d[i].next # NULL => d[i].next # c /\ d[i].next # n
            BY <1>6, <2>3, <3>1, <3>2
        <3>4. d[i].next = NULL <=> i = l
            BY <1>1, <3>1 DEF Chain
        <3>5. i = l <=> i = ll
            BY <1>7, <2>3, <3>1
        <3>6. QED BY <1>0, <3>1, <3>2, <3>3, <3>4, <3>5
    <2>4. QED BY <2>1, <2>2, <2>3
<1>12. Q # {} /\ ff \in Q /\ ll \in Q
    BY <1>7, <1>8
<1>13. Chain(new, e, Q, ff, ll)
    <2> HIDE DEF Q
    <2> QED BY <1>10, <1>11, <1>12 DEF Chain
<1>14. QED BY <1>4, <1>9, <1>13 DEF Threads, e

-----------------------------------------------------------------------------
(* The probe, as a property of any contents e of the flash.                *)

\* Whether a probe for the key of the record at i passes j before it.
OnPath(e, j, i) == Dist(Hash[e[i].key], j) < Dist(Hash[e[i].key], i)

\* A probe finds each of the records R, were the ids in free occupied.
Probed(e, R, free) ==
    /\ \A i \in R : \A j \in Ids : OnPath(e, j, i) => j \in R \cup free
    /\ \A i, j \in R : e[i].key = e[j].key => i = j

LEMMA ProbedSame ==
    ASSUME NEW d, NEW e, NEW R, NEW F, Probed(d, R, F), \A i \in R : e[i].key = d[i].key
    PROVE  Probed(e, R, F)
BY DEF Probed, OnPath

LEMMA DistFacts ==
    ASSUME NEW a \in Ids, NEW b \in Ids, NEW c \in Ids
    PROVE  /\ Dist(a, b) \in 0 .. Size - 1
           /\ Dist(a, b) = 0 <=> a = b
           /\ Dist(a, b) = Dist(a, c) => b = c
           /\ Dist(a, b) <= Dist(a, c) => Dist(a, c) = Dist(a, b) + Dist(b, c)
           /\ Dist(a, b) + Dist(b, c) < Size => Dist(a, c) = Dist(a, b) + Dist(b, c)
BY RangeAssumption DEF Dist, Size, Ids

LEMMA DistSucc ==
    ASSUME NEW a \in Ids, NEW b \in Ids
    PROVE  IF Succ(b) = a THEN Dist(a, b) = Size - 1 ELSE Dist(a, Succ(b)) = Dist(a, b) + 1
BY RangeAssumption DEF Dist, Succ, Size, Ids

\* What lies between an id and a record lies on the path to that record, if
\* the id does.
LEMMA BetweenOnPath ==
    ASSUME NEW h \in Ids, NEW a \in Ids, NEW b \in Ids, NEW c \in Ids,
           Dist(h, a) < Dist(h, c), Dist(a, b) < Dist(a, c)
    PROVE  Dist(h, b) < Dist(h, c)
BY DistFacts

\* The ids a shift has examined since it has the hole h, when it is at c.
Seen(h, c, j) == j # h /\ (c = h \/ Dist(h, j) < Dist(h, c))

LEMMA SeenNext ==
    ASSUME NEW h \in Ids, NEW c \in Ids, NEW j \in Ids, Seen(h, Succ(c), j)
    PROVE  c = j \/ Seen(h, c, j)
<1> Dist(h, j) \in Int /\ Dist(h, c) \in Int /\ Size \in Int
    BY DistType, RangeAssumption DEF Size, Ids
<1>1. CASE Succ(c) = h
    BY <1>1, DistFacts, DistSucc DEF Seen
<1>2. CASE Succ(c) # h
    BY <1>2, DistFacts, DistSucc DEF Seen
<1>3. QED BY <1>1, <1>2

LEMMA SeenFirst ==
    ASSUME NEW h \in Ids, NEW j \in Ids
    PROVE  ~Seen(h, Succ(h), j)
<1>1. Dist(h, h) = 0 /\ Dist(h, j) \in Nat /\ (Dist(h, j) = 0 => j = h)
    BY DistFacts, DistType
<1>2. CASE Succ(h) = h
    <2>1. Size = 1
        BY <1>1, <1>2, DistSucc, RangeAssumption DEF Size, Ids
    <2>2. QED BY <2>1, <1>1, DistFacts, RangeAssumption DEF Seen, Size, Ids
<1>3. CASE Succ(h) # h
    BY <1>1, <1>3, DistSucc DEF Seen
<1>4. QED BY <1>2, <1>3

-----------------------------------------------------------------------------
(* What the store looks like at every write, when faults spare the window  *)
(* in which a shifted record is in two places.                             *)

CopyWindow == {"shift_prev", "shift_next", "shift_del"}

\* Where faults may strike: neither in the copy window, nor at the erasure of
\* an undone insertion, nor while mounting; and no shift is interrupted whose
\* hole has passed the end of the ring.
Sparing ==
    /\ PowerLossAt \cap CopyWindow = {}
    /\ ZmsErrorAt \cap (CopyWindow \cup {"undo_payload"}) = {}
    /\ ~MountErrors /\ ~WrapFaults

Whole == Probed(entry, Used, {}) /\ Threads(entry, Used, head, tail)

\* The list of the other records once the one of the intent is unlinked.
Others == Used \ {intent.target}
WithoutTarget ==
    /\ intent.prev \in Others \cup {NULL} /\ intent.next \in Others \cup {NULL}
    /\ Threads(Relink(entry, intent.prev, intent.next, intent.next, intent.prev), Others,
               IF intent.prev = NULL THEN intent.next ELSE head,
               IF intent.next = NULL THEN intent.prev ELSE tail)

\* The empty id that resolve_shift_intent takes for the hole.
IsHole(h) == h \in HolesAhead /\ \A j \in HolesAhead : h <= j

\* What a call or a boot finds on flash for each intent.
OnFlash ==
    /\ intent.state \in {"none", "updating"} => Whole
    /\ intent.state = "inserting" =>
        /\ Probed(entry, Used, {})
        /\ tail = intent.target =>
            intent.target \in Used /\ Threads(entry, Used, head, tail)
        /\ tail # intent.target =>
            /\ Probed(entry, Others, {}) /\ WithoutTarget
            /\ tail = intent.prev /\ intent.next = NULL
            /\ tail = NULL => head = NULL
    /\ intent.state = "deleting" =>
        /\ Probed(entry, Used, {intent.target})
        /\ intent.target \in Used => WithoutTarget
        /\ intent.target \notin Used => Threads(entry, Used, head, tail)
    /\ intent.state = "shifting" /\ pc \notin CopyWindow \cup {"shift_intent"} =>
        \E h \in Ids :
            IsHole(h) /\ Probed(entry, Used, {h}) /\ Threads(entry, Used, head, tail)

\* What a call that inserts has done so far.
InsertStage ==
    /\ pc = "payload" /\ intent.state = "updating" =>
        /\ intent.target \in Used /\ entry[intent.target].key = req.key
        /\ entry[intent.target].prev = intent.prev /\ entry[intent.target].next = intent.next
    /\ pc = "payload" /\ intent.state = "inserting" =>
        /\ intent.target \notin Used /\ tail # intent.target
        /\ \A j \in Used : entry[j].key # req.key
        /\ \A j \in Ids :
            Dist(Hash[req.key], j) < Dist(Hash[req.key], intent.target) => j \in Used
    /\ pc \in {"link", "ends"} =>
        /\ intent.target \in Used /\ tail # intent.target
        /\ entry[intent.target].next = NULL /\ entry[intent.target].prev = tail
    /\ pc = "ends" /\ tail # NULL => entry[tail].next = intent.target
    /\ pc \in {"undo_link", "undo_payload"} => tail # intent.target
    /\ pc = "undo_payload" /\ tail # NULL => entry[tail].next = NULL

\* What a deletion, first or repeated, has done so far.
DeleteStage ==
    /\ pc \in {"unlink_prev", "unlink_next", "unlink_ends", "erase"} => intent.target \in Used
    /\ pc \in {"unlink_next", "unlink_ends", "erase"} /\ intent.prev # NULL =>
        entry[intent.prev].next = intent.next
    /\ pc \in {"unlink_ends", "erase"} /\ intent.next # NULL =>
        entry[intent.next].prev = intent.prev
    /\ pc = "erase" => /\ intent.prev = NULL => head = intent.next
                       /\ intent.next = NULL => tail = intent.prev
    /\ pc = "to_shifting" => intent.target \notin Used

\* How far the shift has come, and which of two copies is the record.
ShiftStage ==
    /\ pc = "shift" =>
        /\ IsHole(hole) /\ Probed(entry, Used, {hole})
        /\ \A j \in Ids : Seen(hole, curr, j) => j \in Used /\ ~OnPath(entry, hole, j)
    /\ pc \in CopyWindow =>
        /\ hole \in Used /\ curr \in Used
        /\ Probed(entry, Used \ {curr}, {curr})
        /\ entry[curr].prev \in (Used \ {hole, curr}) \cup {NULL}
        /\ entry[curr].next \in (Used \ {hole, curr}) \cup {NULL}
    /\ pc \in CopyWindow \cup {"shift_intent"} =>
        /\ curr # hole /\ intent.target <= hole
        /\ \A j \in Ids : Seen(hole, curr, j) => j \in Used
        /\ \A j \in Ids : intent.target <= j /\ j <= hole /\ j # curr => j \in Used
    /\ pc \in {"shift_prev", "shift_next"} =>
        Threads(Relink(entry, entry[curr].prev, hole, entry[curr].next, hole), Used \ {curr},
                IF entry[curr].prev = NULL THEN hole ELSE head,
                IF entry[curr].next = NULL THEN hole ELSE tail)
    /\ pc = "shift_next" =>
        IF entry[curr].prev = NULL THEN head = hole
        ELSE entry[entry[curr].prev].next = hole
    /\ pc = "shift_del" => Threads(entry, Used \ {curr}, head, tail)
    /\ pc = "shift_intent" =>
        /\ curr \notin Used
        /\ Probed(entry, Used, {curr}) /\ Threads(entry, Used, head, tail)

Structured ==
    /\ OnFlash /\ InsertStage /\ DeleteStage /\ ShiftStage
    /\ pc = "clear" => Whole
    /\ pc # "wipe"

LEMMA LogFacts ==
    ASSUME LogInv
    PROVE  /\ entry \in Contents /\ Used \subseteq Ids
           /\ \A i \in Ids : i \in Used <=> entry[i] # NoEntry
           /\ \A i \in Used : /\ entry[i] \in Entry /\ entry[i].key \in Keys
                              /\ entry[i].prev \in IdsOrNull /\ entry[i].next \in IdsOrNull
           /\ head \in IdsOrNull /\ tail \in IdsOrNull
           /\ intent.prev \in IdsOrNull /\ intent.next \in IdsOrNull
           /\ intent.state # "none" => intent.target \in Ids
           /\ \A k \in Keys : Hash[k] \in Ids
           /\ NULL \notin Used
<1>1. NoEntry \notin Entry
    BY NullAssumption DEF Entry
<1>2. QED BY <1>1, HashAssumption, NullAssumption
          DEF LogInv, TypeOK, IntentCoversWrite, Contents, Used, Entry, Intent, IdsOrNull

\* Rewriting a link leaves the records, their keys and the other links alone.
LEMMA NextChanged ==
    ASSUME LogInv, NEW i \in IdsOrNull, NEW n \in IdsOrNull, ~Dangling(i),
           entry' = SetNext(i, n)
    PROVE  /\ entry' \in Contents /\ Used' = Used
           /\ \A j \in Used : /\ entry'[j] # NoEntry
                              /\ entry'[j].key = entry[j].key
                              /\ entry'[j].prev = entry[j].prev
                              /\ entry'[j].next = IF j = i THEN n ELSE entry[j].next
<1>1. /\ entry' \in Contents
      /\ \A j \in Ids : entry'[j] = NoEntry <=> entry[j] = NoEntry
    BY LinkTypes DEF LogInv, TypeOK, Contents
<1>2. \A j \in Used : /\ entry'[j].key = entry[j].key
                      /\ entry'[j].prev = entry[j].prev
                      /\ entry'[j].next = IF j = i THEN n ELSE entry[j].next
    BY LogFacts, NullAssumption DEF SetNext, Entry, Contents, IdsOrNull
<1>3. QED BY <1>1, <1>2 DEF Used

LEMMA PrevChanged ==
    ASSUME LogInv, NEW i \in IdsOrNull, NEW p \in IdsOrNull, ~Dangling(i),
           entry' = SetPrev(i, p)
    PROVE  /\ entry' \in Contents /\ Used' = Used
           /\ \A j \in Used : /\ entry'[j] # NoEntry
                              /\ entry'[j].key = entry[j].key
                              /\ entry'[j].next = entry[j].next
                              /\ entry'[j].prev = IF j = i THEN p ELSE entry[j].prev
<1>1. /\ entry' \in Contents
      /\ \A j \in Ids : entry'[j] = NoEntry <=> entry[j] = NoEntry
    BY LinkTypes DEF LogInv, TypeOK, Contents
<1>2. \A j \in Used : /\ entry'[j].key = entry[j].key
                      /\ entry'[j].next = entry[j].next
                      /\ entry'[j].prev = IF j = i THEN p ELSE entry[j].prev
    BY LogFacts, NullAssumption DEF SetPrev, Entry, Contents, IdsOrNull
<1>3. QED BY <1>1, <1>2 DEF Used

\* A step that writes nothing, outside the copy window.
LEMMA FlashKept ==
    ASSUME OnFlash, UNCHANGED flash, pc \notin CopyWindow \cup {"shift_intent"}
    PROVE  OnFlash'
BY DEF OnFlash, Whole, WithoutTarget, Others, Used, IsHole, HolesAhead, flash

\* Where no operation is half done the contents of the flash are all there is.
LEMMA BetweenStages ==
    ASSUME OnFlash', pc' \in {"down", "idle", "resolve", "exec"}
    PROVE  Structured'
BY DEF Structured, InsertStage, DeleteStage, ShiftStage, CopyWindow

(* Insertion. *)

LEMMA InsertIntentStructured ==
    ASSUME LogInv, Structured, InsertIntent PROVE Structured'
<1> DEFINE i == Slot(req.key)
<1>1. req.key \in Keys /\ Hash[req.key] \in Ids
    BY LogFacts DEF InsertIntent, LogInv, IntentCoversWrite, Requests
<1>2. /\ i \in Ids /\ i \in Stops(req.key)
      /\ \A j \in Stops(req.key) : Dist(Hash[req.key], i) <= Dist(Hash[req.key], j)
    BY <1>1, SlotType DEF InsertIntent
<1>3. Whole
    BY DEF InsertIntent, LogInv, IntentCoversWrite, Structured, OnFlash
<1>4. pc' = "payload" /\ UNCHANGED <<entry, head, tail, req>> /\ Used' = Used
    BY DEF InsertIntent, Goto, call, Used
<1> HIDE DEF i
<1>5. CASE entry[i] = NoEntry
    <2>1. /\ intent'.state = "inserting" /\ intent'.target = i
          /\ intent'.prev = tail /\ intent'.next = NULL
        BY <1>5 DEF InsertIntent, i
    <2>2. i \notin Used /\ Others' = Used
        BY <1>4, <1>5, <2>1 DEF Used, Others
    <2>3. /\ tail \in Used \cup {NULL} /\ (tail = NULL => head = NULL)
          /\ \A j \in Used : entry[j].next = NULL <=> j = tail
        BY <1>3, LogFacts, ThreadsEnds DEF Whole
    <2>4. tail # i
        BY <1>2, <2>2, <2>3, NullAssumption
    <2>5. Threads(Relink(entry, tail, NULL, NULL, tail), Used, head, tail)
        <3>1. \A j \in Used :
                 /\ Relink(entry, tail, NULL, NULL, tail)[j].next = entry[j].next
                 /\ Relink(entry, tail, NULL, NULL, tail)[j].prev = entry[j].prev
            BY <2>3, LogFacts, RelinkIs
        <3>2. QED BY <1>3, <3>1, ThreadsSame DEF Whole
    <2>6. WithoutTarget'
        BY <1>4, <2>1, <2>2, <2>3, <2>5 DEF WithoutTarget
    <2>7. \A j \in Ids : Dist(Hash[req.key], j) < Dist(Hash[req.key], i) => j \in Used
        BY <1>1, <1>2, DistType DEF Stops, Used
    <2>8. ASSUME NEW j \in Used, entry[j].key = req.key
          PROVE  FALSE
        <3>1. j \in Stops(req.key) /\ j \in Ids /\ j # i
            BY <2>2, <2>8, LogFacts DEF Stops, Holds
        <3>2. Dist(Hash[req.key], i) < Dist(Hash[req.key], j)
            BY <1>1, <1>2, <3>1, DistFacts, DistType
        <3>3. QED BY <1>2, <1>3, <2>2, <2>8, <3>2 DEF Whole, Probed, OnPath
    <2>9. QED BY <1>3, <1>4, <2>1, <2>2, <2>3, <2>4, <2>6, <2>7, <2>8
              DEF Structured, OnFlash, InsertStage, DeleteStage, ShiftStage, CopyWindow,
                  Whole
<1>6. CASE entry[i] # NoEntry
    <2>1. /\ intent'.state = "updating" /\ intent'.target = i
          /\ intent'.prev = entry[i].prev /\ intent'.next = entry[i].next
        BY <1>6 DEF InsertIntent, i
    <2>2. i \in Used /\ entry[i].key = req.key
        BY <1>2, <1>6 DEF Used, Stops, Holds
    <2>3. QED BY <1>3, <1>4, <2>1, <2>2
              DEF Structured, OnFlash, InsertStage, DeleteStage, ShiftStage, CopyWindow,
                  Whole
<1>7. QED BY <1>5, <1>6

LEMMA InsertPayloadStructured ==
    ASSUME LogInv, Structured, InsertPayload PROVE Structured'
<1> DEFINE t == intent.target
<1>1. /\ UNCHANGED <<head, tail, intent, req>> /\ t \in Ids
      /\ intent.state \in {"inserting", "updating"}
    BY LogFacts DEF InsertPayload, Goto, call, LogInv, IntentCoversWrite
<1>2. /\ entry'[t].key = req.key /\ entry'[t].prev = intent.prev
      /\ entry'[t].next = intent.next /\ entry'[t] # NoEntry
      /\ \A j \in Ids \ {t} : entry'[j] = entry[j]
      /\ entry' \in Contents
    <2>1. [key |-> req.key, val |-> req.val, next |-> intent.next, prev |-> intent.prev]
             \in Entry
        BY DEF InsertPayload, Entry, Requests, Intent, LogInv, IntentCoversWrite, TypeOK
    <2>2. NoEntry \notin Entry
        BY NullAssumption DEF Entry
    <2>3. QED BY <1>1, <2>1, <2>2, LogFacts DEF InsertPayload, Contents
<1>3. Used' = Used \cup {t}
    BY <1>1, <1>2 DEF Used
<1> HIDE DEF t
<1>4. CASE intent.state = "updating"
    <2>1. t \in Used /\ Whole
        BY <1>4 DEF InsertPayload, Structured, OnFlash, InsertStage, t
    <2>2. \A j \in Used : /\ entry'[j].key = entry[j].key
                          /\ entry'[j].next = entry[j].next /\ entry'[j].prev = entry[j].prev
        <3>1. entry[t].key = req.key /\ entry[t].prev = intent.prev /\ entry[t].next = intent.next
            BY <1>4 DEF InsertPayload, Structured, InsertStage, t
        <3>2. QED BY <1>2, <3>1, LogFacts
    <2>3. Used' = Used
        BY <1>3, <2>1
    <2>4. Whole'
        BY <1>1, <2>1, <2>2, <2>3, ProbedSame, ThreadsSame DEF Whole
    <2>5. pc' = "clear"
        BY <1>4 DEF InsertPayload, Goto
    <2>6. QED BY <1>1, <1>4, <2>4, <2>5
              DEF Structured, OnFlash, InsertStage, DeleteStage, ShiftStage, CopyWindow
<1>5. CASE intent.state = "inserting"
    <2>1. /\ t \notin Used /\ tail # t
          /\ \A j \in Used : entry[j].key # req.key
          /\ \A j \in Ids : Dist(Hash[req.key], j) < Dist(Hash[req.key], t) => j \in Used
        BY <1>5 DEF InsertPayload, Structured, InsertStage, t
    <2>2. /\ Probed(entry, Used, {}) /\ WithoutTarget
          /\ tail = intent.prev /\ intent.next = NULL
          /\ tail = NULL => head = NULL
        BY <1>5, <2>1 DEF Structured, OnFlash, t
    <2>3. Others = Used /\ Others' = Used
        BY <1>1, <1>3, <2>1 DEF Others, t
    <2>4. \A j \in Used : entry'[j] = entry[j]
        BY <1>2, <2>1, LogFacts
    <2>5. Probed(entry', Used, {})
        BY <2>2, <2>4, ProbedSame
    <2>6. Probed(entry', Used', {})
        <3>1. ASSUME NEW k \in Used', NEW j \in Ids, OnPath(entry', j, k)
              PROVE  j \in Used'
            BY <1>2, <1>3, <2>1, <2>5, <3>1 DEF OnPath, Probed
        <3>2. ASSUME NEW j \in Used', NEW k \in Used', entry'[j].key = entry'[k].key
              PROVE  j = k
            BY <1>2, <1>3, <2>1, <2>4, <2>5, <3>2 DEF Probed
        <3>3. QED BY <3>1, <3>2 DEF Probed
    <2>7. WithoutTarget'
        <3>1. \A j \in Used : entry[j] # NoEntry
            BY LogFacts
        <3>2. Threads(Relink(entry', intent.prev, intent.next, intent.next, intent.prev), Used,
                      IF intent.prev = NULL THEN intent.next ELSE head,
                      IF intent.next = NULL THEN intent.prev ELSE tail)
            BY <1>2, <2>2, <2>3, <2>4, <3>1, LogFacts, RelinkSame DEF WithoutTarget
        <3>3. QED BY <1>1, <2>2, <2>3, <3>2 DEF WithoutTarget
    <2>8. pc' = "link"
        BY <1>5 DEF InsertPayload, Goto
    <2>9. t \in Used' /\ t = intent'.target
        BY <1>1, <1>3 DEF t
    <2>10. QED BY <1>1, <1>2, <1>5, <2>1, <2>2, <2>3, <2>5, <2>6, <2>7, <2>8, <2>9
              DEF Structured, OnFlash, InsertStage, DeleteStage, ShiftStage, CopyWindow
<1>6. QED BY <1>1, <1>4, <1>5

LEMMA InsertLinkStructured ==
    ASSUME LogInv, Structured, InsertLink PROVE Structured'
<1> DEFINE t == intent.target
<1>1. /\ UNCHANGED <<head, tail, intent, req>> /\ pc' = "ends"
      /\ intent.state = "inserting" /\ t \in Ids
    BY LogFacts DEF InsertLink, Goto, call, LogInv, IntentCoversWrite, InsertPhases
<1>2. /\ t \in Used /\ tail # t /\ entry[t].next = NULL /\ entry[t].prev = tail
    BY DEF InsertLink, Structured, InsertStage, t
<1>3. /\ Probed(entry, Used, {}) /\ Probed(entry, Others, {}) /\ WithoutTarget
      /\ tail = intent.prev /\ intent.next = NULL
      /\ tail = NULL => head = NULL
    BY <1>1, <1>2 DEF Structured, OnFlash, t
<1>4. /\ entry' \in Contents /\ Used' = Used
      /\ \A j \in Used : /\ entry'[j] # NoEntry /\ entry'[j].key = entry[j].key
                         /\ entry'[j].prev = entry[j].prev
                         /\ entry'[j].next = IF j = tail THEN t ELSE entry[j].next
    BY <1>1, NextChanged, LogFacts DEF InsertLink, IdsOrNull
<1>5. Others' = Others /\ Others \subseteq Used
    BY <1>1, <1>4 DEF Others
<1>6. Probed(entry', Used, {}) /\ Probed(entry', Others, {})
    BY <1>3, <1>4, <1>5, ProbedSame
<1>7. WithoutTarget'
    <2>1. \A j \in Others : /\ entry[j] # NoEntry /\ entry'[j] # NoEntry
                            /\ j # intent.prev => entry'[j].next = entry[j].next
                            /\ j # intent.next => entry'[j].prev = entry[j].prev
        BY <1>3, <1>4, <1>5, LogFacts
    <2>2. Threads(Relink(entry', intent.prev, intent.next, intent.next, intent.prev), Others,
                  IF intent.prev = NULL THEN intent.next ELSE head,
                  IF intent.next = NULL THEN intent.prev ELSE tail)
        BY <1>3, <1>4, <1>5, <2>1, LogFacts, RelinkSame DEF WithoutTarget
    <2>3. QED BY <1>1, <1>3, <1>5, <2>2 DEF WithoutTarget
<1>8. /\ t \in Used' /\ t = intent'.target /\ entry'[t].next = NULL /\ entry'[t].prev = tail
      /\ tail # NULL => entry'[tail].next = t
    <2>1. tail # NULL => tail \in Used
        BY <1>3, <1>5 DEF WithoutTarget
    <2>2. QED BY <1>1, <1>2, <1>4, <2>1
<1>9. QED BY <1>1, <1>2, <1>3, <1>4, <1>5, <1>6, <1>7, <1>8
          DEF Structured, OnFlash, InsertStage, DeleteStage, ShiftStage, CopyWindow

LEMMA InsertEndsStructured ==
    ASSUME LogInv, Structured, InsertEnds PROVE Structured'
<1> DEFINE t == intent.target
<1>1. /\ UNCHANGED <<entry, intent>> /\ pc' = "clear" /\ tail' = t
      /\ head' = IF tail = NULL THEN t ELSE head
      /\ intent.state = "inserting" /\ t \in Ids /\ Used' = Used
    BY LogFacts DEF InsertEnds, Goto, LogInv, IntentCoversWrite, InsertPhases, Used
<1>2. /\ t \in Used /\ tail # t /\ entry[t].next = NULL /\ entry[t].prev = tail
      /\ tail # NULL => entry[tail].next = t
    BY DEF InsertEnds, Structured, InsertStage, t
<1>3. /\ Probed(entry, Used, {}) /\ WithoutTarget
      /\ tail = intent.prev /\ intent.next = NULL
      /\ tail = NULL => head = NULL
    BY <1>1, <1>2 DEF Structured, OnFlash, t
<1> DEFINE e == Relink(entry, tail, NULL, NULL, tail)
           first == IF tail = NULL THEN NULL ELSE head
<1>4. Threads(e, Others, first, tail)
    BY <1>3 DEF WithoutTarget
<1>5. t \in Ids \ Others /\ Others \subseteq Ids /\ Others \subseteq Used /\ NULL \notin Others
    BY <1>1, LogFacts DEF Others
<1>6. \A j \in Others : /\ entry[j].next = IF j = tail THEN t ELSE e[j].next
                        /\ entry[j].prev = e[j].prev
    BY <1>2, <1>5, LogFacts, RelinkIs
<1>7. head' = IF tail = NULL THEN t ELSE first
    BY <1>1
<1> HIDE DEF e, first, t
<1>8. Threads(entry, Others \cup {t}, head', t)
    <2>1. entry[t].next = NULL /\ entry[t].prev = tail
        BY <1>2
    <2>2. t \in Ids \ Others /\ Others \subseteq Ids
        BY <1>5
    <2>3. QED BY ONLY <1>4, <1>6, <1>7, <2>1, <2>2, ThreadsMore
<1>9. Others \cup {t} = Used
    BY <1>2 DEF Others, t
<1>10. Whole'
    BY <1>1, <1>3, <1>8, <1>9 DEF Whole
<1>11. QED BY <1>1, <1>2, <1>10 DEF Structured, OnFlash, InsertStage, DeleteStage, ShiftStage,
                                    CopyWindow, Whole, t

(* Deletion. *)

LEMMA DeleteIntentStructured ==
    ASSUME LogInv, Structured, DeleteIntent PROVE Structured'
<1> DEFINE i == Slot(req.key)
<1>1. req.key \in Keys
    BY DEF DeleteIntent, LogInv, IntentCoversWrite, Requests
<1>2. i \in Used
    BY <1>1, SlotType DEF DeleteIntent, Used
<1>3. Whole
    BY DEF DeleteIntent, LogInv, IntentCoversWrite, Structured, OnFlash
<1>4. /\ pc' = "unlink_prev" /\ UNCHANGED <<entry, head, tail>> /\ Used' = Used
      /\ intent'.state = "deleting" /\ intent'.target = i
      /\ intent'.prev = entry[i].prev /\ intent'.next = entry[i].next
    BY DEF DeleteIntent, Goto, Used
<1> HIDE DEF i
<1> DEFINE p == entry[i].prev
           n == entry[i].next
           first == IF p = NULL THEN n ELSE head
           last == IF n = NULL THEN p ELSE tail
<1>5. /\ entry \in Contents /\ Used \subseteq Ids /\ \A j \in Used : entry[j] # NoEntry
      /\ Threads(entry, Used, head, tail)
    BY <1>3, LogFacts DEF Whole
<1>6. /\ p \in (Used \ {i}) \cup {NULL} /\ n \in (Used \ {i}) \cup {NULL}
      /\ Threads(Relink(entry, p, n, n, p), Used \ {i}, first, last)
    BY <1>2, <1>5, ThreadsWithout
<1>7. WithoutTarget'
    BY <1>4, <1>6 DEF WithoutTarget, Others
<1>8. Probed(entry, Used, {i})
    BY <1>3 DEF Whole, Probed
<1>9. QED BY <1>2, <1>4, <1>7, <1>8
          DEF Structured, OnFlash, InsertStage, DeleteStage, ShiftStage, CopyWindow

\* What every step of a deletion has before it.
LEMMA Deleting ==
    ASSUME LogInv, Structured, pc \in {"unlink_prev", "unlink_next", "unlink_ends", "erase"}
    PROVE  /\ intent.state = "deleting" /\ intent.target \in Used /\ WithoutTarget
           /\ Probed(entry, Used, {intent.target})
           /\ Others \subseteq Used
BY DEF LogInv, IntentCoversWrite, DeletePhases, Structured, OnFlash, DeleteStage, Others

\* Relinking a neighbour does not change what the list will be.
LEMMA StillWithoutTarget ==
    ASSUME LogInv, WithoutTarget, UNCHANGED <<head, tail, intent>>,
           entry' \in Contents, Used' = Used,
           \A j \in Used : /\ entry'[j] # NoEntry
                           /\ j # intent.prev => entry'[j].next = entry[j].next
                           /\ j # intent.next => entry'[j].prev = entry[j].prev
    PROVE  WithoutTarget'
<1>1. Others' = Others /\ Others \subseteq Used
    BY DEF Others
<1>2. \A j \in Others : /\ entry[j] # NoEntry /\ entry'[j] # NoEntry
                        /\ j # intent.prev => entry'[j].next = entry[j].next
                        /\ j # intent.next => entry'[j].prev = entry[j].prev
    BY <1>1, LogFacts
<1>3. Threads(Relink(entry', intent.prev, intent.next, intent.next, intent.prev), Others,
              IF intent.prev = NULL THEN intent.next ELSE head,
              IF intent.next = NULL THEN intent.prev ELSE tail)
    BY <1>1, <1>2, LogFacts, RelinkSame DEF WithoutTarget
<1>4. QED BY <1>1, <1>3 DEF WithoutTarget

LEMMA UnlinkStructured ==
    ASSUME LogInv, Structured, UnlinkPrev \/ UnlinkNext \/ UnlinkEnds PROVE Structured'
<1> USE DEF Goto
<1>1. /\ intent.state = "deleting" /\ intent.target \in Used /\ WithoutTarget
      /\ Probed(entry, Used, {intent.target}) /\ UNCHANGED intent
    BY Deleting DEF UnlinkPrev, UnlinkNext, UnlinkEnds
<1>2. /\ intent.prev \in Used \cup {NULL} /\ intent.next \in Used \cup {NULL}
    BY <1>1 DEF WithoutTarget, Others
<1>3. CASE UnlinkPrev
    <2>1. /\ entry' \in Contents /\ Used' = Used
          /\ \A j \in Used : /\ entry'[j] # NoEntry /\ entry'[j].key = entry[j].key
                             /\ entry'[j].prev = entry[j].prev
                             /\ entry'[j].next = IF j = intent.prev THEN intent.next
                                                 ELSE entry[j].next
        BY <1>3, NextChanged, LogFacts DEF UnlinkPrev
    <2>2. WithoutTarget' /\ Probed(entry', Used, {intent.target})
        BY <1>1, <1>3, <2>1, StillWithoutTarget, ProbedSame DEF UnlinkPrev
    <2>3. pc' = "unlink_next" /\ (intent.prev # NULL => entry'[intent.prev].next = intent.next)
        BY <1>2, <1>3, <2>1 DEF UnlinkPrev
    <2>4. QED BY <1>1, <2>1, <2>2, <2>3
              DEF Structured, OnFlash, InsertStage, DeleteStage, ShiftStage, CopyWindow
<1>4. CASE UnlinkNext
    <2>1. /\ entry' \in Contents /\ Used' = Used
          /\ \A j \in Used : /\ entry'[j] # NoEntry /\ entry'[j].key = entry[j].key
                             /\ entry'[j].next = entry[j].next
                             /\ entry'[j].prev = IF j = intent.next THEN intent.prev
                                                 ELSE entry[j].prev
        BY <1>4, PrevChanged, LogFacts DEF UnlinkNext
    <2>2. WithoutTarget' /\ Probed(entry', Used, {intent.target})
        BY <1>1, <1>4, <2>1, StillWithoutTarget, ProbedSame DEF UnlinkNext
    <2>3. /\ pc' = "unlink_ends"
          /\ intent.prev # NULL => entry'[intent.prev].next = intent.next
          /\ intent.next # NULL => entry'[intent.next].prev = intent.prev
        BY <1>2, <1>4, <2>1 DEF UnlinkNext, Structured, DeleteStage
    <2>4. QED BY <1>1, <2>1, <2>2, <2>3
              DEF Structured, OnFlash, InsertStage, DeleteStage, ShiftStage, CopyWindow
<1>5. CASE UnlinkEnds
    <2>1. /\ UNCHANGED entry /\ Used' = Used /\ pc' = "erase"
          /\ head' = IF intent.prev = NULL THEN intent.next ELSE head
          /\ tail' = IF intent.next = NULL THEN intent.prev ELSE tail
        BY <1>5 DEF UnlinkEnds, Used
    <2>2. WithoutTarget'
        BY <1>1, <2>1 DEF WithoutTarget, Others
    <2>3. /\ intent.prev # NULL => entry[intent.prev].next = intent.next
          /\ intent.next # NULL => entry[intent.next].prev = intent.prev
        BY <1>5 DEF UnlinkEnds, Structured, DeleteStage
    <2>4. QED BY <1>1, <2>1, <2>2, <2>3
              DEF Structured, OnFlash, InsertStage, DeleteStage, ShiftStage, CopyWindow
<1>6. QED BY <1>3, <1>4, <1>5

LEMMA EraseTargetStructured ==
    ASSUME LogInv, Structured, EraseTarget PROVE Structured'
<1> DEFINE t == intent.target
<1>1. /\ intent.state = "deleting" /\ t \in Used /\ WithoutTarget
      /\ Probed(entry, Used, {t}) /\ UNCHANGED <<head, tail, intent>>
      /\ pc' = "to_shifting" /\ t \in Ids
    BY Deleting, LogFacts DEF EraseTarget, Goto
<1>2. /\ entry'[t] = NoEntry
      /\ \A j \in Ids \ {t} : entry'[j] = entry[j]
    BY <1>1, LogFacts DEF EraseTarget, Contents
<1>3. Used' = Others /\ Used = Others \cup {t} /\ Others \subseteq Ids
    BY <1>1, <1>2, LogFacts DEF Used, Others
<1>4. /\ intent.prev # NULL => entry[intent.prev].next = intent.next
      /\ intent.next # NULL => entry[intent.next].prev = intent.prev
      /\ intent.prev = NULL => head = intent.next
      /\ intent.next = NULL => tail = intent.prev
    BY DEF EraseTarget, Structured, DeleteStage
<1>5. Threads(entry, Others, head, tail)
    <2>1. Threads(Relink(entry, intent.prev, intent.next, intent.next, intent.prev), Others,
                  head, tail)
        BY <1>1, <1>4 DEF WithoutTarget
    <2>2. \A j \in Others : /\ entry[j] # NoEntry
                            /\ entry[j].next = IF j = intent.prev THEN intent.next
                                               ELSE entry[j].next
                            /\ entry[j].prev = IF j = intent.next THEN intent.prev
                                               ELSE entry[j].prev
        BY <1>3, <1>4, LogFacts
    <2>3. QED BY <1>3, <2>1, <2>2, LogFacts, RelinkDone
<1>6. \A j \in Others : entry'[j] = entry[j]
    BY <1>2, <1>3 DEF Others
<1>7. Threads(entry', Others, head, tail)
    BY <1>5, <1>6, ThreadsSame
<1>8. Probed(entry', Others, {t})
    BY <1>1, <1>3, <1>6 DEF Probed, OnPath
<1>9. t \notin Used' /\ t = intent'.target
    BY <1>1, <1>3 DEF Others
<1>10. QED BY <1>1, <1>3, <1>7, <1>8, <1>9
           DEF Structured, OnFlash, InsertStage, DeleteStage, ShiftStage, CopyWindow

\* An empty id that heads the ids from the logged one on is the only hole.
LEMMA ToShiftingStructured ==
    ASSUME LogInv, Structured, ToShifting PROVE Structured'
<1> DEFINE t == intent.target
<1>1. /\ UNCHANGED <<entry, head, tail>> /\ Used' = Used /\ pc' = "shift"
      /\ intent'.state = "shifting" /\ intent'.target = t
      /\ hole' = t /\ curr' = Succ(t)
    BY DEF ToShifting, ShiftingFrom, Goto, Used
<1>2. t \in Ids /\ t \notin Used /\ intent.state = "deleting"
    BY LogFacts DEF ToShifting, Structured, DeleteStage, LogInv, IntentCoversWrite,
                    DeletePhases
<1>3. Probed(entry, Used, {t}) /\ Threads(entry, Used, head, tail)
    BY <1>2 DEF Structured, OnFlash
<1>4. IsHole(t)'
    <2>1. t \in HolesAhead'
        BY <1>1, <1>2, RangeAssumption DEF HolesAhead, Used, Ids
    <2>2. QED BY <1>1, <2>1 DEF IsHole, HolesAhead
<1>5. \A j \in Ids : ~Seen(t, Succ(t), j)
    BY <1>2, SeenFirst
<1>6. QED BY <1>1, <1>2, <1>3, <1>4, <1>5
          DEF Structured, OnFlash, InsertStage, DeleteStage, ShiftStage, CopyWindow

(* The shift. *)

\* Once all ids up to the end of the cluster were seen no probe passes the hole.
LEMMA HoleOffPaths ==
    ASSUME NEW e, NEW U, U \subseteq Ids, \A i \in U : Hash[e[i].key] \in Ids,
           NEW h \in Ids, NEW c \in Ids, Probed(e, U, {h}),
           \A j \in Ids : Seen(h, c, j) => j \in U /\ ~OnPath(e, h, j),
           h \notin U, c = h \/ c \notin U
    PROVE  Probed(e, U, {})
<1>1. ASSUME NEW i \in U, OnPath(e, h, i)
      PROVE  FALSE
    <2>1. i \in Ids /\ i # h /\ ~Seen(h, c, i) /\ Hash[e[i].key] \in Ids
        BY <1>1
    <2>2. c # h /\ ~(Dist(h, i) < Dist(h, c)) /\ c \notin U
        BY <2>1 DEF Seen
    <2>3. Dist(h, c) < Dist(h, i)
        BY <2>1, <2>2, DistFacts, DistType
    <2>4. OnPath(e, c, i)
        BY <1>1, <2>1, <2>3, BetweenOnPath DEF OnPath
    <2>5. QED BY <2>2, <2>4 DEF Probed
<1>2. QED BY <1>1 DEF Probed

\* What the shift has at hand.
LEMMA Shifting ==
    ASSUME LogInv, Structured, pc = "shift"
    PROVE  /\ intent.state = "shifting" /\ hole \in Ids /\ curr \in Ids /\ hole \notin Used
           /\ IsHole(hole) /\ Probed(entry, Used, {hole}) /\ Threads(entry, Used, head, tail)
           /\ \A j \in Ids : Seen(hole, curr, j) => j \in Used /\ ~OnPath(entry, hole, j)
           /\ \A j \in Used : Hash[entry[j].key] \in Ids
           /\ intent.target <= hole
           /\ \A j \in Ids : intent.target <= j /\ j <= hole => j \in Used \cup {hole}
<1>1. /\ intent.state = "shifting" /\ hole \in Ids /\ curr \in Ids
    BY DEF LogInv, IntentCoversWrite, ShiftPhases
<1>2. /\ IsHole(hole) /\ Probed(entry, Used, {hole}) /\ Threads(entry, Used, head, tail)
      /\ \A j \in Ids : Seen(hole, curr, j) => j \in Used /\ ~OnPath(entry, hole, j)
    BY <1>1 DEF Structured, OnFlash, ShiftStage, CopyWindow
<1>3. hole \notin Used /\ intent.target <= hole
    BY <1>2 DEF IsHole, HolesAhead, Used
<1>4. ASSUME NEW j \in Ids, intent.target <= j, j <= hole, j \notin Used
      PROVE  j = hole
    <2>1. hole <= j
        BY <1>2, <1>4 DEF IsHole, HolesAhead, Used
    <2>2. QED BY <1>1, <1>4, <2>1, IdsAreNaturals
<1>5. \A j \in Used : Hash[entry[j].key] \in Ids
    BY LogFacts
<1>6. QED BY <1>1, <1>2, <1>3, <1>4, <1>5

LEMMA ShiftLoopStructured ==
    ASSUME LogInv, Structured, ShiftDone \/ ShiftSkip PROVE Structured'
<1>1. pc = "shift" /\ UNCHANGED <<flash, hole>> /\ Used' = Used
      /\ UNCHANGED <<entry, head, tail, intent>>
    BY DEF ShiftDone, ShiftSkip, flash, loop, Used
<1>2. OnFlash'
    BY <1>1, FlashKept DEF Structured, CopyWindow
<1>3. CASE ShiftDone
    <2>1. pc' = "clear" /\ (curr = hole \/ curr \notin Used)
        BY <1>3 DEF ShiftDone, Goto, Used
    <2>2. Probed(entry, Used, {})
        BY <1>1, <2>1, Shifting, HoleOffPaths, LogFacts
    <2>3. Whole'
        BY <1>1, <2>2, Shifting DEF Whole
    <2>4. QED BY <1>2, <2>1, <2>3
              DEF Structured, InsertStage, DeleteStage, ShiftStage, CopyWindow
<1>4. CASE ShiftSkip
    <2>1. /\ pc' = "shift" /\ curr' = Succ(curr) /\ curr \in Used
          /\ ~OnPath(entry, hole, curr)
        BY <1>1, <1>4, Shifting DEF ShiftSkip, Used, Closer, OnPath
    <2>2. \A j \in Ids : Seen(hole, Succ(curr), j) => j \in Used /\ ~OnPath(entry, hole, j)
        BY <1>1, <2>1, Shifting, SeenNext
    <2>3. IsHole(hole)'
        BY <1>1, Shifting DEF IsHole, HolesAhead
    <2>4. QED BY <1>1, <1>2, <2>1, <2>2, <2>3, Shifting
              DEF Structured, InsertStage, DeleteStage, ShiftStage, CopyWindow
<1>5. QED BY <1>3, <1>4

LEMMA ShiftCopyStructured ==
    ASSUME LogInv, Structured, ShiftCopy PROVE Structured'
<1>1. /\ UNCHANGED <<head, tail, intent, hole, curr>> /\ pc' = "shift_prev"
      /\ curr # hole /\ curr \in Ids /\ hole \in Ids /\ curr \in Used /\ hole \notin Used
      /\ OnPath(entry, hole, curr) /\ intent.state = "shifting"
    BY Shifting DEF ShiftCopy, Goto, loop, Used, Closer, OnPath
<1>2. /\ Probed(entry, Used, {hole}) /\ Threads(entry, Used, head, tail)
      /\ \A j \in Ids : Seen(hole, curr, j) => j \in Used
      /\ \A j \in Used : Hash[entry[j].key] \in Ids
      /\ intent.target <= hole
      /\ \A j \in Ids : intent.target <= j /\ j <= hole => j \in Used \cup {hole}
    BY Shifting DEF ShiftCopy
<1>3. /\ entry' \in Contents /\ entry'[hole] = entry[curr]
      /\ \A j \in Ids \ {hole} : entry'[j] = entry[j]
    BY <1>1, LogFacts DEF ShiftCopy, Contents
<1>4. Used' = Used \cup {hole}
    BY <1>1, <1>3 DEF Used
<1>5. \A j \in Used : entry'[j] = entry[j]
    BY <1>1, <1>3, LogFacts
<1> DEFINE p == entry[curr].prev
           n == entry[curr].next
           first == IF p = NULL THEN hole ELSE head
           last == IF n = NULL THEN hole ELSE tail
<1>6. /\ entry \in Contents /\ Used \subseteq Ids /\ hole \in Ids \ Used
      /\ \A j \in Used : entry[j] # NoEntry
    BY <1>1, LogFacts
<1>7. /\ p \in (Used \ {curr}) \cup {NULL} /\ n \in (Used \ {curr}) \cup {NULL}
      /\ Threads(Relink(entry', p, hole, n, hole), (Used \ {curr}) \cup {hole}, first, last)
    BY <1>1, <1>2, <1>3, <1>5, <1>6, ThreadsMoved
<1>8. (Used \ {curr}) \cup {hole} = Used' \ {curr}
    BY <1>1, <1>4
<1>9. ASSUME NEW i \in Used' \ {curr}, NEW j \in Ids, OnPath(entry', j, i)
      PROVE  j \in Used'
    <2>1. CASE i = hole
        <3>1. OnPath(entry, j, curr)
            <4>1. /\ Dist(Hash[entry[curr].key], j) \in Nat
                  /\ Dist(Hash[entry[curr].key], hole) \in Nat
                  /\ Dist(Hash[entry[curr].key], curr) \in Nat
                BY <1>1, <1>2, DistType
            <4>2. QED BY <1>1, <1>3, <1>9, <2>1, <4>1 DEF OnPath
        <3>2. QED BY <1>1, <1>2, <1>4, <3>1 DEF Probed
    <2>2. CASE i # hole
        BY <1>2, <1>4, <1>5, <1>9, <2>2 DEF Probed, OnPath
    <2>3. QED BY <2>1, <2>2
<1>10. ASSUME NEW i \in Used' \ {curr}, NEW j \in Used' \ {curr}, entry'[i].key = entry'[j].key
       PROVE  i = j
    BY <1>1, <1>2, <1>3, <1>4, <1>5, <1>10 DEF Probed
<1>11. Probed(entry', Used' \ {curr}, {curr})
    BY <1>9, <1>10 DEF Probed
<1>12. /\ entry'[curr].prev = p /\ entry'[curr].next = n
       /\ p \in (Used' \ {hole, curr}) \cup {NULL} /\ n \in (Used' \ {hole, curr}) \cup {NULL}
    BY <1>1, <1>4, <1>5, <1>7
<1>13. Threads(Relink(entry', p, hole, n, hole), Used' \ {curr},
               IF p = NULL THEN hole ELSE head, IF n = NULL THEN hole ELSE tail)
    BY <1>7, <1>8
<1>14. QED BY <1>1, <1>2, <1>4, <1>11, <1>12, <1>13
           DEF Structured, OnFlash, InsertStage, DeleteStage, ShiftStage, CopyWindow

\* What the two copies of a record look like while its neighbours are relinked.
LEMMA Copying ==
    ASSUME LogInv, Structured, pc \in CopyWindow
    PROVE  /\ intent.state = "shifting" /\ hole \in Used /\ curr \in Used /\ curr # hole
           /\ hole \in Ids /\ curr \in Ids
           /\ entry[curr].prev \in (Used \ {hole, curr}) \cup {NULL}
           /\ entry[curr].next \in (Used \ {hole, curr}) \cup {NULL}
           /\ Probed(entry, Used \ {curr}, {curr})
           /\ \A j \in Ids : Seen(hole, curr, j) => j \in Used
           /\ intent.target <= hole
           /\ \A j \in Ids : intent.target <= j /\ j <= hole /\ j # curr => j \in Used
BY DEF LogInv, IntentCoversWrite, ShiftPhases, CopyWindow, Structured, ShiftStage

LEMMA ShiftPrevStructured ==
    ASSUME LogInv, Structured, ShiftPrev PROVE Structured'
<1> DEFINE p == entry[curr].prev
           n == entry[curr].next
<1>1. /\ UNCHANGED <<tail, intent, hole, curr>> /\ pc' = "shift_next"
      /\ head' = IF p = NULL THEN hole ELSE head
    BY DEF ShiftPrev, Goto, loop
<1>2. pc \in CopyWindow
    BY DEF ShiftPrev, CopyWindow
<1>3. /\ intent.state = "shifting" /\ hole \in Used /\ curr \in Used /\ curr # hole
      /\ hole \in Ids /\ curr \in Ids
      /\ p \in (Used \ {hole, curr}) \cup {NULL} /\ n \in (Used \ {hole, curr}) \cup {NULL}
      /\ Probed(entry, Used \ {curr}, {curr})
      /\ \A j \in Ids : Seen(hole, curr, j) => j \in Used
      /\ intent.target <= hole
      /\ \A j \in Ids : intent.target <= j /\ j <= hole /\ j # curr => j \in Used
    BY <1>2, Copying
<1>4. Threads(Relink(entry, p, hole, n, hole), Used \ {curr},
              IF p = NULL THEN hole ELSE head, IF n = NULL THEN hole ELSE tail)
    BY DEF ShiftPrev, Structured, ShiftStage
<1>5. /\ entry' \in Contents /\ Used' = Used
      /\ \A j \in Used : /\ entry'[j] # NoEntry
                         /\ entry'[j].key = entry[j].key
                         /\ entry'[j].prev = entry[j].prev
                         /\ entry'[j].next = IF j = p THEN hole ELSE entry[j].next
    BY <1>3, LogFacts, NextChanged DEF ShiftPrev, IdsOrNull
<1>6. entry'[curr].prev = p /\ entry'[curr].next = n
    BY <1>3, <1>5, NullAssumption
<1>7. Threads(Relink(entry', p, hole, n, hole), Used \ {curr},
              IF p = NULL THEN hole ELSE head, IF n = NULL THEN hole ELSE tail)
    <2>1. \A j \in Used \ {curr} : /\ entry[j] # NoEntry /\ entry'[j] # NoEntry
                                   /\ j # p => entry'[j].next = entry[j].next
                                   /\ j # n => entry'[j].prev = entry[j].prev
        BY <1>5, LogFacts
    <2>2. Used \ {curr} \subseteq Ids /\ entry \in Contents
        BY LogFacts
    <2> HIDE DEF p, n
    <2>3. QED BY <1>4, <1>5, <2>1, <2>2, RelinkSame
<1>8. Probed(entry', Used \ {curr}, {curr})
    BY <1>3, <1>5, ProbedSame
<1>9. IF p = NULL THEN head' = hole ELSE entry'[p].next = hole
    BY <1>1, <1>3, <1>5
<1>10. Threads(Relink(entry', p, hole, n, hole), Used \ {curr},
               IF p = NULL THEN hole ELSE head', IF n = NULL THEN hole ELSE tail)
    <2>1. (IF p = NULL THEN hole ELSE head') = (IF p = NULL THEN hole ELSE head)
        BY <1>1
    <2>2. QED BY <1>7, <2>1
<1> HIDE DEF p, n
<1>11. QED BY <1>1, <1>3, <1>5, <1>6, <1>8, <1>9, <1>10
           DEF Structured, OnFlash, InsertStage, DeleteStage, ShiftStage, CopyWindow

LEMMA ShiftNextStructured ==
    ASSUME LogInv, Structured, ShiftNext PROVE Structured'
<1> DEFINE p == entry[curr].prev
           n == entry[curr].next
<1>1. /\ UNCHANGED <<head, intent, hole, curr>> /\ pc' = "shift_del"
      /\ tail' = IF n = NULL THEN hole ELSE tail
    BY DEF ShiftNext, Goto, loop
<1>2. pc \in CopyWindow
    BY DEF ShiftNext, CopyWindow
<1>3. /\ intent.state = "shifting" /\ hole \in Used /\ curr \in Used /\ curr # hole
      /\ hole \in Ids /\ curr \in Ids
      /\ p \in (Used \ {hole, curr}) \cup {NULL} /\ n \in (Used \ {hole, curr}) \cup {NULL}
      /\ Probed(entry, Used \ {curr}, {curr})
      /\ \A j \in Ids : Seen(hole, curr, j) => j \in Used
      /\ intent.target <= hole
      /\ \A j \in Ids : intent.target <= j /\ j <= hole /\ j # curr => j \in Used
    BY <1>2, Copying
<1>4. /\ Threads(Relink(entry, p, hole, n, hole), Used \ {curr},
                 IF p = NULL THEN hole ELSE head, IF n = NULL THEN hole ELSE tail)
      /\ IF p = NULL THEN head = hole ELSE entry[p].next = hole
    BY DEF ShiftNext, Structured, ShiftStage
<1>5. /\ entry' \in Contents /\ Used' = Used
      /\ \A j \in Used : /\ entry'[j] # NoEntry
                         /\ entry'[j].key = entry[j].key
                         /\ entry'[j].next = entry[j].next
                         /\ entry'[j].prev = IF j = n THEN hole ELSE entry[j].prev
    BY <1>3, LogFacts, PrevChanged DEF ShiftNext, IdsOrNull
<1>6. entry'[curr].prev = p /\ entry'[curr].next = n
    BY <1>3, <1>5, NullAssumption
<1>7. Threads(Relink(entry, p, hole, n, hole), Used \ {curr}, head, tail')
    <2>1. /\ (IF p = NULL THEN hole ELSE head) = head
          /\ (IF n = NULL THEN hole ELSE tail) = tail'
        BY <1>1, <1>4
    <2>2. QED BY <1>4, <2>1
<1>8. Threads(entry', Used \ {curr}, head, tail')
    <2>1. \A j \in Used \ {curr} : /\ entry[j] # NoEntry
                                   /\ entry'[j].next = IF j = p THEN hole ELSE entry[j].next
                                   /\ entry'[j].prev = IF j = n THEN hole ELSE entry[j].prev
        BY <1>3, <1>4, <1>5, LogFacts
    <2>2. Used \ {curr} \subseteq Ids /\ entry \in Contents
        BY LogFacts
    <2> HIDE DEF p, n
    <2>3. QED BY <1>7, <2>1, <2>2, RelinkDone
<1>9. Probed(entry', Used \ {curr}, {curr})
    BY <1>3, <1>5, ProbedSame
<1> HIDE DEF p, n
<1>10. QED BY <1>1, <1>3, <1>5, <1>6, <1>8, <1>9
           DEF Structured, OnFlash, InsertStage, DeleteStage, ShiftStage, CopyWindow

LEMMA ShiftDeleteStructured ==
    ASSUME LogInv, Structured, ShiftDelete PROVE Structured'
<1>1. /\ UNCHANGED <<head, tail, intent, hole, curr>> /\ pc' = "shift_intent"
    BY DEF ShiftDelete, Goto, loop
<1>2. pc \in CopyWindow /\ Threads(entry, Used \ {curr}, head, tail)
    BY DEF ShiftDelete, CopyWindow, Structured, ShiftStage
<1>3. /\ intent.state = "shifting" /\ hole \in Used /\ curr \in Used /\ curr # hole
      /\ hole \in Ids /\ curr \in Ids
      /\ Probed(entry, Used \ {curr}, {curr})
      /\ \A j \in Ids : Seen(hole, curr, j) => j \in Used
      /\ intent.target <= hole
      /\ \A j \in Ids : intent.target <= j /\ j <= hole /\ j # curr => j \in Used
    BY <1>2, Copying
<1>4. entry'[curr] = NoEntry /\ \A j \in Ids \ {curr} : entry'[j] = entry[j]
    BY <1>3, LogFacts DEF ShiftDelete, Contents
<1>5. Used' = Used \ {curr}
    BY <1>3, <1>4 DEF Used
<1>6. \A j \in Used \ {curr} : entry'[j] = entry[j]
    BY <1>4, LogFacts
<1>7. Probed(entry', Used \ {curr}, {curr}) /\ Threads(entry', Used \ {curr}, head, tail)
    BY <1>2, <1>3, <1>6, ProbedSame, ThreadsSame
<1>8. ~Seen(hole, curr, curr)
    BY <1>3, DistType DEF Seen
<1>9. \A j \in Ids : Seen(hole, curr, j) => j \in Used'
    BY <1>3, <1>5, <1>8
<1>10. QED BY <1>1, <1>3, <1>5, <1>7, <1>9
           DEF Structured, OnFlash, InsertStage, DeleteStage, ShiftStage, CopyWindow

LEMMA ShiftIntentStructured ==
    ASSUME LogInv, Structured, ShiftIntent PROVE Structured'
<1>1. /\ UNCHANGED <<entry, head, tail>> /\ Used' = Used /\ pc' = "shift"
      /\ intent'.state = "shifting" /\ intent'.target = curr
      /\ hole' = curr /\ curr' = Succ(curr)
    BY DEF ShiftIntent, ShiftingFrom, Goto, Used
<1>2. curr \in Ids /\ curr \notin Used
    BY DEF ShiftIntent, LogInv, IntentCoversWrite, ShiftPhases, Structured, ShiftStage
<1>3. Probed(entry, Used, {curr}) /\ Threads(entry, Used, head, tail)
    BY DEF ShiftIntent, Structured, ShiftStage
<1>4. IsHole(hole)'
    <2>1. hole' \in HolesAhead'
        BY <1>1, <1>2, RangeAssumption DEF HolesAhead, Used, Ids
    <2>2. QED BY <1>1, <2>1 DEF IsHole, HolesAhead
<1>5. \A j \in Ids : ~Seen(curr, Succ(curr), j)
    BY <1>2, SeenFirst
<1>6. QED BY <1>1, <1>2, <1>3, <1>4, <1>5
          DEF Structured, OnFlash, InsertStage, DeleteStage, ShiftStage, CopyWindow

(* Recovery, the end of a call, and faults. *)

LEMMA HoleIsScanned ==
    ASSUME NEW h \in Ids, IsHole(h)
    PROVE  /\ HolesAhead # {}
           /\ h = CHOOSE i \in HolesAhead : \A j \in HolesAhead : i <= j
<1>1. h \in HolesAhead /\ HolesAhead \subseteq Nat
    BY IdsAreNaturals DEF IsHole, HolesAhead
<1>2. ASSUME NEW i \in HolesAhead, \A j \in HolesAhead : i <= j
      PROVE  i = h
    BY <1>1, <1>2 DEF IsHole
<1>3. \A j \in HolesAhead : h <= j
    BY DEF IsHole
<1>4. QED BY <1>1, <1>2, <1>3

LEMMA ResolveStructured ==
    ASSUME LogInv, Structured,
           ResolveNothing \/ ResolveInsert \/ ResolveUpdate \/ ResolveDelete \/ ResolveShift
    PROVE  Structured'
<1>1. /\ pc = "resolve" /\ UNCHANGED flash /\ Used' = Used
      /\ UNCHANGED <<entry, head, tail, intent>>
    BY DEF ResolveNothing, ResolveInsert, ResolveUpdate, ResolveDelete, ResolveShift, flash, Used
<1>2. OnFlash /\ OnFlash'
    BY <1>1, FlashKept DEF Structured, CopyWindow
<1>3. CASE ResolveNothing
    <2>1. pc' \in {"idle", "exec"}
        BY <1>3 DEF ResolveNothing, Answered, Leave
    <2>2. QED BY <1>2, <2>1, BetweenStages
<1>4. CASE ResolveInsert
    <2>1. CASE tail = intent.target
        <3>1. pc' = "clear" /\ Whole
            BY <1>2, <1>4, <2>1 DEF ResolveInsert, Goto, OnFlash, Whole
        <3>2. Whole'
            BY <1>1, <3>1 DEF Whole
        <3>3. QED BY <1>2, <3>1, <3>2
                  DEF Structured, InsertStage, DeleteStage, ShiftStage, CopyWindow
    <2>2. CASE tail # intent.target
        <3>1. pc' = "undo_link"
            BY <1>4, <2>2 DEF ResolveInsert, Goto
        <3>2. QED BY <1>1, <1>2, <2>2, <3>1
                  DEF Structured, InsertStage, DeleteStage, ShiftStage, CopyWindow
    <2>3. QED BY <2>1, <2>2
<1>5. CASE ResolveUpdate
    <2>1. pc' = "clear" /\ Whole
        BY <1>2, <1>5 DEF ResolveUpdate, Goto, OnFlash
    <2>2. Whole'
        BY <1>1, <2>1 DEF Whole
    <2>3. QED BY <1>2, <2>1, <2>2
              DEF Structured, InsertStage, DeleteStage, ShiftStage, CopyWindow
<1>6. CASE ResolveDelete
    <2>1. /\ pc' = IF entry[intent.target] = NoEntry THEN "to_shifting" ELSE "unlink_prev"
          /\ intent.target \in Ids
        BY <1>6, LogFacts DEF ResolveDelete, Goto
    <2>2. pc' = IF intent.target \notin Used THEN "to_shifting" ELSE "unlink_prev"
        BY <2>1 DEF Used
    <2>3. QED BY <1>1, <1>2, <2>2
              DEF Structured, InsertStage, DeleteStage, ShiftStage, CopyWindow
<1>7. CASE ResolveShift
    <2>1. PICK h \in Ids : IsHole(h) /\ Probed(entry, Used, {h})
        BY <1>1, <1>2, <1>7 DEF ResolveShift, OnFlash, CopyWindow
    <2>2. hole' = h /\ curr' = Succ(h) /\ pc' = "shift"
        BY <1>7, <2>1, HoleIsScanned DEF ResolveShift, Goto
    <2>3. IsHole(hole)'
        BY <1>1, <2>1, <2>2 DEF IsHole, HolesAhead
    <2>4. \A j \in Ids : ~Seen(h, Succ(h), j)
        BY SeenFirst
    <2>5. QED BY <1>1, <1>2, <2>1, <2>2, <2>3, <2>4
              DEF Structured, InsertStage, DeleteStage, ShiftStage, CopyWindow
<1>8. QED BY <1>3, <1>4, <1>5, <1>6, <1>7

LEMMA Undoing ==
    ASSUME LogInv, Structured, pc \in {"undo_link", "undo_payload"}
    PROVE  /\ intent.state = "inserting" /\ tail # intent.target /\ intent.target \in Ids
           /\ Probed(entry, Used, {}) /\ Probed(entry, Others, {}) /\ WithoutTarget
           /\ tail = intent.prev /\ intent.next = NULL
           /\ tail = NULL => head = NULL
           /\ Others \subseteq Used /\ tail \in Others \cup {NULL}
<1>1. /\ intent.state = "inserting" /\ tail # intent.target /\ intent.target \in Ids
    BY LogFacts DEF LogInv, IntentCoversWrite, InsertPhases, Structured, InsertStage
<1>2. QED BY <1>1 DEF Structured, OnFlash, WithoutTarget, Others

LEMMA UndoLinkStructured ==
    ASSUME LogInv, Structured, UndoLink PROVE Structured'
<1>1. /\ UNCHANGED <<head, tail, intent>> /\ pc' = "undo_payload"
      /\ intent.state = "inserting" /\ tail # intent.target
      /\ Probed(entry, Used, {}) /\ Probed(entry, Others, {}) /\ WithoutTarget
      /\ tail = intent.prev /\ intent.next = NULL
      /\ tail = NULL => head = NULL
      /\ Others \subseteq Used /\ tail \in Others \cup {NULL}
    BY Undoing DEF UndoLink, Goto
<1>2. /\ entry' \in Contents /\ Used' = Used
      /\ \A j \in Used : /\ entry'[j] # NoEntry /\ entry'[j].key = entry[j].key
                         /\ entry'[j].prev = entry[j].prev
                         /\ entry'[j].next = IF j = tail THEN NULL ELSE entry[j].next
    BY <1>1, NextChanged, LogFacts DEF UndoLink, IdsOrNull
<1>3. Others' = Others
    BY <1>1, <1>2 DEF Others
<1>4. Probed(entry', Used, {}) /\ Probed(entry', Others, {})
    BY <1>1, <1>2, ProbedSame
<1>5. WithoutTarget'
    BY <1>1, <1>2, StillWithoutTarget
<1>6. tail # NULL => entry'[tail].next = NULL
    BY <1>1, <1>2
<1>7. QED BY <1>1, <1>2, <1>3, <1>4, <1>5, <1>6
          DEF Structured, OnFlash, InsertStage, DeleteStage, ShiftStage, CopyWindow

LEMMA UndoPayloadStructured ==
    ASSUME LogInv, Structured, UndoPayload PROVE Structured'
<1> DEFINE t == intent.target
<1>1. /\ UNCHANGED <<head, tail, intent>> /\ pc' = "clear"
      /\ intent.state = "inserting" /\ tail # t /\ t \in Ids
      /\ Probed(entry, Others, {}) /\ WithoutTarget
      /\ tail = intent.prev /\ intent.next = NULL
      /\ tail = NULL => head = NULL
    BY Undoing DEF UndoPayload, Goto
<1>2. entry'[t] = NoEntry /\ \A j \in Ids \ {t} : entry'[j] = entry[j]
    BY <1>1, LogFacts DEF UndoPayload, Contents
<1>3. Used' = Others /\ Others' = Others /\ Others \subseteq Ids
    BY <1>1, <1>2 DEF Used, Others
<1>4. \A j \in Others : entry'[j] = entry[j] /\ entry[j] # NoEntry
    BY <1>2 DEF Others, Used
<1>5. tail # NULL => entry[tail].next = NULL
    BY DEF UndoPayload, Structured, InsertStage
<1>6. entry' \in Contents
    BY <1>1, LogFacts DEF UndoPayload, Contents
<1>7. Probed(entry', Others, {})
    BY <1>1, <1>4, ProbedSame
<1>8. Threads(Relink(entry, tail, NULL, NULL, tail), Others, head, tail)
    <2>1. (IF tail = NULL THEN NULL ELSE head) = head
        BY <1>1
    <2>2. QED BY <1>1, <2>1 DEF WithoutTarget
<1>9. Threads(entry', Others, head, tail)
    <2>1. \A j \in Others : /\ entry[j] # NoEntry
                            /\ entry'[j].next = IF j = tail THEN NULL ELSE entry[j].next
                            /\ entry'[j].prev = IF j = NULL THEN tail ELSE entry[j].prev
        BY <1>3, <1>4, <1>5, NullAssumption
    <2>2. QED BY <1>3, <1>8, <2>1, LogFacts, RelinkDone
<1>10. WithoutTarget'
    <2>1. \A j \in Others : entry[j] # NoEntry /\ entry'[j] # NoEntry
                            /\ (j # intent.prev => entry'[j].next = entry[j].next)
                            /\ (j # intent.next => entry'[j].prev = entry[j].prev)
        BY <1>4
    <2>2. Threads(Relink(entry', intent.prev, intent.next, intent.next, intent.prev), Others,
                  IF intent.prev = NULL THEN intent.next ELSE head,
                  IF intent.next = NULL THEN intent.prev ELSE tail)
        BY <1>1, <1>3, <1>6, <2>1, LogFacts, RelinkSame DEF WithoutTarget
    <2>3. QED BY <1>1, <1>3, <2>2 DEF WithoutTarget
<1>11. Whole'
    BY <1>1, <1>3, <1>7, <1>9 DEF Whole
<1>12. QED BY <1>1, <1>3, <1>7, <1>10, <1>11
           DEF Structured, OnFlash, InsertStage, DeleteStage, ShiftStage, CopyWindow, Whole

LEMMA ClearStructured ==
    ASSUME LogInv, Structured, Clear PROVE Structured'
<1>1. Whole /\ UNCHANGED <<entry, head, tail>> /\ intent'.state = "none"
    BY DEF Clear, Structured, NoIntent
<1>2. pc' \in {"exec", "idle"}
    <2>1. CASE resolving /\ req.kind # "open"
        BY <2>1, Zenon DEF Clear
    <2>2. CASE ~(resolving /\ req.kind # "open")
        BY <2>2 DEF Clear, Answered, Leave
    <2>3. QED BY <2>1, <2>2
<1>3. OnFlash'
    BY <1>1 DEF OnFlash, Whole, Used
<1>4. QED BY <1>2, <1>3, BetweenStages

\* No link of a record that is there leads to one that is not.
LEMMA NoneMissing ==
    ASSUME LogInv, Structured
    PROVE  ~Dangling(Neighbour)
<1>1. ASSUME NEW x \in Used \cup {NULL}
      PROVE  ~Dangling(x)
    BY DEF Dangling, Used
<1>2. CASE pc = "link"
    <2>1. intent.state = "inserting"
        BY <1>2 DEF LogInv, IntentCoversWrite, InsertPhases
    <2>2. tail \in Used \cup {NULL}
        BY <1>2, <2>1 DEF Structured, OnFlash, InsertStage, WithoutTarget, Others
    <2>3. QED BY <1>1, <1>2, <2>2 DEF Neighbour
<1>3. CASE pc = "undo_link"
    <2>1. intent.prev \in Used \cup {NULL}
        BY <1>3, Undoing
    <2>2. QED BY <1>1, <1>3, <2>1 DEF Neighbour
<1>4. CASE pc \in {"unlink_prev", "unlink_next"}
    <2>1. intent.prev \in Used \cup {NULL} /\ intent.next \in Used \cup {NULL}
        BY <1>4, Deleting DEF WithoutTarget
    <2>2. QED BY <1>1, <1>4, <2>1 DEF Neighbour
<1>5. CASE pc \in {"shift_prev", "shift_next"}
    <2>1. entry[curr].prev \in Used \cup {NULL} /\ entry[curr].next \in Used \cup {NULL}
        BY <1>5, Copying DEF CopyWindow
    <2>2. QED BY <1>1, <1>5, <2>1 DEF Neighbour
<1>6. CASE pc \notin {"link", "undo_link", "unlink_prev", "unlink_next", "shift_prev",
                      "shift_next"}
    <2>1. Neighbour = NULL
        BY <1>6 DEF Neighbour
    <2>2. QED BY <1>1, <2>1
<1>7. QED BY <1>2, <1>3, <1>4, <1>5, <1>6

\* A hole that is still ahead of the logged one is found again.
LEMMA HoleIsFound ==
    ASSUME LogInv, Structured, pc = "shift_intent", HolesAhead # {}
    PROVE  IsHole(curr)
<1>1. /\ hole \in Ids /\ curr \in Ids /\ intent.target \in Ids /\ curr \notin Used
      /\ curr # hole /\ intent.target <= hole
      /\ \A j \in Ids : Seen(hole, curr, j) => j \in Used
      /\ \A j \in Ids : intent.target <= j /\ j <= hole /\ j # curr => j \in Used
    BY LogFacts DEF LogInv, IntentCoversWrite, ShiftPhases, Structured, ShiftStage
<1>2. \A j \in HolesAhead : j \in Ids /\ intent.target <= j /\ j \notin Used
    BY DEF HolesAhead, Used
<1>3. ASSUME NEW j \in HolesAhead, j # curr
      PROVE  hole < j /\ ~(Dist(hole, j) < Dist(hole, curr))
    BY <1>1, <1>2, <1>3, RangeAssumption DEF Seen, Ids
<1>4. curr \in HolesAhead
    <2>1. SUFFICES ASSUME ~(intent.target <= curr) PROVE FALSE
        BY <1>1 DEF HolesAhead, Used
    <2>2. PICK j \in HolesAhead : TRUE
        OBVIOUS
    <2>3. j # curr
        BY <1>2, <2>1
    <2>4. hole < j /\ ~(Dist(hole, j) < Dist(hole, curr)) /\ curr < hole /\ j \in Ids
        BY <1>1, <1>2, <1>3, <2>1, <2>3, RangeAssumption DEF Ids
    <2>5. QED BY <1>1, <2>4, RangeAssumption DEF Dist, Size, Ids
<1>5. ASSUME NEW j \in HolesAhead
      PROVE  curr <= j
    <2>1. CASE j = curr
        BY <1>1, <2>1, RangeAssumption DEF Ids
    <2>2. CASE j # curr
        <3>1. hole < j /\ ~(Dist(hole, j) < Dist(hole, curr)) /\ j \in Ids
            BY <1>2, <1>3, <2>2
        <3>2. QED BY <1>1, <3>1, RangeAssumption DEF Dist, Size, Ids
    <2>3. QED BY <2>1, <2>2
<1>6. QED BY <1>4, <1>5 DEF IsHole

LEMMA FaultStructured ==
    ASSUME LogInv, Structured, Sparing, PowerLoss \/ ZmsError PROVE Structured'
<1>1. /\ UNCHANGED flash /\ pc' \in {"idle", "down"} /\ pc \notin CopyWindow
      /\ ~HoleWrapped
    <2>1. CASE PowerLoss
        BY <2>1 DEF PowerLoss, Leave, Sparing
    <2>2. CASE ZmsError
        BY <2>2 DEF ZmsError, Failed, Leave, Sparing
    <2>3. QED BY <2>1, <2>2
<1>2. CASE pc # "shift_intent"
    BY <1>1, <1>2, FlashKept, BetweenStages DEF Structured
<1>3. CASE pc = "shift_intent"
    <2>1. /\ intent.state = "shifting" /\ curr \in Ids
          /\ Probed(entry, Used, {curr}) /\ Threads(entry, Used, head, tail)
        BY <1>3 DEF LogInv, IntentCoversWrite, ShiftPhases, Structured, ShiftStage
    <2>2. IsHole(curr)
        BY <1>1, <1>3, <2>1, HoleIsFound DEF HoleWrapped
    <2>3. OnFlash'
        BY <1>1, <2>1, <2>2 DEF OnFlash, flash, Used, IsHole, HolesAhead
    <2>4. QED BY <1>1, <2>3, BetweenStages
<1>4. QED BY <1>2, <1>3

LEMMA StructuredInit == Init => Structured
<1> SUFFICES ASSUME Init PROVE Structured
    OBVIOUS
<1>1. Used = {} /\ intent.state = "none" /\ pc = "down"
    BY DEF Init, Used, NoIntent
<1>2. \A pos : Chain(pos, entry, {}, head, tail)
    BY DEF Init, Chain
<1>3. Threads(entry, {}, head, tail)
    <2>1. [i \in Ids |-> 0] \in [Ids -> Nat]
        OBVIOUS
    <2>2. QED BY <1>2, <2>1 DEF Threads
<1>4. Whole
    BY <1>1, <1>3 DEF Whole, Probed
<1>5. QED BY <1>1, <1>4 DEF Structured, OnFlash, InsertStage, DeleteStage, ShiftStage, CopyWindow

LEMMA StructuredStep ==
    ASSUME LogInv, Structured, Sparing, [Next]_vars PROVE Structured'
<1>1. CASE UNCHANGED vars
    <2>1. UNCHANGED <<entry, head, tail, intent, pc, req, hole, curr>> /\ Used' = Used
        BY <1>1 DEF vars, flash, call, loop, Used
    <2>2. OnFlash' = OnFlash
        BY <2>1 DEF OnFlash, Whole, WithoutTarget, Others, IsHole, HolesAhead
    <2>3. InsertStage' = InsertStage /\ DeleteStage' = DeleteStage
        BY <2>1 DEF InsertStage, DeleteStage
    <2>4. ShiftStage' = ShiftStage
        BY <2>1 DEF ShiftStage, IsHole, HolesAhead
    <2>5. QED BY <2>1, <2>2, <2>3, <2>4 DEF Structured, Whole
<1>2. CASE (\E r \in Requests : Begin(r)) \/ AnswerMiss \/ FindHit
    <2>1. /\ UNCHANGED flash /\ pc' \in {"idle", "resolve"}
          /\ pc \notin CopyWindow \cup {"shift_intent"}
        BY <1>2 DEF Begin, AnswerMiss, FindHit, Answered, Leave, CopyWindow
    <2>2. QED BY <2>1, FlashKept, BetweenStages DEF Structured
<1>3. CASE NeighbourMissing
    BY <1>3, NoneMissing DEF NeighbourMissing
<1>4. CASE Wipe
    BY <1>4 DEF Wipe, Structured
<1>5. CASE ResolveShiftWrapped
    BY <1>5 DEF ResolveShiftWrapped, Structured, OnFlash, IsHole, CopyWindow
<1>6. CASE UndoPayloadRefused
    BY <1>6 DEF UndoPayloadRefused, Sparing
<1>7. CASE Insert
    BY <1>7, InsertIntentStructured, InsertPayloadStructured, InsertLinkStructured,
       InsertEndsStructured DEF Insert
<1>8. CASE Delete
    BY <1>8, DeleteIntentStructured, UnlinkStructured, EraseTargetStructured,
       ToShiftingStructured DEF Delete
<1>9. CASE Shift
    BY <1>9, ShiftLoopStructured, ShiftCopyStructured, ShiftPrevStructured,
       ShiftNextStructured, ShiftDeleteStructured, ShiftIntentStructured DEF Shift
<1>10. CASE Resolve
    BY <1>5, <1>10, ResolveStructured, UndoLinkStructured, UndoPayloadStructured DEF Resolve
<1>11. CASE Clear
    BY <1>11, ClearStructured
<1>12. CASE PowerLoss \/ ZmsError
    BY <1>12, FaultStructured
<1>13. QED BY <1>1, <1>2, <1>3, <1>4, <1>6, <1>7, <1>8, <1>9, <1>10, <1>11, <1>12
           DEF Next, Work, Fault

LEMMA StructuredHolds == ASSUME Sparing PROVE Spec => [](LogInv /\ Structured)
<1>1. LogInv /\ Structured /\ [Next]_vars => (LogInv /\ Structured)'
    BY StructuredStep, LogInvStep
<1>2. QED BY <1>1, LogInvInit, StructuredInit, PTL DEF Spec

-----------------------------------------------------------------------------
(* Following the list.  Walk is a recursion; that it is what it is defined *)
(* to be follows from the least number of steps up to which it were not.   *)

Follow(w, n) ==
    IF n = 0 THEN head
    ELSE IF w[n - 1] = NULL \/ entry[w[n - 1]] = NoEntry THEN NULL
    ELSE entry[w[n - 1]].next

LEMMA SizeType == Size \in Nat /\ Size >= 1
BY RangeAssumption DEF Size

LEMMA WalkRuns == Walk = [n \in 0 .. Size |-> Follow(Walk, n)]
<1> DEFINE Walks(w, m) == w = [n \in 0 .. m |-> Follow(w, n)]
           Bad == {m \in Nat : \A w : ~Walks(w, m)}
<1>1. ASSUME Bad # {} PROVE FALSE
    <2>1. Bad \subseteq Nat
        OBVIOUS
    <2>2. PICK m \in Bad : \A k \in Bad : m <= k
        <3> HIDE DEF Bad
        <3> QED BY <1>1, <2>1, LeastNatural
    <2>3. m \in Nat
        OBVIOUS
    <2>4. m # 0
        <3> DEFINE w == [n \in 0 .. 0 |-> head]
        <3>1. w = [n \in 0 .. 0 |-> Follow(w, n)]
            BY DEF Follow
        <3> HIDE DEF w
        <3>2. Walks(w, 0)
            BY <3>1
        <3>3. QED BY <3>2
    <2>5. m - 1 \in Nat /\ m - 1 \notin Bad
        BY <2>2, <2>3, <2>4
    <2>6. PICK w : Walks(w, m - 1)
        BY <2>5
    <2> DEFINE u == [n \in 0 .. m |-> IF n = m THEN Follow(w, m) ELSE w[n]]
    <2>7. \A n \in 0 .. m - 1 : u[n] = w[n] /\ n # m /\ n \in 0 .. m
        BY <2>3
    <2>8. \A n \in 0 .. m - 1 : w[n] = Follow(w, n)
        BY <2>6
    <2>9. ASSUME NEW n \in 0 .. m PROVE u[n] = Follow(u, n)
        <3>1. n # 0 => n - 1 \in 0 .. m - 1
            BY <2>3
        <3>2. n # 0 => u[n - 1] = w[n - 1]
            BY <2>7, <3>1
        <3>3. Follow(u, n) = Follow(w, n)
            <4> HIDE DEF u
            <4> QED BY <3>2 DEF Follow
        <3>4. u[n] = Follow(w, n)
            <4>1. CASE n = m
                BY <4>1
            <4>2. CASE n # m
                <5>1. n \in 0 .. m - 1
                    BY <2>3, <4>2
                <5> HIDE DEF u
                <5>2. QED BY <2>7, <2>8, <5>1
            <4>3. QED BY <4>1, <4>2
        <3>5. QED BY <3>3, <3>4
    <2>10. u = [n \in 0 .. m |-> u[n]]
        OBVIOUS
    <2> HIDE DEF u
    <2>11. u = [n \in 0 .. m |-> Follow(u, n)]
        BY <2>9, <2>10
    <2>12. Walks(u, m)
        BY <2>11
    <2>13. QED BY <2>2, <2>12
<1>2. \E w : w = [n \in 0 .. Size |-> Follow(w, n)]
    BY <1>1, SizeType
<1>3. Walk = CHOOSE w : w = [n \in 0 .. Size |-> Follow(w, n)]
    BY DEF Walk, Follow
<1>4. QED BY <1>2, <1>3

LEMMA WalkIs == \A n \in 0 .. Size : Walk[n] = Follow(Walk, n)
<1> HIDE DEF Walk
<1>1. QED BY WalkRuns

\* A walk meets records in the order of the list, until it ends.
LEMMA WalkAdvances ==
    ASSUME LogInv, NEW pos \in [Ids -> Nat], Chain(pos, entry, Used, head, tail)
    PROVE  /\ \A n \in 0 .. Size : Walk[n] \in Used \cup {NULL}
           /\ \A n \in 1 .. Size : Walk[n] # NULL =>
                /\ Walk[n - 1] # NULL /\ pos[Walk[n - 1]] < pos[Walk[n]]
           /\ \A n \in 1 .. Size : Walk[n - 1] # NULL => Walk[n] = entry[Walk[n - 1]].next
<1>1. /\ head \in Used \cup {NULL} /\ Used \subseteq Ids /\ NULL \notin Used
      /\ \A i \in Used : entry[i].next \in Used \cup {NULL} /\ entry[i] # NoEntry
    BY LogFacts DEF Chain
<1>2. \A n \in 0 .. Size : Walk[n] = Follow(Walk, n)
    BY WalkIs
<1> DEFINE Bad == {n \in 0 .. Size : Walk[n] \notin Used \cup {NULL}}
<1>3. ASSUME Bad # {} PROVE FALSE
    <2>1. Bad \subseteq Nat
        BY SizeType
    <2>2. PICK m \in Bad : \A k \in Bad : m <= k
        <3> HIDE DEF Bad
        <3> QED BY <1>3, <2>1, LeastNatural
    <2>3. m \in 0 .. Size /\ Walk[m] \notin Used \cup {NULL}
        OBVIOUS
    <2>4. m # 0
        BY <1>1, <1>2, <2>3 DEF Follow
    <2>5. m - 1 \in 0 .. Size /\ m - 1 \notin Bad
        BY <2>1, <2>2, <2>3, <2>4, SizeType
    <2>6. Walk[m - 1] \in Used \cup {NULL}
        BY <2>5
    <2>7. QED BY <1>1, <1>2, <2>3, <2>4, <2>6 DEF Follow
<1>4. \A n \in 0 .. Size : Walk[n] \in Used \cup {NULL}
    BY <1>3
<1>5. ASSUME NEW n \in 1 .. Size, Walk[n - 1] # NULL
      PROVE  Walk[n] = entry[Walk[n - 1]].next
    <2>1. n \in 0 .. Size /\ n - 1 \in 0 .. Size /\ n # 0
        BY SizeType
    <2>2. Walk[n - 1] \in Used
        BY <1>4, <1>5, <2>1
    <2>3. QED BY <1>1, <1>2, <1>5, <2>1, <2>2 DEF Follow
<1>6. ASSUME NEW n \in 1 .. Size, Walk[n] # NULL
      PROVE  Walk[n - 1] # NULL /\ pos[Walk[n - 1]] < pos[Walk[n]]
    <2>1. n \in 0 .. Size /\ n - 1 \in 0 .. Size /\ n # 0
        BY SizeType
    <2>2. Walk[n - 1] # NULL
        BY <1>2, <1>6, <2>1 DEF Follow
    <2>3. Walk[n - 1] \in Used /\ Walk[n] = entry[Walk[n - 1]].next /\ Walk[n] \in Used
        BY <1>4, <1>5, <1>6, <2>1, <2>2
    <2>4. entry[Walk[n]].prev = Walk[n - 1]
        BY <1>6, <2>3 DEF Chain
    <2>5. QED BY <1>1, <2>2, <2>3, <2>4 DEF Chain
<1>7. QED BY <1>4, <1>5, <1>6

LEMMA WalkOrder ==
    ASSUME LogInv, NEW pos \in [Ids -> Nat], Chain(pos, entry, Used, head, tail),
           NEW n \in 0 .. Size, Walk[n] # NULL, NEW k \in 0 .. Size, k < n
    PROVE  Walk[k] # NULL /\ pos[Walk[k]] < pos[Walk[n]]
<1> DEFINE Earlier(a, b) == Walk[a] # NULL /\ pos[Walk[a]] < pos[Walk[b]]
           Bad == {b \in 0 .. Size : Walk[b] # NULL /\ k < b /\ ~Earlier(k, b)}
<1>1. ASSUME Bad # {} PROVE FALSE
    <2>1. Bad \subseteq Nat
        BY SizeType
    <2>2. PICK m \in Bad : \A j \in Bad : m <= j
        <3> HIDE DEF Bad
        <3> QED BY <1>1, <2>1, LeastNatural
    <2>3. m \in 0 .. Size /\ Walk[m] # NULL /\ k < m /\ ~Earlier(k, m)
        OBVIOUS
    <2>4. m \in 1 .. Size /\ m - 1 \in 0 .. Size
        BY <2>3, SizeType
    <2>5. Walk[m - 1] # NULL /\ pos[Walk[m - 1]] < pos[Walk[m]]
        BY <2>3, <2>4, WalkAdvances
    <2>6. m - 1 # k
        BY <2>3, <2>5
    <2>7. k < m - 1 /\ m - 1 \notin Bad
        BY <2>1, <2>2, <2>3, <2>4, <2>6
    <2>8. Earlier(k, m - 1)
        BY <2>4, <2>5, <2>7
    <2>9. pos[Walk[k]] \in Nat /\ pos[Walk[m - 1]] \in Nat /\ pos[Walk[m]] \in Nat
        <3>1. \A b \in 0 .. Size : Walk[b] # NULL => Walk[b] \in Ids
            BY WalkAdvances, LogFacts
        <3>2. QED BY <2>3, <2>4, <2>5, <2>8, <3>1
    <2>10. QED BY <2>3, <2>5, <2>8, <2>9
<1>2. QED BY <1>1

\* There are fewer ids than steps.
LEMMA WalkEnds ==
    ASSUME LogInv, NEW pos \in [Ids -> Nat], Chain(pos, entry, Used, head, tail)
    PROVE  Walk[Size] = NULL
<1> SUFFICES ASSUME Walk[Size] # NULL PROVE FALSE
    OBVIOUS
<1> DEFINE S == 0 .. Size
<1>1. Size \in S /\ Size \in Nat
    BY SizeType
<1>2. ASSUME NEW n \in S PROVE Walk[n] \in Ids
    <2>1. Walk[n] # NULL
        <3>1. CASE n = Size
            BY <3>1
        <3>2. CASE n # Size
            <4>1. n < Size
                BY <1>1, <3>2
            <4>2. QED BY <1>1, <4>1, WalkOrder
        <3>3. QED BY <3>1, <3>2
    <2>2. QED BY <1>2, <2>1, WalkAdvances, LogFacts
<1>3. Walk \in [S -> Ids]
    <2>1. Walk = [n \in S |-> Walk[n]]
        BY WalkRuns
    <2>2. QED BY <1>2, <2>1
<1>4. IsFiniteSet(S) /\ Cardinality(S) = Size + 1
    BY <1>1, FS_Interval
<1>5. IsFiniteSet(Ids) /\ Cardinality(Ids) = Size
    BY RangeAssumption, FS_Interval DEF Ids, Size
<1>6. PICK x, y \in S : x # y /\ Walk[x] = Walk[y]
    <2> HIDE DEF S
    <2>1. Cardinality(Ids) < Cardinality(S)
        BY <1>1, <1>4, <1>5
    <2>2. QED BY <1>3, <1>4, <1>5, <2>1, FS_PigeonHole
<1>7. Walk[x] # NULL /\ Walk[y] # NULL /\ pos[Walk[x]] \in Nat /\ pos[Walk[y]] \in Nat
    BY <1>2, NullAssumption
<1>8. x < y \/ y < x
    BY <1>6, SizeType
<1>9. QED BY <1>6, <1>7, <1>8, WalkOrder

\* No record is left out.
LEMMA WalkReaches ==
    ASSUME LogInv, NEW pos \in [Ids -> Nat], Chain(pos, entry, Used, head, tail),
           NEW r \in Used
    PROVE  \E n \in 0 .. Size : Walk[n] = r
<1> DEFINE Missed == {i \in Used : \A n \in 0 .. Size : Walk[n] # i}
           P == {pos[i] : i \in Missed}
<1>1. ASSUME Missed # {} PROVE FALSE
    <2>1. P \subseteq Nat /\ P # {}
        BY <1>1, LogFacts
    <2>2. PICK m \in P : \A k \in P : m <= k
        <3> HIDE DEF P
        <3> QED BY <2>1, LeastNatural
    <2>3. PICK i \in Missed : pos[i] = m
        OBVIOUS
    <2>4. i \in Used /\ i \in Ids /\ \A n \in 0 .. Size : Walk[n] # i
        BY LogFacts
    <2> HIDE DEF Missed
    <2>5. i # head
        <3>1. Walk[0] = head /\ 0 \in 0 .. Size
            BY WalkIs, SizeType DEF Follow
        <3>2. QED BY <2>4, <3>1
    <2>6. /\ entry[i].prev \in Used /\ entry[entry[i].prev].next = i
          /\ pos[entry[i].prev] < pos[i] /\ entry[i].prev \in Ids
        BY <2>4, <2>5, LogFacts DEF Chain
    <2>7. entry[i].prev \notin Missed
        <3>1. SUFFICES ASSUME entry[i].prev \in Missed PROVE FALSE
            OBVIOUS
        <3>2. pos[entry[i].prev] \in P
            BY <3>1
        <3>3. pos[entry[i].prev] \in Nat /\ pos[i] \in Nat
            BY <2>4, <2>6
        <3>4. m <= pos[entry[i].prev]
            <4> HIDE DEF P
            <4> QED BY <2>2, <3>2
        <3>5. QED BY <2>3, <2>6, <3>3, <3>4
    <2>8. PICK n \in 0 .. Size : Walk[n] = entry[i].prev
        BY <2>6, <2>7 DEF Missed
    <2>9. Walk[n] # NULL /\ n # Size
        BY <2>6, <2>8, LogFacts, WalkEnds
    <2>10. n + 1 \in 1 .. Size /\ n + 1 \in 0 .. Size /\ (n + 1) - 1 = n
        BY <2>9, SizeType
    <2>11. Walk[n + 1] = i
        BY <2>6, <2>8, <2>9, <2>10, WalkAdvances
    <2>12. QED BY <2>4, <2>10, <2>11
<1>2. QED BY <1>1

-----------------------------------------------------------------------------
(* What a reader of the store relies on.                                   *)

\* Wherever faults strike that spare the copy window, the iterator of
\* core.c meets every stored record once, from head to tail, and the
\* backward links mirror the forward ones, whenever no intent is pending.
THEOREM ListIsWhole == ASSUME Sparing PROVE Spec => []ListThreadsEveryRecord
<1>1. ASSUME LogInv, Structured PROVE ListThreadsEveryRecord
    <2>1. SUFFICES ASSUME intent.state = "none" PROVE
              /\ {Walk[n] : n \in 0 .. Size} \ {NULL} = Used
              /\ Walk[Size] = NULL
              /\ \A i \in Used :
                  /\ IF entry[i].next = NULL THEN i = tail
                     ELSE entry[entry[i].next].prev = i
                  /\ entry[i].prev = NULL <=> i = head
        BY DEF ListThreadsEveryRecord
    <2>2. PICK pos \in [Ids -> Nat] : Chain(pos, entry, Used, head, tail)
        BY <1>1, <2>1 DEF Structured, OnFlash, Whole, Threads
    <2>3. Walk[Size] = NULL
        BY <1>1, <2>2, WalkEnds
    <2>4. {Walk[n] : n \in 0 .. Size} \ {NULL} = Used
        <3>1. \A n \in 0 .. Size : Walk[n] \in Used \cup {NULL}
            BY <1>1, <2>2, WalkAdvances
        <3>2. \A r \in Used : \E n \in 0 .. Size : Walk[n] = r
            BY <1>1, <2>2, WalkReaches
        <3>3. NULL \notin Used
            BY <1>1, LogFacts
        <3>4. QED BY <3>1, <3>2, <3>3
    <2>5. \A i \in Used :
              /\ IF entry[i].next = NULL THEN i = tail ELSE entry[entry[i].next].prev = i
              /\ entry[i].prev = NULL <=> i = head
        BY <2>2 DEF Chain
    <2>6. QED BY <2>3, <2>4, <2>5
<1>2. QED BY <1>1, StructuredHolds, PTL

LEMMA ProbeFinds == ASSUME LogInv, Structured PROVE ProbeFindsEveryRecord
<1>1. SUFFICES ASSUME intent.state = "none", NEW i \in Used
               PROVE  Stops(entry[i].key) # {} /\ Slot(entry[i].key) = i
    BY DEF ProbeFindsEveryRecord
<1> DEFINE k == entry[i].key
           s == Slot(k)
<1>2. Probed(entry, Used, {})
    BY <1>1 DEF Structured, OnFlash, Whole
<1>3. i \in Ids /\ k \in Keys /\ Hash[k] \in Ids /\ i \in Stops(k)
    BY LogFacts DEF Stops, Holds
<1>4. s \in Stops(k) /\ s \in Ids /\ Dist(Hash[k], s) <= Dist(Hash[k], i)
    BY <1>3, SlotType
<1> HIDE DEF s
<1>5. SUFFICES ASSUME s # i PROVE FALSE
    BY <1>3 DEF s
<1>6. Dist(Hash[k], s) < Dist(Hash[k], i)
    BY <1>3, <1>4, <1>5, DistFacts, DistType
<1>7. s \in Used
    BY <1>2, <1>4, <1>6 DEF Probed, OnPath
<1>8. entry[s].key = k
    BY <1>4, <1>7 DEF Stops, Holds, Used
<1>9. QED BY <1>2, <1>5, <1>7, <1>8 DEF Probed

\* So does a probe: find_or_alloc finds the record of every key that has one,
\* and no key has two, across the wrap-around, after every shift of a cluster
\* and every recovery.
THEOREM ProbesFind == ASSUME Sparing PROVE Spec => []ProbeFindsEveryRecord
<1>1. LogInv /\ Structured => ProbeFindsEveryRecord
    BY ProbeFinds
<1>2. QED BY <1>1, StructuredHolds, PTL

\* And no interruption that spares the copy window and the wrap of a shift
\* leaves what the next mount takes for damaged and erases: neither a link
\* without its record nor a hole that cannot be found.
THEOREM RecoveryWorks == ASSUME Sparing PROVE Spec => []RecoverySucceeds
<1>1. ASSUME LogInv, Structured PROVE RecoverySucceeds
    <2>1. pc # "wipe"
        BY <1>1 DEF Structured
    <2>2. ASSUME pc = "resolve", HoleWrapped PROVE FALSE
        BY <1>1, <2>2 DEF Structured, OnFlash, HoleWrapped, IsHole, CopyWindow
    <2>3. QED BY <2>1, <2>2 DEF RecoverySucceeds
<1>2. QED BY <1>1, StructuredHolds, PTL
=============================================================================
