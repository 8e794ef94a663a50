--------------------------- MODULE BackoffProofs ---------------------------
(***************************************************************************)
(* Theorems about Backoff, for every width of the integers and for all     *)
(* coefficients.                                                           *)
(***************************************************************************)
EXTENDS Backoff, TLAPS

\* What the arithmetic of a call comes to.
LEMMA NoneRunsOver ==
    ASSUME UIntMax \in Nat, TypeOK
    PROVE  /\ MaxAllowed = UIntMax - mul_coeff /\ MaxAllowed \in UInt
           /\ Bounded \in UInt /\ Bounded <= cutoff_coeff
           /\ LowerBound \in UInt /\ UpperBound \in UInt
           /\ LowerBound <= Bounded /\ Bounded <= UpperBound
           /\ Bounded - mul_coeff <= LowerBound /\ UpperBound <= Bounded + mul_coeff
           /\ JitterRange = UpperBound - LowerBound /\ JitterRange \in UInt
<1>1. /\ mul_coeff \in 0 .. UIntMax /\ cutoff_coeff \in 0 .. UIntMax
      /\ prev_delay \in 0 .. UIntMax
  BY DEF TypeOK, UInt
<1>2. MaxAllowed = UIntMax - mul_coeff /\ MaxAllowed \in 0 .. UIntMax
  BY <1>1 DEF MaxAllowed, Wrap
<1>3. Doubled \in 0 .. UIntMax
  BY <1>1, <1>2 DEF Doubled, Wrap
<1>4. Bounded \in 0 .. UIntMax /\ Bounded <= cutoff_coeff
  BY <1>1, <1>3 DEF Bounded
<1>5. /\ LowerBound \in 0 .. UIntMax /\ LowerBound <= Bounded
      /\ Bounded - mul_coeff <= LowerBound
  BY <1>1, <1>4 DEF LowerBound, Wrap
<1>6. /\ UpperBound \in 0 .. UIntMax /\ Bounded <= UpperBound
      /\ UpperBound <= Bounded + mul_coeff
  BY <1>1, <1>2, <1>4 DEF UpperBound, Wrap
<1>7. JitterRange = UpperBound - LowerBound /\ JitterRange \in 0 .. UIntMax
  BY <1>4, <1>5, <1>6 DEF JitterRange, Wrap
<1> QED BY <1>2, <1>4, <1>5, <1>6, <1>7 DEF UInt

\* Whatever the generator says, the delay lies in the range.
LEMMA JitterStays ==
    ASSUME UIntMax \in Nat, TypeOK, NEW random \in UInt
    PROVE  /\ LowerBound <= Jittered(random) /\ Jittered(random) <= UpperBound
           /\ Jittered(random) \in UInt
<1>1. /\ LowerBound \in 0 .. UIntMax /\ UpperBound \in 0 .. UIntMax
      /\ LowerBound <= Bounded /\ Bounded <= UpperBound /\ Bounded \in 0 .. UIntMax
      /\ JitterRange = UpperBound - LowerBound /\ JitterRange \in 0 .. UIntMax
  BY NoneRunsOver DEF UInt
<1>2. random \in 0 .. UIntMax
  BY DEF UInt
<1>3. CASE JitterRange = UIntMax
  <2>1. LowerBound = 0 /\ UpperBound = UIntMax
    BY <1>1, <1>3
  <2>2. Jittered(random) = random
    BY <1>3 DEF Jittered
  <2> QED BY <1>2, <2>1, <2>2 DEF UInt
<1>4. CASE JitterRange # UIntMax /\ JitterRange > 0
  <2>1. Wrap(JitterRange + 1) = JitterRange + 1 /\ JitterRange + 1 \in Nat \ {0}
    BY <1>1, <1>4 DEF Wrap
  <2> DEFINE rest == random % (JitterRange + 1)
  <2>2. rest \in 0 .. JitterRange
    BY <1>1, <1>2, <2>1
  <2>3. Jittered(random) = Wrap(LowerBound + rest)
    BY <1>4, <2>1 DEF Jittered
  <2> HIDE DEF rest
  <2>4. Wrap(LowerBound + rest) = LowerBound + rest /\ LowerBound + rest <= UpperBound
    BY <1>1, <2>2 DEF Wrap
  <2> QED BY <1>1, <2>2, <2>3, <2>4 DEF UInt
<1>5. CASE JitterRange = 0
  BY <1>1, <1>5 DEF Jittered, UInt
<1> QED BY <1>1, <1>3, <1>4, <1>5

LEMMA TypeStep == ASSUME UIntMax \in Nat, TypeOK, [Next]_vars PROVE TypeOK'
<1>1. ASSUME NEW mul \in UInt, NEW cutoff \in UInt, BackoffInit(mul, cutoff) PROVE TypeOK'
  <2>1. CASE mul = 0 \/ cutoff = 0 \/ cutoff < mul
    BY <1>1, <2>1 DEF BackoffInit, TypeOK
  <2>2. CASE ~ (mul = 0 \/ cutoff = 0 \/ cutoff < mul)
    BY <1>1, <2>2 DEF BackoffInit, TypeOK, UInt
  <2> QED BY <2>1, <2>2
<1>2. CASE GetNextDelay
  <2>1. prev_delay' \in UInt /\ prev_delay' <= cutoff_coeff /\ delay' \in UInt
    BY <1>2, NoneRunsOver, JitterStays DEF GetNextDelay
  <2> QED BY <1>2, <2>1 DEF GetNextDelay, TypeOK
<1>3. CASE Reset
  BY <1>3 DEF Reset, TypeOK, UInt
<1>4. CASE UNCHANGED vars
  BY <1>4 DEF vars, TypeOK
<1> QED BY <1>1, <1>2, <1>3, <1>4 DEF Next

\* Every number fits its 32 bits, and backoff_init accepts both coefficients or
\* neither.
THEOREM TypeCorrect == ASSUME UIntMax \in Nat PROVE Spec => []TypeOK
<1>1. Init => TypeOK
  BY DEF Init, TypeOK, UInt
<1>2. TypeOK /\ [Next]_vars => TypeOK'
  BY TypeStep
<1> QED BY <1>1, <1>2, PTL DEF Spec

\* The delay of backoff_get_next_delay lies within the jitter around the curve.
THEOREM JitterIsBounded == ASSUME UIntMax \in Nat PROVE Spec => JitterInRange
<1> DEFINE Step == GetNextDelay =>
              prev_delay' - mul_coeff <= delay' /\ delay' <= prev_delay' + mul_coeff
<1>1. TypeOK /\ [Next]_vars => [Step]_vars
  <2> SUFFICES ASSUME TypeOK, GetNextDelay
               PROVE  prev_delay' - mul_coeff <= delay' /\ delay' <= prev_delay' + mul_coeff
    OBVIOUS
  <2>1. /\ LowerBound \in Int /\ UpperBound \in Int /\ Bounded \in Int /\ mul_coeff \in Int
        /\ Bounded - mul_coeff <= LowerBound /\ UpperBound <= Bounded + mul_coeff
    BY NoneRunsOver DEF UInt, TypeOK
  <2>2. delay' \in Int /\ LowerBound <= delay' /\ delay' <= UpperBound /\ prev_delay' = Bounded
    BY JitterStays DEF GetNextDelay, UInt
  <2> QED BY <2>1, <2>2
<1> QED BY <1>1, TypeCorrect, PTL DEF Spec, JitterInRange

\* The delay doubles up to the cutoff, if the coefficients together fit.
THEOREM CurveIsExponential == ASSUME UIntMax \in Nat PROVE Spec => CurveDoubles
<1> DEFINE Step == GetNextDelay /\ cutoff_coeff + mul_coeff <= UIntMax =>
              LET next == IF prev_delay = 0 THEN mul_coeff ELSE 2 * prev_delay
              IN  prev_delay' = IF next < cutoff_coeff THEN next ELSE cutoff_coeff
<1>1. TypeOK /\ [Next]_vars => [Step]_vars
  <2> SUFFICES ASSUME TypeOK, GetNextDelay, cutoff_coeff + mul_coeff <= UIntMax
               PROVE  LET next == IF prev_delay = 0 THEN mul_coeff ELSE 2 * prev_delay
                      IN  prev_delay' = IF next < cutoff_coeff THEN next ELSE cutoff_coeff
    OBVIOUS
  <2>1. /\ mul_coeff \in 0 .. UIntMax /\ cutoff_coeff \in 0 .. UIntMax
        /\ prev_delay \in 0 .. UIntMax /\ mul_coeff <= cutoff_coeff
        /\ MaxAllowed = UIntMax - mul_coeff /\ prev_delay' = Bounded
    BY NoneRunsOver DEF TypeOK, UInt, GetNextDelay
  <2>2. CASE prev_delay = 0
    BY <2>1, <2>2 DEF Bounded, Doubled
  <2>3. CASE prev_delay # 0 /\ prev_delay <= MaxAllowed \div 2
    <3>1. 2 * prev_delay <= UIntMax
      BY <2>1, <2>3
    <3>2. Doubled = 2 * prev_delay
      BY <2>1, <2>3, <3>1 DEF Doubled, Wrap
    <3> QED BY <2>1, <2>3, <3>2 DEF Bounded
  <2>4. CASE prev_delay # 0 /\ ~ (prev_delay <= MaxAllowed \div 2)
    <3>1. Doubled = MaxAllowed /\ cutoff_coeff <= MaxAllowed /\ MaxAllowed < 2 * prev_delay
      BY <2>1, <2>4 DEF Doubled
    <3> QED BY <2>1, <2>4, <3>1 DEF Bounded
  <2> QED BY <2>2, <2>3, <2>4
<1> QED BY <1>1, TypeCorrect, PTL DEF Spec, CurveDoubles
=============================================================================
