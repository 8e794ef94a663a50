------------------------------ MODULE Backoff ------------------------------
(***************************************************************************)
(* The delays between two attempts to connect, or to repeat a handshake:   *)
(* backoff.c, in the arithmetic of its 32 bits.  Every attempt doubles the *)
(* delay up to a cutoff and adds a jitter that a random number chooses.    *)
(***************************************************************************)
EXTENDS Integers

CONSTANT UIntMax               \* UINT32_MAX in the code

UInt == 0 .. UIntMax

VARIABLES
    mul_coeff, cutoff_coeff,   \* the coefficients of the context
    prev_delay,                \* the delay before its jitter, 0 at first
    delay                      \* what the last call returned

vars == <<mul_coeff, cutoff_coeff, prev_delay, delay>>

\* The device that holds the two contexts is cleared first.
Init == mul_coeff = 0 /\ cutoff_coeff = 0 /\ prev_delay = 0 /\ delay = 0

\* Unsigned arithmetic: what is carried out of the last bit is lost.
Wrap(x) == IF x > UIntMax THEN x - UIntMax - 1 ELSE IF x < 0 THEN x + UIntMax + 1 ELSE x

\* Coefficients that make no sense leave the context as it was; no caller
\* looks at the error.
BackoffInit(mul, cutoff) ==
    /\ IF mul = 0 \/ cutoff = 0 \/ cutoff < mul
       THEN UNCHANGED <<mul_coeff, cutoff_coeff, prev_delay>>
       ELSE mul_coeff' = mul /\ cutoff_coeff' = cutoff /\ prev_delay' = 0
    /\ UNCHANGED delay

MaxAllowed == Wrap(UIntMax - mul_coeff)

Doubled ==
    IF prev_delay = 0 THEN mul_coeff
    ELSE IF prev_delay <= MaxAllowed \div 2 THEN Wrap(2 * prev_delay) ELSE MaxAllowed
Bounded == IF Doubled < cutoff_coeff THEN Doubled ELSE cutoff_coeff

LowerBound == IF Bounded > mul_coeff THEN Wrap(Bounded - mul_coeff) ELSE 0
UpperBound == IF Bounded < MaxAllowed THEN Wrap(Bounded + mul_coeff) ELSE UIntMax
JitterRange == Wrap(UpperBound - LowerBound)

\* The number of the generator, brought into the range.
Jittered(random) ==
    IF JitterRange = UIntMax THEN random
    ELSE IF JitterRange > 0 THEN Wrap(LowerBound + (random % Wrap(JitterRange + 1)))
    ELSE Bounded

GetNextDelay ==
    /\ prev_delay' = Bounded
    /\ \E random \in UInt : delay' = Jittered(random)
    /\ UNCHANGED <<mul_coeff, cutoff_coeff>>

Reset == prev_delay' = 0 /\ UNCHANGED <<mul_coeff, cutoff_coeff, delay>>

Next == (\E mul, cutoff \in UInt : BackoffInit(mul, cutoff)) \/ GetNextDelay \/ Reset

Spec == Init /\ [][Next]_vars

-----------------------------------------------------------------------------
(* Properties. *)

\* Every number fits its 32 bits, and coefficients were accepted together.
TypeOK ==
    /\ mul_coeff \in UInt /\ cutoff_coeff \in UInt /\ prev_delay \in UInt /\ delay \in UInt
    /\ mul_coeff <= cutoff_coeff /\ prev_delay <= cutoff_coeff
    /\ mul_coeff = 0 => cutoff_coeff = 0

\* The jitter is "in the range [ - mul_coeff , + mul_coeff ]" (include/backoff.h)
\* for all coefficients that backoff_init accepts: no sum or difference on the way
\* to the delay of backoff_get_next_delay runs over.
JitterInRange ==
    [][GetNextDelay =>
         prev_delay' - mul_coeff <= delay' /\ delay' <= prev_delay' + mul_coeff]_vars

\* The delay doubles from the first coefficient up to the second (include/backoff.h:
\* "min( mul_coeff * 2 ^ ( number of calls ) , cutoff_coeff )"), however often
\* backoff_get_next_delay is called, if both coefficients together fit 32 bits.
\* If they do not, the curve ends below the cutoff.
CurveDoubles ==
    [][GetNextDelay /\ cutoff_coeff + mul_coeff <= UIntMax =>
         LET next == IF prev_delay = 0 THEN mul_coeff ELSE 2 * prev_delay
         IN  prev_delay' = IF next < cutoff_coeff THEN next ELSE cutoff_coeff]_vars
=============================================================================
