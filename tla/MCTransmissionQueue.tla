------------------------ MODULE MCTransmissionQueue ------------------------
(* Instances of TransmissionQueue for TLC. *)
EXTENDS TransmissionQueue

CONSTANTS t1, t2

OneSender == {t1}
TwoSenders == {t1, t2}

\* One thread, and every class of message.
Everything == [t \in OneSender |-> Range(PeekOrder)]
Three == [t \in OneSender |-> 3]

\* Two threads, in RAM and on flash.  Volatile messages differ from these in
\* nothing but their queue and their timeout: they are left to the other run.
Mixed == [t \in TwoSenders |->
            {"discard", "stored"} \cup IF t = t1 THEN {} ELSE {"interface"}]
TwoAndOne == [t \in TwoSenders |-> IF t = t1 THEN 2 ELSE 1]
=============================================================================
