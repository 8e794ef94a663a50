----------------------------- MODULE MCSession -----------------------------
(* An instance of Session for TLC: every fault may strike. *)
EXTENDS Session

CONSTANT a

OneInterface == {a}
OneImage == {{a}}
Everything == FaultKinds
=============================================================================
