------------------------- MODULE MCCheckedMessages --------------------------
(* CheckedMessages for TLC: the configurations name the calls, three of them *)
(* in the run of the invariants and the refinement, one in the violation.    *)
EXTENDS CheckedMessages
=============================================================================
