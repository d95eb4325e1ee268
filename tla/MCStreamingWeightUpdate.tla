------------------------ MODULE MCStreamingWeightUpdate ------------------------
(***************************************************************************)
(* Small instances of StreamingWeightUpdate for TLC.                       *)
(***************************************************************************)
EXTENDS StreamingWeightUpdate, TLC

CONSTANT t1

OneOfEachKind == [kind \in Kinds |-> 1]

=============================================================================
