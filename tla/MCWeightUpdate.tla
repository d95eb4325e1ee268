-------------------------- MODULE MCWeightUpdate --------------------------
(***************************************************************************)
(* Small instances of WeightUpdate for TLC.                                *)
(***************************************************************************)
EXTENDS WeightUpdate, TLC

CONSTANTS u1, u2, b1, b2

(* One bucket without impressions, one not there yet.                      *)
OneBucket == [b \in Buckets |-> IF b = b1 THEN 0 ELSE None]

=============================================================================
