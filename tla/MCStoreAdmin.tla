---------------------------- MODULE MCStoreAdmin ----------------------------
(***************************************************************************)
(* Small instances of StoreAdmin for TLC.                                  *)
(***************************************************************************)
EXTENDS StoreAdmin, TLC

CONSTANTS p1, p2, d1, s1, s2, r1, job, b1, b2

(* Two batches that lock rows in either order, beside the job; a reset and *)
(* a seed, in any order, with another seed, a persist run or the job.      *)
AllPlans == {{p1, p2, job}, {p1, s1, job}, {s1, r1, s2}, {r1, s1, p1},
             {r1, s1, job}, {d1, s1}}

OneEach == [k \in Keys |-> 1]
InSeedOrder == <<b1, b2>>

(* One bucket is there; the other comes with the job or the seed.          *)
OneBucket == [k \in Keys |-> IF k = b2 THEN None ELSE 1]

=============================================================================
