--------------------------- MODULE MCRealtimeCtr ---------------------------
(***************************************************************************)
(* Small instances of RealtimeCtr for TLC.                                 *)
(***************************************************************************)
EXTENDS RealtimeCtr, TLC

CONSTANTS k1, k2

(* One bucket already in Redis, one unknown to it.                         *)
OneSeeded == [k \in Keys |->
    IF k = k1 THEN [impressions |-> 2, clicks |-> 1] ELSE None]
NoneSeeded == [k \in Keys |-> None]

Produced(impressions, clicks, invalid) ==
    [t \in EventTypes |-> CASE t = "impression" -> impressions
                            [] t = "click" -> clicks
                            [] OTHER -> invalid]
ProducedSafety == Produced(3, 1, 1)
ProducedRecovery == Produced(2, 1, 1)
ProducedLiveness == Produced(2, 1, 0)
ProducedMetrics == Produced(3, 0, 0)
=============================================================================
