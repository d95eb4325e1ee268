------------------------------ MODULE CtrStore ------------------------------
(***************************************************************************)
(* What the realtime CTR job promises to the readers of Redis: per bucket, *)
(* a pair of counters in which clicks never exceed impressions, published  *)
(* as a whole, at once or later, and always eventually.                    *)
(***************************************************************************)
EXTENDS Naturals

CONSTANTS Keys, None, Seed

VARIABLES
    counted,    \* the counters accepted so far
    published   \* the counters a reader of Redis sees, None for no key

storeVars == <<counted, published>>

Empty == [impressions |-> 0, clicks |-> 0]
Seen(k) == IF published[k] = None THEN Empty ELSE published[k]

Init ==
    /\ published = Seed
    /\ counted = [k \in Keys |-> IF Seed[k] = None THEN Empty ELSE Seed[k]]

(* One more impression, or one more click that an impression allows.       *)
Count(k) ==
    \/ counted' = [counted EXCEPT ![k].impressions = @ + 1]
    \/ /\ counted[k].clicks < counted[k].impressions
       /\ counted' = [counted EXCEPT ![k].clicks = @ + 1]

CountOnly(k) == Count(k) /\ UNCHANGED published

CountAndPublish(k) ==
    /\ Count(k)
    /\ published' = [published EXCEPT ![k] = counted'[k]]

Publish(k) ==
    /\ counted[k] # Seen(k)
    /\ published' = [published EXCEPT ![k] = counted[k]]
    /\ UNCHANGED counted

Next == \E k \in Keys : CountOnly(k) \/ CountAndPublish(k) \/ Publish(k)

Spec == Init /\ [][Next]_storeVars

FairSpec == Spec /\ \A k \in Keys : WF_storeVars(Publish(k))

=============================================================================
