------------------------- MODULE BestEffortDelivery -------------------------
(***************************************************************************)
(* What the agent promises about its samples: each is held from the moment *)
(* it is taken, leaves exactly once, and is then delivered or lost for     *)
(* good.  Nothing is delivered twice and nothing lost comes back.          *)
(***************************************************************************)
EXTENDS Naturals

CONSTANT MaxSamples

VARIABLES
    taken,      \* number of samples taken; sample s is the s-th
    held,       \* samples that may still be delivered
    delivered   \* samples whose delivery was acknowledged

Init == taken = 0 /\ held = {} /\ delivered = {}

Take ==
    /\ taken < MaxSamples
    /\ taken' = taken + 1
    /\ held' = held \cup {taken + 1}
    /\ UNCHANGED delivered

Deliver ==
    \E s \in held :
        /\ held' = held \ {s}
        /\ delivered' = delivered \cup {s}
        /\ UNCHANGED taken

Lose ==
    \E S \in SUBSET held :
        /\ held' = held \ S
        /\ UNCHANGED <<taken, delivered>>

Spec == Init /\ [][Take \/ Deliver \/ Lose]_<<taken, held, delivered>>

============================================================================
