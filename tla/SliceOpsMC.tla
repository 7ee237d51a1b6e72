----------------------------- MODULE SliceOpsMC -----------------------------
(***************************************************************************)
(* Checks the clear loop of SliceOps against what it must do, over every   *)
(* slice of distinct channels (a registry entry never holds a channel      *)
(* twice).                                                                 *)
(***************************************************************************)
EXTENDS SliceOps, FiniteSets

CONSTANTS
    Chans           \* channel identities

VARIABLE chs        \* consumerCh.channels

vars == <<chs>>

DistinctSlices == UNION {{s \in [1..n -> Chans] : IsInjective(s)} : n \in 0..Cardinality(Chans)}

Init == chs \in DistinctSlices

\* The inputs are fixed; every state is one case of the check.
Next == UNCHANGED vars

Spec == Init /\ [][Next]_vars

(* The clear loop of clearTopicFromConsumerChannelMap and               *)
(* clearConsumerChannelMap closes every channel of the entry exactly once  *)
(* (the registry "is responsible for closing it exactly once", spec 3):    *)
(* a second close() of a channel panics, a missed one leaves its           *)
(* subscriber waiting forever.                                             *)
ClearLoopClosesEachOnce ==
    ToBag(ClearLoop(chs).closes) = ToBag(chs)
=============================================================================
