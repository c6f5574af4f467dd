-------------------------------- MODULE HwmMap --------------------------------
(***************************************************************************)
(* What the high-water-mark store promises a lone writer: every set takes   *)
(* effect at once and for one key only, or else every mark is forgotten, so *)
(* that the next run starts as a first run does.                            *)
(***************************************************************************)
CONSTANTS Keys, Marks, None

VARIABLE marks

Init == marks = [k \in Keys |-> None]

Set(k, v) == marks' = [marks EXCEPT ![k] = v]

Forget == marks' = [k \in Keys |-> None]

Next == Forget \/ \E k \in Keys, v \in Marks : Set(k, v)

Spec == Init /\ [][Next]_marks
=============================================================================
