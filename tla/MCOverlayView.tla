---------------------------- MODULE MCOverlayView ---------------------------
(* OverlayView with two untested mice, one of them on a cable: both are    *)
(* plugged in when the overlay is first opened, or none.                   *)
EXTENDS OverlayView

CONSTANTS m1, m2

MCInit == Init /\ plugged \in {{}, Mouse}

MCSpec == MCInit /\ [][Next]_vars /\ Fairness
=============================================================================
