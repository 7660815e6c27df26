-------------------------- MODULE MCProfileEditing --------------------------
(* ProfileEditing with three levels, a sensor from 2 to 6 in steps of 2,   *)
(* one button and one wheel slot.  The sectors stored: levels in order     *)
(* with an unused stage, the wheel bound with bytes of its own; and levels *)
(* out of order with an unused stage of the other kind, to which the       *)
(* default points, no report rate, a binding without text and the wheel    *)
(* unbound.                                                                *)
EXTENDS ProfileEditing

CONSTANTS g4, wheel, click

Bound(action, tail) == [action |-> action, tail |-> tail]
Slots(button, scroll) == [n \in Slot |-> IF n = g4 THEN button ELSE scroll]

MCStored == {
    [rate |-> 1, default |-> 0, shift |-> 2, stages |-> <<2, 0, 6>>,
     slot |-> Slots(Bound(click, 0), Bound(click, 255))],
    [rate |-> 0, default |-> 1, shift |-> 0, stages |-> <<6, 65535, 4>>,
     slot |-> Slots(Bound(NoText, 7), Bound(Disabled, 0))]}
=============================================================================
