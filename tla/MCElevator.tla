----------------------------- MODULE MCElevator -----------------------------
(* Nine floors, the elevator starting in the middle.                       *)
EXTENDS Elevator

MCFloors == -4 .. 4
=============================================================================
