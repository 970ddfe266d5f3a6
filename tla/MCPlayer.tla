------------------------------ MODULE MCPlayer ------------------------------
(* Player with a clock of 5 ms units: calls come faster and slower than the *)
(* throttle of 15 ms, on either side of it.                                 *)
EXTENDS Player

MCTicks == {5, 10}
=============================================================================
