------------------------------ MODULE MCClock ------------------------------
(* Clock with products of 6 bits and 4 units in a second: the product       *)
(* overflows when the counter reaches 8.                                    *)
EXTENDS Clock

MCThread == {"main", "game"}
MCFreqs  == {0, 1, 3, 5}
=============================================================================
