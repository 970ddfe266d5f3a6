----------------------------- MODULE MCGameLoop -----------------------------
(* GameLoop with two keys.                                                  *)
EXTENDS GameLoop

CONSTANTS right, z
MCKey == {right, z}
=============================================================================
