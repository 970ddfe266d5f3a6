---------------------------- MODULE MCGameSystem ----------------------------
(* GameSystem without keys and with one change of move_code.c.              *)
EXTENDS GameSystem
=============================================================================
