---------------------------- MODULE MCHotReload ----------------------------
(* HotReload on a bounded number of edits.                                 *)
EXTENDS HotReload
=============================================================================
