----------------------------- MODULE ScriptSlot -----------------------------
(***************************************************************************)
(* What compiler.c promises the game: at most one version of the player's  *)
(* code can be called; it is the version read last, and that is never      *)
(* older than one read before; a version is withdrawn, read or installed   *)
(* only while nobody executes one; what runs is what is installed.         *)
(***************************************************************************)
EXTENDS Naturals

VARIABLES slot,     \* the version that can be called, 0: none
          active,   \* the version being executed, 0: none
          newest    \* the version read last, 0: none

slotVars == <<slot, active, newest>>

Init == slot = 0 /\ active = 0 /\ newest = 0

Withdraw == /\ active = 0
            /\ slot' = 0
            /\ UNCHANGED <<active, newest>>

Load == /\ active = 0 /\ slot = 0
        /\ newest' \in Nat /\ newest' >= newest
        /\ UNCHANGED <<slot, active>>

Install == /\ active = 0 /\ slot = 0 /\ newest # 0
           /\ slot' = newest
           /\ UNCHANGED <<active, newest>>

Begin == /\ active = 0 /\ slot # 0
         /\ active' = slot
         /\ UNCHANGED <<slot, newest>>

End == /\ active # 0
       /\ active' = 0
       /\ UNCHANGED <<slot, newest>>

Next == Withdraw \/ Load \/ Install \/ Begin \/ End

Spec == Init /\ [][Next]_slotVars
=============================================================================
