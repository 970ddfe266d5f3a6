------------------------------- MODULE KeySet -------------------------------
(***************************************************************************)
(* What game.c's keyboard functions promise a script: a set of at most     *)
(* Capacity keys that are down, and questions about it from another        *)
(* thread.  A question takes time; its answer names every key that was     *)
(* down all the while and no key that was up all the while.                *)
(***************************************************************************)
EXTENDS Naturals, FiniteSets

CONSTANTS Key, Capacity

VARIABLES down,     \* the keys that are down
          asked,    \* the keys of the question being answered, {}: none
          always,   \* those of them that were down ever since it was asked
          ever,     \* those of them that were down at some time since then
          answer    \* the keys the last answer named

keySetVars == <<down, asked, always, ever, answer>>

Init == down = {} /\ asked = {} /\ always = {} /\ ever = {} /\ answer = {}

Becomes(d) == /\ down' = d
              /\ always' = always \intersect d
              /\ ever' = ever \union (asked \intersect d)
              /\ UNCHANGED <<asked, answer>>

Press(k) == /\ k \in down \/ Cardinality(down) < Capacity
            /\ Becomes(down \union {k})

Release(k) == Becomes(down \ {k})

Ask(K) == /\ asked = {}
          /\ asked' = K
          /\ always' = K \intersect down
          /\ ever' = K \intersect down
          /\ answer' = {}
          /\ UNCHANGED down

Answer == /\ asked # {}
          /\ answer' \subseteq ever /\ always \subseteq answer'
          /\ asked' = {} /\ always' = {} /\ ever' = {}
          /\ UNCHANGED down

Next == \/ \E k \in Key : Press(k) \/ Release(k)
        \/ \E K \in SUBSET Key : Ask(K)
        \/ Answer

Spec == Init /\ [][Next]_keySetVars
=============================================================================
