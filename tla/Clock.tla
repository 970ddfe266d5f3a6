-------------------------------- MODULE Clock --------------------------------
(***************************************************************************)
(* utils_time.c:3-19.  get_time is called from the main thread (create_p1) *)
(* and from the game thread (the script): the frequency of the counter is  *)
(* read on the first call and kept in two statics that no lock protects.   *)
(* The product is computed in 64 bits.                                     *)
(***************************************************************************)
EXTENDS Integers

CONSTANTS Thread,     \* the callers
          Freqs,      \* frequencies the machine may have, 0: none
          Milli,      \* units of a second: 1000
          Limit,      \* a LONGLONG is less than this: 2^63
          MaxCount    \* bound: the counter stops here

ASSUME FreqsAssumption == Freqs \subseteq Nat
ASSUME MilliAssumption == Milli \in Nat \ {0}
ASSUME LimitAssumption == Limit \in Nat \ {0} /\ MaxCount \in Nat

VARIABLES counter, hw,       \* QueryPerformanceCounter, ...Frequency
          freq, have_freq,   \* the statics
          pc, tmp, result,   \* each caller and its locals
          began              \* history: the counter when its call began

locals == <<tmp, result, began>>
vars   == <<counter, hw, freq, have_freq, pc, locals>>

Init ==
    /\ counter \in 0 .. MaxCount /\ hw \in Freqs
    /\ freq = 0 /\ have_freq = FALSE
    /\ pc = [t \in Thread |-> "out"] /\ tmp = [t \in Thread |-> 0]
    /\ result = [t \in Thread |-> 0] /\ began = [t \in Thread |-> 0]

-----------------------------------------------------------------------------
(* The arithmetic: what is kept of a product, in two's complement, and a    *)
(* division that cuts off towards 0.  Slips: the division first; the flag   *)
(* set before the frequency is there.                                       *)

LongLong == -Limit .. Limit - 1
Wrapped(n) == ((n + Limit) % (2 * Limit)) - Limit
Quotient(n, d) == IF n >= 0 THEN n \div d ELSE -((-n) \div d)

SecondsFirst(n, f) == Wrapped(Quotient(n, f) * Milli)
Millis(n, f) == Quotient(Wrapped(n * Milli), f)

HaveFirst == <<"have", "freq", "divide">>
FreqFirst == <<"freq", "have", "divide">>

AfterTest(t, k) == /\ pc[t] = FreqFirst[k]
                   /\ pc' = [pc EXCEPT ![t] = FreqFirst[k + 1]]
Step(t, from, to) == pc[t] = from /\ pc' = [pc EXCEPT ![t] = to]

-----------------------------------------------------------------------------
Advance ==
    /\ counter < MaxCount /\ counter' = counter + 1
    /\ UNCHANGED <<hw, freq, have_freq, pc, locals>>

Call(t) ==
    /\ Step(t, "out", "counter")
    /\ began' = [began EXCEPT ![t] = counter]
    /\ UNCHANGED <<counter, hw, freq, have_freq, tmp, result>>

ReadCounter(t) ==
    /\ Step(t, "counter", "test")
    /\ tmp' = [tmp EXCEPT ![t] = counter]
    /\ UNCHANGED <<counter, hw, freq, have_freq, result, began>>

TestHaveFreq(t) ==
    /\ Step(t, "test", FreqFirst[IF have_freq THEN 3 ELSE 1])
    /\ UNCHANGED <<counter, hw, freq, have_freq, locals>>

ReadFreq(t) ==
    /\ \E k \in 1 .. 2 : AfterTest(t, k)
    /\ pc[t] = "freq" /\ freq' = hw
    /\ UNCHANGED <<counter, hw, have_freq, locals>>

SetHaveFreq(t) ==
    /\ \E k \in 1 .. 2 : AfterTest(t, k)
    /\ pc[t] = "have" /\ have_freq' = TRUE
    /\ UNCHANGED <<counter, hw, freq, locals>>

Divide(t) ==
    /\ Step(t, "divide", "return")
    /\ result' = [result EXCEPT ![t] = IF freq = 0 THEN 0
                                       ELSE Millis(tmp[t], freq)]
    /\ UNCHANGED <<counter, hw, freq, have_freq, tmp, began>>

\* The locals are gone.
Return(t) ==
    /\ Step(t, "return", "out")
    /\ tmp' = [tmp EXCEPT ![t] = 0] /\ result' = [result EXCEPT ![t] = 0]
    /\ began' = [began EXCEPT ![t] = 0]
    /\ UNCHANGED <<counter, hw, freq, have_freq>>

GetTime(t) == Call(t) \/ ReadCounter(t) \/ TestHaveFreq(t) \/ ReadFreq(t)
                 \/ SetHaveFreq(t) \/ Divide(t) \/ Return(t)

Next == Advance \/ \E t \in Thread : GetTime(t)

Spec == Init /\ [][Next]_vars

-----------------------------------------------------------------------------
(* Properties                                                              *)

\* What the machine can compute with: after this, some years of uptime with a
\* slow counter and some weeks with a fast one, the product overflows.
Fits == counter * Milli \in LongLong

\* A call returns the milliseconds of a moment between its start and its end,
\* whichever of the threads was the first to ask for the frequency and
\* wherever the other was: the unprotected statics do no harm.  So a call made
\* after another has returned never returns less.
InTime ==
    \A t \in Thread : pc[t] = "return" /\ Fits =>
        IF hw = 0 THEN result[t] = 0
        ELSE /\ (began[t] * Milli) \div hw <= result[t]
             /\ result[t] <= (counter * Milli) \div hw
=============================================================================
