----------------------------- MODULE ClockProofs -----------------------------
(* get_time for every frequency, every unit and every width: until the      *)
(* product overflows, each call returns the time of a moment during it.     *)
EXTENDS Clock, TLAPS

-----------------------------------------------------------------------------
(* Arithmetic                                                               *)

(* A product grows with its factor.                                         *)
LEMMA ProductGrows ==
    ASSUME NEW a \in Int, NEW b \in Int, NEW m \in Nat, a <= b
    PROVE  a * m <= b * m
  OBVIOUS

\* A product of naturals is one.
LEMMA ProductIsNat ==
    ASSUME NEW a \in Nat, NEW m \in Nat
    PROVE  a * m \in Nat
  OBVIOUS

(* So does a quotient with its dividend.                                    *)
LEMMA QuotientGrows ==
    ASSUME NEW a \in Nat, NEW b \in Nat, NEW d \in Nat \ {0}, a <= b
    PROVE  a \div d <= b \div d
  OBVIOUS

(* What fits is kept as it is.                                              *)
LEMMA KeptIfItFits ==
    ASSUME NEW n \in Nat, n \in LongLong
    PROVE  Wrapped(n) = n
  BY LimitAssumption DEF LongLong, Wrapped

-----------------------------------------------------------------------------
(* The inductive invariant                                                  *)

ClockTypeOK ==
    /\ counter \in Nat /\ hw \in Nat
    /\ freq \in {0, hw} /\ have_freq \in BOOLEAN
    /\ pc \in [Thread -> {"out", "counter", "test", "freq", "have", "divide",
                          "return"}]
    /\ tmp \in [Thread -> Nat] /\ began \in [Thread -> Nat]
    /\ result \in [Thread -> Int]

(* Whoever sets the flag, or goes past it, has the frequency.               *)
FreqIsThere ==
    /\ have_freq => freq = hw
    /\ \A t \in Thread : pc[t] \in {"have", "divide"} => freq = hw

(* What is divided was the counter during the call.                         *)
TmpInTime ==
    \A t \in Thread :
        /\ pc[t] # "out" => began[t] <= counter
        /\ pc[t] \in {"test", "freq", "have", "divide"} =>
               began[t] <= tmp[t] /\ tmp[t] <= counter

IInv == ClockTypeOK /\ FreqIsThere /\ TmpInTime /\ InTime

(* The order of the two assignments, line 11 before line 12.                *)
LEMMA Order == FreqFirst[1] = "freq" /\ FreqFirst[2] = "have"
                  /\ FreqFirst[3] = "divide"
  BY DEF FreqFirst

(* What the quotient is, once there is a frequency and no overflow.         *)
LEMMA MillisInTime ==
    ASSUME NEW a \in Nat, NEW n \in Nat, NEW c \in Nat, NEW f \in Nat \ {0},
           a <= n, n <= c, c * Milli \in LongLong
    PROVE  /\ Millis(n, f) \in Int
           /\ (a * Milli) \div f <= Millis(n, f)
           /\ Millis(n, f) <= (c * Milli) \div f
  <1> DEFINE p == a * Milli
             q == n * Milli
             r == c * Milli
  <1>1. p \in Nat /\ q \in Nat /\ r \in Nat
    BY MilliAssumption
  <1>2. p <= q /\ q <= r
    BY ProductGrows, MilliAssumption
  <1>3. q \in LongLong
    BY <1>1, <1>2, LimitAssumption DEF LongLong
  <1>4. Wrapped(q) = q
    BY <1>1, <1>3, KeptIfItFits
  <1>5. Millis(n, f) = q \div f
    BY <1>1, <1>4 DEF Millis, Quotient
  <1>6. q \div f \in Int
    BY <1>1
  <1>7. p \div f <= q \div f /\ q \div f <= r \div f
    BY <1>1, <1>2, QuotientGrows
  <1> QED
    BY <1>5, <1>6, <1>7

\* What get_time returns is a number, also when the product overflows.
LEMMA MillisIsInt ==
    ASSUME NEW n \in Nat, NEW f \in Nat \ {0}
    PROVE  Millis(n, f) \in Int
  <1>1. n * Milli \in Nat
    BY MilliAssumption
  <1>2. Wrapped(n * Milli) \in Int
    BY <1>1, LimitAssumption DEF Wrapped
  <1> QED
    BY <1>2 DEF Millis, Quotient

\* Before the first call, nothing is known and nothing was returned.
LEMMA Starts == Init => IInv
  <1> SUFFICES ASSUME Init PROVE IInv
    OBVIOUS
  <1>1. ClockTypeOK
    <2>1. counter \in Nat
      BY LimitAssumption DEF Init
    <2>2. hw \in Nat
      BY FreqsAssumption DEF Init
    <2>3. freq \in {0, hw} /\ have_freq \in BOOLEAN
      BY DEF Init
    <2> QED
      BY <2>1, <2>2, <2>3 DEF Init, ClockTypeOK
  <1>2. FreqIsThere /\ TmpInTime /\ InTime
    BY DEF Init, FreqIsThere, TmpInTime, InTime
  <1> QED
    BY <1>1, <1>2 DEF IInv

\* Every step keeps the types.
LEMMA TypeStep == IInv /\ [Next]_vars => ClockTypeOK'
  <1> SUFFICES ASSUME IInv, [Next]_vars PROVE ClockTypeOK'
    OBVIOUS
  <1> USE DEF IInv, ClockTypeOK
  <1>1. CASE Advance
    BY <1>1 DEF Advance, locals
  <1>2. ASSUME NEW t \in Thread, Call(t) PROVE ClockTypeOK'
    BY <1>2 DEF Call, Step
  <1>3. ASSUME NEW t \in Thread, ReadCounter(t) PROVE ClockTypeOK'
    BY <1>3 DEF ReadCounter, Step
  <1>4. ASSUME NEW t \in Thread, TestHaveFreq(t) PROVE ClockTypeOK'
    BY <1>4, Order DEF TestHaveFreq, Step, locals
  <1>5. ASSUME NEW t \in Thread, ReadFreq(t) PROVE ClockTypeOK'
    BY <1>5, Order DEF ReadFreq, AfterTest, locals
  <1>6. ASSUME NEW t \in Thread, SetHaveFreq(t) PROVE ClockTypeOK'
    BY <1>6, Order DEF SetHaveFreq, AfterTest, locals
  <1>7. ASSUME NEW t \in Thread, Divide(t) PROVE ClockTypeOK'
    <2>1. freq # 0 => Millis(tmp[t], freq) \in Int
      BY MillisIsInt
    <2> QED
      BY <1>7, <2>1 DEF Divide, Step
  <1>8. ASSUME NEW t \in Thread, Return(t) PROVE ClockTypeOK'
    BY <1>8 DEF Return, Step
  <1>9. CASE UNCHANGED vars
    BY <1>9 DEF vars, locals
  <1> QED
    BY <1>1, <1>2, <1>3, <1>4, <1>5, <1>6, <1>7, <1>8, <1>9 DEF Next, GetTime

\* freq is there before have_freq says so, in whichever order the threads come.
LEMMA FreqStep == IInv /\ [Next]_vars => FreqIsThere'
  <1> SUFFICES ASSUME IInv, [Next]_vars PROVE FreqIsThere'
    OBVIOUS
  <1> USE DEF IInv, ClockTypeOK, FreqIsThere
  <1>1. CASE Advance
    BY <1>1 DEF Advance, locals
  <1>2. ASSUME NEW t \in Thread, Call(t) PROVE FreqIsThere'
    BY <1>2 DEF Call, Step
  <1>3. ASSUME NEW t \in Thread, ReadCounter(t) PROVE FreqIsThere'
    BY <1>3 DEF ReadCounter, Step
  <1>4. ASSUME NEW t \in Thread, TestHaveFreq(t) PROVE FreqIsThere'
    BY <1>4, Order DEF TestHaveFreq, Step, locals
  <1>5. ASSUME NEW t \in Thread, ReadFreq(t) PROVE FreqIsThere'
    BY <1>5, Order DEF ReadFreq, AfterTest, locals
  <1>6. ASSUME NEW t \in Thread, SetHaveFreq(t) PROVE FreqIsThere'
    BY <1>6, Order DEF SetHaveFreq, AfterTest, locals
  <1>7. ASSUME NEW t \in Thread, Divide(t) PROVE FreqIsThere'
    BY <1>7 DEF Divide, Step
  <1>8. ASSUME NEW t \in Thread, Return(t) PROVE FreqIsThere'
    BY <1>8 DEF Return, Step
  <1>9. CASE UNCHANGED vars
    BY <1>9 DEF vars, locals
  <1> QED
    BY <1>1, <1>2, <1>3, <1>4, <1>5, <1>6, <1>7, <1>8, <1>9 DEF Next, GetTime

\* The counter only grows: what a thread has read of it stays between its call and
\* now.
LEMMA TmpStep == IInv /\ [Next]_vars => TmpInTime'
  <1> SUFFICES ASSUME IInv, [Next]_vars PROVE TmpInTime'
    OBVIOUS
  <1> USE DEF IInv, ClockTypeOK, TmpInTime
  <1>1. CASE Advance
    BY <1>1 DEF Advance, locals
  <1>2. ASSUME NEW t \in Thread, Call(t) PROVE TmpInTime'
    BY <1>2 DEF Call, Step
  <1>3. ASSUME NEW t \in Thread, ReadCounter(t) PROVE TmpInTime'
    BY <1>3 DEF ReadCounter, Step
  <1>4. ASSUME NEW t \in Thread, TestHaveFreq(t) PROVE TmpInTime'
    BY <1>4, Order DEF TestHaveFreq, Step, locals
  <1>5. ASSUME NEW t \in Thread, ReadFreq(t) PROVE TmpInTime'
    BY <1>5, Order DEF ReadFreq, AfterTest, locals
  <1>6. ASSUME NEW t \in Thread, SetHaveFreq(t) PROVE TmpInTime'
    BY <1>6, Order DEF SetHaveFreq, AfterTest, locals
  <1>7. ASSUME NEW t \in Thread, Divide(t) PROVE TmpInTime'
    BY <1>7 DEF Divide, Step
  <1>8. ASSUME NEW t \in Thread, Return(t) PROVE TmpInTime'
    BY <1>8 DEF Return, Step
  <1>9. CASE UNCHANGED vars
    BY <1>9 DEF vars, locals
  <1> QED
    BY <1>1, <1>2, <1>3, <1>4, <1>5, <1>6, <1>7, <1>8, <1>9 DEF Next, GetTime

(* What a call returns stays right while the counter goes on.               *)
Answer(t) == pc[t] = "return" /\ Fits =>
                IF hw = 0 THEN result[t] = 0
                ELSE /\ (began[t] * Milli) \div hw <= result[t]
                     /\ result[t] <= (counter * Milli) \div hw

\* What a thread returns is the time of a moment of its own call.
LEMMA AnswerStep == IInv /\ [Next]_vars => InTime'
  <1> SUFFICES ASSUME IInv, [Next]_vars, NEW t \in Thread PROVE Answer(t)'
    BY DEF InTime, Answer
  <1>0. Answer(t)
    BY DEF IInv, InTime, Answer
  <1> USE DEF IInv, ClockTypeOK
  <1>1. CASE Advance
    <2> SUFFICES ASSUME Fits', pc[t] = "return" PROVE Answer(t)'
      BY <1>1 DEF Advance, Answer
    <2>1. counter \in Nat /\ counter' \in Nat /\ counter <= counter'
      BY <1>1 DEF Advance
    <2> HIDE DEF IInv, ClockTypeOK
    <2>2. Milli \in Nat
      BY MilliAssumption
    <2>3. /\ counter * Milli \in Nat /\ counter' * Milli \in Nat
          /\ counter * Milli <= counter' * Milli
      <3> DEFINE c == counter'
      <3>1. c \in Nat /\ counter <= c
        BY <2>1
      <3> HIDE DEF c
      <3>2. counter * Milli \in Nat /\ c * Milli \in Nat
        BY <2>1, <2>2, <3>1, ProductIsNat
      <3>3. counter * Milli <= c * Milli
        BY <2>1, <2>2, <3>1, ProductGrows
      <3> QED
        BY <3>2, <3>3 DEF c
    <2> USE DEF IInv, ClockTypeOK
    <2>4. Fits
      BY <2>3, LimitAssumption DEF Fits, LongLong
    <2>5. hw # 0 => (counter * Milli) \div hw <= (counter' * Milli) \div hw
      BY <2>3, QuotientGrows
    <2>6. hw # 0 => /\ (counter * Milli) \div hw \in Int
                    /\ (counter' * Milli) \div hw \in Int
                    /\ result[t] \in Int
      BY <2>3
    <2> QED
      BY <1>0, <1>1, <2>4, <2>5, <2>6 DEF Advance, Answer, locals
  <1>2. ASSUME NEW s \in Thread, Divide(s) PROVE Answer(t)'
    <2>1. CASE s # t
      BY <1>0, <1>2, <2>1 DEF Divide, Step, Answer, Fits
    <2>2. CASE s = t /\ freq = 0
      BY <1>2, <2>2 DEF Divide, Step, Answer, FreqIsThere
    <2>3. CASE s = t /\ freq # 0
      <3> SUFFICES ASSUME Fits PROVE Answer(t)'
        BY <1>2 DEF Divide, Answer, Fits
      <3>1. hw # 0 /\ freq = hw
        BY <1>2, <2>3
      <3>2. began[t] <= tmp[t] /\ tmp[t] <= counter
        BY <1>2, <2>3 DEF Divide, Step, TmpInTime
      <3>3. /\ (began[t] * Milli) \div hw <= Millis(tmp[t], hw)
            /\ Millis(tmp[t], hw) <= (counter * Milli) \div hw
        BY <3>1, <3>2, MillisInTime DEF Fits
      <3> QED
        BY <1>2, <2>3, <3>1, <3>3 DEF Divide, Step, Answer
    <2> QED
      BY <2>1, <2>2, <2>3
  <1>3. ASSUME NEW s \in Thread, Call(s) PROVE Answer(t)'
    BY <1>0, <1>3 DEF Call, Step, Answer, Fits
  <1>4. ASSUME NEW s \in Thread, ReadCounter(s) PROVE Answer(t)'
    BY <1>0, <1>4 DEF ReadCounter, Step, Answer, Fits
  <1>5. ASSUME NEW s \in Thread, TestHaveFreq(s) PROVE Answer(t)'
    BY <1>0, <1>5, Order DEF TestHaveFreq, Step, Answer, Fits, locals
  <1>6. ASSUME NEW s \in Thread, ReadFreq(s) PROVE Answer(t)'
    BY <1>0, <1>6, Order DEF ReadFreq, AfterTest, Answer, Fits, locals
  <1>7. ASSUME NEW s \in Thread, SetHaveFreq(s) PROVE Answer(t)'
    BY <1>0, <1>7, Order DEF SetHaveFreq, AfterTest, Answer, Fits, locals
  <1>8. ASSUME NEW s \in Thread, Return(s) PROVE Answer(t)'
    BY <1>0, <1>8 DEF Return, Step, Answer, Fits
  <1>9. CASE UNCHANGED vars
    BY <1>0, <1>9 DEF vars, locals, Answer, Fits
  <1> QED
    BY <1>1, <1>2, <1>3, <1>4, <1>5, <1>6, <1>7, <1>8, <1>9 DEF Next, GetTime

\* The parts together are inductive.
LEMMA Inductive == IInv /\ [Next]_vars => IInv'
  BY TypeStep, FreqStep, TmpStep, AnswerStep DEF IInv

\* So they hold in every state.
LEMMA Invariance == Spec => []IInv
  BY Starts, Inductive, PTL DEF Spec

-----------------------------------------------------------------------------
(* No thread divides without the frequency, although another one may be     *)
(* between the two assignments to the statics.                              *)
DividesByFreq == \A t \in Thread : pc[t] = "divide" => freq = hw

(* get_time divides by the frequency, never by what freq was before it.      *)
THEOREM FreqBeforeDivision == Spec => []DividesByFreq
  <1>1. IInv => DividesByFreq
    BY DEF IInv, FreqIsThere, DividesByFreq
  <1> QED
    BY <1>1, Invariance, PTL

(* Every call of get_time returns the time of a moment during the call, for *)
(* any number of threads, any frequency and any width, until the product    *)
(* overflows.                                                               *)
THEOREM ReturnsTimeOfCall == Spec => []InTime
  <1>1. IInv => InTime
    BY DEF IInv
  <1> QED
    BY <1>1, Invariance, PTL
=============================================================================
