---------------------------- MODULE PlayerProofs ----------------------------
(***************************************************************************)
(* Proofs about Player, for every clock.  The invariant ties the distance  *)
(* covered to e->time, which every step moves on by the throttle at least, *)
(* and follows what a call still knows of the keys it has asked for.       *)
(***************************************************************************)
EXTENDS Player, TLAPS

\* e->time is the time of the last step, and no step came early.
SpeedInv ==
    /\ time <= now
    /\ steps = 0 => xpos = 0
    /\ steps > 0 => /\ first <= time
                    /\ Throttle * (xpos - 4) <= 4 * (time - first)
                    /\ Throttle * (-xpos - 4) <= 4 * (time - first)

\* The entity is consistent at every step of a call, not only between calls.
SpriteInv ==
    /\ dx = xpos
    /\ state # "PS_RUN" => sx = IdleSx /\ frame = 0
    /\ state = "PS_RUN" => \/ sx = IdleSx /\ frame = 0
                           \/ sx = 97 + 17 * frame

\* What a call has found out so far.
AskInv ==
    /\ pc \notin {"out", "done"} => /\ state # "PS_JUMP"
                                   /\ always \subseteq down
                                   /\ down \subseteq ever
    /\ pc \notin {"out", "done"} => was = state
    /\ pc = "z?" => state = "PS_IDLE"
    /\ pc = "idle" /\ "z" \in always => was = "PS_RUN"
    /\ pc \in {"left?", "left", "z?", "idle"} => "right" \notin always
    /\ pc \in {"z?", "idle"} => "left" \notin always
    /\ pc \in {"right", "left"} => pc \in ever
    /\ HoldIsSeen

IInv == TypeOK /\ SpeedInv /\ SpriteInv /\ AskInv

-----------------------------------------------------------------------------
(* The inductive invariant                                                 *)

\* run_animation keeps the types of what it writes.
LEMMA RunType ==
    ASSUME TypeOK, NEW dir \in {"right", "left"}, RunAnimation(dir)
    PROVE  /\ xpos' \in Int /\ dx' \in Int /\ time' \in Nat /\ first' \in Nat
           /\ steps' \in Nat /\ sx' \in Nat /\ frame' \in 0 .. 2
           /\ h_flip' \in {0, 1}
  <1>1. CASE now - time < Throttle
    BY <1>1 DEF RunAnimation, TooSoon, NextFrame, NextPicture, posVars, stepVars, TypeOK
  <1>2. CASE ~ (now - time < Throttle)
    <2>1. (frame + 1) % 3 \in 0 .. 2
      BY DEF TypeOK
    <2>2. /\ RunTable[dir].modulo = 3 /\ RunTable[dir].mx \in Int
          /\ RunTable[dir].flip_h \in {0, 1}
          /\ RunTable[dir].sx = 97 /\ RunTable[dir].xskip = 17
      BY DEF RunTable
    <2>3. frame' = (frame + 1) % 3 /\ sx' = 97 + ((frame + 1) % 3) * 17
      BY <1>2, <2>2 DEF RunAnimation, TooSoon, NextFrame, NextPicture
    <2>4. xpos' = xpos + RunTable[dir].mx /\ dx' = xpos + RunTable[dir].mx
      BY <1>2 DEF RunAnimation, TooSoon, NextFrame, NextPicture
    <2>5. /\ time' = now /\ steps' = steps + 1
          /\ first' = IF steps = 0 THEN now ELSE first
          /\ h_flip' = RunTable[dir].flip_h
      BY <1>2 DEF RunAnimation, TooSoon, NextFrame, NextPicture
    <2>6. QED
      BY <2>1, <2>2, <2>3, <2>4, <2>5 DEF TypeOK
  <1>3. QED
    BY <1>1, <1>2

\* What a step of run_animation, when it is not too early, changes.
LEMMA RunEffect ==
    ASSUME TypeOK, NEW dir \in {"right", "left"}, RunAnimation(dir),
           xpos' # xpos \/ time' # time \/ steps' # steps
    PROVE  /\ now - time >= Throttle /\ time' = now
           /\ xpos' = xpos + 4 \/ xpos' = xpos - 4
           /\ steps' = steps + 1
           /\ first' = IF steps = 0 THEN now ELSE first
  <1>1. ~ (now - time < Throttle)
    BY DEF RunAnimation, TooSoon, NextFrame, NextPicture, posVars, stepVars
  <1>2. RunTable[dir].mx \in {4, -4}
    BY DEF RunTable
  <1>3. xpos' = xpos + RunTable[dir].mx
    BY <1>1 DEF RunAnimation, TooSoon, NextFrame, NextPicture
  <1>4. /\ time' = now /\ steps' = steps + 1
        /\ first' = IF steps = 0 THEN now ELSE first
    BY <1>1 DEF RunAnimation, TooSoon, NextFrame, NextPicture
  <1>5. QED
    BY <1>1, <1>2, <1>3, <1>4 DEF TypeOK, Throttle

\* Every step keeps the types.
LEMMA TypeStep == TypeOK /\ [Next]_vars => TypeOK'
  <1> SUFFICES ASSUME TypeOK, [Next]_vars PROVE TypeOK'
    OBVIOUS
  <1> USE TicksAssumption DEF vars, entityVars, posVars, stepVars, callVars, keyVars
  <1>1. ASSUME NEW d \in Ticks, Tick(d) PROVE TypeOK'
    BY <1>1 DEF Tick, TypeOK
  <1>2. ASSUME NEW k \in Key, Press(k) \/ Release(k) PROVE TypeOK'
    BY <1>2 DEF Press, Release, KeysBecome, TypeOK
  <1>3. CASE Enter
    BY <1>3 DEF Enter, HasCase, TypeOK
  <1>4. CASE AskRight
    BY <1>4 DEF AskRight, NotRight, TypeOK
  <1>5. CASE AskLeft
    BY <1>5 DEF AskLeft, TypeOK
  <1>6. CASE AskZ
    BY <1>6 DEF AskZ, TypeOK
  <1>7. ASSUME NEW dir \in {"right", "left"}, Run(dir) PROVE TypeOK'
    <2>1. RunAnimation(dir)
      BY <1>7 DEF Run
    <2>2. QED
      BY <1>7, <2>1, RunType DEF Run, TypeOK
  <1>8. CASE Idle
    BY <1>8 DEF Idle, PlayerIdle, IdleSx, TypeOK
  <1>9. CASE Return
    BY <1>9 DEF Return, TypeOK
  <1>10. CASE UNCHANGED vars
    BY <1>10 DEF TypeOK
  <1>11. QED
    BY <1>1, <1>2, <1>3, <1>4, <1>5, <1>6, <1>7, <1>8, <1>9, <1>10
    DEF Next, Environment, MovePlayer1

\* run_animation moves the player 4 pixels and not before the throttle is over;
\* nothing else moves it.
LEMMA SpeedStep == TypeOK /\ SpeedInv /\ [Next]_vars => SpeedInv'
  <1> SUFFICES ASSUME TypeOK, SpeedInv, [Next]_vars PROVE SpeedInv'
    OBVIOUS
  <1> USE TicksAssumption DEF TypeOK, SpeedInv, Throttle
  <1>1. ASSUME NEW d \in Ticks, Tick(d) PROVE SpeedInv'
    BY <1>1 DEF Tick, entityVars, posVars, stepVars
  <1>2. CASE UNCHANGED <<now, xpos, time, steps, first>>
    BY <1>2
  <1>3. ASSUME NEW dir \in {"right", "left"}, Run(dir) PROVE SpeedInv'
    <2>1. RunAnimation(dir) /\ now' = now
      BY <1>3 DEF Run
    <2>2. CASE xpos' # xpos \/ time' # time \/ steps' # steps
      BY <2>1, <2>2, RunEffect
    <2>3. CASE UNCHANGED <<xpos, time, steps>>
      <3>1. first' = first
        BY <2>1, <2>3 DEF RunAnimation, TooSoon, NextFrame, NextPicture, stepVars
      <3>2. QED
        BY <2>1, <2>3, <3>1
    <2>4. QED
      BY <2>2, <2>3
  <1>4. QED
    BY <1>1, <1>2, <1>3
    DEF Next, Environment, Press, Release, KeysBecome, MovePlayer1, Enter,
        AskRight, NotRight, AskLeft, AskZ, Idle, PlayerIdle, Return,
        vars, entityVars, posVars, stepVars

\* Picture, frame and place fit the state after every step of a call.
LEMMA SpriteStep == TypeOK /\ SpriteInv /\ AskInv /\ [Next]_vars => SpriteInv'
  <1> SUFFICES ASSUME TypeOK, SpriteInv, AskInv, [Next]_vars PROVE SpriteInv'
    OBVIOUS
  <1> USE DEF TypeOK, SpriteInv, IdleSx
  <1>1. CASE UNCHANGED <<state, posVars>>
    BY <1>1 DEF posVars
  <1>2. CASE AskZ
    BY <1>2 DEF AskZ, AskInv, posVars
  <1>3. ASSUME NEW dir \in {"right", "left"}, Run(dir) PROVE SpriteInv'
    <2>1. RunAnimation(dir) /\ state' = "PS_RUN"
      BY <1>3 DEF Run
    <2>2. CASE UNCHANGED posVars
      BY <2>1, <2>2 DEF posVars
    <2>3. CASE ~ UNCHANGED posVars
      <3>1. ~ (now - time < Throttle)
        BY <2>1, <2>3 DEF RunAnimation, TooSoon, NextFrame, NextPicture
      <3>2. /\ RunTable[dir].modulo = 3
            /\ RunTable[dir].sx = 97 /\ RunTable[dir].xskip = 17
        BY DEF RunTable
      <3>3. dx' = xpos'
        BY <2>1, <3>1 DEF RunAnimation, TooSoon, NextFrame, NextPicture
      <3>4. frame' = (frame + 1) % 3 /\ sx' = 97 + ((frame + 1) % 3) * 17
        BY <2>1, <3>1, <3>2 DEF RunAnimation, TooSoon, NextFrame, NextPicture
      <3>5. (frame + 1) % 3 \in 0 .. 2
        OBVIOUS
      <3>6. QED
        BY <2>1, <3>3, <3>4, <3>5
    <2>4. QED
      BY <2>2, <2>3
  <1>4. CASE Idle
    BY <1>4 DEF Idle, PlayerIdle
  <1>5. QED
    BY <1>1, <1>2, <1>3, <1>4
    DEF Next, Environment, Tick, Press, Release, KeysBecome, MovePlayer1, Enter,
        AskRight, NotRight, AskLeft, Return, vars, entityVars

\* What a call has found out about the keys agrees with what was down since it
\* began.
LEMMA AskStep == TypeOK /\ AskInv /\ [Next]_vars => AskInv'
  <1> SUFFICES ASSUME TypeOK, AskInv, [Next]_vars PROVE AskInv'
    OBVIOUS
  <1> USE DEF TypeOK, AskInv, HoldIsSeen, Key
  <1>1. ASSUME NEW K \in SUBSET Key, KeysBecome(K) PROVE AskInv'
    BY <1>1 DEF KeysBecome, entityVars, callVars
  <1>2. ASSUME NEW k \in Key, Press(k) \/ Release(k) PROVE AskInv'
    BY <1>1, <1>2 DEF Press, Release
  <1>3. CASE UNCHANGED <<state, pc, did, keyVars>>
    BY <1>3 DEF keyVars
  <1>4. CASE Enter
    BY <1>4 DEF Enter, HasCase, entityVars
  <1>5. CASE AskRight
    BY <1>5 DEF AskRight, NotRight, keyVars, entityVars
  <1>6. CASE AskLeft
    BY <1>6 DEF AskLeft, keyVars, entityVars
  <1>7. CASE AskZ
    BY <1>7 DEF AskZ, keyVars
  <1>8. ASSUME NEW dir \in {"right", "left"}, Run(dir) PROVE AskInv'
    BY <1>8 DEF Run, keyVars
  <1>9. CASE Idle
    BY <1>9 DEF Idle, keyVars
  <1>10. CASE Return
    BY <1>10 DEF Return, entityVars
  <1>11. QED
    BY <1>2, <1>3, <1>4, <1>5, <1>6, <1>7, <1>8, <1>9, <1>10
    DEF Next, Environment, Tick, MovePlayer1, vars, entityVars, callVars

\* The invariant holds in every state.
LEMMA Invariance == Spec => []IInv
  <1>1. Init => IInv
    BY TimeAssumption
    DEF Init, IInv, TypeOK, SpeedInv, SpriteInv, AskInv, HoldIsSeen, IdleSx
  <1>2. IInv /\ [Next]_vars => IInv'
    BY TypeStep, SpeedStep, SpriteStep, AskStep DEF IInv
  <1>3. QED
    BY <1>1, <1>2, PTL DEF Spec

-----------------------------------------------------------------------------
(* Safety                                                                  *)

\* Every variable keeps its type in every run.
THEOREM TypeCorrect == Spec => []TypeOK
  <1>1. IInv => TypeOK
    BY DEF IInv
  <1>2. QED
    BY <1>1, Invariance, PTL

\* No pattern of keys and frames makes the player faster than its throttle.
THEOREM SpeedIsLimited == Spec => []SpeedLimit
  <1>1. IInv => SpeedLimit
    BY DEF IInv, TypeOK, SpeedInv, SpeedLimit, Throttle
  <1>2. QED
    BY <1>1, Invariance, PTL

\* What is drawn is where, and in the state, the player is.
THEOREM SpriteIsConsistent == Spec => []SpriteShowsState
  <1>1. IInv => SpriteShowsState
    BY DEF IInv, SpriteInv, SpriteShowsState
  <1>2. QED
    BY <1>1, Invariance, PTL

\* No order of key events makes a call disobey a direction that is held, unless
\* the player jumps, rest when a player at rest should jump, or act on a key that
\* was up throughout.
THEOREM HeldKeysAreSeen == Spec => []HoldIsSeen
  <1>1. IInv => HoldIsSeen
    BY DEF IInv, AskInv
  <1>2. QED
    BY <1>1, Invariance, PTL

\* PS_JUMP is never left.
THEOREM JumpNeverEnds == Spec => JumpIsFinal
  <1>1. IInv /\ [Next]_vars => (state = "PS_JUMP" => UNCHANGED entityVars)
    <2> SUFFICES ASSUME IInv, [Next]_vars, state = "PS_JUMP"
                 PROVE  UNCHANGED entityVars
      OBVIOUS
    <2>1. pc \in {"out", "done"}
      BY DEF IInv, TypeOK, AskInv
    <2>2. QED
      BY <2>1
      DEF Next, Environment, Tick, Press, Release, KeysBecome, MovePlayer1,
          Enter, HasCase, AskRight, NotRight, AskLeft, AskZ, Run, Idle, Return,
          vars
  <1>2. QED
    BY <1>1, Invariance, PTL DEF Spec, JumpIsFinal
=============================================================================
