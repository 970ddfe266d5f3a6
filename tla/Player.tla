------------------------------- MODULE Player -------------------------------
(***************************************************************************)
(* bucktoot/move_code.c: one call of move_player1 per frame moves PLAYER1. *)
(* The call runs on the game thread while the main thread goes on handling *)
(* keyboard events, and it asks for one key after the other, so the keys   *)
(* can change between two of its questions.  A single question is atomic   *)
(* here: KeyTable shows that its answer holds at some moment of the scan.  *)
(*                                                                         *)
(* ypos is left out (both tables move it by 0), and so are the fields that *)
(* are only ever set to one value or never read (vx, sw, sh, scales).      *)
(***************************************************************************)
EXTENDS Integers

CONSTANTS Ticks,      \* by how many ms the clock can go on at once
          StartTime,  \* get_time() when the player is created
          MaxTime     \* bound: the clock stops here

ASSUME TicksAssumption == Ticks \subseteq Nat \ {0}
ASSUME TimeAssumption == StartTime \in Nat /\ MaxTime \in Nat

Key == {"right", "left", "z"}

VARIABLES now,                    \* the clock get_time reads, in ms
          down,                   \* the keys in key_list
          state, xpos, time,      \* ENTITY, entity.h:26
          sx, frame, dx, h_flip,  \* ANIM, entity.h:15
          pc,                     \* where in move_player1 the game thread is
          always, ever,           \* history: keys down all through, or at some
                                  \* time of, the call that runs
          was, did,               \* history: state when that call began, and
                                  \* what it did
          steps, first            \* history: number of steps, time of the first

posVars  == <<xpos, time, sx, frame, dx, h_flip>>
stepVars == <<steps, first>>
entityVars == <<state, posVars, stepVars>>
callVars == <<pc, did>>
keyVars  == <<down, always, ever, was>>
vars == <<now, entityVars, callVars, keyVars>>

Throttle == 15            \* move_code.c:37
RunTable == [right |-> [delta |-> 30, sx |-> 97, xskip |-> 17, mx |-> 4,
                        modulo |-> 3, flip_h |-> 0],
             left  |-> [delta |-> 30, sx |-> 97, xskip |-> 17, mx |-> -4,
                        modulo |-> 3, flip_h |-> 1]]
IdleSx == 80

TypeOK ==
    /\ now \in Nat
    /\ down \subseteq Key /\ always \subseteq Key /\ ever \subseteq Key
    /\ {state, was} \subseteq {"PS_IDLE", "PS_RUN", "PS_JUMP"}
    /\ xpos \in Int /\ dx \in Int
    /\ time \in Nat /\ first \in Nat /\ steps \in Nat
    /\ sx \in Nat
    /\ frame \in 0 .. 2
    /\ h_flip \in {0, 1}
    /\ pc \in {"out", "right?", "left?", "z?", "right", "left", "idle", "done"}
    /\ did \in {"none", "right", "left", "idle", "jump"}

\* create_p1: calloc, and one call of move_player1 before the first event.
Init ==
    /\ now = StartTime
    /\ down = {} /\ always = {} /\ ever = {}
    /\ state = "PS_IDLE" /\ xpos = 0 /\ time = 0
    /\ sx = IdleSx /\ frame = 0 /\ dx = 0 /\ h_flip = 0
    /\ pc = "out" /\ was = "PS_IDLE" /\ did = "none"
    /\ steps = 0 /\ first = 0

-----------------------------------------------------------------------------
(* The clock and the keyboard                                              *)

Tick(d) ==
    /\ now + d <= MaxTime
    /\ now' = now + d
    /\ UNCHANGED <<entityVars, callVars, keyVars>>

KeysBecome(K) ==
    /\ down' = K
    /\ always' = IF pc \in {"out", "done"} THEN always ELSE always \intersect K
    /\ ever' = IF pc \in {"out", "done"} THEN ever ELSE ever \union K
    /\ UNCHANGED <<now, entityVars, callVars, was>>

Press(k) == k \notin down /\ KeysBecome(down \union {k})
Release(k) == k \in down /\ KeysBecome(down \ {k})

-----------------------------------------------------------------------------
(* run_animation and player_idle                                           *)

NeverTooSoon == FALSE
TooSoon == now - time < Throttle

FrameUnwrapped(m) == frame + 1
NextFrame(m) == (frame + 1) % m.modulo

LastPicture(m) == m.sx + frame * m.xskip
NextPicture(m) == m.sx + NextFrame(m) * m.xskip

\* run_animation(e,left): returns early within Throttle of the last step.
RunAnimation(dir) ==
    LET m == RunTable[dir]
    IN  IF TooSoon
        THEN UNCHANGED <<posVars, stepVars>>
        ELSE /\ time' = now
             /\ xpos' = xpos + m.mx
             /\ dx' = xpos + m.mx
             /\ sx' = NextPicture(m)
             /\ frame' = NextFrame(m)
             /\ h_flip' = m.flip_h
             /\ steps' = steps + 1
             /\ first' = IF steps = 0 THEN now ELSE first

\* player_idle: the sprite faces where it faced.
PlayerIdle ==
    /\ sx' = IdleSx
    /\ frame' = 0
    /\ dx' = xpos
    /\ UNCHANGED <<xpos, time, h_flip, stepVars>>

-----------------------------------------------------------------------------
(* move_player1                                                            *)

HasCase == state \in {"PS_IDLE", "PS_RUN"}    \* of switch(e->state)

Enter ==
    /\ pc = "out"
    /\ pc' = IF HasCase THEN "right?" ELSE "done"
    /\ was' = state /\ did' = "none"
    /\ always' = down /\ ever' = down
    /\ UNCHANGED <<now, down, entityVars>>

\* A case of PS_RUN that forgets the other direction.
NotRightNoTurn == IF state = "PS_RUN" THEN "idle" ELSE "left?"
NotRight == "left?"

AskRight ==
    /\ pc = "right?"
    /\ pc' = IF "right" \in down THEN "right" ELSE NotRight
    /\ UNCHANGED <<now, did, keyVars, entityVars>>

\* Only PS_IDLE asks for the jump key.
AskLeft ==
    /\ pc = "left?"
    /\ pc' = IF "left" \in down THEN "left"
             ELSE IF state = "PS_IDLE" THEN "z?" ELSE "idle"
    /\ UNCHANGED <<now, did, keyVars, entityVars>>

AskZ ==
    /\ pc = "z?"
    /\ IF "z" \in down
       THEN pc' = "done" /\ did' = "jump" /\ state' = "PS_JUMP"
       ELSE pc' = "idle" /\ UNCHANGED <<did, state>>
    /\ UNCHANGED <<now, keyVars, posVars, stepVars>>

\* e->state=PS_RUN and run_animation.
Run(dir) ==
    /\ pc = dir
    /\ pc' = "done"
    /\ did' = dir
    /\ state' = "PS_RUN"
    /\ RunAnimation(dir)
    /\ UNCHANGED <<now, keyVars>>

Idle ==
    /\ pc = "idle"
    /\ pc' = "done"
    /\ did' = "idle"
    /\ state' = "PS_IDLE"
    /\ PlayerIdle
    /\ UNCHANGED <<now, keyVars>>

Return ==
    /\ pc = "done"
    /\ pc' = "out"
    /\ was' = "PS_IDLE" /\ did' = "none" /\ always' = {} /\ ever' = {}
    /\ UNCHANGED <<now, down, entityVars>>

-----------------------------------------------------------------------------
Environment ==
    \/ \E d \in Ticks : Tick(d)
    \/ \E k \in Key : Press(k) \/ Release(k)

MovePlayer1 ==
    \/ Enter \/ AskRight \/ AskLeft \/ AskZ
    \/ (\E dir \in {"right", "left"} : Run(dir)) \/ Idle \/ Return

Next == Environment \/ MovePlayer1

Spec == Init /\ [][Next]_vars

-----------------------------------------------------------------------------
(* Properties                                                              *)

\* The player covers at most 4 pixels per 15 ms, however often the game thread
\* calls, the directions change or the player stops in between: e->time
\* outlives all of them.
SpeedLimit ==
    steps > 0 => /\ Throttle * (xpos - 4) <= 4 * (now - first)
                 /\ Throttle * (-xpos - 4) <= 4 * (now - first)

\* What draw_entities finds between two calls fits together: the sprite is
\* drawn where the player is, a player at rest or jumping has the picture of
\* one at rest, a running one a picture of its table or, while the throttle
\* delays the first step, still the picture of rest.
SpriteShowsState ==
    pc = "out" =>
        /\ dx = xpos
        /\ state # "PS_RUN" => sx = IdleSx /\ frame = 0
        /\ state = "PS_RUN" => \/ sx = IdleSx /\ frame = 0
                               \/ sx = 97 + 17 * frame

\* The keys may change between the questions of a call, but whatever order the
\* events come in, a right or left that is held is obeyed, right before left,
\* unless the player jumps (PS_JUMP has no case); a held Z is obeyed, after those
\* two, by a player at rest (PS_RUN does not ask for Z: that call brings the
\* player to rest, and the next may jump); and a key that was up during all of
\* the call has no effect.
HoldIsSeen ==
    pc = "done" =>
        /\ "right" \in always /\ was # "PS_JUMP" => did = "right"
        /\ "left" \in always /\ was # "PS_JUMP" => did \in {"left", "right"}
        /\ "z" \in always /\ was = "PS_IDLE" => did \in {"left", "right", "jump"}
        /\ did \in {"left", "right"} => did \in ever
        /\ did = "jump" => "z" \in ever

\* A jump never ends: no call moves or changes a player in PS_JUMP again.
JumpIsFinal ==
    [][state = "PS_JUMP" => UNCHANGED entityVars]_vars

\* What the tables say (move_code.c:16, "30, //time"): a step of this movement
\* lasts 30 ms.  run_animation has a 15 of its own.
StepsTakeTableTime ==
    [][\A dir \in {"right", "left"} :
          Run(dir) /\ steps > 0 /\ steps' > steps =>
              now - time >= RunTable[dir].delta]_vars
=============================================================================
