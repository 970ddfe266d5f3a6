------------------------------ MODULE GameLoop ------------------------------
(***************************************************************************)
(* game.c:47-59 and 305-440: test_game sets everything up, starts the      *)
(* game thread, creates the player and then handles events; the game       *)
(* thread draws a frame under g_mutex and runs the script after it.  The   *)
(* end comes from the main thread: ESCAPE, or a step of the setup that     *)
(* fails, locks g_mutex for good and exits the process.  The one step that *)
(* may fail untested is al_create_mutex: then the game thread crashes.     *)
(*                                                                         *)
(* The script is whatever is published at the moment (HotReload): it may   *)
(* be missing, move the player, or never return.  The keyboard is the set  *)
(* of keys down (KeyTable).  blobs holds one entity, the only one that is  *)
(* ever added.                                                             *)
(***************************************************************************)
EXTENDS Naturals

CONSTANT Key     \* the keys but ESCAPE

VARIABLES mpc,        \* where the main thread is in main, test_game, create_p1
          g_mutex,    \* game.c:9: "free" or the thread that holds it; NULL
                      \* is "null" before al_create_mutex, "failed" after
          g_display,  \* a display has been created
          player,     \* *e of create_p1: [id, bm, sized]
          blobs,      \* the player is in the entity table
          down,       \* the keys in key_list
          gpc,        \* where the game thread is, "none": not started
          e,          \* get_entity has found the player, and this frame
                      \* says where it is
          drawn       \* draw_entities has drawn its bitmap in this frame

vars == <<mpc, g_mutex, g_display, player, blobs, down, gpc, e, drawn>>
frameVars == <<e, drawn>>
gameVars == <<gpc, frameVars>>
setupVars == <<g_display, player, blobs>>

Setup == {"al_init", "mutex", "image", "font", "display", "keyboard", "thread",
          "calloc", "bitmap", "fields", "add", "move", "moving"}
Ending == {"abort", "do_exit", "exit_cursor", "exited", "crashed"}
Drawing == {"get", "draw", "flip", "unlock"}   \* game thread, under g_mutex

TypeOK ==
    /\ mpc \in Setup \union {"loop"} \union Ending
    /\ g_mutex \in {"null", "failed", "free", "main", "game"}
    /\ g_display \in BOOLEAN
    /\ player \in [id : BOOLEAN, bm : BOOLEAN, sized : BOOLEAN]
    /\ blobs \in BOOLEAN
    /\ down \subseteq Key
    /\ gpc \in {"none", "lock", "script", "moving", "hung", "vsync"}
                  \union Drawing
    /\ e \in BOOLEAN /\ drawn \in BOOLEAN

Init ==
    /\ mpc = "al_init" /\ g_mutex = "null" /\ g_display = FALSE
    /\ player = [id |-> FALSE, bm |-> FALSE, sized |-> FALSE]
    /\ blobs = FALSE /\ down = {}
    /\ gpc = "none" /\ e = FALSE /\ drawn = FALSE

-----------------------------------------------------------------------------
(* What the steps below are made of, and slips in some of it: the mutex not *)
(* taken, an incomplete or unmoved player, events handled too early.        *)

NoMutex == {"null", "failed"}
Lock(t) == g_mutex = "free" /\ g_mutex' = t
LockIfAny(t) == IF g_mutex \in NoMutex THEN UNCHANGED g_mutex ELSE Lock(t)
FrameLock(t) == Lock(t)

Unlocked == "free"

ExitUnlocked == UNCHANGED g_mutex
ExitLock == LockIfAny("main")

WithoutBitmap == [player EXCEPT !.id = TRUE]
Complete == [player EXCEPT !.id = TRUE, !.bm = TRUE]

AddedLast == "loop"
Added == "move"

ListensEarly == mpc \in {"moving", "loop"}
Listens == mpc = "loop"

EventKey == Key

Main(from, to) == mpc = from /\ mpc' = to
Running == mpc \notin {"exited", "crashed"}
Game(from, to) == Running /\ gpc = from /\ gpc' = to

-----------------------------------------------------------------------------
(* The main thread                                                         *)

\* A step of the setup whose result is tested: it fails into abort_msg.
Try(from, to) == Main(from, to) \/ Main(from, "abort")

InitAllegro ==
    /\ Try("al_init", "mutex") \/ Try("image", "font") \/ Try("font", "display")
          \/ Try("keyboard", "thread")
    /\ UNCHANGED <<g_mutex, setupVars, down, gameVars>>

\* al_create_mutex may return NULL, which nobody tests.
CreateMutex == /\ Main("mutex", "image")
               /\ g_mutex' \in {"free", "failed"}
               /\ UNCHANGED <<setupVars, down, gameVars>>

CreateDisplay == /\ Try("display", "keyboard")
                 /\ g_display' = (mpc' # "abort")
                 /\ UNCHANGED <<g_mutex, player, blobs, down, gameVars>>

StartGameThread == /\ Main("thread", "calloc")
                   /\ gpc' = "lock"
                   /\ UNCHANGED <<g_mutex, setupVars, down, frameVars>>

\* create_p1, from here to MainMoved.
AllocPlayer == /\ Try("calloc", "bitmap") \/ Try("bitmap", "fields")
               /\ UNCHANGED <<g_mutex, setupVars, down, gameVars>>

SetFields == /\ Main("fields", "add")
             /\ player' = Complete
             /\ UNCHANGED <<g_mutex, g_display, blobs, down, gameVars>>

\* add_entity: the game thread can find the player from here on.
AddEntity == /\ Main("add", Added)
             /\ blobs' = TRUE
             /\ UNCHANGED <<g_mutex, g_display, player, down, gameVars>>

\* create_p1 itself calls move_player1.
MainMoves == /\ Main("move", "moving")
             /\ UNCHANGED <<g_mutex, setupVars, down, gameVars>>

MainMoved == /\ Main("moving", "loop")
             /\ player' = [player EXCEPT !.sized = TRUE]
             /\ UNCHANGED <<g_mutex, g_display, blobs, down, gameVars>>

\* KEY_DOWN and KEY_UP: set_key_down, set_key_up.
KeyEvent(k) == /\ Listens
               /\ down' \in {down \union {k}, down \ {k}}
               /\ UNCHANGED <<mpc, g_mutex, setupVars, gameVars>>

\* KEY_DOWN of ALLEGRO_KEY_ESCAPE.
Escape == /\ Main("loop", "do_exit")
          /\ UNCHANGED <<g_mutex, setupVars, down, gameVars>>

\* abort_msg: do_wait, until somebody presses a key.
AbortWait == /\ Main("abort", "do_exit")
             /\ UNCHANGED <<g_mutex, setupVars, down, gameVars>>

\* do_exit: the mutex, once there is one, is taken and never given back.
DoExit == /\ Main("do_exit", "exit_cursor")
          /\ ExitLock
          /\ UNCHANGED <<setupVars, down, gameVars>>

\* exit_cursor and exit(0): all threads end.
Exit == /\ Main("exit_cursor", "exited")
        /\ UNCHANGED <<g_mutex, setupVars, down, gameVars>>

-----------------------------------------------------------------------------
(* The game thread                                                         *)

LockFrame == /\ Game("lock", "get")
             /\ FrameLock("game")
             /\ UNCHANGED <<mpc, setupVars, down, frameVars>>

\* al_lock_mutex reads what g_mutex points to: NULL ends the process.
LockNothing == /\ Running /\ gpc = "lock" /\ g_mutex \in NoMutex
               /\ mpc' = "crashed"
               /\ UNCHANGED <<g_mutex, setupVars, down, gameVars>>

\* The position is drawn as text if get_entity finds the player.
DrawText == /\ Game("get", "draw")
            /\ e' = (blobs /\ player.id)
            /\ UNCHANGED <<mpc, g_mutex, setupVars, down, drawn>>

\* draw_entities reads the table again, and draw_bitmap looks for a bitmap.
DrawEntities == /\ Game("draw", "flip")
                /\ drawn' = (blobs /\ player.bm)
                /\ UNCHANGED <<mpc, g_mutex, setupVars, down, e>>

Flip == /\ Game("flip", "unlock")
        /\ UNCHANGED <<mpc, g_mutex, setupVars, down, frameVars>>

UnlockFrame == /\ Game("unlock", "script")
               /\ g_mutex' = Unlocked
               /\ UNCHANGED <<mpc, setupVars, down, frameVars>>

\* move_player1_script: there is a script, and it finds the player.
ScriptMoves == /\ Game("script", "moving")
               /\ blobs /\ player.id
               /\ UNCHANGED <<mpc, g_mutex, setupVars, down, frameVars>>

ScriptMoved == /\ Game("moving", "vsync")
               /\ player' = [player EXCEPT !.sized = TRUE]
               /\ UNCHANGED <<mpc, g_mutex, g_display, blobs, down, frameVars>>

\* There is none, or it does nothing.
ScriptSkips == /\ Game("script", "vsync")
               /\ UNCHANGED <<mpc, g_mutex, setupVars, down, frameVars>>

ScriptHangs == /\ Game("script", "hung")
               /\ UNCHANGED <<mpc, g_mutex, setupVars, down, frameVars>>

\* The next frame begins with e=0.
WaitForVsync == /\ Game("vsync", "lock")
                /\ e' = FALSE /\ drawn' = FALSE
                /\ UNCHANGED <<mpc, g_mutex, setupVars, down>>

-----------------------------------------------------------------------------
MainThread ==
    \/ InitAllegro \/ CreateMutex \/ CreateDisplay \/ StartGameThread
    \/ AllocPlayer \/ SetFields \/ AddEntity \/ MainMoves \/ MainMoved
    \/ DoExit \/ Exit

User == (\E k \in EventKey : KeyEvent(k)) \/ Escape \/ AbortWait

Frame == LockFrame \/ LockNothing \/ DrawText \/ DrawEntities \/ Flip
            \/ UnlockFrame \/ ScriptMoves \/ ScriptMoved \/ ScriptSkips
            \/ WaitForVsync

\* The process has ended.
Terminated == ~Running /\ UNCHANGED vars

Next == MainThread \/ User \/ Frame \/ ScriptHangs \/ Terminated

Spec == Init /\ [][Next]_vars

-----------------------------------------------------------------------------
(* Properties                                                              *)

\* Without a mutex nothing is ever drawn: the game thread fails at its first
\* frame, before it touches the display.  And with one it does not fail: it is
\* started after al_create_mutex has returned.
FailsBeforeDrawing ==
    /\ mpc = "crashed" => g_mutex = "failed"
    /\ g_mutex = "failed" => gpc \in {"none", "lock"}

\* The process ends between two frames: once do_exit has the mutex, the
\* display is not drawn to any more.
ExitsBetweenFrames == mpc \in {"exit_cursor", "exited"} => gpc \notin Drawing

\* A frame that says where the player is also shows it, although get_entity
\* and draw_entities read the table one after the other while create_p1 fills
\* it without a lock, and draw_bitmap passes over an entity without a bitmap.
PositionHasPicture == gpc = "flip" /\ e => drawn

\* An entity without a size (sw, sh are 0 after calloc) can only be drawn
\* between add_entity and the end of the first move_player1.
DrawsUnsizedOnlyAtStart ==
    gpc = "flip" /\ drawn /\ ~player.sized => mpc \in {"move", "moving"}

\* Two threads are inside move_player1, on the same entity and without a lock,
\* only before any key can be down: both calls then do nothing but write the
\* picture of a player at rest.
OverlapIsIdle == mpc = "moving" /\ gpc = "moving" => down = {}

\* ESCAPE ends the program, and so does a setup that fails - even if the game
\* thread is caught in a script that never returns; without a mutex the game
\* thread may be quicker to end it.
ExitsOnEscape == mpc = "do_exit" ~> ~Running
=============================================================================
