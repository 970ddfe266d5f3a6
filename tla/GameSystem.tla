----------------------------- MODULE GameSystem -----------------------------
(***************************************************************************)
(* The program as main.c starts it: the compile thread of HotReload first, *)
(* then the main thread and, from the middle of the setup on, the game     *)
(* thread of GameLoop.  GameLoop is extended: its variables and actions    *)
(* are here as they are, and Spec is what it says of them.  The game       *)
(* thread is one thread in both: GameLoop's "script" is the call of        *)
(* move_player1_script at game.c:329, whose steps are those of HotReload.  *)
(* spc is where it is in there.                                            *)
(***************************************************************************)
EXTENDS GameLoop

CONSTANTS MaxVer, Addr, TextKind     \* of HotReload
ASSUME MaxVerIsPositive == MaxVer \in Nat \ {0}
ASSUME AddrIsNotNull == 0 \notin Addr

VARIABLES file, notify, waited, g_mutex_ready, cs_init, cs_owner, g_script_func,
          cpc, state, str, heap, lastread, opened, spc, move_code

\* HotReload comes with what is proved about it.
Reload == INSTANCE HotReloadProofs WITH gpc <- spc
ASSUME TextIsKnown == TextKind \subseteq Reload!AnyText

reloadVars == <<file, notify, waited, g_mutex_ready, cs_init, cs_owner,
                g_script_func, cpc, state, str, heap, lastread, opened, spc,
                move_code>>
systemVars == <<vars, reloadVars>>

SystemInit == Init /\ Reload!Init

-----------------------------------------------------------------------------
(* Where the two meet, and slips: an exit that waits for the script; the    *)
(* script called before the display is unlocked, or left out while the      *)
(* section is busy (TryEnterCriticalSection).                               *)

AfterScript == spc = "frame"
AtOnce == TRUE

EarlyScript == gpc \in {"flip", "script"}
AtScript == gpc = "script"

TriesSection ==
    \/ Reload!GameEnter /\ UNCHANGED vars
    \/ /\ spc = "enter" /\ spc' = "frame" /\ cs_owner = "compile"
       /\ ScriptSkips
       /\ UNCHANGED <<file, notify, waited, g_mutex_ready, cs_init, cs_owner,
                      g_script_func, cpc, state, str, heap, lastread, opened,
                      move_code>>
WaitsForSection == Reload!GameEnter /\ UNCHANGED vars

\* A step of the main thread or of the drawing.
MainStep == /\ mpc = "do_exit" => AtOnce
            /\ MainThread
            /\ UNCHANGED reloadVars
UserStep == User /\ UNCHANGED reloadVars
Draw == /\ \/ LockFrame \/ LockNothing \/ DrawText
           \/ DrawEntities \/ Flip \/ UnlockFrame
        /\ UNCHANGED reloadVars
VsyncStep == /\ spc = "frame"
             /\ WaitForVsync
             /\ UNCHANGED reloadVars

\* move_player1_script; nothing is called while the section is not ready.
NotReady == /\ spc = "frame" /\ ~g_mutex_ready
            /\ ScriptSkips
            /\ UNCHANGED reloadVars

Ready == /\ Running /\ AtScript
         /\ Reload!CheckReady
         /\ UNCHANGED vars

Enter == Running /\ WaitsForSection

TestFunc == /\ Reload!TestFunc
            /\ IF g_script_func = 0 THEN ScriptSkips
                                    ELSE Running /\ UNCHANGED vars

\* The program that is called moves the player, or returns without.
Moves == /\ spc = "call" /\ ~Reload!Hung
         /\ ScriptMoves
         /\ UNCHANGED reloadVars

Returns == /\ Reload!Return
           /\ ScriptMoved \/ ScriptSkips

Hangs == /\ Reload!Hung
         /\ ScriptHangs
         /\ UNCHANGED reloadVars

Spin == Running /\ gpc = "hung" /\ UNCHANGED systemVars

Leave == /\ Running
         /\ Reload!GameLeave
         /\ UNCHANGED vars

Script == NotReady \/ Ready \/ Enter \/ TestFunc \/ Moves \/ Returns \/ Hangs
             \/ Spin \/ Leave

Compile == Running /\ Reload!CompileThread /\ UNCHANGED vars
CompileEnter == Compile /\ cpc = "enter"

Notify == Running /\ Reload!NotifyFails /\ UNCHANGED vars
Edit == /\ Running
        /\ Reload!OtherChange \/ \E k \in Reload!FileKind : Reload!Edit(k)
        /\ UNCHANGED vars

Ended == ~Running /\ UNCHANGED systemVars

GameStep == Draw \/ VsyncStep \/ Script

SystemNext == MainStep \/ UserStep \/ GameStep \/ Compile \/ Notify \/ Edit
                 \/ Ended

SystemSpec == SystemInit /\ [][SystemNext]_systemVars

\* The three threads are scheduled, and who waits for a mutex that is given
\* back again and again gets it.
FairSpec == /\ SystemSpec
            /\ WF_systemVars(MainStep) /\ SF_systemVars(MainStep /\ mpc = "do_exit")
            /\ WF_systemVars(GameStep) /\ SF_systemVars(Enter)
            /\ WF_systemVars(Compile) /\ SF_systemVars(CompileEnter)

-----------------------------------------------------------------------------
(* Properties                                                              *)

SystemTypeOK == TypeOK /\ Reload!TypeOK

\* The game thread holds one of the two mutexes at a time: it never waits for
\* the compile thread while it keeps the main thread from ending the program.
OneMutexAtATime == spc # "frame" => gpc \notin Drawing

\* The game thread is inside the section exactly when it is in the script, so
\* a frame is drawn only after the script of the frame before has returned.
ScriptBeforeVsync == gpc = "lock" => cs_owner # "game"

\* ESCAPE ends the program whatever the compile thread does or the script does
\* not do.
EscapeEnds == ExitsOnEscape

UpToDate == g_script_func # 0 /\ Reload!UpToDate
Shown    == spc = "call" /\ Reload!Running.ver = file.ver

\* However often the compile thread takes the section - any change in the
\* directory makes it reload - the next frame comes, unless a script hangs or
\* the program ends: no order of the two mutexes and the three threads leaves
\* the game thread waiting.
FramesGoOn == []<>(gpc \in {"none", "flip", "hung"} \/ ~Running)

\* If the editor leaves the script alone, each reload publishes it again; then
\* the game calls it again and again, although changes of other files have it
\* reloaded for ever.
NewScriptRuns ==
    <>[](Running /\ gpc # "none" /\ (cs_owner # "compile" => UpToDate))
        => []<>Shown
=============================================================================
