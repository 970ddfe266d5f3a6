-------------------------- MODULE GameSystemProofs --------------------------
(***************************************************************************)
(* Proofs about GameLoop and GameSystem, for every set of keys and any     *)
(* number of versions: who holds g_mutex, and what the order of the steps  *)
(* of test_game and create_p1 guarantees to the game thread, which is      *)
(* already running; what of that, and of HotReloadProofs, holds of the     *)
(* whole system; and how the two mutexes stand to each other.              *)
(***************************************************************************)
EXTENDS GameSystem, TLAPS

BeforeMutex  == {"al_init", "mutex"}
BeforeThread == BeforeMutex \union {"image", "font", "display", "keyboard",
                                     "thread"}
BeforeAdd    == BeforeThread \union {"calloc", "bitmap", "fields", "add"}

\* The mutex exists before the game thread, is held by it exactly while it
\* draws, and by the main thread from do_exit on.
MutexInv ==
    /\ mpc \in BeforeThread => gpc = "none"
    /\ mpc \in (Setup \union {"loop"}) \ BeforeMutex => g_mutex # "null"
    /\ gpc # "none" => g_mutex # "null"
    /\ FailsBeforeDrawing
    /\ g_mutex = "game" <=> gpc \in Drawing
    /\ g_mutex = "main" => mpc \in {"exit_cursor", "exited"}
    /\ mpc \in {"exit_cursor", "exited"} => g_mutex \in {"main"} \union NoMutex

\* The player is in the table once it is complete, gets its size before the
\* first event, and nobody finds it earlier.
PlayerInv ==
    /\ mpc \in BeforeAdd => ~blobs
    /\ mpc = "add" => player.id /\ player.bm
    /\ blobs => player.id /\ player.bm
    /\ blobs /\ ~player.sized => mpc \in {"move", "moving", "crashed"}
    /\ e => blobs
    /\ PositionHasPicture
    /\ drawn => blobs
    /\ mpc \in Setup => down = {}

LoopInv == TypeOK /\ MutexInv /\ PlayerInv

\* The game thread is inside move_player1_script only while GameLoop says so.
MeetInv ==
    /\ gpc \notin {"script", "moving", "hung", "vsync"} => spc = "frame"
    /\ gpc \in {"moving", "hung"} => spc = "call"
    /\ gpc = "script" => spc # "leave"
    /\ gpc = "vsync" => spc \in {"frame", "leave"}

-----------------------------------------------------------------------------
(* The game loop by itself: its inductive invariant                        *)

\* Every step keeps the types.
LEMMA LoopTypes == TypeOK /\ [Next]_vars => TypeOK'
  <1> SUFFICES ASSUME TypeOK, [Next]_vars PROVE TypeOK'
    OBVIOUS
  <1> USE DEF TypeOK, Setup, Ending, Drawing, Running, frameVars,
          vars, setupVars, gameVars, Main, Game
  <1>1. ASSUME NEW k \in Key, KeyEvent(k) PROVE TypeOK'
    BY <1>1 DEF KeyEvent, Listens
  <1>2. CASE InitAllegro
    BY <1>2 DEF InitAllegro, Try
  <1>3. CASE CreateMutex
    BY <1>3 DEF CreateMutex
  <1>4. CASE CreateDisplay
    BY <1>4 DEF CreateDisplay, Try
  <1>5. CASE StartGameThread
    BY <1>5 DEF StartGameThread
  <1>6. CASE AllocPlayer
    BY <1>6 DEF AllocPlayer, Try
  <1>7. CASE SetFields
    BY <1>7 DEF SetFields, Complete
  <1>8. CASE AddEntity
    BY <1>8 DEF AddEntity, Added
  <1>9. CASE MainMoves
    BY <1>9 DEF MainMoves
  <1>10. CASE MainMoved
    BY <1>10 DEF MainMoved
  <1>11. CASE DoExit
    BY <1>11 DEF DoExit, ExitLock, LockIfAny, NoMutex, Lock
  <1>12. CASE Exit
    BY <1>12 DEF Exit
  <1>13. CASE Escape
    BY <1>13 DEF Escape
  <1>14. CASE AbortWait
    BY <1>14 DEF AbortWait
  <1>15. CASE LockFrame
    BY <1>15 DEF LockFrame, FrameLock, Lock
  <1>16. CASE DrawText
    BY <1>16 DEF DrawText
  <1>17. CASE DrawEntities
    BY <1>17 DEF DrawEntities
  <1>18. CASE Flip
    BY <1>18 DEF Flip
  <1>19. CASE UnlockFrame
    BY <1>19 DEF UnlockFrame, Unlocked
  <1>20. CASE ScriptMoves
    BY <1>20 DEF ScriptMoves
  <1>21. CASE ScriptMoved
    BY <1>21 DEF ScriptMoved
  <1>22. CASE ScriptSkips
    BY <1>22 DEF ScriptSkips
  <1>23. CASE WaitForVsync
    BY <1>23 DEF WaitForVsync
  <1>24. CASE ScriptHangs
    BY <1>24 DEF ScriptHangs
  <1>25. CASE Terminated
    BY <1>25 DEF Terminated
  <1>26. CASE UNCHANGED vars
    BY <1>26
  <1>27. CASE LockNothing
    BY <1>27 DEF LockNothing
  <1>28. QED
    BY <1>1, <1>2, <1>3, <1>4, <1>5, <1>6, <1>7, <1>8, <1>9, <1>10, <1>11,
       <1>12, <1>13, <1>14, <1>15, <1>16, <1>17, <1>18, <1>19, <1>20,
       <1>21, <1>22, <1>23, <1>24, <1>25, <1>26, <1>27
    DEF Next, MainThread, User, EventKey, Frame

\* No step takes the mutex from the thread that holds it.
LEMMA MutexKept == TypeOK /\ MutexInv /\ [Next]_vars => MutexInv'
  <1> SUFFICES ASSUME TypeOK /\ MutexInv, [Next]_vars PROVE MutexInv'
    OBVIOUS
  <1> USE DEF TypeOK, MutexInv, FailsBeforeDrawing, NoMutex, Running,
          BeforeMutex, BeforeThread, Setup,
          Ending, Drawing, vars, setupVars, gameVars,
          Main, Game
  <1>1. ASSUME NEW k \in Key, KeyEvent(k) PROVE MutexInv'
    BY <1>1 DEF KeyEvent, Listens
  <1>2. CASE InitAllegro
    BY <1>2 DEF InitAllegro, Try
  <1>3. CASE CreateMutex
    BY <1>3 DEF CreateMutex
  <1>4. CASE CreateDisplay
    BY <1>4 DEF CreateDisplay, Try
  <1>5. CASE StartGameThread
    BY <1>5 DEF StartGameThread
  <1>6. CASE AllocPlayer
    BY <1>6 DEF AllocPlayer, Try
  <1>7. CASE SetFields
    BY <1>7 DEF SetFields, Complete
  <1>8. CASE AddEntity
    BY <1>8 DEF AddEntity, Added
  <1>9. CASE MainMoves
    BY <1>9 DEF MainMoves
  <1>10. CASE MainMoved
    BY <1>10 DEF MainMoved
  <1>11. CASE DoExit
    BY <1>11 DEF DoExit, ExitLock, LockIfAny, NoMutex, Lock
  <1>12. CASE Exit
    BY <1>12 DEF Exit
  <1>13. CASE Escape
    BY <1>13 DEF Escape
  <1>14. CASE AbortWait
    BY <1>14 DEF AbortWait
  <1>15. CASE LockFrame
    BY <1>15 DEF LockFrame, FrameLock, Lock
  <1>16. CASE DrawText
    BY <1>16 DEF DrawText
  <1>17. CASE DrawEntities
    BY <1>17 DEF DrawEntities
  <1>18. CASE Flip
    BY <1>18 DEF Flip
  <1>19. CASE UnlockFrame
    BY <1>19 DEF UnlockFrame, Unlocked
  <1>20. CASE ScriptMoves
    BY <1>20 DEF ScriptMoves
  <1>21. CASE ScriptMoved
    BY <1>21 DEF ScriptMoved
  <1>22. CASE ScriptSkips
    BY <1>22 DEF ScriptSkips
  <1>23. CASE WaitForVsync
    BY <1>23 DEF WaitForVsync
  <1>24. CASE ScriptHangs
    BY <1>24 DEF ScriptHangs
  <1>25. CASE Terminated
    BY <1>25 DEF Terminated
  <1>26. CASE UNCHANGED vars
    BY <1>26
  <1>27. CASE LockNothing
    BY <1>27 DEF LockNothing
  <1>28. QED
    BY <1>1, <1>2, <1>3, <1>4, <1>5, <1>6, <1>7, <1>8, <1>9, <1>10, <1>11,
       <1>12, <1>13, <1>14, <1>15, <1>16, <1>17, <1>18, <1>19, <1>20,
       <1>21, <1>22, <1>23, <1>24, <1>25, <1>26, <1>27
    DEF Next, MainThread, User, EventKey, Frame

\* No step shows an incomplete player to the game thread.
LEMMA PlayerKept == TypeOK /\ PlayerInv /\ [Next]_vars => PlayerInv'
  <1> SUFFICES ASSUME TypeOK /\ PlayerInv, [Next]_vars PROVE PlayerInv'
    OBVIOUS
  <1> USE DEF TypeOK, PlayerInv, PositionHasPicture, Running, frameVars,
          BeforeMutex, BeforeThread, BeforeAdd,
          Setup, Ending, vars, setupVars, gameVars,
          Main, Game
  <1>1. ASSUME NEW k \in Key, KeyEvent(k) PROVE PlayerInv'
    BY <1>1 DEF KeyEvent, Listens
  <1>2. CASE InitAllegro
    BY <1>2 DEF InitAllegro, Try
  <1>3. CASE CreateMutex
    BY <1>3 DEF CreateMutex
  <1>4. CASE CreateDisplay
    BY <1>4 DEF CreateDisplay, Try
  <1>5. CASE StartGameThread
    BY <1>5 DEF StartGameThread
  <1>6. CASE AllocPlayer
    BY <1>6 DEF AllocPlayer, Try
  <1>7. CASE SetFields
    BY <1>7 DEF SetFields, Complete
  <1>8. CASE AddEntity
    BY <1>8 DEF AddEntity, Added
  <1>9. CASE MainMoves
    BY <1>9 DEF MainMoves
  <1>10. CASE MainMoved
    BY <1>10 DEF MainMoved
  <1>11. CASE DoExit
    BY <1>11 DEF DoExit, ExitLock, LockIfAny, NoMutex, Lock
  <1>12. CASE Exit
    BY <1>12 DEF Exit
  <1>13. CASE Escape
    BY <1>13 DEF Escape
  <1>14. CASE AbortWait
    BY <1>14 DEF AbortWait
  <1>15. CASE LockFrame
    BY <1>15 DEF LockFrame, FrameLock, Lock
  <1>16. CASE DrawText
    BY <1>16 DEF DrawText
  <1>17. CASE DrawEntities
    BY <1>17 DEF DrawEntities
  <1>18. CASE Flip
    BY <1>18 DEF Flip
  <1>19. CASE UnlockFrame
    BY <1>19 DEF UnlockFrame, Unlocked
  <1>20. CASE ScriptMoves
    BY <1>20 DEF ScriptMoves
  <1>21. CASE ScriptMoved
    BY <1>21 DEF ScriptMoved
  <1>22. CASE ScriptSkips
    BY <1>22 DEF ScriptSkips
  <1>23. CASE WaitForVsync
    BY <1>23 DEF WaitForVsync
  <1>24. CASE ScriptHangs
    BY <1>24 DEF ScriptHangs
  <1>25. CASE Terminated
    BY <1>25 DEF Terminated
  <1>26. CASE UNCHANGED vars
    BY <1>26
  <1>27. CASE LockNothing
    BY <1>27 DEF LockNothing
  <1>28. QED
    BY <1>1, <1>2, <1>3, <1>4, <1>5, <1>6, <1>7, <1>8, <1>9, <1>10, <1>11,
       <1>12, <1>13, <1>14, <1>15, <1>16, <1>17, <1>18, <1>19, <1>20,
       <1>21, <1>22, <1>23, <1>24, <1>25, <1>26, <1>27
    DEF Next, MainThread, User, EventKey, Frame

\* GameLoop's invariant, in every run of it.
LEMMA LoopInvariance == Spec => []LoopInv
  <1>1. Init => LoopInv
    <2>1. Init => TypeOK
      <3>1. [id |-> FALSE, bm |-> FALSE, sized |-> FALSE]
                \in [id : BOOLEAN, bm : BOOLEAN, sized : BOOLEAN]
        OBVIOUS
      <3>2. "al_init" \in Setup
        BY DEF Setup
      <3>3. QED
        BY <3>1, <3>2 DEF Init, TypeOK
    <2>2. Init => MutexInv
      BY DEF Init, MutexInv, FailsBeforeDrawing, BeforeMutex, Drawing
    <2>3. Init => PlayerInv
      BY DEF Init, PlayerInv, PositionHasPicture
    <2>4. QED
      BY <2>1, <2>2, <2>3 DEF LoopInv
  <1>2. LoopInv /\ [Next]_vars => LoopInv'
    BY LoopTypes, MutexKept, PlayerKept DEF LoopInv
  <1>3. QED
    BY <1>1, <1>2, PTL DEF Spec

-----------------------------------------------------------------------------
(* What GameLoop promises                                                  *)

\* Every variable of the drawing keeps its type in every run.
THEOREM TypeCorrect == Spec => []TypeOK
  <1>1. LoopInv => TypeOK
    BY DEF LoopInv
  <1>2. QED
    BY <1>1, LoopInvariance, PTL

\* If al_create_mutex fails, the game thread fails before it draws, whatever
\* the main thread is doing by then; if not, it never fails to lock.
THEOREM NothingDrawnUnlocked == Spec => []FailsBeforeDrawing
  <1>1. LoopInv => FailsBeforeDrawing
    BY DEF LoopInv, MutexInv
  <1>2. QED
    BY <1>1, LoopInvariance, PTL

\* The process never ends while a frame is being drawn.
THEOREM NoExitWhileDrawing == Spec => []ExitsBetweenFrames
  <1>1. LoopInv => ExitsBetweenFrames
    BY DEF LoopInv, TypeOK, MutexInv, FailsBeforeDrawing, NoMutex, Drawing,
           ExitsBetweenFrames
  <1>2. QED
    BY <1>1, LoopInvariance, PTL

\* A frame that says where the player is shows it: the order of create_p1's
\* steps is enough, without a lock.
THEOREM PositionIsPictured == Spec => []PositionHasPicture
  <1>1. LoopInv => PositionHasPicture
    BY DEF LoopInv, PlayerInv
  <1>2. QED
    BY <1>1, LoopInvariance, PTL

\* A player without a size is drawn at most during its creation.
THEOREM DrawnHasSize == Spec => []DrawsUnsizedOnlyAtStart
  <1>1. LoopInv => DrawsUnsizedOnlyAtStart
    BY DEF LoopInv, MutexInv, FailsBeforeDrawing, PlayerInv,
           DrawsUnsizedOnlyAtStart
  <1>2. QED
    BY <1>1, LoopInvariance, PTL

\* The two threads move the player at once only while no key is down.
THEOREM OverlapHarmless == Spec => []OverlapIsIdle
  <1>1. LoopInv => OverlapIsIdle
    BY DEF LoopInv, PlayerInv, Setup, OverlapIsIdle
  <1>2. QED
    BY <1>1, LoopInvariance, PTL

-----------------------------------------------------------------------------
(* The system's steps are steps of its parts                               *)

\* Every step of the system is one of GameLoop, or none.
LEMMA LoopStep == [SystemNext]_systemVars => [Next]_vars
  <1> SUFFICES ASSUME [SystemNext]_systemVars PROVE [Next]_vars
    OBVIOUS
  <1>1. CASE MainStep \/ UserStep
    BY <1>1 DEF MainStep, UserStep, Next
  <1>2. CASE Draw \/ VsyncStep
    BY <1>2 DEF Draw, VsyncStep, Next, Frame
  <1>3. CASE NotReady \/ Moves \/ Returns \/ Hangs
    BY <1>3 DEF NotReady, Moves, Returns, Hangs, Next, Frame
  <1>4. CASE TestFunc
    BY <1>4 DEF TestFunc, Next, Frame, vars
  <1>5. CASE Ready \/ Enter \/ Leave \/ Spin
    BY <1>5 DEF Ready, Enter, WaitsForSection, Leave, Spin, systemVars, vars
  <1>6. CASE Compile \/ Notify \/ Edit \/ Ended \/ UNCHANGED systemVars
    BY <1>6 DEF Compile, Notify, Edit, Ended, systemVars, vars
  <1>7. QED
    BY <1>1, <1>2, <1>3, <1>4, <1>5, <1>6 DEF SystemNext, GameStep, Script

\* Every step of the system is one of HotReload, or none.
LEMMA ReloadStep == [SystemNext]_systemVars => [Reload!Next]_(Reload!vars)
  <1> SUFFICES ASSUME [SystemNext]_systemVars PROVE [Reload!Next]_(Reload!vars)
    OBVIOUS
  <1> USE DEF Reload!vars, Reload!env, Reload!cs, Reload!tcc, Reload!txt,
              Reload!game, reloadVars
  <1>1. CASE MainStep \/ UserStep \/ Draw \/ VsyncStep
    BY <1>1 DEF MainStep, UserStep, Draw, VsyncStep
  <1>2. CASE NotReady \/ Moves \/ Hangs
    BY <1>2 DEF NotReady, Moves, Hangs
  <1>3. CASE Ready \/ Enter \/ TestFunc \/ Returns \/ Leave
    BY <1>3 DEF Ready, Enter, WaitsForSection, TestFunc, Returns, Leave,
                Reload!Next, Reload!GameThread
  <1>4. CASE Compile \/ Notify \/ Edit
    BY <1>4 DEF Compile, Notify, Edit, Reload!Next
  <1>5. CASE Spin \/ Ended \/ UNCHANGED systemVars
    BY <1>5 DEF Spin, Ended, systemVars
  <1>6. QED
    BY <1>1, <1>2, <1>3, <1>4, <1>5 DEF SystemNext, GameStep, Script

\* A run of the system is a run of GameLoop: each of its actions contains the
\* one of GameLoop it stands for.
LEMMA RunOfLoop == SystemSpec => Spec
  <1>1. SystemInit => Init
    BY DEF SystemInit
  <1>2. QED
    BY <1>1, LoopStep, PTL DEF SystemSpec, Spec

\* And a run of HotReload.
LEMMA RunOfReload == SystemSpec => Reload!Spec
  <1>1. SystemInit => Reload!Init
    BY DEF SystemInit
  <1>2. QED
    BY <1>1, ReloadStep, PTL DEF SystemSpec, Reload!Spec

-----------------------------------------------------------------------------
(* What the parts promise holds of the whole                               *)

\* Every variable keeps its type in every run of the system.
THEOREM SystemTypeCorrect == SystemSpec => []SystemTypeOK
  <1>1. SystemSpec => []TypeOK
    BY RunOfLoop, TypeCorrect, PTL
  <1>2. SystemSpec => []Reload!TypeOK
    BY RunOfReload, Reload!TypeCorrect, MaxVerIsPositive, AddrIsNotNull,
       TextIsKnown, PTL
  <1>3. TypeOK /\ Reload!TypeOK => SystemTypeOK
    BY DEF SystemTypeOK
  <1>4. QED
    BY <1>1, <1>2, <1>3, PTL

\* In the running program, the game thread calls only code that is alive and
\* linked, of the text that was read last, and at most one program is alive.
THEOREM SystemCallsLiveCode ==
    SystemSpec => [](Reload!NoUseAfterFree /\ Reload!RunsNewestRead /\ Reload!NoLeak)
  <1>1. QED
    BY RunOfReload, Reload!CallsLiveCode, Reload!CallsNewestRead,
       Reload!OneStateAlive, MaxVerIsPositive, AddrIsNotNull,
       TextIsKnown, PTL

\* In the running program, nothing is drawn while it ends or without a mutex,
\* and a frame that says where the player is shows it.
THEOREM SystemDrawsComplete ==
    SystemSpec => [](ExitsBetweenFrames /\ FailsBeforeDrawing /\ PositionHasPicture)
  <1>1. QED
    BY RunOfLoop, NoExitWhileDrawing, NothingDrawnUnlocked,
       PositionIsPictured, PTL

-----------------------------------------------------------------------------
(* The two mutexes                                                         *)

\* Every step keeps the two places of the game thread together.
LEMMA MeetStep == MutexInv /\ MeetInv /\ [SystemNext]_systemVars => MeetInv'
  <1> SUFFICES ASSUME MutexInv, MeetInv, [SystemNext]_systemVars PROVE MeetInv'
    OBVIOUS
  <1> USE DEF MeetInv
  <1>1. CASE MainStep
    <2>1. gpc' = gpc \/ (gpc = "none" /\ gpc' = "lock")
      BY <1>1 DEF MainStep, Main, MutexInv, BeforeThread, MainThread,
                  InitAllegro, CreateMutex,
                  CreateDisplay, StartGameThread, AllocPlayer,
                  SetFields, AddEntity, MainMoves,
                  MainMoved, DoExit, Exit, gameVars
    <2>2. QED
      BY <1>1, <2>1 DEF MainStep, reloadVars
  <1>2. CASE UserStep
    BY <1>2 DEF UserStep, User, KeyEvent, Escape, AbortWait,
                gameVars, reloadVars
  <1>3. CASE Draw \/ VsyncStep
    BY <1>3 DEF Draw, VsyncStep, LockFrame, LockNothing, DrawText,
                DrawEntities, Flip, UnlockFrame,
                WaitForVsync, Game, gameVars, reloadVars
  <1>4. CASE NotReady \/ Moves \/ Hangs
    BY <1>4 DEF NotReady, Moves, Hangs, Reload!Hung,
                ScriptSkips, ScriptMoves, ScriptHangs,
                Game, reloadVars
  <1>5. CASE Ready \/ Enter \/ Leave
    BY <1>5 DEF Ready, AtScript, Enter, WaitsForSection, Leave,
                Reload!CheckReady, Reload!GameEnter, Reload!GameLeave, vars
  <1>6. CASE TestFunc \/ Returns
    BY <1>6 DEF TestFunc, Returns, Reload!TestFunc,
                Reload!Return, ScriptSkips, ScriptMoved, Game,
                vars
  <1>7. CASE Compile
    <2>1. spc' = spc
      BY <1>7 DEF Compile, Reload!CompileThread, Reload!InitializeCS,
                  Reload!PublishReady, Reload!FindFirst, Reload!CompileEnter,
                  Reload!ClearFunc, Reload!DeleteState, Reload!CreateState,
                  Reload!OpenFile, Reload!ReadText, Reload!CompileProgram,
                  Reload!GetSymbol, Reload!CompileLeave, Reload!FindNext,
                  Reload!WaitChange, Reload!game
    <2>2. QED
      BY <1>7, <2>1 DEF Compile, vars
  <1>8. CASE Notify \/ Edit
    BY <1>8 DEF Notify, Edit, Reload!NotifyFails, Reload!Edit,
                Reload!OtherChange, Reload!game, vars
  <1>9. CASE Spin \/ Ended \/ UNCHANGED systemVars
    BY <1>9 DEF Spin, Ended, systemVars, vars, reloadVars
  <1>10. QED
    BY <1>1, <1>2, <1>3, <1>4, <1>5, <1>6, <1>7, <1>8, <1>9
       DEF SystemNext, GameStep, Script

\* The game thread is in the script in both, or in neither, in every state.
LEMMA Meeting == SystemSpec => []MeetInv
  <1>1. SystemInit => MeetInv
    BY DEF SystemInit, Init, Reload!Init, MeetInv
  <1>2. SystemSpec => []LoopInv
    BY RunOfLoop, LoopInvariance, PTL
  <1>3. LoopInv => MutexInv
    BY DEF LoopInv
  <1>4. QED
    BY <1>1, <1>2, <1>3, MeetStep, PTL DEF SystemSpec

\* The game thread never waits for, or holds, the section of the scripts while
\* it holds the mutex of the display: a compilation cannot stop ESCAPE.
THEOREM HoldsOneMutex == SystemSpec => []OneMutexAtATime
  <1>1. MeetInv => OneMutexAtATime
    BY DEF MeetInv, OneMutexAtATime, Drawing
  <1>2. QED
    BY <1>1, Meeting, PTL

\* The game thread never begins a frame inside the section of the scripts: the
\* compile thread finds it open between two frames.
THEOREM FrameOutsideSection == SystemSpec => []ScriptBeforeVsync
  <1>1. SystemSpec => []Reload!IInv
    BY RunOfReload, Reload!Invariance, MaxVerIsPositive, AddrIsNotNull,
       TextIsKnown, PTL
  <1>2. MeetInv /\ Reload!IInv => ScriptBeforeVsync
    BY DEF MeetInv, Reload!IInv, Reload!SectionInv, ScriptBeforeVsync
  <1>3. QED
    BY <1>1, <1>2, Meeting, PTL
=============================================================================
