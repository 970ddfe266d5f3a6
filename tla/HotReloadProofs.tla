--------------------------- MODULE HotReloadProofs ---------------------------
(***************************************************************************)
(* Proofs about HotReload, for every bound on the number of edits and      *)
(* every set of addresses.  The inductive invariant has three parts: who   *)
(* is inside the critical section, what the one live TCCState holds at     *)
(* each step of a reload, and what the notification handle knows of the    *)
(* edits not read yet.                                                     *)
(***************************************************************************)
EXTENDS HotReload, TLAPS

\* The section belongs to the thread whose pc is inside it, and nobody gets
\* there before it exists.
SectionInv ==
    /\ cs_owner = "compile" <=> cpc \in InSection
    /\ cs_owner = "game" <=> gpc \in {"test", "call", "leave"}
    /\ cpc # "init" => cs_init
    /\ g_mutex_ready => cs_init
    /\ gpc # "frame" => cs_init

\* The only live TCCState is the thread's; what is published is in it.
ProgramInv ==
    /\ DOMAIN heap = {state} \ {0}
    /\ cpc = "new" => state = 0
    /\ cpc \in {"delete", "read", "fread", "compile", "symbol"} => state # 0
    /\ cpc \in {"delete", "new", "read", "fread", "compile", "symbol"} =>
           g_script_func = 0
    /\ cpc = "compile" => str.ver = lastread
    /\ cpc = "symbol" => heap[state].ver = lastread /\ heap[state].relocated
    /\ g_script_func # 0 =>
           /\ g_script_func = state
           /\ heap[state].relocated
           /\ Defines(heap[state].kind)
           /\ heap[state].ver = lastread
    /\ gpc = "call" => g_script_func # 0 /\ move_code = g_script_func

\* From the first wait on, the text on disk is the one that was read, or the
\* handle knows better.
NotifyInv ==
    /\ lastread <= file.ver
    /\ cpc \in {"fread", "compile", "symbol"} \/ g_script_func # 0 =>
           lastread # 0
    /\ notify.signaled => ~notify.armed
    /\ cpc \notin Closed =>
           notify.armed \/ notify.signaled
    /\ waited => cpc \notin {"init", "publish", "first"}
    /\ waited /\ cpc \notin {"wait", "exited"} => ~notify.armed
    /\ waited /\ cpc \in {"fread", "compile", "symbol", "leave", "next"}
             /\ lastread # file.ver => notify.recorded
    /\ FreshWhenParked

IInv == TypeOK /\ SectionInv /\ ProgramInv /\ NotifyInv

-----------------------------------------------------------------------------
(* Type correctness                                                        *)

\* Every variable keeps its type, whatever the two threads and the editor do.
LEMMA TypeInit == Init => TypeOK
  <1> SUFFICES ASSUME Init PROVE TypeOK
    OBVIOUS
  <1>1. DOMAIN heap = {} /\ heap \in [DOMAIN heap -> Program]
    BY DEF Init
  <1>2. file \in [ver : 1 .. MaxVer, kind : FileKind]
    BY MaxVerAssumption DEF Init
  <1>3. notify \in Handle
    BY DEF Init, Handle
  <1>4. lastread \in Version /\ str \in Text
    BY MaxVerAssumption DEF Init, NULL, Text, Version, FileKind
  <1>5. {state, g_script_func, move_code} \subseteq Addr \union {0}
    BY DEF Init
  <1>6. /\ waited \in BOOLEAN /\ g_mutex_ready \in BOOLEAN
        /\ cs_init \in BOOLEAN /\ opened \in BOOLEAN
        /\ cs_owner \in {"none", "compile", "game"}
    BY DEF Init
  <1>7. cpc \in CompilePC /\ gpc \in {"frame", "enter", "test", "call", "leave"}
    BY DEF Init, CompilePC, Closed
  <1>8. QED
    BY <1>1, <1>2, <1>3, <1>4, <1>5, <1>6, <1>7 DEF TypeOK

\* Every step of the two threads and of the directory keeps the types.
LEMMA TypeStep == TypeOK /\ [Next]_vars => TypeOK'
  <1> SUFFICES ASSUME TypeOK, [Next]_vars PROVE TypeOK'
    OBVIOUS
  <1> USE MaxVerAssumption
      DEF TypeOK, Text, Version, FileKind, Program, InSection, Closed, CompilePC,
          vars, env, cs, tcc, txt, game, Goto
  <1>0. DirectoryChanges => notify' \in Handle
    <2>1. Changed(notify) \in Handle
      BY DEF Changed, Handle
    <2>2. QED
      BY <2>1 DEF DirectoryChanges
  <1>1. ASSUME NEW k \in FileKind, Edit(k) PROVE TypeOK'
    <2>2. notify' \in Handle
      BY <1>0, <1>1 DEF Edit
    <2>3. file' \in [ver : 1 .. MaxVer, kind : FileKind]
      BY <1>1 DEF Edit
    <2>4. QED
      BY <1>1, <2>2, <2>3 DEF Edit
  <1>2. CASE InitializeCS
    BY <1>2 DEF InitializeCS
  <1>3. CASE PublishReady
    BY <1>3 DEF PublishReady
  <1>4. CASE FindFirst
    BY <1>4 DEF FindFirst, Armed, Handle
  <1>5. CASE CompileEnter
    BY <1>5 DEF CompileEnter, EnterCriticalSection
  <1>6. CASE ClearFunc
    BY <1>6 DEF ClearFunc, Withdrawn
  <1>7. CASE DeleteState
    BY <1>7 DEF DeleteState, Freed
  <1>8. CASE CreateState
    BY AddrAssumption, <1>8 DEF CreateState, NewState, Fresh
  <1>9. CASE OpenFile
    <2>1. opened' \in BOOLEAN
      BY <1>9 DEF OpenFile
    <2>2. cpc' \in CompilePC
      BY <1>9 DEF OpenFile
    <2>3. QED
      BY <1>9, <2>1, <2>2 DEF OpenFile
  <1>10. CASE ReadText
    BY <1>10 DEF ReadText
  <1>11. CASE CompileProgram
    <2>1. Relocates(str.kind) \in BOOLEAN
      BY DEF Relocates
    <2>2. [ver |-> str.ver, kind |-> str.kind,
           relocated |-> Relocates(str.kind)] \in Program
      BY <2>1
    <2>3. DOMAIN heap' = DOMAIN heap /\ heap' \in [DOMAIN heap' -> Program]
      BY <1>11, <2>2 DEF CompileProgram
    <2>4. str' \in Text /\ cpc' \in CompilePC
      BY <1>11 DEF CompileProgram, NULL
    <2>5. QED
      BY <1>11, <2>3, <2>4 DEF CompileProgram
  <1>12. CASE GetSymbol
    BY <1>12 DEF GetSymbol, Symbol, NULL
  <1>13. CASE CompileLeave
    BY <1>13 DEF CompileLeave, LeaveCriticalSection
  <1>14. CASE FindNext
    <2>1. CASE waited
      <3>1. notify' = [armed |-> ~notify.recorded, signaled |-> notify.recorded,
                       recorded |-> FALSE]
        BY <1>14, <2>1 DEF FindNext, NextHandle
      <3>2. notify' \in Handle
        BY <3>1 DEF Handle
      <3>3. QED
        BY <1>14, <3>2 DEF FindNext
    <2>2. CASE ~waited
      <3>1. notify' = notify \/ notify' = Armed
        BY <1>14, <2>2 DEF FindNext, NextHandle
      <3>2. Armed \in Handle
        BY DEF Armed, Handle
      <3>3. QED
        BY <1>14, <3>1, <3>2 DEF FindNext
    <2>3. QED
      BY <2>1, <2>2
  <1>15. CASE WaitChange
    BY <1>15 DEF WaitChange
  <1>16. CASE NotifyFails
    BY <1>16 DEF NotifyFails
  <1>17. CASE CheckReady
    BY <1>17 DEF CheckReady, MayEnter
  <1>18. CASE GameEnter
    BY <1>18 DEF GameEnter, EnterCriticalSection
  <1>19. CASE TestFunc
    BY <1>19 DEF TestFunc
  <1>20. CASE Return
    BY <1>20 DEF Return
  <1>21. CASE Spin
    BY <1>21 DEF Spin
  <1>22. CASE GameLeave
    BY <1>22 DEF GameLeave, LeaveCriticalSection
  <1>23. CASE UNCHANGED vars
    BY <1>23
  <1>24. CASE OtherChange
    BY <1>0, <1>24 DEF OtherChange
  <1>25. QED
    BY <1>1, <1>2, <1>3, <1>4, <1>5, <1>6, <1>7, <1>8, <1>9, <1>10, <1>11, <1>12, <1>13, <1>14, <1>15, <1>16, <1>17, <1>18, <1>19, <1>20, <1>21, <1>22, <1>23, <1>24 DEF Next, CompileThread, GameThread

-----------------------------------------------------------------------------
(* The inductive invariant                                                 *)

\* No step puts two threads in the section, or one in it before it exists.
LEMMA SectionStep == TypeOK /\ SectionInv /\ [Next]_vars => SectionInv'
  <1> SUFFICES ASSUME TypeOK /\ SectionInv, [Next]_vars PROVE SectionInv'
    OBVIOUS
  <1> USE DEF TypeOK, SectionInv, InSection, Closed, CompilePC,
          vars, env, cs, tcc, txt, game, Goto
  <1>1. ASSUME NEW k \in FileKind, Edit(k) PROVE SectionInv'
    BY <1>1 DEF Edit
  <1>2. CASE InitializeCS
    BY <1>2 DEF InitializeCS
  <1>3. CASE PublishReady
    BY <1>3 DEF PublishReady
  <1>4. CASE FindFirst
    BY <1>4 DEF FindFirst, Armed
  <1>5. CASE CompileEnter
    BY <1>5 DEF CompileEnter, EnterCriticalSection
  <1>6. CASE ClearFunc
    BY <1>6 DEF ClearFunc, Withdrawn
  <1>7. CASE DeleteState
    BY <1>7 DEF DeleteState, Freed
  <1>8. CASE CreateState
    BY AddrAssumption, <1>8 DEF CreateState, NewState
  <1>9. CASE OpenFile
    BY <1>9 DEF OpenFile
  <1>10. CASE ReadText
    BY <1>10 DEF ReadText
  <1>11. CASE CompileProgram
    BY <1>11 DEF CompileProgram
  <1>12. CASE GetSymbol
    BY <1>12 DEF GetSymbol, Symbol
  <1>13. CASE CompileLeave
    BY <1>13 DEF CompileLeave, LeaveCriticalSection
  <1>14. CASE FindNext
    BY <1>14 DEF FindNext
  <1>15. CASE WaitChange
    BY <1>15 DEF WaitChange
  <1>16. CASE NotifyFails
    BY <1>16 DEF NotifyFails
  <1>17. CASE CheckReady
    BY <1>17 DEF CheckReady, MayEnter
  <1>18. CASE GameEnter
    BY <1>18 DEF GameEnter, EnterCriticalSection
  <1>19. CASE TestFunc
    BY <1>19 DEF TestFunc
  <1>20. CASE Return
    BY <1>20 DEF Return
  <1>21. CASE Spin
    BY <1>21 DEF Spin
  <1>22. CASE GameLeave
    BY <1>22 DEF GameLeave, LeaveCriticalSection
  <1>23. CASE UNCHANGED vars
    BY <1>23
  <1>24. CASE OtherChange
    BY <1>24 DEF OtherChange
  <1>25. QED
    BY <1>1, <1>2, <1>3, <1>4, <1>5, <1>6, <1>7, <1>8, <1>9, <1>10, <1>11,
       <1>12, <1>13, <1>14, <1>15, <1>16, <1>17, <1>18, <1>19, <1>20, <1>21,
       <1>22, <1>23, <1>24 DEF Next, CompileThread, GameThread

\* No step of a reload or of a call lets the published function and the live
\* TCCState come apart.
LEMMA ProgramStep == TypeOK /\ SectionInv /\ ProgramInv /\ [Next]_vars => ProgramInv'
  <1> SUFFICES ASSUME TypeOK /\ SectionInv /\ ProgramInv, [Next]_vars PROVE ProgramInv'
    OBVIOUS
  <1> USE DEF TypeOK, SectionInv, ProgramInv, InSection, Closed, CompilePC,
          vars, env, cs, tcc, txt, game, Goto
  <1>1. ASSUME NEW k \in FileKind, Edit(k) PROVE ProgramInv'
    BY <1>1 DEF Edit
  <1>2. CASE InitializeCS
    BY <1>2 DEF InitializeCS
  <1>3. CASE PublishReady
    BY <1>3 DEF PublishReady
  <1>4. CASE FindFirst
    BY <1>4 DEF FindFirst, Armed
  <1>5. CASE CompileEnter
    BY <1>5 DEF CompileEnter, EnterCriticalSection
  <1>6. CASE ClearFunc
    BY <1>6 DEF ClearFunc, Withdrawn
  <1>7. CASE DeleteState
    BY <1>7 DEF DeleteState, Freed
  <1>8. CASE CreateState
    BY AddrAssumption, <1>8 DEF CreateState, NewState, Fresh
  <1>9. CASE OpenFile
    BY <1>9 DEF OpenFile, NULL
  <1>10. CASE ReadText
    BY <1>10 DEF ReadText
  <1>11. CASE CompileProgram
    BY <1>11 DEF CompileProgram, Relocates, NULL
  <1>12. CASE GetSymbol
    BY <1>12 DEF GetSymbol, Symbol, NULL
  <1>13. CASE CompileLeave
    BY <1>13 DEF CompileLeave, LeaveCriticalSection
  <1>14. CASE FindNext
    BY <1>14 DEF FindNext
  <1>15. CASE WaitChange
    BY <1>15 DEF WaitChange
  <1>16. CASE NotifyFails
    BY <1>16 DEF NotifyFails
  <1>17. CASE CheckReady
    BY <1>17 DEF CheckReady, MayEnter
  <1>18. CASE GameEnter
    BY <1>18 DEF GameEnter, EnterCriticalSection
  <1>19. CASE TestFunc
    BY <1>19 DEF TestFunc
  <1>20. CASE Return
    BY <1>20 DEF Return
  <1>21. CASE Spin
    BY <1>21 DEF Spin
  <1>22. CASE GameLeave
    BY <1>22 DEF GameLeave, LeaveCriticalSection
  <1>23. CASE UNCHANGED vars
    BY <1>23
  <1>24. CASE OtherChange
    BY <1>24 DEF OtherChange
  <1>25. QED
    BY <1>1, <1>2, <1>3, <1>4, <1>5, <1>6, <1>7, <1>8, <1>9, <1>10, <1>11,
       <1>12, <1>13, <1>14, <1>15, <1>16, <1>17, <1>18, <1>19, <1>20, <1>21,
       <1>22, <1>23, <1>24 DEF Next, CompileThread, GameThread

\* No change after the first wait gets lost between the file and the handle.
LEMMA NotifyStep == TypeOK /\ NotifyInv /\ [Next]_vars => NotifyInv'
  <1> SUFFICES ASSUME TypeOK /\ NotifyInv, [Next]_vars PROVE NotifyInv'
    OBVIOUS
  <1> USE DEF TypeOK, NotifyInv, FreshWhenParked, Version, Closed, InSection, CompilePC,
          vars, env, cs, tcc, txt, game, Goto
  <1>1. ASSUME NEW k \in FileKind, Edit(k) PROVE NotifyInv'
    <2>1. /\ file'.ver = file.ver + 1
          /\ UNCHANGED <<cpc, waited, lastread, g_script_func>>
      BY <1>1 DEF Edit
    <2>2. CASE cpc \in Closed
      BY <1>1, <2>1, <2>2 DEF Edit, DirectoryChanges
    <2>3. CASE cpc \notin Closed /\ notify.armed
      <3>1. /\ ~notify'.armed /\ notify'.signaled
            /\ notify'.recorded = notify.recorded
        BY <1>1, <2>3 DEF Edit, DirectoryChanges, Changed
      <3>2. QED
        BY <2>1, <2>3, <3>1
    <2>4. CASE cpc \notin Closed /\ ~notify.armed
      <3>1. /\ ~notify'.armed /\ notify'.recorded
            /\ notify'.signaled = notify.signaled
        BY <1>1, <2>4 DEF Edit, DirectoryChanges, Changed
      <3>2. QED
        BY <2>1, <2>4, <3>1
    <2>5. QED
      BY <2>2, <2>3, <2>4
  <1>2. CASE InitializeCS
    BY <1>2 DEF InitializeCS
  <1>3. CASE PublishReady
    BY <1>3 DEF PublishReady
  <1>4. CASE FindFirst
    BY <1>4 DEF FindFirst, Armed
  <1>5. CASE CompileEnter
    BY <1>5 DEF CompileEnter, EnterCriticalSection
  <1>6. CASE ClearFunc
    BY <1>6 DEF ClearFunc, Withdrawn
  <1>7. CASE DeleteState
    BY <1>7 DEF DeleteState, Freed
  <1>8. CASE CreateState
    BY AddrAssumption, <1>8 DEF CreateState, NewState
  <1>9. CASE OpenFile
    BY <1>9 DEF OpenFile
  <1>10. CASE ReadText
    BY <1>10 DEF ReadText
  <1>11. CASE CompileProgram
    BY <1>11 DEF CompileProgram
  <1>12. CASE GetSymbol
    BY <1>12 DEF GetSymbol, Symbol
  <1>13. CASE CompileLeave
    BY <1>13 DEF CompileLeave, LeaveCriticalSection
  <1>14. CASE FindNext
    <2>1. CASE waited
      <3>1. notify' = [armed |-> ~notify.recorded, signaled |-> notify.recorded,
                       recorded |-> FALSE]
        BY <1>14, <2>1 DEF FindNext, NextHandle
      <3>2. QED
        BY <1>14, <2>1, <3>1 DEF FindNext
    <2>2. CASE ~waited
      <3>1. notify' = notify \/ notify' = Armed
        BY <1>14, <2>2 DEF FindNext, NextHandle
      <3>2. QED
        BY <1>14, <2>2, <3>1 DEF FindNext, Armed
    <2>3. QED
      BY <2>1, <2>2
  <1>15. CASE WaitChange
    BY <1>15 DEF WaitChange
  <1>16. CASE NotifyFails
    BY <1>16 DEF NotifyFails
  <1>17. CASE CheckReady
    BY <1>17 DEF CheckReady, MayEnter
  <1>18. CASE GameEnter
    BY <1>18 DEF GameEnter, EnterCriticalSection
  <1>19. CASE TestFunc
    BY <1>19 DEF TestFunc
  <1>20. CASE Return
    BY <1>20 DEF Return
  <1>21. CASE Spin
    BY <1>21 DEF Spin
  <1>22. CASE GameLeave
    BY <1>22 DEF GameLeave, LeaveCriticalSection
  <1>23. CASE UNCHANGED vars
    BY <1>23
  <1>24. CASE OtherChange
    <2>1. UNCHANGED <<file, cpc, waited, lastread, g_script_func>>
      BY <1>24 DEF OtherChange
    <2>2. CASE cpc \in Closed
      BY <1>24, <2>1, <2>2 DEF OtherChange, DirectoryChanges
    <2>3. CASE cpc \notin Closed /\ notify.armed
      <3>1. /\ ~notify'.armed /\ notify'.signaled
            /\ notify'.recorded = notify.recorded
        BY <1>24, <2>3 DEF OtherChange, DirectoryChanges, Changed
      <3>2. QED
        BY <2>1, <2>3, <3>1
    <2>4. CASE cpc \notin Closed /\ ~notify.armed
      <3>1. /\ ~notify'.armed /\ notify'.recorded
            /\ notify'.signaled = notify.signaled
        BY <1>24, <2>4 DEF OtherChange, DirectoryChanges, Changed
      <3>2. QED
        BY <2>1, <2>4, <3>1
    <2>5. QED
      BY <2>2, <2>3, <2>4
  <1>25. QED
    BY <1>1, <1>2, <1>3, <1>4, <1>5, <1>6, <1>7, <1>8, <1>9, <1>10, <1>11,
       <1>12, <1>13, <1>14, <1>15, <1>16, <1>17, <1>18, <1>19, <1>20, <1>21,
       <1>22, <1>23, <1>24 DEF Next, CompileThread, GameThread

\* The invariant holds in every state.
LEMMA Invariance == Spec => []IInv
  <1>1. Init => IInv
    <2>1. Init => SectionInv
      BY DEF Init, SectionInv, InSection
    <2>2. Init => ProgramInv
      BY DEF Init, ProgramInv
    <2>3. Init => NotifyInv
      BY DEF Init, NotifyInv, FreshWhenParked, Closed
    <2>4. QED
      BY TypeInit, <2>1, <2>2, <2>3 DEF IInv
  <1>2. IInv /\ [Next]_vars => IInv'
    BY TypeStep, SectionStep, ProgramStep, NotifyStep DEF IInv
  <1>3. QED
    BY <1>1, <1>2, PTL DEF Spec

-----------------------------------------------------------------------------
(* Safety                                                                  *)

\* Every variable keeps its type in every run.
THEOREM TypeCorrect == Spec => []TypeOK
  <1>1. IInv => TypeOK
    BY DEF IInv
  <1>2. QED
    BY <1>1, Invariance, PTL

\* The call at line 263 is never made into memory tcc_delete has freed, nor
\* into a program that is not linked, for any number of edits and reloads.
THEOREM CallsLiveCode == Spec => []NoUseAfterFree
  <1>1. IInv => NoUseAfterFree
    BY DEF IInv, TypeOK, ProgramInv, NoUseAfterFree, Running
  <1>2. QED
    BY <1>1, Invariance, PTL

\* What the game executes is the text that compile_thread read last.
THEOREM CallsNewestRead == Spec => []RunsNewestRead
  <1>1. IInv => RunsNewestRead
    BY DEF IInv, ProgramInv, RunsNewestRead, VersionOf, TypeOK
  <1>2. QED
    BY <1>1, Invariance, PTL

\* Outside a reload, g_script_func is 0 or the move_player1 of the program in
\* the thread's own state.
THEOREM PublishesOwnState == Spec => []PublishedIsState
  <1>1. IInv => PublishedIsState
    BY DEF IInv, TypeOK, ProgramInv, PublishedIsState
  <1>2. QED
    BY <1>1, Invariance, PTL

\* The unlocked test of g_mutex_ready is enough: nobody enters a critical
\* section that is not initialized.
THEOREM EntersInitialized == Spec => []InitBeforeEnter
  <1>1. IInv => InitBeforeEnter
    BY DEF IInv, TypeOK, SectionInv, InSection, InitBeforeEnter
  <1>2. QED
    BY <1>1, Invariance, PTL

\* A reload frees the state of the reload before it.
THEOREM OneStateAlive == Spec => []NoLeak
  <1>1. IInv => NoLeak
    BY DEF IInv, ProgramInv, NoLeak
  <1>2. QED
    BY <1>1, Invariance, PTL

\* After its first wait, compile_thread does not sleep on an edit it has not
\* read.
THEOREM SleepsUpToDate == Spec => []FreshWhenParked
  <1>1. IInv => FreshWhenParked
    BY DEF IInv, NotifyInv
  <1>2. QED
    BY <1>1, Invariance, PTL

-----------------------------------------------------------------------------
(* Steps                                                                   *)

\* Nothing changes under a script that is running.
THEOREM CodeIsStable == Spec => RunningIsStable
  <1> DEFINE A == gpc = "call" /\ gpc' = "call" =>
                      /\ move_code' \in DOMAIN heap'
                      /\ heap'[move_code'] = Running
                      /\ g_script_func' = g_script_func
  <1>1. IInv /\ [Next]_vars => A
    <2> SUFFICES ASSUME IInv, [Next]_vars, gpc = "call", gpc' = "call"
                 PROVE  /\ move_code' \in DOMAIN heap'
                        /\ heap'[move_code'] = Running
                        /\ g_script_func' = g_script_func
      OBVIOUS
    <2>1. cpc \notin InSection /\ move_code \in DOMAIN heap
      BY DEF IInv, TypeOK, SectionInv, ProgramInv
    <2>2. UNCHANGED <<heap, move_code, g_script_func>>
      BY <2>1
      DEF Next, Edit, OtherChange, CompileThread, InitializeCS, PublishReady,
          FindFirst, CompileEnter, ClearFunc, DeleteState, CreateState, NewState, OpenFile,
          ReadText, CompileProgram, GetSymbol, CompileLeave, FindNext,
          WaitChange, NotifyFails, GameThread, CheckReady, GameEnter, TestFunc,
          Return, Spin, GameLeave, InSection,
          vars, env, cs, tcc, txt, game, Goto
    <2>3. QED
      BY <2>1, <2>2 DEF Running
  <1>2. QED
    BY <1>1, Invariance, PTL DEF Spec, RunningIsStable

\* A script that does not return stays for ever, and from the moment the
\* compile thread wants to replace it, that thread stays outside too.
THEOREM HangStays == Spec => HangIsFinal
  <1>1. IInv /\ [Next]_vars => (Hung => Hung' /\ (cpc = "enter" => cpc' = "enter"))
    <2> SUFFICES ASSUME IInv, [Next]_vars, Hung
                 PROVE  Hung' /\ (cpc = "enter" => cpc' = "enter")
      OBVIOUS
    <2>1. cpc \notin InSection /\ cs_owner = "game"
      BY DEF IInv, TypeOK, SectionInv, Hung
    <2>2. /\ UNCHANGED <<heap, move_code, gpc>>
          /\ cpc = "enter" => cpc' = "enter"
      BY <2>1
      DEF Next, Edit, OtherChange, CompileThread, InitializeCS, PublishReady,
          FindFirst, CompileEnter, EnterCriticalSection, ClearFunc, DeleteState,
          CreateState, NewState, OpenFile, ReadText, CompileProgram, GetSymbol, CompileLeave,
          FindNext, WaitChange, NotifyFails, GameThread, CheckReady, GameEnter,
          TestFunc, Return, Spin, GameLeave, InSection, Hung, Running,
          vars, env, cs, tcc, txt, game, Goto
    <2>3. QED
      BY <2>2 DEF Hung, Running
  <1>2. QED
    BY <1>1, Invariance, PTL DEF Spec, HangIsFinal

-----------------------------------------------------------------------------
(* Refinement                                                              *)

\* Every step of the two threads is a step of ScriptSlot or leaves it alone.
LEMMA SlotStep == IInv /\ [Next]_vars => [Slot!Next]_(Slot!slotVars)
  <1> SUFFICES ASSUME IInv, [Next]_vars PROVE [Slot!Next]_(Slot!slotVars)
    OBVIOUS
  <1> USE DEF IInv, TypeOK, SectionInv, ProgramInv, InSection, VersionOf,
          Slot!slotVars, vars, env, cs, tcc, txt, game, Goto
  <1>1. ASSUME NEW k \in FileKind, Edit(k) PROVE UNCHANGED Slot!slotVars
    BY <1>1 DEF Edit
  <1>2. CASE InitializeCS
    BY <1>2 DEF InitializeCS
  <1>3. CASE PublishReady
    BY <1>3 DEF PublishReady
  <1>4. CASE FindFirst
    BY <1>4 DEF FindFirst, Armed
  <1>5. CASE CompileEnter
    BY <1>5 DEF CompileEnter
  <1>6. CASE ClearFunc
    <2>1. Slot!Withdraw
      BY <1>6 DEF ClearFunc, Withdrawn, Slot!Withdraw
    <2>2. QED
      BY <2>1 DEF Slot!Next
  <1>7. CASE DeleteState
    BY <1>7 DEF DeleteState, Freed
  <1>8. CASE CreateState
    BY AddrAssumption, <1>8 DEF CreateState, NewState, Fresh
  <1>9. CASE OpenFile
    <2>1. Slot!Load
      BY <1>9 DEF OpenFile, Slot!Load, NotifyInv, Version
    <2>2. QED
      BY <2>1 DEF Slot!Next
  <1>10. CASE ReadText
    BY <1>10 DEF ReadText
  <1>11. CASE CompileProgram
    BY <1>11 DEF CompileProgram
  <1>12. CASE GetSymbol
    <2>1. Slot!Install \/ UNCHANGED Slot!slotVars
      BY <1>12 DEF GetSymbol, Symbol, Slot!Install, NotifyInv, Version, Defines
    <2>2. QED
      BY <2>1 DEF Slot!Next
  <1>13. CASE CompileLeave
    BY <1>13 DEF CompileLeave
  <1>14. CASE FindNext
    BY <1>14 DEF FindNext
  <1>15. CASE WaitChange
    BY <1>15 DEF WaitChange
  <1>16. CASE NotifyFails
    BY <1>16 DEF NotifyFails
  <1>17. CASE CheckReady
    BY <1>17 DEF CheckReady, MayEnter
  <1>18. CASE GameEnter
    BY <1>18 DEF GameEnter
  <1>19. CASE TestFunc
    <2>1. Slot!Begin \/ UNCHANGED Slot!slotVars
      BY <1>19 DEF TestFunc, Slot!Begin, NotifyInv
    <2>2. QED
      BY <2>1 DEF Slot!Next
  <1>20. CASE Return
    <2>1. Slot!End
      BY <1>20 DEF Return, Slot!End, NotifyInv
    <2>2. QED
      BY <2>1 DEF Slot!Next
  <1>21. CASE Spin
    BY <1>21 DEF Spin
  <1>22. CASE GameLeave
    BY <1>22 DEF GameLeave
  <1>23. CASE UNCHANGED vars
    BY <1>23
  <1>24. CASE OtherChange
    BY <1>24 DEF OtherChange
  <1>25. QED
    BY <1>1, <1>2, <1>3, <1>4, <1>5, <1>6, <1>7, <1>8, <1>9, <1>10, <1>11,
       <1>12, <1>13, <1>14, <1>15, <1>16, <1>17, <1>18, <1>19, <1>20, <1>21,
       <1>22, <1>23, <1>24 DEF Next, CompileThread, GameThread

\* compiler.c implements the script slot: published versions never go back,
\* are those read last, and do not change while one is executed.
THEOREM SlotRefinement == Spec => ImplementsSlot
  <1>1. Init => Slot!Init
    BY DEF Init, Slot!Init, VersionOf
  <1>2. QED
    BY <1>1, SlotStep, Invariance, PTL DEF Spec, ImplementsSlot, Slot!Spec
=============================================================================
