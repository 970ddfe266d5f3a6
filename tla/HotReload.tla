------------------------------ MODULE HotReload ------------------------------
(***************************************************************************)
(* compiler.c: the player's code, move_code.c, is recompiled inside the    *)
(* running game each time the file changes.  compile_thread waits for a    *)
(* change of the working directory and, inside a critical section, drops   *)
(* the old program, reads the file, compiles it and publishes move_player1.*)
(* The game thread calls what is published once per frame, through         *)
(* move_player1_script, inside the same section.  Whoever edits the file   *)
(* is the environment.  A text is abstracted to its version and to what    *)
(* the compiler makes of it, the memory of TinyCC to the TCCStates that    *)
(* are allocated, each at an address that is used again once it is freed.  *)
(***************************************************************************)
EXTENDS Naturals

CONSTANTS MaxVer,        \* bound: versions of move_code.c the editor writes
          Addr,          \* where tcc_malloc can put a TCCState
          TextKind       \* the kinds of text that occur, of those below
ASSUME MaxVerAssumption == MaxVer \in Nat \ {0}
ASSUME AddrAssumption == 0 \notin Addr

VARIABLES
    file,             \* move_code.c on disk: [ver, kind]
    notify,           \* the notification handle: [armed, signaled, recorded]
    waited,           \* a wait has returned since the handle was opened
    g_mutex_ready,    \* compiler.c:191
    cs_init,          \* InitializeCriticalSection(&g_mutex) has run
    cs_owner,         \* the thread inside g_mutex
    g_script_func,    \* 0, or the TCCState whose move_player1 it points to
    cpc, state, str,  \* compile_thread and its locals
    heap,             \* what each live TCCState holds
    lastread, opened, \* history: version on disk when read_file last looked,
                      \* and whether it got the file open
    gpc, move_code    \* the game thread and the local of move_player1_script

env  == <<file, notify, waited>>
cs   == <<g_mutex_ready, cs_init, cs_owner>>
tcc  == <<state, heap>>
txt  == <<str, lastread, opened>>
game == <<gpc, move_code>>
vars == <<env, cs, g_script_func, cpc, tcc, txt, game>>

AnyText == {"good",        \* compiles, links, defines move_player1
            "endless",     \* as "good", but move_player1 never returns
            "nosym",       \* compiles and links, no move_player1
            "unresolved",  \* compiles, refers to a symbol nobody defines
            "syntax"}      \* does not compile
ASSUME TextKindAssumption == TextKind \subseteq AnyText
NoText == "absent"          \* the file does not open: str stays NULL
FileKind == TextKind \union {NoText}
Relocates(k) == k \in {"good", "endless", "nosym"}
Defines(k)   == k \in {"good", "endless"}

Version == 0 .. MaxVer
Text    == [ver : Version, kind : FileKind]
Program == [ver : Version, kind : FileKind, relocated : BOOLEAN]
Handle  == [armed : BOOLEAN, signaled : BOOLEAN, recorded : BOOLEAN]
NULL    == [ver |-> 0, kind |-> NoText]
Fresh   == [ver |-> 0, kind |-> NoText, relocated |-> FALSE]

InSection == {"clear", "delete", "new", "read", "fread", "compile", "symbol",
              "leave"}
Closed    == {"init", "publish", "first", "exited"}  \* no handle is open
CompilePC == InSection \union Closed \union {"enter", "next", "wait"}

TypeOK ==
    /\ file \in [ver : 1 .. MaxVer, kind : FileKind]
    /\ notify \in Handle
    /\ waited \in BOOLEAN /\ g_mutex_ready \in BOOLEAN /\ cs_init \in BOOLEAN
    /\ cs_owner \in {"none", "compile", "game"}
    /\ {state, g_script_func, move_code} \subseteq Addr \union {0}
    /\ DOMAIN heap \subseteq Addr
    /\ heap \in [DOMAIN heap -> Program]
    /\ str \in Text /\ lastread \in Version /\ opened \in BOOLEAN
    /\ cpc \in CompilePC
    /\ gpc \in {"frame", "enter", "test", "call", "leave"}

Init ==
    /\ file \in [ver : {1}, kind : FileKind]
    /\ notify = [armed |-> FALSE, signaled |-> FALSE, recorded |-> FALSE]
    /\ waited = FALSE
    /\ g_mutex_ready = FALSE /\ cs_init = FALSE /\ cs_owner = "none"
    /\ g_script_func = 0
    /\ cpc = "init" /\ gpc = "frame" /\ move_code = 0
    /\ state = 0 /\ heap = [s \in {} |-> Fresh]
    /\ str = NULL /\ lastread = 0 /\ opened = FALSE

-----------------------------------------------------------------------------
(* What the steps below are made of, and faulty variants of some of it that *)
(* stand for plausible slips in the code.                                   *)

EnterUnlocked(t) == cs_owner' = t
EnterCriticalSection(t) == cs_owner = "none" /\ cs_owner' = t

LeaveOnlyIfPublished(t) ==
    cs_owner' = IF t = "compile" /\ g_script_func = 0 THEN cs_owner ELSE "none"
LeaveCriticalSection(t) == cs_owner = t /\ cs_owner' = "none"

\* A change completes the outstanding request and signals the handle; with no
\* request outstanding it is recorded for the next one.
Changed(n) == IF n.armed
              THEN [n EXCEPT !.armed = FALSE, !.signaled = TRUE]
              ELSE [n EXCEPT !.recorded = TRUE]

\* FindNextChangeNotification after a wait completes at once if a change is
\* recorded; with no wait since the last request it may lose the signal.
Armed == [armed |-> TRUE, signaled |-> FALSE, recorded |-> FALSE]
ReopenedHandle == {Armed}
NextHandle == IF waited
              THEN {[armed |-> ~notify.recorded, signaled |-> notify.recorded,
                     recorded |-> FALSE]}
              ELSE {notify, Armed}

NotWithdrawn == g_script_func
Withdrawn == 0              \* line 220

Freed == [s \in DOMAIN heap \ {state} |-> heap[s]]

NoState == {0}
NewState == Addr \ DOMAIN heap

Symbol(k) == IF Defines(k) THEN state ELSE 0

AnyTime == TRUE
MayEnter == g_mutex_ready   \* line 258, read without a lock

Goto(from, to) == cpc = from /\ cpc' = to

-----------------------------------------------------------------------------
(* compile_thread                                                          *)

InitializeCS == /\ Goto("init", "publish")
                /\ cs_init' = TRUE
                /\ UNCHANGED <<env, g_mutex_ready, cs_owner, g_script_func, tcc,
                               txt, game>>

\* The thread ends here if calloc of path had failed.
PublishReady == /\ Goto("publish", "first") \/ Goto("publish", "exited")
                /\ g_mutex_ready' = TRUE
                /\ UNCHANGED <<env, cs_init, cs_owner, g_script_func, tcc, txt,
                               game>>

\* The first pass goes to READ_FILE without a wait (goto at line 208).
FindFirst == /\ Goto("first", "enter")
             /\ notify' = Armed
             /\ UNCHANGED <<file, waited, cs, g_script_func, tcc, txt, game>>

CompileEnter == /\ Goto("enter", "clear")
                /\ EnterCriticalSection("compile")
                /\ UNCHANGED <<env, g_mutex_ready, cs_init, g_script_func, tcc,
                               txt, game>>

ClearFunc == /\ Goto("clear", IF state # 0 THEN "delete" ELSE "new")
             /\ g_script_func' = Withdrawn
             /\ UNCHANGED <<env, cs, tcc, txt, game>>

\* tcc_delete also frees the memory the program was relocated into.
DeleteState == /\ Goto("delete", "new")
               /\ heap' = Freed
               /\ state' = 0
               /\ UNCHANGED <<env, cs, g_script_func, txt, game>>

\* tcc_new does not return NULL: tcc_malloc ends the process instead.
CreateState == /\ Goto("new", "read")
               /\ state' \in NewState
               /\ heap' = [s \in DOMAIN heap \union {state'} |->
                              IF s = state' THEN Fresh ELSE heap[s]]
               /\ UNCHANGED <<env, cs, g_script_func, txt, game>>

\* read_file: _wfopen, which also fails while the editor does not share the
\* file, and get_flen.
OpenFile == /\ opened' \in {FALSE, file.kind # NoText}
            /\ Goto("read", IF opened' THEN "fread" ELSE "leave")
            /\ lastread' = file.ver
            /\ UNCHANGED <<env, cs, g_script_func, tcc, str, game>>

\* fread: a text written since get_flen arrives cut or mixed, as anything.
ReadText == /\ Goto("fread", "compile")
            /\ \E k \in TextKind : /\ file.ver = lastread => k = file.kind
                                   /\ str' = [ver |-> lastread, kind |-> k]
            /\ UNCHANGED <<env, cs, g_script_func, tcc, lastread, opened,
                           game>>

\* compile_program; free(str) is done here when it returns FALSE.
CompileProgram ==
    LET ok == Relocates(str.kind)
    IN  /\ Goto("compile", IF ok THEN "symbol" ELSE "leave")
        /\ heap' = [heap EXCEPT ![state] = [ver |-> str.ver, kind |-> str.kind,
                                            relocated |-> ok]]
        /\ str' = IF ok THEN str ELSE NULL
        /\ UNCHANGED <<env, cs, g_script_func, state, lastread, opened, game>>

GetSymbol == /\ Goto("symbol", "leave")
             /\ g_script_func' = Symbol(heap[state].kind)
             /\ str' = NULL
             /\ UNCHANGED <<env, cs, tcc, lastread, opened, game>>

CompileLeave == /\ Goto("leave", "next")
                /\ LeaveCriticalSection("compile")
                /\ UNCHANGED <<env, g_mutex_ready, cs_init, g_script_func, tcc,
                               txt, game>>

FindNext == /\ Goto("next", "wait")
            /\ notify' \in NextHandle
            /\ UNCHANGED <<file, waited, cs, g_script_func, tcc, txt, game>>

WaitChange == /\ Goto("wait", "enter")
              /\ notify.signaled
              /\ waited' = TRUE
              /\ UNCHANGED <<file, notify, cs, g_script_func, tcc, txt, game>>

\* The wait, or a call that opens or re-arms the handle, fails: the thread ends
\* and leaves the last program and g_script_func as they are.
NotifyFails == /\ \E pc \in {"first", "next", "wait"} : Goto(pc, "exited")
               /\ UNCHANGED <<env, cs, g_script_func, tcc, txt, game>>

-----------------------------------------------------------------------------
(* The game thread, in move_player1_script, called after each frame        *)

CheckReady == /\ gpc = "frame" /\ gpc' = "enter"
              /\ MayEnter
              /\ UNCHANGED <<env, cs, g_script_func, cpc, tcc, txt, move_code>>

GameEnter == /\ gpc = "enter" /\ gpc' = "test"
             /\ EnterCriticalSection("game")
             /\ UNCHANGED <<env, g_mutex_ready, cs_init, g_script_func, cpc, tcc,
                            txt, move_code>>

TestFunc == /\ gpc = "test"
            /\ IF g_script_func # 0
               THEN gpc' = "call" /\ move_code' = g_script_func
               ELSE gpc' = "leave" /\ UNCHANGED move_code
            /\ UNCHANGED <<env, cs, g_script_func, cpc, tcc, txt>>

Running == heap[move_code]     \* what the game thread executes
Hung == gpc = "call" /\ Running.kind = "endless"

Return == /\ gpc = "call" /\ gpc' = "leave"
          /\ ~Hung
          /\ UNCHANGED <<env, cs, g_script_func, cpc, tcc, txt, move_code>>

\* A script that does not return keeps the critical section.
Spin == Hung /\ UNCHANGED vars

\* The local ends with the call.
GameLeave == /\ gpc = "leave" /\ gpc' = "frame"
             /\ LeaveCriticalSection("game")
             /\ move_code' = 0
             /\ UNCHANGED <<env, g_mutex_ready, cs_init, g_script_func, cpc, tcc,
                            txt>>

-----------------------------------------------------------------------------
DirectoryChanges == notify' = IF cpc \in Closed THEN notify ELSE Changed(notify)

\* The editor writes or removes move_code.c.
Edit(k) ==
    /\ file.ver < MaxVer
    /\ file' = [ver |-> file.ver + 1, kind |-> k]
    /\ DirectoryChanges
    /\ UNCHANGED <<waited, cs, g_script_func, cpc, tcc, txt, game>>

\* Another file of the directory changes, as often as it likes.
OtherChange ==
    /\ DirectoryChanges
    /\ UNCHANGED <<file, waited, cs, g_script_func, cpc, tcc, txt, game>>

CompileThread ==
    \/ InitializeCS \/ PublishReady \/ FindFirst \/ CompileEnter \/ ClearFunc
    \/ DeleteState \/ CreateState \/ OpenFile \/ ReadText \/ CompileProgram
    \/ GetSymbol \/ CompileLeave \/ FindNext \/ WaitChange

GameThread ==
    \/ CheckReady \/ GameEnter \/ TestFunc \/ Return \/ Spin \/ GameLeave

Next == CompileThread \/ NotifyFails \/ GameThread \/ OtherChange
           \/ \E k \in FileKind : Edit(k)

Spec == Init /\ [][Next]_vars

\* Both threads are scheduled; the game thread is outside the section for the
\* whole of a frame, and the compile thread for as long as nothing changes,
\* so neither can keep the other out for ever.  Nobody has to edit anything,
\* and no call has to fail.
FairSpec == /\ Spec
            /\ WF_vars(CompileThread) /\ SF_vars(CompileEnter)
            /\ WF_vars(GameThread)    /\ SF_vars(GameEnter)

-----------------------------------------------------------------------------
(* Properties                                                              *)

VersionOf(s) == IF s \in DOMAIN heap THEN heap[s].ver ELSE 0

\* The game thread never executes code of a TCCState that tcc_delete has
\* freed, or that tcc_relocate has not finished: the call at line 263 is
\* made into memory that is there.
NoUseAfterFree ==
    gpc = "call" => move_code \in DOMAIN heap /\ Running.relocated

\* The script the game executes is the text that was read last: no frame
\* runs an older script once the compile thread has looked at a newer text.
RunsNewestRead == gpc = "call" => VersionOf(move_code) = lastread

\* While the compile thread is outside the section, what is published is the
\* entry point of the only program there is, and a program that was not
\* linked or lacks move_player1 is never published.
PublishedIsState ==
    cs_owner # "compile" =>
        \/ g_script_func = 0
        \/ /\ g_script_func = state
           /\ state \in DOMAIN heap
           /\ heap[state].relocated
           /\ Defines(heap[state].kind)

\* No thread gets to EnterCriticalSection before InitializeCriticalSection
\* has returned, although the game thread tests g_mutex_ready unlocked.
InitBeforeEnter == (gpc # "frame" \/ cs_owner # "none") => cs_init

\* A reload leaves no TCCState behind: the one in use is the only one alive.
NoLeak == DOMAIN heap \subseteq {state}

\* When the compile thread sleeps with no signal pending, it has read the
\* text on disk - except in its first wait, because the request made at line
\* 211 follows the one of line 204 with no wait between them.
FreshWhenParked ==
    cpc = "wait" /\ ~notify.signaled /\ waited => lastread = file.ver

\* Between two frames no other thread can take the code away: what the game
\* thread has begun to execute stays as it is until it returns.
RunningIsStable == [][gpc = "call" /\ gpc' = "call" =>
                         /\ move_code' \in DOMAIN heap'
                         /\ heap'[move_code'] = Running
                         /\ g_script_func' = g_script_func]_vars

\* The published script and its execution behave as ScriptSlot promises.
Slot == INSTANCE ScriptSlot
            WITH slot   <- VersionOf(g_script_func),
                 active <- IF gpc = "call" THEN VersionOf(move_code) ELSE 0,
                 newest <- lastread
ImplementsSlot == Slot!Spec

\* The file has been read since it changed, and its move_player1, if it was
\* opened and has one that compiles, is what the game calls.
UpToDate ==
    /\ lastread = file.ver
    /\ opened /\ Defines(file.kind) => /\ g_script_func # 0
                                        /\ heap[g_script_func].ver = file.ver

\* Once the editor leaves move_code.c alone, the text on disk ends up as what the
\* game runs whenever no reload is under way, however the last edits fell into the
\* compile thread's steps and however often other files change; the ways out are a
\* script that never returns, the end of the thread, and a change lost before the
\* first wait.
EndsUpToDate ==
    <>[](cs_owner # "compile" => UpToDate \/ Hung \/ cpc = "exited" \/ ~waited)

\* A compile thread that wants the section gets it, unless the script it would
\* have to replace never returns: then no later edit can save the game.
CompileGetsSection == cpc = "enter" ~> (cpc = "clear" \/ Hung)
HangIsFinal == [][Hung => Hung' /\ (cpc = "enter" => cpc' = "enter")]_vars
=============================================================================
