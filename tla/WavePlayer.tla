----------------------------- MODULE WavePlayer -----------------------------
(***************************************************************************)
(* wave_player.c: three buffers circulate between the wave driver and      *)
(* audio_callback, which fills each finished one with a mix of the samples *)
(* that play and hands it back.  The callback runs on a thread of the      *)
(* driver, one per open device; the caller's thread starts and stops the   *)
(* audio and adds or clears samples.  g_mutex is all they share a rule     *)
(* about, and it exists only after the first start_audio.                  *)
(*                                                                         *)
(* A buffer of start_audio number d is <<d, b>>: its memory is alive as    *)
(* long as data[b] = d.  What mix_sample computes is in Mixer; here it     *)
(* says whether the sample goes on.  The driver calls back without a lock  *)
(* of its own: the callback calls waveOut functions, so it has to.         *)
(***************************************************************************)
EXTENDS Integers

CONSTANTS BufCount,   \* _countof(wave_buf_list)
          SlotCount,  \* _countof(g_sample_list)
          MaxOpens    \* bound: how often waveOutOpen succeeds

ASSUME CountAssumption ==
    BufCount \in Nat \ {0} /\ SlotCount \in Nat \ {0} /\ MaxOpens \in Nat

VARIABLES
    g_mutex_ready, g_mutex,  \* the thread inside, or Free
    g_hwave_out,             \* 0, or the number of the device
    opens, dev,              \* devices opened so far, and those still open
    data,                    \* wb->data of each buffer: 0, or who allocated it
    queued, done,            \* buffers the driver plays, and has played
    refused,                 \* history: those of the last device that
                             \* waveOutWrite has not taken
    stray,                   \* history: a stop_audio left buffers in use
    apc, i,                  \* the caller's thread, and its loop variable
    cpc, wh, tmp,            \* audio_callback of each device and its locals
    slot,                    \* the sample mix_samples is at
    snap, heard,             \* history: samples that played when the callback
                             \* got the mutex, and those in its buffer
    play,                    \* the slots of g_sample_list with play set
    since                    \* history: slots filled since the last clear_all

mutexVars  == <<g_mutex_ready, g_mutex>>
deviceVars == <<g_hwave_out, opens, dev, data, stray>>
driverVars == <<queued, done, refused>>
appVars    == <<apc, i>>
cbVars     == <<cpc, wh, tmp, slot, snap, heard>>
listVars   == <<play, since>>
vars == <<mutexVars, deviceVars, driverVars, appVars, cbVars, listVars>>

Dev   == 1 .. MaxOpens
Buf   == 1 .. BufCount
Slots == 1 .. SlotCount
App   == 0       \* the caller's thread; callback threads are named as devices
Free  == -1

AppSection == {"add", "leave_add", "count", "clear", "close", "leave_close",
               "leave"}
CbSection  == {"slot", "mix", "write", "leave"}

TypeOK ==
    /\ g_mutex_ready \in BOOLEAN /\ g_mutex \in Dev \union {App, Free}
    /\ opens \in 0 .. MaxOpens /\ g_hwave_out \in 0 .. opens
    /\ dev \subseteq 1 .. opens
    /\ data \in [Buf -> 0 .. opens]
    /\ queued \union done \union refused \subseteq Dev \X Buf
    /\ stray \in BOOLEAN
    /\ apc \in {"idle", "alloc", "begin", "enter_add", "enter_count",
                "enter_clear", "enter_close"} \union AppSection
    /\ i \in Buf
    /\ cpc \in [Dev -> {"idle", "enter"} \union CbSection]
    /\ wh \in [Dev -> Buf] /\ tmp \in [Dev -> 0 .. opens]
    /\ slot \in [Dev -> Slots]
    /\ snap \in [Dev -> SUBSET Slots] /\ heard \in [Dev -> SUBSET Slots]
    /\ play \subseteq Slots /\ since \subseteq Slots

Init ==
    /\ g_mutex_ready = FALSE /\ g_mutex = Free
    /\ g_hwave_out = 0 /\ opens = 0 /\ dev = {}
    /\ data = [b \in Buf |-> 0] /\ stray = FALSE
    /\ queued = {} /\ done = {} /\ refused = {}
    /\ apc = "idle" /\ i = 1
    /\ cpc = [d \in Dev |-> "idle"] /\ wh = [d \in Dev |-> 1]
    /\ tmp = [d \in Dev |-> 0] /\ slot = [d \in Dev |-> 1]
    /\ snap = [d \in Dev |-> {}] /\ heard = [d \in Dev |-> {}]
    /\ play = {} /\ since = {}

-----------------------------------------------------------------------------
(* What the steps are made of, and slips in some of it.                     *)

EnterUnlocked(t) == g_mutex' = t
\* Before the first start_audio there is no mutex and nothing is locked.
EnterMutex(t) == IF g_mutex_ready THEN g_mutex = Free /\ g_mutex' = t
                                  ELSE UNCHANGED g_mutex

LeaveMutex(t) == g_mutex' = IF g_mutex_ready THEN Free ELSE g_mutex

OpensAgain == TRUE
MayOpen == g_hwave_out = 0            \* line 429

WrittenIfHeard(d) == IF heard[d] = {} THEN {} ELSE {<<d, wh[d]>>}
WrittenBack(d) == {<<d, wh[d]>>}

\* waveOutWrite fails if the device is closed, and may if it is not; nobody
\* looks at what it returns.
Write(d, B) == \E R \in IF d \in dev THEN SUBSET B ELSE {B} :
                   /\ queued' = queued \union (B \ R)
                   /\ refused' = refused \union R

AtLastSlot(d) == slot[d] = SlotCount

InUse(d) == {b \in Buf : \/ <<d, b>> \in queued \union done
                         \/ cpc[d] # "idle" /\ wh[d] = b}

-----------------------------------------------------------------------------
(* The caller's thread                                                     *)

AppGoto(from, to) == apc = from /\ apc' = to

\* waveOutOpen fails, or the device is open and begin_audio_buffers starts.
StartAudio ==
    /\ apc = "idle"
    /\ g_mutex_ready' = TRUE
    /\ \/ UNCHANGED <<deviceVars, appVars, refused>>
       \/ /\ MayOpen /\ opens < MaxOpens
          /\ opens' = opens + 1 /\ g_hwave_out' = opens + 1
          /\ dev' = dev \union {opens + 1}
          /\ apc' = "alloc" /\ i' = 1
          /\ refused' = {}
          /\ UNCHANGED <<data, stray>>
    /\ UNCHANGED <<g_mutex, queued, done, cbVars, listVars>>

LoopTo(next) == IF i < BufCount THEN i' = i + 1 /\ UNCHANGED apc
                                ELSE i' = 1 /\ apc' = next

\* The old memory is freed; calloc may fail.
AllocBuffer ==
    /\ apc = "alloc" /\ LoopTo("begin")
    /\ \E p \in {0, g_hwave_out} : data' = [data EXCEPT ![i] = p]
    /\ UNCHANGED <<mutexVars, g_hwave_out, opens, dev, stray, driverVars,
                   cbVars, listVars>>

\* The second loop of begin_audio_buffers: silence goes to the driver.
BeginBuffer ==
    /\ apc = "begin" /\ LoopTo("idle")
    /\ Write(g_hwave_out, IF data[i] # 0 THEN {<<g_hwave_out, i>>} ELSE {})
    /\ UNCHANGED <<mutexVars, deviceVars, done, cbVars, listVars>>

\* play_index, clear_all, and stop_audio with a device.
Call == /\ \/ AppGoto("idle", "enter_add") \/ AppGoto("idle", "enter_clear")
           \/ g_hwave_out # 0 /\ AppGoto("idle", "enter_close")
        /\ UNCHANGED <<mutexVars, deviceVars, driverVars, i, cbVars, listVars>>

AppEnter == /\ \/ AppGoto("enter_add", "add") \/ AppGoto("enter_count", "count")
               \/ AppGoto("enter_clear", "clear")
               \/ AppGoto("enter_close", "close")
            /\ EnterMutex(App)
            /\ UNCHANGED <<g_mutex_ready, deviceVars, driverVars, i, cbVars,
                           listVars>>

\* add_sample takes the first slot that does not play; with none the sample is
\* dropped.
AddSample ==
    /\ AppGoto("add", "leave_add")
    /\ \/ play = Slots /\ UNCHANGED listVars
       \/ \E s \in Slots \ play :
              /\ 1 .. (s - 1) \subseteq play
              /\ play' = play \union {s} /\ since' = since \union {s}
    /\ UNCHANGED <<mutexVars, deviceVars, driverVars, i, cbVars>>

\* play_index counts what plays, to print it.
CountPlaying ==
    /\ AppGoto("count", "leave")
    /\ UNCHANGED <<mutexVars, deviceVars, driverVars, i, cbVars, listVars>>

ClearAll == /\ AppGoto("clear", "leave")
            /\ play' = {} /\ since' = {}
            /\ UNCHANGED <<mutexVars, deviceVars, driverVars, i, cbVars>>

\* waveOutClose refuses while buffers are queued, which nobody looks at.
WaveOutClose ==
    /\ AppGoto("close", "leave_close")
    /\ dev' = IF \E b \in Buf : <<g_hwave_out, b>> \in queued
              THEN dev ELSE dev \ {g_hwave_out}
    /\ stray' = (stray \/ InUse(g_hwave_out) # {})
    /\ UNCHANGED <<mutexVars, g_hwave_out, opens, data, driverVars, i, cbVars,
                   listVars>>

AppLeave ==
    /\ \/ AppGoto("leave_add", "enter_count") /\ UNCHANGED g_hwave_out
       \/ AppGoto("leave", "idle") /\ UNCHANGED g_hwave_out
       \/ AppGoto("leave_close", "idle") /\ g_hwave_out' = 0
    /\ LeaveMutex(App)
    /\ UNCHANGED <<g_mutex_ready, opens, dev, data, stray, driverVars, i,
                   cbVars, listVars>>

-----------------------------------------------------------------------------
(* The driver and audio_callback                                           *)

CbGoto(d, from, to) == cpc[d] = from /\ cpc' = [cpc EXCEPT ![d] = to]

Finish(d, b) ==
    /\ <<d, b>> \in queued
    /\ queued' = queued \ {<<d, b>>} /\ done' = done \union {<<d, b>>}
    /\ UNCHANGED <<mutexVars, deviceVars, refused, appVars, cbVars, listVars>>

\* WOM_DONE; lpData is read here, before the mutex.
CallBack(d, b) ==
    /\ <<d, b>> \in done
    /\ CbGoto(d, "idle", "enter")
    /\ wh' = [wh EXCEPT ![d] = b] /\ tmp' = [tmp EXCEPT ![d] = data[b]]
    /\ done' = done \ {<<d, b>>}
    /\ UNCHANGED <<mutexVars, deviceVars, queued, refused, appVars, slot, snap,
                   heard, listVars>>

\* Prepare the header, clear the buffer, begin with the first sample.
CbEnter(d) ==
    /\ CbGoto(d, "enter", "slot")
    /\ EnterMutex(d)
    /\ slot' = [slot EXCEPT ![d] = 1]
    /\ snap' = [snap EXCEPT ![d] = play] /\ heard' = [heard EXCEPT ![d] = {}]
    /\ UNCHANGED <<g_mutex_ready, deviceVars, driverVars, appVars, wh, tmp,
                   listVars>>

NextSlot(d) == IF AtLastSlot(d)
               THEN CbGoto(d, cpc[d], "write") /\ UNCHANGED slot
               ELSE CbGoto(d, cpc[d], "slot")
                        /\ slot' = [slot EXCEPT ![d] = @ + 1]

TestSlot(d) ==
    /\ cpc[d] = "slot"
    /\ IF slot[d] \in play THEN CbGoto(d, "slot", "mix") /\ UNCHANGED slot
                           ELSE NextSlot(d)
    /\ UNCHANGED <<mutexVars, deviceVars, driverVars, appVars, wh, tmp, snap,
                   heard, listVars>>

\* clamp_current_frame writes play back as it found it, or the sample ends.
MixSample(d) ==
    /\ cpc[d] = "mix"
    /\ NextSlot(d)
    /\ heard' = [heard EXCEPT ![d] = @ \union {slot[d]}]
    /\ play' \in {play \union {slot[d]}, play \ {slot[d]}}
    /\ UNCHANGED <<mutexVars, deviceVars, driverVars, appVars, wh, tmp, snap,
                   since>>

WaveOutWrite(d) ==
    /\ CbGoto(d, "write", "leave")
    /\ Write(d, WrittenBack(d))
    /\ UNCHANGED <<mutexVars, deviceVars, done, appVars, wh, tmp, slot, snap,
                   heard, listVars>>

\* The locals end with the call.
CbLeave(d) ==
    /\ CbGoto(d, "leave", "idle")
    /\ LeaveMutex(d)
    /\ wh' = [wh EXCEPT ![d] = 1] /\ tmp' = [tmp EXCEPT ![d] = 0]
    /\ slot' = [slot EXCEPT ![d] = 1]
    /\ snap' = [snap EXCEPT ![d] = {}] /\ heard' = [heard EXCEPT ![d] = {}]
    /\ UNCHANGED <<g_mutex_ready, deviceVars, driverVars, appVars, listVars>>

-----------------------------------------------------------------------------
Caller == AllocBuffer \/ BeginBuffer \/ AppEnter \/ AddSample \/ CountPlaying
             \/ ClearAll \/ WaveOutClose \/ AppLeave

Callback(d) == \/ \E b \in Buf : CallBack(d, b)
               \/ CbEnter(d) \/ TestSlot(d) \/ MixSample(d) \/ WaveOutWrite(d)
               \/ CbLeave(d)

Next == \/ StartAudio \/ Call \/ Caller
        \/ \E d \in Dev : Callback(d) \/ \E b \in Buf : Finish(d, b)

Spec == Init /\ [][Next]_vars

-----------------------------------------------------------------------------
(* Properties                                                              *)

\* A thread between enter_mutex and leave_mutex owns the mutex, if there is
\* one: no thread leaves what it does not own.
SectionIsOwned ==
    /\ apc \in AppSection /\ g_mutex_ready => g_mutex = App
    /\ \A d \in Dev : cpc[d] \in CbSection => g_mutex = d

\* The driver plays, and the callback fills, memory that is still allocated,
\* however often start_audio is called - as long as no stop_audio left buffers
\* behind, which waveOutClose reports and stop_audio ignores.
PlaysLiveMemory ==
    ~stray => \A d \in Dev, b \in Buf :
        /\ <<d, b>> \in queued \union done => data[b] = d
        /\ cpc[d] # "idle" => tmp[d] = d /\ data[wh[d]] = d

\* No buffer is handed out twice, and none gets lost but to a waveOutWrite that
\* fails: once the audio runs, each that could be allocated is queued, played,
\* in the callback, or was refused - and those circulate no more.
NoBufferLost ==
    ~stray /\ g_hwave_out # 0 /\ apc \notin {"alloc", "begin"} =>
        \A b \in Buf : data[b] # 0 =>
            LET wb   == <<g_hwave_out, b>>
                held == /\ cpc[g_hwave_out] \notin {"idle", "leave"}
                        /\ wh[g_hwave_out] = b
            IN  \/ wb \in queued \ (done \union refused) /\ ~held
                \/ wb \in done \ (queued \union refused) /\ ~held
                \/ wb \in refused \ (queued \union done) /\ ~held
                \/ held /\ wb \notin queued \union done \union refused

\* A buffer holds the samples of one moment, although it is mixed slot by slot
\* while the caller adds and clears.
MixesSnapshot == \A d \in Dev : cpc[d] = "write" => heard[d] = snap[d]

\* After clear_all only samples added later play: the callback, which writes
\* the play flags back, revives none.
ClearIsFinal == play \subseteq since
=============================================================================
