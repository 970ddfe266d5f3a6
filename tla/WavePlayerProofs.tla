-------------------------- MODULE WavePlayerProofs --------------------------
(***************************************************************************)
(* Proofs about WavePlayer, for every number of buffers, slots and         *)
(* devices: who is inside the mutex, where the buffers are as long as      *)
(* nobody stops the audio, and what a mix sees of the samples.             *)
(***************************************************************************)
EXTENDS WavePlayer, TLAPS

\* The mutex is there before any callback can run; its owner is the thread whose
\* pc is inside.
MutexInv ==
    /\ opens > 0 => g_mutex_ready
    /\ apc \in {"alloc", "begin", "enter_close", "close", "leave_close"} =>
           g_hwave_out # 0
    /\ ~g_mutex_ready => g_mutex = Free
    /\ g_mutex_ready => (g_mutex = App <=> apc \in AppSection)
    /\ \A d \in Dev : g_mutex = d <=> cpc[d] \in CbSection
    /\ \A d \in Dev : cpc[d] # "idle" => d <= opens
    /\ \A d \in Dev, b \in Buf : <<d, b>> \in queued \union done => d <= opens

\* What is in circulation was made by the last start_audio, whose device is open.
InCirculation(d, b) ==
    \/ <<d, b>> \in queued \union done
    \/ cpc[d] # "idle" /\ wh[d] = b

MemoryInv == ~stray =>
    /\ \A d \in Dev, b \in Buf : InCirculation(d, b) =>
           d = g_hwave_out /\ data[b] = d /\ apc \notin {"alloc", "leave_close"}
    /\ \A d \in Dev : cpc[d] # "idle" => tmp[d] = d
    /\ g_hwave_out # 0 /\ apc # "leave_close" => g_hwave_out \in dev

\* Each buffer that could be allocated is in one place: the first i - 1 while the
\* loops of begin_audio_buffers run, then all.
Held(d, b) == cpc[d] \notin {"idle", "leave"} /\ wh[d] = b
InOnePlace(d, b) ==
    \/ <<d, b>> \in queued \ (done \union refused) /\ ~Held(d, b)
    \/ <<d, b>> \in done \ (queued \union refused) /\ ~Held(d, b)
    \/ <<d, b>> \in refused \ (queued \union done) /\ ~Held(d, b)
    \/ Held(d, b) /\ <<d, b>> \notin queued \union done \union refused

BufferInv == ~stray /\ g_hwave_out # 0 =>
    /\ apc # "alloc" => \A b \in Buf : data[b] \in {0, g_hwave_out}
    /\ apc = "alloc" => \A b \in Buf : b < i => data[b] \in {0, g_hwave_out}
    /\ apc = "alloc" => refused = {}
    /\ apc = "begin" => \A b \in Buf :
           /\ b < i /\ data[b] # 0 => InOnePlace(g_hwave_out, b)
           /\ b >= i => /\ ~InCirculation(g_hwave_out, b)
                        /\ <<g_hwave_out, b>> \notin refused
    /\ apc \notin {"alloc", "begin"} =>
           \A b \in Buf : data[b] # 0 => InOnePlace(g_hwave_out, b)

\* Behind the slot the callback is at, the flags are as they were when it got
\* the mutex; what it has heard are those before it.
MixInv ==
    /\ \A d \in Dev : cpc[d] \in {"slot", "mix"} =>
           /\ heard[d] = {s \in snap[d] : s < slot[d]}
           /\ \A s \in Slots : s >= slot[d] => (s \in play <=> s \in snap[d])
    /\ \A d \in Dev : cpc[d] = "mix" => slot[d] \in play
    /\ MixesSnapshot

\* waveOutWrite takes a buffer or refuses it.
LEMMA WriteOne ==
  ASSUME NEW d, NEW x, Write(d, {x})
  PROVE  \/ queued' = queued \union {x} /\ refused' = refused
         \/ queued' = queued /\ refused' = refused \union {x}
  <1>1. PICK R \in SUBSET {x} : /\ queued' = queued \union ({x} \ R)
                               /\ refused' = refused \union R
    BY DEF Write
  <1>2. R = {} \/ R = {x}
    OBVIOUS
  <1>3. QED
    BY <1>1, <1>2

\* What it takes or refuses is a buffer of a device.
LEMMA WriteType ==
  ASSUME NEW d, NEW x \in Dev \X Buf, Write(d, {x}),
         queued \union refused \subseteq Dev \X Buf
  PROVE  queued' \union refused' \subseteq Dev \X Buf
  BY WriteOne

\* Without a buffer nothing is written.
LEMMA WriteNone ==
  ASSUME NEW d, Write(d, {})
  PROVE  queued' = queued /\ refused' = refused
  BY DEF Write

IInv == TypeOK /\ MutexInv /\ MemoryInv /\ BufferInv /\ MixInv /\ ClearIsFinal

-----------------------------------------------------------------------------
(* Type correctness                                                        *)

\* Every step of the caller, the callbacks and the driver keeps the types.
LEMMA TypeStep == TypeOK /\ MutexInv /\ [Next]_vars => TypeOK'
  <1> SUFFICES ASSUME TypeOK, MutexInv, [Next]_vars PROVE TypeOK'
    OBVIOUS
  <1> USE DEF TypeOK, mutexVars, deviceVars, driverVars, appVars, cbVars,
              listVars
  <1>1. CASE StartAudio
    <2>1. /\ opens' \in 0 .. MaxOpens /\ g_hwave_out' \in 0 .. opens'
          /\ dev' \subseteq 1 .. opens' /\ opens <= opens'
      <3>1. CASE opens' = opens + 1 /\ opens < MaxOpens
        <4>1. g_hwave_out' = opens + 1 /\ dev' = dev \union {opens + 1}
          BY <1>1, <3>1, CountAssumption DEF StartAudio
        <4>2. QED
          BY <3>1, <4>1, CountAssumption
      <3>2. CASE UNCHANGED deviceVars
        BY <3>2, CountAssumption
      <3>3. QED
        BY <1>1, <3>1, <3>2 DEF StartAudio
    <2>2. data' \in [Buf -> 0 .. opens'] /\ tmp' \in [Dev -> 0 .. opens']
      BY <1>1, <2>1 DEF StartAudio
    <2>3. i' \in Buf /\ g_mutex_ready' \in BOOLEAN
      BY <1>1, CountAssumption DEF StartAudio, Buf
    <2>4. QED
      BY <1>1, <2>1, <2>2, <2>3 DEF StartAudio
  <1>2. CASE AllocBuffer
    <2>1. i' \in Buf /\ apc' \in {"alloc", "begin"}
      BY <1>2, CountAssumption DEF AllocBuffer, LoopTo, Buf
    <2>2. data' \in [Buf -> 0 .. opens]
      BY <1>2 DEF AllocBuffer
    <2>3. QED
      BY <1>2, <2>1, <2>2 DEF AllocBuffer
  <1>3. CASE BeginBuffer
    <2>1. i' \in Buf /\ apc' \in {"begin", "idle"}
      BY <1>3, CountAssumption DEF BeginBuffer, LoopTo, Buf
    <2>2. g_hwave_out \in Dev
      BY <1>3, CountAssumption DEF BeginBuffer, LoopTo, MutexInv, Dev
    <2>3. queued' \union refused' \subseteq Dev \X Buf
      <3>1. CASE data[i] # 0
        <4>1. Write(g_hwave_out, {<<g_hwave_out, i>>})
          BY <1>3, <3>1 DEF BeginBuffer
        <4>2. <<g_hwave_out, i>> \in Dev \X Buf
          BY <2>2
        <4>3. QED
          BY <4>1, <4>2, WriteType
      <3>2. CASE data[i] = 0
        BY <1>3, <3>2, WriteNone DEF BeginBuffer
      <3>3. QED
        BY <3>1, <3>2
    <2>4. QED
      BY <1>3, <2>1, <2>3 DEF BeginBuffer
  <1>4. CASE Call \/ CountPlaying
    BY <1>4 DEF Call, CountPlaying, AppGoto, AppSection
  <1>5. CASE AppEnter
    BY <1>5 DEF AppEnter, AppGoto, EnterMutex, AppSection
  <1>6. CASE AddSample \/ ClearAll
    BY <1>6 DEF AddSample, ClearAll, AppGoto, AppSection
  <1>7. CASE WaveOutClose
    BY <1>7 DEF WaveOutClose, AppGoto, AppSection
  <1>8. CASE AppLeave
    <2>1. apc' = "idle" \/ apc' = "enter_count"
      BY <1>8 DEF AppLeave, AppGoto
    <2>2. g_mutex' \in Dev \union {App, Free}
      BY <1>8 DEF AppLeave, LeaveMutex
    <2>3. g_hwave_out' \in 0 .. opens
      BY <1>8, CountAssumption DEF AppLeave
    <2>4. QED
      BY <1>8, <2>1, <2>2, <2>3 DEF AppLeave
  <1>9. ASSUME NEW d \in Dev, NEW b \in Buf, Finish(d, b) PROVE TypeOK'
    BY <1>9 DEF Finish
  <1>10. ASSUME NEW d \in Dev, NEW b \in Buf, CallBack(d, b) PROVE TypeOK'
    BY <1>10 DEF CallBack, CbGoto
  <1>11. ASSUME NEW d \in Dev, CbEnter(d) PROVE TypeOK'
    <2>1. 1 \in Slots
      BY CountAssumption DEF Slots
    <2>2. g_mutex' \in Dev \union {App, Free}
      BY <1>11 DEF CbEnter, EnterMutex
    <2>3. QED
      BY <1>11, <2>1, <2>2 DEF CbEnter, CbGoto, CbSection
  <1>12. ASSUME NEW d \in Dev, NextSlot(d), cpc[d] \in CbSection
         PROVE  /\ slot' \in [Dev -> Slots]
                /\ cpc' \in [Dev -> {"idle", "enter"} \union CbSection]
    <2>1. slot[d] # SlotCount => slot[d] + 1 \in Slots
      BY CountAssumption DEF Slots
    <2>2. QED
      BY <1>12, <2>1 DEF NextSlot, AtLastSlot, CbGoto, CbSection
  <1>13. ASSUME NEW d \in Dev, TestSlot(d) PROVE TypeOK'
    <2>1. CASE slot[d] \in play
      BY <1>13, <2>1 DEF TestSlot, CbGoto, CbSection
    <2>2. CASE NextSlot(d)
      BY <1>12, <1>13, <2>2 DEF TestSlot, CbSection
    <2>3. QED
      BY <1>13, <2>1, <2>2 DEF TestSlot
  <1>14. ASSUME NEW d \in Dev, MixSample(d) PROVE TypeOK'
    <2>1. slot[d] \in Slots
      OBVIOUS
    <2>2. heard' \in [Dev -> SUBSET Slots] /\ play' \subseteq Slots
      BY <1>14, <2>1 DEF MixSample
    <2>3. /\ slot' \in [Dev -> Slots]
          /\ cpc' \in [Dev -> {"idle", "enter"} \union CbSection]
      BY <1>12, <1>14 DEF MixSample, CbSection
    <2>4. QED
      BY <1>14, <2>2, <2>3 DEF MixSample
  <1>15. ASSUME NEW d \in Dev, WaveOutWrite(d) PROVE TypeOK'
    <2>1. queued' \union refused' \subseteq Dev \X Buf
      <3>1. Write(d, {<<d, wh[d]>>}) /\ <<d, wh[d]>> \in Dev \X Buf
        BY <1>15 DEF WaveOutWrite, WrittenBack
      <3>2. QED
        BY <3>1, WriteType
    <2>2. QED
      BY <1>15, <2>1 DEF WaveOutWrite, CbGoto, CbSection
  <1>16. ASSUME NEW d \in Dev, CbLeave(d) PROVE TypeOK'
    <2>1. 1 \in Slots /\ 1 \in Buf /\ 0 \in 0 .. opens
      BY CountAssumption DEF Slots, Buf
    <2>2. g_mutex' \in Dev \union {App, Free}
      BY <1>16 DEF CbLeave, LeaveMutex
    <2>3. QED
      BY <1>16, <2>1, <2>2 DEF CbLeave, CbGoto
  <1>17. CASE UNCHANGED vars
    BY <1>17 DEF vars
  <1>18. QED
    BY <1>1, <1>2, <1>3, <1>4, <1>5, <1>6, <1>7, <1>8, <1>9, <1>10, <1>11,
       <1>13, <1>14, <1>15, <1>16, <1>17 DEF Next, Caller, Callback

-----------------------------------------------------------------------------
(* The mutex                                                               *)

\* The caller, the devices and nobody are different owners of the mutex.
LEMMA Names == App \notin Dev /\ Free \notin Dev /\ App # Free
  BY CountAssumption DEF App, Free, Dev

\* The pc of each thread says whether it has the mutex, before and after every
\* step.
LEMMA MutexStep == TypeOK /\ MutexInv /\ [Next]_vars => MutexInv'
  <1> SUFFICES ASSUME TypeOK, MutexInv, [Next]_vars PROVE MutexInv'
    OBVIOUS
  <1> USE DEF MutexInv, mutexVars, deviceVars, driverVars, appVars, cbVars,
              listVars
  <1>1. opens \in Nat /\ 0 \in Nat /\ Dev \subseteq Nat
    BY CountAssumption DEF TypeOK, Dev
  <1>2. CASE StartAudio
    BY <1>1, <1>2, Names DEF StartAudio, AppSection
  <1>3. CASE AllocBuffer
    BY <1>3 DEF AllocBuffer, LoopTo, AppSection
  <1>4. CASE BeginBuffer
    <2>1. g_hwave_out \in 1 .. opens
      BY <1>1, <1>4 DEF BeginBuffer, LoopTo, TypeOK
    <2>2. apc' \in {"begin", "idle"} /\ g_hwave_out' # 0
      BY <1>4, <2>1 DEF BeginBuffer, LoopTo
    <2>3. \A d \in Dev, b \in Buf : <<d, b>> \in queued' \union done' => d <= opens
      <3>1. queued' = queued \/ queued' = queued \union {<<g_hwave_out, i>>}
        BY <1>4, WriteOne, WriteNone DEF BeginBuffer
      <3>2. QED
        BY <1>1, <1>4, <2>1, <3>1 DEF BeginBuffer
    <2>4. QED
      BY <1>4, <2>2, <2>3 DEF BeginBuffer, LoopTo, AppSection
  <1>5. CASE Call \/ CountPlaying
    BY <1>5 DEF Call, CountPlaying, AppGoto, AppSection
  <1>6. CASE AppEnter
    BY <1>6, Names DEF AppEnter, AppGoto, EnterMutex, AppSection
  <1>7. CASE AddSample \/ ClearAll
    BY <1>7 DEF AddSample, ClearAll, AppGoto, AppSection
  <1>8. CASE WaveOutClose
    BY <1>8 DEF WaveOutClose, AppGoto, AppSection
  <1>9. CASE AppLeave
    <2>1. apc \in AppSection /\ apc' \in {"idle", "enter_count"}
      BY <1>9 DEF AppLeave, AppGoto, AppSection
    <2>2. g_mutex' = Free
      BY <1>9, <2>1 DEF AppLeave, LeaveMutex
    <2>3. \A d \in Dev : cpc[d] \notin CbSection
      BY <1>1, <2>1, Names
    <2>4. QED
      BY <1>9, <2>1, <2>2, <2>3, Names DEF AppLeave, AppSection
  <1>10. ASSUME NEW d \in Dev, NEW b \in Buf, Finish(d, b) PROVE MutexInv'
    BY <1>10 DEF Finish
  <1>11. ASSUME NEW d \in Dev, NEW b \in Buf, CallBack(d, b) PROVE MutexInv'
    BY <1>11 DEF CallBack, CbGoto, CbSection, TypeOK
  <1>12. ASSUME NEW d \in Dev, cpc[d] # "idle" PROVE g_mutex_ready
    BY <1>1, <1>12 DEF Dev
  <1>13. ASSUME NEW d \in Dev, CbEnter(d) PROVE MutexInv'
    <2>1. g_mutex = Free /\ g_mutex' = d /\ g_mutex_ready
      BY <1>12, <1>13 DEF CbEnter, CbGoto, EnterMutex
    <2>2. \A c \in Dev : cpc[c] \notin CbSection
      BY <2>1, Names
    <2>3. cpc' = [cpc EXCEPT ![d] = "slot"]
      BY <1>13 DEF CbEnter, CbGoto
    <2>4. \A c \in Dev : cpc'[c] \in CbSection <=> c = d
      BY <2>2, <2>3 DEF TypeOK, CbSection
    <2>5. \A c \in Dev : cpc'[c] # "idle" => c <= opens
      BY <1>13, <2>3 DEF CbEnter, CbGoto, TypeOK
    <2>6. QED
      BY <1>13, <2>1, <2>4, <2>5, Names DEF CbEnter
  <1>14. ASSUME NEW d \in Dev, cpc[d] \in CbSection, cpc'[d] \in CbSection,
                cpc' = [cpc EXCEPT ![d] = cpc'[d]]
         PROVE  \A c \in Dev : /\ g_mutex = c <=> cpc'[c] \in CbSection
                               /\ cpc'[c] # "idle" => c <= opens
    BY <1>14 DEF TypeOK, CbSection
  <1>15. ASSUME NEW d \in Dev, TestSlot(d) \/ MixSample(d) PROVE MutexInv'
    <2>1. /\ cpc[d] \in CbSection /\ cpc'[d] \in CbSection
          /\ cpc' = [cpc EXCEPT ![d] = cpc'[d]]
      BY <1>15 DEF TestSlot, MixSample, NextSlot, CbGoto, CbSection, TypeOK
    <2>2. QED
      BY <1>14, <1>15, <2>1 DEF TestSlot, MixSample
  <1>16. ASSUME NEW d \in Dev, WaveOutWrite(d) PROVE MutexInv'
    <2>1. /\ cpc[d] \in CbSection /\ cpc'[d] \in CbSection
          /\ cpc' = [cpc EXCEPT ![d] = cpc'[d]] /\ d <= opens
      BY <1>16 DEF WaveOutWrite, CbGoto, CbSection, TypeOK
    <2>2. \A c \in Dev, b \in Buf : <<c, b>> \in queued' \union done' => c <= opens
      <3>1. queued' = queued \/ queued' = queued \union {<<d, wh[d]>>}
        BY <1>16, WriteOne DEF WaveOutWrite, WrittenBack
      <3>2. QED
        BY <1>16, <2>1, <3>1 DEF WaveOutWrite
    <2>3. QED
      BY <1>14, <1>16, <2>1, <2>2 DEF WaveOutWrite
  <1>17. ASSUME NEW d \in Dev, CbLeave(d) PROVE MutexInv'
    <2>1. g_mutex = d /\ g_mutex' = Free
      BY <1>12, <1>17 DEF CbLeave, CbGoto, LeaveMutex, CbSection
    <2>2. cpc' = [cpc EXCEPT ![d] = "idle"]
      BY <1>17 DEF CbLeave, CbGoto
    <2>3. \A c \in Dev : /\ cpc'[c] \notin CbSection
                         /\ cpc'[c] # "idle" => c <= opens
      BY <2>1, <2>2 DEF TypeOK, CbSection
    <2>4. QED
      BY <1>17, <2>1, <2>3, Names DEF CbLeave
  <1>18. CASE UNCHANGED vars
    BY <1>18 DEF vars
  <1>19. QED
    BY <1>2, <1>3, <1>4, <1>5, <1>6, <1>7, <1>8, <1>9, <1>10, <1>11, <1>13,
       <1>15, <1>16, <1>17, <1>18 DEF Next, Caller, Callback

-----------------------------------------------------------------------------
(* The buffers                                                             *)

\* With nothing left behind by stop_audio, only the open device has buffers.
LEMMA OnlyOpenDevice ==
  ASSUME TypeOK, MemoryInv, ~stray, NEW d \in Dev, NEW b \in Buf,
         InCirculation(d, b)
  PROVE  /\ d = g_hwave_out /\ data[b] = d /\ g_hwave_out \in dev
         /\ apc \notin {"alloc", "leave_close"} /\ d # 0
  BY CountAssumption DEF MemoryInv, Dev

\* As long as no stop_audio has left buffers in use, a buffer in circulation belongs
\* to the device that is open.
LEMMA MemoryStep == TypeOK /\ MutexInv /\ MemoryInv /\ BufferInv /\ [Next]_vars => MemoryInv'
  <1> SUFFICES ASSUME TypeOK, MutexInv, MemoryInv, BufferInv, [Next]_vars, ~stray'
               PROVE  MemoryInv'
    BY DEF MemoryInv
  <1> USE DEF mutexVars, deviceVars, driverVars, appVars, cbVars, listVars
  <1>1. ~stray
    <2>1. CASE WaveOutClose
      BY <2>1 DEF WaveOutClose, TypeOK
    <2>2. CASE UNCHANGED stray
      BY <2>2
    <2>3. QED
      BY <2>1, <2>2
         DEF Next, Caller, Callback, StartAudio, AllocBuffer, BeginBuffer, Call,
             AppEnter, AddSample, CountPlaying, ClearAll, AppLeave, Finish,
             CallBack, CbEnter, TestSlot, MixSample, WaveOutWrite, CbLeave, vars
  <1>2. CASE StartAudio
    <2>1. CASE UNCHANGED <<deviceVars, appVars>>
      BY <1>1, <1>2, <2>1 DEF StartAudio, MemoryInv, InCirculation
    <2>2. CASE MayOpen /\ g_hwave_out' \in dev'
      <3>1. \A d \in Dev, b \in Buf : ~InCirculation(d, b)
        BY <1>1, <2>2, OnlyOpenDevice DEF MayOpen
      <3>2. \A d \in Dev : cpc[d] = "idle"
        BY <3>1 DEF InCirculation, TypeOK
      <3>3. QED
        BY <1>2, <2>2, <3>1, <3>2 DEF StartAudio, MemoryInv, InCirculation
    <2>3. QED
      BY <1>2, <2>1, <2>2 DEF StartAudio
  <1>3. CASE AllocBuffer
    <2>1. \A d \in Dev, b \in Buf : ~InCirculation(d, b)
      BY <1>1, <1>3, OnlyOpenDevice DEF AllocBuffer, LoopTo
    <2>2. \A d \in Dev : cpc[d] = "idle"
      BY <2>1 DEF InCirculation, TypeOK
    <2>3. QED
      BY <1>1, <1>3, <2>1, <2>2 DEF AllocBuffer, LoopTo, MemoryInv, InCirculation
  <1>4. CASE BeginBuffer
    <2>1. apc = "begin" /\ apc' \in {"begin", "idle"} /\ g_hwave_out # 0
      BY <1>4 DEF BeginBuffer, LoopTo, MutexInv
    <2>2. data[i] # 0 => data[i] = g_hwave_out
      BY <1>1, <2>1 DEF BufferInv, TypeOK
    <2>3. \/ queued' = queued
          \/ data[i] # 0 /\ queued' = queued \union {<<g_hwave_out, i>>}
      BY <1>4, WriteOne, WriteNone DEF BeginBuffer
    <2>4. QED
      BY <1>1, <1>4, <2>1, <2>2, <2>3 DEF BeginBuffer, MemoryInv, InCirculation
  <1>5. CASE Call \/ AppEnter \/ AddSample \/ CountPlaying \/ ClearAll
    BY <1>1, <1>5 DEF Call, AppEnter, AddSample, CountPlaying, ClearAll, AppGoto,
                      MemoryInv, InCirculation
  <1>6. CASE WaveOutClose
    <2>1. InUse(g_hwave_out) = {}
      BY <1>6 DEF WaveOutClose
    <2>2. \A d \in Dev, b \in Buf : ~InCirculation(d, b)
      BY <1>1, <2>1, OnlyOpenDevice DEF InUse, InCirculation
    <2>3. QED
      BY <1>1, <1>6, <2>2 DEF WaveOutClose, AppGoto, MemoryInv, InCirculation
  <1>7. CASE AppLeave
    <2>1. CASE apc = "leave_close"
      <3>1. \A d \in Dev, b \in Buf : ~InCirculation(d, b)
        BY <1>1, <2>1, OnlyOpenDevice
      <3>2. QED
        BY <1>1, <1>7, <2>1, <3>1 DEF AppLeave, AppGoto, MemoryInv, InCirculation
    <2>2. CASE apc # "leave_close"
      BY <1>1, <1>7, <2>2 DEF AppLeave, AppGoto, MemoryInv, InCirculation
    <2>3. QED
      BY <2>1, <2>2
  <1>8. ASSUME NEW d \in Dev, NEW b \in Buf, Finish(d, b) PROVE MemoryInv'
    BY <1>1, <1>8 DEF Finish, MemoryInv, InCirculation
  <1>9. ASSUME NEW d \in Dev, NEW b \in Buf, CallBack(d, b) PROVE MemoryInv'
    <2>1. d = g_hwave_out /\ data[b] = d /\ apc \notin {"alloc", "leave_close"}
      BY <1>1, <1>9, OnlyOpenDevice DEF CallBack, InCirculation
    <2>2. \A c \in Dev, a \in Buf : InCirculation(c, a)' =>
              InCirculation(c, a) \/ (c = d /\ a = b)
      BY <1>9 DEF CallBack, CbGoto, InCirculation, TypeOK
    <2>3. \A c \in Dev : cpc'[c] # "idle" => tmp'[c] = c
      BY <1>1, <1>9, <2>1 DEF CallBack, CbGoto, MemoryInv, TypeOK
    <2>4. QED
      BY <1>1, <1>9, <2>1, <2>2, <2>3 DEF CallBack, MemoryInv
  <1>10. ASSUME NEW d \in Dev, cpc[d] # "idle",
                \A c \in Dev : cpc'[c] # "idle" => cpc[c] # "idle",
                UNCHANGED <<deviceVars, apc, done, wh, tmp>>,
                queued' = queued \/ queued' = queued \union {<<d, wh[d]>>}
         PROVE  MemoryInv'
    <2>1. \A c \in Dev, a \in Buf : InCirculation(c, a)' => InCirculation(c, a)
      BY <1>10 DEF InCirculation
    <2>2. QED
      BY <1>1, <1>10, <2>1 DEF MemoryInv
  <1>11. ASSUME NEW d \in Dev, CbEnter(d) \/ TestSlot(d) \/ MixSample(d)
         PROVE  MemoryInv'
    <2>1. cpc[d] # "idle" /\ \A c \in Dev : cpc'[c] # "idle" => cpc[c] # "idle"
      BY <1>11 DEF CbEnter, TestSlot, MixSample, NextSlot, CbGoto, TypeOK
    <2>2. QED
      BY <1>10, <1>11, <2>1 DEF CbEnter, TestSlot, MixSample
  <1>12. ASSUME NEW d \in Dev, WaveOutWrite(d) PROVE MemoryInv'
    <2>1. cpc[d] # "idle" /\ \A c \in Dev : cpc'[c] # "idle" => cpc[c] # "idle"
      BY <1>12 DEF WaveOutWrite, CbGoto, TypeOK
    <2>2. queued' = queued \/ queued' = queued \union {<<d, wh[d]>>}
      BY <1>12, WriteOne DEF WaveOutWrite, WrittenBack
    <2>3. QED
      BY <1>10, <1>12, <2>1, <2>2 DEF WaveOutWrite
  <1>13. ASSUME NEW d \in Dev, CbLeave(d) PROVE MemoryInv'
    <2>1. \A c \in Dev, a \in Buf : InCirculation(c, a)' => InCirculation(c, a)
      BY <1>13 DEF CbLeave, CbGoto, InCirculation, TypeOK
    <2>2. \A c \in Dev : cpc'[c] # "idle" => tmp'[c] = c
      BY <1>1, <1>13 DEF CbLeave, CbGoto, MemoryInv, TypeOK
    <2>3. QED
      BY <1>1, <1>13, <2>1, <2>2 DEF CbLeave, MemoryInv
  <1>14. CASE UNCHANGED vars
    BY <1>1, <1>14 DEF vars, MemoryInv, InCirculation
  <1>15. QED
    BY <1>2, <1>3, <1>4, <1>5, <1>6, <1>7, <1>8, <1>9, <1>11, <1>12, <1>13,
       <1>14 DEF Next, Caller, Callback

\* A buffer goes from the queue to the callback and back, and is never in two
\* places.
LEMMA BufferStep == TypeOK /\ MutexInv /\ MemoryInv /\ BufferInv /\ [Next]_vars => BufferInv'
  <1> SUFFICES ASSUME TypeOK, MutexInv, MemoryInv, BufferInv, [Next]_vars,
                      ~stray', g_hwave_out' # 0
               PROVE  BufferInv'
    BY DEF BufferInv
  <1> USE DEF mutexVars, deviceVars, driverVars, appVars, cbVars, listVars
  <1>1. ~stray
    <2>1. CASE WaveOutClose
      BY <2>1 DEF WaveOutClose, TypeOK
    <2>2. CASE UNCHANGED stray
      BY <2>2
    <2>3. QED
      BY <2>1, <2>2
         DEF Next, Caller, Callback, StartAudio, AllocBuffer, BeginBuffer, Call,
             AppEnter, AddSample, CountPlaying, ClearAll, AppLeave, Finish,
             CallBack, CbEnter, TestSlot, MixSample, WaveOutWrite, CbLeave, vars
  <1>2. CASE StartAudio
    <2>1. CASE UNCHANGED <<deviceVars, appVars, refused>>
      BY <1>1, <1>2, <2>1
         DEF StartAudio, BufferInv, InOnePlace, Held, InCirculation
    <2>2. CASE apc' = "alloc" /\ i' = 1 /\ refused' = {}
      BY <2>2, CountAssumption DEF BufferInv, Buf
    <2>3. QED
      BY <1>2, <2>1, <2>2 DEF StartAudio
  <1>3. CASE AllocBuffer
    <2>1. \A d \in Dev, b \in Buf : ~InCirculation(d, b)'
      BY <1>1, <1>3, OnlyOpenDevice DEF AllocBuffer, LoopTo, InCirculation
    <2>2. \A b \in Buf : b < i \/ b = i => data'[b] \in {0, g_hwave_out}
      BY <1>1, <1>3, CountAssumption
         DEF AllocBuffer, LoopTo, BufferInv, TypeOK, Buf
    <2>3. CASE i < BufCount
      BY <1>1, <1>3, <2>2, <2>3, CountAssumption
         DEF AllocBuffer, LoopTo, BufferInv, TypeOK, Buf
    <2>4. CASE ~(i < BufCount)
      <3>1. apc' = "begin" /\ i' = 1 /\ \A b \in Buf : b < i \/ b = i
        BY <1>3, <2>4, CountAssumption DEF AllocBuffer, LoopTo, TypeOK, Buf
      <3>2. \A b \in Buf : ~(b < 1)
        BY CountAssumption DEF Buf
      <3>3. g_hwave_out' \in Dev /\ g_hwave_out' = g_hwave_out
        BY <1>3, CountAssumption DEF AllocBuffer, TypeOK, Dev
      <3>4. refused' = {}
        BY <1>1, <1>3 DEF AllocBuffer, LoopTo, BufferInv
      <3>5. QED
        BY <2>1, <2>2, <3>1, <3>2, <3>3, <3>4 DEF BufferInv
    <2>5. QED
      BY <2>3, <2>4
  <1>4. CASE BeginBuffer
    <2> DEFINE d == g_hwave_out
    <2>1. /\ apc = "begin" /\ d \in Dev /\ i \in Buf
          /\ UNCHANGED <<data, done, cpc, wh, g_hwave_out, stray>>
      BY <1>4, CountAssumption DEF BeginBuffer, LoopTo, TypeOK, Dev
    <2>2. /\ \A b \in Buf : b < i /\ data[b] # 0 => InOnePlace(d, b)
          /\ \A b \in Buf : b >= i => ~InCirculation(d, b) /\ <<d, b>> \notin refused
          /\ \A b \in Buf : data[b] \in {0, d}
      BY <1>1, <2>1 DEF BufferInv
    <2>10. \/ queued' = queued /\ refused' = refused /\ data[i] = 0
           \/ queued' = queued \union {<<d, i>>} /\ refused' = refused
           \/ queued' = queued /\ refused' = refused \union {<<d, i>>}
      BY <1>4, WriteOne, WriteNone DEF BeginBuffer
    <2>3. \A b \in Buf : b # i => /\ <<d, b>> \in queued' <=> <<d, b>> \in queued
                                  /\ <<d, b>> \in refused' <=> <<d, b>> \in refused
      BY <2>10
    <2>4. \A b \in Buf : b < i /\ data[b] # 0 => InOnePlace(d, b)'
      BY <2>1, <2>2, <2>3, CountAssumption DEF InOnePlace, Held, Buf
    <2>5. \A b \in Buf : b > i => ~InCirculation(d, b)' /\ <<d, b>> \notin refused'
      BY <2>1, <2>2, <2>3, CountAssumption DEF InCirculation, Buf
    <2>6. ASSUME NEW b \in Buf, b = i, data[b] # 0 PROVE InOnePlace(d, b)'
      <3>1. ~InCirculation(d, b) /\ <<d, b>> \notin refused
        BY <2>1, <2>2, <2>6, CountAssumption DEF Buf
      <3>2. QED
        BY <2>1, <2>6, <2>10, <3>1 DEF InOnePlace, InCirculation, Held
    <2>7. CASE i < BufCount
      <3>1. apc' = "begin" /\ i' = i + 1
        BY <1>4, <2>7 DEF BeginBuffer, LoopTo
      <3>2. \A b \in Buf : /\ b < i + 1 => b < i \/ b = i
                           /\ b >= i + 1 => b > i
        BY <2>1, CountAssumption DEF Buf
      <3>3. \A b \in Buf : b < i' /\ data'[b] # 0 => InOnePlace(d, b)'
        BY <2>1, <2>4, <2>6, <3>1, <3>2
      <3>4. \A b \in Buf : b >= i' => /\ ~InCirculation(d, b)'
                                     /\ <<d, b>> \notin refused'
        BY <2>5, <3>1, <3>2
      <3>5. QED
        BY <2>1, <2>2, <3>1, <3>3, <3>4 DEF BufferInv
    <2>8. CASE ~(i < BufCount)
      <3>1. apc' = "idle" /\ \A b \in Buf : b < i \/ b = i
        BY <1>4, <2>1, <2>8, CountAssumption DEF BeginBuffer, LoopTo, Buf
      <3>2. QED
        BY <2>1, <2>2, <2>4, <2>6, <3>1 DEF BufferInv
    <2>9. QED
      BY <2>7, <2>8
  <1>5. CASE Call \/ AppEnter \/ AddSample \/ CountPlaying \/ ClearAll
    BY <1>1, <1>5 DEF Call, AppEnter, AddSample, CountPlaying, ClearAll, AppGoto,
                      BufferInv, InOnePlace, Held, InCirculation
  <1>6. CASE WaveOutClose \/ AppLeave
    BY <1>1, <1>6 DEF WaveOutClose, AppLeave, AppGoto, BufferInv, InOnePlace,
                      Held, InCirculation
  \* The steps of the driver and of the callback move one buffer.
  <1>7. ASSUME NEW d \in Dev, NEW b \in Buf, InCirculation(d, b),
               UNCHANGED <<deviceVars, appVars>>,
               \A c \in Buf : c # b =>
                   /\ InOnePlace(d, c) => InOnePlace(d, c)'
                   /\ InCirculation(d, c)' => InCirculation(d, c)
                   /\ <<d, c>> \in refused' => <<d, c>> \in refused,
               InOnePlace(d, b) => InOnePlace(d, b)'
        PROVE  BufferInv'
    <2>1. d = g_hwave_out
      BY <1>1, <1>7, OnlyOpenDevice
    <2>2. apc = "begin" => ~(b >= i)
      BY <1>1, <1>7, <2>1 DEF BufferInv
    <2>3. apc # "alloc"
      BY <1>1, <1>7, OnlyOpenDevice
    <2>4. QED
      BY <1>1, <1>7, <2>1, <2>2, <2>3 DEF BufferInv
  <1>8. ASSUME NEW d \in Dev, NEW b \in Buf, Finish(d, b) PROVE BufferInv'
    BY <1>7, <1>8 DEF Finish, InOnePlace, InCirculation, Held
  <1>9. ASSUME NEW d \in Dev, NEW b \in Buf, CallBack(d, b) PROVE BufferInv'
    <2>1. /\ cpc[d] = "idle" /\ cpc'[d] = "enter" /\ wh'[d] = b
          /\ <<d, b>> \in done /\ done' = done \ {<<d, b>>}
          /\ queued' = queued /\ refused' = refused
      BY <1>9 DEF CallBack, CbGoto, TypeOK
    <2>2. InCirculation(d, b) /\ (InOnePlace(d, b) => InOnePlace(d, b)')
      BY <2>1 DEF InOnePlace, InCirculation, Held
    <2>3. \A c \in Buf : c # b =>
              /\ InOnePlace(d, c) => InOnePlace(d, c)'
              /\ InCirculation(d, c)' => InCirculation(d, c)
              /\ <<d, c>> \in refused' => <<d, c>> \in refused
      BY <2>1 DEF InOnePlace, InCirculation, Held
    <2>4. QED
      BY <1>7, <1>9, <2>2, <2>3 DEF CallBack
  <1>10. ASSUME NEW d \in Dev, CbEnter(d) \/ TestSlot(d) \/ MixSample(d)
         PROVE  BufferInv'
    <2>1. /\ cpc[d] \notin {"idle", "leave"} /\ cpc'[d] \notin {"idle", "leave"}
          /\ UNCHANGED <<deviceVars, appVars, driverVars, wh>> /\ wh[d] \in Buf
      BY <1>10 DEF CbEnter, TestSlot, MixSample, NextSlot, CbGoto, TypeOK
    <2>2. InCirculation(d, wh[d])
      BY <2>1 DEF InCirculation
    <2>3. \A c \in Buf : /\ InOnePlace(d, c) => InOnePlace(d, c)'
                         /\ InCirculation(d, c)' => InCirculation(d, c)
                         /\ <<d, c>> \in refused' => <<d, c>> \in refused
      BY <2>1 DEF InOnePlace, InCirculation, Held
    <2>4. QED
      BY <1>7, <2>1, <2>2, <2>3
  <1>11. ASSUME NEW d \in Dev, WaveOutWrite(d) PROVE BufferInv'
    <2>1. /\ cpc[d] = "write" /\ cpc'[d] = "leave" /\ wh[d] \in Buf
          /\ UNCHANGED <<deviceVars, appVars, done, wh>>
      BY <1>11 DEF WaveOutWrite, CbGoto, TypeOK
    <2>2. InCirculation(d, wh[d])
      BY <2>1 DEF InCirculation
    <2>3. \/ queued' = queued \union {<<d, wh[d]>>} /\ refused' = refused
          \/ queued' = queued /\ refused' = refused \union {<<d, wh[d]>>}
      BY <1>11, WriteOne DEF WaveOutWrite, WrittenBack
    <2>4. InOnePlace(d, wh[d]) => InOnePlace(d, wh[d])'
      BY <2>1, <2>3 DEF InOnePlace, Held
    <2>5. \A c \in Buf : c # wh[d] =>
              /\ InOnePlace(d, c) => InOnePlace(d, c)'
              /\ InCirculation(d, c)' => InCirculation(d, c)
              /\ <<d, c>> \in refused' => <<d, c>> \in refused
      BY <2>1, <2>3 DEF InOnePlace, InCirculation, Held
    <2>6. QED
      BY <1>7, <2>1, <2>2, <2>4, <2>5
  <1>12. ASSUME NEW d \in Dev, CbLeave(d) PROVE BufferInv'
    <2>1. /\ cpc[d] = "leave" /\ cpc'[d] = "idle" /\ wh[d] \in Buf
          /\ UNCHANGED <<deviceVars, appVars, driverVars>>
      BY <1>12 DEF CbLeave, CbGoto, TypeOK
    <2>2. InCirculation(d, wh[d])
      BY <2>1 DEF InCirculation
    <2>3. \A c \in Buf : /\ InOnePlace(d, c) => InOnePlace(d, c)'
                         /\ InCirculation(d, c)' => InCirculation(d, c)
                         /\ <<d, c>> \in refused' => <<d, c>> \in refused
      BY <2>1 DEF InOnePlace, InCirculation, Held
    <2>4. QED
      BY <1>7, <2>1, <2>2, <2>3
  <1>13. CASE UNCHANGED vars
    BY <1>1, <1>13 DEF vars, BufferInv, InOnePlace, Held, InCirculation
  <1>14. QED
    BY <1>2, <1>3, <1>4, <1>5, <1>6, <1>8, <1>9, <1>10, <1>11, <1>12, <1>13
       DEF Next, Caller, Callback

-----------------------------------------------------------------------------
(* The samples                                                             *)

\* The caller changes the list only where no callback is inside the mutex.
LEMMA MixStep == TypeOK /\ MutexInv /\ MixInv /\ [Next]_vars => MixInv'
  <1> SUFFICES ASSUME TypeOK, MutexInv, MixInv, [Next]_vars PROVE MixInv'
    OBVIOUS
  <1> USE DEF mutexVars, deviceVars, driverVars, appVars, cbVars, listVars
  <1>1. CASE StartAudio \/ AllocBuffer \/ BeginBuffer \/ Call \/ AppEnter
              \/ CountPlaying \/ WaveOutClose \/ AppLeave \/ UNCHANGED vars
    BY <1>1 DEF StartAudio, AllocBuffer, BeginBuffer, Call, AppEnter,
                CountPlaying, WaveOutClose, AppLeave, vars, MixInv, MixesSnapshot
  <1>2. CASE AddSample \/ ClearAll
    <2>1. apc \in AppSection /\ UNCHANGED cbVars
      BY <1>2 DEF AddSample, ClearAll, AppGoto, AppSection
    <2>2. ASSUME NEW d \in Dev, cpc[d] \in CbSection PROVE FALSE
      <3>1. d <= opens /\ d \in 1 .. MaxOpens
        BY <2>2 DEF MutexInv, CbSection, Dev
      <3>2. g_mutex_ready
        BY <3>1, CountAssumption DEF MutexInv, TypeOK
      <3>3. QED
        BY <2>1, <2>2, <3>2, Names DEF MutexInv
    <2>3. QED
      BY <2>1, <2>2 DEF MixInv, MixesSnapshot, CbSection
  <1>3. ASSUME NEW d \in Dev, NEW b \in Buf, Finish(d, b) \/ CallBack(d, b)
        PROVE  MixInv'
    BY <1>3 DEF Finish, CallBack, CbGoto, TypeOK, MixInv, MixesSnapshot
  \* Only one callback is inside, so a step of d leaves the others outside.
  <1>4. ASSUME NEW d \in Dev, cpc[d] \in CbSection, NEW c \in Dev, c # d
        PROVE  cpc[c] \notin CbSection
    BY <1>4 DEF MutexInv
  <1>5. ASSUME NEW d \in Dev, CbEnter(d) PROVE MixInv'
    <2>1. g_mutex_ready
      BY <1>5, CountAssumption DEF CbEnter, CbGoto, MutexInv, TypeOK, Dev
    <2>2. g_mutex = Free
      BY <1>5, <2>1 DEF CbEnter, EnterMutex
    <2>3. \A c \in Dev : c # d => cpc'[c] = cpc[c] /\ cpc[c] \notin CbSection
      BY <1>5, <2>2, Names DEF CbEnter, CbGoto, MutexInv, TypeOK
    <2>4. /\ cpc'[d] = "slot" /\ slot'[d] = 1 /\ heard'[d] = {} /\ play' = play
          /\ snap'[d] = play
      BY <1>5 DEF CbEnter, CbGoto, TypeOK
    <2>5. {s \in snap'[d] : s < 1} = {}
      <3>1. snap'[d] \subseteq Slots /\ \A s \in Slots : ~(s < 1)
        BY <2>4, CountAssumption DEF TypeOK, Slots
      <3>2. QED
        BY <3>1
    <2>6. QED
      BY <2>3, <2>4, <2>5 DEF MixInv, MixesSnapshot, CbSection
  <1>6. ASSUME NEW d \in Dev, cpc[d] \in CbSection,
               \A c \in Dev : c # d => cpc'[c] = cpc[c],
               cpc'[d] \in {"slot", "mix"} =>
                   /\ heard'[d] = {s \in snap'[d] : s < slot'[d]}
                   /\ \A s \in Slots : s >= slot'[d] =>
                          (s \in play' <=> s \in snap'[d]),
               cpc'[d] = "mix" => slot'[d] \in play',
               cpc'[d] = "write" => heard'[d] = snap'[d]
        PROVE  MixInv'
    BY <1>4, <1>6 DEF MixInv, MixesSnapshot, CbSection
  \* A slot that has been dealt with, and then the next.
  <1>7. ASSUME NEW d \in Dev, cpc[d] \in {"slot", "mix"}, NextSlot(d),
               snap' = snap,
               heard'[d] = {s \in snap[d] : s < slot[d] \/ s = slot[d]},
               \A s \in Slots : s > slot[d] => (s \in play' <=> s \in snap[d])
        PROVE  MixInv'
    <2>1. slot[d] \in Slots /\ snap[d] \subseteq Slots
      BY DEF TypeOK
    <2>2. CASE slot[d] = SlotCount
      <3>1. cpc'[d] = "write" /\ \A c \in Dev : c # d => cpc'[c] = cpc[c]
        BY <1>7, <2>2 DEF NextSlot, AtLastSlot, CbGoto, TypeOK
      <3>2. \A s \in Slots : s < SlotCount \/ s = SlotCount
        BY CountAssumption DEF Slots
      <3>3. heard'[d] = snap'[d]
        BY <1>7, <2>1, <2>2, <3>2
      <3>4. QED
        BY <1>6, <1>7, <3>1, <3>3 DEF CbSection
    <2>3. CASE slot[d] # SlotCount
      <3>1. /\ cpc'[d] = "slot" /\ \A c \in Dev : c # d => cpc'[c] = cpc[c]
            /\ slot'[d] = slot[d] + 1
        BY <1>7, <2>3 DEF NextSlot, AtLastSlot, CbGoto, TypeOK
      <3>2. \A s \in Slots : /\ s < slot[d] + 1 <=> (s < slot[d] \/ s = slot[d])
                             /\ s >= slot[d] + 1 => s > slot[d]
        BY <2>1, CountAssumption DEF Slots
      <3>3. heard'[d] = {s \in snap'[d] : s < slot'[d]}
        BY <1>7, <2>1, <3>1, <3>2
      <3>4. \A s \in Slots : s >= slot'[d] => (s \in play' <=> s \in snap'[d])
        BY <1>7, <3>1, <3>2
      <3>5. QED
        BY <1>6, <1>7, <3>1, <3>3, <3>4 DEF CbSection
    <2>4. QED
      BY <2>2, <2>3
  <1>8. ASSUME NEW d \in Dev, cpc[d] \in {"slot", "mix"}
        PROVE  /\ heard[d] = {s \in snap[d] : s < slot[d]}
               /\ \A s \in Slots : s >= slot[d] => (s \in play <=> s \in snap[d])
               /\ slot[d] \in play <=> slot[d] \in snap[d]
               /\ \A s \in Slots : s > slot[d] => s >= slot[d] /\ s # slot[d]
               /\ slot[d] \in Slots
    <2>1. slot[d] \in Slots /\ slot[d] >= slot[d]
      BY CountAssumption DEF TypeOK, Slots
    <2>2. \A s \in Slots : s > slot[d] => s >= slot[d] /\ s # slot[d]
      BY <2>1, CountAssumption DEF Slots
    <2>3. QED
      BY <1>8, <2>1, <2>2 DEF MixInv
  <1>9. ASSUME NEW d \in Dev, TestSlot(d) PROVE MixInv'
    <2>1. cpc[d] = "slot" /\ UNCHANGED <<snap, heard, play>>
      BY <1>9 DEF TestSlot
    <2>2. CASE slot[d] \in play
      <3>1. /\ cpc'[d] = "mix" /\ \A c \in Dev : c # d => cpc'[c] = cpc[c]
            /\ slot' = slot
        BY <1>9, <2>2 DEF TestSlot, CbGoto, TypeOK
      <3>2. QED
        BY <1>6, <1>8, <2>1, <2>2, <3>1 DEF CbSection
    <2>3. CASE slot[d] \notin play
      <3>1. NextSlot(d)
        BY <1>9, <2>3 DEF TestSlot
      <3>2. heard'[d] = {s \in snap[d] : s < slot[d] \/ s = slot[d]}
        BY <1>8, <2>1, <2>3
      <3>3. QED
        BY <1>7, <1>8, <2>1, <3>1, <3>2
    <2>4. QED
      BY <2>2, <2>3
  <1>10. ASSUME NEW d \in Dev, MixSample(d) PROVE MixInv'
    <2>1. /\ cpc[d] = "mix" /\ NextSlot(d) /\ snap' = snap
          /\ play' \in {play \union {slot[d]}, play \ {slot[d]}}
          /\ heard'[d] = heard[d] \union {slot[d]}
      BY <1>10 DEF MixSample, TypeOK
    <2>2. slot[d] \in snap[d]
      BY <1>8, <2>1 DEF MixInv
    <2>3. heard'[d] = {s \in snap[d] : s < slot[d] \/ s = slot[d]}
      BY <1>8, <2>1, <2>2
    <2>4. \A s \in Slots : s > slot[d] => (s \in play' <=> s \in snap[d])
      BY <1>8, <2>1
    <2>5. QED
      BY <1>7, <2>1, <2>3, <2>4
  <1>11. ASSUME NEW d \in Dev, WaveOutWrite(d) \/ CbLeave(d) PROVE MixInv'
    <2>1. /\ cpc[d] \in CbSection /\ cpc'[d] \in {"leave", "idle"}
          /\ \A c \in Dev : c # d => cpc'[c] = cpc[c]
      BY <1>11 DEF WaveOutWrite, CbLeave, CbGoto, CbSection, TypeOK
    <2>2. \A c \in Dev : cpc'[c] \notin {"slot", "mix", "write"}
      BY <1>4, <2>1 DEF CbSection
    <2>3. QED
      BY <2>2 DEF MixInv, MixesSnapshot
  <1>12. QED
    BY <1>1, <1>2, <1>3, <1>5, <1>9, <1>10, <1>11 DEF Next, Caller, Callback

\* mix_sample, which writes the play flag back, keeps what clear_all has cleared.
LEMMA ClearStep == MixInv /\ ClearIsFinal /\ [Next]_vars => ClearIsFinal'
  <1> SUFFICES ASSUME MixInv, ClearIsFinal, [Next]_vars PROVE ClearIsFinal'
    OBVIOUS
  <1> USE DEF ClearIsFinal, listVars
  <1>1. CASE AddSample \/ ClearAll
    BY <1>1 DEF AddSample, ClearAll
  <1>2. ASSUME NEW d \in Dev, MixSample(d) PROVE ClearIsFinal'
    BY <1>2 DEF MixSample, MixInv
  <1>3. CASE UNCHANGED listVars
    BY <1>3
  <1>4. QED
    BY <1>1, <1>2, <1>3
       DEF Next, Caller, Callback, StartAudio, AllocBuffer, BeginBuffer, Call,
           AppEnter, CountPlaying, WaveOutClose, AppLeave, Finish, CallBack,
           CbEnter, TestSlot, WaveOutWrite, CbLeave, vars

-----------------------------------------------------------------------------
(* The theorems                                                            *)

\* The invariant holds in every state.
LEMMA Invariance == Spec => []IInv
  <1>1. Init => IInv
    <2> SUFFICES ASSUME Init PROVE IInv
      OBVIOUS
    <2> USE DEF Init
    <2>1. TypeOK
      <3>1. /\ 1 \in Buf /\ 1 \in Slots
            /\ opens \in 0 .. MaxOpens /\ 0 \in 0 .. opens /\ i \in Buf
        BY CountAssumption DEF Buf, Slots
      <3>2. QED
        BY <3>1 DEF TypeOK
    <2>2. MutexInv
      BY Names DEF MutexInv, CbSection, AppSection
    <2>3. MemoryInv /\ BufferInv
      BY DEF MemoryInv, BufferInv, InCirculation
    <2>4. MixInv /\ ClearIsFinal
      BY DEF MixInv, MixesSnapshot, ClearIsFinal
    <2>5. QED
      BY <2>1, <2>2, <2>3, <2>4 DEF IInv
  <1>2. IInv /\ [Next]_vars => IInv'
    BY TypeStep, MutexStep, MemoryStep, BufferStep, MixStep, ClearStep DEF IInv
  <1>3. QED
    BY <1>1, <1>2, PTL DEF Spec

\* Every variable keeps its type in every run.
THEOREM TypeCorrect == Spec => []TypeOK
  <1>1. IInv => TypeOK
    BY DEF IInv
  <1>2. QED
    BY <1>1, Invariance, PTL

\* A thread inside the section owns the mutex, if there is one: the code never
\* leaves a mutex it did not enter.
THEOREM OwnsWhatItLeaves == Spec => []SectionIsOwned
  <1>1. IInv => SectionIsOwned
    BY DEF IInv, MutexInv, SectionIsOwned
  <1>2. QED
    BY <1>1, Invariance, PTL

\* As long as no stop_audio has left buffers behind, the driver and the callback
\* only ever use memory that is allocated.
THEOREM MemoryIsLive == Spec => []PlaysLiveMemory
  <1>1. IInv => PlaysLiveMemory
    BY DEF IInv, MemoryInv, PlaysLiveMemory, InCirculation, TypeOK
  <1>2. QED
    BY <1>1, Invariance, PTL

\* Each of the buffers is in exactly one place, so none is filled while it plays,
\* and the sound thins out only where waveOutWrite fails.
THEOREM BuffersCirculate == Spec => []NoBufferLost
  <1>1. IInv => NoBufferLost
    BY DEF IInv, BufferInv, InOnePlace, Held, NoBufferLost
  <1>2. QED
    BY <1>1, Invariance, PTL

\* The mutex makes a mix see the samples of one moment.
THEOREM MixIsSnapshot == Spec => []MixesSnapshot
  <1>1. IInv => MixesSnapshot
    BY DEF IInv, MixInv
  <1>2. QED
    BY <1>1, Invariance, PTL

\* Writing the flags back revives no sample that clear_all has ended.
THEOREM ClearedStaysClear == Spec => []ClearIsFinal
  <1>1. IInv => ClearIsFinal
    BY DEF IInv
  <1>2. QED
    BY <1>1, Invariance, PTL
=============================================================================
