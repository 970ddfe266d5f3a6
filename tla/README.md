# Verification of the game

The program is a small Windows game on Allegro 5 whose player code can be edited
while it runs: a thread recompiles `bucktoot/move_code.c` with an embedded TinyCC
each time the file changes and hands the new `move_player1` to the game thread.
There are no tests and no documents in the repository; the models here are
translated from the code.

The code that is the program's own is `main.c`, `game.c`, `compiler.c`,
`bucktoot/move_code.c` (both linked in and hot-reloaded), `entity.h`, `utils.c`,
`utils_time.c` and `wave_player.c`. `tcc/` is TinyCC, vendored, but compiled into
the program and run at each reload, so a part of it is modelled too; `ex_*.c` are
Allegro examples; `old/`, `move_player.c` and the `motoracer` files belong to
earlier versions and are in no build.

## Inventory

| component | state | operations | meets |
|---|---|---|---|
| hot reload (`compiler.c`) | `g_script_func`, `g_mutex`, `g_mutex_ready`, the one `TCCState`, the notification handle | `compile_thread` (wait, drop, read, compile, publish), `move_player1_script` | the game thread calls it once per frame; the editor changes the file |
| key table (`game.c:61-129`) | `key_list[10]` | `set_key_down/up` (main thread), `is_key_down`, `are_keys_down/up` (script) | written by the event loop, read by the script with no lock |
| player (`move_code.c`) | `ENTITY` with its `ANIM` | `move_player1`, `run_animation`, `player_idle` | asks the key table and the clock; drawn by the game thread |
| game loop (`game.c`, `main.c`) | `g_mutex`, `g_display`, `blobs` | set-up, `create_p1`, `game_thread`, events, `do_exit`, `abort_msg` | starts the threads, owns the entity table, ends the process |
| clock (`utils_time.c`) | `have_freq`, `freq`, `tick` | `get_time`, `tick_measure` | called from the main and the game thread, with no lock |
| wave player (`wave_player.c`) | 3 buffers, 200 samples, 100 files, `g_speed`, a mutex | `audio_callback` and the mixer, `add_sample`, `clear_all`, `start/stop_audio`, `load_wavs`, `mod_speed` | callbacks on a thread of the wave driver; built, but its start is commented out (`main.c:28`) |
| TinyCC's scopes (`tcc/tccgen.c`, `tccpp.c`, `libtcc.c`) | the token table, three stacks of Syms, `local_scope`: statics, not part of a `TCCState` | `sym_push`, `sym_pop`, `label_push`, `label_pop`, `block`, `gen_function`, `tcc_compile`, `tcc_new`, `tcc_cleanup` | called by `compile_thread`, with one `TCCState` after another |
| console helpers (`utils.c`) | console handles | `do_wait`, key input | `abort_msg` waits in `do_wait` |

What is hard here: three threads (main, game, compile) and an editor outside; two
locks that protect other things than one would think (`g_mutex` of `game.c` the
display, not the entities; `g_mutex` of `compiler.c` the script, for the whole of
its execution); flags, a key table and an entity table read without a lock; a
change notification that remembers some changes and can forget others; scripts
that fail in every way, or never return; set-up that fails while another thread
already draws; audio buffers that circulate between a driver and its callback while
the caller starts, stops and clears; a compiler whose errors are long jumps over
the code that cleans up. `PROJECT.json` lists each such place with the
properties about it.

What makes each part correct:

- hot reload: the game executes only live, linked code, of the text that was read
  last; the last edit ends up in the game; neither thread starves the other.
- key table: a set of at most ten keys, as far as anybody can observe it.
- player: consistent at each frame, no faster than its throttle, deaf to no key it
  asks about.
- game loop: where the player is said to be it is also shown, nothing is drawn
  while the process ends or without a mutex, ESCAPE always ends it.
- clock: a call returns a time between its start and its end.
- wave player: the driver and the callback touch live memory only, no buffer is
  lost, a mix is of one moment and what was cleared stays silent; reads stay inside
  the sample and leave no frame out; every file with data is loaded, in order.
- scopes: a name means what C says, in the first text and in every later one.
- all together: no thread waits for one that waits for it; frames go on, and a new
  script gets to run.

## Modules

| module | models | extended or instantiated by |
|---|---|---|
| `HotReload` | `compiler.c:106-274` and its environment | `HotReloadProofs`, `MCHotReload` |
| `ScriptSlot` | what the reload promises the game (abstract) | `HotReload` (`Slot`) |
| `KeyTable` | `game.c:61-129` | `KeyTableProofs`, `MCKeyTable` |
| `KeySet` | what the keyboard functions promise a script (abstract) | `KeyTable` (`Set`) |
| `Player` | `bucktoot/move_code.c` | `PlayerProofs`, `MCPlayer` |
| `GameLoop` | `game.c:20-59`, `145-178`, `257-440` | `GameSystemProofs`, `MCGameLoop` |
| `GameSystem` | the threads of `GameLoop` and `HotReload` in one program (`main.c`, `game.c:329`) | `GameSystemProofs`, `MCGameSystem` |
| `Clock` | `utils_time.c:3-19` | `ClockProofs`, `MCClock` |
| `WavePlayer` | `wave_player.c:315-460` and `505-570`: buffers, callback, sample list | `WavePlayerProofs`, `MCWavePlayer` |
| `Mixer` | `wave_player.c:218-313`, `503-563`: the way of one sample through its data | `SampleProofs`, `MCMixer` |
| `WaveFile` | `wave_player.c:69-172`, `461-501` | `SampleProofs`, `MCWaveFile` |
| `Scopes` | TinyCC's symbol stacks: `tccgen.c:500-626` and their users, `tccpp.c:1356-1408`, `libtcc.c:623-733` | `ScopesProofs`, `MCScopes` |
| `*Proofs` | inductive invariants and theorems | `GameSystem` instantiates those of `HotReload`; those of `GameLoop` are in `GameSystemProofs` |
| `MC*` | the values of the constants for TLC | |

In each module, the operators that come in pairs are the guards, values and
choices the steps are made of: the second of a pair is the code's, the first a
plausible slip (a missing `g_script_func=0`, a loop that ends a slot early).
`PROJECT.json` names, for each property, the slip that breaks it.

### HotReload

One action per statement of `compile_thread` that another thread can tell from
its neighbours; `cpc` is where the thread is, `gpc` where the game thread is in
`move_player1_script`.

- A `TCCState` is an address out of `Addr`, which may be used again once it is
  freed; `heap` holds those that are alive and what was
  compiled into each. `g_script_func` is the state its code is in, or 0. So a
  call into deleted memory is a `move_code` outside `DOMAIN heap`, or inside it
  with another program.
- A text is its version and what TinyCC makes of it (`AnyText`, of which
  `TextKind` are those that occur): good, good
  but never returning, without `move_player1`, with an undefined symbol, with a
  syntax error. The file may be absent, or not open although it is there.
  `ReadText` is separate from `OpenFile`, and a file written between
  the two arrives as anything.
- Other files of the directory change without bound (`OtherChange`): each change
  has the script dropped and compiled again.
- The notification handle: an outstanding request (`armed`) that a change turns
  into a signal, and a change without a request, which is `recorded` for the
  next one. `FindNextChangeNotification` right after
  `FindFirstChangeNotification`, with no wait in between, may lose a signal: that
  is how the code starts (`goto READ_FILE`, line 208), and the reason for the
  exception in `FreshWhenParked` and `EndsUpToDate`.
- `lastread` and `opened` are history: what `read_file` saw when it last looked.
- A good text compiles whatever was compiled before. `Scopes` says how far that is
  so: not after a text that failed in a function with a label (Findings).

### KeyTable

The writers are atomic, because the main thread is the only writer and writes at
most one slot per event; the scans read one slot per step. `always` and `ever`
are history: which of the keys asked about were in the table all the time, or at
some time, since the call. `KeySet` has the questions of a script as an interval
between `Ask` and `Answer`, and allows every answer between `always` and `ever`.

### Player

A call of `move_player1` is a sequence of questions, between which the keys and
the clock may change; the last step does all the assignments of the branch it is
in. `ypos`, the scales and sizes are constant and left out. `did`, `was`, `always`,
`ever`, `steps`, `first` are history. `HoldIsSeen` says what a call may overlook: in
`PS_JUMP`, which has no case, every key; in `PS_RUN` Z, which is not asked for there,
so that a jump begins from rest.

### GameLoop

The main thread is a sequence of set-up steps, each of which may fail into
`abort_msg` where the code tests it, then the event loop, then the exit. The game
thread is the body of its loop. The script is a choice: nothing, a move of the
player, or never returning. `player` tells which of its fields are set, `e`
whether this frame has found it in `blobs` for the text, `drawn` whether
`draw_bitmap` has found a bitmap for the picture. `al_create_mutex` may return
NULL, untested: `do_exit` is prepared for that, the game thread locks it and
crashes (`LockNothing`).

### GameSystem

`GameLoop` takes the script for one step with three outcomes, `HotReload` takes the
game for a thread that calls now and then. `GameSystem` has both, with one game
thread: `gpc` is where it is in the frame, `spc` where it is in
`move_player1_script`, and each action is an action of one of the two, or of both
at once where they meet (`TestFunc` without a script, `Moves`, `Returns`,
`Hangs`). That each part behaves as its own module says is therefore no property of
the program but the way it is put together; it is what carries over what is proved
of the parts. What is checked is what only the composition can get wrong: the two
mutexes, the exit, and that frames and scripts go on.

### Clock

`get_time` step by step for each caller, with the two statics shared. The product
by 1000 is computed in `Limit` (the code: 2^63) two's complement, the division
rounds towards zero. The counter and the frequency are the machine's.

### WavePlayer

A buffer in the driver's hands is `<<d, b>>`, buffer b as handed over in the d-th
successful `start_audio`; `data[b]` says which one allocated the memory it has now.
The callback takes `lpData` before the mutex (`CallBack`), and everything else in
it (`CbEnter` to `CbLeave`), one slot of `g_sample_list` per step. `waveOutClose`
refuses while buffers are queued (`WAVERR_STILLPLAYING`), `stop_audio` forgets
the device nevertheless: `stray` records it. `waveOutWrite` may fail at any time and
does on a closed device; nobody looks, and the buffer circulates no more
(`refused`). There is no mutex before the first
`start_audio`, and `enter_mutex` then does nothing.

### Mixer

`current_frame` is a double; here it is an integer in units of 1/D byte, exact
for the speeds that are multiples of 1/D. One step per turn of the loop of
`mix_sample`; `mod_speed` comes in between at any point, as it takes no mutex.
The numbers that are added up are left out. Two files can end the process
(`crashed`): one without channels, played backwards, which `play_index` divides by,
and one without data in a loop, where `fmod` divides by 0 and the next read is
2^31 bytes in front of the data (`nan`, `MixNowhere`).

### WaveFile

A file is a sequence of words of four bytes. A short read leaves the rest of `buf`
as it was, which the code then takes for what it has read; so `buf` is state, and
outlives the call. The reference is `Chunks`: the chunks of a file by position, and
from them the data a file is loaded for (`Loads`, `Loaded`). It holds for files of
which no short read is taken for something else (`Regular`, file by file).

### Scopes

A Sym is a number, `sym` the memory, `head` the token table (identifier, struct
and label per name), `stack` the three stacks. The text is the environment: any
declaration, block, statement expression, label, call or error, one action each,
named after what it is in the text. An error is a `longjmp`: `FailIn` goes to the
end of `tcc_compile` and leaves the stacks as they are. `env` is history: what each
open scope has declared, which is all that C's rule of scopes needs.

## Runs

| run | shows | bounds |
|---|---|---|
| `hot_reload` | memory safety, freshness and consistency of the reload; it implements `ScriptSlot`; the last edit is run and the compile thread gets its section | `MaxVer = 3`: the first text and two edits, of every kind and at every point: one meets a request, one is recorded or meets the reload of the first. Changes of other files are unbounded, so there is no last pass. Two addresses: an old state's address is used again, or not |
| `key_table` | the table is a set, also for scans in progress | four keys on three slots, so that it overflows; six lists: one and two keys, padding before and after, a key twice. The code's ten slots differ in number only: the proofs are for any |
| `player` | speed, picture, questions | clock steps of 5 and 10 ms up to 60: on, under and over the throttle of 15, with three steps possible |
| `player_table` | a step every 15 ms where the table says 30; expected to be violated | as above |
| `game_loop` | set-up, drawing, exit | two keys; everything else is finite as it is |
| `game_system` | no thread holds two locks, ESCAPE ends the program, frames go on, the new script runs | no key but ESCAPE, `MaxVer = 2`: one edit, and reloads without bound, replace a program that moves, hangs or is missing by another while the game draws or ends. Texts are good, endless or absent: the game thread cannot tell the other kinds from no script, which is there while a reload is under way and after a file that does not open; `hot_reload` has them all. One address: `hot_reload` has two |
| `wave_player` | ownership of mutex and buffers, what is heard | two buffers, two slots, two devices: one buffer can be played while the other is filled, one slot mixed while the other changes, and a closed device still call back while the next one is open; `waveOutWrite` fails or not, each time |
| `mixer` | reads, loops, changes of speed, end | speeds from -1.5 to 2 in halves, buffers of two frames on samples of four: each end is met from both sides, inside and between buffers; whole, cut, empty and headless samples, 8 and 16 bit, mono, stereo and without channels |
| `wave_file` | what is loaded, and that loading ends | every prefix of three complete files, seven odd ones, unreadable and foreign entries, in directories of up to two: a file meets the `buf` any other has left |
| `clock` | the time of a call | two threads; 4 for 1000 and 32 for 2^63; frequencies 0, 1, 3, 5: none, with and without a remainder; the product overflows at 8 of 9 ticks |
| `scopes` | C's rule of scopes, refusals, nothing lost | two names, four blocks inside each other, four Syms at a time, two texts: a name that is hidden twice, in a statement expression and in the block around it, while the other one is not. Names are symmetric |
| `recompile` | what a failed text leaves behind; expected to be violated | one name, two blocks, two texts |

Deadlock is switched off in `scopes` and `recompile` only: after the last text the
thread is done.

### Fairness

`hot_reload` and `game_system` assume that the operating system schedules all
threads (weak fairness of each thread's step) and that a thread waiting for a
lock that is free again and again gets it (strong fairness of the entries). The
second is more than a `CRITICAL_SECTION` promises formally. It is justified by
how long the lock is free: the game thread is outside the script's lock for
a whole frame and outside the frame's lock during script and vertical sync; the
compile thread is outside from one change to the next. In `game_system` it may
come back without end, since any change in the directory wakes it: `FramesGoOn` and
`NewScriptRuns` hold nevertheless, because between two passes the game thread is
let in. Nobody has to edit, to
press a key, or to make a call fail.

`mixer` assumes that the driver goes on asking for buffers, `wave_file` that the
one thread that loads goes on. The other runs need no fairness.

## Proofs

`tlapm` checks, for every value of the constants:

- `HotReloadProofs`: the safety properties of the run, `ImplementsSlot`, and
  four that no run repeats: what is published is the live state
  (`PublishesOwnState`), there is one at most (`OneStateAlive`), code does not
  change while it runs (`CodeIsStable`), and a script that hangs hangs for ever
  (`HangStays`). The invariant `IInv` has three parts beyond the types. `SectionInv`
  ties the owner of the section to the two program counters; `ProgramInv` follows
  the one live `TCCState` through the steps of a reload and says that what is
  published or executed is in it; `NotifyInv` says that after the first wait every
  edit not read yet is known to the handle. The properties alone are not inductive:
  that the call is safe depends on who owns the section, and that on the steps.
- `KeyTableProofs`: all properties and `ImplementsKeySet`, for any number of
  slots; that a key has one slot (`OneSlotPerKey`) and that only a full table
  drops one (`DropsNeedFullTable`). `ScanInv` is the heart: a key that was down all
  the while and has not been met by the scan has its slot still ahead, since a key
  keeps its slot from KEY_DOWN to KEY_UP (`NoDuplicates`). `FirstOfIn` and
  `LeastNatural` show that the loops find a slot if there is one; `RoomForOne` that
  a table with a free slot has fewer keys than slots.
- `PlayerProofs`: all properties, for any clock, and that a jump never ends
  (`JumpNeverEnds`). `SpeedInv` relates distance to `e->time` instead of the
  present, which makes it inductive.
- `GameSystemProofs`: first the game loop by itself (`Spec`), all its safety
  properties, for any set of keys, with a mutex that may be missing. Then the
  program, for any keys and any number of edits: a run of it is one of each part
  (`RunOfLoop`, `RunOfReload`, which hold by its definition), so each invariant of a
  part is one of the program (`SystemCallsLiveCode`, `SystemDrawsComplete`). Two
  results are about the
  composition: never two locks at a time, and no frame is drawn inside the script's
  section. They need `MeetInv`, which relates the two program counters of the one
  game thread.
- `ClockProofs`: `InTime` for any number of callers, any frequencies and any width.
  `ProductGrows` and `KeptIfItFits` are about the product, `QuotientGrows` about
  the division, `MillisInTime` about both; the rest is that
  whoever comes to it has seen the frequency written (`FreqBeforeDivision`).
- `WavePlayerProofs`: all properties, for any number of buffers, slots and
  devices. `MutexInv` says who may be in a section; `MemoryInv`, without `stray`,
  that whatever circulates was made by the last `start_audio`, whose device is open;
  `BufferInv` that each buffer that could be allocated is in one place, the refused
  ones included; `MixInv` splits the samples of the snapshot into those behind the
  callback's slot, which it has heard, and those ahead, which are still in the list.
- `SampleProofs`, in two parts. The first proves `ReadsInside`, `NoFrameSkipped` and
  `IsHeard`, for any samples, speeds and lengths of a buffer. `PlaceInv` is what makes them inductive: while a buffer is
  mixed, the sample stands at a place of its data, between two frames maybe, whatever
  the speed was; between two buffers it can be in front, but only if the data is
  shorter than one frame. The rest is arithmetic with two variables in a product:
  `QuotientBelow`, `ProductGrows` and their like say once what the solver does not find,
  `FrameInside` and `FrameNear` put it into frames, and `TurnIsNear` says that at no
  more than normal speed a turn of the loop goes to a neighbour, where the last frame
  and the first are neighbours if the sample loops.
  The second part proves `LoadsTheData`, for any files and directories. First the
  reference: a recursive function is a CHOOSE, so `ChunksExist` shows that there is
  one, put together from the end of the file, and `Chain` what it gives: chunks that
  follow one another and leave nothing out (`ChunkFacts`), by a least
  counterexample, since induction is out of reach. Then the invariant. `ReaderInv`
  says that the reader stands at a chunk, and no chunk of the id it looks for
  lies behind it and not yet before it (`AtChunk`); or that it is at the end, there was none, and
  `buf` is not taken for one, so that it reads the same for ever. `ReadsChunk` and
  `ReadsFmt` keep it, and are where `Regular` is needed. `LoadedInv` says the same as
  the property of the entries that were read; `IndexIs` and `NextRecord` count them.
- `ScopesProofs`, in two parts, each for any names and any bounds. The first proves
  `NothingLost`. Its invariant
  holds as long as no text has failed (`Clean`), since an error leaves Syms behind.
  `PlaceInv`: each Sym is at one place of one stack, and that is all there is.
  `HidesInv`: an entry of the token table is a Sym that is still there, and what a
  Sym puts back when it is popped is one below it (the global stack lies below the
  local one), or nothing if it is the lowest of its name; so emptying the stacks
  empties the table. `ParseInv`: the base of each open block is within the local
  stack and not above that of a block inside it. `PushStep`, `PopBlock`,
  `PopFunction` and `PopAll` say that the loops of `sym_push`, `sym_pop` and
  `label_pop` keep the first two; `Counted` turns places into a number.
  The second part proves `Lexical` and `RefusesRightly`. Its invariant `LexInv` must
  hold also in and after a text that fails, where the first one is gone, so it says
  nothing of where a text before has left Syms, only what those of the text
  being read are: each name in the table means what the innermost open scope that
  declares it says (`HeadMeans`); what the lowest Sym of a name above the base of
  a scope puts back is what the name means outside that scope (`HidesMeaning`); what
  a scope has declared is on the local stack above its own base and not above that
  of a scope inside it (`LocalsThere`), or on the global stack (`GlobalsThere`).
  `HidesMeaning` is what `sym_pop` needs at the end of a block, and speaks of every base at once
  because a statement expression only unlinks its Syms and leaves them to the block around it.
  `ScopeInv`, for the structs, holds only until a text has failed: `local_scope` is
  the depth of the blocks, and a struct is complete if its scope has said so.

The assumptions are the named ASSUMEs of the modules (at least one slot, 0 is not
a key, the clock moves forward, a second has units); TLC evaluates them in each run.

Only model-checked: the liveness properties, as the prover does neither
fairness nor ENABLED. Every safety property of a passing run is proved. Of two
liveness properties the safety half is proved: `FramesAdvance` (a turn of a sample
that is not a loop takes it `g_speed` frames on, and nothing turns it back) for
`EndsIfMoving`, and `NoStepInVain` (each step of `load_wavs` leaves fewer entries,
goes on to a later state of its file or stands farther behind in it) for `LoadsAll`.
What is left to TLC there is that the fair thread goes on, and the induction from
the steps to the end.

## Findings

- The table of the run movement says `30, //time` (`move_code.c:16`), the code
  that runs it waits 15 ms (`move_code.c:37`) and does not read the field.

- `tcc_cleanup` says `cleanup all static data used during compilation`
  (`tcc/libtcc.c:709`), but `global_label_stack` (`tcc/tccgen.c:40`) stays as it is.
  A text that fails behind a `goto` or a label leaves its Syms there, the pools they
  are in are freed, and the first function of the next text pops them. What it reads
  there usually says "used but not defined": the text is refused, though it is
  right, and so is every later one until the program is started again.

Worth knowing, and stated by properties that hold or theorems:

- A jump never ends (`JumpIsFinal`).
- A script that does not return cannot be replaced (`HangIsFinal`), though ESCAPE
  still works (`EscapeEnds`).
- An edit during the very first compilation can go unnoticed until the next one
  (`FreshWhenParked` and `EndsUpToDate` except the time before the first wait).
- A key pressed while ten are down is lost even when a slot gets free
  (`DropsOnlyWhenFull`).
- `PlaysLiveMemory` and `NoBufferLost` end with the first `stop_audio` that finds
  buffers in use: `waveOutClose` refuses, nobody looks, and the next `start_audio`
  frees the memory the driver still plays.
- A buffer that `waveOutWrite` refuses is lost for good; after three of them there is
  no sound any more (`NoBufferLost` allows it).
- If `al_create_mutex` fails the program crashes with its first frame
  (`FailsBeforeDrawing`).
- `read_file` never frees the name `get_code_file` allocates: 8 KB per reload.
- In `PS_RUN` nobody asks about Z, so a jump begins from rest only (`HoldIsSeen`).
- At speed 0, or with a frame size of 0, a sample keeps its slot (`EndsIfMoving`).
- A file that ends before its data chunk keeps `load_wavs` in its loop for ever
  (`ReturningDir`). What `Regular` excepts: a file cut inside the header of a chunk is
  read with the length of the chunk before; one of `RIFF` alone takes the `WAVE` of the
  file before for its own, if `buf` still has it, and never ends; and what a cut chunk
  `fmt ` leaves in `buf` may be taken for the header of the data.
- A file whose data is cut inside a frame, or whose samples have 8 bits, is loaded
  and then read past the end of its data: `mix_sample` reads 16 bits per channel
  whatever the file says (`WellFormed` excepts them, so `ReadsInside` says nothing of
  them).
- A wave file with an empty data chunk is loaded, and played in a loop it ends the
  process; so does one without channels played backwards (`WellFormed` excepts them).
- The product in `get_time` overflows after 29 years at 10 MHz, or five weeks of a
  3 GHz counter (`Fits`).
- More of TinyCC's statics outlive an error. `local_scope` keeps the depth of the
  block: a struct at file level of the next text gets it as its scope, so that a
  struct of its name in a block is refused (`RefusesRightly` excepts what follows
  a failure). `global_expr` stays 1 after an error in the initializer of a global,
  so that compound literals in functions become static. `cur_switch` and
  `vlas_in_scope` are left over too.
- The table is emptied of the global Syms before the local ones (`libtcc.c:657`):
  after an error inside a function a local Sym puts back a global one that is freed
  already. Nothing reads the entry before the table goes.
- A function that was called undeclared is forgotten if the call is behind a
  statement expression with a local of its name, and is then declared once more.
  `Lexical` allows both.

## Abstractions and what is not modelled

- The wave driver is taken to call back without a lock of its own. If it held one,
  `stop_audio`, which calls `waveOutClose` inside the mutex, and the callback, which
  calls `waveOutWrite` inside it, could wait for each other; Windows warns
  against calling waveOut functions from the callback at all.
- The values that are mixed and their saturation; `write_wave`, which nobody calls;
  the key loop of `test_wave_player`; chunks of odd length, after which words are
  no longer where the model has them; the table of 100 files, which `load_wavs`
  does not test.
- `Mixer` is exact where the code rounds: for speeds that are sums of powers of two
  the two agree.
- `tick_measure`: its only call is under `if(0)` in `game.c`, and without a counter
  its second call would divide by zero.
- Of TinyCC: types, expressions, code generation, preprocessor, linker and
  relocation, typedefs, local labels, inline functions. Each is a component of its
  own, as large as all of the game, and vendored. Of the lines in the
  repository most are the headers of Windows and C that come with TinyCC and have no
  behaviour, and the rest of the compiler.
- Failures of `al_create_event_queue` and `al_create_thread`, untested like that of
  `al_create_mutex`, which is modelled.
- Allegro, window and console calls, drawing primitives, the functions nobody calls
  (`test_shit`, `__move_player1`), the examples and the earlier versions.
- Whether Allegro delivers a KEY_UP when another window has the focus.

What could come next: the preprocessor's stack of buffers and conditions, which an
error leaves too (`tccpp.c`); the relocation of a `TCCState` with undefined symbols
(`tccelf.c`), which `HotReload` takes for one outcome; the player's properties
stated across reloads.
