-------------------------------- MODULE Mixer --------------------------------
(***************************************************************************)
(* wave_player.c:218-313 and 503-563: how one sample of g_sample_list is   *)
(* read, frame by frame and buffer by buffer, by mix_sample, while mod_speed*)
(* changes the speed, also in the middle of a buffer.                      *)
(*                                                                         *)
(* current_frame is a double in frames; here it is the integer cf in units *)
(* of 1/D byte, so that data_len/frame_size, which need not be whole, and  *)
(* speeds in steps of 1/D are exact.  sample_rate and speed of the sample  *)
(* are never read; loop_start and loop_end are always 0.  The values that  *)
(* are mixed are left out.                                                 *)
(*                                                                         *)
(* In a loop without data, fmod divides by 0 and current_frame is no       *)
(* number any more; as an int, it is the smallest there is, and the next   *)
(* read is 2^31 bytes before the data: the process ends.                   *)
(***************************************************************************)
EXTENDS Integers

CONSTANTS D,          \* speeds are multiples of 1/D
          Speeds,     \* bound: the values mod_speed makes of g_speed
          Samples,    \* [bytes, channels, data_len] of the loaded files
          BufFrames   \* frames of a buffer

ASSUME SpeedAssumption == D \in Nat \ {0} /\ Speeds \subseteq Int /\ D \in Speeds
ASSUME SampleAssumption ==
    Samples \subseteq [bytes : Nat, channels : Nat, data_len : Nat]
ASSUME BufAssumption == BufFrames \in Nat \ {0}

VARIABLES g_speed,            \* in 1/D
          ws, do_loop, play,  \* WAVE_SAMPLE
          cf, nan,            \* its current_frame; it is no number
          pc, left            \* mix_sample, and the frames it has still to fill

sample == <<ws, do_loop, play>>
mixer  == <<pc, left>>
frame  == <<cf, nan>>
vars   == <<g_speed, sample, frame, mixer>>

frame_size == ws.bytes * ws.channels
Frame  == frame_size * D
End    == ws.data_len * D

Init ==
    /\ g_speed = D
    /\ ws \in Samples /\ do_loop = FALSE /\ play = FALSE
    /\ cf = 0 /\ nan = FALSE
    /\ pc = "out" /\ left = 0

-----------------------------------------------------------------------------
(* What the steps are made of, and slips in some of it.                     *)

BehindLate(c) == c > End
Behind(c) == c >= End

TwoFrames == End - 2 * Frame
FromBehind == End - Frame                           \* cpc=end-1, line 233

Before(c) == c < 0

\* check_loop: where a loop goes on.
Looped(c) == IF Behind(c) THEN 0
             ELSE IF Before(c) THEN (IF FromBehind < 0 THEN 0 ELSE FromBehind)
             ELSE c

\* Whether the sample goes on.
GoesOn(c) == do_loop \/ (~Behind(c) /\ ~Before(c))

StartsBehind == IF g_speed < 0 THEN (ws'.data_len * D) ELSE 0
StartFrame == IF g_speed < 0 /\ ws'.bytes # 0
              THEN LET size == ws'.bytes * ws'.channels
                   IN  (ws'.data_len \div size - 1) * size * D
              ELSE 0

-----------------------------------------------------------------------------
\* mod_speed: no lock.
ModSpeed(s) == pc # "crashed" /\ g_speed' = s /\ UNCHANGED <<sample, frame, mixer>>

\* play_index and add_sample, into a slot that does not play.  Backwards, the
\* division by a frame without channels ends the process; ws is then the sample
\* that was to be added.
PlayIndex(w, loop) ==
    /\ ~play /\ pc = "out"
    /\ ws' = w /\ do_loop' = loop
    /\ IF g_speed < 0 /\ w.bytes # 0 /\ w.channels = 0
       THEN pc' = "crashed" /\ UNCHANGED <<play, frame, left>>
       ELSE play' = TRUE /\ cf' = StartFrame /\ nan' = FALSE /\ UNCHANGED mixer
    /\ UNCHANGED g_speed

ClearAll == play /\ pc = "out" /\ play' = FALSE
               /\ UNCHANGED <<g_speed, ws, do_loop, frame, mixer>>

\* The head of mix_sample, for a buffer; a sample without a frame size stays.
BeginMix ==
    /\ play /\ pc = "out" /\ frame_size > 0
    /\ cf' = IF do_loop THEN Looped(cf) ELSE cf
    /\ play' = GoesOn(cf)
    /\ IF play' THEN pc' = "mix" /\ left' = BufFrames ELSE UNCHANGED mixer
    /\ UNCHANGED <<g_speed, ws, do_loop, nan>>

\* One turn of its loop: read at Pos, go on by g_speed, check_loop, fmod.
PosUnaligned == cf \div D
Pos == (cf \div D) - ((cf \div D) % frame_size)
Width == IF ws.channels > 1 THEN 4 ELSE 2        \* wsrc[0] and wsrc[src_index]
Fmod(c) == IF c < 0 THEN -((-c) % End) ELSE c % End

MixFrame ==
    /\ pc = "mix" /\ ~nan
    /\ LET c == cf + g_speed * frame_size
       IN  /\ play' = GoesOn(c)
           /\ nan' = (play' /\ End = 0)
           /\ cf' = IF ~play' \/ nan' THEN c
                    ELSE Fmod(IF do_loop THEN Looped(c) ELSE c)
    /\ left' = left - 1
    /\ pc' = IF play' /\ left' > 0 THEN "mix" ELSE "out"
    /\ UNCHANGED <<g_speed, ws, do_loop>>

\* (int)(current_frame*frame_size) of no number.
MixNowhere == /\ pc = "mix" /\ nan /\ pc' = "crashed"
              /\ UNCHANGED <<g_speed, sample, frame, left>>

Crashed == pc = "crashed" /\ UNCHANGED vars

Next == \/ \E s \in Speeds : ModSpeed(s)
        \/ \E w \in Samples, loop \in BOOLEAN : PlayIndex(w, loop)
        \/ ClearAll \/ BeginMix \/ MixFrame \/ MixNowhere \/ Crashed

Spec == Init /\ [][Next]_vars

\* The driver asks for one buffer after the other (WavePlayer).
FairSpec == Spec /\ WF_vars(BeginMix \/ MixFrame \/ MixNowhere)

-----------------------------------------------------------------------------
(* Properties                                                              *)

\* A file of 16 bit samples and whole frames: what load_wavs does not complain
\* about, in mono too; but it does not complain either if there is none.
WellFormed == /\ ws.bytes = 2 /\ ws.channels \in {1, 2}
              /\ ws.data_len % frame_size = 0 /\ ws.data_len # 0

\* Each frame that is read lies inside the data, at every speed, forwards and
\* backwards, across the ends of a loop; and nothing is divided by 0.
ReadsInside == WellFormed => /\ pc # "crashed"
                             /\ pc = "mix" => ~nan /\ Pos + Width <= ws.data_len

\* No faster than at normal speed, no frame is left out, not where a loop
\* starts again nor where a buffer ends nor when the speed turns round.
Neighbours(p, q, n) == \/ q - p \in {-n, 0, n}
                       \/ do_loop /\ {p, q} = {0, ws.data_len - n}
NoFrameSkipped ==
    [][(pc = "mix" \/ BeginMix) /\ play' /\ WellFormed /\ g_speed \in -D .. D =>
           Neighbours(Pos, Pos', frame_size)]_vars

\* A sample that was added is heard: the head of mix_sample ends it only if it
\* has no whole frame, also when the speed has turned round since play_index
\* chose where it starts.
IsHeard == [][BeginMix /\ ~play' => ws.data_len < frame_size]_vars

\* A sample that is not a loop ends, if the speed keeps a direction: at speed 0,
\* or without a frame size, it would keep its slot.
Over == ~play \/ do_loop \/ frame_size = 0
EndsIfMoving ==
    ((<>[](g_speed > 0)) \/ (<>[](g_speed < 0))) => []<>Over
=============================================================================
