---------------------------- MODULE SampleProofs ----------------------------
(***************************************************************************)
(* Proofs about the samples of the wave player.                            *)
(*                                                                         *)
(* Mixer, for any unit of the speed, any samples and buffers of any length: *)
(* where in its data a sample stands between two frames, and what follows  *)
(* for the frames that are read.                                           *)
(*                                                                         *)
(* WaveFile, for any files and directories: where read_wave_file stands    *)
(* among the chunks of its file, what buf holds when there is none left,   *)
(* and what mywavs holds of the files before.                              *)
(***************************************************************************)
EXTENDS Mixer, WaveFile, WellFoundedInduction, FiniteSetTheorems,
        SequenceTheorems, TLAPS

\* c is a place in the data, not behind it.
InData(c) == 0 <= c /\ c < End

MixerTypeOK ==
    /\ g_speed \in Int /\ ws \in Samples /\ do_loop \in BOOLEAN /\ play \in BOOLEAN
    /\ cf \in Int /\ nan \in BOOLEAN /\ left \in Int /\ pc \in {"out", "mix", "crashed"}

\* While a buffer is mixed, the sample stands in its data, if there is any, in the
\* middle of a frame maybe; between two buffers too, unless play_index put it in
\* front of data that is shorter than a frame.
PlaceInv ==
    /\ pc = "mix" => play /\ frame_size > 0
    /\ play /\ ws.data_len # 0 =>
           ~ nan /\ (InData(cf) \/ (pc = "out" /\ ws.data_len < frame_size))
    /\ pc = "crashed" => ws.data_len = 0 \/ frame_size = 0

IInv == MixerTypeOK /\ PlaceInv

-----------------------------------------------------------------------------
(* Arithmetic                                                              *)

\* A quotient grows with its dividend.
LEMMA QuotientGrows ==
    ASSUME NEW a \in Nat, NEW b \in Nat, NEW d \in Nat \ {0}, a <= b
    PROVE  a \div d \in Nat /\ b \div d \in Nat /\ a \div d <= b \div d
  OBVIOUS

\* What a division leaves.
LEMMA DivisionIs ==
    ASSUME NEW a \in Nat, NEW d \in Nat \ {0}
    PROVE  \E q \in Nat, r \in 0 .. (d - 1) : a = q * d + r
  <1> DEFINE q == a \div d
             r == a - q * d
  <1>1. q \in Nat /\ q * d <= a
    OBVIOUS
  <1>2. a < (q + 1) * d
    OBVIOUS
  <1>3. r \in 0 .. (d - 1)
    BY <1>1, <1>2
  <1>4. a = q * d + r
    BY <1>1
  <1>5. QED
    BY <1>1, <1>3, <1>4

\* n and a part of the next.
LEMMA QuotientIs ==
    ASSUME NEW n \in Nat, NEW d \in Nat \ {0}, NEW r \in 0 .. (d - 1)
    PROVE  (n * d + r) \div d = n
  OBVIOUS

\* Dividing takes whole units out of a sum.
LEMMA QuotientOfSum ==
    ASSUME NEW a \in Nat, NEW n \in Nat, NEW d \in Nat \ {0}
    PROVE  (a + n * d) \div d = (a \div d) + n
  <1>1. PICK q \in Nat, r \in 0 .. (d - 1) : a = q * d + r
    BY DivisionIs
  <1>2. a = q * d + r
    BY <1>1
  <1>3. a + n * d = (q + n) * d + r
    BY <1>2
  <1>4. (a + n * d) \div d = q + n
    BY <1>3, QuotientIs
  <1>5. a \div d = q
    BY <1>2, QuotientIs
  <1>6. QED
    BY <1>4, <1>5

\* A place in front of n units is in front of the n-th.
LEMMA QuotientBelow ==
    ASSUME NEW a \in Nat, NEW n \in Nat, NEW d \in Nat \ {0}, a < n * d
    PROVE  a \div d \in Nat /\ a \div d < n
  <1>1. PICK q \in Nat, r \in 0 .. (d - 1) : a = q * d + r
    BY DivisionIs
  <1>2. a = q * d + r
    BY <1>1
  <1>3. a \div d = q
    BY <1>2, QuotientIs
  <1>4. ASSUME n <= q PROVE FALSE
    BY <1>2, <1>4
  <1>5. QED
    BY <1>3, <1>4

\* Units are not lost on the way.
LEMMA ProductGrows ==
    ASSUME NEW a \in Int, NEW b \in Int, NEW d \in Nat \ {0}, a < b
    PROVE  a * d < b * d
  OBVIOUS

\* Dividing what is less than n leaves it as it is.
LEMMA RestIs ==
    ASSUME NEW a \in Nat, NEW n \in Nat, a < n
    PROVE  a % n = a
  OBVIOUS

-----------------------------------------------------------------------------
(* The inductive invariant                                                 *)

\* What a sample is made of.
LEMMA SampleIs ==
    ASSUME NEW w \in Samples
    PROVE  /\ w.bytes \in Nat /\ w.channels \in Nat /\ w.data_len \in Nat
           /\ w.bytes * w.channels \in Nat
           /\ w.data_len * D \in Nat /\ (w.data_len # 0 => w.data_len * D # 0)
           /\ w.bytes * w.channels * D \in Nat
  <1>1. w.bytes \in Nat /\ w.channels \in Nat /\ w.data_len \in Nat
    BY SampleAssumption
  <1>2. D \in Nat \ {0}
    BY SpeedAssumption
  <1>3. w.bytes * w.channels \in Nat
    BY <1>1
  <1>4. w.data_len * D \in Nat /\ (w.data_len # 0 => w.data_len * D # 0)
    BY <1>1, <1>2
  <1>5. w.bytes * w.channels * D \in Nat
    BY <1>2, <1>3
  <1>6. QED
    BY <1>1, <1>3, <1>4, <1>5

\* The sizes of the sample that plays.
LEMMA SizesAre ==
    ASSUME MixerTypeOK
    PROVE  /\ D \in Nat \ {0} /\ frame_size \in Nat /\ Frame \in Nat /\ End \in Nat
           /\ Frame = frame_size * D /\ End = ws.data_len * D
           /\ ws.data_len \in Nat /\ (ws.data_len # 0 => End # 0)
           /\ frame_size > 0 => Frame > 0
  <1>1. D \in Nat \ {0}
    BY SpeedAssumption
  <1>2. /\ frame_size \in Nat /\ Frame \in Nat /\ End \in Nat /\ ws.data_len \in Nat
        /\ ws.data_len # 0 => End # 0
    BY SampleIs DEF MixerTypeOK, frame_size, Frame, End
  <1>3. frame_size > 0 => frame_size * D > 0
    BY <1>1, <1>2
  <1>4. QED
    BY <1>1, <1>2, <1>3 DEF Frame, End

\* check_loop comes back into the data, and what it lets through was there.
LEMMA LoopedInData ==
    ASSUME MixerTypeOK, frame_size > 0, NEW c \in Int
    PROVE  /\ Looped(c) \in Int /\ (ws.data_len # 0 => InData(Looped(c)))
           /\ GoesOn(c) /\ ~ do_loop => InData(c)
  BY SizesAre DEF Looped, GoesOn, Behind, Before, FromBehind, InData, MixerTypeOK

\* fmod changes nothing in the data.
LEMMA FmodStays ==
    ASSUME MixerTypeOK, NEW c \in Int, InData(c)
    PROVE  Fmod(c) = c
  <1>1. End \in Nat /\ c \in Nat /\ c < End
    BY SizesAre DEF InData
  <1>2. c % End = c
    BY <1>1, RestIs
  <1>3. QED
    BY <1>1, <1>2 DEF Fmod

\* play_index starts in the data, if there is a whole frame.
LEMMA StartInData ==
    ASSUME MixerTypeOK, NEW w \in Samples, ws' = w, w.data_len # 0,
           g_speed < 0 /\ w.bytes # 0 => w.channels # 0
    PROVE  /\ StartFrame \in Int
           /\ \/ 0 <= StartFrame /\ StartFrame < w.data_len * D
              \/ w.data_len < w.bytes * w.channels
  <1> DEFINE size == w.bytes * w.channels
             n == w.data_len \div size
  <1>1. /\ w.bytes \in Nat /\ w.channels \in Nat /\ w.data_len \in Nat \ {0}
        /\ size \in Nat /\ w.data_len * D \in Nat \ {0} /\ D \in Nat \ {0}
    BY SampleIs, SpeedAssumption
  <1>2. CASE g_speed < 0 /\ w.bytes # 0
    <2>1. size \in Nat \ {0}
      BY <1>1, <1>2
    <2>2. StartFrame = (n - 1) * size * D
      BY <1>2 DEF StartFrame
    <2> HIDE DEF size
    <2>3. n \in Nat /\ n * size <= w.data_len
      BY <1>1, <2>1
    <2>4. (n - 1) * size \in Int /\ (n - 1) * size < w.data_len
      BY <1>1, <2>1, <2>3
    <2>5. StartFrame \in Int /\ StartFrame < w.data_len * D
      BY <1>1, <2>2, <2>4, ProductGrows
    <2>6. w.data_len >= size => n >= 1
      BY <1>1, <2>1
    <2>7. n >= 1 => (n - 1) * size \in Nat
      BY <2>1, <2>3
    <2>8. n >= 1 => (n - 1) * size * D >= 0
      BY <1>1, <2>7
    <2>9. w.data_len \in Nat /\ size \in Nat
      BY <1>1, <2>1
    <2>10. QED
      BY <2>2, <2>5, <2>6, <2>8, <2>9 DEF size
  <1>3. CASE ~ (g_speed < 0 /\ w.bytes # 0)
    <2>1. StartFrame = 0
      BY <1>3 DEF StartFrame
    <2>2. QED
      BY <1>1, <2>1
  <1>4. QED
    BY <1>2, <1>3

\* Where it starts is a place, also without data.
LEMMA StartIsInt ==
    ASSUME MixerTypeOK, NEW w \in Samples, ws' = w,
           g_speed < 0 /\ w.bytes # 0 => w.channels # 0
    PROVE  StartFrame \in Int
  <1> DEFINE size == w.bytes * w.channels
             n == w.data_len \div size
  <1>1. w.bytes \in Nat /\ w.channels \in Nat /\ w.data_len \in Nat /\ D \in Nat
    BY SampleIs, SpeedAssumption
  <1>2. CASE g_speed < 0 /\ w.bytes # 0
    <2>1. size \in Nat \ {0}
      BY <1>1, <1>2
    <2>2. StartFrame = (n - 1) * size * D
      BY <1>2 DEF StartFrame
    <2> HIDE DEF size
    <2>3. n \in Int
      BY <1>1, <2>1
    <2>4. QED
      BY <1>1, <2>1, <2>2, <2>3
  <1>3. CASE ~ (g_speed < 0 /\ w.bytes # 0)
    BY <1>3 DEF StartFrame
  <1>4. QED
    BY <1>2, <1>3

\* Before the first sample, nothing plays.
LEMMA Starts == Init => IInv
  <1> SUFFICES ASSUME Init PROVE IInv
    OBVIOUS
  <1>1. g_speed \in Int /\ cf \in Int /\ left \in Int
    BY SpeedAssumption DEF Init
  <1>2. MixerTypeOK
    BY <1>1 DEF Init, MixerTypeOK
  <1>3. pc = "out" /\ play = FALSE
    BY DEF Init
  <1>4. QED
    BY <1>2, <1>3 DEF IInv, PlaceInv

\* A sample plays from a place in its data.
LEMMA Inductive == IInv /\ [Next]_vars => IInv'
  <1> SUFFICES ASSUME IInv, [Next]_vars PROVE IInv'
    OBVIOUS
  <1>1. MixerTypeOK /\ PlaceInv
    BY DEF IInv
  <1>2. ASSUME NEW s \in Speeds, ModSpeed(s) PROVE IInv'
    <2>1. s \in Int
      BY SpeedAssumption
    <2>2. QED
      BY <1>1, <1>2, <2>1 DEF ModSpeed, sample, frame, mixer, IInv, MixerTypeOK, PlaceInv,
                              InData, End, frame_size
  <1>3. ASSUME NEW w \in Samples, NEW loop \in BOOLEAN, PlayIndex(w, loop) PROVE IInv'
    <2>1. ws' = w /\ do_loop' = loop /\ g_speed' = g_speed /\ pc = "out" /\ ~ play
      BY <1>3 DEF PlayIndex
    <2>2. CASE g_speed < 0 /\ w.bytes # 0 /\ w.channels = 0
      <3>1. pc' = "crashed" /\ play' = play /\ cf' = cf /\ nan' = nan /\ left' = left
        BY <1>3, <2>2 DEF PlayIndex, frame
      <3>2. w.bytes * w.channels = 0
        BY <2>2, SampleIs
      <3>3. QED
        BY <1>1, <2>1, <3>1, <3>2 DEF IInv, MixerTypeOK, PlaceInv, frame_size
    <2>3. CASE ~ (g_speed < 0 /\ w.bytes # 0 /\ w.channels = 0)
      <3>1. play' = TRUE /\ cf' = StartFrame /\ nan' = FALSE /\ pc' = pc /\ left' = left
        BY <1>3, <2>3 DEF PlayIndex, mixer
      <3>2. StartFrame \in Int
        BY <1>1, <2>1, <2>3, StartIsInt
      <3>3. w.data_len # 0 => \/ 0 <= StartFrame /\ StartFrame < w.data_len * D
                              \/ w.data_len < w.bytes * w.channels
        BY <1>1, <2>1, <2>3, StartInData
      <3>4. MixerTypeOK'
        BY <1>1, <2>1, <3>1, <3>2 DEF MixerTypeOK
      <3>5. PlaceInv'
        BY <2>1, <3>1, <3>3 DEF PlaceInv, InData, End, frame_size
      <3>6. QED
        BY <3>4, <3>5 DEF IInv
    <2>4. QED
      BY <2>2, <2>3
  <1>4. CASE ClearAll
    BY <1>1, <1>4 DEF ClearAll, frame, mixer, IInv, MixerTypeOK, PlaceInv, frame_size
  <1>5. CASE BeginMix
    <2>1. /\ play /\ pc = "out" /\ frame_size > 0
          /\ cf' = (IF do_loop THEN Looped(cf) ELSE cf) /\ play' = GoesOn(cf)
          /\ g_speed' = g_speed /\ ws' = ws /\ do_loop' = do_loop /\ nan' = nan
          /\ play' => pc' = "mix" /\ left' = BufFrames
          /\ ~ play' => pc' = pc /\ left' = left
      BY <1>5 DEF BeginMix, mixer
    <2>2. /\ cf \in Int /\ Looped(cf) \in Int /\ (ws.data_len # 0 => InData(Looped(cf)))
          /\ GoesOn(cf) /\ ~ do_loop => InData(cf)
      BY <1>1, <2>1, LoopedInData DEF MixerTypeOK
    <2>3. GoesOn(cf) \in BOOLEAN
      BY <1>1 DEF GoesOn, MixerTypeOK, Behind, Before
    <2>4. MixerTypeOK'
      BY <1>1, <2>1, <2>2, <2>3, BufAssumption DEF MixerTypeOK
    <2>5. play' /\ ws.data_len # 0 => InData(cf') /\ ~ nan
      BY <1>1, <2>1, <2>2 DEF PlaceInv
    <2>6. PlaceInv'
      BY <2>1, <2>5 DEF PlaceInv, InData, End, frame_size
    <2>7. QED
      BY <2>4, <2>6 DEF IInv
  <1>6. CASE MixFrame
    <2> DEFINE c == cf + g_speed * frame_size
    <2>1. /\ pc = "mix" /\ play' = GoesOn(c) /\ nan' = (play' /\ End = 0)
          /\ cf' = (IF ~ play' \/ nan' THEN c ELSE Fmod(IF do_loop THEN Looped(c) ELSE c))
          /\ left' = left - 1 /\ pc' = (IF play' /\ left' > 0 THEN "mix" ELSE "out")
          /\ g_speed' = g_speed /\ ws' = ws /\ do_loop' = do_loop
      BY <1>6 DEF MixFrame
    <2>2. frame_size > 0 /\ frame_size \in Nat /\ c \in Int
      BY <1>1, <2>1, SizesAre DEF PlaceInv, MixerTypeOK
    <2> HIDE DEF c
    <2>3. /\ Looped(c) \in Int /\ (ws.data_len # 0 => InData(Looped(c)))
          /\ GoesOn(c) /\ ~ do_loop => InData(c)
      BY <1>1, <2>2, LoopedInData
    <2>4. End \in Nat /\ (ws.data_len # 0 <=> End # 0)
      BY <1>1, SizesAre
    <2>5. play' /\ ws.data_len # 0 => InData(cf') /\ cf' \in Int /\ ~ nan'
      BY <1>1, <2>1, <2>2, <2>3, <2>4, FmodStays
    <2>6. cf' \in Int
      BY <2>1, <2>2, <2>4, <2>5
    <2>7. GoesOn(c) \in BOOLEAN
      BY <1>1 DEF GoesOn, MixerTypeOK, Behind, Before
    <2>8. MixerTypeOK'
      BY <1>1, <2>1, <2>2, <2>6, <2>7 DEF MixerTypeOK
    <2>9. PlaceInv'
      BY <2>1, <2>2, <2>5 DEF PlaceInv, InData, End, frame_size
    <2>10. QED
      BY <2>8, <2>9 DEF IInv
  <1>7. CASE MixNowhere
    <2>1. ws.data_len = 0
      BY <1>1, <1>7 DEF MixNowhere, PlaceInv
    <2>2. QED
      BY <1>1, <1>7, <2>1 DEF MixNowhere, sample, frame, IInv, MixerTypeOK, PlaceInv
  <1>8. CASE Crashed \/ UNCHANGED vars
    BY <1>1, <1>8 DEF Crashed, vars, sample, frame, mixer, IInv, MixerTypeOK, PlaceInv,
                      InData, End, frame_size
  <1>9. QED
    BY <1>2, <1>3, <1>4, <1>5, <1>6, <1>7, <1>8 DEF Next

\* The sample is at a place of its data in every state.
LEMMA Invariance == Spec => []IInv
  BY Starts, Inductive, PTL DEF Spec

-----------------------------------------------------------------------------
(* The frames that are read                                                *)

\* The beginning of the frame that byte p is in, for frames of n bytes.
Begin(p, n) == p - (p % n)

\* The last frame of whole frames, and the first.
LEMMA FrameInside ==
    ASSUME NEW n \in {2, 4}, NEW p \in Nat, NEW len \in Nat, len % n = 0, p < len
    PROVE  /\ Begin(p, n) \in Nat /\ Begin(p, n) + n <= len
           /\ len - n <= p => Begin(p, n) = len - n
           /\ p < n => Begin(p, n) = 0
  <1>1. CASE n = 2
    BY <1>1 DEF Begin
  <1>2. CASE n = 4
    BY <1>2 DEF Begin
  <1>3. QED
    BY <1>1, <1>2

\* By at most a frame, one goes to a neighbour at most.
LEMMA FrameNear ==
    ASSUME NEW n \in {2, 4}, NEW p \in Nat, NEW q \in Nat, p <= q + n, q <= p + n
    PROVE  Begin(q, n) - Begin(p, n) \in {-n, 0, n}
  <1>1. CASE n = 2
    BY <1>1 DEF Begin
  <1>2. CASE n = 4
    BY <1>2 DEF Begin
  <1>3. QED
    BY <1>1, <1>2

\* What is well formed has frames of 2 or 4 bytes, and one at least.
LEMMA WellFormedIs ==
    ASSUME MixerTypeOK, WellFormed
    PROVE  /\ frame_size \in {2, 4} /\ Width = frame_size
           /\ ws.data_len % frame_size = 0 /\ frame_size <= ws.data_len
  <1>1. frame_size \in {2, 4} /\ Width = frame_size
    BY DEF WellFormed, frame_size, Width
  <1>2. ws.data_len \in Nat \ {0} /\ ws.data_len % frame_size = 0
    BY SizesAre DEF WellFormed
  <1>3. ASSUME ws.data_len < frame_size PROVE FALSE
    <2>1. CASE frame_size = 2
      BY <1>2, <1>3, <2>1
    <2>2. CASE frame_size = 4
      BY <1>2, <1>3, <2>2
    <2>3. QED
      BY <1>1, <2>1, <2>2
  <1>4. QED
    BY <1>1, <1>2, <1>3

\* The byte of a place in the data.
LEMMA ByteInside ==
    ASSUME MixerTypeOK, NEW c \in Int, InData(c)
    PROVE  c \in Nat /\ c \div D \in Nat /\ c \div D < ws.data_len
  <1>1. c \in Nat /\ D \in Nat \ {0} /\ ws.data_len \in Nat /\ c < ws.data_len * D
    BY SizesAre DEF InData
  <1>2. QED
    BY <1>1, QuotientBelow

\* A place in the data, in the units of the speed, and the frame it is in.
LEMMA PosIs == Pos = Begin(PosUnaligned, frame_size)
  BY DEF Pos, PosUnaligned, Begin

\* While a well-formed sample is mixed, it is in its data.
LEMMA MixedInData ==
    ASSUME IInv, pc = "mix", WellFormed
    PROVE  /\ MixerTypeOK /\ InData(cf) /\ ~ nan /\ cf \in Int
           /\ frame_size > 0 /\ ws.data_len # 0 /\ End # 0
  <1>1. MixerTypeOK /\ PlaceInv /\ ws.data_len # 0
    BY DEF IInv, WellFormed
  <1>2. play /\ frame_size > 0 /\ InData(cf) /\ ~ nan
    BY <1>1 DEF PlaceInv
  <1>3. QED
    BY <1>1, <1>2, SizesAre DEF MixerTypeOK

\* So it stands when the next buffer is asked for.
LEMMA BegunInData ==
    ASSUME IInv, BeginMix, WellFormed
    PROVE  /\ MixerTypeOK /\ InData(cf) /\ cf \in Int
           /\ ws' = ws /\ cf' = cf
  <1>1. MixerTypeOK /\ PlaceInv /\ ws.data_len # 0 /\ play /\ cf \in Int
    BY DEF IInv, WellFormed, BeginMix, MixerTypeOK
  <1>2. frame_size <= ws.data_len /\ frame_size \in Nat /\ ws.data_len \in Nat
    BY <1>1, WellFormedIs, SizesAre
  <1>3. InData(cf)
    BY <1>1, <1>2 DEF PlaceInv
  <1>4. Looped(cf) = cf
    BY <1>1, <1>3, SizesAre DEF InData, Looped, Behind, Before
  <1>5. QED
    BY <1>1, <1>3, <1>4 DEF BeginMix

\* Each frame that mix_sample reads lies inside the data of its file, whatever
\* mod_speed does meanwhile, if the file has 16 bit samples and whole frames, at
\* least one; and neither play_index nor fmod divides by 0.
THEOREM FramesInside == Spec => []ReadsInside
  <1>1. IInv => ReadsInside
    <2>1. ASSUME IInv, WellFormed PROVE pc # "crashed"
      <3>1. frame_size > 0 /\ ws.data_len # 0
        BY <2>1, WellFormedIs DEF IInv, WellFormed
      <3>2. QED
        BY <2>1, <3>1 DEF IInv, PlaceInv
    <2> SUFFICES ASSUME IInv, pc = "mix", WellFormed
                 PROVE  ~ nan /\ Pos + Width <= ws.data_len
      BY <2>1 DEF ReadsInside
    <2>2. MixerTypeOK /\ InData(cf) /\ cf \in Int /\ ~ nan
      BY MixedInData
    <2>3. PosUnaligned \in Nat /\ PosUnaligned < ws.data_len
      BY <2>2, ByteInside DEF PosUnaligned
    <2>4. /\ frame_size \in {2, 4} /\ Width = frame_size /\ ws.data_len % frame_size = 0
          /\ ws.data_len \in Nat
      BY <2>2, WellFormedIs, SizesAre
    <2>5. Begin(PosUnaligned, frame_size) + frame_size <= ws.data_len
      BY <2>3, <2>4, FrameInside
    <2>6. QED
      BY <2>2, <2>4, <2>5, PosIs
  <1>2. QED
    BY <1>1, Invariance, PTL

\* From a place in the data by at most a frame: the byte moves by at most that.
LEMMA ByteNear ==
    ASSUME NEW a \in Nat, NEW b \in Nat, NEW n \in Nat, NEW d \in Nat \ {0}, b <= a + n * d
    PROVE  b \div d <= (a \div d) + n
  <1>1. a + n * d \in Nat
    OBVIOUS
  <1>2. b \div d <= (a + n * d) \div d
    BY <1>1, QuotientGrows
  <1>3. QED
    BY <1>2, QuotientOfSum

\* At most at normal speed, a frame moves the place by at most a frame.
LEMMA StepIsSmall ==
    ASSUME NEW g \in Int, NEW n \in Nat, NEW d \in Nat \ {0}, g \in -d .. d
    PROVE  g * n \in Int /\ g * n <= n * d /\ -(n * d) <= g * n
  OBVIOUS

\* Where the last frame of whole frames begins, it is the one before a loop
\* starts again.
LEMMA LastFrame ==
    ASSUME MixerTypeOK, WellFormed, NEW c \in Nat, c < End, End <= c + Frame
    PROVE  Begin(c \div D, frame_size) = ws.data_len - frame_size
  <1>1. /\ frame_size \in {2, 4} /\ ws.data_len % frame_size = 0
        /\ frame_size <= ws.data_len /\ ws.data_len \in Nat
    BY WellFormedIs, SizesAre
  <1>2. c \div D \in Nat /\ c \div D < ws.data_len
    BY ByteInside, SizesAre DEF InData
  <1>3. D \in Nat \ {0} /\ frame_size \in Nat /\ ws.data_len * D <= c + frame_size * D
    BY SizesAre
  <1>4. (ws.data_len * D) \div D = ws.data_len
    BY <1>1, <1>3, QuotientIs
  <1>5. ws.data_len * D \in Nat
    BY <1>1, <1>3
  <1>6. ws.data_len <= (c \div D) + frame_size
    BY <1>3, <1>4, <1>5, ByteNear
  <1>7. QED
    BY <1>1, <1>2, <1>6, FrameInside

\* The first frame: everything less than a frame from the beginning.
LEMMA FirstFrame ==
    ASSUME MixerTypeOK, WellFormed, NEW c \in Nat, c < Frame
    PROVE  Begin(c \div D, frame_size) = 0
  <1>1. D \in Nat \ {0} /\ frame_size \in Nat /\ c < frame_size * D
    BY SizesAre
  <1>2. c \div D \in Nat /\ c \div D < frame_size
    BY <1>1, QuotientBelow
  <1>3. /\ frame_size \in {2, 4} /\ ws.data_len % frame_size = 0
        /\ frame_size <= ws.data_len /\ ws.data_len \in Nat
    BY WellFormedIs, SizesAre
  <1>4. QED
    BY <1>2, <1>3, FrameInside

\* A turn of the loop of mix_sample goes to a neighbour of the frame it has read.
LEMMA TurnIsNear ==
    ASSUME IInv, MixFrame, play', WellFormed, g_speed \in -D .. D
    PROVE  Neighbours(Pos, Pos', frame_size)
  <1> DEFINE c == cf + g_speed * frame_size
             p == Begin(cf \div D, frame_size)
             q == Begin(cf' \div D, frame_size)
  <1>0. /\ MixerTypeOK /\ InData(cf) /\ frame_size > 0 /\ cf \in Nat /\ cf < End
        /\ ws.data_len # 0 /\ End # 0
    BY MixedInData DEF MixFrame, InData
  <1>1. /\ GoesOn(c) /\ cf' = Fmod(IF do_loop THEN Looped(c) ELSE c)
        /\ ws' = ws /\ pc = "mix"
    BY <1>0 DEF MixFrame
  <1>2. /\ MixerTypeOK /\ InData(cf) /\ frame_size > 0 /\ cf \in Nat /\ cf < End
    BY <1>0
  <1>3. /\ D \in Nat \ {0} /\ frame_size \in Nat /\ Frame \in Nat /\ End \in Nat \ {0}
        /\ Frame = frame_size * D /\ End = ws.data_len * D /\ ws.data_len \in Nat
        /\ frame_size \in {2, 4} /\ frame_size <= ws.data_len
    BY <1>2, SizesAre, WellFormedIs
  <1>4. /\ c \in Int /\ c <= cf + Frame /\ cf <= c + Frame
    BY <1>2, <1>3, StepIsSmall DEF MixerTypeOK
  <1>5. Pos = p /\ Pos' = q
    BY <1>1 DEF Pos, Begin, frame_size
  <1>6. /\ Looped(c) \in Int /\ InData(Looped(c)) /\ (~ do_loop => InData(c))
    BY <1>0, <1>1, <1>2, <1>4, LoopedInData
  <1>7. cf' = IF do_loop THEN Looped(c) ELSE c
    BY <1>1, <1>2, <1>4, <1>6, FmodStays
  <1> HIDE DEF c
  <1>8. CASE InData(c)
    <2>1. cf' = c /\ c \in Nat /\ c < End
      BY <1>4, <1>7, <1>8, <1>3 DEF Looped, InData, Behind, Before
    <2>2. cf' \div D <= (cf \div D) + frame_size /\ cf \div D <= (cf' \div D) + frame_size
      BY <1>2, <1>3, <1>4, <2>1, ByteNear
    <2>3. cf \div D \in Nat /\ cf' \div D \in Nat
      BY <1>2, <1>4, <1>8, <2>1, ByteInside
    <2>4. q - p \in {-frame_size, 0, frame_size}
      BY <1>3, <2>2, <2>3, FrameNear
    <2>5. QED
      BY <1>5, <2>4 DEF Neighbours
  <1>9. CASE c >= End
    <2>1. do_loop /\ cf' = 0
      BY <1>3, <1>4, <1>6, <1>7, <1>9 DEF Looped, Behind, InData
    <2>2. p = ws.data_len - frame_size
      BY <1>2, <1>3, <1>4, <1>9, LastFrame
    <2>3. 0 < Frame
      BY <1>2, SizesAre
    <2>4. q = 0
      BY <1>2, <2>1, <2>3, FirstFrame
    <2>5. QED
      BY <1>5, <2>1, <2>2, <2>4 DEF Neighbours
  <1>10. CASE c < 0
    <2>1. Frame <= End
      <3>1. frame_size * D <= ws.data_len * D
        BY <1>3
      <3>2. QED
        BY <1>3, <3>1
    <2>2. do_loop /\ cf' = End - Frame
      BY <1>3, <1>4, <1>6, <1>7, <1>10, <2>1 DEF Looped, Behind, Before, FromBehind, InData
    <2>3. p = 0
      <3>1. cf < Frame
        BY <1>2, <1>3, <1>4, <1>10
      <3>2. QED
        BY <1>2, <3>1, FirstFrame
    <2>4. q = ws.data_len - frame_size
      <3>1. cf' \in Nat /\ cf' < End /\ End <= cf' + Frame
        BY <1>2, <1>3, <2>1, <2>2, SizesAre
      <3>2. QED
        BY <1>2, <3>1, LastFrame
    <2>5. QED
      BY <1>5, <2>2, <2>3, <2>4 DEF Neighbours
  <1>11. QED
    BY <1>3, <1>4, <1>8, <1>9, <1>10 DEF InData

\* No faster than at normal speed, mix_sample leaves no frame out: not where a
\* loop starts again, forwards or backwards, nor where a buffer ends.
THEOREM NoneSkipped == Spec => NoFrameSkipped
  <1> DEFINE A == (pc = "mix" \/ BeginMix) /\ play' /\ WellFormed
                      /\ g_speed \in -D .. D => Neighbours(Pos, Pos', frame_size)
  <1>1. ASSUME IInv, [Next]_vars, pc = "mix" \/ BeginMix, play', WellFormed,
               g_speed \in -D .. D
        PROVE  Neighbours(Pos, Pos', frame_size)
    <2>1. CASE MixFrame
      BY <1>1, <2>1, TurnIsNear
    <2>2. CASE UNCHANGED <<ws, cf>>
      <3>1. Pos' = Pos
        BY <2>2 DEF Pos, frame_size
      <3>2. Pos \in Int
        <4>1. MixerTypeOK /\ InData(cf)
          BY <1>1, MixedInData, BegunInData
        <4>2. cf \in Int /\ PosUnaligned \in Nat /\ frame_size \in {2, 4}
          BY <1>1, <4>1, ByteInside, WellFormedIs DEF MixerTypeOK, PosUnaligned
        <4>3. Begin(PosUnaligned, frame_size) \in Int
          BY <4>2 DEF Begin
        <4>4. QED
          BY <4>3, PosIs
      <3>3. QED
        BY <3>1, <3>2 DEF Neighbours
    <2>3. MixFrame \/ UNCHANGED <<ws, cf>>
      <3>1. CASE pc = "mix"
        BY <1>1, <3>1 DEF Next, ModSpeed, PlayIndex, ClearAll, BeginMix, MixNowhere,
                          Crashed, vars, sample, frame
      <3>2. CASE BeginMix
        BY <1>1, <3>2, BegunInData
      <3>3. QED
        BY <1>1, <3>1, <3>2
    <2>4. QED
      BY <2>1, <2>2, <2>3
  <1>2. IInv /\ [Next]_vars => A
    BY <1>1
  <1>3. QED
    BY <1>2, Invariance, PTL DEF Spec, NoFrameSkipped

\* Every sample that play_index adds is heard, if its file has a whole frame,
\* also when mod_speed has turned the speed round since.
THEOREM SampleIsHeard == Spec => IsHeard
  <1> DEFINE A == BeginMix /\ ~ play' => ws.data_len < frame_size
  <1>1. ASSUME IInv, BeginMix, ~ play' PROVE ws.data_len < frame_size
    <2>1. play /\ ~ GoesOn(cf) /\ frame_size > 0
      BY <1>1 DEF BeginMix
    <2>2. MixerTypeOK /\ cf \in Int
      BY <1>1 DEF IInv, MixerTypeOK
    <2>3. ~ InData(cf)
      BY <2>1, <2>2, SizesAre DEF GoesOn, Behind, Before, InData
    <2>4. QED
      BY <1>1, <2>1, <2>3 DEF IInv, PlaceInv
  <1>2. IInv /\ [Next]_vars => A
    BY <1>1
  <1>3. QED
    BY <1>2, Invariance, PTL DEF Spec, IsHeard

\* A turn of a sample that is not a loop takes it g_speed frames on, inside its data,
\* and nothing turns it back: neither check_loop nor fmod touch it.  So what is left
\* to EndsIfMoving is that the speed keeps a direction and mix_sample goes on.
FrameGoesOn == MixFrame /\ play' /\ ~ do_loop =>
                   cf' = cf + g_speed * frame_size /\ InData(cf')

\* So mix_sample leads a sample that plays once through its data without a way back.
THEOREM FramesAdvance == Spec => [][FrameGoesOn]_vars
  <1>1. ASSUME IInv, MixFrame, play', ~ do_loop
        PROVE  cf' = cf + g_speed * frame_size /\ InData(cf')
    <2> DEFINE c == cf + g_speed * frame_size
    <2>1. MixerTypeOK /\ frame_size > 0
      BY <1>1 DEF IInv, PlaceInv, MixFrame
    <2>2. c \in Int
      BY <2>1, SizesAre DEF MixerTypeOK
    <2>3. /\ GoesOn(c) /\ nan' = (play' /\ End = 0)
          /\ cf' = (IF ~ play' \/ nan' THEN c
                    ELSE Fmod(IF do_loop THEN Looped(c) ELSE c))
          /\ ws' = ws
      BY <1>1 DEF MixFrame
    <2> HIDE DEF c
    <2>4. InData(c)
      BY <1>1, <2>1, <2>2, <2>3, LoopedInData
    <2>5. Fmod(c) = c
      BY <2>1, <2>2, <2>4, FmodStays
    <2>6. cf' = c
      BY <1>1, <2>3, <2>5
    <2>7. InData(cf')
      BY <2>3, <2>4, <2>6 DEF InData
    <2>8. QED
      BY <2>6, <2>7 DEF c
  <1>2. IInv /\ [Next]_vars => [FrameGoesOn]_vars
    BY <1>1 DEF FrameGoesOn
  <1>3. QED
    BY <1>2, Invariance, PTL DEF Spec

-----------------------------------------------------------------------------
(* WaveFile: the chunks of a file                                          *)

\* The body of ChunksFrom.
ChunkAt(w, from, p) ==
    IF p + 2 > Len(w) THEN {}
    ELSE IF w[p + 2] < 0 \/ p + 2 + w[p + 2] > Len(w) THEN {p}
    ELSE {p} \union from[p + 2 + w[p + 2]]

\* Some number of a set is the least: what takes the place of an induction.
LEMMA LeastNatural ==
    ASSUME NEW S \in SUBSET Nat, S # {}
    PROVE  \E s \in S : \A t \in S : s <= t
  <1> DEFINE R == OpToRel(<, Nat)
  <1>1. PICK x \in S : \A y \in S : ~ (<<y, x>> \in R)
    BY NatLessThanWellFounded, WFMin
  <1>2. \A a, b \in Nat : a < b => <<a, b>> \in R
    BY DEF OpToRel
  <1> HIDE DEF R
  <1>3. ASSUME NEW t \in S PROVE x <= t
    <2>1. t \in Nat /\ x \in Nat
      OBVIOUS
    <2>2. ~ (t < x)
      BY <1>1, <1>2, <2>1, Zenon
    <2>3. QED
      BY <2>1, <2>2
  <1>4. QED
    BY <1>3

\* The value at p takes only what is behind p.
LEMMA ChunkAtAgrees ==
    ASSUME NEW w \in Seq(Int), NEW p \in 0 .. Len(w), NEW f, NEW g,
           \A q \in 0 .. Len(w) : p < q => f[q] = g[q]
    PROVE  ChunkAt(w, f, p) = ChunkAt(w, g, p)
  <1>1. CASE p + 2 > Len(w)
    BY <1>1 DEF ChunkAt
  <1>2. CASE p + 2 <= Len(w) /\ (w[p + 2] < 0 \/ p + 2 + w[p + 2] > Len(w))
    BY <1>2 DEF ChunkAt
  <1>3. CASE p + 2 <= Len(w) /\ ~ (w[p + 2] < 0 \/ p + 2 + w[p + 2] > Len(w))
    <2>1. w[p + 2] \in Int
      BY <1>3
    <2>2. p + 2 + w[p + 2] \in 0 .. Len(w) /\ p < p + 2 + w[p + 2]
      BY <1>3, <2>1
    <2>3. f[p + 2 + w[p + 2]] = g[p + 2 + w[p + 2]]
      BY <2>2
    <2>4. QED
      BY <1>3, <2>3 DEF ChunkAt
  <1>4. QED
    BY <1>1, <1>2, <1>3

\* There is a function as ChunksFrom defines it: its value at a place takes only
\* those behind it, so it can be put together from the end.
LEMMA ChunksExist ==
    ASSUME NEW w \in Seq(Int)
    PROVE  \E f : f = [p \in 0 .. Len(w) |-> ChunkAt(w, f, p)]
  <1> DEFINE L == Len(w)
             P(n) == \E f : \A p \in 0 .. L : L < p + n => f[p] = ChunkAt(w, f, p)
             Missing == {n \in 0 .. L + 1 : ~ P(n)}
  <1>1. L \in Nat
    OBVIOUS
  <1>2. P(0)
    BY <1>1
  <1>3. ASSUME NEW n \in 0 .. L, P(n) PROVE P(n + 1)
    <2>1. PICK f : \A p \in 0 .. L : L < p + n => f[p] = ChunkAt(w, f, p)
      BY <1>3
    <2> DEFINE g == [p \in 0 .. L |-> IF p = L - n THEN ChunkAt(w, f, p) ELSE f[p]]
    <2>2. ASSUME NEW p \in 0 .. L, L < p + (n + 1) PROVE g[p] = ChunkAt(w, g, p)
      <3>1. \A q \in 0 .. Len(w) : p < q => f[q] = g[q]
        BY <1>1, <2>2
      <3>2. ChunkAt(w, f, p) = ChunkAt(w, g, p)
        BY <3>1, ChunkAtAgrees
      <3>3. CASE p = L - n
        BY <3>2, <3>3
      <3>4. CASE p # L - n
        <4>1. L < p + n
          BY <1>1, <2>2, <3>4
        <4>2. g[p] = f[p]
          BY <3>4
        <4>3. QED
          BY <2>1, <3>2, <4>1, <4>2
      <3>5. QED
        BY <3>3, <3>4
    <2>3. QED
      BY <2>2
  <1> HIDE DEF P
  <1>4. P(L + 1)
    <2> SUFFICES ASSUME ~ P(L + 1) PROVE FALSE
      OBVIOUS
    <2>1. Missing \in SUBSET Nat /\ L + 1 \in Missing
      BY <1>1
    <2>2. PICK n \in Missing : \A t \in Missing : n <= t
      BY <2>1, LeastNatural
    <2>3. n # 0 /\ n \in 0 .. L + 1
      BY <1>2, <2>2
    <2>4. n - 1 \in 0 .. L /\ n - 1 \notin Missing
      BY <1>1, <2>2, <2>3
    <2>5. P(n - 1)
      BY <1>1, <2>4
    <2>6. P(n)
      BY <1>1, <1>3, <2>3, <2>4, <2>5
    <2>7. QED
      BY <2>2, <2>6
  <1>5. PICK f : \A p \in 0 .. L : L < p + (L + 1) => f[p] = ChunkAt(w, f, p)
    BY <1>4 DEF P
  <1> DEFINE F == [p \in 0 .. L |-> f[p]]
  <1>6. ASSUME NEW p \in 0 .. L PROVE ChunkAt(w, f, p) = ChunkAt(w, F, p) /\ F[p] = f[p]
    BY ChunkAtAgrees
  <1>7. F = [p \in 0 .. L |-> ChunkAt(w, F, p)]
    BY <1>1, <1>5, <1>6
  <1>8. QED
    BY <1>7

\* So ChunksFrom has the values its definition says.
LEMMA Unfold ==
    ASSUME NEW w \in Seq(Int)
    PROVE  \A p \in 0 .. Len(w) : ChunksFrom(w)[p] = ChunkAt(w, ChunksFrom(w), p)
  <1>1. ChunksFrom(w) = CHOOSE f : f = [p \in 0 .. Len(w) |-> ChunkAt(w, f, p)]
    BY DEF ChunksFrom, ChunkAt
  <1>2. ChunksFrom(w) = [p \in 0 .. Len(w) |-> ChunkAt(w, ChunksFrom(w), p)]
    BY <1>1, ChunksExist
  <1>3. QED
    BY <1>2

\* Where the chunk behind the one at p starts, if it fits.
NextAt(w, p) == p + 2 + w[p + 2]
Fits(w, p) == w[p + 2] >= 0 /\ NextAt(w, p) <= Len(w)

\* What is known of the chunks from p on: they lie behind p, follow one another
\* and leave nothing out.
ChainFrom(w, p) ==
    LET S == ChunksFrom(w)[p]
    IN  /\ \A q \in S : q \in p .. (Len(w) - 2)
        /\ p + 2 <= Len(w) => p \in S
        /\ \A q \in S : Fits(w, q) /\ NextAt(w, q) + 2 <= Len(w) => NextAt(w, q) \in S
        /\ \A q, r \in S : q < r => Fits(w, q) /\ NextAt(w, q) <= r

\* A chunk goes before what is behind it.
LEMMA ChainStep ==
    ASSUME NEW w \in Seq(Int), NEW p \in 0 .. Len(w),
           \A q \in 0 .. Len(w) : p < q => ChainFrom(w, q)
    PROVE  ChainFrom(w, p)
  <1> DEFINE S == ChunksFrom(w)[p]
             n == NextAt(w, p)
             T == ChunksFrom(w)[n]
  <1>1. Len(w) \in Nat /\ p \in Nat
    OBVIOUS
  <1>2. CASE p + 2 > Len(w)
    <2>1. S = {}
      BY <1>2, Unfold DEF ChunkAt
    <2>2. QED
      BY <1>1, <1>2, <2>1 DEF ChainFrom
  <1>3. CASE p + 2 <= Len(w) /\ ~ Fits(w, p)
    <2>1. S = {p}
      <3>1. w[p + 2] \in Int
        BY <1>1, <1>3
      <3>2. w[p + 2] < 0 \/ p + 2 + w[p + 2] > Len(w)
        BY <1>1, <1>3, <3>1 DEF Fits, NextAt
      <3>3. ChunkAt(w, ChunksFrom(w), p) = {p}
        BY <1>1, <1>3, <3>2 DEF ChunkAt
      <3>4. QED
        BY <3>3, Unfold
    <2>2. QED
      BY <1>1, <1>3, <2>1 DEF ChainFrom
  <1>4. CASE p + 2 <= Len(w) /\ Fits(w, p)
    <2>1. w[p + 2] \in Int /\ w[p + 2] >= 0
      BY <1>1, <1>4 DEF Fits
    <2>2. n \in 0 .. Len(w) /\ p < n /\ n = p + 2 + w[p + 2]
      BY <1>1, <1>4, <2>1 DEF Fits, NextAt
    <2>3. S = {p} \union T
      <3>1. ~ (w[p + 2] < 0 \/ p + 2 + w[p + 2] > Len(w))
        BY <1>1, <2>1, <2>2
      <3>2. ChunkAt(w, ChunksFrom(w), p) = {p} \union ChunksFrom(w)[p + 2 + w[p + 2]]
        BY <1>1, <1>4, <3>1 DEF ChunkAt
      <3>3. QED
        BY <3>2, <2>2, Unfold
    <2>4. ChainFrom(w, n)
      BY <2>2
    <2> HIDE DEF S, T, n
    <2>5. /\ \A q \in T : q \in n .. (Len(w) - 2)
          /\ n + 2 <= Len(w) => n \in T
          /\ \A q \in T : Fits(w, q) /\ NextAt(w, q) + 2 <= Len(w) => NextAt(w, q) \in T
          /\ \A q, r \in T : q < r => Fits(w, q) /\ NextAt(w, q) <= r
      BY <2>4 DEF ChainFrom, T
    <2>6. \A q \in S : q \in p .. (Len(w) - 2)
      BY <1>1, <1>4, <2>2, <2>3, <2>5
    <2>7. p \in S
      BY <2>3
    <2>8. \A q \in S : Fits(w, q) /\ NextAt(w, q) + 2 <= Len(w) => NextAt(w, q) \in S
      <3>1. NextAt(w, p) = n
        BY DEF n
      <3>2. QED
        BY <2>3, <2>5, <3>1
    <2>9. ASSUME NEW q \in S, NEW r \in S, q < r
          PROVE  Fits(w, q) /\ NextAt(w, q) <= r
      <3>1. r \in T
        BY <1>1, <2>2, <2>3, <2>5, <2>9
      <3>2. CASE q = p
        <4>1. n <= r
          BY <1>1, <2>2, <2>5, <3>1
        <4>2. QED
          BY <1>4, <3>2, <4>1 DEF n
      <3>3. CASE q \in T
        BY <2>5, <2>9, <3>1, <3>3
      <3>4. QED
        BY <2>3, <3>2, <3>3
    <2>10. QED
      BY <2>6, <2>7, <2>8, <2>9 DEF ChainFrom, S
  <1>5. QED
    BY <1>1, <1>2, <1>3, <1>4

\* So what ChainFrom says is true from every place.
LEMMA Chain ==
    ASSUME NEW w \in Seq(Int), NEW p \in 0 .. Len(w)
    PROVE  ChainFrom(w, p)
  <1> DEFINE Broken == {n \in 0 .. Len(w) : ~ ChainFrom(w, Len(w) - n)}
  <1>1. Len(w) \in Nat /\ Broken \in SUBSET Nat
    OBVIOUS
  <1>2. Broken = {}
    <2> SUFFICES ASSUME Broken # {} PROVE FALSE
      OBVIOUS
    <2>1. PICK n \in Broken : \A m \in Broken : n <= m
      BY <1>1, LeastNatural
    <2>2. ASSUME NEW q \in 0 .. Len(w), Len(w) - n < q PROVE ChainFrom(w, q)
      <3>1. Len(w) - q \in 0 .. Len(w) /\ Len(w) - q < n /\ Len(w) - (Len(w) - q) = q
        BY <1>1, <2>2
      <3>2. Len(w) - q \notin Broken
        BY <1>1, <2>1, <3>1
      <3>3. ChainFrom(w, Len(w) - (Len(w) - q))
        BY <3>1, <3>2
      <3>4. QED
        BY <3>1, <3>3
    <2>3. Len(w) - n \in 0 .. Len(w)
      BY <1>1
    <2>4. QED
      BY <2>2, <2>3, ChainStep
  <1>3. Len(w) - p \in 0 .. Len(w) /\ Len(w) - (Len(w) - p) = p
    BY <1>1
  <1> HIDE DEF Broken
  <1>4. Len(w) - p \notin Broken
    BY <1>2
  <1>5. ChainFrom(w, Len(w) - (Len(w) - p))
    BY <1>3, <1>4 DEF Broken
  <1>6. QED
    BY <1>3, <1>5

\* The chunks of a file that has a header.
LEMMA ChunkFacts ==
    ASSUME NEW w \in Seq(Int), Len(w) >= 3
    PROVE  /\ \A q \in Chunks(w) : q \in 3 .. (Len(w) - 2)
           /\ 5 <= Len(w) => 3 \in Chunks(w)
           /\ \A q \in Chunks(w) :
                  Fits(w, q) /\ NextAt(w, q) + 2 <= Len(w) => NextAt(w, q) \in Chunks(w)
           /\ \A q, r \in Chunks(w) : q < r => Fits(w, q) /\ NextAt(w, q) <= r
  <1>1. 3 \in 0 .. Len(w)
    OBVIOUS
  <1>2. ChainFrom(w, 3)
    BY <1>1, Chain
  <1>3. QED
    BY <1>2 DEF ChainFrom, Chunks

-----------------------------------------------------------------------------
\* The next header that is read at p is that of a chunk of w, and behind f there is
\* no chunk id before it; or there is none left, and buf is not taken for one.
AtChunk(w, f, id, p, b) ==
    \/ p \in Chunks(w) /\ f < p /\ \A q \in At(w, id) : f < q => p <= q
    \/ p = Len(w) /\ b[1] # id /\ b[2] >= 0 /\ \A q \in At(w, id) : q <= f

\* fread of n words at p over b, and fseek to p: Got, Read and Seek of a file w.
GotAt(w, p, n) == IF p + n <= Len(w) THEN n ELSE Len(w) - p
ReadAt(w, p, b, n) == [k \in 1 .. 4 |-> IF k <= GotAt(w, p, n) THEN w[p + k] ELSE b[k]]
SeekAt(w, p, n) == IF p + n > Len(w) THEN Len(w) ELSE p + n

\* The place behind the chunk at p, in a Regular file: the next chunk, or the end.
LEMMA NextChunk ==
    ASSUME NEW w \in Seq(Int), IsWave(w), Regular(w), NEW p \in Chunks(w),
           NEW r, r = SeekAt(w, p + 2, w[p + 2])
    PROVE  /\ p \in 3 .. (Len(w) - 2) /\ w[p + 2] \in Nat /\ r \in Nat
           /\ \/ r \in Chunks(w) /\ p < r /\ \A q \in Chunks(w) : p < q => r <= q
              \/ r = Len(w) /\ EndsAt(w, p)
  <1> DEFINE L == Len(w)
             v == w[p + 2]
  <1>1. L \in Nat /\ L >= 3
    BY DEF IsWave
  <1>2. p \in 3 .. (L - 2)
    BY <1>1, ChunkFacts
  <1>3. v \in Nat /\ p + 2 + v + 1 # L
    <2>1. v >= 0 /\ p + 2 + v + 1 # L
      BY DEF Regular
    <2>2. v \in Int
      BY <1>1, <1>2
    <2>3. QED
      BY <2>1, <2>2
  <1>4. /\ Fits(w, p) <=> p + 2 + v <= L
        /\ NextAt(w, p) = p + 2 + v
        /\ r = IF p + 2 + v > L THEN L ELSE p + 2 + v
    BY <1>3 DEF Fits, NextAt, SeekAt
  <1>5. \A q \in Chunks(w) : q \in 3 .. (L - 2) /\ (p < q => p + 2 + v <= q)
    BY <1>1, <1>4, ChunkFacts
  <1>6. p + 2 + v + 2 <= L => p + 2 + v \in Chunks(w)
    <2> SUFFICES ASSUME p + 2 + v + 2 <= L PROVE p + 2 + v \in Chunks(w)
      OBVIOUS
    <2>1. Fits(w, p) /\ NextAt(w, p) + 2 <= Len(w)
      BY <1>1, <1>2, <1>3, <1>4
    <2>2. QED
      BY <1>1, <1>4, <2>1, ChunkFacts
  <1> HIDE DEF v, L
  <1>7. CASE p + 2 + v + 2 <= L
    <2>1. r = p + 2 + v /\ r \in Nat /\ p < r
      BY <1>1, <1>2, <1>3, <1>4, <1>7
    <2>2. \A q \in Chunks(w) : p < q => r <= q
      BY <1>5, <2>1
    <2>3. QED
      BY <1>2, <1>3, <1>6, <1>7, <2>1, <2>2 DEF v, L
  <1>8. CASE ~ (p + 2 + v + 2 <= L)
    <2>1. r = L
      BY <1>1, <1>2, <1>3, <1>4, <1>8
    <2>2. \A q \in Chunks(w) : q <= p
      BY <1>1, <1>2, <1>3, <1>5, <1>8
    <2>3. QED
      BY <1>1, <1>2, <1>3, <2>1, <2>2 DEF EndsAt, v, L
  <1>9. QED
    BY <1>7, <1>8

\* Behind the header of a wave file.
LEMMA FirstChunk ==
    ASSUME NEW w \in Seq(Int), IsWave(w), Regular(w), NEW id,
           NEW b, b[1] = RIFF, b[2] = w[2], id # RIFF
    PROVE  AtChunk(w, 0, id, 3, b)
  <1>1. Len(w) \in Nat /\ Len(w) >= 3
    BY DEF IsWave
  <1>2. \A q \in Chunks(w) : q \in 3 .. (Len(w) - 2)
    BY <1>1, ChunkFacts
  <1>3. CASE Len(w) >= 5
    <2>1. 3 \in Chunks(w)
      BY <1>1, <1>3, ChunkFacts
    <2>2. \A q \in At(w, id) : 3 <= q
      BY <1>2 DEF At
    <2>3. QED
      BY <2>1, <2>2 DEF AtChunk
  <1>4. CASE ~ (Len(w) >= 5)
    <2>1. Chunks(w) = {}
      BY <1>1, <1>2, <1>4
    <2>2. Len(w) = 3 /\ w[2] >= 0
      BY <2>1 DEF Regular
    <2>3. At(w, id) = {}
      BY <2>1 DEF At
    <2>4. QED
      BY <2>2, <2>3 DEF AtChunk
  <1>5. QED
    BY <1>3, <1>4

\* Reading at a chunk, or where nothing is left.
LEMMA ReadsChunk ==
    ASSUME NEW w \in Seq(Int), IsWave(w), Regular(w), NEW f \in Nat, NEW id, NEW p,
           NEW b \in [1 .. 4 -> Int], AtChunk(w, f, id, p, b)
    PROVE  LET h == ReadAt(w, p, b, 2)
               q == p + GotAt(w, p, 2)
           IN  /\ h \in [1 .. 4 -> Int] /\ h[2] >= 0 /\ p \in Nat /\ q \in Nat
               /\ q <= Len(w)
               /\ h[1] = id =>
                      /\ p \in At(w, id) /\ f < p /\ q = p + 2 /\ h[2] = w[p + 2]
                      /\ \A o \in At(w, id) : f < o => p <= o
               /\ h[1] # id => AtChunk(w, f, id, SeekAt(w, q, h[2]), h)
  <1> DEFINE h == ReadAt(w, p, b, 2)
             q == p + GotAt(w, p, 2)
             r == SeekAt(w, q, h[2])
  <1>1. Len(w) \in Nat /\ Len(w) >= 3
    BY DEF IsWave
  <1>2. CASE p \in Chunks(w) /\ f < p /\ \A o \in At(w, id) : f < o => p <= o
    <2>1. /\ p \in 3 .. (Len(w) - 2) /\ w[p + 2] \in Nat
          /\ LET n == SeekAt(w, p + 2, w[p + 2])
             IN  \/ n \in Chunks(w) /\ p < n /\ \A o \in Chunks(w) : p < o => n <= o
                 \/ n = Len(w) /\ EndsAt(w, p)
      BY <1>2, NextChunk
    <2>2. p \in 3 .. (Len(w) - 2) /\ p \in Nat /\ w[p + 2] \in Nat
      BY <2>1
    <2>3. GotAt(w, p, 2) = 2 /\ q = p + 2
      BY <1>1, <2>2 DEF GotAt
    <2>4. h[1] = w[p + 1] /\ h[2] = w[p + 2] /\ h \in [1 .. 4 -> Int]
      <3>1. w[p + 1] \in Int /\ w[p + 2] \in Int
        <4>1. p + 1 \in 1 .. Len(w) /\ p + 2 \in 1 .. Len(w)
          BY <1>1, <2>2
        <4>2. QED
          BY <4>1
      <3>2. h = [k \in 1 .. 4 |-> IF k <= 2 THEN w[p + k] ELSE b[k]]
        BY <2>3 DEF ReadAt
      <3>3. \A k \in 1 .. 4 : k <= 2 => k = 1 \/ k = 2
        OBVIOUS
      <3>4. h \in [1 .. 4 -> Int]
        BY <3>1, <3>2, <3>3
      <3>5. QED
        BY <3>2, <3>4
    <2>5. ASSUME h[1] # id PROVE AtChunk(w, f, id, r, h)
      <3>1. p \notin At(w, id) /\ \A o \in At(w, id) : o \in Chunks(w)
        BY <2>4, <2>5 DEF At
      <3>2. \A o \in At(w, id) : o \in 3 .. (Len(w) - 2)
        BY <1>1, <3>1, ChunkFacts
      <3>3. \A o \in At(w, id) : f < o => p < o
        BY <1>2, <2>2, <3>1, <3>2
      <3>4. r = SeekAt(w, p + 2, w[p + 2])
        BY <2>3, <2>4
      <3>5. h[2] = w[p + 2]
        BY <2>4
      <3> HIDE DEF r, h, q
      <3>6. CASE r \in Chunks(w) /\ p < r /\ \A o \in Chunks(w) : p < o => r <= o
        <4>1. r \in 3 .. (Len(w) - 2)
          BY <1>1, <3>6, ChunkFacts
        <4>2. f < r
          BY <1>2, <2>2, <3>6, <4>1
        <4>3. QED
          BY <3>1, <3>3, <3>6, <4>2 DEF AtChunk
      <3>7. CASE r = Len(w) /\ EndsAt(w, p)
        <4>1. \A o \in At(w, id) : o <= f
          <5> SUFFICES ASSUME NEW o \in At(w, id) PROVE o <= f
            OBVIOUS
          <5>1. o <= p
            BY <3>1, <3>7 DEF EndsAt
          <5>2. o \in Int /\ p \in Int
            BY <2>2, <3>2
          <5>3. QED
            BY <3>3, <5>1, <5>2
        <4>2. h[1] # id /\ h[2] >= 0
          BY <2>2, <2>5, <3>5
        <4>3. QED
          BY <3>7, <4>1, <4>2 DEF AtChunk
      <3>8. QED
        BY <2>1, <3>4, <3>6, <3>7
    <2>6. h[1] = id => p \in At(w, id)
      BY <1>2, <2>4 DEF At
    <2> HIDE DEF h, r
    <2>7. p \in Nat /\ q \in Nat /\ q <= Len(w) /\ h[2] >= 0
      <3>1. p \in Nat /\ p + 2 <= Len(w)
        BY <1>1, <2>2
      <3>2. h[2] = w[p + 2] /\ q = p + 2
        BY <2>3, <2>4
      <3> HIDE DEF q
      <3>3. q \in Nat /\ q <= Len(w)
        BY <1>1, <3>1, <3>2
      <3>4. h[2] >= 0
        BY <2>2, <3>2
      <3>5. QED
        BY <3>1, <3>3, <3>4
    <2>8. QED
      BY <1>2, <2>3, <2>4, <2>5, <2>6, <2>7 DEF h, r
  <1>3. CASE p = Len(w) /\ b[1] # id /\ b[2] >= 0 /\ \A o \in At(w, id) : o <= f
    <2>1. GotAt(w, p, 2) = 0 /\ q = Len(w)
      BY <1>1, <1>3 DEF GotAt
    <2>2. h[1] = b[1] /\ h[2] = b[2] /\ h \in [1 .. 4 -> Int]
      BY <2>1 DEF ReadAt
    <2>3. r = Len(w)
      BY <1>1, <1>3, <2>1, <2>2 DEF SeekAt
    <2> HIDE DEF h, r
    <2>4. AtChunk(w, f, id, r, h)
      BY <1>3, <2>2, <2>3 DEF AtChunk
    <2>5. QED
      BY <1>1, <1>3, <2>1, <2>2, <2>4 DEF h, r
  <1>4. QED
    BY <1>2, <1>3 DEF AtChunk

\* How many of the four words behind a header are read.
LEMMA LengthRead ==
    ASSUME NEW L \in Nat, NEW n \in Nat, n + 2 <= L, NEW m,
           m = IF n + 6 <= L THEN 4 ELSE L - (n + 2)
    PROVE  /\ n + 2 + 1 = n + 3 /\ n + 2 + 2 = n + 4
           /\ 1 <= m <=> n + 3 <= L
           /\ 2 <= m <=> n + 4 <= L
  <1>1. CASE n + 6 <= L
    BY <1>1
  <1>2. CASE ~ (n + 6 <= L)
    BY <1>2
  <1>3. QED
    BY <1>1, <1>2

\* What the chunk "fmt " leaves in buf.
LEMMA ReadsFmt ==
    ASSUME NEW w \in Seq(Int), IsWave(w), Regular(w), NEW f \in FmtAt(w),
           NEW h \in [1 .. 4 -> Int], h[1] = FMT, h[2] = w[f + 2]
    PROVE  LET c == ReadAt(w, f + 2, h, 4)
           IN  /\ c \in [1 .. 4 -> Int]
               /\ AtChunk(w, f, DATA, SeekAt(w, f + 2, w[f + 2]), c)
               /\ f + 6 <= Len(w) => c = SubSeq(w, f + 3, f + 6)
  <1> DEFINE g == GotAt(w, f + 2, 4)
             c == ReadAt(w, f + 2, h, 4)
             r == SeekAt(w, f + 2, w[f + 2])
  <1>1. Len(w) \in Nat /\ Len(w) >= 3
    BY DEF IsWave
  <1>2. f \in Chunks(w)
    BY DEF FmtAt, At
  <1>3. /\ f \in 3 .. (Len(w) - 2) /\ w[f + 2] \in Nat
        /\ \/ r \in Chunks(w) /\ f < r /\ \A o \in Chunks(w) : f < o => r <= o
           \/ r = Len(w) /\ EndsAt(w, f)
    BY <1>2, NextChunk
  <1>4. f \in 3 .. (Len(w) - 2) /\ f \in Nat /\ f + 2 <= Len(w) /\ w[f + 2] \in Nat
    BY <1>3, <1>1
  <1>5. /\ c = [k \in 1 .. 4 |-> IF k <= g THEN w[f + 2 + k] ELSE h[k]]
        /\ g = IF f + 6 <= Len(w) THEN 4 ELSE Len(w) - (f + 2)
    <2>1. f + 2 + 4 = f + 6
      BY <1>4
    <2>2. QED
      BY <2>1 DEF ReadAt, GotAt
  <1> HIDE DEF g, c, r
  <1>6. g = IF f + 6 <= Len(w) THEN 4 ELSE Len(w) - (f + 2)
    BY <1>5
  <1>7. c \in [1 .. 4 -> Int]
    <2>1. ASSUME NEW k \in 1 .. 4, k <= g PROVE w[f + 2 + k] \in Int
      <3>1. f + 2 + k \in 1 .. Len(w)
        <4>1. k \in Nat /\ 1 <= k /\ k <= 4
          OBVIOUS
        <4>2. f \in Nat /\ Len(w) \in Nat
          BY <1>1, <1>4
        <4>3. f + 2 + k <= Len(w)
          BY <1>6, <2>1, <4>1, <4>2
        <4>4. QED
          BY <4>1, <4>2, <4>3
      <3>2. QED
        BY <3>1
    <2>2. QED
      BY <1>5, <2>1
  <1>8. ASSUME f + 6 <= Len(w) PROVE c = SubSeq(w, f + 3, f + 6)
    <2> DEFINE s == SubSeq(w, f + 3, f + 6)
    <2>1. g = 4 /\ \A k \in 1 .. 4 : k <= g
      BY <1>6, <1>8
    <2>2. \A k \in 1 .. 4 : c[k] = w[f + 2 + k]
      BY <1>5, <2>1
    <2>3. f + 3 \in 1 .. Len(w) /\ f + 6 \in 1 .. Len(w)
      BY <1>1, <1>4, <1>8
    <2>4. s \in Seq(Int) /\ Len(s) = 4
      BY <1>1, <1>4, <1>8
    <2>5. \A k \in 1 .. 4 : s[k] = w[f + 3 + k - 1] /\ f + 3 + k - 1 = f + 2 + k
      BY <1>1, <1>4, <1>8
    <2> HIDE DEF s
    <2>6. s \in [1 .. 4 -> Int]
      BY <2>4, LenProperties
    <2>7. \A k \in 1 .. 4 : c[k] = s[k]
      BY <2>2, <2>5
    <2>8. c = s
      BY <1>7, <2>6, <2>7
    <2>9. QED
      BY <2>8 DEF s
  <1>9. /\ f + 3 <= Len(w) => c[1] = w[f + 3]
        /\ f + 4 <= Len(w) => c[2] = w[f + 4]
        /\ ~ (f + 3 <= Len(w)) => c[1] = h[1]
        /\ ~ (f + 4 <= Len(w)) => c[2] = h[2]
    <2>1. c[1] = IF 1 <= g THEN w[f + 2 + 1] ELSE h[1]
      BY <1>5
    <2>2. c[2] = IF 2 <= g THEN w[f + 2 + 2] ELSE h[2]
      BY <1>5
    <2>3. /\ f + 2 + 1 = f + 3 /\ f + 2 + 2 = f + 4
          /\ 1 <= g <=> f + 3 <= Len(w)
          /\ 2 <= g <=> f + 4 <= Len(w)
      BY <1>1, <1>4, <1>6, LengthRead
    <2>4. QED
      BY <2>1, <2>2, <2>3
  <1>10. ASSUME r \in Chunks(w), f < r, \A o \in Chunks(w) : f < o => r <= o
         PROVE  AtChunk(w, f, DATA, r, c)
    <2>1. \A q \in At(w, DATA) : q \in Chunks(w)
      BY DEF At
    <2>2. QED
      BY <1>10, <2>1 DEF AtChunk
  <1>11. ASSUME r = Len(w), EndsAt(w, f)
        PROVE  AtChunk(w, f, DATA, r, c)
    <2>1. \A q \in At(w, DATA) : q <= f
      BY <1>11 DEF EndsAt, At
    <2>2. /\ f + 3 <= Len(w) => w[f + 3] # DATA
          /\ f + 4 <= Len(w) => w[f + 4] >= 0
      BY <1>11 DEF Regular
    <2>3. c[1] # DATA
      BY <1>9, <2>2 DEF FMT, DATA
    <2>4. c[2] >= 0
      <3>1. CASE f + 4 <= Len(w)
        BY <1>9, <2>2, <3>1
      <3>2. CASE ~ (f + 4 <= Len(w))
        <4>1. c[2] = w[f + 2]
          BY <1>9, <3>2
        <4>2. QED
          BY <1>4, <4>1
      <3>3. QED
        BY <3>1, <3>2
    <2>5. QED
      BY <1>11, <2>1, <2>3, <2>4 DEF AtChunk
  <1>12. AtChunk(w, f, DATA, r, c)
    BY <1>3, <1>10, <1>11 DEF r
  <1>13. QED
    BY <1>7, <1>8, <1>12 DEF c, r

-----------------------------------------------------------------------------
(* WaveFile: the number of a file in mywavs                                *)

\* Index counts: one more with each file that has its data.
LEMMA IndexIs ==
    ASSUME all \in Seq(Entry)
    PROVE  /\ Index(0) = 0
           /\ Index(Len(all)) = Cardinality(Loadable)
           /\ \A n \in 0 .. (Len(all) - 1) :
                  Index(n + 1) = IF n + 1 \in Loadable THEN Index(n) + 1 ELSE Index(n)
           /\ \A n \in 0 .. Len(all) :
                  Index(n) \in Nat /\ \A k \in Loadable : k <= n => Index(k) \in 1 .. Index(n)
  <1> DEFINE Upto(n) == {j \in Loadable : j <= n}
  <1>1. Len(all) \in Nat /\ Loadable \subseteq 1 .. Len(all)
    BY DEF Loadable
  <1>2. \A j \in Loadable : j \in Nat /\ 1 <= j /\ j <= Len(all)
    BY <1>1
  <1>3. IsFiniteSet(Loadable)
    <2>1. IsFiniteSet(1 .. Len(all))
      BY <1>1, FS_Interval
    <2>2. QED
      BY <1>1, <2>1, FS_Subset
  <1>4. \A n : IsFiniteSet(Upto(n)) /\ Index(n) = Cardinality(Upto(n)) /\ Index(n) \in Nat
    <2> TAKE n
    <2>1. IsFiniteSet(Upto(n))
      BY <1>3, FS_Subset
    <2>2. Cardinality(Upto(n)) \in Nat
      BY <2>1, FS_CardinalityType
    <2>3. QED
      BY <2>1, <2>2 DEF Index
  <1>5. Index(0) = 0
    <2>1. Upto(0) = {}
      BY <1>2
    <2>2. QED
      BY <1>4, <2>1, FS_EmptySet
  <1>6. Index(Len(all)) = Cardinality(Loadable)
    <2>1. Upto(Len(all)) = Loadable
      BY <1>2
    <2>2. QED
      BY <1>4, <2>1
  <1>7. ASSUME NEW n \in 0 .. (Len(all) - 1)
        PROVE  Index(n + 1) = IF n + 1 \in Loadable THEN Index(n) + 1 ELSE Index(n)
    <2>1. n \in Nat /\ \A j \in Loadable : j \in Nat
      BY <1>1
    <2>2. CASE n + 1 \in Loadable
      <3>1. Upto(n + 1) = Upto(n) \union {n + 1} /\ n + 1 \notin Upto(n)
        BY <2>1, <2>2
      <3>2. Cardinality(Upto(n) \union {n + 1}) = Cardinality(Upto(n)) + 1
        BY <1>4, <3>1, FS_AddElement
      <3>3. QED
        BY <1>4, <2>2, <3>1, <3>2
    <2>3. CASE n + 1 \notin Loadable
      <3>1. Upto(n + 1) = Upto(n)
        BY <2>1, <2>3
      <3>2. QED
        BY <1>4, <2>3, <3>1
    <2>4. QED
      BY <2>2, <2>3
  <1>8. ASSUME NEW n \in 0 .. Len(all), NEW k \in Loadable, k <= n
        PROVE  Index(k) \in 1 .. Index(n)
    <2>1. n \in Nat /\ k \in Nat /\ \A j \in Loadable : j \in Nat
      BY <1>1, <1>2
    <2>2. \A j \in Loadable : j <= k => j <= n
      BY <1>8, <2>1
    <2>3. Upto(k) \subseteq Upto(n)
      BY <2>2
    <2>4. k \in Upto(k)
      BY <2>1
    <2>5. Upto(k) \subseteq Upto(n) /\ k \in Upto(k)
      BY <2>3, <2>4
    <2>6. Cardinality(Upto(k)) <= Cardinality(Upto(n))
      BY <1>4, <2>5, FS_Subset
    <2>7. Cardinality(Upto(k)) # 0
      BY <1>4, <2>5, FS_EmptySet
    <2>8. /\ Index(k) = Cardinality(Upto(k)) /\ Index(n) = Cardinality(Upto(n))
          /\ Index(k) \in Nat /\ Index(n) \in Nat
      BY <1>4
    <2> HIDE DEF Upto
    <2>9. QED
      BY <2>6, <2>7, <2>8
  <1>9. QED
    BY <1>4, <1>5, <1>6, <1>7, <1>8

-----------------------------------------------------------------------------
(* WaveFile: the invariant                                                 *)

\* How many entries of the directory were read.
Seen == Len(all) - Len(dir)
Record == [data : Seq(Int), format : Seq(Int)]
\* The format that the chunk "fmt " at f says.
FormatAt(w, f) == IF f + 6 <= Len(w) THEN SubSeq(w, f + 3, f + 6) ELSE NoFormat

\* dir is what is left of the directory.
DirOK ==
    /\ all \in Seq(Entry) /\ dir \in Seq(Entry) /\ Len(dir) <= Len(all)
    /\ \A k \in 1 .. Len(dir) : dir[k] = all[Seen + k]

\* The types of the rest, and what belongs to a place of the program.
ReaderOK ==
    /\ lpc \in {"find", "header", "chunk", "done"} /\ state \in {"FIND_FMT", "FIND_DATA"}
    /\ pos \in Nat /\ buf \in [1 .. 4 -> Int] /\ format \in Seq(Int)
    /\ mywavs \in Seq(Record)
    /\ lpc \in {"header", "chunk"} =>
           dir # << >> /\ Head(dir).kind = "wave" /\ pos <= Len(File)
    /\ lpc = "done" => dir = << >>
    /\ lpc = "header" => pos = 0 /\ state = "FIND_FMT" /\ format = NoFormat

LoadTypeOK == DirOK /\ ReaderOK

\* buf is not the header of a wave file before one is read; then the reader stands at
\* a chunk, the first of its id not yet ruled out, or has found none for ever.
ReaderInv ==
    /\ lpc \in {"find", "header"} => ~ (buf[1] = RIFF /\ buf[3] = WAVE)
    /\ lpc = "chunk" =>
           /\ IsWave(File)
           /\ state = "FIND_FMT" => format = NoFormat /\ AtChunk(File, 0, FMT, pos, buf)
           /\ state = "FIND_DATA" =>
                  \E f \in FmtAt(File) : /\ format = FormatAt(File, f)
                                         /\ AtChunk(File, f, DATA, pos, buf)

\* mywavs after the entries that were read.
LoadedInv ==
    /\ \A k \in 1 .. Seen : Returns(all[k].words)
    /\ Len(mywavs) = Index(Seen)
    /\ \A k \in Loadable : k <= Seen => mywavs[Index(k)] = Loaded(all[k].words)

LoadInv == LoadTypeOK /\ (RegularDir => ReaderInv /\ LoadedInv)

-----------------------------------------------------------------------------
\* Every entry has words, none if it is not a wave file.
LEMMA WordsAreInts == \A e \in Entry : e.words \in Seq(Int)
  <1> SUFFICES ASSUME NEW e \in Entry PROVE e.words \in Seq(Int)
    OBVIOUS
  <1>1. e.words \in Files \/ e.words = << >>
    BY DEF Entry
  <1>2. << >> \in Seq(Int)
    OBVIOUS
  <1>3. QED
    BY <1>1, <1>2, FilesAssumption

\* The file that is open is the one behind those that were read.
LEMMA OpenFile ==
    ASSUME DirOK, dir # << >>
    PROVE  /\ Seen \in Nat /\ Seen + 1 \in 1 .. Len(all) /\ Len(dir) \in Nat \ {0}
           /\ Head(dir) = all[Seen + 1] /\ Head(dir) \in Entry /\ File \in Seq(Int)
           /\ RegularDir => Regular(File)
  <1>1. Len(all) \in Nat /\ Len(dir) \in Nat \ {0} /\ Len(dir) <= Len(all)
    BY EmptySeq DEF DirOK
  <1>2. Seen \in Nat /\ Seen + 1 \in 1 .. Len(all)
    BY <1>1 DEF Seen
  <1>3. Head(dir) = dir[1] /\ dir[1] = all[Seen + 1]
    BY <1>1 DEF DirOK
  <1>4. Head(dir) \in Entry
    BY HeadTailProperties DEF DirOK
  <1>5. File \in Seq(Int)
    BY <1>4, WordsAreInts DEF File
  <1>6. RegularDir => Regular(File)
    BY <1>2, <1>3 DEF RegularDir, File
  <1>7. QED
    BY <1>1, <1>2, <1>3, <1>4, <1>5, <1>6

\* FindNextFile: one more was read.
LEMMA NextEntry ==
    ASSUME DirOK, dir # << >>, dir' = Tail(dir), all' = all
    PROVE  DirOK' /\ Seen' = Seen + 1
  <1>1. Len(all) \in Nat /\ Len(dir) \in Nat \ {0} /\ Len(dir) <= Len(all)
    BY OpenFile DEF DirOK
  <1>2. /\ dir' \in Seq(Entry) /\ Len(dir') = Len(dir) - 1
        /\ \A k \in 1 .. Len(dir') : dir'[k] = dir[k + 1]
    BY HeadTailProperties DEF DirOK
  <1>3. Seen' = Seen + 1 /\ Seen \in Int
    BY <1>1, <1>2 DEF Seen
  <1>4. ASSUME NEW k \in 1 .. Len(dir') PROVE dir'[k] = all'[Seen' + k]
    <2>1. k + 1 \in 1 .. Len(dir) /\ Seen + (k + 1) = Seen' + k
      BY <1>1, <1>2, <1>3
    <2>2. dir[k + 1] = all[Seen + (k + 1)]
      BY <2>1 DEF DirOK
    <2>3. QED
      BY <1>2, <2>1, <2>2
  <1>5. Len(dir') <= Len(all')
    BY <1>1, <1>2
  <1>6. QED
    BY <1>2, <1>3, <1>4, <1>5 DEF DirOK

\* The numbers of the files stay what they are.
LEMMA SameFiles ==
    ASSUME all' = all
    PROVE  /\ RegularDir' = RegularDir /\ Loadable' = Loadable
           /\ \A k : Index(k)' = Index(k)
  BY DEF RegularDir, Loadable, Index

\* A file is done with: what it adds to mywavs.
LEMMA NextRecord ==
    ASSUME DirOK, mywavs \in Seq(Record), LoadedInv, dir # << >>, dir' = Tail(dir), all' = all,
           Returns(File),
           \/ ~ (Head(dir).kind = "wave" /\ Loads(File)) /\ mywavs' = mywavs
           \/ /\ Head(dir).kind = "wave" /\ Loads(File)
              /\ Loaded(File) \in Record /\ mywavs' = Append(mywavs, Loaded(File))
    PROVE  LoadedInv'
  <1> DEFINE n == Seen
  <1>1. /\ n \in Nat /\ n + 1 \in 1 .. Len(all) /\ Len(all) \in Nat
        /\ Head(dir) = all[n + 1]
    BY OpenFile DEF DirOK
  <1>2. Seen' = n + 1
    BY NextEntry
  <1>3. /\ Loadable' = Loadable /\ \A k : Index(k)' = Index(k)
    BY SameFiles
  <1>4. n + 1 \in Loadable <=> Head(dir).kind = "wave" /\ Loads(File)
    BY <1>1 DEF Loadable, File
  <1>5. /\ Index(n + 1) = IF n + 1 \in Loadable THEN Index(n) + 1 ELSE Index(n)
        /\ Index(n) \in Nat /\ \A k \in Loadable : k <= n => Index(k) \in 1 .. Index(n)
    <2>1. n \in 0 .. (Len(all) - 1) /\ n \in 0 .. Len(all)
      BY <1>1
    <2>2. QED
      BY <2>1, IndexIs DEF DirOK
  <1>6. /\ \A k \in 1 .. n : Returns(all[k].words)
        /\ Len(mywavs) = Index(n)
        /\ \A k \in Loadable : k <= n => mywavs[Index(k)] = Loaded(all[k].words)
    BY DEF LoadedInv
  <1>7. \A k \in Loadable : k \in Nat
    BY DEF Loadable
  <1> HIDE DEF n
  <1>8. \A k \in 1 .. (n + 1) : Returns(all[k].words)
    <2>1. Returns(all[n + 1].words)
      BY <1>1 DEF File
    <2>2. \A k \in 1 .. (n + 1) : k \in 1 .. n \/ k = n + 1
      BY <1>1
    <2>3. QED
      BY <1>6, <2>1, <2>2
  <1>9. /\ Len(mywavs') = Index(n + 1)
        /\ \A k \in Loadable : k <= n + 1 => mywavs'[Index(k)] = Loaded(all[k].words)
    <2>1. \A k \in Loadable : k <= n + 1 => k <= n \/ k = n + 1
      BY <1>1, <1>7
    <2>2. CASE n + 1 \in Loadable
      <3>1. Loaded(File) \in Record /\ mywavs' = Append(mywavs, Loaded(File))
        BY <1>4, <2>2
      <3>2. /\ Len(mywavs') = Len(mywavs) + 1 /\ mywavs'[Len(mywavs) + 1] = Loaded(File)
            /\ \A i \in 1 .. Len(mywavs) : mywavs'[i] = mywavs[i]
        BY <3>1
      <3>3. Loaded(File) = Loaded(all[n + 1].words)
        BY <1>1 DEF File
      <3>4. Index(n + 1) = Len(mywavs) + 1
        BY <1>5, <1>6, <2>2
      <3>5. ASSUME NEW k \in Loadable, k <= n
            PROVE  mywavs'[Index(k)] = Loaded(all[k].words)
        BY <1>5, <1>6, <3>2, <3>5
      <3>6. QED
        BY <2>1, <3>2, <3>3, <3>4, <3>5
    <2>3. CASE n + 1 \notin Loadable
      <3>1. mywavs' = mywavs
        BY <1>4, <2>3
      <3>2. \A k \in Loadable : k <= n + 1 => k <= n
        BY <2>1, <2>3
      <3>3. QED
        BY <1>5, <1>6, <2>3, <3>1, <3>2
    <2>4. QED
      BY <2>2, <2>3
  <1>10. QED
    BY <1>2, <1>3, <1>8, <1>9 DEF LoadedInv

-----------------------------------------------------------------------------
(* WaveFile: what read_wave_file finds                                     *)

\* The first chunk "data" behind the first "fmt ".
LEMMA FoundData ==
    ASSUME NEW w \in Seq(Int), IsWave(w), NEW f \in FmtAt(w), NEW p \in At(w, DATA), f < p,
           \A o \in At(w, DATA) : f < o => p <= o
    PROVE  /\ Returns(w)
           /\ Loads(w) <=> p + 2 + w[p + 2] <= Len(w)
           /\ Loaded(w) = [data |-> SubSeq(w, p + 3, p + 2 + w[p + 2]),
                           format |-> FormatAt(w, f)]
  <1>1. \A q \in Chunks(w) : q \in 3 .. (Len(w) - 2)
    BY ChunkFacts DEF IsWave
  <1>2. /\ \A q \in FmtAt(w) : q \in Int /\ f <= q /\ q <= f
        /\ f \in Int /\ \A q \in At(w, DATA) : q \in Int
    BY <1>1 DEF FmtAt, At
  <1>3. FmtAt(w) = {f}
    <2>1. \A q \in FmtAt(w) : q = f
      BY <1>2
    <2>2. QED
      BY <2>1
  <1>4. DataAt(w) = {p}
    BY <1>2, <1>3 DEF DataAt
  <1>5. (CHOOSE q \in FmtAt(w) : TRUE) = f /\ (CHOOSE q \in DataAt(w) : TRUE) = p
    BY <1>3, <1>4
  <1>6. QED
    BY <1>3, <1>4, <1>5 DEF Returns, Loads, Loaded, FormatAt

\* The data of a record are words.
LEMMA DataIsInts ==
    ASSUME NEW w \in Seq(Int), NEW p \in Nat, NEW n \in Nat, p + n <= Len(w)
    PROVE  SubSeq(w, p + 1, p + n) \in Seq(Int)
  <1>1. \A i \in (p + 1) .. (p + n) : w[i] \in Int
    OBVIOUS
  <1>2. QED
    BY <1>1, SubSeqProperties

\* What the steps do, in the words of the lemmas above.
LEMMA ReadIs ==
    /\ \A n \in Nat : Got(n) = GotAt(File, pos, n) /\ Read(n) = ReadAt(File, pos, buf, n)
    /\ \A p, n \in Nat : Seek(p, n) = SeekAt(File, p, n)
  BY DEF Got, GotAt, Read, ReadAt, Seek, SeekAt

\* A read stays in the file, and gives integers.
LEMMA ReadOK ==
    ASSUME NEW w \in Seq(Int), NEW p \in Nat, p <= Len(w), NEW b \in [1 .. 4 -> Int],
           NEW n \in 0 .. 4
    PROVE  /\ ReadAt(w, p, b, n) \in [1 .. 4 -> Int]
           /\ p + GotAt(w, p, n) \in Nat /\ p + GotAt(w, p, n) <= Len(w)
  <1> DEFINE g == GotAt(w, p, n)
  <1>1. Len(w) \in Nat /\ g = IF p + n <= Len(w) THEN n ELSE Len(w) - p
    BY DEF GotAt
  <1>2. ReadAt(w, p, b, n) = [k \in 1 .. 4 |-> IF k <= g THEN w[p + k] ELSE b[k]]
    BY DEF ReadAt
  <1> HIDE DEF g
  <1>3. p + g \in Nat /\ p + g <= Len(w) /\ g \in Nat
    BY <1>1
  <1>4. ASSUME NEW k \in 1 .. 4, k <= g PROVE w[p + k] \in Int
    <2>1. p + k \in 1 .. Len(w)
      BY <1>1, <1>3, <1>4
    <2>2. QED
      BY <2>1
  <1>5. QED
    BY <1>2, <1>3, <1>4 DEF g

\* A seek stays in the file too, forwards and backwards.
LEMMA SeekOK ==
    ASSUME File \in Seq(Int), NEW p \in Nat, p <= Len(File), NEW n \in Int
    PROVE  Seek(p, n) \in Nat /\ Seek(p, n) <= Len(File)
  <1>1. Len(File) \in Nat
    OBVIOUS
  <1>2. Seek(p, n) = IF p + n < 0 THEN p
                     ELSE IF p + n > Len(File) THEN Len(File) ELSE p + n
    BY DEF Seek
  <1>3. QED
    BY <1>1, <1>2

-----------------------------------------------------------------------------
(* WaveFile: the types                                                     *)

\* FindFmt with its reads and seeks as above.
LEMMA FindFmtIs ==
    ASSUME LoadTypeOK, FindFmt
    PROVE  LET h == Read(2)
               q == pos + Got(2)
               c == ReadAt(File, q, h, 4)
           IN  /\ h = ReadAt(File, pos, buf, 2) /\ q = pos + GotAt(File, pos, 2)
               /\ h \in [1 .. 4 -> Int] /\ q \in Nat /\ q <= Len(File)
               /\ h[1] = FMT => /\ state' = "FIND_DATA" /\ buf' = c
                                /\ format' = IF q + 4 <= Len(File) THEN c ELSE format
               /\ h[1] # FMT => /\ state' = "FIND_FMT" /\ buf' = h /\ format' = format
               /\ pos' = Seek(q, h[2])
               /\ UNCHANGED <<dir, all, mywavs, lpc>>
  <1> DEFINE h == Read(2)
             q == pos + Got(2)
             c == ReadAt(File, q, h, 4)
  <1>1. File \in Seq(Int) /\ pos \in Nat /\ pos <= Len(File) /\ buf \in [1 .. 4 -> Int]
    BY OpenFile DEF LoadTypeOK, ReaderOK, FindFmt
  <1>2. h = ReadAt(File, pos, buf, 2) /\ q = pos + GotAt(File, pos, 2)
    BY ReadIs
  <1>3. h \in [1 .. 4 -> Int] /\ q \in Nat /\ q <= Len(File)
    BY <1>1, <1>2, ReadOK
  <1>4. c = [k \in 1 .. 4 |-> IF k <= (IF q + 4 <= Len(File) THEN 4 ELSE Len(File) - q)
                             THEN File[q + k] ELSE h[k]]
    BY DEF ReadAt, GotAt
  <1>5. (IF q + 4 <= Len(File) THEN 4 ELSE Len(File) - q) = 4 <=> q + 4 <= Len(File)
    <2>1. Len(File) \in Nat
      BY <1>1
    <2> HIDE DEF q
    <2>2. QED
      BY <1>3, <2>1
  <1>6. /\ h[1] = FMT => /\ state' = "FIND_DATA" /\ buf' = c
                         /\ format' = IF q + 4 <= Len(File) THEN c ELSE format
        /\ h[1] # FMT => /\ state' = "FIND_FMT" /\ buf' = h /\ format' = format
        /\ pos' = Seek(q, h[2])
        /\ UNCHANGED <<dir, all, mywavs, lpc>>
    BY <1>4, <1>5 DEF FindFmt, BehindFmt
  <1>7. QED
    BY <1>2, <1>3, <1>6

\* FindData, likewise.
LEMMA FindDataIs ==
    ASSUME LoadTypeOK, FindData
    PROVE  LET h == Read(2)
               q == pos + Got(2)
           IN  /\ h = ReadAt(File, pos, buf, 2) /\ q = pos + GotAt(File, pos, 2)
               /\ h \in [1 .. 4 -> Int] /\ q \in Nat /\ q <= Len(File)
               /\ buf' = h /\ UNCHANGED <<all, state, format>>
               /\ h[1] # DATA => pos' = Seek(q, h[2]) /\ UNCHANGED <<dir, mywavs, lpc>>
               /\ h[1] = DATA => pos' = q /\ NextFile
               /\ h[1] = DATA /\ AllData(q, h[2]) =>
                      mywavs' = Append(mywavs, [data |-> SubSeq(File, q + 1, q + h[2]),
                                                format |-> format])
               /\ h[1] = DATA /\ ~ AllData(q, h[2]) => mywavs' = mywavs
  <1> DEFINE h == Read(2)
             q == pos + Got(2)
  <1>1. File \in Seq(Int) /\ pos \in Nat /\ pos <= Len(File) /\ buf \in [1 .. 4 -> Int]
    BY OpenFile DEF LoadTypeOK, ReaderOK, FindData
  <1>2. h = ReadAt(File, pos, buf, 2) /\ q = pos + GotAt(File, pos, 2)
    BY ReadIs
  <1>3. h \in [1 .. 4 -> Int] /\ q \in Nat /\ q <= Len(File)
    BY <1>1, <1>2, ReadOK
  <1>4. /\ buf' = h /\ UNCHANGED <<all, state, format>>
        /\ h[1] # DATA => pos' = Seek(q, h[2]) /\ UNCHANGED <<dir, mywavs, lpc>>
        /\ h[1] = DATA => pos' = q /\ NextFile
        /\ h[1] = DATA /\ AllData(q, h[2]) =>
               mywavs' = Append(mywavs, [data |-> SubSeq(File, q + 1, q + h[2]),
                                         format |-> format])
        /\ h[1] = DATA /\ ~ AllData(q, h[2]) => mywavs' = mywavs
    BY DEF FindData, Fails, FailedSlot
  <1>5. QED
    BY <1>2, <1>3, <1>4

\* Every step keeps the types, also those of files that are not Regular.
LEMMA LoadTypeStep ==
    ASSUME LoadTypeOK, [LoadNext]_loadVars
    PROVE  LoadTypeOK'
  <1> USE DEF LoadTypeOK
  <1>1. CASE OpenNext
    <2>1. /\ all' = all /\ state' = "FIND_FMT" /\ pos' = 0 /\ format' = NoFormat
          /\ buf' \in [1 .. 4 -> Int]
      BY <1>1 DEF OpenNext, ReaderOK, Junk
    <2>2. mywavs' = mywavs
      BY <1>1 DEF OpenNext, Fails, FailedSlot
    <2>3. format' \in Seq(Int)
      BY <2>1 DEF NoFormat
    <2>4. CASE lpc' = "header" /\ dir' = dir /\ Head(dir).kind = "wave" /\ dir # << >>
      <3>1. DirOK'
        BY <2>1, <2>4 DEF DirOK, Seen
      <3>2. pos' <= Len(File')
        <4>1. File' = File /\ File \in Seq(Int)
          BY <2>4, OpenFile DEF File
        <4>2. Len(File) \in Nat
          BY <4>1
        <4>3. QED
          BY <2>1, <4>1, <4>2
      <3>3. ReaderOK'
        BY <2>1, <2>2, <2>3, <2>4, <3>2 DEF ReaderOK
      <3>4. QED
        BY <3>1, <3>3
    <2>5. CASE NextFile /\ dir # << >>
      <3>1. DirOK'
        BY <2>1, <2>5, NextEntry DEF NextFile
      <3>2. ReaderOK'
        BY <2>1, <2>2, <2>3, <2>5 DEF ReaderOK, NextFile
      <3>3. QED
        BY <3>1, <3>2
    <2>6. QED
      BY <1>1, <2>4, <2>5 DEF OpenNext, Fails
  <1>2. CASE ReadHeader
    <2>1. dir # << >> /\ pos = 0 /\ pos <= Len(File) /\ Head(dir).kind = "wave"
      BY <1>2 DEF ReadHeader, ReaderOK
    <2>2. File \in Seq(Int)
      BY <2>1, OpenFile
    <2>3. buf' \in [1 .. 4 -> Int] /\ pos' \in Nat /\ pos' <= Len(File)
      BY <1>2, <2>1, <2>2, ReadIs, ReadOK DEF ReadHeader, ReaderOK
    <2>4. /\ all' = all /\ mywavs' = mywavs /\ UNCHANGED <<state, format>>
          /\ \/ lpc' = "chunk" /\ dir' = dir
             \/ lpc' = "find" /\ dir' = Tail(dir)
      BY <1>2 DEF ReadHeader, Fails, NextFile, FailedSlot
    <2>5. DirOK'
      BY <2>1, <2>4, NextEntry DEF DirOK, Seen
    <2>6. ReaderOK'
      BY <2>1, <2>3, <2>4 DEF ReaderOK, File
    <2>7. QED
      BY <2>5, <2>6
  <1>3. CASE FindFmt
    <2> DEFINE h == Read(2)
               q == pos + Got(2)
               c == ReadAt(File, q, h, 4)
    <2>1. /\ h \in [1 .. 4 -> Int] /\ q \in Nat /\ q <= Len(File)
          /\ h[1] = FMT => /\ state' = "FIND_DATA" /\ buf' = c
                           /\ format' = IF q + 4 <= Len(File) THEN c ELSE format
          /\ h[1] # FMT => /\ state' = "FIND_FMT" /\ buf' = h /\ format' = format
          /\ pos' = Seek(q, h[2])
          /\ UNCHANGED <<dir, all, mywavs, lpc>>
      BY <1>3, FindFmtIs
    <2>2. lpc = "chunk" /\ dir # << >> /\ Head(dir).kind = "wave" /\ File \in Seq(Int)
      BY <1>3, OpenFile DEF FindFmt, ReaderOK
    <2> HIDE DEF h, q
    <2>3. c \in [1 .. 4 -> Int]
      BY <2>1, <2>2, ReadOK
    <2>4. c \in Seq(Int)
      BY <2>3, SeqDef
    <2>5. pos' \in Nat /\ pos' <= Len(File)
      <3>1. h[2] \in Int
        BY <2>1
      <3>2. QED
        BY <2>1, <2>2, <3>1, SeekOK
    <2>6. /\ state' \in {"FIND_FMT", "FIND_DATA"} /\ buf' \in [1 .. 4 -> Int]
          /\ format' \in Seq(Int)
      BY <2>1, <2>3, <2>4 DEF ReaderOK
    <2>7. File' = File
      BY <2>1 DEF File
    <2>8. ReaderOK'
      BY <2>1, <2>2, <2>5, <2>6, <2>7 DEF ReaderOK
    <2>9. QED
      BY <2>1, <2>8 DEF DirOK, Seen
  <1>4. CASE FindData
    <2> DEFINE h == Read(2)
               q == pos + Got(2)
    <2>1. /\ h \in [1 .. 4 -> Int] /\ q \in Nat /\ q <= Len(File)
          /\ buf' = h /\ UNCHANGED <<all, state, format>>
          /\ h[1] # DATA => pos' = Seek(q, h[2]) /\ UNCHANGED <<dir, mywavs, lpc>>
          /\ h[1] = DATA => pos' = q /\ NextFile
          /\ h[1] = DATA /\ AllData(q, h[2]) =>
                 mywavs' = Append(mywavs, [data |-> SubSeq(File, q + 1, q + h[2]),
                                           format |-> format])
          /\ h[1] = DATA /\ ~ AllData(q, h[2]) => mywavs' = mywavs
      BY <1>4, FindDataIs
    <2>2. lpc = "chunk" /\ dir # << >> /\ Head(dir).kind = "wave" /\ File \in Seq(Int)
      BY <1>4, OpenFile DEF FindData, ReaderOK
    <2> HIDE DEF h, q
    <2>3. h[2] \in Int
      BY <2>1
    <2>4. CASE h[1] # DATA
      <3>1. pos' \in Nat /\ pos' <= Len(File)
        BY <2>1, <2>2, <2>3, <2>4, SeekOK
      <3>2. File' = File
        BY <2>1, <2>4 DEF File
      <3>3. ReaderOK'
        BY <2>1, <2>2, <2>4, <3>1, <3>2 DEF ReaderOK
      <3>4. QED
        BY <2>1, <2>4, <3>3 DEF DirOK, Seen
    <2>5. CASE h[1] = DATA
      <3>1. mywavs' \in Seq(Record)
        <4>1. mywavs \in Seq(Record) /\ format \in Seq(Int)
          BY DEF ReaderOK
        <4>2. CASE AllData(q, h[2])
          <5>1. h[2] \in Nat /\ q + h[2] <= Len(File)
            BY <2>3, <4>2 DEF AllData
          <5>2. SubSeq(File, q + 1, q + h[2]) \in Seq(Int)
            BY <2>1, <2>2, <5>1, DataIsInts
          <5>3. [data |-> SubSeq(File, q + 1, q + h[2]), format |-> format] \in Record
            BY <4>1, <5>2 DEF Record
          <5>4. PICK e \in Record : mywavs' = Append(mywavs, e)
            BY <2>1, <2>5, <4>2, <5>3
          <5>5. QED
            BY <4>1, <5>4
        <4>3. CASE ~ AllData(q, h[2])
          BY <2>1, <2>5, <4>1, <4>3
        <4>4. QED
          BY <4>2, <4>3
      <3>2. lpc' = "find" /\ dir' = Tail(dir)
        BY <2>1, <2>5 DEF NextFile
      <3>3. DirOK'
        BY <2>1, <2>2, <3>2, NextEntry
      <3>4. ReaderOK'
        BY <2>1, <2>5, <3>1, <3>2 DEF ReaderOK
      <3>5. QED
        BY <3>3, <3>4
    <2>6. QED
      BY <2>4, <2>5
  <1>5. CASE Finish
    <2>1. DirOK'
      BY <1>5 DEF Finish, DirOK, Seen
    <2>2. ReaderOK'
      BY <1>5 DEF Finish, reader, ReaderOK
    <2>3. QED
      BY <2>1, <2>2
  <1>6. CASE UNCHANGED loadVars
    <2>1. DirOK'
      BY <1>6 DEF loadVars, DirOK, Seen
    <2>2. ReaderOK'
      BY <1>6 DEF loadVars, reader, ReaderOK, File
    <2>3. QED
      BY <2>1, <2>2
  <1>7. QED
    BY <1>1, <1>2, <1>3, <1>4, <1>5, <1>6 DEF LoadNext, LoadWavs, Done

-----------------------------------------------------------------------------
(* WaveFile: what the reader knows                                         *)

\* A file whose header is refused counts for nothing.
LEMMA HeaderStep ==
    ASSUME LoadTypeOK, RegularDir, ReaderInv, LoadedInv, ReadHeader
    PROVE  ReaderInv' /\ LoadedInv'
  <1> DEFINE w == File
             h == Read(3)
  <1>1. dir # << >> /\ pos = 0 /\ state = "FIND_FMT" /\ format = NoFormat
    BY DEF ReadHeader, LoadTypeOK, ReaderOK
  <1>2. w \in Seq(Int) /\ Regular(w) /\ Len(w) \in Nat
    BY <1>1, OpenFile DEF LoadTypeOK
  <1>3. /\ buf' = h /\ pos' = GotAt(w, 0, 3) /\ UNCHANGED <<all, state, format>>
        /\ mywavs' = mywavs
        /\ h[1] = RIFF /\ h[3] = WAVE => lpc' = "chunk" /\ dir' = dir
        /\ ~ (h[1] = RIFF /\ h[3] = WAVE) => lpc' = "find" /\ dir' = Tail(dir)
    <2>1. pos + Got(3) = GotAt(w, 0, 3)
      BY <1>1, <1>2, ReadIs DEF GotAt
    <2>2. QED
      BY <2>1 DEF ReadHeader, Fails, FailedSlot, NextFile
  <1>4. \A k \in 1 .. 3 : h[k] = IF k <= Len(w) THEN w[k] ELSE buf[k]
    <2>1. h = [k \in 1 .. 4 |-> IF k <= GotAt(w, 0, 3) THEN w[k] ELSE buf[k]]
      BY <1>1, <1>2, ReadIs DEF ReadAt
    <2>2. GotAt(w, 0, 3) = IF 3 <= Len(w) THEN 3 ELSE Len(w)
      BY <1>2 DEF GotAt
    <2>3. \A k \in 1 .. 3 : k <= GotAt(w, 0, 3) <=> k <= Len(w)
      BY <1>2, <2>2
    <2>4. QED
      BY <2>1, <2>3
  <1>5. ~ (buf[1] = RIFF /\ buf[3] = WAVE)
    BY DEF ReaderInv, ReadHeader
  <1>6. h[1] = RIFF /\ h[3] = WAVE <=> IsWave(w)
    <2>1. CASE Len(w) >= 3
      BY <1>2, <1>4, <2>1 DEF IsWave
    <2>2. CASE Len(w) = 0
      BY <1>4, <1>5, <2>2 DEF IsWave
    <2>3. CASE Len(w) \in {1, 2}
      <3>1. w[1] # RIFF
        BY <1>2, <2>3 DEF Regular
      <3>2. QED
        BY <1>4, <2>3, <3>1 DEF IsWave
    <2>4. Len(w) >= 3 \/ Len(w) = 0 \/ Len(w) \in {1, 2}
      <3>1. Len(w) \in Nat
        BY <1>2
      <3>2. \A n \in Nat : n >= 3 \/ n = 0 \/ n \in {1, 2}
        OBVIOUS
      <3>3. QED
        BY <3>1, <3>2
    <2>5. QED
      BY <2>1, <2>2, <2>3, <2>4
  <1>7. CASE IsWave(w)
    <2>1. lpc' = "chunk" /\ dir' = dir
      BY <1>3, <1>6, <1>7
    <2>2. Len(w) >= 3
      BY <1>7 DEF IsWave
    <2>3. pos' = 3
      BY <1>2, <1>3, <2>2 DEF GotAt
    <2>4. h[1] = RIFF /\ h[2] = w[2]
      BY <1>2, <1>4, <1>6, <1>7, <2>2
    <2>5. AtChunk(w, 0, FMT, 3, h)
      BY <1>2, <1>7, <2>4, FirstChunk DEF FMT, RIFF
    <2>6. ReaderInv'
      <3>1. File' = w
        BY <2>1 DEF File
      <3>2. state' = "FIND_FMT" /\ format' = NoFormat
        BY <1>1, <1>3
      <3> HIDE DEF w, h
      <3>3. QED
        BY <1>3, <1>7, <2>1, <2>3, <2>5, <3>1, <3>2 DEF ReaderInv, NoFormat
    <2>7. LoadedInv'
      BY <1>3, <2>1, SameFiles DEF LoadedInv, Seen
    <2>8. QED
      BY <2>6, <2>7
  <1>8. CASE ~ IsWave(w)
    <2>1. lpc' = "find" /\ dir' = Tail(dir) /\ ~ (h[1] = RIFF /\ h[3] = WAVE)
      BY <1>3, <1>6, <1>8
    <2>2. ReaderInv'
      <3> HIDE DEF h
      <3>1. QED
        BY <1>3, <2>1 DEF ReaderInv
    <2>3. Returns(w) /\ ~ Loads(w)
      BY <1>8 DEF Returns, Loads
    <2>4. LoadedInv'
      BY <1>1, <1>3, <2>1, <2>3, NextRecord DEF LoadTypeOK, ReaderOK
    <2>5. QED
      BY <2>2, <2>4
  <1>9. QED
    BY <1>7, <1>8

\* The search for "fmt " goes on, or the search for "data" begins behind it.
LEMMA FmtStep ==
    ASSUME LoadTypeOK, RegularDir, ReaderInv, LoadedInv, FindFmt
    PROVE  ReaderInv' /\ LoadedInv'
  <1> DEFINE w == File
             h == Read(2)
             q == pos + Got(2)
             c == ReadAt(w, q, h, 4)
  <1>1. /\ h = ReadAt(w, pos, buf, 2) /\ q = pos + GotAt(w, pos, 2)
        /\ h \in [1 .. 4 -> Int] /\ q \in Nat /\ q <= Len(w)
        /\ h[1] = FMT => /\ state' = "FIND_DATA" /\ buf' = c
                         /\ format' = IF q + 4 <= Len(w) THEN c ELSE format
        /\ h[1] # FMT => /\ state' = "FIND_FMT" /\ buf' = h /\ format' = format
        /\ pos' = Seek(q, h[2])
        /\ UNCHANGED <<dir, all, mywavs, lpc>>
    BY FindFmtIs
  <1>2. lpc = "chunk" /\ state = "FIND_FMT" /\ dir # << >> /\ buf \in [1 .. 4 -> Int]
    BY DEF FindFmt, LoadTypeOK, ReaderOK
  <1>3. w \in Seq(Int) /\ Regular(w)
    BY <1>2, OpenFile DEF LoadTypeOK
  <1>4. IsWave(w) /\ format = NoFormat /\ AtChunk(w, 0, FMT, pos, buf)
    BY <1>2 DEF ReaderInv
  <1>5. /\ h[2] >= 0
        /\ h[1] = FMT =>
               /\ pos \in At(w, FMT) /\ q = pos + 2 /\ h[2] = w[pos + 2]
               /\ \A o \in At(w, FMT) : 0 < o => pos <= o
        /\ h[1] # FMT => AtChunk(w, 0, FMT, SeekAt(w, q, h[2]), h)
    BY <1>1, <1>2, <1>3, <1>4, ReadsChunk
  <1>6. pos' = SeekAt(w, q, h[2])
    <2>1. h[2] \in Nat
      BY <1>1, <1>5
    <2>2. QED
      BY <1>1, <2>1, ReadIs
  <1>7. File' = w
    BY <1>1 DEF File
  <1> HIDE DEF w, h, q, c
  <1>8. LoadedInv'
    BY <1>1, SameFiles DEF LoadedInv, Seen
  <1>9. CASE h[1] = FMT
    <2>1. pos \in FmtAt(w)
      <3>1. \A o \in At(w, FMT) : o \in 3 .. (Len(w) - 2)
        BY <1>3, <1>4, ChunkFacts DEF IsWave, At
      <3>2. \A o \in At(w, FMT) : pos <= o
        BY <1>5, <1>9, <3>1
      <3>3. QED
        BY <1>5, <1>9, <3>2 DEF FmtAt
    <2>2. /\ AtChunk(w, pos, DATA, SeekAt(w, pos + 2, w[pos + 2]), ReadAt(w, pos + 2, h, 4))
          /\ pos + 6 <= Len(w) => ReadAt(w, pos + 2, h, 4) = SubSeq(w, pos + 3, pos + 6)
      BY <1>1, <1>3, <1>4, <1>5, <1>9, <2>1, ReadsFmt
    <2>3. AtChunk(w, pos, DATA, pos', buf')
      BY <1>1, <1>5, <1>6, <1>9, <2>2 DEF c
    <2>4. format' = FormatAt(w, pos)
      <3>1. q + 4 = pos + 6
        BY <1>5, <1>9 DEF LoadTypeOK, ReaderOK
      <3>2. QED
        BY <1>1, <1>4, <1>5, <1>9, <2>2, <3>1 DEF FormatAt, c
    <2>5. ReaderInv'
      BY <1>1, <1>2, <1>4, <1>7, <1>9, <2>1, <2>3, <2>4 DEF ReaderInv
    <2>6. QED
      BY <1>8, <2>5
  <1>10. CASE h[1] # FMT
    <2>1. AtChunk(w, 0, FMT, pos', buf')
      BY <1>1, <1>5, <1>6, <1>10
    <2>2. ReaderInv'
      BY <1>1, <1>2, <1>4, <1>7, <1>10, <2>1 DEF ReaderInv
    <2>3. QED
      BY <1>8, <2>2
  <1>11. QED
    BY <1>9, <1>10

\* The search for "data" goes on, or ends with what the reference says.
LEMMA DataStep ==
    ASSUME LoadTypeOK, RegularDir, ReaderInv, LoadedInv, FindData
    PROVE  ReaderInv' /\ LoadedInv'
  <1> DEFINE w == File
             h == Read(2)
             q == pos + Got(2)
  <1>1. /\ h = ReadAt(w, pos, buf, 2) /\ q = pos + GotAt(w, pos, 2)
        /\ h \in [1 .. 4 -> Int] /\ q \in Nat /\ q <= Len(w)
        /\ buf' = h /\ UNCHANGED <<all, state, format>>
        /\ h[1] # DATA => pos' = Seek(q, h[2]) /\ UNCHANGED <<dir, mywavs, lpc>>
        /\ h[1] = DATA => pos' = q /\ NextFile
        /\ h[1] = DATA /\ AllData(q, h[2]) =>
               mywavs' = Append(mywavs, [data |-> SubSeq(w, q + 1, q + h[2]),
                                         format |-> format])
        /\ h[1] = DATA /\ ~ AllData(q, h[2]) => mywavs' = mywavs
    BY FindDataIs
  <1>2. /\ lpc = "chunk" /\ state = "FIND_DATA" /\ dir # << >> /\ buf \in [1 .. 4 -> Int]
        /\ Head(dir).kind = "wave" /\ mywavs \in Seq(Record) /\ format \in Seq(Int)
        /\ pos \in Nat
    BY DEF FindData, LoadTypeOK, ReaderOK
  <1>3. w \in Seq(Int) /\ Regular(w)
    BY <1>2, OpenFile DEF LoadTypeOK
  <1>4. IsWave(w) /\ \E f \in FmtAt(w) : format = FormatAt(w, f) /\ AtChunk(w, f, DATA, pos, buf)
    BY <1>2 DEF ReaderInv
  <1>5. IsWave(w)
    BY <1>4
  <1>6. PICK f \in FmtAt(w) : format = FormatAt(w, f) /\ AtChunk(w, f, DATA, pos, buf)
    BY <1>4
  <1>7. f \in Nat
    BY <1>3, <1>4, ChunkFacts DEF FmtAt, At, IsWave
  <1>8. LET a == ReadAt(w, pos, buf, 2)
             e == pos + GotAt(w, pos, 2)
         IN  /\ a[2] >= 0
             /\ a[1] = DATA =>
                    /\ pos \in At(w, DATA) /\ f < pos /\ e = pos + 2 /\ a[2] = w[pos + 2]
                    /\ \A o \in At(w, DATA) : f < o => pos <= o
             /\ a[1] # DATA => AtChunk(w, f, DATA, SeekAt(w, e, a[2]), a)
    <2> HIDE DEF w
    <2>1. QED
      BY <1>2, <1>3, <1>6, <1>7, <1>5, ReadsChunk
  <1>9. /\ h[2] >= 0
        /\ h[1] = DATA =>
               /\ pos \in At(w, DATA) /\ f < pos /\ q = pos + 2 /\ h[2] = w[pos + 2]
               /\ \A o \in At(w, DATA) : f < o => pos <= o
        /\ h[1] # DATA => AtChunk(w, f, DATA, SeekAt(w, q, h[2]), h)
    BY <1>1, <1>8
  <1>10. CASE h[1] # DATA
    <2>1. pos' = SeekAt(w, q, h[2])
      <3>1. h[2] \in Nat
        BY <1>1, <1>9
      <3>2. QED
        BY <1>1, <1>10, <3>1, ReadIs
    <2>2. File' = w
      BY <1>1, <1>10 DEF File
    <2> HIDE DEF w, h, q
    <2>3. AtChunk(w, f, DATA, pos', buf')
      BY <1>1, <1>9, <1>10, <2>1
    <2>4. ReaderInv'
      BY <1>1, <1>2, <1>4, <1>6, <1>10, <2>2, <2>3 DEF ReaderInv
    <2>5. LoadedInv'
      BY <1>1, <1>10, SameFiles DEF LoadedInv, Seen
    <2>6. QED
      BY <2>4, <2>5
  <1>11. CASE h[1] = DATA
    <2>1. /\ Returns(w)
          /\ Loads(w) <=> pos + 2 + w[pos + 2] <= Len(w)
          /\ Loaded(w) = [data |-> SubSeq(w, pos + 3, pos + 2 + w[pos + 2]),
                          format |-> FormatAt(w, f)]
      BY <1>3, <1>4, <1>6, <1>9, <1>11, FoundData
    <2>2. pos + 2 = q /\ pos + 3 = q + 1 /\ pos + 2 + w[pos + 2] = q + h[2]
      BY <1>2, <1>9, <1>11
    <2>3. AllData(q, h[2]) <=> Loads(w)
      BY <1>9, <2>1, <2>2 DEF AllData
    <2>4. Loaded(w) = [data |-> SubSeq(w, q + 1, q + h[2]), format |-> format]
      BY <1>6, <2>1, <2>2
    <2>5. Loads(w) => Loaded(w) \in Record
      <3>1. Loads(w) => q + h[2] <= Len(w)
        BY <2>1, <2>2
      <3>2. h[2] \in Nat
        BY <1>1, <1>9
      <3>3. Loads(w) => SubSeq(w, q + 1, q + h[2]) \in Seq(Int)
        BY <1>1, <1>3, <3>1, <3>2, DataIsInts
      <3>4. QED
        BY <1>2, <2>4, <3>3 DEF Record
    <2>6. lpc' = "find" /\ dir' = Tail(dir)
      BY <1>1, <1>11 DEF NextFile
    <2>7. ReaderInv'
      BY <1>1, <1>11, <2>6 DEF ReaderInv, DATA, RIFF
    <2>8. \/ ~ Loads(w) /\ mywavs' = mywavs
          \/ Loads(w) /\ Loaded(w) \in Record /\ mywavs' = Append(mywavs, Loaded(w))
      BY <1>1, <1>11, <2>3, <2>4, <2>5
    <2>9. LoadedInv'
      BY <1>1, <1>2, <2>1, <2>6, <2>8, NextRecord DEF LoadTypeOK
    <2>10. QED
      BY <2>7, <2>9
  <1>12. QED
    BY <1>10, <1>11

-----------------------------------------------------------------------------
(* WaveFile: the theorem                                                   *)

\* The invariant holds when load_wavs begins.
LEMMA LoadInitially == LoadInit => LoadInv
  <1> SUFFICES ASSUME LoadInit PROVE LoadInv
    OBVIOUS
  <1>1. all \in Seq(Entry) /\ dir = all /\ mywavs = << >>
    BY DirsAssumption DEF LoadInit
  <1>2. Seen = 0 /\ Len(all) \in Nat
    BY <1>1 DEF Seen
  <1>3. DirOK
    BY <1>1, <1>2 DEF DirOK
  <1>4. ReaderOK
    BY <1>1 DEF LoadInit, ReaderOK, Junk, NoFormat
  <1>5. ReaderInv
    BY DEF LoadInit, ReaderInv, Junk, RIFF
  <1>6. LoadedInv
    <2>1. Index(0) = 0 /\ Len(mywavs) = 0
      BY <1>1, IndexIs
    <2>2. \A k \in Loadable : ~ (k <= 0)
      BY DEF Loadable
    <2>3. QED
      BY <1>2, <2>1, <2>2 DEF LoadedInv
  <1>7. QED
    BY <1>3, <1>4, <1>5, <1>6 DEF LoadInv, LoadTypeOK

\* Every step keeps the invariant.
LEMMA LoadStep ==
    ASSUME LoadInv, [LoadNext]_loadVars
    PROVE  LoadInv'
  <1>1. LoadTypeOK'
    BY LoadTypeStep DEF LoadInv
  <1>2. all' = all
    BY DEF LoadNext, LoadWavs, OpenNext, ReadHeader, FindFmt, FindData, Finish, Done, loadVars
  <1>3. RegularDir' = RegularDir
    BY <1>2, SameFiles
  <1> SUFFICES ASSUME RegularDir PROVE ReaderInv' /\ LoadedInv'
    BY <1>1, <1>3 DEF LoadInv
  <1>4. LoadTypeOK /\ ReaderInv /\ LoadedInv
    BY DEF LoadInv
  <1>5. CASE OpenNext
    <2>1. lpc = "find" /\ buf' \in {buf, Junk} /\ dir # << >> /\ mywavs' = mywavs
      BY <1>5 DEF OpenNext, Fails, FailedSlot
    <2>2. ~ (buf'[1] = RIFF /\ buf'[3] = WAVE) /\ lpc' \in {"find", "header"}
      BY <1>4, <1>5, <2>1 DEF OpenNext, ReaderInv, Junk, RIFF, Fails, NextFile
    <2>3. ReaderInv'
      BY <2>2 DEF ReaderInv
    <2>4. LoadedInv'
      <3>1. CASE dir' = dir
        BY <1>2, <1>4, <2>1, <3>1, SameFiles DEF LoadedInv, Seen
      <3>2. CASE Head(dir).kind # "wave" /\ dir' = Tail(dir)
        <4>1. Head(dir) \in Entry
          BY <1>4, <2>1, OpenFile DEF LoadTypeOK
        <4>2. File = << >>
          BY <3>2, <4>1 DEF Entry, File
        <4>3. Returns(File)
          BY <4>2 DEF Returns, IsWave
        <4>4. QED
          BY <1>2, <1>4, <2>1, <3>2, <4>3, NextRecord DEF LoadTypeOK, ReaderOK
      <3>3. QED
        BY <1>5, <3>1, <3>2 DEF OpenNext, Fails, NextFile
    <2>5. QED
      BY <2>3, <2>4
  <1>6. CASE ReadHeader
    BY <1>4, <1>6, HeaderStep
  <1>7. CASE FindFmt
    BY <1>4, <1>7, FmtStep
  <1>8. CASE FindData
    BY <1>4, <1>8, DataStep
  <1>9. CASE Finish
    <2>1. ReaderInv'
      BY <1>9 DEF Finish, ReaderInv
    <2>2. LoadedInv'
      BY <1>2, <1>4, <1>9, SameFiles DEF Finish, LoadedInv, Seen
    <2>3. QED
      BY <2>1, <2>2
  <1>10. CASE UNCHANGED loadVars
    <2>1. ReaderInv'
      BY <1>4, <1>10 DEF loadVars, reader, ReaderInv, File
    <2>2. LoadedInv'
      BY <1>2, <1>4, <1>10, SameFiles DEF loadVars, LoadedInv, Seen
    <2>3. QED
      BY <2>1, <2>2
  <1>11. QED
    BY <1>5, <1>6, <1>7, <1>8, <1>9, <1>10 DEF LoadNext, LoadWavs, Done

\* For all files and directories: what load_wavs leaves in mywavs is what the
\* reference says, if no short read is taken for something else (wave_player.c:69-172,
\* 461-501).
THEOREM DataIsLoaded == LoadSpec => []LoadsTheData
  <1>1. LoadInit => LoadInv
    BY LoadInitially
  <1>2. LoadInv /\ [LoadNext]_loadVars => LoadInv'
    BY LoadStep
  <1>3. LoadInv => LoadsTheData
    <2> SUFFICES ASSUME LoadInv, lpc = "done", RegularDir
                 PROVE  /\ ReturningDir
                        /\ Len(mywavs) = Cardinality(Loadable)
                        /\ \A k \in Loadable : mywavs[Index(k)] = Loaded(all[k].words)
      BY DEF LoadsTheData
    <2>1. dir = << >> /\ all \in Seq(Entry) /\ LoadedInv
      BY DEF LoadInv, LoadTypeOK, DirOK, ReaderOK
    <2>2. Seen = Len(all) /\ Len(all) \in Nat
      BY <2>1 DEF Seen
    <2>3. \A k \in Loadable : k <= Seen
      BY <2>2 DEF Loadable
    <2>4. Index(Len(all)) = Cardinality(Loadable)
      BY <2>1, IndexIs
    <2>5. QED
      BY <2>1, <2>2, <2>3, <2>4 DEF LoadedInv, ReturningDir
  <1>4. QED
    BY <1>1, <1>2, <1>3, PTL DEF LoadSpec

-----------------------------------------------------------------------------
(* WaveFile: no step in vain                                               *)

\* Nearer to the end of load_wavs: an entry less, a file opened, its header read, or
\* a place farther behind in it.
Rank == [find |-> 2, header |-> 1, chunk |-> 0, done |-> 0]
Nearer ==
    \/ Len(dir') < Len(dir)
    \/ dir' = dir /\ Rank[lpc'] < Rank[lpc]
    \/ dir' = dir /\ lpc' = lpc /\ lpc = "chunk" /\ pos < pos' /\ pos' <= Len(File)

\* In a file that has its data, the reader stands at a chunk until it has found them.
LEMMA StandsAtChunk ==
    ASSUME LoadTypeOK, ReaderInv, ReturningDir, lpc = "chunk"
    PROVE  /\ pos \in Chunks(File) /\ IsWave(File) /\ Regular(File) /\ File \in Seq(Int)
           /\ dir # << >>
  <1> DEFINE w == File
  <1>1. dir # << >>
    BY DEF LoadTypeOK, ReaderOK
  <1>2. w \in Seq(Int) /\ Seen + 1 \in 1 .. Len(all) /\ Head(dir) = all[Seen + 1]
    BY <1>1, OpenFile DEF LoadTypeOK
  <1>3. Regular(w) /\ Returns(w)
    BY <1>2 DEF ReturningDir, RegularDir, File
  <1>4. IsWave(w)
    BY DEF ReaderInv
  <1>5. PICK d \in At(w, DATA), f \in FmtAt(w) : f < d
    BY <1>3, <1>4 DEF Returns, DataAt
  <1>6. \A q \in Chunks(w) : q \in 3 .. (Len(w) - 2)
    BY <1>2, <1>4, ChunkFacts DEF IsWave
  <1>7. f \in At(w, FMT) /\ f \in Nat /\ 0 < f /\ d \in Nat
    BY <1>5, <1>6 DEF FmtAt, At
  <1>8. state \in {"FIND_FMT", "FIND_DATA"}
    BY DEF LoadTypeOK, ReaderOK
  <1>9. CASE state = "FIND_FMT"
    <2>1. AtChunk(w, 0, FMT, pos, buf)
      BY <1>9 DEF ReaderInv
    <2>2. ~ \A q \in At(w, FMT) : q <= 0
      BY <1>7
    <2>3. pos \in Chunks(w)
      BY <2>1, <2>2 DEF AtChunk
    <2>4. QED
      BY <1>1, <1>2, <1>3, <1>4, <2>3
  <1>10. CASE state = "FIND_DATA"
    <2>1. PICK g \in FmtAt(w) : AtChunk(w, g, DATA, pos, buf)
      BY <1>10 DEF ReaderInv
    <2>2. g \in Nat /\ g <= f
      BY <1>6, <1>7, <2>1 DEF FmtAt, At
    <2>3. ~ (d <= g)
      BY <1>5, <1>7, <2>2
    <2>4. pos \in Chunks(w)
      BY <1>5, <2>1, <2>3 DEF AtChunk
    <2>5. QED
      BY <1>1, <1>2, <1>3, <1>4, <2>4
  <1>11. QED
    BY <1>8, <1>9, <1>10

\* At a chunk, a seek over it goes on.
LEMMA SeekGoesOn ==
    ASSUME NEW w \in Seq(Int), IsWave(w), Regular(w), NEW p \in Chunks(w),
           NEW b \in [1 .. 4 -> Int]
    PROVE  LET h == ReadAt(w, p, b, 2)
               q == p + GotAt(w, p, 2)
               r == SeekAt(w, q, h[2])
           IN  h[2] \in Nat /\ q \in Nat /\ p < r /\ r <= Len(w)
  <1>1. Len(w) \in Nat /\ Len(w) >= 3
    BY DEF IsWave
  <1>2. p \in 3 .. (Len(w) - 2) /\ w[p + 2] \in Nat
    BY NextChunk
  <1>3. GotAt(w, p, 2) = 2
    BY <1>1, <1>2 DEF GotAt
  <1>4. ReadAt(w, p, b, 2)[2] = w[p + 2]
    BY <1>3 DEF ReadAt
  <1> DEFINE v == w[p + 2]
  <1>5. SeekAt(w, p + 2, v) = IF p + 2 + v > Len(w) THEN Len(w) ELSE p + 2 + v
    BY DEF SeekAt
  <1>6. v \in Nat
    BY <1>2
  <1> HIDE DEF v
  <1>7. p < SeekAt(w, p + 2, v) /\ SeekAt(w, p + 2, v) <= Len(w) /\ p + 2 \in Nat
    <2> DEFINE s == SeekAt(w, p + 2, v)
    <2>1. p \in Nat /\ p + 2 <= Len(w) /\ s = IF p + 2 + v > Len(w) THEN Len(w) ELSE p + 2 + v
      BY <1>1, <1>2, <1>5
    <2> HIDE DEF s
    <2>2. p < s /\ s <= Len(w)
      BY <1>1, <1>6, <2>1
    <2>3. QED
      BY <2>1, <2>2 DEF s
  <1>8. QED
    BY <1>2, <1>3, <1>4, <1>7 DEF v

\* One entry less.
LEMMA TailIsShorter ==
    ASSUME DirOK, dir # << >>, dir' = Tail(dir)
    PROVE  Len(dir') < Len(dir)
  <1>1. Len(dir') = Len(dir) - 1 /\ Len(dir) \in Nat
    BY HeadTailProperties DEF DirOK
  <1>2. QED
    BY <1>1

\* If every file is no wave file or has its data behind its format, each step of
\* load_wavs brings it nearer to its end, whatever a short read leaves in buf. What
\* is left to LoadsAll is that the thread that loads goes on.
\* As long as every file has its data or is no wave file, and no short read is taken
\* for a chunk, no step of load_wavs is in vain: none reads the same place twice.
THEOREM NoStepInVain == LoadSpec => [][LoadWavs /\ ReturningDir => Nearer]_loadVars
  <1>1. LoadInit => LoadInv
    BY LoadInitially
  <1>2. LoadInv /\ [LoadNext]_loadVars => LoadInv'
    BY LoadStep
  <1>3. ASSUME LoadInv, LoadWavs, ReturningDir PROVE Nearer
    <2>1. LoadTypeOK /\ DirOK /\ ReaderInv
      BY <1>3 DEF LoadInv, LoadTypeOK, ReturningDir
    <2>2. ASSUME dir # << >>, dir' = Tail(dir) PROVE Nearer
      BY <2>1, <2>2, TailIsShorter DEF Nearer
    <2>3. CASE OpenNext
      <3>1. /\ lpc = "find" /\ dir # << >>
            /\ \/ lpc' = "header" /\ dir' = dir
               \/ dir' = Tail(dir)
        BY <2>3 DEF OpenNext, NextFile, Fails
      <3>2. QED
        BY <2>2, <3>1 DEF Nearer, Rank
    <2>4. CASE ReadHeader
      <3>1. /\ lpc = "header"
            /\ \/ lpc' = "chunk" /\ dir' = dir
               \/ dir' = Tail(dir)
        BY <2>4 DEF ReadHeader, NextFile, Fails
      <3>2. dir # << >>
        BY <2>1, <3>1 DEF LoadTypeOK, ReaderOK
      <3>3. QED
        BY <2>2, <3>1, <3>2 DEF Nearer, Rank
    <2>5. CASE FindFmt
      <3> DEFINE h == Read(2)
                 q == pos + Got(2)
      <3>1. /\ h = ReadAt(File, pos, buf, 2) /\ q = pos + GotAt(File, pos, 2)
            /\ pos' = Seek(q, h[2]) /\ dir' = dir /\ lpc' = lpc
        BY <2>1, <2>5, FindFmtIs
      <3>2. lpc = "chunk" /\ buf \in [1 .. 4 -> Int]
        BY <2>1, <2>5 DEF FindFmt, LoadTypeOK, ReaderOK
      <3>3. pos \in Chunks(File) /\ IsWave(File) /\ Regular(File) /\ File \in Seq(Int)
        BY <1>3, <2>1, <3>2, StandsAtChunk
      <3> HIDE DEF h, q
      <3>4. h[2] \in Nat /\ q \in Nat /\ pos < SeekAt(File, q, h[2])
            /\ SeekAt(File, q, h[2]) <= Len(File)
        BY <3>1, <3>2, <3>3, SeekGoesOn
      <3>5. pos' = SeekAt(File, q, h[2])
        BY <3>1, <3>4, ReadIs
      <3>6. QED
        BY <3>1, <3>2, <3>4, <3>5 DEF Nearer
    <2>6. CASE FindData
      <3> DEFINE h == Read(2)
                 q == pos + Got(2)
      <3>1. /\ h = ReadAt(File, pos, buf, 2) /\ q = pos + GotAt(File, pos, 2)
            /\ h[1] # DATA => pos' = Seek(q, h[2]) /\ dir' = dir /\ lpc' = lpc
            /\ h[1] = DATA => dir' = Tail(dir)
        BY <2>1, <2>6, FindDataIs DEF NextFile
      <3>2. lpc = "chunk" /\ buf \in [1 .. 4 -> Int]
        BY <2>1, <2>6 DEF FindData, LoadTypeOK, ReaderOK
      <3>3. /\ pos \in Chunks(File) /\ IsWave(File) /\ Regular(File) /\ File \in Seq(Int)
            /\ dir # << >>
        BY <1>3, <2>1, <3>2, StandsAtChunk
      <3> HIDE DEF h, q
      <3>4. h[2] \in Nat /\ q \in Nat /\ pos < SeekAt(File, q, h[2])
            /\ SeekAt(File, q, h[2]) <= Len(File)
        BY <3>1, <3>2, <3>3, SeekGoesOn
      <3>5. CASE h[1] # DATA
        <4>1. pos' = SeekAt(File, q, h[2])
          BY <3>1, <3>4, <3>5, ReadIs
        <4>2. QED
          BY <3>1, <3>2, <3>4, <3>5, <4>1 DEF Nearer
      <3>6. CASE h[1] = DATA
        BY <2>2, <3>1, <3>3, <3>6
      <3>7. QED
        BY <3>5, <3>6
    <2>7. CASE Finish
      BY <2>7 DEF Finish, Nearer, Rank
    <2>8. QED
      BY <1>3, <2>3, <2>4, <2>5, <2>6, <2>7 DEF LoadWavs
  <1>4. LoadInv /\ [LoadNext]_loadVars => [LoadWavs /\ ReturningDir => Nearer]_loadVars
    BY <1>3
  <1>5. QED
    BY <1>1, <1>2, <1>4, PTL DEF LoadSpec
=============================================================================
