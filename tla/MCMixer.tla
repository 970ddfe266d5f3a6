------------------------------- MODULE MCMixer -------------------------------
(* Mixer with speeds of halves, up to twice the normal one, and samples of   *)
(* four frames: 16 bit stereo and mono, 8 bit, one that ends inside a frame,*)
(* one shorter than a frame, one without data, two without a frame size.     *)
EXTENDS Mixer

MCSpeeds == -3 .. 4
Wav(b, c, n) == [bytes |-> b, channels |-> c, data_len |-> n]
MCSamples == {Wav(2, 2, 16), Wav(2, 1, 8), Wav(1, 2, 8), Wav(2, 2, 15),
              Wav(2, 2, 3), Wav(2, 2, 0), Wav(0, 2, 8), Wav(2, 0, 8)}
=============================================================================
