---------------------------- MODULE MCWavePlayer ----------------------------
(* WavePlayer with two buffers, two slots and two devices in turn.          *)
EXTENDS WavePlayer
=============================================================================
