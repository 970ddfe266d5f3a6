----------------------------- MODULE MCWaveFile -----------------------------
(* WaveFile on directories of up to two entries: three complete files - a    *)
(* plain one, one with chunks before and between and a long format, one with *)
(* a short format and two data chunks -, everything they are when they end   *)
(* too early, one with data first, two whose chunk has a negative length, and *)
(* three that leave in buf what can pass for the header of a file or a chunk. *)
EXTENDS WaveFile, SequencesExt

Head3 == <<RIFF, 8, WAVE>>
Plain == Head3 \o <<FMT, 4, 21, 22, 23, 24, DATA, 2, 31, 32>>
Mixed == Head3 \o <<LIST, 1, 9, FMT, 5, 21, 22, 23, 24, 25, LIST, 0,
                    DATA, 1, 33>>
Short == Head3 \o <<FMT, 2, 21, 22, DATA, 0, DATA, 1, 34>>
First == Head3 \o <<DATA, 1, 35, FMT, 4, 21, 22, 23, 24, DATA, 1, 36>>
Back  == Head3 \o <<LIST, -2, FMT, 4, 21, 22, 23, 24, DATA, 1, 37>>
Start == Head3 \o <<LIST, -9, FMT, 4, 21, 22, 23, 24, DATA, 1, 38>>

Bare  == Head3 \o <<FMT, 0, DATA, 0>>
Ends  == Head3 \o <<FMT, 4, DATA, 0, 23, 24>>
Turns == <<RIFF, -2, WAVE>>

MCFiles == Prefixes(Plain) \union Prefixes(Mixed) \union Prefixes(Short)
             \union {First, Back, Start, Bare, Ends, Turns, <<RIFF, 8, LIST>>}

Wave(w) == [kind |-> "wave", words |-> w]
Other(k) == [kind |-> k, words |-> << >>]
Entries == {Wave(w) : w \in MCFiles} \union {Other("locked"), Other("example")}
MCDirs == {<< >>} \union {<<e>> : e \in Entries}
             \union {<<e, f>> : e \in Entries, f \in Entries}
=============================================================================
