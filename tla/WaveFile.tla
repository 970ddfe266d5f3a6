------------------------------ MODULE WaveFile ------------------------------
(***************************************************************************)
(* wave_player.c:69-172 and 461-501: load_wavs reads the files of wavs\    *)
(* one after the other into mywavs; read_wave_file looks for the chunk     *)
(* "fmt " and, behind it, for the chunk "data".  A read that comes back    *)
(* short is logged and not acted on: the loop goes on with what buf still  *)
(* holds.                                                                  *)
(*                                                                         *)
(* A file is a sequence of words of 4 bytes, and a word an integer; the    *)
(* ids, taken for a length, are larger than any file, as ASCII is.  Chunks *)
(* of odd length are left out.  Only the first words of buf are ever used. *)
(***************************************************************************)
EXTENDS Integers, Sequences, FiniteSets

CONSTANTS Files,    \* contents of wave files
          Dirs      \* bound: directories, as sequences of entries

RIFF == 1001
WAVE == 1002
FMT  == 1003
DATA == 1004
LIST == 1005     \* any other id
Junk == <<0, 0, 0, 0>>

Entry == [kind : {"wave"}, words : Files]
            \union [kind : {"locked", "example"}, words : {<< >>}]
ASSUME FilesAssumption == Files \subseteq Seq(Int)
ASSUME DirsAssumption == Dirs \subseteq Seq(Entry)

VARIABLES dir,              \* the entries find has not returned yet
          all,              \* history: the whole directory
          mywavs,           \* the files loaded so far; index is their number
          lpc, state,       \* where read_wave_file is, FIND_FMT or FIND_DATA
          pos, buf,         \* of the open file, and its first words of buf
          format            \* the first words of "fmt ", if they were there

reader   == <<state, pos, buf, format>>
loadVars == <<dir, all, mywavs, lpc, reader>>

NoFormat == << >>

LoadInit ==
    /\ dir \in Dirs /\ all = dir /\ mywavs = << >>
    /\ lpc = "find" /\ state = "FIND_FMT" /\ pos = 0 /\ buf = Junk
    /\ format = NoFormat

-----------------------------------------------------------------------------
File == Head(dir).words

\* fread: how many of n words there are, and buf with them.
Got(n) == IF pos + n <= Len(File) THEN n ELSE Len(File) - pos
Read(n) == [k \in 1 .. 4 |-> IF k <= Got(n) THEN File[pos + k] ELSE buf[k]]

\* fseek from p by n fails before the start.  Behind the end it is kept at the end:
\* no read finds anything there, and in a Regular file no later seek goes back.
Seek(p, n) == IF p + n < 0 THEN p
              ELSE IF p + n > Len(File) THEN Len(File) ELSE p + n

\* Slips: a failed file keeps its slot, a chunk is looked for inside "fmt ".
KeepsSlot == Append(mywavs, [data |-> << >>, format |-> NoFormat])
FailedSlot == mywavs

StaysInFmt(b) == Seek(pos + Got(2), 0)
BehindFmt(b) == Seek(pos + Got(2), b[2])

AllData(p, n) == n >= 0 /\ p + n <= Len(File)

NextFile == lpc' = "find" /\ dir' = Tail(dir)
Fails == NextFile /\ mywavs' = FailedSlot

-----------------------------------------------------------------------------
\* do { } while(FindNextFile) of load_wavs; read_wave_file opens the file, its
\* buf is what the stack holds: that of the call before, or anything else.
OpenNext ==
    /\ lpc = "find" /\ dir # << >>
    /\ IF Head(dir).kind = "wave"
       THEN lpc' = "header" /\ UNCHANGED <<dir, mywavs>>
       ELSE IF Head(dir).kind = "example" THEN NextFile /\ UNCHANGED mywavs
       ELSE Fails
    /\ state' = "FIND_FMT" /\ pos' = 0 /\ format' = NoFormat
    /\ buf' \in {buf, Junk}
    /\ UNCHANGED all

ReadHeader ==
    /\ lpc = "header"
    /\ buf' = Read(3) /\ pos' = pos + Got(3)
    /\ IF buf'[1] = RIFF /\ buf'[3] = WAVE
       THEN lpc' = "chunk" /\ UNCHANGED <<dir, mywavs>>
       ELSE Fails
    /\ UNCHANGED <<all, state, format>>

\* The first words of the chunk "fmt " go to buf too; then the chunk is skipped.
FindFmt ==
    /\ lpc = "chunk" /\ state = "FIND_FMT"
    /\ LET b == Read(2)
           p == pos + Got(2)
           n == IF p + 4 <= Len(File) THEN 4 ELSE Len(File) - p
           w == [k \in 1 .. 4 |-> IF k <= n THEN File[p + k] ELSE b[k]]
       IN  /\ IF b[1] = FMT
              THEN /\ state' = "FIND_DATA" /\ buf' = w
                   /\ format' = IF n = 4 THEN w ELSE format
              ELSE buf' = b /\ UNCHANGED <<state, format>>
           /\ pos' = BehindFmt(b)
    /\ UNCHANGED <<dir, all, mywavs, lpc>>

\* malloc refuses a negative length; a file that holds less than it says is
\* dropped.
FindData ==
    /\ lpc = "chunk" /\ state = "FIND_DATA"
    /\ buf' = Read(2)
    /\ LET p == pos + Got(2)
           n == buf'[2]
       IN  IF buf'[1] # DATA
           THEN pos' = Seek(p, n) /\ UNCHANGED <<dir, mywavs, lpc>>
           ELSE /\ pos' = p
                /\ IF AllData(p, n)
                   THEN /\ NextFile
                        /\ mywavs' = Append(mywavs,
                                        [data |-> SubSeq(File, p + 1, p + n),
                                         format |-> format])
                   ELSE Fails
    /\ UNCHANGED <<all, state, format>>

Finish == /\ lpc = "find" /\ dir = << >> /\ lpc' = "done"
          /\ UNCHANGED <<dir, all, mywavs, reader>>

Done == lpc = "done" /\ UNCHANGED loadVars

LoadWavs == OpenNext \/ ReadHeader \/ FindFmt \/ FindData \/ Finish

LoadNext == LoadWavs \/ Done

LoadSpec == LoadInit /\ [][LoadNext]_loadVars

FairLoadSpec == LoadSpec /\ WF_loadVars(LoadWavs)

-----------------------------------------------------------------------------
(* Properties                                                              *)

\* The reference: the chunks of a file, each by the position of its header.
ChunksFrom(w) ==
    LET from[p \in 0 .. Len(w)] ==
            IF p + 2 > Len(w) THEN {}
            ELSE IF w[p + 2] < 0 \/ p + 2 + w[p + 2] > Len(w) THEN {p}
            ELSE {p} \union from[p + 2 + w[p + 2]]
    IN  from
Chunks(w) == ChunksFrom(w)[3]

IsWave(w) == Len(w) >= 3 /\ w[1] = RIFF /\ w[3] = WAVE
At(w, id) == {p \in Chunks(w) : w[p + 1] = id}
FmtAt(w)  == {p \in At(w, FMT) : \A q \in At(w, FMT) : p <= q}
DataAt(w) == {p \in At(w, DATA) : \E f \in FmtAt(w) :
                 f < p /\ \A q \in At(w, DATA) : f < q => p <= q}
EndsAt(w, p) == \A q \in Chunks(w) : q <= p

\* What a short read leaves in buf passes for nothing it is not: the file does not
\* end inside its header, when WAVE can be left of the file before, nor inside the
\* header of a chunk; no chunk has a negative length, nor has RIFF if there is none;
\* and what a "fmt " at the end leaves is no chunk "data" and no negative length.
Regular(w) ==
    /\ ~ (Len(w) \in {1, 2} /\ w[1] = RIFF)
    /\ IsWave(w) =>
           /\ \A p \in Chunks(w) : w[p + 2] >= 0 /\ p + 2 + w[p + 2] + 1 # Len(w)
           /\ Chunks(w) = {} => Len(w) = 3 /\ w[2] >= 0
           /\ \A f \in FmtAt(w) : EndsAt(w, f) =>
                  /\ f + 3 <= Len(w) => w[f + 3] # DATA
                  /\ f + 4 <= Len(w) => w[f + 4] >= 0

Returns(w) == IsWave(w) => DataAt(w) # {}
Loads(w) == IsWave(w) /\ \E d \in DataAt(w) : d + 2 + w[d + 2] <= Len(w)

Loaded(w) ==
    LET f == CHOOSE p \in FmtAt(w) : TRUE
        d == CHOOSE p \in DataAt(w) : TRUE
    IN  [data   |-> SubSeq(w, d + 3, d + 2 + w[d + 2]),
         format |-> IF f + 6 <= Len(w) THEN SubSeq(w, f + 3, f + 6)
                                       ELSE NoFormat]

RegularDir == \A k \in 1 .. Len(all) : Regular(all[k].words)
ReturningDir == RegularDir /\ \A k \in 1 .. Len(all) : Returns(all[k].words)
Loadable == {k \in 1 .. Len(all) : all[k].kind = "wave" /\ Loads(all[k].words)}
Index(k) == Cardinality({j \in Loadable : j <= k})

\* If load_wavs returns, mywavs has no gaps and holds, for each file that has its
\* data, the data of the first such chunk behind the first "fmt ", with the
\* format from there, in the order of the directory; and no file was without
\* data, which is not noticed.
LoadsTheData ==
    lpc = "done" /\ RegularDir =>
        /\ ReturningDir
        /\ Len(mywavs) = Cardinality(Loadable)
        /\ \A k \in Loadable : mywavs[Index(k)] = Loaded(all[k].words)

\* load_wavs returns when every file is no wave file at all, or has a data
\* chunk behind its format, cut off or not.  A file that ends before keeps the
\* loop going for ever.
LoadsAll == ReturningDir ~> lpc = "done"
=============================================================================
