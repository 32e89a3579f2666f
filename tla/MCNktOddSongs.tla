--------------------------- MODULE MCNktOddSongs ---------------------------
(***************************************************************************)
(* Songs the converter writes that the replay does not play as written.    *)
(***************************************************************************)
EXTENDS NktSongs

\* A tempo change behind an event in the same tick: the converter gives it the
\* delta 0 and puts it in front of the event, whose delta needs a second byte.
TempoBehindEvent  == <<<<Data(0), Tempo(0, 3), Data(4), Data(1), End(1)>>>>
TempoBehindOffset == OffsetsOf(TempoBehindEvent)

\* An ordinary song at an ordinary tempo: more than 125 beats a minute take more
\* than a tick at 200 Hz, with the 96 ticks to the beat of every converted song.
\* 160 beats take a tick and a third.
FastSong       == <<<<Tempo(0, 4), Data(0), Data(1), End(1)>>>>
FastSongOffset == OffsetsOf(FastSong)

MCInitialStates == {{NKT_PLAY_ONCE}}
=============================================================================
