--------------------------- MODULE MCNktSingle ---------------------------
(***************************************************************************)
(* A one-track song: a first event at once, a tempo change that shares its *)
(* tick with the event behind it, an event whose delta needs a second      *)
(* byte, another tempo change, a last event, the end.                      *)
(***************************************************************************)
EXTENDS NktSongs

MCSong == <<<<Data(0), Tempo(2, 1), Data(2), Data(3), Tempo(1, 3), Data(1), Data(1), End(1)>>>>
MCBlockOffset == OffsetsOf(MCSong)

\* The demo starts with NKT_PLAY_ONCE alone.
MCInitialStates == {{NKT_PLAY_ONCE}, {NKT_PS_PLAYING}}

ASSUME SongIsPaired == PairedTempos /\ EndsAreLast /\ TemposApart
ASSUME ClockIsShort == CLOCK_MAX <= FRAC * ELAPSED_MOD
=============================================================================
