---------------------------- MODULE MCNktMulti ----------------------------
(***************************************************************************)
(* Three tracks, the middle one with the tempo change.  Two of them have an *)
(* event to send in the same interrupt.  Nobody asks for a volume.         *)
(***************************************************************************)
EXTENDS NktSongs, NktPlayer

MCSong == << <<Data(0), Data(2), End(1)>>,
             <<Tempo(1, 1), Data(1), End(1)>>,
             <<Data(0), Data(3), End(0)>> >>
MCBlockOffset == OffsetsOf(MCSong)
MCInitialStates == {{NKT_PLAY_ONCE}, {NKT_PS_PLAYING}}

ASSUME SongIsPaired == PairedTempos /\ EndsAreLast /\ TemposApart /\ StepsBelowTick
ASSUME TempoIsShared == TemposOnOneTrack /\ TracksShareBuffer
ASSUME ClockIsShort == CLOCK_MAX <= FRAC * ELAPSED_MOD
=============================================================================
