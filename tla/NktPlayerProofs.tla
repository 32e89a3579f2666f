--------------------------- MODULE NktPlayerProofs ---------------------------
(***************************************************************************)
(* The player implements the transport it promises, for every song whose   *)
(* tempo changes are paired and whose tracks end with their only end.      *)
(* With its master settings it is the same player in everything else, and  *)
(* the settings it records are those of the device.                        *)
(***************************************************************************)
EXTENDS NktPlayer, NktReplayProofs

-----------------------------------------------------------------------------
(* The promises of the transport.                                          *)

\* The loop runs only while the song plays; a stop that has made its write leaves a
\* halted song; no track has gone past its end; and as many tracks have been counted
\* as the loop has passed only if all of them stand at their ends.
LoopPlays == isr # 0 => /\ hooked /\ NKT_PS_PLAYING \in sequenceState
                        /\ NKT_PS_PAUSED \notin sequenceState
StopHalts ==
  call = "stop" => \/ todo = <<Clear({NKT_PS_PLAYING, NKT_PS_PAUSED})>>
                   \/ /\ todo = << >>
                      /\ sequenceState \cap {NKT_PS_PLAYING, NKT_PS_PAUSED} = {}
BeforeEnd == \A t \in Tracks : currentBlockId[t] < nbOfBlocks(t)
CountedAtEnd ==
  isr # 0 => /\ TrackEndCount < isr
             /\ TrackEndCount = isr - 1 =>
                  \A t \in Tracks : t < isr => currentBlockId[t] = nbOfBlocks(t) - 1

TransportInv == LoopPlays /\ StopHalts /\ BeforeEnd /\ CountedAtEnd

-----------------------------------------------------------------------------
\* The block a track reads is the next one it has.
LEMMA ReadsNext ==
  ASSUME TypeOK, InSync, BeforeEnd, InTrack, NEW b \in Current
  PROVE  /\ currentBlockId[isr] + 1 \in 1..nbOfBlocks(isr)
         /\ b = Numbered(isr, currentBlockId[isr] + 1)
         /\ b.msgType = Song[isr][currentBlockId[isr] + 1].msgType
<1>1. isr \in Tracks /\ currentBlockId[isr] \in Nat /\ nbOfBlocks(isr) \in Nat
  BY SongFacts DEF InTrack, TypeOK
<1>2. currentBlockId[isr] < nbOfBlocks(isr)
  BY <1>1 DEF BeforeEnd
<1>3. Current = {Numbered(isr, currentBlockId[isr] + 1)}
  BY <1>1, <1>2, ReadInSync DEF Current, InSync
<1> QED BY <1>1, <1>2, <1>3 DEF Numbered

\* A track that is at its end stands in front of its last block.
LEMMA StandsAtEnd ==
  ASSUME TypeOK, InSync, EndsAreLast, BeforeEnd, InTrack, NEW b \in Current, AtEnd(b)
  PROVE  b.msgType = NKT_END /\ currentBlockId[isr] = nbOfBlocks(isr) - 1
<1>1. isr \in Tracks /\ currentBlockId[isr] \in Nat /\ nbOfBlocks(isr) \in Nat
  BY SongFacts DEF InTrack, TypeOK
<1>2. currentBlockId[isr] < nbOfBlocks(isr)
  BY <1>1 DEF BeforeEnd
<1>3. b.msgType = NKT_END
  BY <1>1, <1>2 DEF AtEnd
<1>4. currentBlockId[isr] + 1 = nbOfBlocks(isr)
  BY <1>1, <1>3, ReadsNext DEF EndsAreLast
<1> QED BY <1>1, <1>3, <1>4

\* A track that sends a block is not at its end behind it, and one that changes the
\* tempo not behind the block that it takes along.
LEMMA SendsBeforeEnd ==
  ASSUME TypeOK, InSync, EndsAreLast, BeforeEnd, InTrack, NEW b \in Current, ~AtEnd(b)
  PROVE  /\ currentBlockId[isr] + 1 < nbOfBlocks(isr)
         /\ b.msgType = NKT_TEMPO_CHANGE => currentBlockId[isr] + 2 < nbOfBlocks(isr)
<1>1. isr \in Tracks /\ currentBlockId[isr] \in Nat /\ nbOfBlocks(isr) \in Nat
  BY SongFacts DEF InTrack, TypeOK
<1> DEFINE n == currentBlockId[isr] + 1
<1>2. n \in 1..nbOfBlocks(isr) /\ b.msgType = Song[isr][n].msgType
  BY ReadsNext
<1>3. n # nbOfBlocks(isr)
  BY <1>1, <1>2 DEF EndsAreLast, AtEnd
<1>4. b.msgType = NKT_TEMPO_CHANGE => n + 1 < nbOfBlocks(isr)
  BY <1>1, <1>2 DEF EndsAreLast
<1> QED BY <1>1, <1>2, <1>3, <1>4

-----------------------------------------------------------------------------
\* The initial state has the invariant.
LEMMA TransportInit == EndsAreLast /\ Init => TransportInv
<1> SUFFICES ASSUME EndsAreLast, Init PROVE TransportInv
  OBVIOUS
<1>1. BeforeEnd
  BY SongFacts DEF Init, Zeros, BeforeEnd, EndsAreLast
<1> QED BY <1>1 DEF Init, TransportInv, LoopPlays, StopHalts, CountedAtEnd

\* Sending n blocks moves one track on by that number.
LEMMA SendMoves ==
  ASSUME TypeOK, InTrack, NEW b, NEW n \in Nat, NEW size, Send(b, n, size)
  PROVE  /\ currentBlockId'[isr] = currentBlockId[isr] + n
         /\ \A t \in Tracks : t # isr => currentBlockId'[t] = currentBlockId[t]
         /\ isr' = isr + 1
  BY DEF Send, TypeOK, InTrack

\* A rewind puts every track in front of its end.
LEMMA RewindBeforeEnd == ASSUME EndsAreLast, Rewind PROVE BeforeEnd'
  BY SongFacts DEF Rewind, Zeros, BeforeEnd, EndsAreLast

\* A call that is entered has its writes before it; only a stop must have the right ones.
LEMMA EntersHalting ==
  ASSUME stopNktSequence \/ pauseNktSequence \/ playNktSequence \/ switchNktReplayMode
  PROVE  StopHalts'
  BY DEF stopNktSequence, pauseNktSequence, playNktSequence, switchNktReplayMode, Enter,
         StopHalts

\* Storing a word keeps what a stop is to do: its one write clears both bits.
LEMMA StoresHalting == ASSUME TypeOK, StopHalts, StoreState PROVE StopHalts'
<1>1. CASE call = "stop"
  <2>1. todo = <<Clear({NKT_PS_PLAYING, NKT_PS_PAUSED})>>
    BY <1>1 DEF StopHalts, StoreState
  <2>2. todo' = << >>
    BY <2>1 DEF StoreState
  <2>3. sequenceState' = (word \ {NKT_PS_PLAYING, NKT_PS_PAUSED}) \cup {}
    BY <2>1 DEF StoreState, Clear
  <2> QED BY <2>2, <2>3 DEF StopHalts
<1>2. CASE call # "stop"
  BY <1>2 DEF StopHalts, StoreState
<1> QED BY <1>1, <1>2

\* Every action keeps the invariant.
LEMMA TransportStep ==
  EndsAreLast /\ TypeOK /\ InSync /\ TransportInv /\ [Next]_vars => TransportInv'
<1> SUFFICES ASSUME EndsAreLast, TypeOK, InSync, TransportInv, [Next]_vars
             PROVE  TransportInv'
  OBVIOUS
<1> USE DEF tracks, history, client, interrupt, TransportInv
<1>1. isr \in Nat /\ TrackEndCount \in Nat /\ (InTrack => isr \in Tracks /\ isr # 0)
  BY SongFacts DEF TypeOK, InTrack, Tracks
<1>2. CASE UNCHANGED <<hooked, sequenceState, currentBlockId, interrupt, client>>
  BY <1>2 DEF LoopPlays, StopHalts, BeforeEnd, CountedAtEnd
<1>3. CASE initNktSequence
  <2>1. BeforeEnd' BY <1>3, RewindBeforeEnd DEF initNktSequence
  <2> QED BY <1>3, <2>1
          DEF initNktSequence, Idle, InMain, LoopPlays, StopHalts, CountedAtEnd
<1>4. CASE NktDeinstallReplayRout
  BY <1>4 DEF NktDeinstallReplayRout, Idle, InMain, LoopPlays, StopHalts, BeforeEnd,
              CountedAtEnd
<1>5. CASE stopNktSequence \/ pauseNktSequence \/ playNktSequence \/ switchNktReplayMode
  <2>1. isr = 0 /\ UNCHANGED <<interrupt, currentBlockId>>
    BY <1>5, EnterType DEF Idle, InMain
  <2> QED BY <1>5, <2>1, EntersHalting DEF LoopPlays, BeforeEnd, CountedAtEnd
<1>6. CASE LoadState
  BY <1>6 DEF LoadState, InMain, LoopPlays, StopHalts, BeforeEnd, CountedAtEnd
<1>7. CASE StoreState
  <2>1. isr' = 0 /\ currentBlockId' = currentBlockId
    BY <1>7 DEF StoreState, InMain
  <2> QED BY <1>7, <2>1, StoresHalting DEF LoopPlays, BeforeEnd, CountedAtEnd
<1>8. CASE StopResetsDevice
  BY <1>8 DEF StopResetsDevice, InMain, LoopPlays, StopHalts, BeforeEnd, CountedAtEnd
<1>9. CASE TickPaused
  BY <1>2, <1>9 DEF TickPaused
<1>10. CASE TickStopped
  <2>1. BeforeEnd' BY <1>10, RewindBeforeEnd DEF TickStopped
  <2> QED BY <1>10, <2>1
          DEF TickStopped, TickStarts, InMain, LoopPlays, StopHalts, CountedAtEnd
<1>11. CASE TickPlaying
  <2>1. CountedAtEnd'
    <3>1. isr' = 1 /\ TrackEndCount' = 0 BY <1>11 DEF TickPlaying
    <3> QED BY <3>1 DEF CountedAtEnd, Tracks
  <2> QED BY <1>11, <2>1 DEF TickPlaying, TickStarts, LoopPlays, StopHalts, BeforeEnd
\* At the end of a song that plays, a stop still has its write before it.
<1>12. ASSUME isr # 0, EndSequence, isr' = 0, UNCHANGED <<hooked, client>>
       PROVE  TransportInv'
  <2>1. BeforeEnd' BY <1>12, RewindBeforeEnd DEF EndSequence
  <2>2. StopHalts' BY <1>12 DEF LoopPlays, StopHalts
  <2> QED BY <1>12, <2>1, <2>2 DEF LoopPlays, CountedAtEnd
<1>13. CASE SingleEnds
  BY <1>1, <1>12, <1>13 DEF SingleEnds
\* An iteration in which the track's place is kept and the track is not counted.
<1>14. ASSUME InTrack, isr' = isr + 1, UNCHANGED <<hooked, sequenceState, client>>
       PROVE  LoopPlays' /\ StopHalts'
  BY <1>1, <1>14 DEF LoopPlays, StopHalts
<1>15. CASE TrackEnded
  <2>1. PICK b \in Current :
          /\ AtEnd(b)
          /\ TrackEndCount' = TrackEndCount + (IF b.msgType = NKT_END THEN 1 ELSE 0)
    BY <1>15 DEF TrackEnded
  <2>2. InTrack /\ isr' = isr + 1 /\ currentBlockId' = currentBlockId
    BY <1>15 DEF TrackEnded
  <2>3. TrackEndCount' = TrackEndCount + 1 /\ currentBlockId[isr] = nbOfBlocks(isr) - 1
    BY <2>1, <2>2, StandsAtEnd
  <2>4. CountedAtEnd'
    <3>1. TrackEndCount < isr BY <1>1, <2>2 DEF CountedAtEnd
    <3>2. ASSUME TrackEndCount' = isr' - 1, NEW t \in Tracks, t < isr'
          PROVE  currentBlockId'[t] = nbOfBlocks(t) - 1
      <4>1. TrackEndCount = isr - 1 /\ (t < isr \/ t = isr)
        BY <1>1, <2>2, <2>3, <3>2 DEF Tracks
      <4> QED BY <1>1, <2>2, <2>3, <4>1 DEF CountedAtEnd
    <3>3. isr' # 0 /\ TrackEndCount' < isr' BY <1>1, <2>2, <2>3, <3>1
    <3> QED BY <3>2, <3>3 DEF CountedAtEnd
  <2>5. LoopPlays' /\ StopHalts' BY <1>14, <1>15, <2>2 DEF TrackEnded
  <2>6. BeforeEnd' BY <2>2 DEF BeforeEnd
  <2> QED BY <2>4, <2>5, <2>6
\* One that has not been counted is missing from then on.
<1>16. ASSUME InTrack, isr' = isr + 1, TrackEndCount' = TrackEndCount PROVE CountedAtEnd'
  BY <1>1, <1>16 DEF CountedAtEnd
<1>17. CASE TrackWaits
  <2>1. InTrack /\ isr' = isr + 1 /\ currentBlockId' = currentBlockId
        /\ UNCHANGED <<hooked, sequenceState, client, TrackEndCount>>
    BY <1>17 DEF TrackWaits
  <2> QED BY <1>14, <1>16, <2>1 DEF BeforeEnd
<1>18. ASSUME InTrack, NEW b, NEW n \in Nat, NEW size, Send(b, n, size),
              currentBlockId[isr] + n < nbOfBlocks(isr),
              UNCHANGED <<hooked, sequenceState, client, TrackEndCount>>
       PROVE  TransportInv'
  <2>1. BeforeEnd' BY <1>1, <1>18, SendMoves DEF BeforeEnd
  <2>2. isr' = isr + 1 BY <1>18, SendMoves
  <2> QED BY <1>14, <1>16, <1>18, <2>1, <2>2
<1>19. CASE TrackSends
  <2>1. PICK b \in Current :
          ~AtEnd(b) /\ Send(b, 1, VlqSize(b.delta) + SizeofNktBlock)
    BY <1>19 DEF TrackSends
  <2>2. InTrack BY <1>19 DEF TrackSends
  <2>3. currentBlockId[isr] + 1 < nbOfBlocks(isr) BY <2>1, <2>2, SendsBeforeEnd
  <2> QED BY <1>18, <1>19, <2>1, <2>2, <2>3 DEF TrackSends
<1>20. CASE TrackChangesTempo
  <2> DEFINE Size(b) == VlqSize(b.delta) + SizeofNktBlock
  <2>1. PICK b \in Current :
          /\ ~AtEnd(b) /\ b.msgType = NKT_TEMPO_CHANGE
          /\ \E next \in BlocksAt(isr, eventsBlockOffset[isr] + Size(b)) :
               Send(next, 2, Size(b) + Size(b))
    BY <1>20 DEF TrackChangesTempo
  <2>2. PICK next : Send(next, 2, Size(b) + Size(b)) BY <2>1
  <2>3. InTrack BY <1>20 DEF TrackChangesTempo
  <2>4. currentBlockId[isr] + 2 < nbOfBlocks(isr) BY <2>1, <2>3, SendsBeforeEnd
  <2> QED BY <1>18, <1>20, <2>2, <2>3, <2>4 DEF TrackChangesTempo
<1>21. CASE TickEnds
  <2>1. isr # 0 BY <1>21, SongFacts DEF TickEnds
  <2>2. CASE EndSequence BY <1>12, <1>21, <2>1, <2>2 DEF TickEnds
  <2>3. CASE UNCHANGED <<sequenceState, tracks, timeStep, clock>>
    BY <1>21, <2>3 DEF TickEnds, LoopPlays, StopHalts, BeforeEnd, CountedAtEnd
  <2> QED BY <1>21, <2>2, <2>3 DEF TickEnds
<1>22. CASE UNCHANGED vars
  BY <1>2, <1>22 DEF vars
<1> QED
  BY <1>3, <1>4, <1>5, <1>6, <1>7, <1>8, <1>9, <1>10, <1>11, <1>13, <1>15, <1>17, <1>19,
     <1>20, <1>21, <1>22
  DEF Next, Calls, MainStep, Interrupt

-----------------------------------------------------------------------------
\* How many blocks each track has before its end, as the transport sees it.
Lengths == [t \in Tracks |-> nbOfBlocks(t) - 1]

\* The transport's mode is one of its modes while the interrupt is hooked.
LEMMA ModeOf ==
  /\ ~hooked <=> Mode = "off"
  /\ hooked => Mode \in {"stopped", "playing", "paused"}
  /\ Mode = "playing" <=> hooked /\ NKT_PS_PAUSED \notin sequenceState
                            /\ NKT_PS_PLAYING \in sequenceState
  /\ Mode = "stopped" <=> hooked /\ sequenceState \cap {NKT_PS_PLAYING, NKT_PS_PAUSED} = {}
  BY DEF Mode

\* The initial state is one of the transport.
LEMMA InitMaps == ASSUME EndsAreLast, Init PROVE Transport!Init
<1>1. Lengths \in Seq(Nat)
  <2>1. \A t \in 1..nbOfTracks : nbOfBlocks(t) - 1 \in Nat
    BY SongFacts DEF EndsAreLast, Tracks
  <2>2. nbOfTracks \in Nat
    BY SongFacts
  <2>3. Lengths \in [1..nbOfTracks -> Nat]
    BY <2>1 DEF Lengths, Tracks
  <2> HIDE DEF Lengths
  <2> QED BY <2>2, <2>3
<1>2. Mode = "off" BY DEF Init, Mode
<1>3. currentBlockId = [t \in DOMAIN Lengths |-> 0] BY DEF Init, Zeros, Lengths
<1> QED BY <1>1, <1>2, <1>3 DEF Init, Transport!Init, Transport!Top, Lengths

\* What does not move the song on is a command, a change of sound or nothing.
LEMMA Stutters ==
  ASSUME UNCHANGED <<hooked, sequenceState, currentBlockId, sounding>>
  PROVE  UNCHANGED Transport!vars
  BY DEF Transport!vars, Mode

\* A rewind takes the transport to its top.
LEMMA RewindMaps == ASSUME Rewind PROVE currentBlockId' = Transport!Top
  BY DEF Rewind, Zeros, Transport!Top

\* A call or write that only changes the state bits of a hooked song is a command.
LEMMA CommandMaps ==
  ASSUME UNCHANGED <<hooked, currentBlockId, sounding>>
  PROVE  [Transport!Next]_Transport!vars
<1>1. CASE hooked
  <2>1. Mode # "off" /\ Mode' \in Transport!Modes
    BY <1>1, ModeOf DEF Transport!Modes, Mode
  <2> QED BY <2>1 DEF Transport!Next, Transport!Command
<1>2. CASE ~hooked
  <2>1. Mode = "off" /\ Mode' = "off" BY <1>2 DEF Mode
  <2> QED BY <2>1 DEF Transport!vars
<1> QED BY <1>1, <1>2

\* Sending blocks of one track, up to its end at most, moves the transport on.
LEMMA SendMaps ==
  ASSUME TypeOK, LoopPlays, InTrack, NEW b, NEW n \in Nat \ {0}, NEW size, Send(b, n, size),
         currentBlockId[isr] + n < nbOfBlocks(isr),
         UNCHANGED <<hooked, sequenceState, sounding>>
  PROVE  Transport!Next
<1>1. isr \in Tracks /\ isr # 0 /\ currentBlockId[isr] \in Nat /\ nbOfBlocks(isr) \in Nat
  BY SongFacts DEF InTrack, TypeOK, Tracks
<1>2. Mode = "playing" /\ Mode' = Mode
  BY <1>1, ModeOf DEF LoopPlays, Mode
<1> DEFINE p == currentBlockId[isr] + n
<1>3. currentBlockId' = [currentBlockId EXCEPT ![isr] = p]
  BY DEF Send
<1>4. p \in currentBlockId[isr] + 1..Lengths[isr]
  BY <1>1 DEF Lengths
<1>5. isr \in DOMAIN Lengths
  BY <1>1 DEF Lengths
<1> HIDE DEF p
<1>6. Transport!Advance
  BY <1>2, <1>3, <1>4, <1>5 DEF Transport!Advance, Lengths
<1> QED BY <1>6 DEF Transport!Next

\* The end of a song in which every track stands at its end.
LEMMA EndMaps ==
  ASSUME TypeOK, LoopPlays, isr # 0, EndSequence, hooked' = hooked,
         \A t \in Tracks : currentBlockId[t] = nbOfBlocks(t) - 1
  PROVE  Transport!Next
<1>1. Mode = "playing"
  BY ModeOf DEF LoopPlays
<1>2. Mode' \in {"stopped", "playing"}
  <2>1. hooked' /\ NKT_PS_PAUSED \notin sequenceState'
    BY DEF EndSequence, LoopPlays
  <2> QED BY <2>1 DEF Mode
<1>3. currentBlockId = Lengths
  BY DEF TypeOK, Lengths
<1>4. currentBlockId' = Transport!Top /\ sounding' = FALSE
  BY RewindMaps DEF EndSequence
<1>5. Transport!Finish
  BY <1>1, <1>2, <1>3, <1>4 DEF Transport!Finish, Lengths
<1> QED BY <1>5 DEF Transport!Next

\* Every step of the player is one of the transport or none.
LEMMA StepMaps ==
  EndsAreLast /\ TypeOK /\ InSync /\ TransportInv /\ [Next]_vars
    => [Transport!Next]_Transport!vars
<1> SUFFICES ASSUME EndsAreLast, TypeOK, InSync, TransportInv, [Next]_vars
             PROVE  [Transport!Next]_Transport!vars
  OBVIOUS
<1> USE DEF tracks, history, client, interrupt, TransportInv
<1>1. CASE initNktSequence
  <2>1. Mode = "off" /\ Mode' \in Transport!Modes
    BY <1>1 DEF initNktSequence, Mode, Transport!Modes
  <2>2. currentBlockId' = Transport!Top /\ sounding' = sounding
    BY <1>1, RewindMaps DEF initNktSequence
  <2> QED BY <2>1, <2>2 DEF Transport!Next, Transport!Load
<1>2. CASE NktDeinstallReplayRout
  <2>1. Mode # "off" /\ Mode' = "off"
    BY <1>2 DEF NktDeinstallReplayRout, Mode
  <2> QED BY <1>2, <2>1 DEF NktDeinstallReplayRout, Transport!Next, Transport!Unload
<1>3. CASE stopNktSequence \/ pauseNktSequence \/ playNktSequence \/ switchNktReplayMode
  BY <1>3, EnterType, CommandMaps
<1>4. CASE LoadState \/ StoreState
  BY <1>4, CommandMaps DEF LoadState, StoreState
\* Behind its write a stop finds a halted song: what it silences does not play.
<1>5. CASE StopResetsDevice
  <2>1. sequenceState \cap {NKT_PS_PLAYING, NKT_PS_PAUSED} = {}
    BY <1>5 DEF StopResetsDevice, StopHalts
  <2>2. Mode # "playing" /\ Mode' = Mode
    BY <1>5, <2>1, ModeOf DEF StopResetsDevice, Mode
  <2>3. CASE sounding' = FALSE
    BY <1>5, <2>2, <2>3 DEF StopResetsDevice, Transport!Next, Transport!Hush
  <2>4. CASE sounding' = sounding
    BY <1>5, <2>4, Stutters DEF StopResetsDevice
  <2> QED BY <1>5, <2>3, <2>4 DEF StopResetsDevice
<1>6. CASE TickPaused
  <2>1. Mode # "playing" /\ Mode' = Mode
    BY <1>6, ModeOf DEF TickPaused, TickStarts, Mode
  <2> QED BY <1>6, <2>1 DEF TickPaused, Transport!Next, Transport!Hush
<1>7. CASE TickStopped
  <2>1. Mode = "stopped" /\ Mode' = Mode
    BY <1>7, ModeOf DEF TickStopped, TickStarts, Mode
  <2>2. currentBlockId' = Transport!Top /\ sounding' = FALSE
    BY <1>7, RewindMaps DEF TickStopped
  <2> QED BY <2>1, <2>2 DEF Transport!Next, Transport!Rewind
<1>8. CASE TickPlaying \/ TrackEnded \/ TrackWaits
  BY <1>8, Stutters DEF TickPlaying, TrackEnded, TrackWaits
\* The only track is at its end.
<1>9. CASE SingleEnds
  <2>1. InTrack /\ EndSequence /\ hooked' = hooked /\ nbOfTracks = 1
    BY <1>9 DEF SingleEnds, isMultitrackReplay
  <2>2. isr = 1 /\ isr # 0 /\ Tracks = {1}
    BY <2>1 DEF InTrack, Tracks
  <2>3. currentBlockId[isr] = nbOfBlocks(isr) - 1
    BY <1>9, <2>1, StandsAtEnd DEF SingleEnds
  <2> QED BY <2>1, <2>2, <2>3, EndMaps
<1>10. CASE TrackSends
  <2>1. PICK b \in Current :
          ~AtEnd(b) /\ Send(b, 1, VlqSize(b.delta) + SizeofNktBlock)
    BY <1>10 DEF TrackSends
  <2>2. InTrack /\ UNCHANGED <<hooked, sequenceState, sounding>>
    BY <1>10 DEF TrackSends
  <2>3. currentBlockId[isr] + 1 < nbOfBlocks(isr) BY <2>1, <2>2, SendsBeforeEnd
  <2> QED BY <2>1, <2>2, <2>3, SendMaps
<1>11. CASE TrackChangesTempo
  <2> DEFINE Size(b) == VlqSize(b.delta) + SizeofNktBlock
  <2>1. PICK b \in Current :
          /\ ~AtEnd(b) /\ b.msgType = NKT_TEMPO_CHANGE
          /\ \E next \in BlocksAt(isr, eventsBlockOffset[isr] + Size(b)) :
               Send(next, 2, Size(b) + Size(b))
    BY <1>11 DEF TrackChangesTempo
  <2>2. PICK next : Send(next, 2, Size(b) + Size(b)) BY <2>1
  <2>3. InTrack /\ UNCHANGED <<hooked, sequenceState, sounding>>
    BY <1>11 DEF TrackChangesTempo
  <2>4. currentBlockId[isr] + 2 < nbOfBlocks(isr) BY <2>1, <2>3, SendsBeforeEnd
  <2> QED BY <2>2, <2>3, <2>4, SendMaps
\* All tracks have been counted, so all of them are at their ends; or what waits to
\* be sent may start to sound, in a song that plays.
<1>12. CASE TickEnds
  <2>1. isr = nbOfTracks + 1 /\ isr # 0 /\ hooked' = hooked
    BY <1>12, SongFacts DEF TickEnds
  <2>2. CASE isMultitrackReplay /\ TrackEndCount = nbOfTracks
    <3>1. EndSequence BY <1>12, <2>2 DEF TickEnds
    <3>2. \A t \in Tracks : currentBlockId[t] = nbOfBlocks(t) - 1
      BY <2>1, <2>2, SongFacts DEF CountedAtEnd, Tracks
    <3> QED BY <2>1, <3>1, <3>2, EndMaps
  <2>3. CASE ~(isMultitrackReplay /\ TrackEndCount = nbOfTracks)
    <3>1. /\ sounding' = (sounding \/ tx # << >>)
          /\ UNCHANGED <<hooked, sequenceState, currentBlockId>>
      BY <1>12, <2>3 DEF TickEnds
    <3>2. Mode = "playing" /\ Mode' = Mode
      BY <2>1, <3>1, ModeOf DEF LoopPlays, Mode
    <3>3. CASE sounding' = sounding BY <3>1, <3>3, Stutters
    <3>4. CASE sounding' = TRUE
      BY <3>1, <3>2, <3>4 DEF Transport!Next, Transport!Sound
    <3>5. sounding' = sounding \/ sounding' = TRUE
      BY <3>1 DEF TypeOK
    <3> QED BY <3>3, <3>4, <3>5
  <2> QED BY <2>2, <2>3
<1>13. CASE UNCHANGED vars
  BY <1>13, Stutters DEF vars
<1> QED
  BY <1>1, <1>2, <1>3, <1>4, <1>5, <1>6, <1>7, <1>8, <1>9, <1>10, <1>11, <1>12, <1>13
  DEF Next, Calls, MainStep, Interrupt

\* Whatever the song, as long as its tempo changes are paired and its ends are its
\* last blocks: the racing calls and interrupts keep what the transport promises.
THEOREM Implements == ASSUME PairedTempos, EndsAreLast PROVE Spec => ImplementsTransport
<1>1. Init => InSync
  BY SyncInit
<1>2. Init => Transport!Init /\ TransportInv
  BY InitMaps, TransportInit
<1>3. TypeOK /\ InSync /\ TransportInv /\ [Next]_vars => InSync' /\ TransportInv'
  BY SyncStep, TransportStep
<1>4. TypeOK /\ InSync /\ TransportInv /\ [Next]_vars => [Transport!Next]_Transport!vars
  BY StepMaps
<1> QED
  BY <1>1, <1>2, <1>3, <1>4, TypeInit, TypeStep, PTL DEF Spec, ImplementsTransport, Transport!Spec

-----------------------------------------------------------------------------
(* The master settings.                                                    *)

\* A step of the composed player is one of the player, or leaves it alone.
LEMMA PlayerStep == ASSUME [PlayerNext]_PlayerVars PROVE [Next]_vars
<1>1. CASE PlayerCalls
  BY <1>1 DEF PlayerCalls, Next
<1>2. CASE PlayerRequests
  BY <1>2 DEF PlayerRequests
<1>3. CASE PlayerInterrupt
  <2>1. TickHalted => UNCHANGED vars
    BY DEF TickHalted
  <2>2. Interrupt \/ TickHalted
    BY <1>3 DEF PlayerInterrupt, Interrupt
  <2> QED BY <2>1, <2>2 DEF Next
<1>4. CASE UNCHANGED PlayerVars
  BY <1>4 DEF PlayerVars
<1> QED BY <1>1, <1>2, <1>3, <1>4 DEF PlayerNext

\* Requests and settings do not change what the player does: what is proved of it
\* holds of the composition.
THEOREM PlayerPlays == PlayerSpec => Spec
<1>1. PlayerInit => Init
  BY DEF PlayerInit
<1>2. [PlayerNext]_PlayerVars => [Next]_vars
  BY PlayerStep
<1> QED BY <1>1, <1>2, PTL DEF PlayerSpec, Spec

\* What is recorded, and told by getMidiMasterVolume and getMidiMasterBalance, is
\* what the device has, or 0 as long as nothing has been sent; and no device was
\* sent a volume beyond its own limit, whichever is asked for.
RecordIsTrue ==
  /\ \A f \in {"masterVolume", "masterBalance"} :
       \/ device[f] = moduleSettings[f]
       \/ device[f] = Unknown /\ moduleSettings[f] = 0
  /\ device["masterVolume"] <= MaxVolume

\* Each setting is a byte, or unknown to be one.
SettingsOK ==
  /\ isMT32 \in BOOLEAN
  /\ requestedMasterVolume \in Bytes /\ requestedMasterBalance \in Bytes
  /\ moduleSettings \in [masterVolume : Bytes, masterBalance : Bytes]
  /\ device \in [masterVolume : Bytes \cup {Unknown}, masterBalance : Bytes \cup {Unknown}]

SettingsInv == SettingsOK /\ RecordIsTrue

\* The settings are those of setupMidiDevice at first.
LEMMA SettingsInit == ASSUME setupMidiDevice PROVE SettingsInv
  BY DEF setupMidiDevice, SettingsInv, SettingsOK, RecordIsTrue, Bytes, Unknown, MaxVolume,
         MIDI_MASTER_VOL_DEFAULT_MT32, MIDI_MASTER_VOL_DEFAULT_GM, MIDI_MASTER_PAN_CENTER,
         MIDI_MASTER_VOL_MAX_MT32, MIDI_MASTER_VOL_MAX_GM

\* A request changes neither the record nor the device.
LEMMA RequestsKeepRecord == ASSUME SettingsInv, Requests PROVE SettingsInv'
<1>1. ASSUME NEW vol \in Volumes, setMidiMasterVolume(vol) PROVE SettingsInv'
  BY <1>1, RequestsAssumption
     DEF setMidiMasterVolume, SettingsInv, SettingsOK, RecordIsTrue, MaxVolume
<1>2. ASSUME NEW bal \in Balances, setMidiMasterBalance(bal) PROVE SettingsInv'
  BY <1>2, RequestsAssumption
     DEF setMidiMasterBalance, SettingsInv, SettingsOK, RecordIsTrue, MaxVolume
<1> QED BY <1>1, <1>2 DEF Requests

\* A setting that is sent is recorded with the same value; both or neither.
LEMMA SendingKeepsRecord == ASSUME SettingsInv, handleMasterSettings PROVE SettingsInv'
<1> DEFINE fits   == requestedMasterVolume <= MaxVolume
           pans   == moduleSettings.masterBalance # requestedMasterBalance
           volume(s)  == IF fits THEN Sent(s, "masterVolume", requestedMasterVolume) ELSE s
           balance(s) == IF pans THEN Sent(s, "masterBalance", requestedMasterBalance) ELSE s
<1>1. CASE moduleSettings.masterVolume = requestedMasterVolume
  <2>1. UNCHANGED settings
    BY <1>1 DEF handleMasterSettings, settings, requests
  <2> QED BY <2>1 DEF settings, requests, SettingsInv, SettingsOK, RecordIsTrue, MaxVolume
<1>2. CASE moduleSettings.masterVolume # requestedMasterVolume
  <2>1. /\ moduleSettings' = balance(volume(moduleSettings))
        /\ device' = balance(volume(device))
        /\ UNCHANGED <<isMT32, requestedMasterVolume, requestedMasterBalance>>
    BY <1>2 DEF handleMasterSettings, requests
  <2>2. MaxVolume' = MaxVolume
    BY <2>1 DEF MaxVolume
  <2>3. SettingsOK'
    BY <2>1 DEF SettingsInv, SettingsOK, Sent
  <2>4. RecordIsTrue'
    BY <2>1, <2>2 DEF SettingsInv, SettingsOK, RecordIsTrue, Sent
  <2> QED BY <2>3, <2>4 DEF SettingsInv
<1> QED BY <1>1, <1>2

\* The main program is told the settings the device has, and no device is sent a
\* volume beyond its limit, whatever is asked for and whenever interrupts come.
THEOREM SettingsTold == PlayerSpec => []RecordIsTrue
<1>1. PlayerInit => SettingsInv
  BY SettingsInit DEF PlayerInit
<1>2. SettingsInv /\ [PlayerNext]_PlayerVars => SettingsInv'
  <2> SUFFICES ASSUME SettingsInv, [PlayerNext]_PlayerVars PROVE SettingsInv'
    OBVIOUS
  <2>1. UNCHANGED settings => SettingsInv'
    BY DEF settings, requests, SettingsInv, SettingsOK, RecordIsTrue, MaxVolume
  <2>2. CASE PlayerCalls
    BY <2>1, <2>2 DEF PlayerCalls
  <2>3. CASE PlayerRequests
    BY <2>3, RequestsKeepRecord DEF PlayerRequests
  <2>4. CASE PlayerInterrupt
    <3>1. handleMasterSettings \/ UNCHANGED settings
      BY <2>4 DEF PlayerInterrupt
    <3> QED BY <2>1, <3>1, SendingKeepsRecord
  <2>5. CASE UNCHANGED PlayerVars
    BY <2>1, <2>5 DEF PlayerVars
  <2> QED BY <2>2, <2>3, <2>4, <2>5 DEF PlayerNext
<1>3. SettingsInv => RecordIsTrue
  BY DEF SettingsInv
<1> QED BY <1>1, <1>2, <1>3, PTL DEF PlayerSpec
=============================================================================
