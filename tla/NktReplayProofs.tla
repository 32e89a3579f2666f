-------------------------- MODULE NktReplayProofs --------------------------
(***************************************************************************)
(* Theorems about the NKT player, for every song, step, initial state and  *)
(* build of it.                                                            *)
(***************************************************************************)
EXTENDS NktReplay, TLAPS

USE DEF NKT_PLAY_ONCE, NKT_PS_PLAYING, NKT_PS_PAUSED

\* There is a track, and every one of them is a sequence of blocks.
LEMMA SongFacts ==
  /\ nbOfTracks \in Nat /\ nbOfTracks >= 1
  /\ \A t \in Tracks : /\ Song[t] \in Seq(Block) /\ nbOfBlocks(t) \in Nat
                       /\ \A n \in 1..nbOfBlocks(t) : Song[t][n] \in Block
<1>1. nbOfTracks \in Nat /\ nbOfTracks >= 1
  BY SongAssumption DEF nbOfTracks
<1>2. \A t \in Tracks : Song[t] \in Seq(Block)
  BY SongAssumption DEF Tracks, nbOfTracks
<1> QED BY <1>1, <1>2 DEF nbOfBlocks

\* What can be read from the stream.
Reading == [k : Nat, msgType : {NKT_MIDIDATA, NKT_TEMPO_CHANGE, NKT_END},
            delta : Nat, step : Nat]
\* What is read from the stream is a block or the memory around it.
LEMMA ReadingType ==
  ASSUME NEW t \in Tracks, NEW offset, NEW b \in BlocksAt(t, offset)
  PROVE  b \in Reading
<1>1. CASE b \in Garbage
  BY <1>1 DEF Garbage, Reading
<1>2. CASE \E n \in 1..nbOfBlocks(t) : b = Numbered(t, n)
  BY <1>2, SongFacts DEF Numbered, Reading, Block
<1> QED BY <1>1, <1>2 DEF BlocksAt

\* The remainder of a division by a positive number.
LEMMA Remainder == ASSUME NEW a \in Int, NEW n \in Nat \ {0} PROVE a % n \in 0..n - 1
  OBVIOUS

\* The size of a delta is a number of bytes.
LEMMA VlqSizeType == ASSUME NEW d \in Nat PROVE VlqSize(d) \in 1..3
  BY NumbersAssumption DEF VlqSize

\* An iteration of the interrupt's loop leaves times and history in their type.
LEMMA TimePassesType ==
  ASSUME TypeOK, InTrack, NEW ticks \in 0..ELAPSED_MOD - 1, TimePasses(ticks)
  PROVE  /\ bPaused' \in BOOLEAN /\ bStopped' \in BOOLEAN
         /\ timeElapsedFrac' \in [Tracks -> 0..FRAC - 1]
         /\ timeElapsedInt' \in [Tracks -> 0..ELAPSED_MOD - 1]
         /\ clock' \in [Tracks -> Nat]
<1>0. frac \in Nat
  BY NumbersAssumption DEF TypeOK, InTrack, frac
<1>1. frac % FRAC \in 0..FRAC - 1
  BY <1>0, Remainder, NumbersAssumption
<1>2. clock' \in [Tracks -> Nat]
  <2>1. clock \in [Tracks -> Nat] /\ timeStep \in Nat /\ isr \in Tracks
    BY DEF TypeOK, InTrack
  <2>2. (IF clock[isr] + timeStep < CLOCK_MAX THEN clock[isr] + timeStep ELSE CLOCK_MAX)
          \in Nat
    BY <2>1, NumbersAssumption
  <2> QED BY <2>1, <2>2 DEF TimePasses
<1>3. timeElapsedFrac' \in [Tracks -> 0..FRAC - 1]
  BY <1>1 DEF TypeOK, InTrack, TimePasses
<1>4. timeElapsedInt' \in [Tracks -> 0..ELAPSED_MOD - 1]
  BY DEF TypeOK, InTrack, TimePasses
<1> QED BY <1>2, <1>3, <1>4 DEF TimePasses

\* The elapsed time wraps inside its word.
LEMMA ElapsedType == ASSUME TypeOK, InTrack PROVE elapsed \in 0..ELAPSED_MOD - 1
<1>1. frac \in Nat BY DEF TypeOK, InTrack, frac
<1>2. TimeAdd \in Nat BY <1>1, NumbersAssumption DEF TimeAdd
<1>3. timeElapsedInt[isr] + TimeAdd \in Int BY <1>2, NumbersAssumption DEF TypeOK, InTrack
<1> QED BY <1>3, Remainder, NumbersAssumption DEF elapsed

\* A sequence over a set stays one when an element of the set joins it.
LEMMA OneMore ==
  ASSUME NEW S, NEW e \in S, NEW s \in Seq(S)
  PROVE  <<e>> \in Seq(S) /\ Append(s, e) \in Seq(S)
  OBVIOUS

\* Sending a block and going on leaves the tracks and the buffer in their type.
LEMMA SendType ==
  ASSUME TypeOK, InTrack, NEW b \in Reading, NEW n \in Nat, NEW size \in Nat,
         Send(b, n, size)
  PROVE  /\ tx' \in Seq(Tracks \X Nat)
         /\ currentBlockId' \in [Tracks -> Nat]
         /\ eventsBlockOffset' \in [Tracks -> Nat]
         /\ isr' \in 0..nbOfTracks + 1
<1>1. <<isr, b.k>> \in Tracks \X Nat BY DEF Reading, InTrack
<1>2. tx' \in Seq(Tracks \X Nat)
  <2> DEFINE e == <<isr, b.k>>
  <2>1. e \in Tracks \X Nat BY <1>1
  <2>2. tx' = <<e>> \/ tx' = Append(tx, e) BY DEF Send
  <2>3. tx \in Seq(Tracks \X Nat) BY DEF TypeOK
  <2> HIDE DEF e
  <2>4. <<e>> \in Seq(Tracks \X Nat) /\ Append(tx, e) \in Seq(Tracks \X Nat)
    BY <2>1, <2>3, OneMore
  <2> QED BY <2>2, <2>4, Zenon
<1>3. isr' \in 0..nbOfTracks + 1
  <2>1. isr' = isr + 1 BY DEF Send
  <2> QED BY <2>1, SongFacts DEF InTrack, Tracks
<1>4. currentBlockId' \in [Tracks -> Nat]
  <2>1. currentBlockId \in [Tracks -> Nat] /\ currentBlockId[isr] + n \in Nat
    BY DEF TypeOK, InTrack
  <2> QED BY <2>1 DEF Send
<1>5. eventsBlockOffset' \in [Tracks -> Nat]
  <2>1. eventsBlockOffset \in [Tracks -> Nat] /\ eventsBlockOffset[isr] + size \in Nat
    BY DEF TypeOK, InTrack
  <2> QED BY <2>1 DEF Send
<1> QED BY <1>2, <1>3, <1>4, <1>5

\* A rewind leaves the tracks, the tempo and the history in their type.
LEMMA RewindType ==
  ASSUME Rewind
  PROVE  /\ currentBlockId' \in [Tracks -> Nat] /\ eventsBlockOffset' \in [Tracks -> Nat]
         /\ timeElapsedInt' \in [Tracks -> 0..ELAPSED_MOD - 1]
         /\ timeElapsedFrac' \in [Tracks -> 0..FRAC - 1]
         /\ timeStep' \in Nat
         /\ played' \in Seq(Tracks \X Nat) /\ clock' \in [Tracks -> Nat]
  BY NumbersAssumption DEF Rewind, Zeros

\* Every transport call enters with writes of the right type.
LEMMA EnterType ==
  ASSUME stopNktSequence \/ pauseNktSequence \/ playNktSequence \/ switchNktReplayMode
  PROVE  /\ call' \in {"stop", "pause", "resume", "play", "switch"}
         /\ todo' \in Seq(Writes)
         /\ UNCHANGED <<active, hooked, sequenceState, bStopped, bPaused, tracks, timeStep,
                        interrupt, loaded, word, sounding, history>>
         /\ Idle
<1> USE DEF Enter
<1>1. \A bits \in SUBSET Bits : Clear(bits) \in Writes
  BY DEF Clear, Writes
<1>2. \A bit \in Bits : Put(bit) \in Writes
  BY DEF Put, Writes
<1>3. /\ << >> \in Seq(Writes)
      /\ \A w \in Writes : <<w>> \in Seq(Writes)
      /\ \A w, x \in Writes : <<w, x>> \in Seq(Writes)
  OBVIOUS
<1>4. CASE stopNktSequence
  <2>1. Clear({NKT_PS_PLAYING, NKT_PS_PAUSED}) \in Writes BY <1>1 DEF Bits
  <2> QED BY <1>3, <1>4, <2>1 DEF stopNktSequence
<1>5. /\ Clear({NKT_PS_PLAYING}) \in Writes /\ Clear({NKT_PS_PAUSED}) \in Writes
      /\ Clear({NKT_PLAY_ONCE}) \in Writes
  BY <1>1 DEF Bits
<1>6. /\ Put(NKT_PS_PLAYING) \in Writes /\ Put(NKT_PS_PAUSED) \in Writes
      /\ Put(NKT_PLAY_ONCE) \in Writes
  BY <1>2 DEF Bits
<1>7. CASE pauseNktSequence BY <1>3, <1>5, <1>6, <1>7 DEF pauseNktSequence
<1>8. CASE playNktSequence BY <1>3, <1>5, <1>6, <1>8 DEF playNktSequence
<1>9. CASE switchNktReplayMode BY <1>3, <1>5, <1>6, <1>9 DEF switchNktReplayMode
<1> QED BY <1>4, <1>7, <1>8, <1>9

-----------------------------------------------------------------------------
\* The initial state is of the type.
LEMMA TypeInit == Init => TypeOK
<1> SUFFICES ASSUME Init PROVE TypeOK
  OBVIOUS
<1>1. Zeros \in [Tracks -> Nat] /\ Zeros \in [Tracks -> 0..ELAPSED_MOD - 1]
      /\ Zeros \in [Tracks -> 0..FRAC - 1]
  BY NumbersAssumption DEF Zeros
<1>2. isr \in 0..nbOfTracks + 1 BY SongFacts DEF Init
<1>3. tx \in Seq(Tracks \X Nat) /\ played \in Seq(Tracks \X Nat) /\ todo \in Seq(Writes)
  BY DEF Init
<1> QED BY <1>1, <1>2, <1>3 DEF Init, TypeOK

\* Every action of the main program and of the interrupt keeps the type.
LEMMA TypeStep == TypeOK /\ [Next]_vars => TypeOK'
<1> SUFFICES ASSUME TypeOK, [Next]_vars PROVE TypeOK'
  OBVIOUS
<1> USE DEF tracks, history, client, interrupt
<1>1. CASE initNktSequence
  <2>1. sequenceState' \in SUBSET Bits BY <1>1, InitialAssumption DEF initNktSequence
  <2>2. Rewind BY <1>1 DEF initNktSequence
  <2> QED BY <1>1, <2>1, <2>2, RewindType DEF initNktSequence, TypeOK
<1>2. CASE NktDeinstallReplayRout
  BY <1>2 DEF NktDeinstallReplayRout, TypeOK
<1>3. CASE stopNktSequence \/ pauseNktSequence \/ playNktSequence \/ switchNktReplayMode
  BY <1>3, EnterType DEF TypeOK
<1>4. CASE LoadState
  BY <1>4 DEF LoadState, TypeOK
<1>5. CASE StoreState
  <2>1. Head(todo) \in Writes /\ Tail(todo) \in Seq(Writes)
    BY <1>5 DEF StoreState, TypeOK
  <2>2. sequenceState' \in SUBSET Bits
    <3>1. Head(todo).on \in SUBSET Bits BY <2>1 DEF Writes
    <3>2. word \in SUBSET Bits BY DEF TypeOK
    <3>3. sequenceState' = (word \ Head(todo).off) \cup Head(todo).on
      BY <1>5 DEF StoreState
    <3> QED BY <3>1, <3>2, <3>3
  <2>3. todo' \in Seq(Writes) BY <1>5, <2>1 DEF StoreState
  <2>4. call' \in {"none", "stop", "pause", "resume", "play", "switch"}
    BY <1>5 DEF StoreState, TypeOK
  <2> QED BY <1>5, <2>2, <2>3, <2>4 DEF StoreState, TypeOK
<1>6. CASE StopResetsDevice
  BY <1>6 DEF StopResetsDevice, TypeOK
<1>7. CASE TickPaused
  BY <1>7 DEF TickPaused, TypeOK
<1>8. CASE TickStopped
  <2>1. Rewind BY <1>8 DEF TickStopped
  <2> QED BY <1>8, <2>1, RewindType DEF TickStopped, TypeOK
<1>9. CASE TickPlaying
  <2>1. isr' \in 0..nbOfTracks + 1 BY <1>9, SongFacts DEF TickPlaying
  <2> QED BY <1>9, <2>1 DEF TickPlaying, TypeOK
<1>10. ASSUME EndSequence
       PROVE  Rewind /\ sequenceState' \in SUBSET Bits /\ sounding' \in BOOLEAN
  BY <1>10 DEF EndSequence, TypeOK, Bits
<1>11. CASE SingleEnds
  <2>1. EndSequence BY <1>11 DEF SingleEnds
  <2>2. isr' \in 0..nbOfTracks + 1 BY <1>11, SongFacts DEF SingleEnds
  <2> QED BY <1>11, <1>10, <2>1, <2>2, RewindType DEF SingleEnds, TypeOK
<1>12. ASSUME InTrack PROVE isr + 1 \in 0..nbOfTracks + 1
  BY <1>12, SongFacts DEF InTrack, Tracks
<1>13. CASE TrackEnded
  <2>1. InTrack /\ TimePasses(elapsed) BY <1>13 DEF TrackEnded
  <2>2. TrackEndCount' \in Nat BY <1>13 DEF TrackEnded, TypeOK
  <2>3. isr' \in 0..nbOfTracks + 1 BY <1>12, <1>13, <2>1 DEF TrackEnded
  <2> QED BY <1>13, <2>1, <2>2, <2>3, ElapsedType, TimePassesType DEF TrackEnded, TypeOK
<1>14. CASE TrackWaits
  <2>1. InTrack /\ TimePasses(elapsed) BY <1>14 DEF TrackWaits
  <2>2. isr' \in 0..nbOfTracks + 1 BY <1>12, <1>14, <2>1 DEF TrackWaits
  <2> QED BY <1>14, <2>1, <2>2, ElapsedType, TimePassesType DEF TrackWaits, TypeOK
<1>15. CASE TrackSends
  <2>1. PICK b \in Current :
          /\ TimePasses((elapsed - b.delta) % ELAPSED_MOD)
          /\ Send(b, 1, VlqSize(b.delta) + SizeofNktBlock)
    BY <1>15 DEF TrackSends
  <2>2. InTrack BY <1>15 DEF TrackSends
  <2>3. b \in Reading BY <2>2, ReadingType DEF Current, InTrack
  <2>4. b.delta \in Nat /\ VlqSize(b.delta) + SizeofNktBlock \in Nat
    BY <2>3, VlqSizeType DEF Reading, SizeofNktBlock
  <2>5. (elapsed - b.delta) % ELAPSED_MOD \in 0..ELAPSED_MOD - 1
    <3>1. elapsed - b.delta \in Int BY <2>2, <2>4, ElapsedType, NumbersAssumption
    <3> QED BY <3>1, Remainder, NumbersAssumption
  <2> QED
    BY <1>15, <2>1, <2>2, <2>3, <2>4, <2>5, TimePassesType, SendType DEF TrackSends, TypeOK
<1>16. CASE TrackChangesTempo
  <2> DEFINE Size(b) == VlqSize(b.delta) + SizeofNktBlock
  <2>0. PICK b \in Current :
          /\ TimePasses((elapsed - b.delta) % ELAPSED_MOD)
          /\ timeStep' = b.step
          /\ \E next \in BlocksAt(isr, eventsBlockOffset[isr] + Size(b)) :
               Send(next, 2, Size(b) + Size(b))
    BY <1>16 DEF TrackChangesTempo
  <2>1. PICK next \in BlocksAt(isr, eventsBlockOffset[isr] + Size(b)) :
          Send(next, 2, Size(b) + Size(b))
    BY <2>0
  <2>2. InTrack BY <1>16 DEF TrackChangesTempo
  <2>3. b \in Reading /\ next \in Reading BY <2>2, ReadingType DEF Current, InTrack
  <2>4. b.delta \in Nat /\ b.step \in Nat /\ Size(b) + Size(b) \in Nat
    BY <2>3, VlqSizeType DEF Reading, SizeofNktBlock
  <2>5. (elapsed - b.delta) % ELAPSED_MOD \in 0..ELAPSED_MOD - 1
    <3>1. elapsed - b.delta \in Int BY <2>2, <2>4, ElapsedType, NumbersAssumption
    <3> QED BY <3>1, Remainder, NumbersAssumption
  <2>6. timeStep' \in Nat BY <2>0, <2>4
  <2> HIDE DEF Size
  <2> QED
    BY <1>16, <2>0, <2>1, <2>2, <2>3, <2>4, <2>5, <2>6, TimePassesType, SendType
    DEF TrackChangesTempo, TypeOK
<1>17. CASE TickEnds
  <2>1. isr' \in 0..nbOfTracks + 1 BY <1>17, SongFacts DEF TickEnds
  <2>2. tx' \in Seq(Tracks \X Nat) BY <1>17 DEF TickEnds
  <2>3. CASE EndSequence
    BY <1>10, <1>17, <2>1, <2>2, <2>3, RewindType DEF TickEnds, TypeOK
  <2>4. CASE /\ sounding' = (sounding \/ tx # << >>)
             /\ played' = played \o tx
             /\ UNCHANGED <<sequenceState, tracks, timeStep, clock>>
    <3>1. played' \in Seq(Tracks \X Nat) BY <2>4 DEF TypeOK
    <3>2. sounding' \in BOOLEAN BY <2>4 DEF TypeOK
    <3> QED BY <1>17, <2>1, <2>2, <2>4, <3>1, <3>2 DEF TickEnds, TypeOK
  <2> QED BY <1>17, <2>3, <2>4 DEF TickEnds
<1>18. CASE UNCHANGED vars
  BY <1>18 DEF vars, TypeOK
<1> QED
  BY <1>1, <1>2, <1>3, <1>4, <1>5, <1>6, <1>7, <1>8, <1>9, <1>11, <1>13, <1>14, <1>15,
     <1>16, <1>17, <1>18
  DEF Next, Calls, MainStep, Interrupt

\* Every variable of the player, of its interrupt and of the calls that race
\* with it keeps its type, whatever the song: the fraction stays below a tick,
\* the interrupt's loop inside the tracks.
THEOREM TypeCorrect == Spec => []TypeOK
  BY TypeInit, TypeStep, PTL DEF Spec

-----------------------------------------------------------------------------
\* Between interrupts nothing waits to be sent, and behind the first iteration
\* of the loop neither halt counts as carried out.
LoopShape == /\ isr <= 1 => tx = << >>
             /\ isr >= 2 => ~bPaused /\ ~bStopped

HaltInv == SilentWhenHalted /\ StoppedAtTop /\ LoopShape

\* A rewind leads to the top.
LEMMA RewindAtTop == Rewind => AtTop'
  BY DEF Rewind, AtTop, Zeros

\* The iteration of a track leaves the loop's shape and takes back both halts.
LEMMA IterationHalt ==
  ASSUME TypeOK, HaltInv, InTrack, isr' = isr + 1, ~bPaused', ~bStopped'
  PROVE  HaltInv'
<1>1. isr' >= 2 BY SongFacts DEF InTrack, Tracks
<1> QED BY <1>1, SongFacts DEF HaltInv, SilentWhenHalted, StoppedAtTop, LoopShape, InTrack, Tracks

\* The initial state has the invariant.
LEMMA HaltInit == Init => HaltInv
  BY DEF Init, HaltInv, SilentWhenHalted, StoppedAtTop, LoopShape

\* Every action keeps the invariant.
LEMMA HaltStep == TypeOK /\ HaltInv /\ [Next]_vars => HaltInv'
<1> SUFFICES ASSUME TypeOK, HaltInv, [Next]_vars PROVE HaltInv'
  OBVIOUS
<1> USE DEF tracks, history, client, interrupt, HaltInv, SilentWhenHalted, LoopShape
<1>1. ASSUME UNCHANGED <<bStopped, bPaused, tracks, timeStep, interrupt>>,
             sounding' = sounding \/ sounding' = FALSE
      PROVE  HaltInv'
  BY <1>1 DEF StoppedAtTop, AtTop, TypeOK
<1>2. CASE initNktSequence
  <2>1. AtTop' BY <1>2, RewindAtTop DEF initNktSequence
  <2> QED BY <1>2, <2>1 DEF initNktSequence, StoppedAtTop
<1>3. CASE NktDeinstallReplayRout
  BY <1>1, <1>3 DEF NktDeinstallReplayRout
<1>4. CASE stopNktSequence \/ pauseNktSequence \/ playNktSequence \/ switchNktReplayMode
  BY <1>1, <1>4, EnterType
<1>5. CASE LoadState
  BY <1>1, <1>5 DEF LoadState
<1>6. CASE StoreState
  BY <1>1, <1>6 DEF StoreState
<1>7. CASE StopResetsDevice
  BY <1>1, <1>7 DEF StopResetsDevice
<1>8. CASE TickPaused
  BY <1>8 DEF TickPaused, TickStarts, InMain, StoppedAtTop
<1>9. CASE TickStopped
  <2>1. AtTop' BY <1>9, RewindAtTop DEF TickStopped
  <2> QED BY <1>9, <2>1 DEF TickStopped, TickStarts, InMain, StoppedAtTop
<1>10. CASE TickPlaying
  BY <1>10 DEF TickPlaying, TickStarts, InMain, StoppedAtTop, AtTop
<1>11. CASE SingleEnds
  <2>1. isr <= 1
    BY <1>11, SongFacts DEF SingleEnds, InTrack, Tracks, isMultitrackReplay
  <2>2. isr' = 0 /\ tx' = tx /\ bStopped' = FALSE /\ sounding' = FALSE
    BY <1>11 DEF SingleEnds, EndSequence
  <2> QED BY <2>1, <2>2 DEF StoppedAtTop
<1>12. CASE TrackEnded
  BY <1>12, IterationHalt DEF TrackEnded, TimePasses
<1>13. CASE TrackWaits
  BY <1>13, IterationHalt DEF TrackWaits, TimePasses
<1>14. CASE TrackSends
  BY <1>14, IterationHalt DEF TrackSends, TimePasses, Send
<1>15. CASE TrackChangesTempo
  BY <1>15, IterationHalt DEF TrackChangesTempo, TimePasses, Send
<1>16. CASE TickEnds
  <2>1. isr >= 2 BY <1>16, SongFacts DEF TickEnds
  <2>2. isr' = 0 /\ tx' = << >> /\ ~bPaused' /\ ~bStopped'
    BY <1>16, <2>1 DEF TickEnds
  <2> QED BY <2>2 DEF StoppedAtTop
<1>17. CASE UNCHANGED vars
  BY <1>1, <1>17 DEF vars
<1> QED
  BY <1>2, <1>3, <1>4, <1>5, <1>6, <1>7, <1>8, <1>9, <1>10, <1>11, <1>12, <1>13, <1>14,
     <1>15, <1>16, <1>17
  DEF Next, Calls, MainStep, Interrupt

\* Once the interrupt has carried out a stop or a pause no note sounds, whatever
\* the song and however calls and interrupts interleave.
THEOREM Silence == Spec => []SilentWhenHalted
<1>1. HaltInv => SilentWhenHalted BY DEF HaltInv
<1> QED BY <1>1, TypeInit, TypeStep, HaltInit, HaltStep, PTL DEF Spec

\* Once the interrupt has carried out a stop the song is at its top with the
\* default tempo until it plays again.
THEOREM StopRewinds == Spec => []StoppedAtTop
<1>1. HaltInv => StoppedAtTop BY DEF HaltInv
<1> QED BY <1>1, TypeInit, TypeStep, HaltInit, HaltStep, PTL DEF Spec

-----------------------------------------------------------------------------
\* At the start of block n + 1 that block is read and nothing else.
LEMMA ReadInSync ==
  ASSUME NEW t \in Tracks, NEW n \in Nat, n < nbOfBlocks(t)
  PROVE  BlocksAt(t, BlockOffset[t][n]) = {Numbered(t, n + 1)}
<1> DEFINE hits == {m \in 1..nbOfBlocks(t) : BlockOffset[t][m - 1] = BlockOffset[t][n]}
<1>1. nbOfBlocks(t) \in Nat BY SongFacts
<1>2. \A m, k \in 0..nbOfBlocks(t) : BlockOffset[t][m] = BlockOffset[t][k] => m = k
  <2> SUFFICES ASSUME NEW m \in 0..nbOfBlocks(t), NEW k \in 0..nbOfBlocks(t),
                      BlockOffset[t][m] = BlockOffset[t][k]
               PROVE  m = k
    OBVIOUS
  <2>1. BlockOffset[t] \in [0..nbOfBlocks(t) -> Nat] BY OffsetAssumption
  <2>2. BlockOffset[t][m] \in Nat /\ BlockOffset[t][k] \in Nat BY <2>1
  <2>3. /\ m < k => BlockOffset[t][m] < BlockOffset[t][k]
        /\ k < m => BlockOffset[t][k] < BlockOffset[t][m]
    BY OffsetAssumption
  <2>4. m \in Nat /\ k \in Nat BY <1>1
  <2> QED BY <2>2, <2>3, <2>4
<1>3. n + 1 \in hits BY <1>1
<1>4. ASSUME NEW m \in hits PROVE m = n + 1
  <2>1. m \in 1..nbOfBlocks(t) /\ BlockOffset[t][m - 1] = BlockOffset[t][n] OBVIOUS
  <2>2. m - 1 \in 0..nbOfBlocks(t) /\ n \in 0..nbOfBlocks(t) BY <1>1, <2>1
  <2>3. m - 1 = n BY <1>2, <2>1, <2>2
  <2> QED BY <1>1, <2>1, <2>3
<1>5. hits = {n + 1} BY <1>3, <1>4
<1> HIDE DEF hits
<1>6. BlocksAt(t, BlockOffset[t][n]) = {Numbered(t, m) : m \in hits}
  BY <1>3 DEF BlocksAt, hits
<1> QED BY <1>5, <1>6

\* The offset of block n + 1 is where block n ends.
LEMMA NextOffset ==
  ASSUME NEW t \in Tracks, NEW n \in 1..nbOfBlocks(t)
  PROVE  /\ BlockOffset[t][n] =
              BlockOffset[t][n - 1] + (VlqSize(Song[t][n].delta) + SizeofNktBlock)
         /\ BlockOffset[t][n - 1] \in Nat /\ VlqSize(Song[t][n].delta) + SizeofNktBlock \in Nat
<1>1. nbOfBlocks(t) \in Nat /\ Song[t][n] \in Block BY SongFacts
<1>2. n - 1 \in 0..nbOfBlocks(t) BY <1>1
<1>3. BlockOffset[t][n - 1] \in Nat BY <1>2, OffsetAssumption
<1>4. VlqSize(Song[t][n].delta) \in 1..3 BY <1>1, VlqSizeType DEF Block
<1>5. BlockOffset[t][n] =
        BlockOffset[t][n - 1] + VlqSize(Song[t][n].delta) + SizeofNktBlock
  BY OffsetAssumption
<1> QED BY <1>3, <1>4, <1>5 DEF SizeofNktBlock

\* A track that is not at its end reads the block it is numbered to be at.
LEMMA CurrentBlock ==
  ASSUME TypeOK, InSync, InTrack, NEW b \in Current, ~AtEnd(b)
  PROVE  /\ currentBlockId[isr] + 1 \in 1..nbOfBlocks(isr)
         /\ b = Numbered(isr, currentBlockId[isr] + 1)
<1>1. isr \in Tracks /\ currentBlockId[isr] \in Nat /\ nbOfBlocks(isr) \in Nat
  BY SongFacts DEF InTrack, TypeOK
<1>2. currentBlockId[isr] < nbOfBlocks(isr)
  BY <1>1 DEF AtEnd
<1>3. Current = {Numbered(isr, currentBlockId[isr] + 1)}
  BY <1>1, <1>2, ReadInSync DEF Current, InSync
<1> QED BY <1>1, <1>2, <1>3

\* Sending blocks up to the n-th keeps a track in sync when the size is theirs.
LEMMA SendInSync ==
  ASSUME TypeOK, InSync, InTrack, NEW b, NEW n \in Nat, NEW size,
         Send(b, n, size), currentBlockId[isr] + n <= nbOfBlocks(isr),
         BlockOffset[isr][currentBlockId[isr] + n] =
           BlockOffset[isr][currentBlockId[isr]] + size
  PROVE  InSync'
<1> SUFFICES ASSUME NEW t \in Tracks
             PROVE  /\ currentBlockId'[t] \in 0..nbOfBlocks(t)
                    /\ eventsBlockOffset'[t] = BlockOffset[t][currentBlockId'[t]]
  BY DEF InSync
<1>1. isr \in Tracks /\ currentBlockId[isr] \in Nat /\ nbOfBlocks(isr) \in Nat
  BY SongFacts DEF InTrack, TypeOK
<1>2. currentBlockId' = [currentBlockId EXCEPT ![isr] = currentBlockId[isr] + n]
  BY DEF Send
<1>3. eventsBlockOffset' = [eventsBlockOffset EXCEPT ![isr] = eventsBlockOffset[isr] + size]
  BY DEF Send
<1>4. CASE t = isr
  <2>1. currentBlockId'[t] = currentBlockId[isr] + n BY <1>1, <1>2, <1>4 DEF TypeOK
  <2>2. eventsBlockOffset'[t] = eventsBlockOffset[isr] + size BY <1>1, <1>3, <1>4 DEF TypeOK
  <2>3. eventsBlockOffset[isr] = BlockOffset[isr][currentBlockId[isr]] BY <1>1 DEF InSync
  <2>4. currentBlockId[isr] + n \in 0..nbOfBlocks(isr) BY <1>1
  <2> QED BY <1>4, <2>1, <2>2, <2>3, <2>4
<1>5. CASE t # isr
  <2>1. currentBlockId'[t] = currentBlockId[t] /\ eventsBlockOffset'[t] = eventsBlockOffset[t]
    BY <1>2, <1>3, <1>5 DEF TypeOK
  <2> QED BY <2>1 DEF InSync
<1> QED BY <1>4, <1>5

\* A rewind brings every track back in sync.
LEMMA RewindInSync == Rewind => InSync'
<1> SUFFICES ASSUME Rewind, NEW t \in Tracks
             PROVE  /\ currentBlockId'[t] \in 0..nbOfBlocks(t)
                    /\ eventsBlockOffset'[t] = BlockOffset[t][currentBlockId'[t]]
  BY DEF InSync
<1>1. currentBlockId'[t] = 0 /\ eventsBlockOffset'[t] = 0 BY DEF Rewind, Zeros
<1>2. nbOfBlocks(t) \in Nat /\ BlockOffset[t][0] = 0 BY SongFacts, OffsetAssumption
<1> QED BY <1>1, <1>2

\* Every track starts in sync.
LEMMA SyncInit == Init => InSync
<1> SUFFICES ASSUME Init, NEW t \in Tracks
             PROVE  /\ currentBlockId[t] \in 0..nbOfBlocks(t)
                    /\ eventsBlockOffset[t] = BlockOffset[t][currentBlockId[t]]
  BY DEF InSync
<1>1. currentBlockId[t] = 0 /\ eventsBlockOffset[t] = 0 BY DEF Init, Zeros
<1>2. nbOfBlocks(t) \in Nat /\ BlockOffset[t][0] = 0 BY SongFacts, OffsetAssumption
<1> QED BY <1>1, <1>2

\* Every action keeps the tracks of a paired song in sync.
LEMMA SyncStep == PairedTempos /\ TypeOK /\ InSync /\ [Next]_vars => InSync'
<1> SUFFICES ASSUME PairedTempos, TypeOK, InSync, [Next]_vars PROVE InSync'
  OBVIOUS
<1> USE DEF tracks, history, client, interrupt
<1>1. ASSUME UNCHANGED <<currentBlockId, eventsBlockOffset>> PROVE InSync'
  BY <1>1 DEF InSync
<1>2. CASE initNktSequence
  BY <1>2, RewindInSync DEF initNktSequence
<1>3. CASE NktDeinstallReplayRout \/ LoadState \/ StoreState \/ StopResetsDevice
  BY <1>1, <1>3 DEF NktDeinstallReplayRout, LoadState, StoreState, StopResetsDevice
<1>4. CASE stopNktSequence \/ pauseNktSequence \/ playNktSequence \/ switchNktReplayMode
  BY <1>1, <1>4, EnterType
<1>5. CASE TickPaused \/ TickPlaying
  BY <1>1, <1>5 DEF TickPaused, TickPlaying
<1>6. CASE TickStopped
  BY <1>6, RewindInSync DEF TickStopped
<1>7. CASE SingleEnds
  BY <1>7, RewindInSync DEF SingleEnds, EndSequence
<1>8. CASE TrackEnded \/ TrackWaits
  BY <1>1, <1>8 DEF TrackEnded, TrackWaits
<1>9. CASE TrackSends
  <2>1. PICK b \in Current :
          ~AtEnd(b) /\ Send(b, 1, VlqSize(b.delta) + SizeofNktBlock)
    BY <1>9 DEF TrackSends
  <2> DEFINE n == currentBlockId[isr]
  <2>2. InTrack /\ isr \in Tracks /\ n \in Nat BY <1>9 DEF TrackSends, InTrack, TypeOK
  <2>3. n + 1 \in 1..nbOfBlocks(isr) /\ b = Numbered(isr, n + 1)
    BY <2>1, <2>2, CurrentBlock
  <2>4. BlockOffset[isr][n + 1] = BlockOffset[isr][n] + (VlqSize(b.delta) + SizeofNktBlock)
    <3>1. (n + 1) - 1 = n BY <2>2
    <3>2. b.delta = Song[isr][n + 1].delta BY <2>3 DEF Numbered
    <3> HIDE DEF n
    <3> QED BY <2>2, <2>3, <3>1, <3>2, NextOffset
  <2>5. n + 1 <= nbOfBlocks(isr) BY <2>2, <2>3, SongFacts
  <2> QED BY <2>1, <2>2, <2>4, <2>5, SendInSync
<1>10. CASE TrackChangesTempo
  <2> DEFINE Size(b) == VlqSize(b.delta) + SizeofNktBlock
             n == currentBlockId[isr]
  <2>1. PICK b \in Current :
          /\ ~AtEnd(b) /\ b.msgType = NKT_TEMPO_CHANGE
          /\ \E next \in BlocksAt(isr, eventsBlockOffset[isr] + Size(b)) :
               Send(next, 2, Size(b) + Size(b))
    BY <1>10 DEF TrackChangesTempo
  <2>2. PICK next : Send(next, 2, Size(b) + Size(b))
    BY <2>1
  <2>3. InTrack /\ isr \in Tracks /\ n \in Nat /\ nbOfBlocks(isr) \in Nat
    BY <1>10, SongFacts DEF TrackChangesTempo, InTrack, TypeOK
  <2>4. n + 1 \in 1..nbOfBlocks(isr) /\ b = Numbered(isr, n + 1)
    BY <2>1, <2>3, CurrentBlock
  <2>5. b.delta = Song[isr][n + 1].delta /\ Song[isr][n + 1].msgType = NKT_TEMPO_CHANGE
    BY <2>1, <2>4 DEF Numbered
  <2>6. /\ n + 1 < nbOfBlocks(isr)
        /\ VlqSize(Song[isr][(n + 1) + 1].delta) = VlqSize(b.delta)
    BY <2>3, <2>4, <2>5 DEF PairedTempos
  <2>7. n + 2 \in 1..nbOfBlocks(isr) /\ (n + 1) - 1 = n /\ (n + 2) - 1 = n + 1
        /\ (n + 1) + 1 = n + 2
    BY <2>3, <2>6
  <2>8. /\ BlockOffset[isr][n + 1] = BlockOffset[isr][n] + Size(b)
        /\ BlockOffset[isr][n + 2] = BlockOffset[isr][n + 1] + Size(b)
        /\ BlockOffset[isr][n] \in Nat /\ Size(b) \in Nat
    <3> HIDE DEF n
    <3>1. /\ BlockOffset[isr][n + 1] = BlockOffset[isr][n] + Size(b)
          /\ BlockOffset[isr][n] \in Nat /\ Size(b) \in Nat
      BY <2>3, <2>4, <2>5, <2>7, NextOffset
    <3>2. BlockOffset[isr][n + 2] = BlockOffset[isr][n + 1] + Size(b)
      BY <2>3, <2>6, <2>7, NextOffset
    <3> QED BY <3>1, <3>2
  <2>9. BlockOffset[isr][n + 2] = BlockOffset[isr][n] + (Size(b) + Size(b))
    <3> HIDE DEF n, Size
    <3> QED BY <2>8
  <2>10. n + 2 <= nbOfBlocks(isr) BY <2>3, <2>6
  <2> QED BY <2>2, <2>3, <2>9, <2>10, SendInSync
<1>11. CASE TickEnds
  <2>1. CASE EndSequence BY <2>1, RewindInSync DEF EndSequence
  <2>2. CASE UNCHANGED <<sequenceState, tracks, timeStep, clock>> BY <1>1, <2>2
  <2> QED BY <1>11, <2>1, <2>2 DEF TickEnds
<1>12. CASE UNCHANGED vars
  BY <1>1, <1>12 DEF vars
<1> QED
  BY <1>2, <1>3, <1>4, <1>5, <1>6, <1>7, <1>8, <1>9, <1>10, <1>11, <1>12
  DEF Next, Calls, MainStep, Interrupt

\* A song whose tempo changes are each followed by a block with a delta of the
\* same size is replayed without ever losing the block boundaries: what is read
\* at the offset is the block of that number.
THEOREM StaysInSync == ASSUME PairedTempos PROVE Spec => []InSync
<1>1. Init => InSync
  BY SyncInit
<1>2. TypeOK /\ InSync /\ [Next]_vars => InSync'
  BY SyncStep
<1> QED BY <1>1, <1>2, TypeInit, TypeStep, PTL DEF Spec

=============================================================================
