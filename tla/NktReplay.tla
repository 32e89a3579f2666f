------------------------------ MODULE NktReplay ------------------------------
(***************************************************************************)
(* The NKT player: the replay routine that a timer interrupt runs          *)
(* (updateStepNkt, updateStepNktMt) and the transport calls of the main    *)
(* program (init, play, pause, stop, mode switch) that share               *)
(* sequenceState with it.                                                  *)
(*                                                                         *)
(* The interrupt runs to completion between two instructions of the main   *)
(* program.  Its handler is a loop over the tracks, modelled as one action *)
(* per iteration under the program counter isr; the main program is        *)
(* blocked while isr # 0.  The main program's compound assignments         *)
(* (sequenceState &= ..., |= ...) are a load and a store, and an interrupt *)
(* may come between any two of them.                                       *)
(*                                                                         *)
(* Time is counted in fractions of a MIDI tick: FRAC fractions make one.   *)
(***************************************************************************)
EXTENDS Integers, Sequences, FiniteSets, Functions, RunningSums

CONSTANTS
  Song,         \* Song[t]: the event blocks of track t
  BlockOffset,  \* BlockOffset[t][n]: where the block after the first n starts
  InitialStates,\* what initNktSequence may be told to start with
  FRAC,         \* fractions in a tick, 65536 in the code
  ELAPSED_MOD,  \* timeElapsedInt wraps here, 2^32 in the code
  VLQ_BASE,     \* first delta that needs a second byte, 128 in the code
  DEFAULT_STEP, \* defaultTempo.tuTable[currentUpdateFreq]
  SEND_DIRECT,  \* build flag IKBD_MIDI_SEND_DIRECT
  CLOCK_MAX     \* bound of the history variable clock

NKT_PLAY_ONCE  == "NKT_PLAY_ONCE"
NKT_PS_PLAYING == "NKT_PS_PLAYING"
NKT_PS_PAUSED  == "NKT_PS_PAUSED"
Bits == {NKT_PLAY_ONCE, NKT_PS_PLAYING, NKT_PS_PAUSED}

NKT_MIDIDATA     == "NKT_MIDIDATA"
NKT_TEMPO_CHANGE == "NKT_TEMPO_CHANGE"
NKT_END          == "NKT_END"

\* sNktBlock with the delta in front of it; step is the entry of the tempo
\* data that belongs to the update frequency (0 in the other blocks).
Block == [msgType : {NKT_MIDIDATA, NKT_TEMPO_CHANGE, NKT_END},
          delta   : Nat,
          step    : Nat]

ASSUME SongAssumption == Song \in Seq(Seq(Block)) /\ Song # << >>
ASSUME NumbersAssumption ==
  /\ FRAC \in Nat \ {0} /\ ELAPSED_MOD \in Nat \ {0} /\ VLQ_BASE \in Nat \ {0}
  /\ DEFAULT_STEP \in Nat /\ CLOCK_MAX \in Nat /\ SEND_DIRECT \in BOOLEAN
ASSUME InitialAssumption == InitialStates \subseteq SUBSET Bits

nbOfTracks    == Len(Song)
Tracks        == 1..nbOfTracks
nbOfBlocks(t) == Len(Song[t])
isMultitrackReplay == nbOfTracks # 1

\* Bytes of a delta written as a variable length quantity.
VlqSize(d) == CASE d < VLQ_BASE                               -> 1
                [] d >= VLQ_BASE /\ d < VLQ_BASE * VLQ_BASE -> 2
                [] OTHER                                      -> 3

SizeofNktBlock == 8

\* Blocks lie one behind the other, each with its delta in front.
ASSUME OffsetAssumption ==
  \A t \in Tracks :
     /\ BlockOffset[t] \in [0..nbOfBlocks(t) -> Nat]
     /\ BlockOffset[t][0] = 0
     /\ \A n \in 1..nbOfBlocks(t) :
          BlockOffset[t][n] =
            BlockOffset[t][n - 1] + VlqSize(Song[t][n].delta) + SizeofNktBlock
     /\ \A m, n \in 0..nbOfBlocks(t) : m < n => BlockOffset[t][m] < BlockOffset[t][n]

VARIABLES
  active,            \* g_CurrentNktSequence # 0
  hooked,            \* updateStepRout is set and the timer runs it
  sequenceState,     \* set of Bits
  bStopped, bPaused, \* the stop, the pause has been carried out
  currentBlockId, eventsBlockOffset, timeElapsedInt, timeElapsedFrac,
  timeStep,
  isr,               \* 0 outside the interrupt, else the track it is at
  TrackEndCount,
  tx,                \* blocks sent or put in MIDIsendBuffer by this interrupt
  call,              \* the transport call the main program is in, or "none"
  todo,              \* read-modify-writes the call has still to make
  loaded, word,      \* whether the first of them has loaded, and what
  sounding,          \* notes may sound on the device
  played,            \* history: <<track, block>> sent since the last rewind
  clock              \* history: fractions elapsed on a track since then

tracks  == <<currentBlockId, eventsBlockOffset, timeElapsedInt, timeElapsedFrac>>
history == <<played, clock>>
client  == <<call, todo, loaded, word>>
interrupt == <<isr, TrackEndCount, tx>>
vars == <<active, hooked, sequenceState, bStopped, bPaused, tracks, timeStep,
          interrupt, client, sounding, history>>

-----------------------------------------------------------------------------
(* Reading the stream.  At the start of a block that block is read (k is   *)
(* its number); elsewhere, and behind the last one, whatever the memory    *)
(* holds is (k = 0).                                                       *)
Garbage == {[k |-> 0, msgType |-> m, delta |-> 0, step |-> 0]
              : m \in {NKT_MIDIDATA, NKT_END}}
Numbered(t, n) == [k |-> n, msgType |-> Song[t][n].msgType,
                   delta |-> Song[t][n].delta, step |-> Song[t][n].step]
BlocksAt(t, offset) ==
  LET hits == {n \in 1..nbOfBlocks(t) : BlockOffset[t][n - 1] = offset}
  IN  IF hits = {} THEN Garbage ELSE {Numbered(t, n) : n \in hits}

-----------------------------------------------------------------------------
Zeros == [t \in Tracks |-> 0]

Init ==
  /\ active = FALSE /\ hooked = FALSE
  /\ sequenceState = {}
  /\ bStopped = FALSE /\ bPaused = FALSE
  /\ currentBlockId = Zeros /\ eventsBlockOffset = Zeros
  /\ timeElapsedInt = Zeros /\ timeElapsedFrac = Zeros
  /\ timeStep = 0
  /\ isr = 0 /\ TrackEndCount = 0 /\ tx = << >>
  /\ call = "none" /\ todo = << >> /\ loaded = FALSE /\ word = {}
  /\ sounding = FALSE
  /\ played = << >> /\ clock = Zeros

\* Mutants of Rewind: the offset, the elapsed time or the tempo is not reset.
RewindKeepsOffset ==
  /\ currentBlockId' = Zeros /\ eventsBlockOffset' = eventsBlockOffset
  /\ timeElapsedInt' = Zeros /\ timeElapsedFrac' = Zeros
  /\ timeStep' = DEFAULT_STEP /\ played' = << >> /\ clock' = Zeros
RewindKeepsTime ==
  /\ currentBlockId' = Zeros /\ eventsBlockOffset' = Zeros
  /\ UNCHANGED <<timeElapsedInt, timeElapsedFrac>>
  /\ timeStep' = DEFAULT_STEP /\ played' = << >> /\ clock' = Zeros
RewindKeepsTempo ==
  /\ currentBlockId' = Zeros /\ eventsBlockOffset' = Zeros
  /\ timeElapsedInt' = Zeros /\ timeElapsedFrac' = Zeros
  /\ timeStep' = (IF active THEN timeStep ELSE DEFAULT_STEP)
  /\ played' = << >> /\ clock' = Zeros

\* All tracks go back to their first block, the tempo to its default.
Rewind ==
  /\ currentBlockId' = Zeros /\ eventsBlockOffset' = Zeros
  /\ timeElapsedInt' = Zeros /\ timeElapsedFrac' = Zeros
  /\ timeStep' = DEFAULT_STEP
  /\ played' = << >> /\ clock' = Zeros

-----------------------------------------------------------------------------
(* The main program.  It calls initNktSequence when no replay routine is   *)
(* installed, and the transport calls once a sequence is active.           *)

InMain == isr = 0
Idle   == InMain /\ call = "none"

initNktSequence ==
  /\ Idle /\ ~hooked
  /\ active' = TRUE /\ hooked' = TRUE
  /\ Rewind
  /\ sequenceState' \in InitialStates
  /\ UNCHANGED <<bStopped, bPaused, interrupt, client, sounding>>

NktDeinstallReplayRout ==
  /\ Idle /\ hooked
  /\ hooked' = FALSE
  /\ UNCHANGED <<active, sequenceState, bStopped, bPaused, tracks, timeStep,
                 interrupt, client, sounding, history>>

\* The call has read sequenceState and decided on the writes it will make.
Enter(name, writes) ==
  /\ Idle /\ active
  /\ call' = name /\ todo' = writes
  /\ UNCHANGED <<active, hooked, sequenceState, bStopped, bPaused, tracks, timeStep,
                 interrupt, loaded, word, sounding, history>>

Clear(bits) == [off |-> bits, on |-> {}]
Put(bit)    == [off |-> {}, on |-> {bit}]

stopNktSequence ==
  Enter("stop", IF sequenceState \cap {NKT_PS_PLAYING, NKT_PS_PAUSED} = {}
                THEN << >>
                ELSE <<Clear({NKT_PS_PLAYING, NKT_PS_PAUSED})>>)

pauseNktSequence ==
  \/ /\ NKT_PS_PLAYING \in sequenceState /\ NKT_PS_PAUSED \notin sequenceState
     /\ Enter("pause", <<Clear({NKT_PS_PLAYING}), Put(NKT_PS_PAUSED)>>)
  \/ /\ NKT_PS_PLAYING \notin sequenceState /\ NKT_PS_PAUSED \in sequenceState
     /\ Enter("resume", <<Clear({NKT_PS_PAUSED}), Put(NKT_PS_PLAYING)>>)

playNktSequence ==
  /\ NKT_PS_PLAYING \notin sequenceState
  /\ Enter("play", <<Clear({NKT_PS_PAUSED}), Put(NKT_PS_PLAYING)>>)

switchNktReplayMode ==
  Enter("switch", IF NKT_PLAY_ONCE \in sequenceState
                  THEN <<Clear({NKT_PLAY_ONCE})>>
                  ELSE <<Put(NKT_PLAY_ONCE)>>)

\* A compound assignment loads sequenceState and then stores it.
LoadState ==
  /\ InMain /\ todo # << >> /\ ~loaded
  /\ loaded' = TRUE /\ word' = sequenceState
  /\ UNCHANGED <<active, hooked, sequenceState, bStopped, bPaused, tracks, timeStep,
                 interrupt, call, todo, sounding, history>>

StoreState ==
  /\ InMain /\ todo # << >> /\ loaded
  /\ sequenceState' = (word \ Head(todo).off) \cup Head(todo).on
  /\ todo' = Tail(todo) /\ loaded' = FALSE /\ word' = {}
  /\ call' = IF Len(todo) = 1 /\ call # "stop" THEN "none" ELSE call
  /\ UNCHANGED <<active, hooked, bStopped, bPaused, tracks, timeStep,
                 interrupt, sounding, history>>

\* stopNktSequence ends with a resetMidiDevice of its own, outside the
\* interrupt, which may take the send buffer away from under it.
StopResetsDevice ==
  /\ InMain /\ call = "stop" /\ todo = << >>
  /\ call' = "none" /\ sounding' \in {FALSE, sounding}
  /\ UNCHANGED <<active, hooked, sequenceState, bStopped, bPaused, tracks, timeStep,
                 interrupt, todo, loaded, word, history>>

Calls == \/ initNktSequence \/ NktDeinstallReplayRout
         \/ stopNktSequence \/ pauseNktSequence \/ playNktSequence
         \/ switchNktReplayMode
MainStep == LoadState \/ StoreState \/ StopResetsDevice

-----------------------------------------------------------------------------
(* The interrupt.                                                          *)

TickStarts == InMain /\ hooked

\* All notes off, once; the position stays.
TickPaused ==
  /\ TickStarts /\ NKT_PS_PAUSED \in sequenceState /\ ~bPaused
  /\ bPaused' = TRUE /\ bStopped' = FALSE
  /\ sounding' = FALSE
  /\ UNCHANGED <<active, hooked, sequenceState, tracks, timeStep, interrupt, client,
                 history>>

\* Back to the top, once.
TickStopped ==
  /\ TickStarts /\ sequenceState \cap {NKT_PS_PLAYING, NKT_PS_PAUSED} = {}
  /\ ~bStopped
  /\ bStopped' = TRUE /\ TrackEndCount' = 0
  /\ Rewind
  /\ sounding' = FALSE
  /\ UNCHANGED <<active, hooked, sequenceState, bPaused, isr, tx, client>>

TickPlaying ==
  /\ TickStarts /\ NKT_PS_PLAYING \in sequenceState
  /\ NKT_PS_PAUSED \notin sequenceState
  /\ isr' = 1 /\ TrackEndCount' = 0
  /\ UNCHANGED <<active, hooked, sequenceState, bStopped, bPaused, tracks, timeStep,
                 tx, client, sounding, history>>

\* The iteration for track isr: its time goes on by a step ...
frac    == timeElapsedFrac[isr] + timeStep
TimeAdd == frac \div FRAC
elapsed == (timeElapsedInt[isr] + TimeAdd) % ELAPSED_MOD

\* Mutants: the fraction is not masked; bPaused and bStopped are not reset.
TimePassesUnmasked(ticks) ==
  /\ bPaused' = FALSE /\ bStopped' = FALSE
  /\ timeElapsedFrac' = [timeElapsedFrac EXCEPT ![isr] = frac]
  /\ timeElapsedInt'  = [timeElapsedInt EXCEPT ![isr] = ticks]
  /\ UNCHANGED clock
TimePassesStaleFlags(ticks) ==
  /\ UNCHANGED <<bPaused, bStopped>>
  /\ timeElapsedFrac' = [timeElapsedFrac EXCEPT ![isr] = frac % FRAC]
  /\ timeElapsedInt'  = [timeElapsedInt EXCEPT ![isr] = ticks]
  /\ UNCHANGED clock

TimePasses(ticks) ==
  /\ bPaused' = FALSE /\ bStopped' = FALSE
  /\ timeElapsedFrac' = [timeElapsedFrac EXCEPT ![isr] = frac % FRAC]
  /\ timeElapsedInt'  = [timeElapsedInt EXCEPT ![isr] = ticks]
  /\ clock' = [clock EXCEPT ![isr] = IF @ + timeStep < CLOCK_MAX THEN @ + timeStep
                                                                ELSE CLOCK_MAX]

\* ... and it looks at the block it has reached.
InTrack == isr \in Tracks
Current == BlocksAt(isr, eventsBlockOffset[isr])
\* Mutants: the last block counts as the end; a block is due a tick late.
AtEndEarly(b) == b.msgType = NKT_END \/ currentBlockId[isr] + 2 >= nbOfBlocks(isr)
IsDueLate(b) == elapsed = b.delta + 1 \/ b.delta = 0

AtEnd(b) == b.msgType = NKT_END \/ currentBlockId[isr] >= nbOfBlocks(isr)
IsDue(b) == elapsed = b.delta \/ b.delta = 0

\* Mutant: the offset moves on by one block only, whatever n.
SendOneSize(b, n, size) ==
  /\ tx' = IF SEND_DIRECT THEN <<<<isr, b.k>>>> ELSE Append(tx, <<isr, b.k>>)
  /\ currentBlockId' = [currentBlockId EXCEPT ![isr] = @ + n]
  /\ eventsBlockOffset' = [eventsBlockOffset EXCEPT ![isr] = @ + (size \div n)]
  /\ isr' = isr + 1

\* Mutant: every track starts at the beginning of MIDIsendBuffer.
SendOverwrites(b, n, size) ==
  /\ tx' = <<<<isr, b.k>>>>
  /\ currentBlockId' = [currentBlockId EXCEPT ![isr] = @ + n]
  /\ eventsBlockOffset' = [eventsBlockOffset EXCEPT ![isr] = @ + size]
  /\ isr' = isr + 1

\* Sends the data of a block n blocks on and size bytes further.
Send(b, n, size) ==
  /\ tx' = IF SEND_DIRECT THEN <<<<isr, b.k>>>> ELSE Append(tx, <<isr, b.k>>)
  /\ currentBlockId' = [currentBlockId EXCEPT ![isr] = @ + n]
  /\ eventsBlockOffset' = [eventsBlockOffset EXCEPT ![isr] = @ + size]
  /\ isr' = isr + 1

\* Mutant: the test for NKT_PLAY_ONCE is the wrong way round.
EndSequenceSwapped ==
  /\ sequenceState' =
       IF NKT_PLAY_ONCE \notin sequenceState
       THEN sequenceState \ {NKT_PS_PLAYING, NKT_PS_PAUSED}
       ELSE (sequenceState \ {NKT_PS_PAUSED}) \cup {NKT_PS_PLAYING}
  /\ Rewind
  /\ sounding' = FALSE

\* Mutant: a song that loops stays where it is.
EndSequenceStays ==
  IF NKT_PLAY_ONCE \in sequenceState
  THEN /\ sequenceState' = sequenceState \ {NKT_PS_PLAYING, NKT_PS_PAUSED}
       /\ Rewind /\ sounding' = FALSE
  ELSE /\ sounding' = FALSE
       /\ UNCHANGED <<sequenceState, tracks, timeStep, history>>

\* onEndSequence
EndSequence ==
  /\ sequenceState' =
       IF NKT_PLAY_ONCE \in sequenceState
       THEN sequenceState \ {NKT_PS_PLAYING, NKT_PS_PAUSED}
       ELSE (sequenceState \ {NKT_PS_PAUSED}) \cup {NKT_PS_PLAYING}
  /\ Rewind
  /\ sounding' = FALSE

\* The single track replay returns from the handler at the end.
SingleEnds ==
  /\ InTrack /\ ~isMultitrackReplay
  /\ \E b \in Current : AtEnd(b)
  /\ bPaused' = FALSE /\ bStopped' = FALSE
  /\ EndSequence
  /\ isr' = 0
  /\ UNCHANGED <<active, hooked, TrackEndCount, tx, client>>

\* Mutant: an ended track is left before its time goes on.
TrackEndedTimeless ==
  /\ InTrack /\ isMultitrackReplay
  /\ \E b \in Current :
       /\ AtEnd(b)
       /\ TrackEndCount' = TrackEndCount + (IF b.msgType = NKT_END THEN 1 ELSE 0)
  /\ isr' = isr + 1
  /\ UNCHANGED <<active, hooked, sequenceState, bStopped, bPaused, tracks,
                 timeStep, tx, client, sounding, history>>

\* The multitrack replay counts the tracks that stand at an NKT_END.
TrackEnded ==
  /\ InTrack /\ isMultitrackReplay
  /\ \E b \in Current :
       /\ AtEnd(b)
       /\ TrackEndCount' = TrackEndCount + (IF b.msgType = NKT_END THEN 1 ELSE 0)
  /\ TimePasses(elapsed)
  /\ isr' = isr + 1
  /\ UNCHANGED <<active, hooked, sequenceState, currentBlockId, eventsBlockOffset,
                 timeStep, tx, client, sounding, played>>

TrackWaits ==
  /\ InTrack
  /\ \E b \in Current : ~AtEnd(b) /\ ~IsDue(b)
  /\ TimePasses(elapsed)
  /\ isr' = isr + 1
  /\ UNCHANGED <<active, hooked, sequenceState, currentBlockId, eventsBlockOffset,
                 timeStep, TrackEndCount, tx, client, sounding, played>>

TrackSends ==
  /\ InTrack
  /\ \E b \in Current :
       /\ ~AtEnd(b) /\ IsDue(b) /\ b.msgType # NKT_TEMPO_CHANGE
       /\ TimePasses((elapsed - b.delta) % ELAPSED_MOD)
       /\ Send(b, 1, VlqSize(b.delta) + SizeofNktBlock)
  /\ UNCHANGED <<active, hooked, sequenceState, timeStep, TrackEndCount, client,
                 sounding, played>>

\* A tempo change takes the block behind it along: that one's delta is not
\* looked at, nor its type, its data is sent, and the offset moves on by the
\* size of the tempo block's delta again (the inner count shadows the outer).
TrackChangesTempo ==
  /\ InTrack
  /\ \E b \in Current :
       LET size == VlqSize(b.delta) + SizeofNktBlock
       IN  /\ ~AtEnd(b) /\ IsDue(b) /\ b.msgType = NKT_TEMPO_CHANGE
           /\ TimePasses((elapsed - b.delta) % ELAPSED_MOD)
           /\ timeStep' = b.step
           /\ \E next \in BlocksAt(isr, eventsBlockOffset[isr] + size) :
                 Send(next, 2, size + size)
  /\ UNCHANGED <<active, hooked, sequenceState, TrackEndCount, client, sounding,
                 played>>

\* Mutant: MIDIbytesToSend is not set back to zero.
TickEndsKeepsBuffer ==
  /\ isr = nbOfTracks + 1
  /\ sounding' = (sounding \/ tx # << >>)
  /\ played' = played \o tx
  /\ isr' = 0
  /\ UNCHANGED <<active, hooked, sequenceState, bStopped, bPaused, tracks, timeStep,
                 TrackEndCount, tx, client, clock>>

\* Behind the loop: the song ends when every track has, and replayNkt sends
\* what MIDIsendBuffer holds.
TickEnds ==
  /\ isr = nbOfTracks + 1
  /\ IF isMultitrackReplay /\ TrackEndCount = nbOfTracks
     THEN EndSequence
     ELSE /\ sounding' = (sounding \/ tx # << >>)
          /\ played' = played \o tx
          /\ UNCHANGED <<sequenceState, tracks, timeStep, clock>>
  /\ tx' = << >> /\ isr' = 0
  /\ UNCHANGED <<active, hooked, bStopped, bPaused, TrackEndCount, client>>

Interrupt == \/ TickPaused \/ TickStopped \/ TickPlaying
             \/ SingleEnds \/ TrackEnded \/ TrackWaits
             \/ TrackSends \/ TrackChangesTempo
             \/ TickEnds

-----------------------------------------------------------------------------
Next == Calls \/ MainStep \/ Interrupt
Spec == Init /\ [][Next]_vars

\* The timer keeps firing; and while no interrupt comes a call does not stand still.
Fairness == WF_vars(Interrupt) /\ WF_vars(MainStep)
FairSpec == Spec /\ Fairness

-----------------------------------------------------------------------------
Writes == [off : SUBSET Bits, on : SUBSET Bits]

\* Every variable stays in its type: no elapsed time, fraction, count or pc of
\* the interrupt leaves its range.
TypeOK ==
  /\ active \in BOOLEAN /\ hooked \in BOOLEAN
  /\ sequenceState \in SUBSET Bits
  /\ bStopped \in BOOLEAN /\ bPaused \in BOOLEAN
  /\ currentBlockId \in [Tracks -> Nat] /\ eventsBlockOffset \in [Tracks -> Nat]
  /\ timeElapsedInt \in [Tracks -> 0..ELAPSED_MOD - 1]
  /\ timeElapsedFrac \in [Tracks -> 0..FRAC - 1]
  /\ timeStep \in Nat
  /\ isr \in 0..nbOfTracks + 1
  /\ TrackEndCount \in Nat
  /\ tx \in Seq(Tracks \X Nat)
  /\ call \in {"none", "stop", "pause", "resume", "play", "switch"}
  /\ todo \in Seq(Writes) /\ loaded \in BOOLEAN /\ word \in SUBSET Bits
  /\ sounding \in BOOLEAN
  /\ played \in Seq(Tracks \X Nat)
  /\ clock \in [Tracks -> Nat]

\* Once the interrupt has carried out a stop or a pause nothing sounds, in
\* whatever order calls and interrupts come; notes would hang otherwise.
SilentWhenHalted == bPaused \/ bStopped => ~sounding

AtTop == /\ currentBlockId = Zeros /\ eventsBlockOffset = Zeros
         /\ timeElapsedInt = Zeros /\ timeElapsedFrac = Zeros
         /\ timeStep = DEFAULT_STEP

\* Once the interrupt has carried out a stop the song stands at its top with
\* the default tempo, so that whatever plays next starts there.
StoppedAtTop == bStopped => AtTop

\* The byte offset into the events always matches the number of the block:
\* the replay never reads inside a block or behind the last one.
InSync ==
  \A t \in Tracks :
     /\ currentBlockId[t] \in 0..nbOfBlocks(t)
     /\ eventsBlockOffset[t] = BlockOffset[t][currentBlockId[t]]

\* What a song must be for that: a block follows each tempo change, and its
\* delta takes as many bytes as that of the change.
PairedTempos ==
  \A t \in Tracks : \A n \in 1..nbOfBlocks(t) :
    Song[t][n].msgType = NKT_TEMPO_CHANGE =>
      /\ n < nbOfBlocks(t)
      /\ VlqSize(Song[t][n + 1].delta) = VlqSize(Song[t][n].delta)

\* And for the song to end: every track has one end, its last block, and a tempo
\* change does not take the end along with it.
EndsAreLast ==
  \A t \in Tracks :
    /\ nbOfBlocks(t) > 0
    /\ \A n \in 1..nbOfBlocks(t) :
         /\ Song[t][n].msgType = NKT_END <=> n = nbOfBlocks(t)
         /\ Song[t][n].msgType = NKT_TEMPO_CHANGE => n + 1 < nbOfBlocks(t)

\* For every tempo to be taken: none stands directly behind another.
TemposApart ==
  \A t \in Tracks : \A n \in 2..nbOfBlocks(t) :
    Song[t][n - 1].msgType = NKT_TEMPO_CHANGE => Song[t][n].msgType # NKT_TEMPO_CHANGE

\* And for no delta to be jumped over: each step is less than a tick, and what is due
\* at once is the first block or follows a tempo change.
StepsBelowTick ==
  /\ DEFAULT_STEP < FRAC
  /\ \A t \in Tracks : \A n \in 1..nbOfBlocks(t) :
       /\ Song[t][n].msgType = NKT_TEMPO_CHANGE => Song[t][n].step < FRAC
       /\ n > 1 /\ Song[t][n].delta = 0 /\ Song[t][n].msgType # NKT_END =>
            Song[t][n - 1].msgType = NKT_TEMPO_CHANGE

\* For the tracks to keep together: one track holds the changes.
TemposOnOneTrack ==
  \E v \in Tracks : \A t \in Tracks \ {v} : \A n \in 1..nbOfBlocks(t) :
    Song[t][n].msgType # NKT_TEMPO_CHANGE

\* Sent at once, the data of one track takes the place of another's of the same interrupt.
TracksShareBuffer == isMultitrackReplay => ~SEND_DIRECT

\* The blocks of track t that changed the tempo since the last rewind.
Tempos(t) == {n \in 1..currentBlockId[t] : Song[t][n].msgType = NKT_TEMPO_CHANGE}

\* The step in force is that of the last tempo change replayed, or the default
\* when there was none: a rewind never leaves the tempo of the old pass behind,
\* and a tempo change is never passed over.  (One track holds the changes.)
TempoInForce ==
  active =>
    \/ /\ \A t \in Tracks : Tempos(t) = {}
       /\ timeStep = DEFAULT_STEP
    \/ \E t \in Tracks : \E n \in Tempos(t) :
         /\ \A m \in Tempos(t) : m <= n
         /\ timeStep = Song[t][n].step

\* A track with blocks left has not let one's time go by: the test for equality
\* would never find it again.
NotOverdue ==
  \A t \in Tracks :
    currentBlockId[t] < nbOfBlocks(t) =>
      LET b == Song[t][currentBlockId[t] + 1]
      IN  b.msgType = NKT_END \/ b.delta = 0 \/ timeElapsedInt[t] < b.delta

\* The ticks a block adds to the time of its track: the delta behind a tempo change
\* is not counted, it shares its tick.
Ticks(t) == [n \in 1..nbOfBlocks(t) |->
               IF n > 1 /\ Song[t][n - 1].msgType = NKT_TEMPO_CHANGE THEN 0
                                                                     ELSE Song[t][n].delta]

\* No time is lost or gained on the way through blocks and tempo changes: what
\* has elapsed on a track is the time of its blocks and what is left over.
OnSchedule ==
  \A t \in Tracks :
    clock[t] < CLOCK_MAX =>
      clock[t] = FRAC * (RunningSum(Ticks(t))[currentBlockId[t]] + timeElapsedInt[t])
                 + timeElapsedFrac[t]

\* The tracks keep together: between interrupts two of them are apart by no
\* more than the one step of the interrupt that changed the tempo, which the
\* tracks up to the changing one took at the old step and the others at the new.
TracksTogether ==
  isr = 0 /\ (\A t \in Tracks : clock[t] < CLOCK_MAX) =>
    \A t, u \in Tracks : t < u /\ clock[t] # clock[u] =>
       /\ clock[u] - clock[t] = timeStep - DEFAULT_STEP
       /\ \E v \in t..u - 1 : Tempos(v) # {}

\* Everything up to where the tracks stand has been sent, but for the tempo changes,
\* and nothing else; each track's blocks in order and once.
Delivered ==
  isr = 0 =>
    /\ Range(played) = UNION {{t} \X (1..currentBlockId[t] \ Tempos(t)) : t \in Tracks}
    /\ \A i, j \in 1..Len(played) :
         i < j /\ played[i][1] = played[j][1] => played[i][2] < played[j][2]

\* A song that plays once and is left alone comes to its end and stops.
PlayOnceStops ==
  hooked /\ sequenceState = {NKT_PLAY_ONCE, NKT_PS_PLAYING} ~>
    ~hooked \/ sequenceState # {NKT_PLAY_ONCE, NKT_PS_PLAYING}

\* A song that loops and is left alone comes round again and again.
LoopComesRound ==
  <>[](hooked /\ sequenceState = {NKT_PS_PLAYING}) => []<>(played = << >>)

\* When the song no longer plays, silence follows unless it is resumed first.
ReachesSilence ==
  hooked /\ NKT_PS_PLAYING \notin sequenceState ~>
    ~sounding \/ ~hooked \/ NKT_PS_PLAYING \in sequenceState

\* While a paused song is being resumed it keeps its place (demo/nktReplay's
\* "pause/unpause played sequence").
ResumeKeepsPosition == [][call = "resume" => UNCHANGED currentBlockId]_vars

-----------------------------------------------------------------------------
Mode == CASE ~hooked                         -> "off"
          [] hooked /\ NKT_PS_PAUSED \in sequenceState -> "paused"
          [] hooked /\ NKT_PS_PAUSED \notin sequenceState
                    /\ NKT_PS_PLAYING \in sequenceState -> "playing"
          [] OTHER                           -> "stopped"

Transport == INSTANCE NktTransport
               WITH lengths <- [t \in Tracks |-> nbOfBlocks(t) - 1],
                    mode <- Mode, pos <- currentBlockId

\* The interrupt and the racing calls together keep what a transport promises:
\* only a playing song moves on, it ends when every track has and not before,
\* and no sound starts while it is halted.
ImplementsTransport == Transport!Spec
=============================================================================
