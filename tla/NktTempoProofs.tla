--------------------------- MODULE NktTempoProofs ---------------------------
(***************************************************************************)
(* Theorems about the time of the player: which tempo is in force, that no *)
(* block's time goes by unnoticed, that the tracks keep to the schedule    *)
(* and to each other, and that everything is sent.                         *)
(***************************************************************************)
EXTENDS NktReplayProofs, InductionTheorems

\* What a track reads in front of its end is the next of its blocks.
LEMMA NextBlock ==
  ASSUME TypeOK, InSync, InTrack, NEW b \in Current, ~AtEnd(b)
  PROVE  /\ isr \in Tracks /\ currentBlockId[isr] \in Nat
         /\ currentBlockId[isr] + 1 \in 1..nbOfBlocks(isr)
         /\ b.msgType = Song[isr][currentBlockId[isr] + 1].msgType
         /\ b.delta = Song[isr][currentBlockId[isr] + 1].delta
         /\ b.step = Song[isr][currentBlockId[isr] + 1].step
         /\ b.delta \in Nat
<1>1. isr \in Tracks /\ currentBlockId[isr] \in Nat
  BY DEF InTrack, TypeOK
<1> DEFINE n == currentBlockId[isr] + 1
<1>2. n \in 1..nbOfBlocks(isr) /\ b = Numbered(isr, n)
  BY CurrentBlock
<1>3. Song[isr][n].delta \in Nat
  BY <1>1, <1>2, SongFacts DEF Block
<1> QED BY <1>1, <1>2, <1>3 DEF Numbered

\* Sending n blocks moves one track on by that number.
LEMMA SendMoves ==
  ASSUME TypeOK, InTrack, NEW b, NEW n \in Nat, NEW size, Send(b, n, size)
  PROVE  /\ currentBlockId'[isr] = currentBlockId[isr] + n
         /\ \A t \in Tracks : t # isr => currentBlockId'[t] = currentBlockId[t]
         /\ isr' = isr + 1
  BY DEF Send, TypeOK, InTrack

-----------------------------------------------------------------------------
\* A song at its top has changed no tempo and goes at the default.
LEMMA TopTempo == ASSUME Rewind PROVE TempoInForce'
<1>1. \A t \in Tracks : Tempos(t)' = {}
  BY DEF Rewind, Zeros, Tempos
<1>2. timeStep' = DEFAULT_STEP
  BY DEF Rewind
<1> QED BY <1>1, <1>2 DEF TempoInForce

\* While no tempo change is sent the same one stays in force.
LEMMA SameTempo ==
  ASSUME TempoInForce, UNCHANGED <<active, timeStep>>,
         \A t \in Tracks : Tempos(t)' = Tempos(t)
  PROVE  TempoInForce'
  BY DEF TempoInForce

\* A block that is no tempo change does not add to them.
LEMMA SendsNoTempo ==
  ASSUME TypeOK, InSync, InTrack, NEW b \in Current, ~AtEnd(b),
         b.msgType # NKT_TEMPO_CHANGE, NEW size, Send(b, 1, size), NEW t \in Tracks
  PROVE  Tempos(t)' = Tempos(t)
<1>1. CASE t # isr
  BY <1>1, SendMoves DEF Tempos
<1>2. CASE t = isr
  <2> DEFINE c == currentBlockId[isr]
  <2>1. c \in Nat /\ Song[isr][c + 1].msgType # NKT_TEMPO_CHANGE
    BY NextBlock
  <2>2. currentBlockId'[isr] = c + 1
    BY SendMoves
  <2>3. 1..(c + 1) = (1..c) \cup {c + 1}
    BY <2>1
  <2> HIDE DEF c
  <2>4. {n \in 1..(c + 1) : Song[isr][n].msgType = NKT_TEMPO_CHANGE}
          = {n \in 1..c : Song[isr][n].msgType = NKT_TEMPO_CHANGE}
    BY <2>1, <2>3
  <2> QED BY <1>2, <2>2, <2>4 DEF Tempos, c
<1> QED BY <1>1, <1>2

\* A tempo change is in force once it is sent: the block it takes along is none.
LEMMA SendsTempo ==
  ASSUME TemposApart, TypeOK, InSync, InTrack, NEW b \in Current, ~AtEnd(b),
         b.msgType = NKT_TEMPO_CHANGE, timeStep' = b.step,
         NEW next, NEW size, Send(next, 2, size),
         currentBlockId[isr] + 2 <= nbOfBlocks(isr)
  PROVE  TempoInForce'
<1>1. PICK t \in Tracks : t = isr
  BY DEF InTrack
<1> DEFINE c == currentBlockId[t]
<1>2. /\ c \in Nat /\ nbOfBlocks(t) \in Nat
      /\ Song[t][c + 1].msgType = NKT_TEMPO_CHANGE
      /\ timeStep' = Song[t][c + 1].step
  BY <1>1, NextBlock, SongFacts
<1>3. currentBlockId'[t] = c + 2
  BY <1>1, SendMoves
<1>4. Song[t][c + 2].msgType # NKT_TEMPO_CHANGE
  <2>1. c + 2 \in 2..nbOfBlocks(t) /\ (c + 2) - 1 = c + 1
    BY <1>1, <1>2
  <2> HIDE DEF c
  <2> QED BY <1>2, <2>1 DEF TemposApart
<1> HIDE DEF c
<1>5. Tempos(t)' = {n \in 1..(c + 2) : Song[t][n].msgType = NKT_TEMPO_CHANGE}
  BY <1>3 DEF Tempos
<1>6. c + 1 \in Tempos(t)'
  BY <1>2, <1>5
<1>7. \A m \in Tempos(t)' : m <= c + 1
  BY <1>2, <1>4, <1>5
<1> QED BY <1>2, <1>6, <1>7 DEF TempoInForce

\* Every action keeps the tempo of the last change in force.
LEMMA TempoStep ==
  PairedTempos /\ TemposApart /\ TypeOK /\ InSync /\ TempoInForce /\ [Next]_vars
    => TempoInForce'
<1> SUFFICES ASSUME PairedTempos, TemposApart, TypeOK, InSync, TempoInForce, [Next]_vars
             PROVE  TempoInForce'
  OBVIOUS
<1> USE DEF tracks, history, client, interrupt
<1>1. ASSUME UNCHANGED <<active, timeStep, currentBlockId>> PROVE TempoInForce'
  BY <1>1, SameTempo DEF Tempos
<1>2. CASE initNktSequence
  BY <1>2, TopTempo DEF initNktSequence
<1>3. CASE NktDeinstallReplayRout \/ LoadState \/ StoreState \/ StopResetsDevice
  BY <1>1, <1>3 DEF NktDeinstallReplayRout, LoadState, StoreState, StopResetsDevice
<1>4. CASE stopNktSequence \/ pauseNktSequence \/ playNktSequence \/ switchNktReplayMode
  BY <1>1, <1>4, EnterType
<1>5. CASE TickPaused \/ TickPlaying \/ TrackEnded \/ TrackWaits
  BY <1>1, <1>5 DEF TickPaused, TickPlaying, TrackEnded, TrackWaits
<1>6. CASE TickStopped
  BY <1>6, TopTempo DEF TickStopped
<1>7. CASE SingleEnds
  BY <1>7, TopTempo DEF SingleEnds, EndSequence
<1>8. CASE TrackSends
  <2>1. PICK b \in Current :
          /\ ~AtEnd(b) /\ b.msgType # NKT_TEMPO_CHANGE
          /\ Send(b, 1, VlqSize(b.delta) + SizeofNktBlock)
    BY <1>8 DEF TrackSends
  <2>2. InTrack /\ UNCHANGED <<active, timeStep>> BY <1>8 DEF TrackSends
  <2>3. \A t \in Tracks : Tempos(t)' = Tempos(t) BY <2>1, <2>2, SendsNoTempo
  <2> QED BY <2>2, <2>3, SameTempo
<1>9. CASE TrackChangesTempo
  <2> DEFINE Size(b) == VlqSize(b.delta) + SizeofNktBlock
  <2>1. PICK b \in Current :
          /\ ~AtEnd(b) /\ b.msgType = NKT_TEMPO_CHANGE /\ timeStep' = b.step
          /\ \E next \in BlocksAt(isr, eventsBlockOffset[isr] + Size(b)) :
               Send(next, 2, Size(b) + Size(b))
    BY <1>9 DEF TrackChangesTempo
  <2>2. PICK next : Send(next, 2, Size(b) + Size(b)) BY <2>1
  <2>3. InTrack BY <1>9 DEF TrackChangesTempo
  <2>4. currentBlockId[isr] + 2 <= nbOfBlocks(isr)
    <3>1. /\ isr \in Tracks /\ currentBlockId[isr] + 1 \in 1..nbOfBlocks(isr)
          /\ Song[isr][currentBlockId[isr] + 1].msgType = NKT_TEMPO_CHANGE
          /\ nbOfBlocks(isr) \in Nat /\ currentBlockId[isr] \in Nat
      BY <2>1, <2>3, NextBlock, SongFacts
    <3>2. currentBlockId[isr] + 1 < nbOfBlocks(isr) BY <3>1 DEF PairedTempos
    <3> QED BY <3>1, <3>2
  <2> HIDE DEF Size
  <2> QED BY <2>1, <2>2, <2>3, <2>4, SendsTempo
<1>10. CASE TickEnds
  <2>1. CASE EndSequence BY <2>1, TopTempo DEF EndSequence
  <2>2. CASE UNCHANGED <<sequenceState, tracks, timeStep, clock>>
    BY <1>1, <1>10, <2>2 DEF TickEnds
  <2> QED BY <1>10, <2>1, <2>2 DEF TickEnds
<1>11. CASE UNCHANGED vars
  BY <1>1, <1>11 DEF vars
<1> QED
  BY <1>2, <1>3, <1>4, <1>5, <1>6, <1>7, <1>8, <1>9, <1>10, <1>11
  DEF Next, Calls, MainStep, Interrupt

\* In a song whose tempo changes are paired and apart the tempo in force is always
\* that of the last change sent on some track, or the default behind a rewind.
THEOREM LastTempo == ASSUME PairedTempos, TemposApart PROVE Spec => []TempoInForce
<1>1. Init => TempoInForce
  BY DEF Init, TempoInForce
<1>2. TypeOK /\ InSync /\ TempoInForce /\ [Next]_vars => TempoInForce'
  BY TempoStep
<1>3. TypeOK /\ InSync /\ [Next]_vars => InSync'
  BY SyncStep
<1> QED BY <1>1, <1>2, <1>3, SyncInit, TypeInit, TypeStep, PTL DEF Spec

-----------------------------------------------------------------------------
\* A step never takes more than a tick; behind a tempo change the block it took along
\* has been left; and a song that begins at once has lost no time before it does.
Settled == \A t \in Tracks :
             currentBlockId[t] > 0 => Song[t][currentBlockId[t]].msgType # NKT_TEMPO_CHANGE
Fresh ==
  \A t \in Tracks :
    currentBlockId[t] = 0 /\ Song[t][1].delta = 0 /\ Song[t][1].msgType # NKT_END =>
      timeElapsedInt[t] = 0 /\ timeElapsedFrac[t] = 0

OverdueInv == timeStep < FRAC /\ Settled /\ Fresh /\ NotOverdue

\* What the time that has passed says of the next block is the same when neither changes.
LEMMA SameTimes ==
  ASSUME OverdueInv,
         UNCHANGED <<currentBlockId, timeElapsedInt, timeElapsedFrac, timeStep>>
  PROVE  OverdueInv'
  BY DEF OverdueInv, Settled, Fresh, NotOverdue

\* A song at its top has all its times before it.
LEMMA TopTimes == ASSUME StepsBelowTick, Rewind PROVE OverdueInv'
<1>1. timeStep' < FRAC BY DEF Rewind, StepsBelowTick
<1>2. \A t \in Tracks : /\ currentBlockId'[t] = 0
                        /\ timeElapsedInt'[t] = 0 /\ timeElapsedFrac'[t] = 0
  BY DEF Rewind, Zeros
<1>3. Settled' /\ Fresh' BY <1>2 DEF Settled, Fresh
<1>4. NotOverdue'
  <2> SUFFICES ASSUME NEW t \in Tracks, currentBlockId'[t] < nbOfBlocks(t)
               PROVE  LET b == Song[t][currentBlockId'[t] + 1]
                      IN  b.msgType = NKT_END \/ b.delta = 0 \/ timeElapsedInt'[t] < b.delta
    BY DEF NotOverdue
  <2>1. currentBlockId'[t] = 0 /\ timeElapsedInt'[t] = 0 /\ nbOfBlocks(t) \in Nat
    BY <1>2, SongFacts
  <2>2. 1 \in 1..nbOfBlocks(t) BY <2>1
  <2>3. Song[t][1].delta \in Nat BY <2>2, SongFacts DEF Block
  <2> QED BY <2>1, <2>3
<1> QED BY <1>1, <1>3, <1>4 DEF OverdueInv

\* What a division of a number below twice the divisor yields.
LEMMA Carry ==
  ASSUME NEW d \in Nat \ {0}, NEW a \in Nat, a < d + d
  PROVE  a \div d \in 0..1 /\ (a < d => a \div d = 0)
  OBVIOUS

\* A number that does not exceed the divisor by more than one is not enlarged.
LEMMA NoMore == ASSUME NEW d \in Nat \ {0}, NEW a \in Nat PROVE a % d \in 0..a
  OBVIOUS

\* A step takes a tick at most, and none while there is no fraction.
LEMMA OneTick ==
  ASSUME TypeOK, InTrack, timeStep < FRAC
  PROVE  /\ elapsed \in 0..timeElapsedInt[isr] + 1
         /\ timeElapsedFrac[isr] = 0 => elapsed <= timeElapsedInt[isr]
<1>1. /\ isr \in Tracks /\ timeElapsedFrac[isr] \in 0..FRAC - 1 /\ timeStep \in Nat
      /\ timeElapsedInt[isr] \in Nat
  BY NumbersAssumption DEF TypeOK, InTrack
<1>2. frac \in Nat /\ frac < FRAC + FRAC /\ (timeElapsedFrac[isr] = 0 => frac < FRAC)
  BY <1>1, NumbersAssumption DEF frac
<1>3. TimeAdd \in 0..1 /\ (timeElapsedFrac[isr] = 0 => TimeAdd = 0)
  BY <1>2, Carry, NumbersAssumption DEF TimeAdd
<1> DEFINE sum == timeElapsedInt[isr] + TimeAdd
<1>4. sum \in Nat /\ elapsed = sum % ELAPSED_MOD
  BY <1>1, <1>3 DEF elapsed
<1> HIDE DEF sum
<1>5. elapsed \in 0..sum
  BY <1>4, NoMore, NumbersAssumption
<1> QED BY <1>1, <1>3, <1>5 DEF sum

\* A block that is sent is sent at its time, and nothing is left over: a block without
\* a delta is the first one, and is found before any time has passed.
LEMMA SentOnTime ==
  ASSUME StepsBelowTick, TypeOK, InSync, OverdueInv, InTrack,
         NEW b \in Current, ~AtEnd(b), IsDue(b)
  PROVE  (elapsed - b.delta) % ELAPSED_MOD = 0
<1>1. PICK t \in Tracks : t = isr
  BY DEF InTrack
<1> DEFINE c == currentBlockId[t]
<1>2. /\ c \in Nat /\ c + 1 \in 1..nbOfBlocks(t) /\ b.delta \in Nat
      /\ b.delta = Song[t][c + 1].delta /\ b.msgType = Song[t][c + 1].msgType
      /\ b.msgType # NKT_END
  BY <1>1, NextBlock DEF AtEnd
<1>3. elapsed \in Nat
  BY ElapsedType, NumbersAssumption
<1>4. elapsed = b.delta
  <2>1. CASE b.delta # 0
    BY <2>1 DEF IsDue
  <2>2. CASE b.delta = 0
    <3>1. c = 0
      <4>1. CASE c > 0
        <5>1. Song[t][(c + 1) - 1].msgType = NKT_TEMPO_CHANGE
          <6> DEFINE n == c + 1
          <6>1. /\ n \in 1..nbOfBlocks(t) /\ n > 1
                /\ Song[t][n].delta = 0 /\ Song[t][n].msgType # NKT_END
            BY <1>2, <2>2, <4>1
          <6> HIDE DEF n
          <6>2. Song[t][n - 1].msgType = NKT_TEMPO_CHANGE
            BY <6>1 DEF StepsBelowTick
          <6> QED BY <6>2 DEF n
        <5>2. (c + 1) - 1 = c BY <1>2
        <5>3. FALSE BY <4>1, <5>1, <5>2 DEF OverdueInv, Settled
        <5> QED BY <5>3
      <4> QED BY <1>2, <4>1
    <3>2. timeElapsedInt[t] = 0 /\ timeElapsedFrac[t] = 0
      <4>1. c + 1 = 1 BY <3>1
      <4>2. Song[t][1].delta = 0 /\ Song[t][1].msgType # NKT_END BY <1>2, <2>2, <4>1
      <4> QED BY <3>1, <4>2 DEF OverdueInv, Fresh
    <3>3. elapsed <= 0
      BY <1>1, <3>2, OneTick DEF OverdueInv
    <3> QED BY <1>3, <2>2, <3>3
  <2> QED BY <2>1, <2>2
<1>5. elapsed - b.delta = 0
  BY <1>3, <1>4
<1> QED BY <1>5, NumbersAssumption

\* A track that waits has not reached the delta of its next block yet, and one that
\* is at its end has none.
LEMMA WaitsInTime ==
  ASSUME TypeOK, InSync, OverdueInv, InTrack, NEW b \in Current, AtEnd(b) \/ ~IsDue(b),
         TimePasses(elapsed), UNCHANGED <<currentBlockId, timeStep>>,
         \A t \in Tracks : nbOfBlocks(t) > 0
  PROVE  OverdueInv'
<1>1. PICK t \in Tracks : t = isr
  BY DEF InTrack
<1> DEFINE c == currentBlockId[t]
           next == Song[t][c + 1]
<1>2. c \in Nat /\ nbOfBlocks(t) \in Nat /\ timeElapsedInt[t] \in Nat
  BY SongFacts, NumbersAssumption DEF TypeOK
<1>3. ASSUME c < nbOfBlocks(t), next.msgType # NKT_END
      PROVE  next.delta # 0 /\ elapsed < next.delta
  <2>1. b = Numbered(t, c + 1)
    <3>1. BlocksAt(t, BlockOffset[t][c]) = {Numbered(t, c + 1)}
      BY <1>2, <1>3, ReadInSync
    <3> QED BY <1>1, <3>1 DEF Current, InSync
  <2>2. b.delta = next.delta /\ ~AtEnd(b)
    BY <1>1, <1>2, <1>3, <2>1 DEF Numbered, AtEnd
  <2>3. next.delta # 0 /\ elapsed # next.delta
    BY <2>2 DEF IsDue
  <2>4. timeElapsedInt[t] < next.delta /\ next.delta \in Nat
    BY <1>1, <1>3, <2>2, <2>3, NextBlock DEF OverdueInv, NotOverdue
  <2>5. elapsed \in 0..timeElapsedInt[t] + 1
    BY <1>1, OneTick DEF OverdueInv
  <2> HIDE DEF c, next
  <2> QED BY <1>2, <2>3, <2>4, <2>5
<1>4. /\ timeElapsedInt'[t] = elapsed
      /\ \A u \in Tracks : u # t => /\ timeElapsedInt'[u] = timeElapsedInt[u]
                                    /\ timeElapsedFrac'[u] = timeElapsedFrac[u]
  BY <1>1 DEF TimePasses, TypeOK
<1>5. Fresh'
  <2>1. c = 0 => c < nbOfBlocks(t) /\ next = Song[t][1]
    BY <1>2
  <2>2. ~(c = 0 /\ Song[t][1].delta = 0 /\ Song[t][1].msgType # NKT_END)
    BY <1>3, <2>1
  <2> QED BY <1>4, <2>2 DEF OverdueInv, Fresh
<1>6. NotOverdue'
  BY <1>3, <1>4 DEF OverdueInv, NotOverdue
<1>7. timeStep' < FRAC /\ Settled'
  BY DEF OverdueInv, Settled
<1> QED BY <1>5, <1>6, <1>7 DEF OverdueInv

\* What is sent leaves the track with its time at zero, in front of a block that is due
\* at once or later, and not behind a tempo change.
LEMMA SendsInTime ==
  ASSUME TypeOK, OverdueInv, InTrack, NEW n \in Nat \ {0}, NEW next, NEW size,
         Send(next, n, size), TimePasses(0), timeStep' < FRAC,
         currentBlockId[isr] + n <= nbOfBlocks(isr),
         Song[isr][currentBlockId[isr] + n].msgType # NKT_TEMPO_CHANGE
  PROVE  OverdueInv'
<1>1. PICK t \in Tracks : t = isr
  BY DEF InTrack
<1> DEFINE c == currentBlockId[t] + n
<1>2. c \in Nat \ {0} /\ nbOfBlocks(t) \in Nat
  <2>1. currentBlockId[t] \in Nat BY DEF TypeOK
  <2>2. nbOfBlocks(t) \in Nat BY SongFacts
  <2> QED BY <2>1, <2>2
<1>3. /\ currentBlockId'[t] = c /\ timeElapsedInt'[t] = 0
      /\ \A u \in Tracks : u # t => /\ currentBlockId'[u] = currentBlockId[u]
                                    /\ timeElapsedInt'[u] = timeElapsedInt[u]
                                    /\ timeElapsedFrac'[u] = timeElapsedFrac[u]
  BY <1>1, SendMoves DEF TimePasses, TypeOK
<1>4. Song[t][c].msgType # NKT_TEMPO_CHANGE
  BY <1>1
<1> HIDE DEF c
<1>5. Settled'
  BY <1>3, <1>4 DEF OverdueInv, Settled
<1>6. Fresh'
  BY <1>2, <1>3 DEF OverdueInv, Fresh
<1>7. NotOverdue'
  <2>1. c < nbOfBlocks(t) => Song[t][c + 1].delta \in Nat
    <3>1. c < nbOfBlocks(t) => c + 1 \in 1..nbOfBlocks(t)
      BY <1>2
    <3> QED BY <3>1, SongFacts DEF Block
  <2> QED BY <1>2, <1>3, <2>1 DEF OverdueInv, NotOverdue
<1> QED BY <1>5, <1>6, <1>7 DEF OverdueInv

\* Every action leaves the next block of each track before its time.
LEMMA OverdueStep ==
  ASSUME PairedTempos, EndsAreLast, TemposApart, StepsBelowTick,
         TypeOK, InSync, OverdueInv, [Next]_vars
  PROVE  OverdueInv'
<1> USE DEF tracks, history, client, interrupt
<1>1. CASE initNktSequence
  BY <1>1, TopTimes DEF initNktSequence
<1>2. CASE NktDeinstallReplayRout \/ LoadState \/ StoreState \/ StopResetsDevice
  BY <1>2, SameTimes DEF NktDeinstallReplayRout, LoadState, StoreState, StopResetsDevice
<1>3. CASE stopNktSequence \/ pauseNktSequence \/ playNktSequence \/ switchNktReplayMode
  BY <1>3, SameTimes, EnterType
<1>4. CASE TickPaused \/ TickPlaying
  BY <1>4, SameTimes DEF TickPaused, TickPlaying
<1>5. CASE TickStopped
  BY <1>5, TopTimes DEF TickStopped
<1>6. CASE SingleEnds
  BY <1>6, TopTimes DEF SingleEnds, EndSequence
<1>7. CASE TrackEnded \/ TrackWaits
  <2>1. InTrack /\ TimePasses(elapsed) /\ UNCHANGED <<currentBlockId, timeStep>>
    BY <1>7 DEF TrackEnded, TrackWaits
  <2>2. \E b \in Current : AtEnd(b) \/ ~IsDue(b)
    BY <1>7 DEF TrackEnded, TrackWaits
  <2>3. \A t \in Tracks : nbOfBlocks(t) > 0
    BY DEF EndsAreLast
  <2> QED BY <2>1, <2>2, <2>3, WaitsInTime
<1>8. CASE TrackSends
  <2>1. PICK b \in Current :
          /\ ~AtEnd(b) /\ IsDue(b) /\ b.msgType # NKT_TEMPO_CHANGE
          /\ TimePasses((elapsed - b.delta) % ELAPSED_MOD)
          /\ Send(b, 1, VlqSize(b.delta) + SizeofNktBlock)
    BY <1>8 DEF TrackSends
  <2>2. InTrack /\ timeStep' < FRAC
    BY <1>8 DEF TrackSends, OverdueInv
  <2>3. TimePasses(0)
    BY <2>1, <2>2, SentOnTime
  <2>4. /\ currentBlockId[isr] + 1 <= nbOfBlocks(isr)
        /\ Song[isr][currentBlockId[isr] + 1].msgType # NKT_TEMPO_CHANGE
    BY <2>1, <2>2, NextBlock, SongFacts
  <2> QED BY <2>1, <2>2, <2>3, <2>4, SendsInTime
<1>9. CASE TrackChangesTempo
  <2> DEFINE Size(b) == VlqSize(b.delta) + SizeofNktBlock
             c == currentBlockId[isr]
  <2>1. PICK b \in Current :
          /\ ~AtEnd(b) /\ IsDue(b) /\ b.msgType = NKT_TEMPO_CHANGE
          /\ TimePasses((elapsed - b.delta) % ELAPSED_MOD)
          /\ timeStep' = b.step
          /\ \E next \in BlocksAt(isr, eventsBlockOffset[isr] + Size(b)) :
               Send(next, 2, Size(b) + Size(b))
    BY <1>9 DEF TrackChangesTempo
  <2>2. PICK next : Send(next, 2, Size(b) + Size(b)) BY <2>1
  <2>3. InTrack BY <1>9 DEF TrackChangesTempo
  <2>4. TimePasses(0) BY <2>1, <2>3, SentOnTime
  <2>5. /\ isr \in Tracks /\ c \in Nat /\ nbOfBlocks(isr) \in Nat
        /\ c + 1 \in 1..nbOfBlocks(isr) /\ Song[isr][c + 1].msgType = NKT_TEMPO_CHANGE
        /\ timeStep' = Song[isr][c + 1].step
    BY <2>1, <2>3, NextBlock, SongFacts
  <2> HIDE DEF Size, c
  <2>6. timeStep' < FRAC BY <2>5 DEF StepsBelowTick
  <2>7. c + 1 < nbOfBlocks(isr) BY <2>5 DEF PairedTempos
  <2>8. c + 2 \in 2..nbOfBlocks(isr) /\ (c + 2) - 1 = c + 1 BY <2>5, <2>7
  <2>9. Song[isr][c + 2].msgType # NKT_TEMPO_CHANGE BY <2>5, <2>8 DEF TemposApart
  <2>10. c + 2 <= nbOfBlocks(isr) BY <2>5, <2>7
  <2> QED BY <2>2, <2>3, <2>4, <2>6, <2>9, <2>10, SendsInTime DEF c
<1>10. CASE TickEnds
  <2>1. CASE EndSequence BY <2>1, TopTimes DEF EndSequence
  <2>2. CASE UNCHANGED <<sequenceState, tracks, timeStep, clock>>
    BY <1>10, <2>2, SameTimes DEF TickEnds
  <2> QED BY <1>10, <2>1, <2>2 DEF TickEnds
<1>11. CASE UNCHANGED vars
  BY <1>11, SameTimes DEF vars
<1> QED
  BY <1>1, <1>2, <1>3, <1>4, <1>5, <1>6, <1>7, <1>8, <1>9, <1>10, <1>11
  DEF Next, Calls, MainStep, Interrupt

\* In a song whose steps are below a tick and in which no block but the first, or one
\* behind a tempo change, is due at once, no block's time ever goes by: the test for
\* equality of time and delta finds every one of them.
THEOREM NeverJumpedOver ==
  ASSUME PairedTempos, EndsAreLast, TemposApart, StepsBelowTick
  PROVE  Spec => []NotOverdue
<1>1. Init => OverdueInv
  <2> SUFFICES ASSUME Init PROVE OverdueInv
    OBVIOUS
  <2>1. timeStep < FRAC BY NumbersAssumption DEF Init
  <2>2. \A t \in Tracks : /\ currentBlockId[t] = 0
                          /\ timeElapsedInt[t] = 0 /\ timeElapsedFrac[t] = 0
    BY DEF Init, Zeros
  <2>3. Settled /\ Fresh BY <2>2 DEF Settled, Fresh
  <2>4. \A t \in Tracks : Song[t][1].delta \in Nat
    <3>1. \A t \in Tracks : 1 \in 1..nbOfBlocks(t) BY SongFacts DEF EndsAreLast
    <3> QED BY <3>1, SongFacts DEF Block
  <2>5. NotOverdue BY <2>2, <2>4 DEF NotOverdue
  <2> QED BY <2>1, <2>3, <2>5 DEF OverdueInv
<1>2. TypeOK /\ InSync /\ OverdueInv /\ [Next]_vars => OverdueInv'
  BY OverdueStep
<1>3. TypeOK /\ InSync /\ [Next]_vars => InSync'
  BY SyncStep
<1>4. OverdueInv => NotOverdue
  BY DEF OverdueInv
<1> QED BY <1>1, <1>2, <1>3, <1>4, SyncInit, TypeInit, TypeStep, PTL DEF Spec

-----------------------------------------------------------------------------
(* The time that has passed, and the blocks it is made up of.              *)

\* The clock shows T ticks of d fractions, i more, and a fraction.
Shows(c, d, T, i, f) == c = d * (T + i) + f

\* Ticks of d fractions, counted in a word of m, of which some are used up: what a
\* step adds to the clock is in the ticks and the fraction.
LEMMA Clockwork ==
  ASSUME NEW d \in Nat \ {0}, NEW m \in Nat \ {0}, NEW T \in Nat, NEW i \in Nat,
         NEW f \in 0..d - 1, NEW step \in Nat, NEW used \in Nat, NEW c,
         Shows(c, d, T, i, f), c + step < d * m,
         NEW e, e = (i + ((f + step) \div d)) % m, used <= e
  PROVE  Shows(c + step, d, T + used, (e - used) % m, (f + step) % d)
<1> USE DEF Shows
<1> DEFINE add == (f + step) \div d
<1>1. f + step = d * add + ((f + step) % d) /\ add \in Nat /\ (f + step) % d \in 0..d - 1
  <2>1. f + step \in Nat OBVIOUS
  <2> QED BY <2>1, Split
<1> HIDE DEF add
<1>2. c + step = d * (T + i + add) + ((f + step) % d)
  <2>1. d * (T + i) + d * add = d * (T + i + add)
    <3>1. T + i \in Nat /\ add \in Nat BY <1>1
    <3> QED BY <3>1
  <2> DEFINE A == d * (T + i)
             B == d * add
             R == (f + step) % d
  <2>2. A \in Nat /\ B \in Nat /\ R \in Nat BY <1>1
  <2>3. c = A + f /\ f + step = B + R BY <1>1
  <2>4. c + step = A + B + R
    <3> HIDE DEF A, B, R
    <3> QED BY <2>2, <2>3
  <2> QED BY <2>1, <2>4
<1>3. T + i + add < m
  <2>1. d * (T + i + add) < d * m
    <3>1. d * (T + i + add) \in Int /\ d * m \in Int BY <1>1
    <3> QED BY <1>1, <1>2, <3>1
  <2>2. T + i + add \in Nat BY <1>1
  <2> QED BY <2>1, <2>2, Below
<1>4. e = i + add /\ e \in 0..m - 1
  <2>1. i + add \in 0..m - 1 BY <1>1, <1>3
  <2> QED BY <2>1, Small DEF add
<1>5. (e - used) % m = e - used
  <2>1. e - used \in 0..m - 1 BY <1>4
  <2> QED BY <2>1, Small
<1>6. T + used + (e - used) = T + i + add
  <2>1. T + used + ((i + add) - used) = T + i + add
    BY <1>1
  <2> QED BY <1>4, <2>1
<1> QED BY <1>2, <1>5, <1>6

\* The sum of a track's first blocks grows by a block at a time.
LEMMA TicksGrow ==
  ASSUME NEW t \in Tracks
  PROVE  /\ RunningSum(Ticks(t))[0] = 0
         /\ \A n \in 0..nbOfBlocks(t) : RunningSum(Ticks(t))[n] \in Nat
         /\ \A n \in 1..nbOfBlocks(t) :
              RunningSum(Ticks(t))[n] = RunningSum(Ticks(t))[n - 1] + Ticks(t)[n]
<1>1. nbOfBlocks(t) \in Nat /\ \A n \in 1..nbOfBlocks(t) : Song[t][n].delta \in Nat
  BY SongFacts DEF Block
<1>2. Len(Ticks(t)) = nbOfBlocks(t) /\ \A n \in 1..nbOfBlocks(t) : Ticks(t)[n] \in Nat
  BY <1>1 DEF Ticks
<1> QED BY <1>1, <1>2, RunningSumGrows

\* A track moves on over whole blocks, of which the last is no tempo change.
LEMMA SettledSends ==
  ASSUME TypeOK, Settled, InTrack, NEW n \in Nat \ {0}, NEW next, NEW size,
         Send(next, n, size),
         Song[isr][currentBlockId[isr] + n].msgType # NKT_TEMPO_CHANGE
  PROVE  Settled'
<1>1. /\ currentBlockId'[isr] = currentBlockId[isr] + n
      /\ \A t \in Tracks : t # isr => currentBlockId'[t] = currentBlockId[t]
  BY SendMoves
<1> QED BY <1>1 DEF Settled

\* What a song with paired tempo changes sends leaves it settled: one block that is
\* no tempo change, or a tempo change and the block behind it.
LEMMA Sends ==
  ASSUME PairedTempos, TemposApart, TypeOK, InSync, TrackSends \/ TrackChangesTempo
  PROVE  \E b \in Current : \E n \in {1, 2} : \E next, size :
           LET c == currentBlockId[isr]
           IN  /\ InTrack /\ ~AtEnd(b) /\ IsDue(b)
               /\ TimePasses((elapsed - b.delta) % ELAPSED_MOD)
               /\ Send(next, n, size) /\ next.k = c + n
               /\ c \in Nat /\ c + n \in 1..nbOfBlocks(isr) /\ c + 1 \in 1..nbOfBlocks(isr)
               /\ b.delta = Song[isr][c + 1].delta /\ b.delta \in Nat
               /\ Song[isr][c + n].msgType # NKT_TEMPO_CHANGE
               /\ n = 2 => Song[isr][c + 1].msgType = NKT_TEMPO_CHANGE
<1> DEFINE c == currentBlockId[isr]
<1>1. CASE TrackSends
  <2>1. PICK b \in Current :
          /\ ~AtEnd(b) /\ IsDue(b) /\ b.msgType # NKT_TEMPO_CHANGE
          /\ TimePasses((elapsed - b.delta) % ELAPSED_MOD)
          /\ Send(b, 1, VlqSize(b.delta) + SizeofNktBlock)
    BY <1>1 DEF TrackSends
  <2>2. InTrack
    BY <1>1 DEF TrackSends
  <2>3. /\ c \in Nat /\ c + 1 \in 1..nbOfBlocks(isr) /\ b.delta \in Nat
        /\ b.delta = Song[isr][c + 1].delta
        /\ Song[isr][c + 1].msgType # NKT_TEMPO_CHANGE
    BY <2>1, <2>2, NextBlock
  <2>4. b.k = c + 1
    BY <2>1, <2>2, CurrentBlock DEF Numbered
  <2> QED BY <2>1, <2>2, <2>3, <2>4
<1>2. CASE TrackChangesTempo
  <2> DEFINE Size(b) == VlqSize(b.delta) + SizeofNktBlock
  <2>1. PICK b \in Current :
          /\ ~AtEnd(b) /\ IsDue(b) /\ b.msgType = NKT_TEMPO_CHANGE
          /\ TimePasses((elapsed - b.delta) % ELAPSED_MOD)
          /\ \E next \in BlocksAt(isr, eventsBlockOffset[isr] + Size(b)) :
               Send(next, 2, Size(b) + Size(b))
    BY <1>2 DEF TrackChangesTempo
  <2>2. PICK next \in BlocksAt(isr, eventsBlockOffset[isr] + Size(b)) :
          Send(next, 2, Size(b) + Size(b))
    BY <2>1
  <2>3. InTrack
    BY <1>2 DEF TrackChangesTempo
  <2>4. /\ isr \in Tracks /\ c \in Nat /\ nbOfBlocks(isr) \in Nat
        /\ c + 1 \in 1..nbOfBlocks(isr) /\ b.delta \in Nat
        /\ b.delta = Song[isr][c + 1].delta
        /\ Song[isr][c + 1].msgType = NKT_TEMPO_CHANGE
    BY <2>1, <2>3, NextBlock, SongFacts
  <2> HIDE DEF c
  <2>5. c + 1 < nbOfBlocks(isr)
    BY <2>4 DEF PairedTempos
  <2>6. c + 2 \in 2..nbOfBlocks(isr) /\ (c + 2) - 1 = c + 1
        /\ c + 2 \in 1..nbOfBlocks(isr) /\ (c + 1) - 1 = c
        /\ (c + 1) + 1 = c + 2 /\ c + 1 \in Nat
    BY <2>4, <2>5
  <2>7. Song[isr][c + 2].msgType # NKT_TEMPO_CHANGE
    BY <2>4, <2>6 DEF TemposApart
  <2>8. next.k = c + 2
    <3>1. eventsBlockOffset[isr] = BlockOffset[isr][c]
      BY <2>4 DEF InSync, c
    <3>2. BlockOffset[isr][c + 1] = BlockOffset[isr][c] + Size(b)
      BY <2>4, <2>6, NextOffset
    <3>3. BlocksAt(isr, BlockOffset[isr][c + 1]) = {Numbered(isr, c + 2)}
      BY <2>4, <2>5, <2>6, ReadInSync
    <3> QED BY <2>2, <3>1, <3>2, <3>3 DEF Numbered
  <2> QED BY <2>1, <2>2, <2>3, <2>4, <2>6, <2>7, <2>8 DEF c
<1> QED BY <1>1, <1>2

\* A track's step adds as much to its clock as to its time and the blocks it uses up.
LEMMA ClockGoesOn ==
  ASSUME CLOCK_MAX <= FRAC * ELAPSED_MOD, TypeOK, InTrack, NEW T \in Nat,
         clock[isr] < CLOCK_MAX =>
           clock[isr] = FRAC * (T + timeElapsedInt[isr]) + timeElapsedFrac[isr],
         NEW used \in Nat, used <= elapsed, TimePasses((elapsed - used) % ELAPSED_MOD)
  PROVE  /\ \A t \in Tracks : t # isr => /\ clock'[t] = clock[t]
                                         /\ timeElapsedInt'[t] = timeElapsedInt[t]
                                         /\ timeElapsedFrac'[t] = timeElapsedFrac[t]
         /\ clock'[isr] < CLOCK_MAX =>
              clock'[isr] = FRAC * (T + used + timeElapsedInt'[isr]) + timeElapsedFrac'[isr]
<1>1. /\ isr \in Tracks /\ clock[isr] \in Nat /\ timeStep \in Nat /\ CLOCK_MAX \in Nat
      /\ timeElapsedInt[isr] \in Nat /\ timeElapsedFrac[isr] \in 0..FRAC - 1
      /\ FRAC \in Nat \ {0} /\ ELAPSED_MOD \in Nat \ {0}
  BY NumbersAssumption DEF TypeOK, InTrack
<1>2. /\ timeElapsedInt'[isr] = (elapsed - used) % ELAPSED_MOD
      /\ timeElapsedFrac'[isr] = (timeElapsedFrac[isr] + timeStep) % FRAC
      /\ clock'[isr] = IF clock[isr] + timeStep < CLOCK_MAX THEN clock[isr] + timeStep
                                                           ELSE CLOCK_MAX
  BY <1>1 DEF TypeOK, TimePasses, frac
<1>3. \A t \in Tracks : t # isr => /\ clock'[t] = clock[t]
                                   /\ timeElapsedInt'[t] = timeElapsedInt[t]
                                   /\ timeElapsedFrac'[t] = timeElapsedFrac[t]
  BY DEF TypeOK, TimePasses
<1>4. ASSUME clock'[isr] < CLOCK_MAX
      PROVE  clock'[isr] = FRAC * (T + used + timeElapsedInt'[isr]) + timeElapsedFrac'[isr]
  <2>1. clock[isr] + timeStep < CLOCK_MAX /\ clock[isr] < CLOCK_MAX
        /\ clock'[isr] = clock[isr] + timeStep
    BY <1>1, <1>2, <1>4
  <2>2. clock[isr] + timeStep < FRAC * ELAPSED_MOD
    <3>1. FRAC * ELAPSED_MOD \in Nat BY <1>1
    <3> QED BY <1>1, <2>1, <3>1
  <2>3. clock[isr] = FRAC * (T + timeElapsedInt[isr]) + timeElapsedFrac[isr]
    BY <2>1
  <2>4. elapsed = (timeElapsedInt[isr] + ((timeElapsedFrac[isr] + timeStep) \div FRAC))
                    % ELAPSED_MOD
    BY DEF elapsed, TimeAdd, frac
  <2> DEFINE i == timeElapsedInt[isr]
             f == timeElapsedFrac[isr]
  <2>5. Shows(clock[isr] + timeStep, FRAC, T + used, (elapsed - used) % ELAPSED_MOD,
              (f + timeStep) % FRAC)
    <3>1. i \in Nat /\ f \in 0..FRAC - 1 /\ Shows(clock[isr], FRAC, T, i, f)
      BY <1>1, <2>3 DEF Shows
    <3>2. elapsed = (i + ((f + timeStep) \div FRAC)) % ELAPSED_MOD
      BY <2>4
    <3> HIDE DEF i, f
    <3> QED BY <1>1, <2>2, <3>1, <3>2, Clockwork
  <2> QED BY <1>2, <2>1, <2>5 DEF Shows
<1> QED BY <1>3, <1>4

\* A song at its top has used no time.
LEMMA TopOnSchedule == ASSUME Rewind PROVE Settled' /\ OnSchedule'
<1>1. \A t \in Tracks : /\ currentBlockId'[t] = 0 /\ clock'[t] = 0
                        /\ timeElapsedInt'[t] = 0 /\ timeElapsedFrac'[t] = 0
  BY DEF Rewind, Zeros
<1>2. Settled'
  BY <1>1 DEF Settled
<1>3. ASSUME NEW t \in Tracks
      PROVE  clock'[t] = FRAC * (RunningSum(Ticks(t))[currentBlockId'[t]]
                                 + timeElapsedInt'[t]) + timeElapsedFrac'[t]
  <2>1. RunningSum(Ticks(t))[0] = 0
    BY TicksGrow
  <2>2. FRAC * (0 + 0) + 0 = 0
    BY NumbersAssumption
  <2> QED BY <1>1, <2>1, <2>2
<1> QED BY <1>2, <1>3 DEF OnSchedule

\* A block that is sent uses up its own ticks, and no more with the one it takes along.
LEMMA SendsOnSchedule ==
  ASSUME CLOCK_MAX <= FRAC * ELAPSED_MOD, PairedTempos, TemposApart, TypeOK, InSync,
         Settled, OnSchedule, TrackSends \/ TrackChangesTempo
  PROVE  Settled' /\ OnSchedule'
<1> DEFINE c == currentBlockId[isr]
           sum == RunningSum(Ticks(isr))
<1>1. PICK b \in Current, n \in {1, 2} : \E next, size :
        /\ InTrack /\ ~AtEnd(b) /\ IsDue(b)
        /\ TimePasses((elapsed - b.delta) % ELAPSED_MOD)
        /\ Send(next, n, size)
        /\ c \in Nat /\ c + n \in 1..nbOfBlocks(isr) /\ c + 1 \in 1..nbOfBlocks(isr)
        /\ b.delta = Song[isr][c + 1].delta /\ b.delta \in Nat
        /\ Song[isr][c + n].msgType # NKT_TEMPO_CHANGE
        /\ n = 2 => Song[isr][c + 1].msgType = NKT_TEMPO_CHANGE
  BY Sends
<1>2. isr \in Tracks /\ n \in Nat \ {0} /\ c \in 0..nbOfBlocks(isr)
  BY <1>1, SongFacts DEF InTrack
<1>3. Settled'
  BY <1>1, <1>2, SettledSends
<1>4. sum[c] \in Nat /\ sum[c + n] = sum[c] + b.delta
  <2>1. sum[c] \in Nat
    BY <1>2, TicksGrow
  <2>2. sum[c + 1] = sum[c] + b.delta
    <3>1. sum[c + 1] = sum[(c + 1) - 1] + Ticks(isr)[c + 1]
      BY <1>1, <1>2, TicksGrow
    <3>2. (c + 1) - 1 = c
      BY <1>1
    <3>3. c > 0 => Song[isr][c].msgType # NKT_TEMPO_CHANGE
      BY <1>2 DEF Settled
    <3>4. Ticks(isr)[c + 1] = b.delta
      <4> HIDE DEF c
      <4>1. Ticks(isr)[c + 1] =
              IF c + 1 > 1 /\ Song[isr][(c + 1) - 1].msgType = NKT_TEMPO_CHANGE
              THEN 0 ELSE Song[isr][c + 1].delta
        BY <1>1 DEF Ticks
      <4>2. c + 1 > 1 <=> c > 0
        BY <1>1
      <4> QED BY <1>1, <3>2, <3>3, <4>1, <4>2
    <3> QED BY <3>1, <3>2, <3>4
  <2>3. CASE n = 2
    <3> HIDE DEF c
    <3>1. (c + 2) - 1 = c + 1 /\ c + 2 > 1 /\ c + 2 \in 1..nbOfBlocks(isr)
      BY <1>1, <2>3
    <3>2. Ticks(isr)[c + 2] = 0
      BY <1>1, <2>3, <3>1 DEF Ticks
    <3>3. sum[c + 2] = sum[c + 1] + 0
      BY <1>2, <3>1, <3>2, TicksGrow
    <3>4. sum[c + 1] \in Nat
      BY <1>1, <2>1, <2>2
    <3> QED BY <2>1, <2>2, <2>3, <3>3, <3>4
  <2> QED BY <2>1, <2>2, <2>3
<1>5. b.delta <= elapsed
  BY <1>1, ElapsedType, NumbersAssumption DEF IsDue
<1>6. clock[isr] < CLOCK_MAX =>
        clock[isr] = FRAC * (sum[c] + timeElapsedInt[isr]) + timeElapsedFrac[isr]
  BY <1>2 DEF OnSchedule
<1>7. /\ \A t \in Tracks : t # isr => /\ clock'[t] = clock[t]
                                      /\ timeElapsedInt'[t] = timeElapsedInt[t]
                                      /\ timeElapsedFrac'[t] = timeElapsedFrac[t]
      /\ clock'[isr] < CLOCK_MAX =>
           clock'[isr] = FRAC * (sum[c] + b.delta + timeElapsedInt'[isr])
                         + timeElapsedFrac'[isr]
  <2> HIDE DEF c, sum
  <2> QED BY <1>1, <1>4, <1>5, <1>6, ClockGoesOn
<1>8. /\ currentBlockId'[isr] = c + n
      /\ \A t \in Tracks : t # isr => currentBlockId'[t] = currentBlockId[t]
  BY <1>1, <1>2, SendMoves
<1>9. OnSchedule'
  <2> SUFFICES ASSUME NEW t \in Tracks, clock'[t] < CLOCK_MAX
               PROVE  clock'[t] = FRAC * (RunningSum(Ticks(t))[currentBlockId'[t]]
                                          + timeElapsedInt'[t]) + timeElapsedFrac'[t]
    BY DEF OnSchedule
  <2>1. CASE t = isr
    BY <1>4, <1>7, <1>8, <2>1
  <2>2. CASE t # isr
    BY <1>7, <1>8, <2>2 DEF OnSchedule
  <2> QED BY <2>1, <2>2
<1> QED BY <1>3, <1>9

\* A track that waits, or stands at its end, uses up nothing.
LEMMA WaitsOnSchedule ==
  ASSUME CLOCK_MAX <= FRAC * ELAPSED_MOD, TypeOK, InSync, OnSchedule, InTrack,
         TimePasses(elapsed), currentBlockId' = currentBlockId
  PROVE  OnSchedule'
<1> DEFINE sum == RunningSum(Ticks(isr))[currentBlockId[isr]]
<1>1. isr \in Tracks /\ sum \in Nat
  BY TicksGrow DEF InTrack, InSync
<1>2. clock[isr] < CLOCK_MAX =>
        clock[isr] = FRAC * (sum + timeElapsedInt[isr]) + timeElapsedFrac[isr]
  BY <1>1 DEF OnSchedule
<1>3. elapsed \in Nat /\ (elapsed - 0) % ELAPSED_MOD = elapsed
  <2>1. elapsed \in 0..ELAPSED_MOD - 1 /\ ELAPSED_MOD \in Nat \ {0}
    BY ElapsedType, NumbersAssumption
  <2> QED BY <2>1, Small
<1>4. TimePasses((elapsed - 0) % ELAPSED_MOD) /\ 0 <= elapsed
  BY <1>3
<1>5. /\ \A t \in Tracks : t # isr => /\ clock'[t] = clock[t]
                                      /\ timeElapsedInt'[t] = timeElapsedInt[t]
                                      /\ timeElapsedFrac'[t] = timeElapsedFrac[t]
      /\ clock'[isr] < CLOCK_MAX =>
           clock'[isr] = FRAC * (sum + 0 + timeElapsedInt'[isr]) + timeElapsedFrac'[isr]
  <2> HIDE DEF sum
  <2> QED BY <1>1, <1>2, <1>4, ClockGoesOn
<1> SUFFICES ASSUME NEW t \in Tracks, clock'[t] < CLOCK_MAX
             PROVE  clock'[t] = FRAC * (RunningSum(Ticks(t))[currentBlockId'[t]]
                                        + timeElapsedInt'[t]) + timeElapsedFrac'[t]
  BY DEF OnSchedule
<1>6. CASE t = isr
  BY <1>1, <1>5, <1>6
<1>7. CASE t # isr
  BY <1>5, <1>7 DEF OnSchedule
<1> QED BY <1>6, <1>7

\* Every action keeps the clocks on schedule.
LEMMA ScheduleStep ==
  ASSUME CLOCK_MAX <= FRAC * ELAPSED_MOD, PairedTempos, TemposApart, TypeOK, InSync,
         Settled, OnSchedule, [Next]_vars
  PROVE  Settled' /\ OnSchedule'
<1> USE DEF tracks, history, client, interrupt
<1>1. ASSUME UNCHANGED <<currentBlockId, timeElapsedInt, timeElapsedFrac, clock>>
      PROVE  Settled' /\ OnSchedule'
  BY <1>1 DEF Settled, OnSchedule
<1>2. CASE initNktSequence
  BY <1>2, TopOnSchedule DEF initNktSequence
<1>3. CASE NktDeinstallReplayRout \/ LoadState \/ StoreState \/ StopResetsDevice
  BY <1>1, <1>3 DEF NktDeinstallReplayRout, LoadState, StoreState, StopResetsDevice
<1>4. CASE stopNktSequence \/ pauseNktSequence \/ playNktSequence \/ switchNktReplayMode
  BY <1>1, <1>4, EnterType
<1>5. CASE TickPaused \/ TickPlaying
  BY <1>1, <1>5 DEF TickPaused, TickPlaying
<1>6. CASE TickStopped
  BY <1>6, TopOnSchedule DEF TickStopped
<1>7. CASE SingleEnds
  BY <1>7, TopOnSchedule DEF SingleEnds, EndSequence
<1>8. CASE TrackEnded \/ TrackWaits
  <2>1. InTrack /\ TimePasses(elapsed) /\ currentBlockId' = currentBlockId
    BY <1>8 DEF TrackEnded, TrackWaits
  <2>2. Settled'
    BY <2>1 DEF Settled
  <2> QED BY <2>1, <2>2, WaitsOnSchedule
<1>9. CASE TrackSends \/ TrackChangesTempo
  BY <1>9, SendsOnSchedule
<1>10. CASE TickEnds
  <2>1. CASE EndSequence BY <2>1, TopOnSchedule DEF EndSequence
  <2>2. CASE UNCHANGED <<sequenceState, tracks, timeStep, clock>>
    BY <1>1, <2>2
  <2> QED BY <1>10, <2>1, <2>2 DEF TickEnds
<1>11. CASE UNCHANGED vars
  BY <1>1, <1>11 DEF vars
<1> QED
  BY <1>2, <1>3, <1>4, <1>5, <1>6, <1>7, <1>8, <1>9, <1>10, <1>11
  DEF Next, Calls, MainStep, Interrupt

\* In a song whose tempo changes are paired and apart no time is lost or gained: what
\* has elapsed on a track is the time of the blocks it has replayed and what is left
\* over, as long as the ticks fit the word they are counted in.
THEOREM KeepsSchedule ==
  ASSUME PairedTempos, TemposApart, CLOCK_MAX <= FRAC * ELAPSED_MOD
  PROVE  Spec => []OnSchedule
<1>1. Init => Settled /\ OnSchedule
  <2> SUFFICES ASSUME Init PROVE Settled /\ OnSchedule
    OBVIOUS
  <2>1. \A t \in Tracks : /\ currentBlockId[t] = 0 /\ clock[t] = 0
                          /\ timeElapsedInt[t] = 0 /\ timeElapsedFrac[t] = 0
    BY DEF Init, Zeros
  <2>2. FRAC * (0 + 0) + 0 = 0
    BY NumbersAssumption
  <2>3. \A t \in Tracks : RunningSum(Ticks(t))[0] = 0
    BY TicksGrow
  <2> QED BY <2>1, <2>2, <2>3 DEF Settled, OnSchedule
<1>2. TypeOK /\ InSync /\ Settled /\ OnSchedule /\ [Next]_vars => Settled' /\ OnSchedule'
  BY ScheduleStep
<1>3. TypeOK /\ InSync /\ [Next]_vars => InSync'
  BY SyncStep
<1> QED BY <1>1, <1>2, <1>3, SyncInit, TypeInit, TypeStep, PTL DEF Spec

-----------------------------------------------------------------------------
(* The tracks, one with another.                                           *)

\* The clock a track has, or will have when the interrupt has come to it.
ClockDue(t) == clock[t] + (IF isr # 0 /\ t >= isr THEN timeStep ELSE 0)

\* What the tracks behind the changing one have ahead of the others: they took the step
\* of the change in the interrupt that made it.
Ahead(v, t) == IF t > v THEN timeStep - DEFAULT_STEP ELSE 0

\* Before there is a song no clock goes.
TogetherInv(v) ==
  /\ ~active => ~hooked /\ isr = 0 /\ \A t \in Tracks : clock[t] = 0
  /\ active /\ (\A t \in Tracks : clock[t] < CLOCK_MAX) =>
       \A t, u \in Tracks : ClockDue(t) - Ahead(v, t) = ClockDue(u) - Ahead(v, u)

\* The tempo changes are on track v.
ChangesOn(v) == \A t \in Tracks \ {v} : \A n \in 1..nbOfBlocks(t) :
                  Song[t][n].msgType # NKT_TEMPO_CHANGE

\* The step a track takes, unless its clock is at the bound.
LEMMA ClockSteps ==
  ASSUME TypeOK, InTrack, NEW ticks, TimePasses(ticks), isr' = isr + 1
  PROVE  /\ (\A t \in Tracks : clock'[t] < CLOCK_MAX) =>
              \A t \in Tracks :
                /\ clock[t] < CLOCK_MAX
                /\ clock'[t] + (IF t >= isr' THEN timeStep ELSE 0) = ClockDue(t)
         /\ isr # 0 /\ isr' # 0
<1>1. /\ isr \in Tracks /\ isr \in Nat /\ isr # 0 /\ isr' # 0 /\ timeStep \in Nat
      /\ CLOCK_MAX \in Nat /\ \A t \in Tracks : t \in Nat /\ clock[t] \in Nat
  BY SongFacts, NumbersAssumption DEF TypeOK, InTrack, Tracks
<1>2. /\ \A t \in Tracks : t # isr => clock'[t] = clock[t]
      /\ clock'[isr] = IF clock[isr] + timeStep < CLOCK_MAX THEN clock[isr] + timeStep
                                                          ELSE CLOCK_MAX
  BY <1>1 DEF TypeOK, TimePasses
<1>3. ASSUME \A t \in Tracks : clock'[t] < CLOCK_MAX, NEW t \in Tracks
      PROVE  /\ clock[t] < CLOCK_MAX
             /\ clock'[t] + (IF t >= isr' THEN timeStep ELSE 0) = ClockDue(t)
  <2>1. CASE t = isr
    <3>1. clock[isr] + timeStep < CLOCK_MAX /\ clock'[isr] = clock[isr] + timeStep
      BY <1>1, <1>2, <1>3
    <3> QED BY <1>1, <2>1, <3>1 DEF ClockDue
  <2>2. CASE t # isr
    <3>1. clock'[t] = clock[t] /\ clock[t] < CLOCK_MAX
      BY <1>2, <1>3, <2>2
    <3>2. t >= isr' <=> t >= isr
      BY <1>1, <2>2
    <3> QED BY <1>1, <3>1, <3>2 DEF ClockDue
  <2> QED BY <2>1, <2>2
<1> QED BY <1>1, <1>3

\* At the top no track is ahead.
LEMMA TopTogether ==
  ASSUME NEW v, Rewind, active', isr' = 0 PROVE TogetherInv(v)'
<1>1. /\ \A t \in Tracks : clock'[t] = 0
      /\ timeStep' = DEFAULT_STEP
  BY DEF Rewind, Zeros
<1>2. \A t \in Tracks : ClockDue(t)' = 0 /\ Ahead(v, t)' = 0
  BY <1>1, NumbersAssumption DEF ClockDue, Ahead
<1> QED BY <1>2 DEF TogetherInv

\* An iteration that changes no tempo, and the end of the loop, change no clock that is due.
LEMMA SameTogether ==
  ASSUME NEW v, TogetherInv(v), active, active', timeStep' = timeStep,
         (\A t \in Tracks : clock'[t] < CLOCK_MAX) =>
           \A t \in Tracks : clock[t] < CLOCK_MAX /\ ClockDue(t)' = ClockDue(t)
  PROVE  TogetherInv(v)'
  BY DEF TogetherInv, Ahead

\* A tempo change is on track v; the tracks up to it have taken the old step, those
\* behind it will take the new one.
LEMMA ChangeTogether ==
  ASSUME NEW v \in Tracks, ChangesOn(v), TypeOK, InSync, TogetherInv(v), TrackChangesTempo
  PROVE  TogetherInv(v)'
<1>1. PICK b \in Current :
        /\ ~AtEnd(b) /\ b.msgType = NKT_TEMPO_CHANGE
        /\ TimePasses((elapsed - b.delta) % ELAPSED_MOD)
        /\ timeStep' = b.step /\ isr' = isr + 1
  BY DEF TrackChangesTempo, Send
<1>2. InTrack /\ active' = active
  BY DEF TrackChangesTempo
<1>3. isr = v
  BY <1>1, <1>2, NextBlock DEF ChangesOn
<1>4. /\ isr # 0 /\ isr' # 0 /\ active /\ isr \in Nat
      /\ \A t \in Tracks : t \in Nat
      /\ (\A t \in Tracks : clock'[t] < CLOCK_MAX) =>
           \A t \in Tracks :
             /\ clock[t] < CLOCK_MAX
             /\ clock'[t] + (IF t >= isr' THEN timeStep ELSE 0) = ClockDue(t)
  BY <1>1, <1>2, ClockSteps DEF TogetherInv, InTrack, Tracks
<1>5. timeStep \in Nat /\ timeStep' \in Nat /\ DEFAULT_STEP \in Nat
      /\ \A t \in Tracks : clock[t] \in Nat /\ clock'[t] \in Nat
  <2>1. TypeOK'
    BY TypeStep DEF Next, Interrupt
  <2> QED BY <2>1, NumbersAssumption DEF TypeOK
<1>6. ASSUME \A t \in Tracks : clock'[t] < CLOCK_MAX, NEW t \in Tracks
      PROVE  ClockDue(t)' - Ahead(v, t)' = ClockDue(t) - Ahead(v, t)
             /\ clock[t] < CLOCK_MAX
  <2>1. clock[t] < CLOCK_MAX
        /\ ClockDue(t) = clock'[t] + (IF t >= isr' THEN timeStep ELSE 0)
    BY <1>4, <1>6
  <2>2. t >= isr' <=> t > v
    BY <1>1, <1>3, <1>4
  <2>3. ClockDue(t)' = clock'[t] + (IF t > v THEN timeStep' ELSE 0)
    BY <1>4, <2>2 DEF ClockDue
  <2>4. Ahead(v, t) = (IF t > v THEN timeStep - DEFAULT_STEP ELSE 0)
        /\ Ahead(v, t)' = (IF t > v THEN timeStep' - DEFAULT_STEP ELSE 0)
    BY DEF Ahead
  <2>5. CASE t > v
    BY <1>5, <2>1, <2>2, <2>3, <2>4, <2>5
  <2>6. CASE ~(t > v)
    BY <1>5, <2>1, <2>2, <2>3, <2>4, <2>6
  <2> QED BY <2>5, <2>6
<1>7. ASSUME \A t \in Tracks : clock'[t] < CLOCK_MAX
      PROVE  \A t, u \in Tracks : ClockDue(t)' - Ahead(v, t)' = ClockDue(u)' - Ahead(v, u)'
  <2>1. \A t, u \in Tracks : ClockDue(t) - Ahead(v, t) = ClockDue(u) - Ahead(v, u)
    BY <1>4, <1>6, <1>7 DEF TogetherInv
  <2> QED BY <1>6, <1>7, <2>1
<1> QED BY <1>2, <1>4, <1>7 DEF TogetherInv

\* Every action keeps the tracks together.
LEMMA TogetherStep ==
  ASSUME NEW v \in Tracks, ChangesOn(v), TypeOK, InSync, TogetherInv(v), [Next]_vars
  PROVE  TogetherInv(v)'
<1> USE DEF tracks, history, client, interrupt
<1>0. isr \in Nat /\ nbOfTracks \in Nat /\ \A t \in Tracks : t \in 1..nbOfTracks
  BY SongFacts DEF TypeOK, Tracks
<1>1. ASSUME UNCHANGED <<active, isr, timeStep, clock>>, hooked' = hooked \/ ~hooked'
      PROVE  TogetherInv(v)'
  BY <1>1 DEF TogetherInv, ClockDue, Ahead
<1>2. CASE initNktSequence
  BY <1>2, TopTogether DEF initNktSequence, Idle, InMain
<1>3. CASE NktDeinstallReplayRout \/ LoadState \/ StoreState \/ StopResetsDevice
  BY <1>1, <1>3 DEF NktDeinstallReplayRout, LoadState, StoreState, StopResetsDevice
<1>4. CASE stopNktSequence \/ pauseNktSequence \/ playNktSequence \/ switchNktReplayMode
  BY <1>1, <1>4, EnterType
<1>5. CASE TickPaused
  BY <1>1, <1>5 DEF TickPaused
<1>6. CASE TickPlaying
  <2>1. /\ active /\ active' /\ isr = 0 /\ isr' = 1
        /\ UNCHANGED <<clock, timeStep, hooked>>
    BY <1>6 DEF TickPlaying, TickStarts, InMain, TogetherInv
  <2>2. \A t \in Tracks : /\ clock[t] \in Nat /\ timeStep \in Nat /\ Ahead(v, t)' = Ahead(v, t)
                          /\ ClockDue(t) = clock[t] /\ ClockDue(t)' = clock[t] + timeStep
                          /\ Ahead(v, t) \in Int
    BY <1>0, <2>1, NumbersAssumption DEF TypeOK, ClockDue, Ahead
  <2>3. ASSUME \A t \in Tracks : clock[t] < CLOCK_MAX, NEW t \in Tracks, NEW u \in Tracks
        PROVE  ClockDue(t)' - Ahead(v, t)' = ClockDue(u)' - Ahead(v, u)'
    <3>1. ClockDue(t) - Ahead(v, t) = ClockDue(u) - Ahead(v, u)
      BY <2>1, <2>3 DEF TogetherInv
    <3> QED BY <2>2, <3>1
  <2> QED BY <2>1, <2>3 DEF TogetherInv
<1>7. CASE TickStopped
  <2>1. Rewind /\ active' /\ isr' = 0
    BY <1>7 DEF TickStopped, TickStarts, InMain, TogetherInv
  <2> QED BY <2>1, TopTogether
<1>8. CASE SingleEnds
  <2>1. Rewind /\ active' /\ isr' = 0
    BY <1>0, <1>8 DEF SingleEnds, EndSequence, InTrack, Tracks, TogetherInv
  <2> QED BY <2>1, TopTogether
<1>9. CASE TrackEnded \/ TrackWaits \/ TrackSends
  <2>1. InTrack /\ isr' = isr + 1 /\ UNCHANGED <<active, timeStep>>
        /\ \E ticks : TimePasses(ticks)
    BY <1>9 DEF TrackEnded, TrackWaits, TrackSends, Send
  <2>2. active /\ active'
    BY <1>0, <2>1 DEF InTrack, Tracks, TogetherInv
  <2>3. (\A t \in Tracks : clock'[t] < CLOCK_MAX) =>
          \A t \in Tracks : clock[t] < CLOCK_MAX /\ ClockDue(t)' = ClockDue(t)
    <3>1. PICK ticks : TimePasses(ticks) BY <2>1
    <3>2. isr' # 0 /\ ((\A t \in Tracks : clock'[t] < CLOCK_MAX) =>
            \A t \in Tracks :
              /\ clock[t] < CLOCK_MAX
              /\ clock'[t] + (IF t >= isr' THEN timeStep ELSE 0) = ClockDue(t))
      BY <2>1, <3>1, ClockSteps
    <3>3. \A t \in Tracks :
            ClockDue(t)' = clock'[t] + (IF t >= isr' THEN timeStep ELSE 0)
      BY <2>1, <3>2 DEF ClockDue
    <3> QED BY <3>2, <3>3
  <2> QED BY <2>1, <2>2, <2>3, SameTogether
<1>10. CASE TrackChangesTempo
  BY <1>10, ChangeTogether
<1>11. CASE TickEnds
  <2>1. isr = nbOfTracks + 1 /\ isr' = 0 /\ active' = active /\ active
    BY <1>0, <1>11, SongFacts DEF TickEnds, TogetherInv
  <2>2. CASE EndSequence
    BY <2>1, <2>2, TopTogether DEF EndSequence
  <2>3. CASE UNCHANGED <<sequenceState, tracks, timeStep, clock>>
    <3>1. \A t \in Tracks : ClockDue(t)' = ClockDue(t)
      BY <1>0, <2>1, <2>3 DEF ClockDue
    <3> QED BY <2>1, <2>3, <3>1, SameTogether
  <2> QED BY <1>11, <2>2, <2>3 DEF TickEnds
<1>12. CASE UNCHANGED vars
  BY <1>1, <1>12 DEF vars
<1> QED
  BY <1>2, <1>3, <1>4, <1>5, <1>6, <1>7, <1>8, <1>9, <1>10, <1>11, <1>12
  DEF Next, Calls, MainStep, Interrupt

\* Tracks whose clocks differ between interrupts are on either side of the changing one.
LEMMA TogetherApart ==
  ASSUME NEW v \in Tracks, ChangesOn(v), TypeOK, InSync, TempoInForce, TogetherInv(v)
  PROVE  TracksTogether
<1> SUFFICES ASSUME isr = 0, \A t \in Tracks : clock[t] < CLOCK_MAX,
                    NEW t \in Tracks, NEW u \in Tracks, t < u, clock[t] # clock[u]
             PROVE  /\ clock[u] - clock[t] = timeStep - DEFAULT_STEP
                    /\ \E w \in t..u - 1 : Tempos(w) # {}
  BY DEF TracksTogether
<1>1. /\ t \in Nat /\ u \in Nat /\ v \in Nat /\ clock[t] \in Nat /\ clock[u] \in Nat
      /\ timeStep \in Nat /\ DEFAULT_STEP \in Nat
  <2>1. \A w \in Tracks : w \in Nat
    BY SongFacts DEF Tracks
  <2> QED BY <2>1, NumbersAssumption DEF TypeOK
<1>2. active
  BY DEF TogetherInv
<1>3. clock[t] - Ahead(v, t) = clock[u] - Ahead(v, u)
  BY <1>1, <1>2 DEF TogetherInv, ClockDue
<1>4. t <= v /\ v < u /\ clock[u] - clock[t] = timeStep - DEFAULT_STEP
  BY <1>1, <1>3 DEF Ahead
<1>5. timeStep # DEFAULT_STEP
  BY <1>1, <1>4
<1>6. PICK w \in Tracks : Tempos(w) # {}
  BY <1>2, <1>5 DEF TempoInForce
<1>7. w = v
  <2>1. PICK n \in Tempos(w) : TRUE
    BY <1>6
  <2>2. n \in 1..nbOfBlocks(w) /\ Song[w][n].msgType = NKT_TEMPO_CHANGE
    BY <2>1, SongFacts DEF Tempos, InSync
  <2> QED BY <2>2 DEF ChangesOn
<1>8. v \in t..u - 1
  BY <1>1, <1>4
<1> QED BY <1>4, <1>6, <1>7, <1>8

\* In a song with its tempo changes on one track, paired and apart, no two tracks are
\* ever further apart than the step in force and the default: time does not drift
\* between tracks, however many changes there are.
THEOREM StayTogether ==
  ASSUME PairedTempos, TemposApart, TemposOnOneTrack PROVE Spec => []TracksTogether
<1>1. PICK v \in Tracks : ChangesOn(v)
  BY DEF TemposOnOneTrack, ChangesOn
<1>2. Init => TogetherInv(v)
  BY DEF Init, TogetherInv, Zeros
<1>3. TypeOK /\ InSync /\ TogetherInv(v) /\ [Next]_vars => TogetherInv(v)'
  BY <1>1, TogetherStep
<1>4. TypeOK /\ InSync /\ TempoInForce /\ TogetherInv(v) => TracksTogether
  BY <1>1, TogetherApart
<1>5. TypeOK /\ InSync /\ [Next]_vars => InSync'
  BY SyncStep
<1>6. Spec => []TempoInForce
  BY LastTempo
<1> QED BY <1>2, <1>3, <1>4, <1>5, <1>6, SyncInit, TypeInit, TypeStep, PTL DEF Spec

-----------------------------------------------------------------------------
(* What is sent.                                                           *)

\* The blocks of a track that have been replayed for their data.
Replayed(t) == 1..currentBlockId[t] \ Tempos(t)

\* A sequence of what was sent has every track's replayed blocks, in order and once.
Complete(s) ==
  /\ Range(s) = UNION {{t} \X Replayed(t) : t \in Tracks}
  /\ \A i, j \in 1..Len(s) : i < j /\ s[i][1] = s[j][1] => s[i][2] < s[j][2]

\* What has been sent and what the interrupt is about to send.
Out == played \o tx

\* What joins a sequence is its last member and adds itself to its range.
LEMMA Joins ==
  ASSUME NEW S, NEW s \in Seq(S), NEW r \in Seq(S), NEW e \in S
  PROVE  /\ s \o Append(r, e) = Append(s \o r, e)
         /\ Range(Append(s, e)) = Range(s) \cup {e}
         /\ Append(s, e) \in Seq(S) /\ Len(Append(s, e)) = Len(s) + 1 /\ Len(s) \in Nat
         /\ Append(s, e)[Len(s) + 1] = e
         /\ \A i \in 1..Len(s) : Append(s, e)[i] = s[i] /\ s[i] \in Range(s)
         /\ s \o << >> = s
<1>1. /\ Append(s, e) \in Seq(S) /\ Len(Append(s, e)) = Len(s) + 1 /\ Len(s) \in Nat
      /\ Append(s, e)[Len(s) + 1] = e
      /\ \A i \in 1..Len(s) : Append(s, e)[i] = s[i]
  OBVIOUS
<1>2. /\ DOMAIN s = 1..Len(s) /\ DOMAIN Append(s, e) = 1..Len(s) + 1
      /\ 1..Len(s) + 1 = (1..Len(s)) \cup {Len(s) + 1}
  BY <1>1
<1>3. Range(Append(s, e)) = Range(s) \cup {e}
  BY <1>1, <1>2 DEF Range
<1>4. \A i \in 1..Len(s) : s[i] \in Range(s)
  BY <1>2 DEF Range
<1>5. s \o << >> = s
  OBVIOUS
<1>6. s \o Append(r, e) = Append(s \o r, e)
  OBVIOUS
<1> QED BY <1>1, <1>3, <1>4, <1>5, <1>6

\* What has gone out is the same while the tracks stay where they are.
LEMMA SameOut ==
  ASSUME Complete(Out), Out' = Out, currentBlockId' = currentBlockId PROVE Complete(Out)'
  BY DEF Complete, Replayed, Tempos

\* At the top nothing has.
LEMMA TopOut == ASSUME Rewind, tx' = << >> PROVE Complete(Out)'
<1>1. Out' = << >> /\ \A t \in Tracks : Replayed(t)' = {}
  BY DEF Rewind, Zeros, Out, Replayed
<1>2. Range(<< >>) = {} /\ Len(<< >>) = 0
  BY DEF Range
<1> QED BY <1>1, <1>2 DEF Complete

\* A block that is sent is the next one of its track to go out.
LEMMA SendsNext ==
  ASSUME PairedTempos, TemposApart, TracksShareBuffer, TypeOK, InSync, LoopShape,
         Complete(Out), TrackSends \/ TrackChangesTempo
  PROVE  Complete(Out)'
<1> DEFINE c == currentBlockId[isr]
<1>1. PICK b \in Current, n \in {1, 2} : \E next, size :
        /\ InTrack /\ Send(next, n, size) /\ next.k = c + n
        /\ c \in Nat /\ c + n \in 1..nbOfBlocks(isr)
        /\ Song[isr][c + n].msgType # NKT_TEMPO_CHANGE
        /\ n = 2 => Song[isr][c + 1].msgType = NKT_TEMPO_CHANGE
  BY Sends
<1> DEFINE e == <<isr, c + n>>
<1>2. PICK next, size : Send(next, n, size) /\ next.k = c + n
  BY <1>1
<1>3. /\ isr \in Tracks /\ e \in Tracks \X Nat /\ n \in Nat \ {0} /\ played' = played
      /\ e[1] = isr /\ e[2] = c + n
  BY <1>1 DEF InTrack, TrackSends, TrackChangesTempo
<1>4. Out' = Append(Out, e) /\ Out \in Seq(Tracks \X Nat)
  <2>1. tx' = Append(tx, e)
    <3>1. CASE ~SEND_DIRECT
      BY <1>2, <3>1 DEF Send
    <3>2. CASE SEND_DIRECT
      <4>1. isr = 1
        BY <1>3, <3>2 DEF TracksShareBuffer, isMultitrackReplay, Tracks
      <4>2. tx = << >> /\ tx' = <<e>>
        BY <1>2, <3>2, <4>1 DEF LoopShape, Send
      <4> QED BY <4>2
    <3> QED BY <3>1, <3>2
  <2>2. tx \in Seq(Tracks \X Nat) /\ played \in Seq(Tracks \X Nat)
    BY DEF TypeOK
  <2> HIDE DEF e
  <2>3. played \o Append(tx, e) = Append(played \o tx, e)
    BY <1>3, <2>2, Joins
  <2> QED BY <1>3, <2>1, <2>2, <2>3 DEF Out
<1>5. /\ currentBlockId'[isr] = c + n
      /\ \A t \in Tracks : t # isr => currentBlockId'[t] = currentBlockId[t]
  BY <1>1, <1>2, <1>3, SendMoves
<1>6. \A t \in Tracks :
        /\ t = isr => /\ Replayed(t)' = Replayed(t) \cup {c + n}
                      /\ \A m \in Replayed(t) : m < c + n
        /\ t # isr => Replayed(t)' = Replayed(t)
  <2> SUFFICES ASSUME NEW t \in Tracks
               PROVE  /\ t = isr => /\ Replayed(t)' = Replayed(t) \cup {c + n}
                                    /\ \A m \in Replayed(t) : m < c + n
                      /\ t # isr => Replayed(t)' = Replayed(t)
    OBVIOUS
  <2>1. CASE t = isr
    <3>1. Replayed(t) = {m \in 1..c : Song[t][m].msgType # NKT_TEMPO_CHANGE}
      BY <2>1 DEF Replayed, Tempos
    <3>2. Replayed(t)' = {m \in 1..c + n : Song[t][m].msgType # NKT_TEMPO_CHANGE}
      BY <1>5, <2>1 DEF Replayed, Tempos
    <3> HIDE DEF c
    <3>3. 1..c + n = (1..c) \cup (IF n = 1 THEN {c + 1} ELSE {c + 1, c + 2})
      BY <1>1
    <3>4. {m \in 1..c + n : Song[t][m].msgType # NKT_TEMPO_CHANGE}
            = {m \in 1..c : Song[t][m].msgType # NKT_TEMPO_CHANGE} \cup {c + n}
      BY <1>1, <2>1, <3>3
    <3>5. \A m \in Replayed(t) : m < c + n
      BY <1>1, <3>1
    <3> QED BY <2>1, <3>1, <3>2, <3>4, <3>5
  <2>2. CASE t # isr
    BY <1>5, <2>2 DEF Replayed, Tempos
  <2> QED BY <2>1, <2>2
<1> HIDE DEF c
<1>7. Range(Out') = Range(Out) \cup {e}
  <2> HIDE DEF e
  <2> QED BY <1>3, <1>4, Joins
<1>8. Range(Out') = UNION {{t} \X Replayed(t)' : t \in Tracks}
  <2>1. Range(Out) = UNION {{t} \X Replayed(t) : t \in Tracks}
    BY DEF Complete
  <2>2. ASSUME NEW x \in Range(Out') PROVE \E t \in Tracks : x \in {t} \X Replayed(t)'
    <3>1. CASE x = e
      BY <1>3, <1>6, <3>1
    <3>2. CASE x # e
      BY <1>6, <1>7, <2>1, <2>2, <3>2
    <3> QED BY <3>1, <3>2
  <2>3. ASSUME NEW t \in Tracks, NEW x \in {t} \X Replayed(t)' PROVE x \in Range(Out')
    <3>1. CASE x = e
      BY <1>7, <3>1
    <3>2. CASE x # e
      BY <1>3, <1>6, <1>7, <2>1, <2>3, <3>2
    <3> QED BY <3>1, <3>2
  <2> QED BY <2>2, <2>3
<1>9. ASSUME NEW i \in 1..Len(Out'), NEW j \in 1..Len(Out'), i < j, Out'[i][1] = Out'[j][1]
      PROVE  Out'[i][2] < Out'[j][2]
  <2>1. /\ Len(Out') = Len(Out) + 1 /\ Len(Out) \in Nat /\ Out'[Len(Out) + 1] = e
        /\ \A k \in 1..Len(Out) : Out'[k] = Out[k] /\ Out[k] \in Range(Out)
    <3> HIDE DEF e
    <3> QED BY <1>3, <1>4, Joins
  <2>2. i \in 1..Len(Out)
    BY <1>9, <2>1
  <2>3. CASE j = Len(Out) + 1
    <3>1. Out'[j] = e /\ Out'[i] = Out[i] /\ Out[i] \in Range(Out) /\ Out[i][1] = isr
      BY <1>3, <1>9, <2>1, <2>2, <2>3
    <3>2. PICK t \in Tracks : Out[i] \in {t} \X Replayed(t)
      BY <3>1 DEF Complete
    <3>3. Out[i][2] \in Replayed(isr)
      BY <3>1, <3>2
    <3> QED BY <1>3, <1>6, <3>1, <3>3
  <2>4. CASE j # Len(Out) + 1
    <3>1. j \in 1..Len(Out)
      BY <2>1, <2>4
    <3> QED BY <1>9, <2>1, <2>2, <3>1 DEF Complete
  <2> QED BY <2>3, <2>4
<1> QED BY <1>8, <1>9 DEF Complete

\* Every action keeps what has gone out complete.
LEMMA DeliverStep ==
  ASSUME PairedTempos, TemposApart, TracksShareBuffer, TypeOK, InSync, HaltInv,
         Complete(Out), [Next]_vars
  PROVE  Complete(Out)'
<1> USE DEF tracks, history, client, interrupt
<1>0. isr <= 1 => tx = << >>
  BY DEF HaltInv, LoopShape
<1>1. ASSUME UNCHANGED <<currentBlockId, played, tx>> PROVE Complete(Out)'
  BY <1>1, SameOut DEF Out
<1>2. CASE initNktSequence
  BY <1>0, <1>2, TopOut DEF initNktSequence, Idle, InMain
<1>3. CASE NktDeinstallReplayRout \/ LoadState \/ StoreState \/ StopResetsDevice
  BY <1>1, <1>3 DEF NktDeinstallReplayRout, LoadState, StoreState, StopResetsDevice
<1>4. CASE stopNktSequence \/ pauseNktSequence \/ playNktSequence \/ switchNktReplayMode
  BY <1>1, <1>4, EnterType
<1>5. CASE TickPaused \/ TickPlaying \/ TrackEnded \/ TrackWaits
  BY <1>1, <1>5 DEF TickPaused, TickPlaying, TrackEnded, TrackWaits
<1>6. CASE TickStopped
  BY <1>0, <1>6, TopOut DEF TickStopped, TickStarts, InMain
<1>7. CASE SingleEnds
  <2>1. isr <= 1
    BY <1>7, SongFacts DEF SingleEnds, InTrack, Tracks, isMultitrackReplay
  <2> QED BY <1>0, <1>7, <2>1, TopOut DEF SingleEnds, EndSequence
<1>8. CASE TrackSends \/ TrackChangesTempo
  BY <1>8, SendsNext DEF HaltInv
<1>9. CASE TickEnds
  <2>1. tx' = << >>
    BY <1>9 DEF TickEnds
  <2>2. CASE EndSequence
    BY <2>1, <2>2, TopOut DEF EndSequence
  <2>3. CASE played' = played \o tx /\ UNCHANGED <<sequenceState, tracks, timeStep, clock>>
    <3>1. played' \in Seq(Tracks \X Nat)
      BY <2>3 DEF TypeOK
    <3>2. Out' = Out
      BY <2>1, <2>3, <3>1 DEF Out
    <3> QED BY <2>3, <3>2, SameOut
  <2> QED BY <1>9, <2>2, <2>3 DEF TickEnds
<1>10. CASE UNCHANGED vars
  BY <1>1, <1>10 DEF vars
<1> QED
  BY <1>2, <1>3, <1>4, <1>5, <1>6, <1>7, <1>8, <1>9, <1>10
  DEF Next, Calls, MainStep, Interrupt

\* Of a song whose tempo changes are paired and apart everything is sent: between
\* interrupts what went out since the last rewind is all that the tracks have replayed,
\* in order and once, but for the tempo changes.
THEOREM DeliversAll ==
  ASSUME PairedTempos, TemposApart, TracksShareBuffer PROVE Spec => []Delivered
<1>1. Init => Complete(Out)
  <2> SUFFICES ASSUME Init PROVE Complete(Out)
    OBVIOUS
  <2>1. Out = << >> /\ \A t \in Tracks : Replayed(t) = {}
    BY DEF Init, Zeros, Out, Replayed
  <2>2. Range(<< >>) = {} /\ Len(<< >>) = 0
    BY DEF Range
  <2> QED BY <2>1, <2>2 DEF Complete
<1>2. TypeOK /\ InSync /\ HaltInv /\ Complete(Out) /\ [Next]_vars => Complete(Out)'
  BY DeliverStep
<1>3. TypeOK /\ HaltInv /\ Complete(Out) => Delivered
  <2> SUFFICES ASSUME TypeOK, HaltInv, Complete(Out), isr = 0
               PROVE  Complete(played)
    BY DEF Delivered, Complete, Replayed
  <2>1. tx = << >> /\ played \in Seq(Tracks \X Nat)
    BY DEF HaltInv, LoopShape, TypeOK
  <2>2. Out = played
    BY <2>1 DEF Out
  <2> QED BY <2>2
<1>4. TypeOK /\ InSync /\ [Next]_vars => InSync'
  BY SyncStep
<1> QED
  BY <1>1, <1>2, <1>3, <1>4, SyncInit, HaltInit, HaltStep, TypeInit, TypeStep, PTL DEF Spec
=============================================================================
