--------------------------- MODULE AmReplayProofs ---------------------------
(***************************************************************************)
(* Theorems about the player of event lists, for every set of songs, every *)
(* tempo and every time division.  With a song of one track it does what   *)
(* the transport promises.                                                 *)
(***************************************************************************)
EXTENDS AmReplay, InductionTheorems, SequenceTheorems, TLAPS

USE DEF TM_PLAY_ONCE, TM_MUTE, TS_PS_PLAYING, TS_PS_PAUSED

\* There is a first track with an event; every list is one of events, and has its end
\* of track at its end only.
LEMMA SongFacts ==
  ASSUME song \in Songs
  PROVE  /\ song.timeDivision \in Nat
         /\ Len(song.tracks) \in Nat /\ Len(song.tracks) >= 1
         /\ (song.seqType = "ST_SINGLE" => Len(song.tracks) = 1)
         /\ Len(song.tracks[1]) >= 1
         /\ \A t \in Tracks : /\ Len(song.tracks[t]) \in Nat
                              /\ \A n \in 1..Len(song.tracks[t]) :
                                   /\ song.tracks[t][n] \in Event
                                   /\ song.tracks[t][n].type = "T_META_EOT"
                                        <=> n = Len(song.tracks[t])
<1>0. Playable(song)
  BY SongsAssumption
<1>1. song.timeDivision \in Nat
  BY <1>0 DEF Playable
<1>2. song.tracks \in Seq(Seq(Event)) /\ song.tracks # << >> /\ song.tracks[1] # << >>
  BY <1>0 DEF Playable
<1>3. song.seqType = "ST_SINGLE" => Len(song.tracks) = 1
  BY <1>0 DEF Playable
<1>4. ASSUME NEW t \in 1..Len(song.tracks), NEW n \in 1..Len(song.tracks[t])
      PROVE  n = Len(song.tracks[t]) <=> song.tracks[t][n].type = "T_META_EOT"
  BY <1>0 DEF Playable
<1>5. Len(song.tracks) \in Nat /\ Len(song.tracks) >= 1
  BY <1>2
<1>6. \A t \in Tracks : song.tracks[t] \in Seq(Event)
  BY <1>2 DEF Tracks
<1>7. Len(song.tracks[1]) >= 1
  BY <1>2, <1>5, <1>6 DEF Tracks
<1>8. \A t \in Tracks : Len(song.tracks[t]) \in Nat
  BY <1>6
<1>9. ASSUME NEW t \in Tracks, NEW n \in 1..Len(song.tracks[t])
      PROVE  song.tracks[t][n] \in Event
  BY <1>6
<1> QED

  BY <1>1, <1>3, <1>4, <1>5, <1>7, <1>8, <1>9 DEF Tracks

\* A quotient of natural numbers is one.
LEMMA Quotient == ASSUME NEW a \in Nat, NEW d \in Nat \ {0} PROVE a \div d \in Nat
  OBVIOUS

\* So is a product of natural numbers.
LEMMA Product == ASSUME NEW a \in Nat, NEW b \in Nat PROVE a * b \in Nat
  OBVIOUS

\* A remainder is below what was divided by.
LEMMA Remainder == ASSUME NEW a \in Nat, NEW d \in Nat \ {0} PROVE a % d \in 0..d - 1
  OBVIOUS

\* The step of a tempo is a number, however its parts are cut off.
LEMMA StepType ==
  ASSUME song \in Songs, NEW mpqn \in Nat \ {0}
  PROVE  Step(mpqn) \in Nat
<1>1. BPM(mpqn) \in Nat
  BY Quotient DEF BPM
<1> DEFINE temp == (BPM(mpqn) % 65536) * song.timeDivision
<1>2. temp \in Nat
  <2>1. BPM(mpqn) % 65536 \in Nat BY <1>1, Remainder
  <2> QED BY <2>1, SongFacts, Product
<1> HIDE DEF temp
<1>3. ((temp * 65536) \div 60) \div 200 \in Nat
  BY <1>2
<1>4. (((temp \div 60) % 65536) * 65536) \div 200 \in Nat
  BY <1>2
<1> QED
  BY <1>3, <1>4 DEF Step, StepAt, amCalculateTimeStep, SEQUENCER_UPDATE_HZ, temp

-----------------------------------------------------------------------------
(* The types.                                                              *)

\* A pointer is a list and a number, of which TypeOK only gives the parts.
Pointers == currEventPtr \in [Tracks -> Tracks \X Nat]

\* What a call has left to write.
Writes == todo \in Seq([track : Tracks, off : SUBSET Bits, on : SUBSET Bits])

TypeInv == TypeOK /\ Pointers /\ Writes

\* Where a pointer is that is not NULL, and where it goes from an event.
LEMMA PointedAt ==
  ASSUME TypeInv, NEW t \in Tracks, ~IsNull(currEventPtr[t])
  PROVE  LET list == song.tracks[currEventPtr[t][1]] IN
         /\ currEventPtr[t] = <<currEventPtr[t][1], currEventPtr[t][2]>>
         /\ currEventPtr[t][1] \in Tracks
         /\ currEventPtr[t][2] \in 1..Len(list) /\ Len(list) \in Nat
         /\ EventAt(currEventPtr[t]) \in Event
         /\ IsEnd(currEventPtr[t]) <=> currEventPtr[t][2] = Len(list)
<1> DEFINE p == currEventPtr[t]
<1>1. p \in Tracks \X Nat
  BY DEF TypeInv, Pointers
<1>2. p = <<p[1], p[2]>> /\ p[1] \in Tracks /\ p[2] \in Nat
  BY <1>1
<1>3. p[2] >= 1 /\ p[2] <= Len(song.tracks[p[1]]) + 1
  BY <1>2, SongFacts DEF TypeInv, TypeOK
<1>4. Len(song.tracks[p[1]]) \in Nat
  BY <1>2, SongFacts DEF TypeInv, TypeOK
<1>5. p[2] \in 1..Len(song.tracks[p[1]])
  BY <1>2, <1>3, <1>4 DEF IsNull
<1>6. /\ song.tracks[p[1]][p[2]] \in Event
      /\ song.tracks[p[1]][p[2]].type = "T_META_EOT" <=> p[2] = Len(song.tracks[p[1]])
  BY <1>2, <1>5, SongFacts DEF TypeInv, TypeOK
<1> QED
  BY <1>2, <1>4, <1>5, <1>6 DEF EventAt, IsEnd

\* An event that is due has one behind it; if that is the end of track and handled
\* with it the pointer becomes NULL.
LEMMA NextPointer ==
  ASSUME TypeInv, InTrack, ~IsNull(currEventPtr[isr]), IsDue
  PROVE  LET p == currEventPtr[isr] IN
         /\ isr \in Tracks
         /\ p = <<p[1], p[2]>> /\ p[1] \in Tracks /\ p[2] \in Nat \ {0}
         /\ p[2] + 1 <= Len(song.tracks[p[1]])
         /\ Following(p) = <<p[1], p[2] + 1>>
         /\ Following(Following(p)) = <<p[1], p[2] + 2>>
         /\ EventAt(Following(p)) \in Event
         /\ IsEnd(Following(p)) <=> p[2] + 1 = Len(song.tracks[p[1]])
<1> DEFINE p == currEventPtr[isr]
<1>1. isr \in Tracks
  BY DEF InTrack
<1>2. /\ p = <<p[1], p[2]>> /\ p[1] \in Tracks
      /\ p[2] \in 1..Len(song.tracks[p[1]]) /\ Len(song.tracks[p[1]]) \in Nat
      /\ p[2] # Len(song.tracks[p[1]])
  BY <1>1, PointedAt DEF IsDue
<1> HIDE DEF p
<1>3. /\ p[2] \in Nat \ {0} /\ p[2] + 1 \in 1..Len(song.tracks[p[1]])
      /\ p[2] + 1 <= Len(song.tracks[p[1]])
  BY <1>2
<1>4. /\ Following(p) = <<p[1], p[2] + 1>>
      /\ Following(Following(p)) = <<p[1], p[2] + 2>>
  BY <1>3 DEF Following
<1>5. /\ song.tracks[p[1]][p[2] + 1] \in Event
      /\ song.tracks[p[1]][p[2] + 1].type = "T_META_EOT"
           <=> p[2] + 1 = Len(song.tracks[p[1]])
  BY <1>2, <1>3, SongFacts DEF TypeInv, TypeOK
<1>6. /\ EventAt(Following(p)) \in Event
      /\ IsEnd(Following(p)) <=> p[2] + 1 = Len(song.tracks[p[1]])
  BY <1>4, <1>5 DEF EventAt, IsEnd
<1> QED
  BY <1>1, <1>2, <1>3, <1>4, <1>6 DEF p

\* A track's pointer at the first event of a list is one.
LEMMA FirstPointer ==
  ASSUME song \in Songs, NEW t \in Tracks
  PROVE  First(t) \in Tracks \X Nat /\ First(t)[1] = t /\ First(t)[2] = 1
         /\ 1 \in 1..Len(song.tracks[t]) + 1
  BY SongFacts DEF First

\* The last list is that of a track, and so is the first.
LEMMA LastTrack ==
  ASSUME song \in Songs
  PROVE  1 \in Tracks /\ Len(song.tracks) \in Tracks /\ Len(song.tracks) \in Nat
  BY SongFacts DEF Tracks

\* Pointers that stay with their lists have the type.
PointersFit ==
  \A t \in Tracks : /\ currEventPtr[t][1] \in Tracks
                    /\ currEventPtr[t][2] \in 1..Len(song.tracks[currEventPtr[t][1]]) + 1

\* A song at its top that nobody plays, in whatever state its tracks are.
Opening ==
  /\ song \in Songs /\ active = FALSE /\ hooked = FALSE
  /\ playState \in [Tracks -> SUBSET Bits]
  /\ currEventPtr = [t \in Tracks |-> First(t)]
  /\ timeElapsedInt = [t \in Tracks |-> 0]
  /\ timeElapsedFrac = 0 /\ timeStep = 0
  /\ endOfSequence = FALSE /\ bStopped = FALSE /\ isr = 0 /\ hung = FALSE
  /\ call = "none" /\ todo = << >> /\ loaded = FALSE /\ word = {}
  /\ sounding = FALSE /\ played = << >> /\ clock = 0

LEMMA InitOpens == Init => Opening
  BY DEF Init, Opening

\* Such a song is well typed.
LEMMA InitTypes == Opening => TypeInv
<1> SUFFICES ASSUME Opening PROVE TypeInv
  OBVIOUS
<1>1. song \in Songs BY DEF Opening
<1>2. Pointers BY <1>1, FirstPointer DEF Opening, Pointers
<1>3. PointersFit BY <1>1, FirstPointer DEF Opening, PointersFit
<1>4. isr \in 0..Len(song.tracks) + 1
  BY <1>1, LastTrack DEF Opening
<1>5. 0 \in 0..ELAPSED_MOD - 1 /\ clock \in 0..CLOCK_MAX
  BY NumbersAssumption DEF Opening
<1>6. Writes BY DEF Opening, Writes
<1>7. playState \in [Tracks -> SUBSET Bits] /\ word \in SUBSET Bits
  BY DEF Opening
<1>8. timeElapsedInt \in [Tracks -> 0..ELAPSED_MOD - 1]
  BY <1>5 DEF Opening
<1>9. timeElapsedFrac \in 0..FRAC - 1 /\ timeStep \in Nat
  BY DEF Opening, FRAC
<1>10. /\ {active, hooked, endOfSequence, bStopped, hung} \subseteq BOOLEAN
       /\ {loaded, sounding} \subseteq BOOLEAN
  BY DEF Opening
<1>11. DOMAIN currEventPtr = Tracks
  BY DEF Opening
<1> QED
  BY <1>1, <1>2, <1>3, <1>4, <1>5, <1>6, <1>7, <1>8, <1>9, <1>10, <1>11
     DEF TypeInv, TypeOK, PointersFit

\* Sequences of up to two elements.
LEMMA ShortSequences ==
  ASSUME NEW S, NEW a \in S, NEW b \in S
  PROVE  << >> \in Seq(S) /\ <<a>> \in Seq(S) /\ <<a, b>> \in Seq(S)
  OBVIOUS

\* The next write of a call is one.
LEMMA NextWrite ==
  ASSUME TypeInv, todo # << >>
  PROVE  Head(todo).track \in Tracks /\ Head(todo).off \subseteq Bits
         /\ Head(todo).on \subseteq Bits
<1> DEFINE W == [track : Tracks, off : SUBSET Bits, on : SUBSET Bits]
<1>1. todo \in Seq(W)
  BY DEF TypeInv, Writes
<1> HIDE DEF W
<1>2. Head(todo) \in W
  BY <1>1
<1> QED BY <1>2 DEF W

\* What an action that leaves the pointers, the times and the track alone keeps.
LEMMA MainTypes ==
  ASSUME TypeInv, InMain,
         \/ deinstallReplayRout \/ stopAmSequence \/ pauseAmSequence \/ playAmSequence
         \/ toggleAmReplayMode \/ muteAmTrack \/ MainStep
  PROVE  TypeInv'
<1>1. 1 \in Tracks
  BY LastTrack DEF TypeInv, TypeOK
<1>2. /\ UNCHANGED <<song, active, tracks, endOfSequence, bStopped, isr, hung, history>>
      /\ hooked' \in BOOLEAN /\ sounding' \in BOOLEAN /\ loaded' \in BOOLEAN
  BY DEF deinstallReplayRout, stopAmSequence, pauseAmSequence, playAmSequence,
         toggleAmReplayMode, muteAmTrack, MainStep, LoadState, StoreState,
         StopSendsNotesOff, Enter, client, history, TypeInv, TypeOK
<1>3. Writes'
  <2>1. CASE deinstallReplayRout \/ LoadState \/ StopSendsNotesOff
    BY <2>1 DEF deinstallReplayRout, LoadState, StopSendsNotesOff, client, TypeInv,
                Writes, Tracks
  <2>2. CASE StoreState
    BY <2>2 DEF StoreState, TypeInv, Writes, Tracks
  <2> DEFINE W == [track : Tracks, off : SUBSET Bits, on : SUBSET Bits]
  <2>3. /\ Clear({TS_PS_PLAYING, TS_PS_PAUSED}) \in W /\ Clear({TS_PS_PLAYING}) \in W
        /\ Clear({TS_PS_PAUSED}) \in W /\ Clear({TM_PLAY_ONCE}) \in W
        /\ Put(TS_PS_PLAYING) \in W /\ Put(TS_PS_PAUSED) \in W /\ Put(TM_PLAY_ONCE) \in W
    BY <1>1 DEF Clear, Put, Bits
  <2>4. ASSUME NEW t \in Tracks, NEW b \in {{}, {TM_MUTE}}
        PROVE  [track |-> t, off |-> {TM_MUTE} \ b, on |-> b] \in W
    BY DEF Bits
  <2>5. W' = W
    BY <1>2 DEF Tracks
  <2> HIDE DEF W
  <2>6. CASE stopAmSequence
    <3>1. todo' = << >> \/ todo' = <<Clear({TS_PS_PLAYING, TS_PS_PAUSED})>>
      BY <2>6 DEF stopAmSequence, Enter
    <3>2. todo' \in Seq(W) BY <2>3, <3>1, ShortSequences
    <3> QED BY <2>5, <3>2 DEF Writes, W
  <2>7. CASE pauseAmSequence \/ playAmSequence
    <3>1. \/ todo' = <<Clear({TS_PS_PLAYING}), Put(TS_PS_PAUSED)>>
          \/ todo' = <<Clear({TS_PS_PAUSED}), Put(TS_PS_PLAYING)>>
      BY <2>7 DEF pauseAmSequence, playAmSequence, Enter
    <3>2. todo' \in Seq(W) BY <2>3, <3>1, ShortSequences
    <3> QED BY <2>5, <3>2 DEF Writes, W
  <2>8. CASE toggleAmReplayMode
    <3>1. todo' = <<Clear({TM_PLAY_ONCE})>> \/ todo' = <<Put(TM_PLAY_ONCE)>>
      BY <2>8 DEF toggleAmReplayMode, Enter
    <3>2. todo' \in Seq(W) BY <2>3, <3>1, ShortSequences
    <3> QED BY <2>5, <3>2 DEF Writes, W
  <2>9. CASE muteAmTrack
    <3>1. PICK t \in Tracks, b \in {{}, {TM_MUTE}} :
            todo' = <<[track |-> t, off |-> {TM_MUTE} \ b, on |-> b]>>
      BY <2>9 DEF muteAmTrack, Enter
    <3>2. todo' \in Seq(W) BY <2>4, <3>1, ShortSequences
    <3> QED BY <2>5, <3>2 DEF Writes, W
  <2> QED BY <2>1, <2>2, <2>6, <2>7, <2>8, <2>9 DEF MainStep
<1>4. playState' \in [Tracks -> SUBSET Bits] /\ word' \in SUBSET Bits
  <2>1. CASE LoadState
    BY <2>1, NextWrite DEF LoadState, TypeInv, TypeOK
  <2>2. CASE StoreState
    <3>1. (word \ Head(todo).off) \cup Head(todo).on \in SUBSET Bits
      BY <2>2, NextWrite DEF StoreState, TypeInv, TypeOK
    <3> QED BY <2>2, <3>1, NextWrite DEF StoreState, TypeInv, TypeOK
  <2>3. CASE ~LoadState /\ ~StoreState
    BY <2>3 DEF deinstallReplayRout, stopAmSequence, pauseAmSequence, playAmSequence,
         toggleAmReplayMode, muteAmTrack, MainStep, StopSendsNotesOff, Enter, client,
         TypeInv, TypeOK
  <2> QED BY <2>1, <2>2, <2>3
<1> QED
  BY <1>2, <1>3, <1>4 DEF tracks, history, TypeInv, TypeOK, Pointers, Tracks

\* What an interrupt that finds the song paused, stopped or playing keeps.
LEMMA TickTypes ==
  ASSUME TypeInv, TickPaused \/ TickStopped \/ TickPlaying
  PROVE  TypeInv'
<1>1. CASE TickPaused
  BY <1>1 DEF TickPaused, tracks, client, history, TypeInv, TypeOK, Pointers, Writes, Tracks
<1>2. CASE TickPlaying
  <2>1. 1 \in 0..Len(song.tracks) + 1
    BY LastTrack DEF TypeInv, TypeOK
  <2> QED
    BY <1>2, <2>1 DEF TickPlaying, tracks, client, history, TypeInv, TypeOK, Pointers,
                      Writes, Tracks
<1>3. CASE TickStopped
  <2>1. 1 \in Tracks /\ song \in Songs
    BY LastTrack DEF TypeInv, TypeOK
  <2>2. Step(DEFAULT_MPQN) \in Nat
    BY <2>1, StepType DEF DEFAULT_MPQN
  <2>3. 0 \in 0..ELAPSED_MOD - 1 /\ 0 \in 0..CLOCK_MAX /\ 0 \in 0..FRAC - 1
    BY NumbersAssumption DEF FRAC
  <2>4. UNCHANGED <<song, isr>>
    BY <1>3 DEF TickStopped
  <2>5. Pointers' /\ PointersFit'
    <3>1. currEventPtr[1][1] \in Tracks
      BY <2>1 DEF TypeInv, TypeOK
    <3>2. CASE UNCHANGED currEventPtr
      BY <2>4, <3>2 DEF TypeInv, TypeOK, Pointers, PointersFit, Tracks
    <3>3. CASE currEventPtr' = [currEventPtr EXCEPT ![1] = First(@[1])]
      <4> DEFINE top == First(currEventPtr[1][1])
      <4>1. /\ top \in Tracks \X Nat /\ top[1] \in Tracks
            /\ top[2] \in 1..Len(song.tracks[top[1]]) + 1
        BY <2>1, <3>1, FirstPointer
      <4>2. /\ currEventPtr'[1] = top
            /\ \A t \in Tracks : t # 1 => currEventPtr'[t] = currEventPtr[t]
        BY <2>1, <3>3 DEF TypeInv, Pointers
      <4> HIDE DEF top
      <4>3. PointersFit'
        BY <2>4, <4>1, <4>2 DEF TypeInv, TypeOK, PointersFit, Tracks
      <4>4. Pointers'
        BY <2>1, <2>4, <3>3, <4>1 DEF TypeInv, Pointers, Tracks, top
      <4> QED BY <4>3, <4>4
    <3> QED BY <1>3, <3>2, <3>3 DEF TickStopped
  <2> QED
    BY <1>3, <2>1, <2>2, <2>3, <2>4, <2>5
       DEF TickStopped, client, TypeInv, TypeOK, PointersFit, Writes, Tracks
<1> QED BY <1>1, <1>2, <1>3

\* Initialising puts every track at its first event.
LEMMA StartTypes == ASSUME TypeInv, initAmSequence PROVE TypeInv'
<1>1. song \in Songs /\ UNCHANGED <<song, endOfSequence, bStopped, isr, hung, client, sounding>>
  BY DEF initAmSequence, TypeInv, TypeOK
<1>2. Step(DEFAULT_MPQN) \in Nat
  BY <1>1, StepType DEF DEFAULT_MPQN
<1>3. 0 \in 0..ELAPSED_MOD - 1 /\ 0 \in 0..CLOCK_MAX /\ 0 \in 0..FRAC - 1
  BY NumbersAssumption DEF FRAC
<1>4. playState' \in [Tracks -> SUBSET Bits]
  <2>1. PICK s \in InitialStates : playState' = [t \in Tracks |-> s]
    BY DEF initAmSequence
  <2>2. s \in SUBSET Bits
    BY InitialAssumption
  <2> QED BY <2>1, <2>2
<1>5. Pointers' /\ PointersFit'
  BY <1>1, FirstPointer DEF initAmSequence, Pointers, PointersFit, Tracks
<1>6. timeElapsedInt' \in [Tracks -> 0..ELAPSED_MOD - 1]
  BY <1>3 DEF initAmSequence
<1> QED
  BY <1>1, <1>2, <1>3, <1>4, <1>5, <1>6
     DEF initAmSequence, client, TypeInv, TypeOK, PointersFit, Pointers, Writes, Tracks

\* The time of a track and the fraction stay in range.
LEMMA TimeTypes ==
  ASSUME TypeInv, InTrack, NEW step \in Nat, NEW elapsed \in 0..ELAPSED_MOD - 1,
         TimeForward(step, elapsed)
  PROVE  /\ timeElapsedFrac' \in 0..FRAC - 1 /\ clock' \in 0..CLOCK_MAX
         /\ timeElapsedInt' \in [Tracks -> 0..ELAPSED_MOD - 1]
<1>0. FRAC \in Nat \ {0}
  BY DEF FRAC
<1>1. timeElapsedFrac + step \in Nat
  BY <1>0 DEF TypeInv, TypeOK
<1>2. timeElapsedFrac' \in 0..FRAC - 1
  BY <1>0, <1>1, Remainder DEF TimeForward
<1>3. clock' \in 0..CLOCK_MAX
  BY NumbersAssumption DEF TimeForward, TypeInv, TypeOK
<1>4. timeElapsedInt' \in [Tracks -> 0..ELAPSED_MOD - 1]
  BY DEF TimeForward, TypeInv, TypeOK
<1> QED BY <1>2, <1>3, <1>4

\* After a track comes the next.
LEMMA NextTrack ==
  ASSUME TypeInv, InTrack PROVE isr + 1 \in 0..Len(song.tracks) + 1
  BY LastTrack DEF TypeInv, TypeOK, InTrack, Tracks

\* A track's step sends an event or lets the time pass.
LEMMA TrackTypes ==
  ASSUME TypeInv, TrackIsNull \/ TrackWaits \/ TrackSends
  PROVE  TypeInv'
<1>0. isr + 1 \in 0..Len(song.tracks) + 1 /\ isr \in Tracks /\ song \in Songs
  BY NextTrack DEF TrackIsNull, TrackWaits, TrackSends, InTrack, TypeInv, TypeOK
<1>1. CASE TrackIsNull
  BY <1>0, <1>1 DEF TrackIsNull, tracks, client, history, TypeInv, TypeOK, Pointers,
                    Writes, Tracks
<1>2. CASE TrackWaits
  <2> DEFINE elapsed == (timeElapsedInt[isr] + TimeAdd(timeStep)) % ELAPSED_MOD
  <2>1. elapsed \in 0..ELAPSED_MOD - 1
    <3>1. timeElapsedInt[isr] + TimeAdd(timeStep) \in Nat
      BY <1>0, NumbersAssumption DEF TimeAdd, TypeInv, TypeOK
    <3> QED BY <3>1, NumbersAssumption, Remainder
  <2>2. TimeForward(timeStep, elapsed) /\ InTrack /\ timeStep \in Nat
    BY <1>2 DEF TrackWaits, TypeInv, TypeOK
  <2> HIDE DEF elapsed
  <2>3. /\ timeElapsedFrac' \in 0..FRAC - 1 /\ clock' \in 0..CLOCK_MAX
        /\ timeElapsedInt' \in [Tracks -> 0..ELAPSED_MOD - 1]
    BY <2>1, <2>2, TimeTypes
  <2> QED
    BY <1>0, <1>2, <2>3 DEF TrackWaits, client, TypeInv, TypeOK, Pointers, Writes, Tracks
<1>3. CASE TrackSends
  <2> DEFINE p == currEventPtr[isr]
             next == Following(p)
             new == IF IsEnd(next) /\ EventAt(next).delta = 0 THEN Following(next) ELSE next
  <2>1. InTrack /\ ~IsNull(p) /\ IsDue /\ UNCHANGED <<song, active, hooked, playState,
                                                      bStopped, hung, client>>
    BY <1>3 DEF TrackSends
  <2>2. timeStep' \in Nat
    <3>1. Current.tempo \in Nat \ {0}
      BY <1>0, <2>1, PointedAt DEF Current, Event
    <3> QED BY <1>0, <1>3, <3>1, StepType DEF TrackSends, TypeInv, TypeOK
  <2>3. /\ timeElapsedFrac' \in 0..FRAC - 1 /\ clock' \in 0..CLOCK_MAX
        /\ timeElapsedInt' \in [Tracks -> 0..ELAPSED_MOD - 1]
    <3>1. 0 \in 0..ELAPSED_MOD - 1
      BY NumbersAssumption
    <3>2. TimeForward(timeStep', 0)
      BY <1>3 DEF TrackSends
    <3> QED BY <2>1, <2>2, <3>1, <3>2, TimeTypes
  <2>4. new \in Tracks \X Nat /\ new[1] = p[1] /\ p[1] \in Tracks
        /\ new[2] \in 1..Len(song.tracks[p[1]]) + 1
    <3>0. p[1] \in Tracks /\ p[2] \in Nat \ {0} /\ Len(song.tracks[p[1]]) \in Nat
          /\ p[2] + 1 <= Len(song.tracks[p[1]])
      BY <1>0, <2>1, NextPointer, PointedAt
    <3>1. /\ next = <<p[1], p[2] + 1>> /\ Following(next) = <<p[1], p[2] + 2>>
          /\ IsEnd(next) <=> p[2] + 1 = Len(song.tracks[p[1]])
      BY <2>1, NextPointer
    <3>2. CASE new = next
      <4> HIDE DEF new, next, p
      <4> QED BY <3>0, <3>1, <3>2
    <3>3. CASE new = Following(next) /\ IsEnd(next)
      <4> HIDE DEF new, next, p
      <4> QED BY <3>0, <3>1, <3>3
    <3> QED BY <3>2, <3>3
  <2>5. currEventPtr' = [currEventPtr EXCEPT ![isr] = new]
    BY <1>3 DEF TrackSends
  <2> HIDE DEF new, next, p
  <2>6. Pointers'
    BY <1>0, <2>1, <2>4, <2>5 DEF TypeInv, Pointers, Tracks
  <2>7. PointersFit'
    <3>1. currEventPtr'[isr] = new /\ \A t \in Tracks : t # isr => currEventPtr'[t] = currEventPtr[t]
      BY <1>0, <2>5 DEF TypeInv, Pointers
    <3> QED BY <2>1, <2>4, <3>1 DEF TypeInv, TypeOK, PointersFit, Tracks
  <2>8. isr' = isr + 1 /\ endOfSequence' \in BOOLEAN /\ sounding' \in BOOLEAN
    BY <1>3, Zenon DEF TrackSends, IsEnd, TypeInv, TypeOK
  <2> QED
    BY <1>0, <2>1, <2>2, <2>3, <2>6, <2>7, <2>8
       DEF client, TypeInv, TypeOK, Pointers, PointersFit, Writes, Tracks
<1> QED BY <1>1, <1>2, <1>3

\* The end of a song puts the first track at the last list.
LEMMA EndTypes == ASSUME TypeInv, TickEnds PROVE TypeInv'
<1>1. /\ song \in Songs /\ UNCHANGED <<song, active, hooked, bStopped, hung, client>>
      /\ endOfSequence' = FALSE /\ isr' = 0 /\ 1 \in Tracks /\ Len(song.tracks) \in Tracks
      /\ 0 \in 0..Len(song.tracks) + 1
  BY LastTrack DEF TickEnds, TypeInv, TypeOK
<1>2. CASE ~endOfSequence
  BY <1>1, <1>2 DEF TickEnds, tracks, client, history, TypeInv, TypeOK, Pointers, Writes, Tracks
<1>3. CASE endOfSequence
  <2>1. EndSequence
    BY <1>3 DEF TickEnds
  <2>2. Step(DEFAULT_MPQN) \in Nat
    BY <1>1, StepType DEF DEFAULT_MPQN
  <2>3. 0 \in 0..ELAPSED_MOD - 1 /\ 0 \in 0..CLOCK_MAX /\ 0 \in 0..FRAC - 1
    BY NumbersAssumption DEF FRAC
  <2>4. playState' \in [Tracks -> SUBSET Bits]
    <3> DEFINE old == playState[1]
               new == IF TM_PLAY_ONCE \in old THEN old \ {TS_PS_PLAYING, TS_PS_PAUSED}
                      ELSE (old \ {TS_PS_PAUSED}) \cup {TS_PS_PLAYING}
    <3>1. old \in SUBSET Bits
      BY <1>1 DEF TypeInv, TypeOK
    <3>2. new \in SUBSET Bits
      BY <3>1 DEF Bits
    <3>3. playState' = [playState EXCEPT ![1] = new]
      BY <2>1 DEF EndSequence
    <3> HIDE DEF new
    <3> QED BY <3>2, <3>3 DEF TypeInv, TypeOK
  <2>5. Pointers' /\ PointersFit'
    <3> DEFINE top == First(Len(song.tracks))
    <3>1. /\ top \in Tracks \X Nat /\ top[1] \in Tracks
          /\ top[2] \in 1..Len(song.tracks[top[1]]) + 1
      BY <1>1, FirstPointer
    <3>2. currEventPtr' = [currEventPtr EXCEPT ![1] = top]
      BY <2>1 DEF EndSequence
    <3> HIDE DEF top
    <3>3. /\ currEventPtr'[1] = top
          /\ \A t \in Tracks : t # 1 => currEventPtr'[t] = currEventPtr[t]
      BY <1>1, <3>2 DEF TypeInv, Pointers
    <3>4. PointersFit'
      BY <1>1, <3>1, <3>3 DEF TypeInv, TypeOK, PointersFit, Tracks
    <3>5. Pointers'
      BY <1>1, <3>1, <3>2 DEF TypeInv, Pointers, Tracks
    <3> QED BY <3>4, <3>5
  <2>6. timeElapsedInt' \in [Tracks -> 0..ELAPSED_MOD - 1]
    BY <2>1, <2>3 DEF EndSequence
  <2> QED
    BY <1>1, <2>1, <2>2, <2>3, <2>4, <2>5, <2>6
       DEF EndSequence, client, TypeInv, TypeOK, Pointers, PointersFit, Writes, Tracks
<1> QED BY <1>2, <1>3

\* Every step keeps the types.
LEMMA NextTypes == ASSUME TypeInv, [Next]_vars PROVE TypeInv'
<1>1. CASE UNCHANGED vars
  BY <1>1 DEF vars, tracks, client, history, TypeInv, TypeOK, Pointers, Writes, Tracks
<1>2. CASE initAmSequence
  BY <1>2, StartTypes
<1>3. CASE \/ deinstallReplayRout \/ stopAmSequence \/ pauseAmSequence
           \/ playAmSequence \/ toggleAmReplayMode \/ muteAmTrack \/ MainStep
  <2>1. InMain
    BY <1>3 DEF deinstallReplayRout, stopAmSequence, pauseAmSequence, playAmSequence,
       toggleAmReplayMode, muteAmTrack, MainStep, LoadState, StoreState,
       StopSendsNotesOff, Enter, Idle
  <2> QED BY <1>3, <2>1, MainTypes
<1>4. CASE Interrupt
  BY <1>4, TickTypes, TrackTypes, EndTypes DEF Interrupt
<1> QED BY <1>1, <1>2, <1>3, <1>4 DEF Next, Calls

\* Every reachable state of the player is well typed: no pointer leaves its list by
\* more than one event, no time its range.
THEOREM TypeCorrect == Spec => []TypeOK
<1>1. Spec => []TypeInv
  BY InitOpens, InitTypes, NextTypes, PTL DEF Spec
<1>2. TypeInv => TypeOK
  BY DEF TypeInv
<1> QED BY <1>1, <1>2, PTL

\* The song is never exchanged.
LEMMA SongStays == [Next]_vars => song' = song
  BY DEF Next, Calls, MainStep, Interrupt, initAmSequence, deinstallReplayRout,
     stopAmSequence, pauseAmSequence, playAmSequence, toggleAmReplayMode, muteAmTrack,
     Enter, LoadState, StoreState, StopSendsNotesOff, TickPaused, TickStopped,
     TickPlaying, TrackIsNull, TrackWaits, TrackSends, TickEnds, vars

-----------------------------------------------------------------------------
(* A song of one track.                                                    *)

InOrder == played = [n \in 1..currEventPtr[1][2] - 1 |-> <<1, n>>]

\* The end of the song is taken by the interrupt that reached it; until then the
\* pointer is at an event and the events in front of it have been sent.
OrderInv ==
  IsSingle => /\ ~hung
              /\ endOfSequence => isr = 2
              /\ endOfSequence \/ (~IsNull(currEventPtr[1]) /\ InOrder)

\* Its only list is the first.
LEMMA SingleTrack ==
  ASSUME TypeInv, IsSingle
  PROVE  /\ Len(song.tracks) = 1 /\ Tracks = {1} /\ song \in Songs
         /\ currEventPtr[1] = <<1, currEventPtr[1][2]>> /\ currEventPtr[1][2] \in Nat
         /\ (InTrack <=> isr = 1)
<1>1. song \in Songs /\ Len(song.tracks) = 1
  BY SongFacts DEF TypeInv, TypeOK, IsSingle
<1>2. Tracks = {1}
  BY <1>1 DEF Tracks
<1>3. currEventPtr[1] \in Tracks \X Nat
  BY <1>2 DEF TypeInv, Pointers
<1> QED BY <1>1, <1>2, <1>3 DEF InTrack

\* At its first event nothing has been sent.
LEMMA TopInOrder ==
  ASSUME song' \in Songs, played' = << >>, currEventPtr'[1] = First(1)
  PROVE  (~IsNull(currEventPtr[1]) /\ InOrder)'
<1>1. Len(song'.tracks[1]) \in Nat /\ Len(song'.tracks[1]) >= 1
  <2>1. Playable(song') BY SongsAssumption
  <2>2. song'.tracks \in Seq(Seq(Event)) /\ song'.tracks # << >> /\ song'.tracks[1] # << >>
    BY <2>1 DEF Playable
  <2>3. song'.tracks[1] \in Seq(Event)
    BY <2>2
  <2> QED BY <2>2, <2>3
<1>2. currEventPtr'[1][1] = 1 /\ currEventPtr'[1][2] = 1
  BY DEF First
<1> QED BY <1>1, <1>2 DEF IsNull, InOrder

\* Sending the next one keeps the order.
LEMMA AppendNext ==
  ASSUME NEW k \in Nat \ {0}
  PROVE  Append([n \in 1..k - 1 |-> <<1, n>>], <<1, k>>) = [n \in 1..k |-> <<1, n>>]
<1> DEFINE s == [n \in 1..k - 1 |-> <<1, n>>]
           u == [n \in 1..k |-> <<1, n>>]
<1>1. s \in Seq({1} \X Nat) /\ Len(s) = k - 1
  OBVIOUS
<1>2. u \in Seq({1} \X Nat) /\ Len(u) = k
  OBVIOUS
<1>3. \A n \in 1..k : u[n] = <<1, n>>
  OBVIOUS
<1>4. \A n \in 1..k - 1 : s[n] = <<1, n>>
  OBVIOUS
<1>5. <<1, k>> \in {1} \X Nat
  OBVIOUS
<1> HIDE DEF s, u
<1>6. /\ Append(s, <<1, k>>) \in Seq({1} \X Nat) /\ Len(Append(s, <<1, k>>)) = k
      /\ \A n \in 1..k - 1 : Append(s, <<1, k>>)[n] = s[n]
      /\ Append(s, <<1, k>>)[k] = <<1, k>>
  BY <1>1, <1>5, AppendProperties
<1>7. ASSUME NEW n \in 1..k PROVE Append(s, <<1, k>>)[n] = u[n]
  <2>1. CASE n = k
    BY <1>3, <1>6, <2>1
  <2>2. CASE n # k
    <3>1. n \in 1..k - 1 BY <2>2
    <3> QED BY <1>3, <1>4, <1>6, <3>1
  <2> QED BY <2>1, <2>2
<1>8. Append(s, <<1, k>>) = u
  BY <1>2, <1>6, <1>7, SeqEqual
<1> QED BY <1>8 DEF s, u

\* An interrupt's pass over the track keeps it, and the order.
LEMMA OrderNext ==
  ASSUME TypeInv, TypeInv', OrderInv, [Next]_vars
  PROVE  OrderInv'
<1> SUFFICES ASSUME IsSingle' PROVE OrderInv'
  BY DEF OrderInv
<1>0. song' = song /\ IsSingle /\ song' \in Songs
  BY SongStays DEF IsSingle, TypeInv, TypeOK
<1>1. /\ Len(song.tracks) = 1 /\ Tracks = {1} /\ (InTrack <=> isr = 1)
      /\ currEventPtr[1] = <<1, currEventPtr[1][2]>>
  BY <1>0, SingleTrack
<1>2. /\ ~hung /\ (endOfSequence => isr = 2)
      /\ (endOfSequence \/ (~IsNull(currEventPtr[1]) /\ InOrder))
  BY <1>0 DEF OrderInv
<1>3. CASE UNCHANGED <<isr, hung, endOfSequence, currEventPtr, played>>
  BY <1>0, <1>2, <1>3 DEF OrderInv, IsNull, InOrder
<1>4. CASE initAmSequence
  <2>1. currEventPtr'[1] = First(1) /\ played' = << >>
    BY <1>1, <1>4 DEF initAmSequence
  <2>2. ~hung' /\ endOfSequence' = endOfSequence /\ isr' = isr
    BY <1>2, <1>4 DEF initAmSequence
  <2> QED BY <1>0, <1>2, <2>1, <2>2, TopInOrder DEF OrderInv
<1>5. CASE TickStopped
  <2>1. isr = 0 /\ ~endOfSequence /\ ~IsNull(currEventPtr[1])
    BY <1>2, <1>5 DEF TickStopped, TickStarts, InMain
  <2>2. currEventPtr'[1] = First(1) /\ played' = << >>
    BY <1>1, <1>5, <2>1 DEF TickStopped, TypeInv, Pointers
  <2>3. ~hung' /\ ~endOfSequence'
    BY <1>2, <1>5, <2>1 DEF TickStopped
  <2> QED BY <1>0, <2>2, <2>3, TopInOrder DEF OrderInv
<1>6. CASE TickPlaying
  <2>1. isr = 0 /\ ~endOfSequence /\ ~endOfSequence' /\ ~hung'
        /\ UNCHANGED <<currEventPtr, played>>
    BY <1>2, <1>6 DEF TickPlaying, TickStarts, InMain, tracks, history
  <2> QED BY <1>0, <1>2, <2>1 DEF OrderInv, IsNull, InOrder
<1>7. CASE TrackIsNull
  <2>1. isr = 1 /\ IsNull(currEventPtr[1])
    BY <1>1, <1>7 DEF TrackIsNull
  <2> QED BY <1>2, <2>1
<1>8. CASE TrackWaits
  <2>1. isr = 1 /\ ~endOfSequence' /\ ~hung' /\ UNCHANGED <<currEventPtr, played>>
    BY <1>1, <1>2, <1>8 DEF TrackWaits
  <2> QED BY <1>0, <1>2, <1>8, <2>1 DEF TrackWaits, OrderInv, IsNull, InOrder
<1>9. CASE TrackSends
  <2> DEFINE p == currEventPtr[1]
             next == Following(p)
  <2>1. /\ isr = 1 /\ isr' = 2 /\ ~hung' /\ endOfSequence' = IsEnd(next)
        /\ ~IsNull(p) /\ IsDue /\ played' = Append(played, p)
    BY <1>1, <1>2, <1>9 DEF TrackSends
  <2>2. /\ next = <<1, p[2] + 1>> /\ p[2] \in Nat \ {0}
        /\ p[2] + 1 <= Len(song.tracks[1]) /\ p = <<1, p[2]>>
    BY <1>1, <2>1, NextPointer
  <2>3. CASE IsEnd(next)
    <3>1. endOfSequence'
      BY <2>1, <2>3
    <3> QED BY <2>1, <3>1 DEF OrderInv
  <2>4. CASE ~IsEnd(next)
    <3>1. currEventPtr'[1] = next
      BY <1>1, <1>9, <2>1, <2>4 DEF TrackSends, TypeInv, Pointers
    <3>2. played = [n \in 1..p[2] - 1 |-> <<1, n>>]
      BY <1>2, <2>1 DEF InOrder
    <3>3. played' = [n \in 1..p[2] |-> <<1, n>>]
      <4> HIDE DEF p
      <4>1. played' = Append([n \in 1..p[2] - 1 |-> <<1, n>>], <<1, p[2]>>)
        BY <2>1, <2>2, <3>2
      <4> QED BY <2>2, <4>1, AppendNext
    <3>4. currEventPtr'[1][2] = p[2] + 1 /\ currEventPtr'[1][1] = 1
      BY <2>2, <3>1
    <3>5. InOrder'
      <4>1. currEventPtr'[1][2] - 1 = p[2]
        <5> HIDE DEF p
        <5> QED BY <2>2, <3>4
      <4> QED BY <3>3, <4>1 DEF InOrder
    <3>6. ~IsNull(currEventPtr[1])'
      <4>1. Len(song.tracks[1]) \in Nat
        BY <1>0, SongFacts
      <4> HIDE DEF p
      <4> QED BY <1>0, <2>2, <3>4, <4>1 DEF IsNull
    <3> QED BY <2>1, <2>4, <3>5, <3>6 DEF OrderInv
  <2> QED BY <2>3, <2>4
<1>10. CASE TickEnds
  <2>1. ~endOfSequence' /\ ~hung'
    BY <1>2, <1>10 DEF TickEnds
  <2>2. CASE endOfSequence
    <3>1. currEventPtr'[1] = First(1) /\ played' = << >>
      BY <1>1, <1>10, <2>2 DEF TickEnds, EndSequence, TypeInv, Pointers
    <3> QED BY <1>0, <2>1, <3>1, TopInOrder DEF OrderInv
  <2>3. CASE ~endOfSequence
    <3>1. UNCHANGED <<currEventPtr, played>>
      BY <1>10, <2>3 DEF TickEnds, tracks, history
    <3> QED BY <1>0, <1>2, <2>1, <2>3, <3>1 DEF OrderInv, IsNull, InOrder
  <2> QED BY <2>2, <2>3
<1>11. CASE \/ deinstallReplayRout \/ stopAmSequence \/ pauseAmSequence
            \/ playAmSequence \/ toggleAmReplayMode \/ muteAmTrack \/ MainStep
            \/ TickPaused \/ UNCHANGED vars
  <2>1. UNCHANGED <<isr, hung, endOfSequence, currEventPtr, played>>
    BY <1>11 DEF deinstallReplayRout, stopAmSequence, pauseAmSequence, playAmSequence,
       toggleAmReplayMode, muteAmTrack, Enter, MainStep, LoadState, StoreState,
       StopSendsNotesOff, TickPaused, tracks, history, vars
  <2> QED BY <1>3, <2>1
<1> QED
  BY <1>4, <1>5, <1>6, <1>7, <1>8, <1>9, <1>10, <1>11 DEF Next, Calls, Interrupt

\* A song starts at its top.
LEMMA OrderInit == ASSUME Opening, TypeInv PROVE OrderInv
<1>1. song \in Songs /\ 1 \in Tracks /\ Len(song.tracks[1]) \in Nat /\ Len(song.tracks[1]) >= 1
  BY LastTrack, SongFacts DEF TypeInv, TypeOK
<1>2. currEventPtr[1] = <<1, 1>> /\ played = << >>
  BY <1>1 DEF Opening, First
<1> QED BY <1>1, <1>2 DEF Opening, OrderInv, IsNull, InOrder

\* A song of one track is sent in order, every event once, whatever the calls and the
\* interrupts they come between; between interrupts its pointer is never NULL.
THEOREM SingleInOrder == Spec => []PlayedInOrder
<1>1. Spec => [](TypeInv /\ OrderInv)
  <2>1. Init => TypeInv /\ OrderInv
    BY InitOpens, InitTypes, OrderInit
  <2>2. TypeInv /\ OrderInv /\ [Next]_vars => (TypeInv /\ OrderInv)'
    BY NextTypes, OrderNext
  <2> QED BY <2>1, <2>2, PTL DEF Spec
<1>2. OrderInv => PlayedInOrder
  BY DEF OrderInv, PlayedInOrder, InOrder
<1> QED BY <1>1, <1>2, PTL

-----------------------------------------------------------------------------
(* The time.                                                               *)

OnTime(t) == \/ IsNull(currEventPtr[t]) \/ IsEnd(currEventPtr[t])
             \/ timeElapsedInt[t] <= EventAt(currEventPtr[t]).delta

\* A remainder is not above what was divided.
LEMMA Shrinks == ASSUME NEW a \in Nat, NEW d \in Nat \ {0} PROVE a % d <= a
  OBVIOUS

\* Wherever a pointer is, the delta there is a number.
LEMMA DeltaThere ==
  ASSUME song \in Songs, NEW p \in Tracks \X Nat,
         p[2] \in 1..Len(song.tracks[p[1]]) + 1
  PROVE  IsNull(p) \/ EventAt(p).delta \in Nat
<1>1. p[1] \in Tracks /\ p[2] \in Nat /\ Len(song.tracks[p[1]]) \in Nat
  BY SongFacts
<1>2. CASE p[2] \in 1..Len(song.tracks[p[1]])
  <2>1. song.tracks[p[1]][p[2]] \in Event
    BY <1>1, <1>2, SongFacts
  <2> QED BY <2>1 DEF EventAt, Event
<1>3. CASE p[2] \notin 1..Len(song.tracks[p[1]])
  BY <1>1, <1>3 DEF IsNull
<1> QED BY <1>2, <1>3

\* An event that is not yet due is at least a tick away, and an interrupt takes a
\* track at most a tick further; a track that has sent something starts again.
LEMMA OnTimeNext ==
  ASSUME TypeInv, TypeInv', \A t \in Tracks : OnTime(t), [Next]_vars
  PROVE  (\A t \in Tracks : OnTime(t))'
<1>0. song' = song /\ song \in Songs
  BY SongStays DEF TypeInv, TypeOK
<1>1. Tracks' = Tracks /\ 1 \in Tracks
  BY <1>0, LastTrack DEF Tracks
<1> SUFFICES ASSUME NEW t \in Tracks PROVE OnTime(t)'
  BY <1>1
<1>2. OnTime(t)
  OBVIOUS
<1>3. CASE timeElapsedInt'[t] = 0
  <2>1. /\ currEventPtr'[t] \in Tracks \X Nat
        /\ currEventPtr'[t][2] \in 1..Len(song.tracks[currEventPtr'[t][1]]) + 1
    BY <1>0, <1>1 DEF TypeInv, TypeOK, Pointers
  <2>2. IsNull(currEventPtr'[t]) \/ EventAt(currEventPtr'[t]).delta \in Nat
    BY <1>0, <2>1, DeltaThere
  <2> QED BY <1>0, <1>3, <2>2 DEF OnTime, IsNull, EventAt
<1>4. CASE currEventPtr'[t] = currEventPtr[t] /\ timeElapsedInt'[t] = timeElapsedInt[t]
  BY <1>0, <1>2, <1>4 DEF OnTime, IsNull, IsEnd, EventAt
<1>5. CASE TrackWaits
  <2>1. isr \in Tracks /\ ~IsNull(currEventPtr[isr]) /\ ~IsDue
        /\ currEventPtr' = currEventPtr
        /\ TimeForward(timeStep, (timeElapsedInt[isr] + TimeAdd(timeStep)) % ELAPSED_MOD)
    BY <1>5 DEF TrackWaits, InTrack
  <2>2. CASE t # isr
    <3>1. timeElapsedInt'[t] = timeElapsedInt[t]
      BY <2>1, <2>2 DEF TimeForward, TypeInv, TypeOK
    <3> QED BY <1>4, <2>1, <3>1
  <2>3. CASE t = isr
    <3> DEFINE e == timeElapsedInt[t]
               a == TimeAdd(timeStep)
    <3>1. e \in Nat /\ a \in {0, 1}
      BY NumbersAssumption DEF TypeInv, TypeOK, TimeAdd
    <3>2. timeElapsedInt'[t] = (e + a) % ELAPSED_MOD
      BY <2>1, <2>3 DEF TimeForward, TypeInv, TypeOK
    <3>3. CASE IsEnd(currEventPtr[t])
      BY <1>0, <2>1, <3>3 DEF OnTime, IsEnd, EventAt
    <3>4. CASE ~IsEnd(currEventPtr[t])
      <4>1. EventAt(currEventPtr[t]).delta \in Nat /\ EventAt(currEventPtr[t]).delta # e
        BY <2>1, <2>3, <3>4, PointedAt DEF IsDue, Current, Event
      <4>2. e <= EventAt(currEventPtr[t]).delta
        BY <1>2, <2>1, <2>3, <3>4 DEF OnTime
      <4>3. timeElapsedInt'[t] \in Nat /\ timeElapsedInt'[t] <= e + a
        <5> HIDE DEF e, a
        <5>1. e + a \in Nat BY <3>1
        <5> QED BY <3>2, <5>1, NumbersAssumption, Shrinks, Remainder
      <4>4. timeElapsedInt'[t] <= EventAt(currEventPtr[t]).delta
        <5> HIDE DEF e, a
        <5> QED BY <3>1, <4>1, <4>2, <4>3
      <4> QED BY <1>0, <2>1, <4>4 DEF OnTime, EventAt
    <3> QED BY <3>3, <3>4
  <2> QED BY <2>2, <2>3
<1>6. CASE TrackSends
  <2>1. isr \in Tracks /\ TimeForward(timeStep', 0)
    BY <1>6 DEF TrackSends, InTrack
  <2>2. CASE t = isr
    <3>1. timeElapsedInt'[t] = 0
      BY <2>1, <2>2 DEF TimeForward, TypeInv, TypeOK
    <3> QED BY <1>3, <3>1
  <2>3. CASE t # isr
    <3>1. currEventPtr'[t] = currEventPtr[t] /\ timeElapsedInt'[t] = timeElapsedInt[t]
      BY <1>6, <2>1, <2>3 DEF TrackSends, TimeForward, TypeInv, TypeOK, Pointers
    <3> QED BY <1>4, <3>1
  <2> QED BY <2>2, <2>3
<1>7. CASE TickStopped
  <2>1. CASE t = 1
    <3>1. timeElapsedInt'[t] = 0
      BY <1>7, <2>1 DEF TickStopped, TypeInv, TypeOK
    <3> QED BY <1>3, <3>1
  <2>2. CASE t # 1
    <3>1. currEventPtr'[t] = currEventPtr[t] /\ timeElapsedInt'[t] = timeElapsedInt[t]
      BY <1>7, <2>2 DEF TickStopped, TypeInv, TypeOK, Pointers
    <3> QED BY <1>4, <3>1
  <2> QED BY <2>1, <2>2
<1>8. CASE TickEnds
  <2>1. timeElapsedInt'[t] = 0 \/ UNCHANGED <<currEventPtr, timeElapsedInt>>
    BY <1>8 DEF TickEnds, EndSequence, tracks
  <2> QED BY <1>3, <1>4, <2>1
<1>9. CASE initAmSequence
  <2>1. timeElapsedInt'[t] = 0
    BY <1>9 DEF initAmSequence
  <2> QED BY <1>3, <2>1
<1>10. CASE \/ deinstallReplayRout \/ stopAmSequence \/ pauseAmSequence
            \/ playAmSequence \/ toggleAmReplayMode \/ muteAmTrack \/ MainStep
            \/ TickPaused \/ TickPlaying \/ TrackIsNull \/ UNCHANGED vars
  <2>1. UNCHANGED <<currEventPtr, timeElapsedInt>>
    BY <1>10 DEF deinstallReplayRout, stopAmSequence, pauseAmSequence, playAmSequence,
       toggleAmReplayMode, muteAmTrack, Enter, MainStep, LoadState, StoreState,
       StopSendsNotesOff, TickPaused, TickPlaying, TrackIsNull, tracks, vars
  <2> QED BY <1>4, <2>1
<1> QED
  BY <1>5, <1>6, <1>7, <1>8, <1>9, <1>10 DEF Next, Calls, Interrupt

\* A song starts with nothing overdue.
LEMMA OnTimeInit == ASSUME Opening, TypeInv PROVE \A t \in Tracks : OnTime(t)
<1> SUFFICES ASSUME NEW t \in Tracks PROVE OnTime(t)
  OBVIOUS
<1>1. timeElapsedInt[t] = 0
  BY DEF Opening
<1>2. IsNull(currEventPtr[t]) \/ EventAt(currEventPtr[t]).delta \in Nat
  BY PointedAt DEF Event
<1> QED BY <1>1, <1>2 DEF OnTime

\* No track looks for an event whose time has gone by, and in a song of one track the
\* handler never follows a NULL pointer.
THEOREM NeverLate == Spec => []NeverOverdue
<1> DEFINE Inv == TypeInv /\ OrderInv /\ \A t \in Tracks : OnTime(t)
<1>1. Init => Inv
  BY InitOpens, InitTypes, OrderInit, OnTimeInit
<1>2. Inv /\ [Next]_vars => Inv'
  BY NextTypes, OrderNext, OnTimeNext
<1>3. Inv => NeverOverdue
  BY DEF OrderInv, NeverOverdue, OnTime
<1> HIDE DEF Inv
<1> QED BY <1>1, <1>2, <1>3, PTL DEF Spec

-----------------------------------------------------------------------------
(* The tempo.                                                              *)

IsTempo(p) == EventAt(p).type = "T_META_SET_TEMPO"

\* The last tempo event sent, if there is one, made the step; else it is the default's.
StepInv ==
  /\ played \in Seq(Tracks \X Nat)
  /\ active =>
       \/ /\ \A i \in 1..Len(played) : ~IsTempo(played[i])
          /\ timeStep = Step(DEFAULT_MPQN)
       \/ \E i \in 1..Len(played) :
            /\ IsTempo(played[i]) /\ timeStep = Step(EventAt(played[i]).tempo)
            /\ \A j \in 1..Len(played) : IsTempo(played[j]) => j <= i

\* It says what is in force.
LEMMA StepInvInForce == StepInv => StepInForce
<1> SUFFICES ASSUME StepInv, active PROVE StepInForce
  BY DEF StepInForce
<1> DEFINE tempos == {i \in 1..Len(played) : IsTempo(played[i])}
           last == CHOOSE i \in tempos : \A j \in tempos : j <= i
<1>0. Len(played) \in Nat
  BY DEF StepInv
<1>1. CASE tempos = {}
  <2>1. timeStep = Step(DEFAULT_MPQN)
    BY <1>1 DEF StepInv
  <2> QED BY <1>1, <2>1 DEF StepInForce, IsTempo
<1>2. CASE tempos # {}
  <2>1. PICK i \in 1..Len(played) :
          /\ IsTempo(played[i]) /\ timeStep = Step(EventAt(played[i]).tempo)
          /\ \A j \in 1..Len(played) : IsTempo(played[j]) => j <= i
    BY <1>2 DEF StepInv
  <2>2. i \in tempos /\ \A j \in tempos : j <= i
    BY <2>1
  <2>3. tempos \subseteq Int
    BY <1>0
  <2>4. last \in tempos /\ \A j \in tempos : j <= last
    <3> HIDE DEF tempos
    <3> QED BY <2>2
  <2>5. last = i
    <3> HIDE DEF tempos, last
    <3>1. last <= i /\ i <= last /\ last \in Int /\ i \in Int
      BY <2>2, <2>3, <2>4
    <3> QED BY <3>1
  <2>6. timeStep = Step(EventAt(played[last]).tempo)
    BY <2>1, <2>5
  <2> QED BY <1>2, <2>6 DEF StepInForce, IsTempo
<1> QED BY <1>1, <1>2

\* At the top of a song no tempo event has been sent.
LEMMA TopStep ==
  ASSUME played' = << >>, timeStep' = Step(DEFAULT_MPQN), song' = song
  PROVE  StepInv'
<1>1. (timeStep = Step(DEFAULT_MPQN))'
  BY DEF Step
<1> QED BY <1>1 DEF StepInv, Tracks

\* An event sent is the last; if it is of another kind the tempo stays.
LEMMA SendStep == ASSUME TypeInv, StepInv, TrackSends PROVE StepInv'
<1> DEFINE p == currEventPtr[isr]
           n == Len(played) + 1
<1>1. /\ isr \in Tracks /\ ~IsNull(p) /\ IsDue /\ played' = Append(played, p)
      /\ song' = song /\ active' = active /\ Tracks' = Tracks
      /\ timeStep' = IF IsTempo(p) THEN Step(EventAt(p).tempo) ELSE timeStep
  BY DEF TrackSends, InTrack, Current, IsTempo, Tracks
<1>2. p \in Tracks \X Nat /\ played \in Seq(Tracks \X Nat)
  BY <1>1 DEF TypeInv, Pointers, StepInv
<1> HIDE DEF p
<1>3. /\ played' \in Seq(Tracks \X Nat) /\ Len(played') = n /\ n \in Nat \ {0}
      /\ Len(played) \in Nat /\ played'[n] = p
      /\ \A i \in 1..Len(played) : played'[i] = played[i]
  BY <1>1, <1>2, AppendProperties
<1> HIDE DEF n
<1>4. /\ \A q : IsTempo(q)' <=> IsTempo(q)
      /\ \A q : Step(EventAt(q).tempo)' = Step(EventAt(q).tempo)
      /\ Step(DEFAULT_MPQN)' = Step(DEFAULT_MPQN)
  BY <1>1 DEF IsTempo, EventAt, Step
<1>5. \A i \in 1..Len(played') : i = n \/ i \in 1..Len(played)
  BY <1>3 DEF n
<1>6. \A i \in 1..Len(played) : i \in 1..n /\ i <= n
  BY <1>3 DEF n
<1> SUFFICES ASSUME active
             PROVE  \/ /\ \A i \in 1..Len(played') : ~IsTempo(played'[i])
                       /\ timeStep' = Step(DEFAULT_MPQN)
                    \/ \E i \in 1..Len(played') :
                         /\ IsTempo(played'[i])
                         /\ timeStep' = Step(EventAt(played'[i]).tempo)
                         /\ \A j \in 1..Len(played') : IsTempo(played'[j]) => j <= i
  BY <1>1, <1>3 DEF StepInv, IsTempo, EventAt, Step
<1>7. CASE IsTempo(p)
  <2>1. n \in 1..Len(played') /\ \A j \in 1..Len(played') : j <= n
    BY <1>3
  <2>2. IsTempo(played'[n]) /\ timeStep' = Step(EventAt(played'[n]).tempo)
    BY <1>1, <1>3, <1>7
  <2> QED BY <2>1, <2>2
<1>8. CASE ~IsTempo(p)
  <2>1. timeStep' = timeStep
    BY <1>1, <1>8
  <2>2. CASE \A i \in 1..Len(played) : ~IsTempo(played[i])
    <3>1. timeStep = Step(DEFAULT_MPQN)
      BY <2>2 DEF StepInv
    <3>2. \A i \in 1..Len(played') : ~IsTempo(played'[i])
      BY <1>3, <1>5, <1>8, <2>2
    <3> QED BY <2>1, <3>1, <3>2
  <2>3. CASE \E i \in 1..Len(played) : IsTempo(played[i])
    <3>1. PICK i \in 1..Len(played) :
            /\ IsTempo(played[i]) /\ timeStep = Step(EventAt(played[i]).tempo)
            /\ \A j \in 1..Len(played) : IsTempo(played[j]) => j <= i
      BY <2>3 DEF StepInv
    <3>2. i \in 1..Len(played') /\ played'[i] = played[i]
      BY <1>3, <1>6
    <3>3. ASSUME NEW j \in 1..Len(played'), IsTempo(played'[j]) PROVE j <= i
      <4>1. j # n
        BY <1>3, <1>8, <3>3
      <4>2. j \in 1..Len(played) /\ played'[j] = played[j]
        BY <1>3, <1>5, <4>1
      <4> QED BY <3>1, <3>3, <4>2
    <3> QED BY <2>1, <3>1, <3>2, <3>3
  <2> QED BY <2>2, <2>3
<1> QED BY <1>7, <1>8

\* Every step keeps it: only what goes back to the top, or sends, touches it.
LEMMA StepNext == ASSUME TypeInv, StepInv, [Next]_vars PROVE StepInv'
<1>0. song' = song
  BY SongStays
<1>1. CASE TrackSends
  BY <1>1, SendStep
<1>2. CASE initAmSequence \/ TickStopped \/ (TickEnds /\ endOfSequence)
  <2>1. played' = << >> /\ timeStep' = Step(DEFAULT_MPQN)
    BY <1>2 DEF initAmSequence, TickStopped, TickEnds, EndSequence
  <2> QED BY <1>0, <2>1, TopStep
<1>3. CASE UNCHANGED <<active, played, timeStep>>
  BY <1>0, <1>3 DEF StepInv, IsTempo, EventAt, Step, Tracks
<1>4. CASE \/ deinstallReplayRout \/ stopAmSequence \/ pauseAmSequence
           \/ playAmSequence \/ toggleAmReplayMode \/ muteAmTrack \/ MainStep
           \/ TickPaused \/ TickPlaying \/ TrackIsNull \/ TrackWaits
           \/ (TickEnds /\ ~endOfSequence) \/ UNCHANGED vars
  <2>1. UNCHANGED <<active, played, timeStep>>
    BY <1>4 DEF deinstallReplayRout, stopAmSequence, pauseAmSequence, playAmSequence,
       toggleAmReplayMode, muteAmTrack, Enter, MainStep, LoadState, StoreState,
       StopSendsNotesOff, TickPaused, TickPlaying, TrackIsNull, TrackWaits, TickEnds,
       tracks, history, vars
  <2> QED BY <1>3, <2>1
<1> QED BY <1>1, <1>2, <1>4 DEF Next, Calls, Interrupt

LEMMA StepInit == Opening => StepInv
  BY DEF Opening, StepInv

\* The step in force is that of the last tempo event sent since the song was at its
\* top, on whatever track, or the default.
THEOREM LastTempo == Spec => []StepInForce
<1>1. Init => TypeInv /\ StepInv
  BY InitOpens, InitTypes, StepInit
<1>2. TypeInv /\ StepInv /\ [Next]_vars => (TypeInv /\ StepInv)'
  BY NextTypes, StepNext
<1> QED BY <1>1, <1>2, StepInvInForce, PTL DEF Spec

-----------------------------------------------------------------------------
(* The time that is lost.                                                  *)

\* The running sum of the deltas of the first track.
LEMMA ToldGrows ==
  ASSUME song \in Songs
  PROVE  /\ Told[0] = 0
         /\ \A n \in 0..Len(song.tracks[1]) : Told[n] \in Nat
         /\ \A n \in 1..Len(song.tracks[1]) : Told[n] = Told[n - 1] + song.tracks[1][n].delta
<1> DEFINE k == Len(song.tracks[1])
           deltas == [n \in 1..k |-> song.tracks[1][n].delta]
<1>1. k \in Nat /\ \A n \in 1..k : song.tracks[1][n].delta \in Nat
  <2>1. k \in Nat /\ \A n \in 1..k : song.tracks[1][n] \in Event
    BY LastTrack, SongFacts
  <2> QED BY <2>1 DEF Event
<1>2. deltas \in Seq(Nat) /\ Len(deltas) = k
  <2> HIDE DEF k
  <2> QED BY <1>1
<1>3. \A n \in 1..k : deltas[n] = song.tracks[1][n].delta
  OBVIOUS
<1>4. Told = RunningSum(deltas)
  BY DEF Told
<1> HIDE DEF deltas, k
<1>5. \A n \in 1..Len(deltas) : deltas[n] \in Nat
  BY <1>1, <1>2, <1>3
<1>6. /\ RunningSum(deltas) \in [0..k -> Nat] /\ RunningSum(deltas)[0] = 0
      /\ \A n \in 1..k : RunningSum(deltas)[n] = RunningSum(deltas)[n - 1] + deltas[n]
  BY <1>1, <1>2, <1>5, RunningSumGrows
<1>7. \A n \in 0..k : Told[n] \in Nat
  BY <1>4, <1>6
<1>8. \A n \in 1..k : Told[n] = Told[n - 1] + song.tracks[1][n].delta
  BY <1>3, <1>4, <1>6
<1> QED BY <1>4, <1>6, <1>7, <1>8 DEF k

\* What a clock is late by: a number of whole ticks, at most one an event.
LateBy(c, told, elapsed, frac, sent) ==
  \E n \in 0..sent : c = FRAC * (told + elapsed) + frac + FRAC * n

\* No interrupt takes more than a tick.
SmallSteps == \A step \in Steps : step <= FRAC

LateInv ==
  /\ hooked \/ isr # 0 => active
  /\ IsSingle =>
       /\ active => timeStep \in Steps
       /\ \/ endOfSequence \/ ~SmallSteps \/ clock >= CLOCK_MAX
          \/ LateBy(clock, Told[currEventPtr[1][2] - 1], timeElapsedInt[1],
                    timeElapsedFrac, currEventPtr[1][2] - 1)

\* What a step adds to the ticks; it moves ticks and fraction on by as much as it is long.
Carry(f, s) == IF f + s >= FRAC THEN 1 ELSE 0

LEMMA StepTaken ==
  ASSUME NEW f \in Nat, f < FRAC, NEW s \in Nat, s <= FRAC
  PROVE  f + s = FRAC * Carry(f, s) + ((f + s) % FRAC)
<1>1. /\ f + s = FRAC * ((f + s) \div FRAC) + ((f + s) % FRAC)
      /\ (f + s) \div FRAC \in Nat /\ (f + s) % FRAC \in 0..FRAC - 1
  <2>1. f + s \in Nat /\ FRAC \in Nat \ {0}
    BY DEF FRAC
  <2> QED BY <2>1, Split
<1>2. PICK q \in Nat, r \in Nat : /\ q = (f + s) \div FRAC /\ r = (f + s) % FRAC
                                /\ r < FRAC
  <2>1. FRAC \in Nat
    BY DEF FRAC
  <2>2. \A n \in Nat : \A r \in 0..n - 1 : r \in Nat /\ r < n
    OBVIOUS
  <2>3. (f + s) % FRAC \in Nat /\ (f + s) % FRAC < FRAC
    BY <1>1, <2>1, <2>2, Zenon
  <2> QED BY <1>1, <2>3, Zenon
<1>3. f + s = FRAC * q + r
  BY <1>1, <1>2
<1>4. q \in {0, 1}
  BY <1>2, <1>3 DEF FRAC
<1>5. q = 1 <=> f + s >= FRAC
  BY <1>2, <1>3, <1>4 DEF FRAC
<1> QED BY <1>2, <1>3, <1>4, <1>5 DEF Carry

\* So a clock that it moves on is late by as much as before.
LEMMA AsLate ==
  ASSUME NEW told \in Nat, NEW e \in Nat, NEW f \in Nat, f < FRAC,
         NEW s \in Nat, s <= FRAC, NEW n \in Nat
  PROVE  /\ (FRAC * (told + e) + f + FRAC * n) + s
              = FRAC * (told + (e + Carry(f, s))) + ((f + s) % FRAC) + FRAC * n
         /\ Carry(f, s) \in {0, 1} /\ (f + s) % FRAC \in Nat /\ (f + s) % FRAC < FRAC
<1>1. PICK a, r : a = Carry(f, s) /\ r = (f + s) % FRAC
  OBVIOUS
<1>2. f + s = FRAC * a + r
  BY <1>1, StepTaken
<1>3. a \in {0, 1} /\ a \in Nat
  BY <1>1 DEF Carry
<1>4. r \in Nat /\ r < FRAC
  <2>1. f + s \in Nat /\ FRAC \in Nat \ {0}
    BY DEF FRAC
  <2> QED BY <1>1, <2>1, Remainder DEF FRAC
<1>5. (FRAC * (told + e) + f + FRAC * n) + s = FRAC * (told + (e + a)) + r + FRAC * n
  BY <1>2, <1>3, <1>4 DEF FRAC
<1> QED BY <1>1, <1>3, <1>4, <1>5

\* A sum of numbers is not below one of them.
LEMMA SumBelow ==
  ASSUME NEW a \in Nat, NEW b \in Nat, NEW m \in Nat, a + b < m PROVE a < m
OBVIOUS

\* A time whose ticks the clock counts is below its bound.
LEMMA BelowBound ==
  ASSUME NEW c \in Nat, NEW told \in Nat, NEW e \in Nat, NEW r \in Nat, NEW n \in Nat,
         NEW m \in Nat, c = FRAC * (told + e) + r + FRAC * n, c < FRAC * m
  PROVE  e < m
BY DEF FRAC

\* The times and the step of a song of one track are numbers, and its pointer's.
LEMMA LateTypes ==
  ASSUME TypeInv, IsSingle, ~IsNull(currEventPtr[1])
  PROVE  /\ timeElapsedFrac \in Nat /\ timeElapsedFrac < FRAC /\ timeStep \in Nat
         /\ timeElapsedInt[1] \in Nat /\ timeElapsedInt[1] < ELAPSED_MOD
         /\ clock \in Nat /\ clock <= CLOCK_MAX
         /\ currEventPtr[1][2] \in 1..Len(song.tracks[1])
         /\ currEventPtr[1][2] - 1 \in Nat
         /\ Told[currEventPtr[1][2] - 1] \in Nat
<1>1. /\ 1 \in Tracks /\ song \in Songs /\ currEventPtr[1][1] = 1
      /\ currEventPtr[1] = <<1, currEventPtr[1][2]>>
  <2>1. Tracks = {1} /\ currEventPtr[1] = <<1, currEventPtr[1][2]>> /\ song \in Songs
    BY SingleTrack
  <2> QED BY <2>1
<1>2. currEventPtr[1][2] \in 1..Len(song.tracks[1]) /\ Len(song.tracks[1]) \in Nat
  BY <1>1, PointedAt
<1>3. currEventPtr[1][2] - 1 \in 0..Len(song.tracks[1])
  BY <1>2
<1>4. /\ timeElapsedFrac \in Nat /\ timeElapsedFrac < FRAC /\ timeStep \in Nat
      /\ timeElapsedInt[1] \in Nat /\ timeElapsedInt[1] < ELAPSED_MOD
      /\ clock \in Nat /\ clock <= CLOCK_MAX
  <2>1. FRAC \in Nat \ {0}
    BY DEF FRAC
  <2> QED BY <1>1, <2>1, NumbersAssumption DEF TypeInv, TypeOK
<1> QED BY <1>1, <1>2, <1>3, <1>4, ToldGrows

\* The clock is not late at the top of a song.
LEMMA TopLate ==
  ASSUME song' = song, song \in Songs, (hooked \/ isr # 0 => active)',
         clock' = 0, timeElapsedFrac' = 0, timeElapsedInt'[1] = 0,
         currEventPtr'[1] = First(1), timeStep' = Step(DEFAULT_MPQN)
  PROVE  LateInv'
<1>1. Told' = Told /\ Told[0] = 0 /\ Steps' = Steps
  BY ToldGrows DEF Told, Steps, Step
<1>2. currEventPtr'[1][2] - 1 = 0
  BY DEF First
<1>3. timeStep' \in Steps'
  BY <1>1 DEF Steps
<1>4. LateBy(0, 0, 0, 0, 0)
  BY DEF LateBy, FRAC
<1> QED BY <1>1, <1>2, <1>3, <1>4 DEF LateInv

\* A track that waits is not later than before.
LEMMA WaitLate ==
  ASSUME CLOCK_MAX <= FRAC * ELAPSED_MOD,
         TypeInv, OrderInv, LateInv, TrackWaits
  PROVE  LateInv'
<1>0. song' = song /\ active' = active /\ hooked' = hooked /\ isr # 0
  BY SingleTrack DEF TrackWaits, InTrack, Tracks
<1>1. active /\ (hooked' \/ isr' # 0 => active')
  BY <1>0 DEF LateInv
<1>11. Steps' = Steps /\ Told' = Told
  BY <1>0 DEF Steps, Step, Told
<1> SUFFICES ASSUME IsSingle
             PROVE  /\ timeStep' \in Steps
                    /\ \/ endOfSequence' \/ ~SmallSteps \/ clock' >= CLOCK_MAX
                       \/ LateBy(clock', Told[currEventPtr'[1][2] - 1], timeElapsedInt'[1],
                                 timeElapsedFrac', currEventPtr'[1][2] - 1)
  BY <1>0, <1>1, <1>11 DEF LateInv, IsSingle, SmallSteps
<1>2. /\ isr = 1 /\ Tracks = {1} /\ ~endOfSequence /\ ~IsNull(currEventPtr[1])
  <2>1. Tracks = {1} /\ isr = 1
    BY SingleTrack DEF TrackWaits
  <2> QED BY <2>1 DEF TrackWaits, OrderInv
<1>3. timeStep \in Steps /\ timeStep' = timeStep
  BY <1>1 DEF LateInv, TrackWaits
<1>4. /\ timeElapsedFrac \in Nat /\ timeElapsedFrac < FRAC /\ timeStep \in Nat
      /\ timeElapsedInt[1] \in Nat /\ timeElapsedInt[1] < ELAPSED_MOD
      /\ clock \in Nat /\ clock <= CLOCK_MAX
      /\ currEventPtr[1][2] - 1 \in Nat
      /\ Told[currEventPtr[1][2] - 1] \in Nat
  BY <1>2, LateTypes
<1>5. /\ clock' = IF clock + timeStep < CLOCK_MAX THEN clock + timeStep ELSE CLOCK_MAX
      /\ timeElapsedFrac' = (timeElapsedFrac + timeStep) % FRAC
      /\ timeElapsedInt'[1] = (timeElapsedInt[1] + TimeAdd(timeStep)) % ELAPSED_MOD
      /\ currEventPtr' = currEventPtr
  BY <1>2 DEF TrackWaits, TimeForward, TypeInv, TypeOK
<1>6. CLOCK_MAX \in Nat /\ ELAPSED_MOD \in Nat \ {0}
  BY NumbersAssumption
<1>7. CASE ~SmallSteps
  BY <1>3, <1>7
<1>8. CASE SmallSteps /\ clock + timeStep >= CLOCK_MAX
  <2>1. clock' = CLOCK_MAX
    BY <1>4, <1>5, <1>6, <1>8
  <2> QED BY <1>3, <1>6, <2>1
<1>9. CASE SmallSteps /\ clock + timeStep < CLOCK_MAX
  <2> DEFINE sent == currEventPtr[1][2] - 1
             told == Told[sent]
             add == TimeAdd(timeStep)
             e == timeElapsedInt[1]
  <2>1. clock' = clock + timeStep /\ clock < CLOCK_MAX /\ timeStep <= FRAC
    BY <1>3, <1>4, <1>5, <1>6, <1>9 DEF SmallSteps
  <2>2. PICK n \in 0..sent : clock = FRAC * (told + e) + timeElapsedFrac + FRAC * n
    BY <1>2, <1>4, <1>6, <1>9, <2>1 DEF LateInv, LateBy
  <2>3. add = Carry(timeElapsedFrac, timeStep)
    BY DEF TimeAdd, Carry
  <2>4. clock \in Nat /\ told \in Nat /\ sent \in Nat /\ n \in Nat
        /\ e \in Nat /\ e < ELAPSED_MOD
    BY <1>4, <1>6
  <2> HIDE DEF sent, told, add, e
  <2>5. /\ clock' = FRAC * (told + (e + add)) + timeElapsedFrac' + FRAC * n
        /\ add \in {0, 1} /\ timeElapsedFrac' \in Nat /\ timeElapsedFrac' < FRAC
    <3>1. /\ (FRAC * (told + e) + timeElapsedFrac + FRAC * n) + timeStep
               = FRAC * (told + (e + Carry(timeElapsedFrac, timeStep)))
                   + ((timeElapsedFrac + timeStep) % FRAC) + FRAC * n
          /\ Carry(timeElapsedFrac, timeStep) \in {0, 1}
          /\ (timeElapsedFrac + timeStep) % FRAC \in Nat
          /\ (timeElapsedFrac + timeStep) % FRAC < FRAC
      BY <1>4, <2>1, <2>4, AsLate
    <3> QED BY <1>5, <2>1, <2>2, <2>3, <3>1
  <2>6. e + add < ELAPSED_MOD
    <3>1. clock' < FRAC * ELAPSED_MOD
      <4>1. clock' < CLOCK_MAX /\ clock' \in Nat
        BY <1>4, <1>9, <2>1
      <4> QED BY <1>6, <4>1 DEF FRAC
    <3>2. clock' \in Nat /\ e + add \in Nat /\ ELAPSED_MOD \in Nat
      BY <1>4, <1>6, <2>1, <2>4, <2>5
    <3> QED BY <2>4, <2>5, <3>1, <3>2, BelowBound
  <2>7. timeElapsedInt'[1] = e + add
    <3>1. e + add \in 0..ELAPSED_MOD - 1
      BY <1>6, <2>4, <2>5, <2>6
    <3> QED BY <1>5, <1>6, <3>1, Small DEF add, e
  <2>8. LateBy(clock', told, timeElapsedInt'[1], timeElapsedFrac', sent)
    BY <2>5, <2>7 DEF LateBy
  <2> QED BY <1>3, <1>5, <2>8 DEF sent, told
<1>10. clock + timeStep \in Int /\ CLOCK_MAX \in Int
  BY <1>4, <1>6
<1> QED BY <1>7, <1>8, <1>9, <1>10

\* One that sends may be a tick later: that of the interrupt in which it does.
LEMMA SendLate ==
  ASSUME TypeInv, OrderInv, LateInv, TrackSends
  PROVE  LateInv'
<1>0. song' = song /\ active' = active /\ hooked' = hooked /\ isr # 0 /\ song \in Songs
  BY DEF TrackSends, InTrack, Tracks, TypeInv, TypeOK
<1>1. active /\ (hooked' \/ isr' # 0 => active')
  BY <1>0 DEF LateInv
<1>2. Steps' = Steps /\ Told' = Told
  BY <1>0 DEF Steps, Step, Told
<1> SUFFICES ASSUME IsSingle
             PROVE  /\ timeStep' \in Steps
                    /\ \/ endOfSequence' \/ ~SmallSteps \/ clock' >= CLOCK_MAX
                       \/ LateBy(clock', Told[currEventPtr'[1][2] - 1], timeElapsedInt'[1],
                                 timeElapsedFrac', currEventPtr'[1][2] - 1)
  BY <1>0, <1>1, <1>2 DEF LateInv, IsSingle, SmallSteps
<1> DEFINE p == currEventPtr[1]
           sent == p[2] - 1
<1>3. /\ isr = 1 /\ Tracks = {1} /\ ~endOfSequence /\ ~IsNull(p) /\ IsDue
      /\ p = <<1, p[2]>> /\ p[2] \in Nat
  <2>1. Tracks = {1} /\ isr = 1 /\ p = <<1, p[2]>> /\ p[2] \in Nat
    BY SingleTrack DEF TrackSends
  <2> QED BY <2>1 DEF TrackSends, OrderInv
<1>4. /\ timeElapsedFrac \in Nat /\ timeElapsedFrac < FRAC /\ timeStep \in Nat
      /\ timeElapsedInt[1] \in Nat /\ timeElapsedInt[1] < ELAPSED_MOD
      /\ clock \in Nat /\ clock <= CLOCK_MAX
      /\ sent \in Nat /\ Told[sent] \in Nat
  BY <1>3, LateTypes
<1>10. p[2] \in 1..Len(song.tracks[1]) /\ Len(song.tracks[1]) \in Nat
  <2>1. Len(song.tracks[1]) \in Nat
    BY <1>0, <1>3, SongFacts
  <2> QED BY <1>3, <2>1, LateTypes
<1>5. EventAt(p) = song.tracks[1][p[2]] /\ p[2] \in DOMAIN song.tracks[1]
  <2>1. EventAt(p) = song.tracks[p[1]][p[2]] /\ p[1] = 1
    <3>1. p[1] = 1
      <4> HIDE DEF p
      <4> QED BY <1>3
    <3> QED BY <3>1 DEF EventAt
  <2>2. DOMAIN song.tracks[1] = 1..Len(song.tracks[1])
    <3>1. song.tracks \in Seq(Seq(Event)) /\ 1 \in 1..Len(song.tracks)
      BY <1>0, <1>3, SongsAssumption DEF Playable, Tracks
    <3>2. song.tracks[1] \in Seq(Event)
      BY <3>1
    <3> QED BY <3>2
  <2> QED BY <1>10, <2>1, <2>2
<1>6. timeStep' \in Steps
  <2>1. timeStep \in Steps
    BY <1>1 DEF LateInv
  <2>2. timeStep' = IF EventAt(p).type = "T_META_SET_TEMPO" THEN Step(EventAt(p).tempo)
                    ELSE timeStep
    BY <1>3 DEF TrackSends, Current
  <2> QED BY <1>5, <2>1, <2>2 DEF Steps
<1>7. /\ clock' = IF clock + timeStep' < CLOCK_MAX THEN clock + timeStep' ELSE CLOCK_MAX
      /\ timeElapsedFrac' = (timeElapsedFrac + timeStep') % FRAC
      /\ timeElapsedInt'[1] = 0
      /\ Told[p[2]] = Told[sent] + timeElapsedInt[1]
  <2>1. EventAt(p).delta = timeElapsedInt[1]
    BY <1>3 DEF IsDue, Current
  <2>2. Told[p[2]] = Told[sent] + song.tracks[1][p[2]].delta
    BY <1>0, <1>10, ToldGrows
  <2>3. TimeForward(timeStep', 0)
    BY DEF TrackSends
  <2> QED BY <1>3, <1>5, <2>1, <2>2, <2>3 DEF TimeForward, TypeInv, TypeOK
<1>8. CASE endOfSequence' \/ ~SmallSteps
  BY <1>6, <1>8
<1>9. CASE ~endOfSequence' /\ SmallSteps
  <2>1. currEventPtr'[1] = Following(p)
    BY <1>3, <1>9 DEF TrackSends, TypeInv, Pointers
  <2>2. currEventPtr'[1][2] - 1 = p[2] /\ p[2] = sent + 1
    BY <1>3, <2>1 DEF Following
  <2>3. CLOCK_MAX \in Nat /\ timeStep' \in Nat /\ timeStep' <= FRAC
    <3>1. timeStep' <= FRAC
      BY <1>6, <1>9 DEF SmallSteps
    <3>2. timeStep' \in Nat
      <4>1. EventAt(p).tempo \in Nat \ {0}
        BY <1>0, <1>3, <1>5, <1>10, SongFacts DEF Event
      <4>2. Step(EventAt(p).tempo) \in Nat
        BY <1>0, <4>1, StepType
      <4> QED BY <1>3, <1>4, <4>2 DEF TrackSends, Current
    <3> QED BY <3>1, <3>2, NumbersAssumption
  <2>4. CASE clock + timeStep' >= CLOCK_MAX
    <3>1. ~(clock + timeStep' < CLOCK_MAX)
      <4>1. \A c, s, m \in Nat : c + s >= m => ~(c + s < m)
        OBVIOUS
      <4> QED BY <1>4, <2>3, <2>4, <4>1, Zenon
    <3>2. clock' = CLOCK_MAX
      BY <1>7, <3>1, Zenon
    <3> QED BY <1>6, <2>3, <3>2
  <2>5. CASE clock + timeStep' < CLOCK_MAX
    <3> DEFINE s == timeStep'
               add == Carry(timeElapsedFrac, s)
               told == Told[sent]
               e == timeElapsedInt[1]
    <3>1. clock' = clock + s
      BY <1>7, <2>5
    <3>2. PICK n \in 0..sent : clock = FRAC * (told + e) + timeElapsedFrac + FRAC * n
      <4>1. clock < CLOCK_MAX
        <5>1. clock \in Nat /\ timeStep' \in Nat /\ CLOCK_MAX \in Nat
          BY <1>4, <2>3
        <5> QED BY <2>5, <5>1, SumBelow, Zenon
      <4> QED BY <1>3, <1>4, <1>9, <2>3, <4>1 DEF LateInv, LateBy
    <3>3. /\ clock \in Nat /\ told \in Nat /\ e \in Nat /\ sent \in Nat /\ n \in Nat
          /\ s \in Nat /\ s <= FRAC /\ timeElapsedFrac \in Nat /\ timeElapsedFrac < FRAC
      BY <1>4, <2>3, NumbersAssumption
    <3>4. timeElapsedFrac' = (timeElapsedFrac + s) % FRAC
      BY <1>7
    <3> HIDE DEF add, sent, told, p, s, e
    <3>5. /\ clock' = FRAC * (told + (e + add)) + timeElapsedFrac' + FRAC * n
          /\ add \in {0, 1} /\ timeElapsedFrac' \in Nat /\ timeElapsedFrac' < FRAC
      <4>1. add = Carry(timeElapsedFrac, s)
        BY DEF add
      <4>2. /\ (FRAC * (told + e) + timeElapsedFrac + FRAC * n) + s
                 = FRAC * (told + (e + Carry(timeElapsedFrac, s)))
                     + ((timeElapsedFrac + s) % FRAC) + FRAC * n
            /\ Carry(timeElapsedFrac, s) \in {0, 1}
            /\ (timeElapsedFrac + s) % FRAC \in Nat /\ (timeElapsedFrac + s) % FRAC < FRAC
        BY <3>3, AsLate
      <4> QED BY <3>1, <3>2, <3>4, <4>1, <4>2
    <3>6. n + add \in 0..sent + 1
      BY <3>2, <3>3, <3>5
    <3>7. clock' = FRAC * ((told + e) + 0) + timeElapsedFrac' + FRAC * (n + add)
      BY <3>3, <3>5 DEF FRAC
    <3>8. LateBy(clock', told + e, 0, timeElapsedFrac', sent + 1)
      BY <3>6, <3>7 DEF LateBy
    <3>9. LateBy(clock', Told[currEventPtr'[1][2] - 1], timeElapsedInt'[1], timeElapsedFrac',
                 currEventPtr'[1][2] - 1)
      BY <1>7, <2>2, <3>8 DEF told, e
    <3> QED BY <1>6, <3>9
  <2>6. clock + timeStep' \in Int /\ CLOCK_MAX \in Int
    BY <1>4, <2>3
  <2> QED BY <2>4, <2>5, <2>6
<1> QED BY <1>8, <1>9

\* Of the other steps only those that go back to the top of the song touch it.
LEMMA LateNext ==
  ASSUME CLOCK_MAX <= FRAC * ELAPSED_MOD,
         TypeInv, OrderInv, LateInv, [Next]_vars
  PROVE  LateInv'
<1>0. song' = song /\ song \in Songs
  BY SongStays DEF TypeInv, TypeOK
<1>1. CASE TrackWaits
  BY <1>1, WaitLate
<1>2. CASE TrackSends
  BY <1>2, SendLate
<1>3. CASE /\ UNCHANGED <<clock, tracks>> /\ (endOfSequence => endOfSequence')
           /\ (hooked \/ isr # 0 => active)'
           /\ active' => active
  BY <1>0, <1>3 DEF LateInv, tracks, Told, Steps, Step, SmallSteps, IsSingle
<1>4. CASE \/ stopAmSequence \/ pauseAmSequence \/ playAmSequence
           \/ toggleAmReplayMode \/ muteAmTrack \/ MainStep \/ TickPaused
           \/ deinstallReplayRout \/ UNCHANGED vars
  <2>1. /\ clock' = clock /\ tracks' = tracks /\ active' = active
        /\ (hooked' => hooked) /\ isr' = isr /\ endOfSequence' = endOfSequence
    <3>1. CASE \/ stopAmSequence \/ pauseAmSequence \/ playAmSequence
               \/ toggleAmReplayMode \/ muteAmTrack
      BY <3>1 DEF stopAmSequence, pauseAmSequence, playAmSequence, toggleAmReplayMode,
                  muteAmTrack, Enter, history
    <3>2. CASE MainStep
      <4>1. CASE LoadState
        BY <4>1 DEF LoadState, history
      <4>2. CASE StoreState
        BY <4>2 DEF StoreState, history
      <4>3. CASE StopSendsNotesOff
        BY <4>3 DEF StopSendsNotesOff, history
      <4> QED BY <3>2, <4>1, <4>2, <4>3 DEF MainStep
    <3>3. CASE TickPaused \/ deinstallReplayRout \/ UNCHANGED vars
      BY <3>3 DEF deinstallReplayRout, TickPaused, history, vars
    <3> QED BY <1>4, <3>1, <3>2, <3>3
  <2> QED BY <1>3, <2>1 DEF LateInv
<1>7. CASE TickPlaying
  BY <1>3, <1>7 DEF TickPlaying, TickStarts, LateInv, history
<1>5. CASE TrackIsNull \/ (TickEnds /\ ~endOfSequence)
  <2>1. /\ UNCHANGED <<clock, tracks, active, hooked>> /\ isr # 0
        /\ endOfSequence => endOfSequence'
    <3>1. CASE TrackIsNull
      BY <1>0, <3>1, SongFacts DEF TrackIsNull, InTrack, Tracks, history
    <3>2. CASE TickEnds /\ ~endOfSequence
      BY <1>0, <3>2, SongFacts DEF TickEnds, history
    <3> QED BY <1>5, <3>1, <3>2
  <2> QED BY <1>3, <2>1 DEF LateInv
<1>6. CASE initAmSequence \/ TickStopped \/ (TickEnds /\ endOfSequence)
  <2>1. /\ (hooked \/ isr # 0 => active)'
        /\ IsSingle' = IsSingle
    <3>1. CASE initAmSequence
      BY <1>0, <3>1 DEF initAmSequence, IsSingle
    <3>2. CASE TickStopped
      BY <1>0, <3>2 DEF TickStopped, TickStarts, LateInv, IsSingle
    <3>3. CASE TickEnds
      BY <1>0, <3>3, SongFacts DEF TickEnds, LateInv, IsSingle
    <3> QED BY <1>6, <3>1, <3>2, <3>3
  <2>2. CASE ~IsSingle
    BY <2>1, <2>2 DEF LateInv
  <2>3. CASE IsSingle
    <3>1. Tracks = {1} /\ Len(song.tracks) = 1 /\ currEventPtr[1] = <<1, currEventPtr[1][2]>>
      BY <2>3, SingleTrack
    <3>2. clock' = 0 /\ timeElapsedFrac' = 0 /\ timeStep' = Step(DEFAULT_MPQN)
      BY <1>6 DEF initAmSequence, TickStopped, TickEnds, EndSequence
    <3>3. timeElapsedInt'[1] = 0
      BY <1>6, <3>1 DEF initAmSequence, TickStopped, TickEnds, EndSequence, TypeInv, TypeOK
    <3>4. currEventPtr'[1] = First(1)
      <4>1. CASE initAmSequence
        BY <3>1, <4>1 DEF initAmSequence
      <4>2. CASE TickStopped
        <5>1. ~IsNull(currEventPtr[1])
          BY <2>3, <4>2 DEF TickStopped, TickStarts, InMain, OrderInv
        <5> QED BY <3>1, <4>2, <5>1 DEF TickStopped, TypeInv, Pointers
      <4>3. CASE TickEnds /\ endOfSequence
        BY <3>1, <4>3 DEF TickEnds, EndSequence, TypeInv, Pointers
      <4> QED BY <1>6, <4>1, <4>2, <4>3
    <3> QED BY <1>0, <2>1, <3>2, <3>3, <3>4, TopLate
  <2> QED BY <2>2, <2>3
<1> QED BY <1>1, <1>2, <1>4, <1>5, <1>6, <1>7 DEF Next, Calls, Interrupt

\* Before anything is played nothing is late.
LEMMA LateInit == ASSUME Opening, TypeInv PROVE LateInv
<1>1. song \in Songs /\ 1 \in Tracks
  BY LastTrack DEF TypeInv, TypeOK
<1>2. Told[0] = 0
  BY <1>1, ToldGrows
<1>3. currEventPtr[1][2] - 1 = 0 /\ timeElapsedInt[1] = 0
  BY <1>1 DEF Opening, First
<1>4. LateBy(0, 0, 0, 0, 0)
  BY DEF LateBy, FRAC
<1> QED BY <1>2, <1>3, <1>4 DEF Opening, LateInv

\* Between interrupts the end of the song has been taken.
LEMMA LateInvLate == ASSUME TypeInv, OrderInv, LateInv PROVE LateByEvents
<1> SUFFICES ASSUME IsSingle, SmallSteps, isr = 0, clock < CLOCK_MAX PROVE LateByEvents
  BY DEF LateByEvents, SmallSteps
<1> DEFINE sent == currEventPtr[1][2] - 1
           told == Told[sent]
           e == timeElapsedInt[1]
<1>1. ~endOfSequence /\ ~IsNull(currEventPtr[1])
  BY DEF OrderInv
<1>2. /\ timeElapsedFrac \in Nat /\ e \in Nat /\ clock \in Nat
      /\ sent \in Nat /\ told \in Nat
  BY <1>1, LateTypes
<1>3. PICK n \in 0..sent : clock = FRAC * (told + e) + timeElapsedFrac + FRAC * n
  BY <1>1, <1>2, NumbersAssumption DEF LateInv, LateBy
<1>4. n \in Nat
  BY <1>2
<1> HIDE DEF sent, told, e
<1>5. clock - FRAC * (told + e) - timeElapsedFrac = FRAC * n
  BY <1>2, <1>3, <1>4 DEF FRAC
<1>6. clock - FRAC * (told + e) - timeElapsedFrac \in {FRAC * m : m \in 0..sent}
  BY <1>5
<1> QED BY <1>6 DEF LateByEvents, sent, told, e

\* Time is lost only with the events of a song of one track: a tick an event at most, if
\* its steps are within a tick.  The clock may run for as many ticks as timeElapsedInt
\* counts.
THEOREM LosesWithEventsOnly ==
  ASSUME CLOCK_MAX <= FRAC * ELAPSED_MOD
  PROVE  Spec => []LateByEvents
<1> DEFINE Inv == TypeInv /\ OrderInv /\ LateInv
<1>1. Init => Inv
  BY InitOpens, InitTypes, OrderInit, LateInit
<1>2. Inv /\ [Next]_vars => Inv'
  BY NextTypes, OrderNext, LateNext
<1>3. Inv => LateByEvents
  BY LateInvLate
<1> HIDE DEF Inv
<1> QED BY <1>1, <1>2, <1>3, PTL DEF Spec

-----------------------------------------------------------------------------
(* A song of one track: the promises of the transport.                     *)

\* The handler's passes are over a song that plays, and the end it has noted is that
\* of the list.
TransportInv ==
  IsSingle =>
    /\ isr # 0 => hooked /\ TS_PS_PLAYING \in State /\ TS_PS_PAUSED \notin State
    /\ endOfSequence => currEventPtr[1][2] >= Len(song.tracks[1])

\* What the interrupt's passes leave alone.
LEMMA TransportNext ==
  ASSUME TypeInv, OrderInv, TransportInv, [Next]_vars PROVE TransportInv'
<1> SUFFICES ASSUME IsSingle' PROVE TransportInv'
  BY DEF TransportInv
<1>0. song' = song /\ IsSingle
  BY SongStays DEF IsSingle
<1>1. /\ Len(song.tracks) = 1 /\ Tracks = {1} /\ (InTrack <=> isr = 1)
      /\ (endOfSequence => isr = 2)
  BY <1>0, SingleTrack DEF OrderInv
<1>2. CASE isr' = 0 /\ ~endOfSequence'
  BY <1>2 DEF TransportInv
<1>3. CASE UNCHANGED <<isr, hooked, playState, endOfSequence, currEventPtr>>
  BY <1>0, <1>3 DEF TransportInv, State
<1>4. CASE TickPlaying
  <2>1. /\ hooked' /\ TS_PS_PLAYING \in State' /\ TS_PS_PAUSED \notin State'
        /\ ~endOfSequence'
    BY <1>1, <1>4 DEF TickPlaying, TickStarts, InMain, State
  <2> QED BY <2>1 DEF TransportInv
<1>5. CASE TrackWaits
  <2>1. /\ UNCHANGED <<hooked, playState, endOfSequence>> /\ isr = 1
    BY <1>1, <1>5 DEF TrackWaits
  <2> QED BY <1>0, <1>1, <2>1 DEF TransportInv, State
<1>6. CASE TrackSends
  <2> DEFINE p == currEventPtr[1]
             next == Following(p)
  <2>1. /\ isr = 1 /\ ~IsNull(p) /\ IsDue /\ UNCHANGED <<hooked, playState>>
        /\ endOfSequence' = IsEnd(next)
        /\ currEventPtr'[1] =
             IF IsEnd(next) /\ EventAt(next).delta = 0 THEN Following(next) ELSE next
    BY <1>1, <1>6 DEF TrackSends, TypeInv, Pointers
  <2>2. /\ next = <<p[1], p[2] + 1>> /\ Following(next) = <<p[1], p[2] + 2>>
        /\ p[2] \in Nat /\ (IsEnd(next) <=> p[2] + 1 = Len(song.tracks[p[1]])) /\ p[1] = 1
    BY <1>1, <2>1, NextPointer
  <2>3. currEventPtr'[1][2] = p[2] + 1 \/ currEventPtr'[1][2] = p[2] + 2
    BY <2>1, <2>2
  <2> HIDE DEF p, next
  <2>4. endOfSequence' => currEventPtr'[1][2] >= Len(song.tracks[1])
    BY <2>1, <2>2, <2>3
  <2> QED BY <1>0, <2>1, <2>4 DEF TransportInv, State
<1>7. CASE TickEnds
  BY <1>2, <1>7 DEF TickEnds
<1>8. CASE TrackIsNull
  BY <1>0, <1>1, <1>8 DEF TrackIsNull, OrderInv
<1>9. CASE Calls \/ MainStep \/ TickPaused \/ TickStopped
  <2>1. isr = 0 /\ isr' = 0 /\ endOfSequence' = endOfSequence
    BY <1>9 DEF Calls, initAmSequence, deinstallReplayRout,
       stopAmSequence, pauseAmSequence, playAmSequence, toggleAmReplayMode, muteAmTrack,
       Enter, Idle, InMain, MainStep, LoadState, StoreState, StopSendsNotesOff,
       TickPaused, TickStopped, TickStarts
  <2> QED BY <1>1, <1>2, <2>1
<1>10. CASE UNCHANGED vars
  BY <1>3, <1>10 DEF vars, tracks
<1> QED
  BY <1>4, <1>5, <1>6, <1>7, <1>8, <1>9, <1>10 DEF Next, Interrupt

-----------------------------------------------------------------------------
(* The steps of the transport.                                             *)

\* The mode is one of the transport's while the timer runs the song.
LEMMA ModeOf ==
  ASSUME IsSingle
  PROVE  /\ ~hooked <=> Mode = "off"
         /\ hooked => Mode \in {"stopped", "playing", "paused"}
         /\ Mode = "playing" <=> hooked /\ TS_PS_PAUSED \notin State /\ TS_PS_PLAYING \in State
         /\ Mode = "stopped" <=> hooked /\ State \cap {TS_PS_PLAYING, TS_PS_PAUSED} = {}
  BY DEF Mode

\* What moves neither the pointer nor the bits is no step of the transport.
LEMMA Stutters ==
  ASSUME song' = song, UNCHANGED <<hooked, playState, currEventPtr>>
  PROVE  UNCHANGED Transport!vars
<1>1. Mode' = Mode
  BY DEF Mode, IsSingle, State
<1>2. Position(1)' = Position(1) /\ LastOf(1)' = LastOf(1) /\ (IsSingle' <=> IsSingle)
  BY DEF Position, LastOf, IsSingle
<1> QED BY <1>1, <1>2 DEF Transport!vars

\* Nor is anything that happens to a song of several tracks.
LEMMA MultiStutters ==
  ASSUME song' = song, ~IsSingle PROVE UNCHANGED Transport!vars
<1>1. ~IsSingle' /\ LastOf(1)' = LastOf(1)
  BY DEF IsSingle, LastOf
<1>2. Mode = "off" /\ Mode' = "off"
  BY <1>1 DEF Mode
<1> QED BY <1>1, <1>2 DEF Transport!vars

\* What only changes the bits is a command to a song that the timer runs.
LEMMA CommandMaps ==
  ASSUME IsSingle, song' = song, UNCHANGED <<hooked, currEventPtr>>
  PROVE  [Transport!Next]_Transport!vars
<1>1. IsSingle' /\ Position(1)' = Position(1) /\ LastOf(1)' = LastOf(1)
  BY DEF Position, LastOf, IsSingle
<1>2. CASE hooked
  <2>1. Mode # "off" /\ Mode' \in Transport!Modes
    BY <1>1, <1>2 DEF Transport!Modes, Mode
  <2>2. Transport!Command
    BY <1>1, <2>1 DEF Transport!Command
  <2> QED BY <1>1, <2>2 DEF Transport!Next
<1>3. CASE ~hooked
  <2>1. Mode = "off" /\ Mode' = "off" BY <1>3 DEF Mode
  <2> QED BY <1>1, <2>1 DEF Transport!vars
<1> QED BY <1>2, <1>3

\* A pointer at the first event is the top.
LEMMA TopMaps ==
  ASSUME song \in Songs, song' = song, IsSingle, currEventPtr'[1] = First(1)
  PROVE  /\ LastOf(1) \in Nat /\ IsSingle' /\ Position(1)' = 0
         /\ <<Position(1)'>> = Transport!Top
<1>1. LastOf(1) \in Nat
  <2>1. 1 \in Tracks /\ Len(song.tracks[1]) \in Nat /\ Len(song.tracks[1]) >= 1
    BY LastTrack, SongFacts
  <2> QED BY <2>1 DEF LastOf
<1>2. Position(1)' = 0 /\ IsSingle'
  BY <1>1 DEF Position, LastOf, First, IsSingle
<1>3. <<0>> = [t \in DOMAIN <<LastOf(1)>> |-> 0]
  OBVIOUS
<1> QED BY <1>1, <1>2, <1>3 DEF Transport!Top

\* An event sent moves the song on by one; an end of track handled with it, not
\* further than the last event.
LEMMA SendMaps ==
  ASSUME TypeInv, OrderInv, TransportInv, IsSingle, TrackSends
  PROVE  Transport!Next
<1> DEFINE p == currEventPtr[1]
           next == Following(p)
<1>1. song' = song /\ song \in Songs /\ Tracks = {1} /\ (InTrack <=> isr = 1) /\ IsSingle'
  BY SingleTrack DEF TrackSends, IsSingle
<1>2. /\ isr = 1 /\ ~IsNull(p) /\ IsDue /\ UNCHANGED <<hooked, playState>>
      /\ currEventPtr'[1] =
           IF IsEnd(next) /\ EventAt(next).delta = 0 THEN Following(next) ELSE next
  BY <1>1 DEF TrackSends, TypeInv, Pointers
<1>3. /\ next = <<p[1], p[2] + 1>> /\ Following(next) = <<p[1], p[2] + 2>>
      /\ p[2] \in Nat \ {0} /\ p[1] = 1 /\ p[2] + 1 <= Len(song.tracks[1])
      /\ IsEnd(next) <=> p[2] + 1 = Len(song.tracks[1])
  BY <1>1, <1>2, NextPointer
<1>4. \/ currEventPtr'[1][2] = p[2] + 1
      \/ currEventPtr'[1][2] = p[2] + 2 /\ p[2] + 1 = Len(song.tracks[1])
  BY <1>2, <1>3
<1> HIDE DEF next
<1>5. Len(song.tracks[1]) \in Nat
  BY <1>1, SongFacts
<1>6. Position(1) = p[2] - 1 /\ Position(1)' = p[2]
  <2> DEFINE n == p[2]
             m == currEventPtr'[1][2]
             l == Len(song.tracks[1])
  <2>1. /\ n \in Nat \ {0} /\ l \in Nat /\ n + 1 <= l
        /\ m = n + 1 \/ (m = n + 2 /\ n + 1 = l)
    BY <1>3, <1>4, <1>5
  <2>2. Position(1) = (IF n - 1 <= l - 1 THEN n - 1 ELSE l - 1)
    BY DEF Position, LastOf
  <2>3. Position(1)' = (IF m - 1 <= l - 1 THEN m - 1 ELSE l - 1)
    BY <1>1 DEF Position, LastOf
  <2> HIDE DEF n, m, l
  <2>4. Position(1) = n - 1 /\ Position(1)' = n
    BY <2>1, <2>2, <2>3
  <2> QED BY <2>4 DEF n
<1>7. LastOf(1)' = LastOf(1) /\ LastOf(1) = Len(song.tracks[1]) - 1
  BY <1>1 DEF LastOf
<1>8. Mode = "playing" /\ Mode' = Mode
  <2>1. Mode = "playing"
    BY <1>2, ModeOf DEF TransportInv
  <2>2. Mode' = Mode
    BY <1>1, <1>2 DEF Mode, State, IsSingle
  <2> QED BY <2>1, <2>2
<1> DEFINE from == Position(1)
           to == Position(1)'
           last == LastOf(1)
<1>9. to \in from + 1..last
  <2>1. from = p[2] - 1 /\ to = p[2] /\ last = Len(song.tracks[1]) - 1
    BY <1>6, <1>7
  <2> HIDE DEF from, to, last, p
  <2> QED BY <1>3, <1>5, <2>1
<1>10. <<to>> = [<<from>> EXCEPT ![1] = to]
  <2> HIDE DEF from, to
  <2> QED OBVIOUS
<1>11. 1 \in DOMAIN <<last>> /\ <<from>>[1] = from /\ <<last>>[1] = last
  OBVIOUS
<1>12. Transport!Advance
  BY <1>1, <1>8, <1>9, <1>10, <1>11 DEF Transport!Advance
<1> QED BY <1>1, <1>7, <1>12 DEF Transport!Next

\* The end of the song is behind its last event, and puts it to its top.
LEMMA EndMaps ==
  ASSUME TypeInv, OrderInv, TransportInv, IsSingle, TickEnds, endOfSequence
  PROVE  Transport!Next
<1>1. song' = song /\ song \in Songs /\ Tracks = {1} /\ Len(song.tracks) = 1 /\ IsSingle'
      /\ isr # 0 /\ EndSequence /\ hooked' = hooked
  BY SingleTrack DEF TickEnds, IsSingle
<1>2. hooked /\ TS_PS_PLAYING \in State /\ TS_PS_PAUSED \notin State
      /\ currEventPtr[1][2] >= Len(song.tracks[1])
  BY <1>1 DEF TransportInv
<1>3. Mode = "playing"
  BY <1>2, ModeOf
<1>4. Mode' \in {"stopped", "playing"}
  <2>1. TS_PS_PAUSED \notin State'
    <3>1. State' = IF TM_PLAY_ONCE \in State THEN State \ {TS_PS_PLAYING, TS_PS_PAUSED}
                   ELSE (State \ {TS_PS_PAUSED}) \cup {TS_PS_PLAYING}
      BY <1>1 DEF EndSequence, State, TypeInv, TypeOK
    <3> QED BY <3>1 DEF TS_PS_PLAYING, TS_PS_PAUSED
  <2> QED BY <1>1, <1>2, <2>1 DEF Mode
<1>5. currEventPtr'[1] = First(1)
  BY <1>1 DEF EndSequence, TypeInv, Pointers
<1>6. /\ LastOf(1) \in Nat /\ LastOf(1)' = LastOf(1)
      /\ <<Position(1)'>> = Transport!Top
  BY <1>1, <1>5, TopMaps DEF LastOf
<1>7. Position(1) = LastOf(1)
  <2>1. Len(song.tracks[1]) \in Nat /\ currEventPtr[1][2] \in Nat
    BY <1>1, SongFacts, SingleTrack
  <2> QED BY <1>2, <2>1 DEF Position, LastOf
<1>8. Transport!Finish
  BY <1>1, <1>3, <1>4, <1>6, <1>7 DEF Transport!Finish
<1> QED BY <1>6, <1>8 DEF Transport!Next

\* Every step of the player is one of the transport or none.
LEMMA StepMaps ==
  ASSUME TypeInv, OrderInv, TransportInv, [Next]_vars
  PROVE  [Transport!Next]_Transport!vars
<1>0. song' = song /\ song \in Songs
  BY SongStays DEF TypeInv, TypeOK
<1>1. CASE ~IsSingle
  BY <1>0, <1>1, MultiStutters
<1> SUFFICES ASSUME IsSingle PROVE [Transport!Next]_Transport!vars
  BY <1>1
<1>2. Tracks = {1} /\ IsSingle' /\ LastOf(1)' = LastOf(1)
  BY <1>0, SingleTrack DEF IsSingle, LastOf
<1>3. CASE initAmSequence
  <2>1. currEventPtr'[1] = First(1) /\ ~hooked /\ hooked'
    BY <1>2, <1>3 DEF initAmSequence
  <2>2. Mode = "off" /\ Mode' \in Transport!Modes /\ <<Position(1)'>> = Transport!Top
    BY <1>0, <1>2, <2>1, TopMaps DEF Mode, Transport!Modes
  <2>3. Transport!Load
    BY <1>2, <2>2 DEF Transport!Load
  <2> QED BY <1>2, <2>3 DEF Transport!Next
<1>4. CASE deinstallReplayRout
  <2>1. hooked /\ ~hooked' /\ UNCHANGED currEventPtr
    BY <1>4 DEF deinstallReplayRout, tracks
  <2>2. Mode # "off" /\ Mode' = "off" /\ Position(1)' = Position(1)
    BY <1>0, <2>1, ModeOf DEF Mode, Position, LastOf
  <2>3. Transport!Unload
    BY <1>2, <2>2 DEF Transport!Unload
  <2> QED BY <1>2, <2>3 DEF Transport!Next
<1>5. CASE StoreState
  <2>1. UNCHANGED <<hooked, currEventPtr>>
    BY <1>5 DEF StoreState, tracks
  <2> QED BY <1>0, <2>1, CommandMaps
<1>6. CASE TickStopped
  <2>1. currEventPtr'[1] = First(1)
    <3>1. ~IsNull(currEventPtr[1])
      BY <1>6 DEF TickStopped, TickStarts, InMain, OrderInv
    <3>2. currEventPtr[1][1] = 1
      BY <1>2 DEF TypeInv, TypeOK
    <3> QED BY <1>2, <1>6, <3>1, <3>2 DEF TickStopped, TypeInv, Pointers
  <2>2. Mode = "stopped" /\ Mode' = Mode
    <3>1. Mode = "stopped"
      BY <1>6, ModeOf DEF TickStopped, TickStarts
    <3>2. UNCHANGED <<hooked, playState>>
      BY <1>6 DEF TickStopped
    <3> QED BY <1>0, <3>1, <3>2 DEF Mode, State, IsSingle
  <2>3. Transport!Rewind
    BY <1>0, <1>2, <2>1, <2>2, TopMaps DEF Transport!Rewind
  <2> QED BY <1>2, <2>3 DEF Transport!Next
<1>7. CASE TrackSends
  BY <1>7, SendMaps
<1>8. CASE TickEnds /\ endOfSequence
  BY <1>8, EndMaps
<1>9. CASE \/ stopAmSequence \/ pauseAmSequence \/ playAmSequence \/ toggleAmReplayMode
           \/ muteAmTrack \/ LoadState \/ StopSendsNotesOff \/ TickPaused \/ TickPlaying
           \/ TrackIsNull \/ TrackWaits \/ (TickEnds /\ ~endOfSequence) \/ UNCHANGED vars
  <2>1. UNCHANGED <<hooked, playState, currEventPtr>>
    BY <1>9 DEF stopAmSequence, pauseAmSequence, playAmSequence, toggleAmReplayMode,
       muteAmTrack, Enter, LoadState, StopSendsNotesOff, TickPaused, TickPlaying,
       TrackIsNull, TrackWaits, TickEnds, tracks, vars
  <2> QED BY <1>0, <2>1, Stutters
<1> QED
  BY <1>3, <1>4, <1>5, <1>6, <1>7, <1>8, <1>9 DEF Next, Calls, MainStep, Interrupt

\* The initial state is one of the transport.
LEMMA InitMaps == ASSUME Init, TypeInv PROVE Transport!Init /\ TransportInv
<1>1. song \in Songs /\ 1 \in Tracks /\ Len(song.tracks[1]) \in Nat /\ Len(song.tracks[1]) >= 1
  BY LastTrack, SongFacts DEF TypeInv, TypeOK
<1>2. LastOf(1) \in Nat
  BY <1>1 DEF LastOf
<1>3. currEventPtr[1][2] = 1
  BY <1>1 DEF Init, First
<1>4. Position(1) = 0
  BY <1>2, <1>3 DEF Position
<1>5. Mode = "off"
  BY DEF Init, Mode
<1>6. <<LastOf(1)>> \in Seq(Nat) /\ <<0>> = [t \in DOMAIN <<LastOf(1)>> |-> 0]
  BY <1>2
<1>7. Transport!Init
  BY <1>4, <1>5, <1>6 DEF Transport!Init, Transport!Top
<1>8. TransportInv
  BY DEF Init, TransportInv
<1> QED BY <1>7, <1>8

\* A song of one track does what the transport promises, whatever the calls and the
\* interrupts they come between: it moves on only while it plays, and goes back to
\* its top from its end or when stopped.
THEOREM Implements == Spec => ImplementsTransport
<1> DEFINE Inv == TypeInv /\ OrderInv /\ TransportInv
<1>1. Init => Inv /\ Transport!Init
  BY InitOpens, InitTypes, OrderInit, InitMaps
<1>2. Inv /\ [Next]_vars => Inv'
  BY NextTypes, OrderNext, TransportNext
<1>3. Inv /\ [Next]_vars => [Transport!Next]_Transport!vars
  BY StepMaps
<1> HIDE DEF Inv
<1> QED BY <1>1, <1>2, <1>3, PTL DEF Spec, ImplementsTransport, Transport!Spec
=============================================================================
