------------------------------- MODULE AmReplay -------------------------------
(***************************************************************************)
(* The player of parsed MIDI files: updateStepSingle and updateStepMulti,  *)
(* run by the timer interrupt, and the transport calls of the main         *)
(* program.  A track is a list of events; the calls write the playState of *)
(* the active track, the first, by a load and a store each.                *)
(*                                                                         *)
(* As in NktReplay the handler is one action per track under isr, and the  *)
(* main program waits while isr # 0.                                       *)
(***************************************************************************)
EXTENDS TimeStep, RunningSums

CONSTANTS
  Songs,         \* what may be loaded
  InitialStates, \* values of initialTrackState in the configuration
  ELAPSED_MOD,   \* timeElapsedInt wraps here, 2^32 in the code
  CLOCK_MAX      \* bound of the history variable clock

TM_PLAY_ONCE  == "TM_PLAY_ONCE"
TM_MUTE       == "TM_MUTE"
TS_PS_PLAYING == "TS_PS_PLAYING"
TS_PS_PAUSED  == "TS_PS_PAUSED"
Bits == {TM_PLAY_ONCE, TM_MUTE, TS_PS_PLAYING, TS_PS_PAUSED}

\* Events: MIDI data, markers and the like, tempo, end of track.  tempo is that of a
\* tempo event (1 in the others), in microseconds; the code divides by it.
Event == [type : {"data", "other", "T_META_SET_TEMPO", "T_META_EOT"}, delta : Nat,
          tempo : Nat \ {0}]

\* The parser ends a list with its one end of track; behind the first track there
\* may be tracks that the file did not have.
Playable(s) ==
  /\ s.seqType \in {"ST_SINGLE", "ST_MULTI"} /\ s.tracks \in Seq(Seq(Event))
  /\ s.timeDivision \in Nat
  /\ s.tracks # << >> /\ (s.seqType = "ST_SINGLE" => Len(s.tracks) = 1)
  /\ s.tracks[1] # << >>
  /\ \A t \in 1..Len(s.tracks) : \A n \in 1..Len(s.tracks[t]) :
       n = Len(s.tracks[t]) <=> s.tracks[t][n].type = "T_META_EOT"

ASSUME SongsAssumption == \A s \in Songs : Playable(s)
ASSUME NumbersAssumption ==
  ELAPSED_MOD \in Nat \ {0} /\ CLOCK_MAX \in Nat
ASSUME InitialAssumption == InitialStates \subseteq SUBSET (Bits \ {TM_MUTE})

VARIABLES
  song,            \* the sequence: its type and the event lists of its tracks
  active, hooked,  \* g_CurrentSequence # 0, the timer runs the update step
  playState,       \* set of Bits of each track
  currEventPtr,    \* <<list, number>> of each track; behind the last is NULL
  timeElapsedInt,
  timeElapsedFrac, timeStep,  \* these two belong to the whole sequence
  endOfSequence, bStopped,
  isr,             \* 0 outside the interrupt, else the track it is at
  hung,            \* the handler followed a NULL pointer
  call, todo, loaded, word,   \* transport call, its writes, the word it loaded
  sounding,        \* notes may sound on the device
  played,          \* history: events sent since the song last went to its top
  clock            \* history: fractions elapsed on the first track since then

tracks  == <<currEventPtr, timeElapsedInt, timeElapsedFrac, timeStep>>
client  == <<call, todo, loaded, word>>
history == <<played, clock>>
vars == <<song, active, hooked, playState, tracks, endOfSequence, bStopped, isr, hung,
          client, sounding, history>>

Step(mpqn) == StepAt(mpqn, song.timeDivision)
Tracks   == 1..Len(song.tracks)
First(t) == <<t, 1>>
IsNull(p)  == p[2] > Len(song.tracks[p[1]])
EventAt(p) == song.tracks[p[1]][p[2]]
Following(p) == <<p[1], p[2] + 1>>
IsEnd(p) == EventAt(p).type = "T_META_EOT"

Init ==
  /\ song \in Songs /\ active = FALSE /\ hooked = FALSE
  /\ playState = [t \in Tracks |-> {}]
  /\ currEventPtr = [t \in Tracks |-> First(t)]
  /\ timeElapsedInt = [t \in Tracks |-> 0]
  /\ timeElapsedFrac = 0 /\ timeStep = 0
  /\ endOfSequence = FALSE /\ bStopped = FALSE /\ isr = 0 /\ hung = FALSE
  /\ call = "none" /\ todo = << >> /\ loaded = FALSE /\ word = {}
  /\ sounding = FALSE /\ played = << >> /\ clock = 0

-----------------------------------------------------------------------------
(* The main program.                                                       *)

InMain == isr = 0 /\ ~hung
Idle   == InMain /\ call = "none"

initAmSequence ==
  /\ Idle /\ ~hooked
  /\ active' = TRUE /\ hooked' = TRUE
  /\ \E s \in InitialStates : playState' = [t \in Tracks |-> s]
  /\ currEventPtr' = [t \in Tracks |-> First(t)]
  /\ timeElapsedInt' = [t \in Tracks |-> 0]
  /\ timeElapsedFrac' = 0 /\ timeStep' = Step(DEFAULT_MPQN)
  /\ played' = << >> /\ clock' = 0
  /\ UNCHANGED <<song, endOfSequence, bStopped, isr, hung, client, sounding>>

deinstallReplayRout ==
  /\ Idle /\ hooked
  /\ hooked' = FALSE
  /\ UNCHANGED <<song, active, playState, tracks, endOfSequence, bStopped, isr, hung,
                 client, sounding, history>>

Enter(name, writes) ==
  /\ Idle /\ active
  /\ call' = name /\ todo' = writes
  /\ UNCHANGED <<song, active, hooked, playState, tracks, endOfSequence, bStopped, isr,
                 hung, loaded, word, sounding, history>>

State == playState[1]
Clear(bits) == [track |-> 1, off |-> bits, on |-> {}]
Put(bit)    == [track |-> 1, off |-> {}, on |-> {bit}]

stopAmSequence ==
  Enter("stop", IF State \cap {TS_PS_PLAYING, TS_PS_PAUSED} = {}
                THEN << >> ELSE <<Clear({TS_PS_PLAYING, TS_PS_PAUSED})>>)

pauseAmSequence ==
  \/ /\ TS_PS_PLAYING \in State /\ TS_PS_PAUSED \notin State
     /\ Enter("pause", <<Clear({TS_PS_PLAYING}), Put(TS_PS_PAUSED)>>)
  \/ /\ TS_PS_PLAYING \notin State /\ TS_PS_PAUSED \in State
     /\ Enter("pause", <<Clear({TS_PS_PAUSED}), Put(TS_PS_PLAYING)>>)

playAmSequence ==
  /\ TS_PS_PLAYING \notin State
  /\ Enter("play", <<Clear({TS_PS_PAUSED}), Put(TS_PS_PLAYING)>>)

toggleAmReplayMode ==
  Enter("toggle", IF TM_PLAY_ONCE \in State THEN <<Clear({TM_PLAY_ONCE})>>
                                            ELSE <<Put(TM_PLAY_ONCE)>>)

\* The bit is set in the track, and read by nobody.
muteAmTrack ==
  \E t \in Tracks, b \in {{}, {TM_MUTE}} :
     Enter("mute", <<[track |-> t, off |-> {TM_MUTE} \ b, on |-> b]>>)

LoadState ==
  /\ InMain /\ todo # << >> /\ ~loaded
  /\ loaded' = TRUE /\ word' = playState[Head(todo).track]
  /\ UNCHANGED <<song, active, hooked, playState, tracks, endOfSequence, bStopped, isr,
                 hung, call, todo, sounding, history>>

StoreState ==
  /\ InMain /\ todo # << >> /\ loaded
  /\ playState' = [playState EXCEPT ![Head(todo).track] =
                     (word \ Head(todo).off) \cup Head(todo).on]
  /\ todo' = Tail(todo) /\ loaded' = FALSE /\ word' = {}
  /\ call' = IF Len(todo) = 1 /\ call # "stop" THEN "none" ELSE call
  /\ UNCHANGED <<song, active, hooked, tracks, endOfSequence, bStopped, isr, hung,
                 sounding, history>>

\* All notes off at the end of stopAmSequence goes through the send buffer, which
\* an interrupt in between may take away.
StopSendsNotesOff ==
  /\ InMain /\ call = "stop" /\ todo = << >>
  /\ call' = "none" /\ sounding' \in {FALSE, sounding}
  /\ UNCHANGED <<song, active, hooked, playState, tracks, endOfSequence, bStopped, isr,
                 hung, todo, loaded, word, history>>

Calls == \/ initAmSequence \/ deinstallReplayRout \/ stopAmSequence \/ pauseAmSequence
         \/ playAmSequence \/ toggleAmReplayMode \/ muteAmTrack
MainStep == LoadState \/ StoreState \/ StopSendsNotesOff

-----------------------------------------------------------------------------
(* The interrupt.                                                          *)

TickStarts == InMain /\ hooked

\* Mutant: no notes off.
TickPausedKeepsNotes ==
  /\ TickStarts /\ TS_PS_PAUSED \in State
  /\ bStopped' = FALSE
  /\ UNCHANGED <<song, active, hooked, playState, tracks, endOfSequence, isr, hung,
                 client, sounding, history>>

\* All notes off, in every interrupt as long as the pause lasts.
TickPaused ==
  /\ TickStarts /\ TS_PS_PAUSED \in State
  /\ bStopped' = FALSE /\ sounding' = FALSE
  /\ UNCHANGED <<song, active, hooked, playState, tracks, endOfSequence, isr, hung,
                 client, history>>

\* Mutant: the test for a pause is missing.
TickStoppedWhenPaused ==
  /\ TickStarts /\ TS_PS_PLAYING \notin State
  /\ bStopped' = TRUE
  /\ timeElapsedInt' = [timeElapsedInt EXCEPT ![1] = 0]
  /\ timeElapsedFrac' = 0 /\ timeStep' = Step(DEFAULT_MPQN)
  /\ currEventPtr' = [currEventPtr EXCEPT ![1] = First(@[1])]
  /\ played' = << >> /\ clock' = 0
  /\ UNCHANGED <<song, active, hooked, playState, endOfSequence, isr, hung, client,
                 sounding>>

\* The first track goes back to the first event of the list it is in, along
\* pPrev, and the tempo to its default.  The other tracks stay where they are.
TickStopped ==
  /\ TickStarts /\ State \cap {TS_PS_PLAYING, TS_PS_PAUSED} = {}
  /\ bStopped' = TRUE
  /\ timeElapsedInt' = [timeElapsedInt EXCEPT ![1] = 0]
  /\ timeElapsedFrac' = 0 /\ timeStep' = Step(DEFAULT_MPQN)
  /\ IF IsNull(currEventPtr[1])
     THEN hung' = TRUE /\ UNCHANGED currEventPtr
     ELSE /\ currEventPtr' = [currEventPtr EXCEPT ![1] = First(@[1])]
          /\ UNCHANGED hung
  /\ played' = << >> /\ clock' = 0
  /\ UNCHANGED <<song, active, hooked, playState, endOfSequence, isr, client, sounding>>

TickPlaying ==
  /\ TickStarts /\ TS_PS_PLAYING \in State /\ TS_PS_PAUSED \notin State
  /\ bStopped' = FALSE /\ isr' = 1
  /\ UNCHANGED <<song, active, hooked, playState, tracks, endOfSequence, hung, client,
                 sounding, history>>

InTrack == isr \in Tracks
Current == EventAt(currEventPtr[isr])
\* Mutant: an event is due a tick late.
IsDueLate == ~IsEnd(currEventPtr[isr]) /\ Current.delta + 1 = timeElapsedInt[isr]

IsDue == ~IsEnd(currEventPtr[isr]) /\ Current.delta = timeElapsedInt[isr]

\* What is added to the track's time; never more than one tick.
TimeAdd(step) == IF timeElapsedFrac + step >= FRAC THEN 1 ELSE 0

\* Mutants: the fraction is not masked, or dropped with each tick.
TimeForwardUnmasked(step, elapsed) ==
  /\ timeElapsedFrac' = timeElapsedFrac + step
  /\ timeElapsedInt' = [timeElapsedInt EXCEPT ![isr] = elapsed]
  /\ UNCHANGED clock

TimeForwardDropsFraction(step, elapsed) ==
  /\ timeElapsedFrac' = IF TimeAdd(step) = 1 THEN 0 ELSE timeElapsedFrac + step
  /\ timeElapsedInt' = [timeElapsedInt EXCEPT ![isr] = elapsed]
  /\ clock' = IF isr # 1 THEN clock
              ELSE IF clock + step < CLOCK_MAX THEN clock + step ELSE CLOCK_MAX

\* The tracks share one fraction, and each of them adds the step to it.
TimeForward(step, elapsed) ==
  /\ timeElapsedFrac' = (timeElapsedFrac + step) % FRAC
  /\ timeElapsedInt' = [timeElapsedInt EXCEPT ![isr] = elapsed]
  /\ clock' = IF isr # 1 THEN clock
              ELSE IF clock + step < CLOCK_MAX THEN clock + step ELSE CLOCK_MAX

\* A track whose list has run out.
TrackIsNull ==
  /\ InTrack /\ IsNull(currEventPtr[isr])
  /\ isr' = isr + 1
  /\ UNCHANGED <<song, active, hooked, playState, tracks, endOfSequence, bStopped, hung,
                 client, sounding, history>>

\* Nothing is due, or the end of the track has been reached before.
TrackWaits ==
  /\ InTrack /\ ~IsNull(currEventPtr[isr]) /\ ~IsDue
  /\ TimeForward(timeStep, (timeElapsedInt[isr] + TimeAdd(timeStep)) % ELAPSED_MOD)
  /\ isr' = isr + 1
  /\ UNCHANGED <<song, active, hooked, playState, currEventPtr, timeStep, endOfSequence,
                 bStopped, hung, client, sounding, played>>

\* One event is sent and the time of the track starts again.  An end of track
\* behind it is handled with it if its delta is 0; either way it ends the song,
\* unless a later track sends something in the same interrupt.
TrackSends ==
  /\ InTrack /\ ~IsNull(currEventPtr[isr]) /\ IsDue
  /\ LET next == Following(currEventPtr[isr])
     IN  /\ endOfSequence' = IsEnd(next)
         /\ currEventPtr' = [currEventPtr EXCEPT ![isr] =
              IF IsEnd(next) /\ EventAt(next).delta = 0 THEN Following(next) ELSE next]
  /\ timeStep' = IF Current.type = "T_META_SET_TEMPO" THEN Step(Current.tempo) ELSE timeStep
  /\ sounding' = (sounding \/ Current.type = "data")
  /\ TimeForward(timeStep', 0)
  /\ played' = Append(played, currEventPtr[isr])
  /\ isr' = isr + 1
  /\ UNCHANGED <<song, active, hooked, playState, bStopped, hung, client>>

\* Mutant: the tempo of the old pass stays.
EndSequenceKeepsTempo ==
  /\ playState' = [playState EXCEPT ![1] =
       IF TM_PLAY_ONCE \in @ THEN @ \ {TS_PS_PLAYING, TS_PS_PAUSED}
                             ELSE (@ \ {TS_PS_PAUSED}) \cup {TS_PS_PLAYING}]
  /\ currEventPtr' = [currEventPtr EXCEPT ![1] = First(Len(song.tracks))]
  /\ timeElapsedInt' = [t \in Tracks |-> 0]
  /\ timeElapsedFrac' = 0 /\ UNCHANGED timeStep
  /\ sounding' = FALSE /\ played' = << >> /\ clock' = 0

\* Mutant: the pointer is not set back.
EndSequenceStays ==
  /\ playState' = [playState EXCEPT ![1] = @ \ {TS_PS_PLAYING, TS_PS_PAUSED}]
  /\ timeElapsedInt' = [t \in Tracks |-> 0]
  /\ timeElapsedFrac' = 0 /\ timeStep' = Step(DEFAULT_MPQN) /\ UNCHANGED currEventPtr
  /\ sounding' = FALSE /\ played' = << >> /\ clock' = 0

\* Mutant: the song goes on in a loop if it is to play once.
EndSequenceLoops ==
  /\ playState' = [playState EXCEPT ![1] = (@ \ {TS_PS_PAUSED}) \cup {TS_PS_PLAYING}]
  /\ currEventPtr' = [currEventPtr EXCEPT ![1] = First(Len(song.tracks))]
  /\ timeElapsedInt' = [t \in Tracks |-> 0]
  /\ timeElapsedFrac' = 0 /\ timeStep' = Step(DEFAULT_MPQN)
  /\ sounding' = FALSE /\ played' = << >> /\ clock' = 0

\* onEndSequence.  Its loop over the tracks sets the pointer of the active track
\* to one list after the other; the last one stays.
EndSequence ==
  /\ playState' = [playState EXCEPT ![1] =
       IF TM_PLAY_ONCE \in @ THEN @ \ {TS_PS_PLAYING, TS_PS_PAUSED}
                             ELSE (@ \ {TS_PS_PAUSED}) \cup {TS_PS_PLAYING}]
  /\ currEventPtr' = [currEventPtr EXCEPT ![1] = First(Len(song.tracks))]
  /\ timeElapsedInt' = [t \in Tracks |-> 0]
  /\ timeElapsedFrac' = 0 /\ timeStep' = Step(DEFAULT_MPQN)
  /\ sounding' = FALSE /\ played' = << >> /\ clock' = 0

TickEnds ==
  /\ isr = Len(song.tracks) + 1
  /\ IF endOfSequence THEN EndSequence
                      ELSE UNCHANGED <<playState, tracks, sounding, history>>
  /\ endOfSequence' = FALSE /\ isr' = 0
  /\ UNCHANGED <<song, active, hooked, bStopped, hung, client>>

Interrupt == \/ TickPaused \/ TickStopped \/ TickPlaying
             \/ TrackIsNull \/ TrackWaits \/ TrackSends \/ TickEnds

Next == Calls \/ MainStep \/ Interrupt
Spec == Init /\ [][Next]_vars

\* The timer keeps firing; and while no interrupt comes a call does not stand still.
FairSpec == Spec /\ WF_vars(Interrupt) /\ WF_vars(MainStep)

-----------------------------------------------------------------------------
\* The types of the variables.  A pointer leaves its list by one event at most.
TypeOK ==
  /\ song \in Songs /\ {active, hooked, endOfSequence, bStopped, hung} \subseteq BOOLEAN
  /\ playState \in [Tracks -> SUBSET Bits]
  /\ DOMAIN currEventPtr = Tracks
  /\ \A t \in Tracks : /\ currEventPtr[t][1] \in Tracks
                       /\ currEventPtr[t][2] \in 1..Len(song.tracks[currEventPtr[t][1]]) + 1
  /\ timeElapsedInt \in [Tracks -> 0..ELAPSED_MOD - 1]
  /\ timeElapsedFrac \in 0..FRAC - 1 /\ timeStep \in Nat
  /\ isr \in 0..Len(song.tracks) + 1
  /\ word \in SUBSET Bits /\ {loaded, sounding} \subseteq BOOLEAN /\ clock \in 0..CLOCK_MAX

IsSingle == song.seqType = "ST_SINGLE"

\* The steps a song takes, with the tempo it starts with and those of its first track.
Steps == {Step(DEFAULT_MPQN)} \cup
         {Step(song.tracks[1][n].tempo) : n \in
            {m \in DOMAIN song.tracks[1] : song.tracks[1][m].type = "T_META_SET_TEMPO"}}

\* A song of one track is sent in order, every event once, whatever calls come in
\* between; and between interrupts its pointer is never NULL, as updateStepSingle,
\* which does not look, requires.
PlayedInOrder ==
  IsSingle /\ isr = 0 =>
    /\ ~IsNull(currEventPtr[1])
    /\ played = [n \in 1..currEventPtr[1][2] - 1 |-> <<1, n>>]

\* The handler never follows a NULL pointer in a song of one track, and never
\* looks for an event whose time has gone by in any song.
NeverOverdue ==
  /\ IsSingle => ~hung
  /\ \A t \in Tracks :
       IsNull(currEventPtr[t]) \/ IsEnd(currEventPtr[t])
         \/ timeElapsedInt[t] <= EventAt(currEventPtr[t]).delta

\* The time the first track's events ask for, up to each of them.
Told == RunningSum([n \in 1..Len(song.tracks[1]) |-> song.tracks[1][n].delta])

\* Time is lost only with the events: of the time that has passed, what is not in
\* their deltas, the track's time and the fraction is at most a tick an event.  In a
\* song that is to take more than a tick in an interrupt all the rest is lost, too.
LateByEvents ==
  IsSingle /\ (\A step \in Steps : step <= FRAC) /\ isr = 0 /\ clock < CLOCK_MAX =>
    LET sent == currEventPtr[1][2] - 1
        late == clock - FRAC * (Told[sent] + timeElapsedInt[1]) - timeElapsedFrac
    IN  late \in {FRAC * n : n \in 0..sent}

\* The step in force is that of the last tempo event sent since the song was at
\* its top, on whatever track, or the default.
StepInForce ==
  LET tempos == {i \in 1..Len(played) : EventAt(played[i]).type = "T_META_SET_TEMPO"}
  IN  active => timeStep = Step(IF tempos = {} THEN DEFAULT_MPQN
                                ELSE EventAt(played[CHOOSE i \in tempos :
                                                      \A j \in tempos : j <= i]).tempo)

\* A song of one track that plays once and is left alone ends and stops, if its time
\* moves at all: with a time division in frames it does not.
PlayOnceStops ==
  IsSingle /\ 0 \notin Steps /\ hooked /\ State = {TM_PLAY_ONCE, TS_PS_PLAYING} ~>
    ~hooked \/ State # {TM_PLAY_ONCE, TS_PS_PLAYING}

\* A paused song falls silent, unless it is resumed first.
PauseFallsSilent ==
  hooked /\ TS_PS_PAUSED \in State ~> ~sounding \/ ~hooked \/ TS_PS_PAUSED \notin State

\* When a song is at its end or stopped all its tracks are back at their first
\* events ("reset song position on all tracks").
AllTracksRewound ==
  bStopped /\ isr = 0 /\ ~hung => currEventPtr = [t \in Tracks |-> First(t)]

Mode == CASE ~hooked \/ ~IsSingle                        -> "off"
          [] hooked /\ IsSingle /\ TS_PS_PAUSED \in State -> "paused"
          [] hooked /\ IsSingle /\ TS_PS_PAUSED \notin State
                    /\ TS_PS_PLAYING \in State           -> "playing"
          [] OTHER                                       -> "stopped"
LastOf(t)   == Len(song.tracks[t]) - 1
Position(t) == IF currEventPtr[t][2] - 1 <= LastOf(t) THEN currEventPtr[t][2] - 1
                                                      ELSE LastOf(t)

\* sounding is left out: silence after a stop hangs on the send buffer.
Transport == INSTANCE NktTransport
               WITH lengths  <- <<LastOf(1)>>,
                    mode     <- Mode,
                    pos      <- <<IF IsSingle THEN Position(1) ELSE 0>>,
                    sounding <- FALSE

\* A song of one track does what the transport promises: it moves on only while
\* it plays, and goes back to its top from its end or when stopped.
ImplementsTransport == Transport!Spec
=============================================================================
