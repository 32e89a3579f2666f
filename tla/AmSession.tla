------------------------------ MODULE AmSession ------------------------------
(***************************************************************************)
(* midiplay: a file is loaded, its buffer freed, and the event lists are   *)
(* handed to the replay.  The initial states of the two components meet    *)
(* here, and the player only ever runs on what the loader made.            *)
(***************************************************************************)
EXTENDS AmReplay, AmLoader

ReplayEvent(e) ==
  [type  |-> CASE e.type \in {"T_META_SET_TEMPO", "T_META_EOT"} -> e.type
               [] e.type \in {"T_META_CUEPOINT", "T_META_MARKER", "T_META_SET_SIGNATURE"} ->
                    "other"
               [] OTHER -> "data",
   delta |-> e.delta,
   tempo |-> IF e.type = "T_META_SET_TEMPO" THEN TempoVal(e.data) ELSE 1]

SongOf(f, lists) ==
  [seqType |-> IF f.type = "T_MIDI1" THEN "ST_MULTI" ELSE "ST_SINGLE",
   timeDivision |-> amDecodeTimeDivisionInfo(f.division),
   tracks  |-> [t \in DOMAIN lists |-> [n \in DOMAIN lists[t] |-> ReplayEvent(lists[t][n])]]]

LoadedSong == SongOf(file, arTracks)

NoFile == [type |-> "T_UNSUPPORTED", nTracks |-> 1, bytes |-> << >>, score |-> << >>,
           channels |-> 0, directory |-> FALSE, form |-> 0, chunks |-> << >>,
           deltas |-> {}, tracks |-> << >>, division |-> 0]

SessionInit == Init /\ LoaderInit /\ song = CHOOSE s \in Songs : TRUE

Loading == LoaderNext /\ UNCHANGED vars

\* The file's buffer is freed; of the loader nothing is left but the lists, which
\* are the song.  A sequence of type ST_MULTI_SUB is not played.
HandOver ==
  /\ load = "ok" /\ file.type # "T_MIDI2"
  /\ song' = LoadedSong
  /\ \E s \in InitialStates : playState' = [t \in DOMAIN arTracks |-> s]
  /\ currEventPtr' = [t \in DOMAIN arTracks |-> First(t)]
  /\ timeElapsedInt' = [t \in DOMAIN arTracks |-> 0]
  /\ load' = "done" /\ file' = NoFile /\ pool' = 0 /\ offset' = 0 /\ midi' = << >>
  /\ cur' = 1 /\ delta_time' = 0 /\ currentChannel' = 0
  /\ channelMap' = [c \in Channels |-> IF c = 15 THEN 9 ELSE -1]
  /\ channel_volume' = [c \in Channels |-> 64]
  /\ pCmd' = 1 /\ endAddr' = 1 /\ trackNb' = 1 /\ recallStatus' = FALSE
  /\ g_runningStatus' = 0 /\ bEOF' = FALSE
  /\ iRetVal' = "AM_OK" /\ arTracks' = << >> /\ dangling' = {}
  /\ UNCHANGED <<active, hooked, timeElapsedFrac, timeStep, endOfSequence, bStopped, isr,
                 hung, client, sounding, history>>

Playing(A) == load = "done" /\ A /\ UNCHANGED loaderVars

SessionNext == Loading \/ HandOver \/ Playing(Next)
sessionVars == <<vars, loaderVars>>
Session == SessionInit /\ [][SessionNext]_sessionVars

\* A load goes on, and the player is as in AmReplay.
FairSession == /\ Session /\ WF_sessionVars(Loading)
               /\ WF_sessionVars(Playing(Interrupt)) /\ WF_sessionVars(Playing(MainStep))
=============================================================================
