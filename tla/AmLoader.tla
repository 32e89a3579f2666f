------------------------------ MODULE AmLoader ------------------------------
(***************************************************************************)
(* amProcessMidiFileData and the MIDI parser: a file in memory becomes the *)
(* event lists the player runs through.  One event is read per action, by  *)
(* the handler of its kind; its nodes are taken from the linear buffer of  *)
(* the sequence.                                                           *)
(*                                                                         *)
(* The parser trusts the file: what it does once it reads behind the file, *)
(* follows a pointer that was never set or fails an assertion is not       *)
(* modelled, load is "lost" from there on.                                 *)
(***************************************************************************)
EXTENDS Mus2Midi, RunningSums

CONSTANTS
  Files,     \* what may be loaded; see IsFile
  PoolSizes  \* sizes of the linear buffer in the configuration

VARIABLES
  pool,      \* size of the linear buffer
  offset,    \* how much of it is taken
  load,      \* stage of the load
  pCmd,      \* where the parser is in midi
  endAddr,   \* where the header of the track says it ends
  trackNb, recallStatus, g_runningStatus, bEOF, iRetVal,
  arTracks,  \* the event lists
  dangling   \* lists whose first node was never linked

parserVars == <<pCmd, endAddr, trackNb, recallStatus, g_runningStatus, bEOF>>
listVars   == <<iRetVal, arTracks, dangling, offset>>
loaderVars == <<file, pool, load, midi, musVars, parserVars, listVars>>

\* bytes are those behind the MThd header.  tracks and deltas say what is in there:
\* the events of each track that the library knows, and at which bytes, in a score
\* at which of the converted ones, their deltas start.  chunks are the sizes of those
\* behind the XMID of an XMIDI file's first FORM, whose length is form; there may be
\* a directory in front of the catalogue.
IsFile(f) ==
  /\ f.type \in {"T_MIDI0", "T_MIDI1", "T_MIDI2", "T_XMIDI", "T_MUS", "T_UNSUPPORTED"}
  /\ f.division \in 0..2^16 - 1 /\ f.directory \in BOOLEAN /\ f.form \in Nat /\ f.chunks \in Seq(Nat)
  /\ f.nTracks \in Nat \ {0} /\ f.bytes \in Seq(Byte)
  /\ f.score \in Seq(Byte) /\ f.channels \in Nat /\ f.deltas \subseteq Nat

ASSUME FilesAssumption == \A f \in Files : IsFile(f)
ASSUME PoolAssumption == PoolSizes \subseteq Nat

LoaderInit ==
  /\ file \in Files /\ pool \in PoolSizes /\ offset = 0 /\ load = "start"
  /\ midi = << >> /\ MusInit
  /\ pCmd = 1 /\ endAddr = 1 /\ trackNb = 1
  /\ recallStatus = FALSE /\ g_runningStatus = 0 /\ bEOF = FALSE
  /\ iRetVal = "AM_OK" /\ arTracks = << >> /\ dangling = {}

-----------------------------------------------------------------------------
(* amProcessMidiFileData.                                                  *)

MIDI_MAXCHANNELS == 16

\* There may be no memory for the sequence, its linear buffer, or the buffer the
\* conversion writes to.
OutOfMemory ==
  /\ load = "start" /\ load' = "error"
  /\ UNCHANGED <<file, pool, midi, musVars, parserVars, listVars>>

\* In a catalogue no tracks are found, whatever it holds.
TypeIsRefused ==
  /\ load = "start"
  /\ \/ file.type = "T_UNSUPPORTED"
     \/ file.type = "T_XMIDI" /\ ~file.directory
     \/ file.type = "T_MIDI0" /\ file.nTracks # 1
     \/ file.type = "T_MUS" /\ file.channels > MIDI_MAXCHANNELS - 1
  /\ load' = "error"
  /\ UNCHANGED <<file, pool, midi, musVars, parserVars, listVars>>

MidiIsTaken ==
  /\ load = "start"
  /\ \/ file.type \in {"T_MIDI1", "T_MIDI2"}
     \/ file.type = "T_MIDI0" /\ file.nTracks = 1
  /\ load' = "header" /\ midi' = file.bytes
  /\ arTracks' = [t \in 1..file.nTracks |-> << >>]
  /\ UNCHANGED <<file, pool, musVars, parserVars, iRetVal, dangling, offset>>

MusIsTaken ==
  /\ load = "start" /\ file.type = "T_MUS" /\ file.channels <= MIDI_MAXCHANNELS - 1
  /\ load' = "convert" /\ midi' = MusPrologue
  /\ UNCHANGED <<file, pool, musVars, parserVars, listVars>>

MusEventConverted ==
  /\ load = "convert" /\ ConvertsEvent
  /\ UNCHANGED <<file, pool, load, parserVars, listVars>>

\* A build without assertions writes a message without a status.
MusEventUnsupported ==
  /\ load = "convert" /\ Unsupported /\ load' = "lost"
  /\ UNCHANGED <<file, pool, midi, musVars, parserVars, listVars>>

MusRunsOff ==
  /\ load = "convert" /\ cur <= Len(file.score) /\ ~WithinScore /\ load' = "lost"
  /\ UNCHANGED <<file, pool, midi, musVars, parserVars, listVars>>

MusConverted ==
  /\ load = "convert" /\ cur > Len(file.score)
  /\ load' = "header" /\ midi' = TrackOf(midi) /\ arTracks' = << << >> >>
  /\ UNCHANGED <<file, pool, musVars, parserVars, iRetVal, dangling, offset>>

Padded(size) == size + (size % 2)

\* What is left of the FORM behind n of its chunks.  The count is of 32 bits and ends
\* at 0 only, so below 0 it goes on.
trackChunkSize(n) ==
  Padded(file.form) - FoldLeft(LAMBDA sum, size : sum + Padded(size) + 8, 0,
                               SubSeq(file.chunks, 1, n))

\* amProcessXmidiData: a file with a directory is taken for one track.  Its chunks are
\* gone through and traced; nothing of them gets into the list.  The length of the FORM
\* counts its XMID, which is not counted off, and so 0 is passed over.
XmidiIsRead ==
  /\ load = "start" /\ file.type = "T_XMIDI" /\ file.directory
  /\ arTracks' = << << >> >>
  /\ load' = IF \E n \in 0..Len(file.chunks) : trackChunkSize(n) = 0 THEN "ok" ELSE "lost"
  /\ UNCHANGED <<file, pool, midi, musVars, parserVars, iRetVal, dangling, offset>>

Starts == OutOfMemory \/ TypeIsRefused \/ MidiIsTaken
          \/ XmidiIsRead \/ MusIsTaken \/ MusEventConverted \/ MusEventUnsupported
          \/ MusRunsOff \/ MusConverted

-----------------------------------------------------------------------------
(* processMidiTracks.                                                      *)

HeaderInFile == pCmd + 7 <= Len(midi)

TrackStarts ==
  /\ load = "header" /\ HeaderInFile
  /\ SubSeq(midi, pCmd, pCmd + 3) = ID_MTRK
  /\ load' = "events"
  /\ pCmd' = pCmd + 8 /\ endAddr' = pCmd + 8 + ReadInt(midi, pCmd + 4)
  /\ recallStatus' = FALSE /\ bEOF' = FALSE
  /\ UNCHANGED <<file, pool, midi, musVars, trackNb, g_runningStatus, listVars>>

\* What is no track ends the load, and not as an error.
NoTrackIsThere ==
  /\ load = "header" /\ HeaderInFile
  /\ SubSeq(midi, pCmd, pCmd + 3) # ID_MTRK
  /\ load' = "ok"
  /\ UNCHANGED <<file, pool, midi, musVars, parserVars, listVars>>

\* Mutant: the end of the track is read over.
MoreEventsBehindEnd == pCmd # endAddr /\ iRetVal = "AM_OK"

MoreEvents == pCmd # endAddr /\ ~bEOF /\ iRetVal = "AM_OK"

\* Mutant: the tracks are not counted.
TrackEndsUncounted ==
  /\ load = "events" /\ ~MoreEvents
  /\ IF iRetVal = "AM_OK" /\ trackNb < Len(arTracks)
     THEN load' = "header"
     ELSE load' = (IF iRetVal = "AM_OK" THEN "ok" ELSE "error")
  /\ UNCHANGED <<file, pool, midi, musVars, parserVars, listVars>>

\* The next track is looked for where this one was left, not where its header says
\* it ends.
TrackEnds ==
  /\ load = "events" /\ ~MoreEvents
  /\ IF iRetVal = "AM_OK" /\ trackNb < Len(arTracks)
     THEN load' = "header" /\ trackNb' = trackNb + 1
     ELSE load' = (IF iRetVal = "AM_OK" THEN "ok" ELSE "error") /\ UNCHANGED trackNb
  /\ UNCHANGED <<file, pool, midi, musVars, pCmd, endAddr, recallStatus,
                 g_runningStatus, bEOF, listVars>>

-----------------------------------------------------------------------------
(* processMidiTrackEvents: which command is next, and where it ends.       *)

Command == pCmd + VLQSize(midi, pCmd)
Delta   == readVLQ(midi, pCmd)
Status  == midi[Command]
High(b) == b - (b % 16)

Recalled == Status < 128 /\ recallStatus
usSwitch == IF Recalled THEN High(g_runningStatus)
            ELSE IF Status >= 240 THEN Status ELSE High(Status)

\* Parameters of the channel and system common messages.
Parameters == CASE usSwitch \in {128, 144, 160, 176, 224, 242} -> 2
                [] usSwitch \in {192, 208, 241, 243}           -> 1
                [] OTHER                                       -> 0
DataAt == IF Recalled THEN Command ELSE Command + 1

MetaType == midi[Command + 1]
Texts    == (1..5) \cup {8, 9}
Named    == {6, 7}
Timed    == {47, 81, 88}
Skipped  == {0, 84, 127, 255}

\* A length is kept in a byte.
MetaLength == IF MetaType \in Texts \cup Named THEN readVLQ(midi, Command + 2) % 256
                                               ELSE midi[Command + 2]

\* A length takes one byte, whatever readVLQ said, and is not looked at for the
\* channel, the port and the key; with an unknown event it is not skipped itself.
MetaEnd == CASE MetaType \in {32, 33} -> Command + 4
             [] MetaType = 89         -> Command + 5
             [] MetaType \in Texts \cup Named \cup Timed \cup Skipped ->
                  Command + 3 + MetaLength
             [] OTHER                 -> Command + 2 + MetaLength

\* A system exclusive message ends at its last byte, not behind it.
SysexEnd == SelectInSubSeq(midi, Command, Len(midi), LAMBDA b : b = 247)

EventEnd == CASE usSwitch \in 128..239 -> DataAt + Parameters
              [] usSwitch = 240        -> SysexEnd
              [] usSwitch \in 241..246 -> Command + 1 + Parameters
              [] usSwitch = 255        -> MetaEnd
              [] OTHER                 -> Command

\* All that is read of an event is there, and a tempo fits into its three bytes.
WithinFile ==
  /\ VLQSize(midi, pCmd) > 0 /\ Command <= Len(midi)
  /\ usSwitch = 240 => SysexEnd > 0
  /\ usSwitch = 255 => /\ Command + 2 <= Len(midi)
                       /\ MetaType \in Texts \cup Named => VLQSize(midi, Command + 2) > 0
                       /\ MetaType = 81 => MetaLength <= 3
                       /\ MetaType = 84 => Command + 7 <= Len(midi)
                       /\ MetaType = 88 => Command + 6 <= Len(midi)
  /\ EventEnd <= Len(midi) + 1

RunsOffFile ==
  /\ \/ load = "header" /\ ~HeaderInFile
     \/ load = "events" /\ MoreEvents /\ ~WithinFile
  /\ load' = "lost"
  /\ UNCHANGED <<file, pool, midi, musVars, parserVars, listVars>>

-----------------------------------------------------------------------------
(* Its handlers.                                                           *)

NODE == 26  \* sizeof(sEventList)
DataSize == [T_NOTEON |-> 4, T_NOTEOFF |-> 4, T_NOTEAFT |-> 4, T_CONTROL |-> 4,
             T_PRG_CH |-> 2, T_CHAN_AFT |-> 2, T_PITCH_BEND |-> 4,
             T_META_SET_TEMPO |-> 4, T_META_EOT |-> 4, T_META_CUEPOINT |-> 4,
             T_META_MARKER |-> 4, T_META_SET_SIGNATURE |-> 4, T_SYSEX |-> 8]
Size(e) == NODE + DataSize[e.type]

LoadedEvent == [type : DOMAIN DataSize, delta : Nat, data : Seq(Byte)]

ASSUME TracksAssumption == \A f \in Files : f.tracks \in Seq(Seq(LoadedEvent))

\* Mutants of AddEvent: being out of memory is not reported; what is left of the
\* buffer is not looked at.
AddEventUnreported(e, reported) ==
  IF offset + Size(e) <= pool
  THEN /\ arTracks' = [arTracks EXCEPT ![trackNb] = Append(@, e)]
       /\ offset' = offset + Size(e) /\ UNCHANGED <<load, iRetVal, dangling>>
  ELSE UNCHANGED <<load, iRetVal, dangling, arTracks, offset>>

AddEventUnbounded(e, reported) ==
  /\ arTracks' = [arTracks EXCEPT ![trackNb] = Append(@, e)]
  /\ offset' = offset + Size(e) /\ UNCHANGED <<load, iRetVal, dangling>>

\* addEvent and copyEvent.  A node is taken before its data: if only the node fits
\* it stays taken, and where it was to be the first of its list the list now
\* starts with it, its links not set.
AddEvent(e, reported) ==
  IF trackNb \in dangling
  THEN load' = "lost" /\ UNCHANGED listVars
  ELSE /\ UNCHANGED load
       /\ IF offset + Size(e) <= pool
          THEN /\ arTracks' = [arTracks EXCEPT ![trackNb] = Append(@, e)]
               /\ offset' = offset + Size(e) /\ UNCHANGED <<iRetVal, dangling>>
          ELSE /\ iRetVal' = IF reported THEN "AM_ERR" ELSE iRetVal
               /\ offset' = IF offset + NODE <= pool THEN offset + NODE ELSE offset
               /\ dangling' = IF offset + NODE <= pool /\ arTracks[trackNb] = << >>
                              THEN dangling \cup {trackNb} ELSE dangling
               /\ UNCHANGED arTracks

Bytes(first, n) == SubSeq(midi, first, first + n - 1)

\* A message of a channel: its status is remembered, and may be left out by the
\* messages that follow.
ChannelEvent(kind, type) ==
  /\ usSwitch = kind
  /\ g_runningStatus' = IF Recalled THEN g_runningStatus ELSE Status
  /\ recallStatus' = TRUE
  /\ AddEvent([type |-> type, delta |-> Delta,
               data |-> <<g_runningStatus' % 16>> \o Bytes(DataAt, Parameters)], TRUE)
  /\ pCmd' = EventEnd
  /\ UNCHANGED <<file, pool, midi, musVars, endAddr, trackNb, bEOF>>

NoteOff       == ChannelEvent(128, "T_NOTEOFF")
NoteOn        == ChannelEvent(144, "T_NOTEON")
NoteAft       == ChannelEvent(160, "T_NOTEAFT")
Controller    == ChannelEvent(176, "T_CONTROL")
ProgramChange == ChannelEvent(192, "T_PRG_CH")
ChannelAft    == ChannelEvent(208, "T_CHAN_AFT")
PitchBend     == ChannelEvent(224, "T_PITCH_BEND")

\* Any other event: what it puts into the list, and that it ends the running status.
OtherEvent(type, data, reported) ==
  /\ AddEvent([type |-> type, delta |-> Delta, data |-> data], reported)
  /\ pCmd' = EventEnd /\ recallStatus' = FALSE
  /\ UNCHANGED <<file, pool, midi, musVars, endAddr, trackNb, g_runningStatus>>

\* The message is copied with its first byte and without its last.
SysexMsg == /\ usSwitch = 240
            /\ OtherEvent("T_SYSEX", Bytes(Command, SysexEnd - Command), TRUE)
            /\ UNCHANGED bEOF

ReadsMeta(types) == usSwitch = 255 /\ MetaType \in types

\* addEvent's result is not looked at for these two.
TakesName(metaType, type) ==
  /\ ReadsMeta({metaType})
  /\ OtherEvent(type, Bytes(Command + 3, MetaLength), FALSE)
  /\ UNCHANGED bEOF
Marker   == TakesName(6, "T_META_MARKER")
CuePoint == TakesName(7, "T_META_CUEPOINT")

EndOfTrack == /\ ReadsMeta({47})
              /\ OtherEvent("T_META_EOT", << >>, TRUE)
              /\ bEOF' = TRUE

\* The bytes that are not given are 0.
SetTempo == /\ ReadsMeta({81})
            /\ OtherEvent("T_META_SET_TEMPO",
                          [i \in 1..3 |-> IF i <= MetaLength THEN midi[Command + 2 + i] ELSE 0],
                          TRUE)
            /\ UNCHANGED bEOF

TimeSignature == /\ ReadsMeta({88})
                 /\ OtherEvent("T_META_SET_SIGNATURE", Bytes(Command + 3, 4), TRUE)
                 /\ UNCHANGED bEOF

\* What is read and forgotten, its delta with it.
Forgets ==
  /\ pCmd' = EventEnd /\ recallStatus' = FALSE
  /\ UNCHANGED <<file, pool, load, midi, musVars, endAddr, trackNb, g_runningStatus,
                 bEOF, listVars>>
OtherMeta    == usSwitch = 255 /\ MetaType \notin Named \cup Timed /\ Forgets
SystemCommon == usSwitch \in 241..246 /\ Forgets

\* Mutant: the delta is not skipped.
UnknownEventStays ==
  /\ usSwitch \in (0..127) \cup (247..254)
  /\ pCmd' = pCmd /\ recallStatus' = FALSE
  /\ UNCHANGED <<file, pool, load, midi, musVars, endAddr, trackNb, g_runningStatus,
                 bEOF, listVars>>

UnknownEvent == usSwitch \in (0..127) \cup (247..254) /\ Forgets

ReadsEvent ==
  /\ load = "events" /\ MoreEvents /\ WithinFile
  /\ \/ NoteOff \/ NoteOn \/ NoteAft \/ Controller \/ ProgramChange
     \/ ChannelAft \/ PitchBend \/ SysexMsg \/ Marker \/ CuePoint
     \/ EndOfTrack \/ SetTempo \/ TimeSignature \/ OtherMeta
     \/ SystemCommon \/ UnknownEvent

LoaderNext == Starts \/ TrackStarts \/ NoTrackIsThere \/ TrackEnds
              \/ RunsOffFile \/ ReadsEvent

-----------------------------------------------------------------------------
\* What the events of a list take of the linear buffer, and those of all lists.
ListSize(list) == RunningSum([n \in DOMAIN list |-> Size(list[n])])[Len(list)]
Taken(lists)   == RunningSum([t \in DOMAIN lists |-> ListSize(lists[t])])[Len(lists)]

\* The types of the variables.  What the lists hold has been taken from the linear
\* buffer, and never more than it has.
LoaderTypeOK ==
  /\ load \in {"start", "convert", "header", "events", "ok", "error", "lost", "done"}
  /\ pCmd \in Nat \ {0} /\ endAddr \in Nat \ {0} /\ g_runningStatus \in Byte
  /\ {recallStatus, bEOF} \subseteq BOOLEAN /\ iRetVal \in {"AM_OK", "AM_ERR"}
  /\ midi \in Seq(Byte) /\ arTracks \in Seq(Seq(LoadedEvent))
  /\ Taken(arTracks) <= offset /\ offset <= pool

\* A load that reports success has read every track to its end: no list is cut
\* short, in whatever way the file is put down and wherever memory runs out.
LoadedWhole == load = "ok" => arTracks = file.tracks

\* What is read as a delta is one ("read delta time, pCmd should point to the command
\* data"): the parser is never in the middle of an event, however its status is put
\* down and whatever the length of the track is said to be.
InStep == load = "events" /\ MoreEvents => pCmd \in file.deltas

\* In no list does anything stand behind an end of track, wherever the file has one and
\* whatever its headers say: an event list ends where the player stops.
NothingBehindEnd ==
  \A t \in DOMAIN arTracks : \A n \in 1..Len(arTracks[t]) - 1 :
    arTracks[t][n].type # "T_META_EOT"

\* A load never comes back to where it was: its stages follow one another, and in each
\* the place in the score or in the file, or the track, only moves on, up to the end.
Stage == CASE load = "start"                -> 0
           [] load = "convert"              -> 1
           [] load \in {"header", "events"} -> 2
           [] load = "done"                 -> 4
           [] OTHER                         -> 3
LoadAdvances ==
  [][\/ Stage < Stage'
     \/ /\ Stage = 1 /\ Stage' = 1 /\ UNCHANGED file
        /\ cur < cur' /\ cur' <= Len(file.score) + 1
     \/ /\ Stage = 2 /\ Stage' = 2 /\ UNCHANGED <<file, midi>> /\ Len(arTracks') = Len(arTracks)
        /\ \/ pCmd < pCmd' /\ pCmd' <= Len(midi) + 1 /\ trackNb' = trackNb
           \/ pCmd' = pCmd /\ trackNb < trackNb' /\ trackNb' <= Len(arTracks)]_loaderVars

\* Every load ends, whatever is in the file.
LoadEnds == load = "start" ~> load \in {"ok", "error", "lost"}
=============================================================================
