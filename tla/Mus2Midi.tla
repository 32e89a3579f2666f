------------------------------ MODULE Mus2Midi ------------------------------
(***************************************************************************)
(* The conversion of a Doom MUS score into the one track of a MIDI file.   *)
(* A score counts its channels in the order of the instruments and puts    *)
(* percussion on 15; MIDI channels are given out as the score comes to     *)
(* use them.  Each pass of the loop of Mus2Midi is an action.              *)
(***************************************************************************)
EXTENDS MidiBytes, Functions

VARIABLES
  file,            \* the file: of a score, its bytes and its number of channels
  midi,            \* what the conversion writes behind the MThd header
  cur,             \* where it reads in the score
  delta_time,      \* of the event that comes next
  channelMap,      \* MIDI channel of each MUS channel, -1 where none is given yet
  channel_volume,  \* last volume of each MIDI channel
  currentChannel   \* MIDI channel that is given out next

musVars == <<cur, delta_time, channelMap, channel_volume, currentChannel>>

Channels == 0..15
MusInit == /\ cur = 1 /\ delta_time = 0 /\ currentChannel = 0
           /\ channelMap = [c \in Channels |-> IF c = 15 THEN 9 ELSE -1]
           /\ channel_volume = [c \in Channels |-> 64]

\* Set tempo, and full volume for percussion.
MusPrologue == <<0, 255, 81, 3, 9, 163, 26>> \o <<0, 185, 7, 127>>

event   == file.score[cur]
channel == event % 16
IsEvent(kind) == cur <= Len(file.score) /\ (event \div 16) % 8 = kind
Param(n) == file.score[cur + n]

IsNew  == channelMap[channel] < 0
Mapped == IF IsNew THEN currentChannel ELSE channelMap[channel]

\* A channel that is new to the score is given its volume first.
Introduction == IF IsNew THEN <<176 + Mapped, 7, 127, 0>> ELSE << >>

\* Mutant: no channel is left for percussion.
AfterMappingAll(c) == c + 1

AfterMapping(c) == IF c + 1 = 9 THEN 10 ELSE c + 1

MidiMap == <<0, 0, 1, 7, 10, 11, 91, 93, 64, 67, 120, 123, 126, 127, 121>>

\* How many bytes an event has behind its first; of a mode, its number and the one
\* behind it.
Used == CASE IsEvent(6)                           -> 0
          [] IsEvent(1)                           -> IF Param(1) >= 128 THEN 2 ELSE 1
          [] IsEvent(3) \/ IsEvent(4)             -> 2
          [] OTHER                                -> 1

\* All that is read of an event is there, and no assertion about it fails.
WithinScore ==
  /\ IsEvent(6) \/ cur < Len(file.score)
  /\ cur + Used <= Len(file.score)
  /\ IsEvent(3) \/ IsEvent(4) => Param(1) < Len(MidiMap)
  /\ IsEvent(6) => cur = Len(file.score)
  /\ event >= 128 => VLQSize(file.score, cur + 1 + Used) > 0

\* An event becomes a message.  The time behind it belongs to the next one.
Converts(message) ==
  LET next == cur + 1 + Used
  IN  /\ midi' = midi \o WriteVarLen(delta_time) \o Introduction \o message
      /\ IF event >= 128
         THEN delta_time' = readVLQ(file.score, next) /\ cur' = next + VLQSize(file.score, next)
         ELSE delta_time' = 0 /\ cur' = next
      /\ channelMap' = [channelMap EXCEPT ![channel] = Mapped]
      /\ currentChannel' = IF IsNew THEN AfterMapping(currentChannel) ELSE currentChannel

KeyOff == /\ IsEvent(0)
          /\ Converts(<<128 + Mapped, Param(1), 64>>)
          /\ UNCHANGED channel_volume

\* A note without a volume has the last one of its channel.
KeyOn ==
  /\ IsEvent(1)
  /\ LET volume == IF Param(1) >= 128 THEN Param(2) ELSE channel_volume[Mapped]
     IN  /\ Converts(<<144 + Mapped, Param(1) % 128, volume>>)
         /\ channel_volume' = [channel_volume EXCEPT ![Mapped] = volume]

\* (*cur & 1) >> 6 is 0: the lowest bit of the wheel is lost.
PitchWheel == /\ IsEvent(2)
              /\ Converts(<<224 + Mapped, 0, Param(1) \div 2>>)
              /\ UNCHANGED channel_volume

ChannelMode ==
  /\ IsEvent(3)
  /\ Converts(<<176 + Mapped, MidiMap[Param(1) + 1],
                IF Param(2) = 12 THEN file.channels + 1 ELSE 0>>)
  /\ UNCHANGED channel_volume

ControllerChange ==
  /\ IsEvent(4)
  /\ Converts(IF Param(1) = 0 THEN <<192 + Mapped, Param(2)>>
                              ELSE <<176 + Mapped, MidiMap[Param(1) + 1], Param(2)>>)
  /\ UNCHANGED channel_volume

ScoreEnd == /\ IsEvent(6)
            /\ Converts(<<255, 47, 0>>)
            /\ UNCHANGED channel_volume

\* Of these only an assertion takes note.
Unsupported == IsEvent(5) \/ IsEvent(7)

ConvertsEvent ==
  /\ cur <= Len(file.score) /\ WithinScore
  /\ KeyOff \/ KeyOn \/ PitchWheel \/ ChannelMode \/ ControllerChange \/ ScoreEnd

\* The header of the track is filled in when its length is known.
TrackOf(out) == ID_MTRK \o WriteInt(Len(out)) \o out

\* However many channels a score uses and in whatever order, no two of them share
\* a MIDI channel, and percussion, which is always MIDI channel 9, shares it with
\* none.
ChannelsApart ==
  /\ channelMap[15] = 9
  /\ \A c, d \in Channels : c # d /\ channelMap[c] >= 0 => channelMap[c] # channelMap[d]
=============================================================================
