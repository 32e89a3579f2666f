------------------------------ MODULE MidiFiles ------------------------------
(***************************************************************************)
(* Files to load, put together from events: how an event is put down, and  *)
(* what it means.  Most of them hold the songs of MCAmReplay.              *)
(***************************************************************************)
EXTENDS MidiBytes

Holds(d, says, type, data) ==
  [at |-> <<d>>, says |-> says, means |-> <<[type |-> type, delta |-> d, data |-> data]>>]
Wide(item) == [item EXCEPT !.at = <<128>> \o @]  \* the same delta in a byte more
Skip(says) == [at |-> <<0>>, says |-> says, means |-> << >>]

SlowBytes == <<15, 66, 64>>  \* 1000000 and 666666 microseconds
FastBytes == <<10, 44, 42>>
On(d, says)     == Holds(d, says, "T_NOTEON", <<2, 60, 100>>)
SetsTempo(d, t) == Holds(d, <<255, 81, 3>> \o t, "T_META_SET_TEMPO", t)
Ends(d)         == Holds(d, <<255, 47, 0>>, "T_META_EOT", << >>)

Said(items)  == FlattenSeq([i \in DOMAIN items |-> items[i].at \o items[i].says])
Meant(items) == FlattenSeq([i \in DOMAIN items |-> items[i].means])
DeltasOf(items, start) == {start + Len(Said(SubSeq(items, 1, i - 1))) : i \in DOMAIN items}

Chunk(items, longer) == ID_MTRK \o WriteInt(Len(Said(items)) + longer) \o Said(items)

\* A file of the given tracks, in whose headers the lengths are too large by longer.
File(type, nTracks, tracks, longer) ==
  LET chunks == [t \in DOMAIN tracks |-> Chunk(tracks[t], longer)]
      start(t) == 9 + Len(FlattenSeq(SubSeq(chunks, 1, t - 1)))
  IN  [type |-> type, nTracks |-> nTracks, division |-> 100, bytes |-> FlattenSeq(chunks),
       score |-> << >>, channels |-> 0, directory |-> FALSE, form |-> 0, chunks |-> << >>,
       deltas |-> UNION {DeltasOf(tracks[t], start(t)) : t \in DOMAIN tracks},
       tracks |-> [t \in DOMAIN tracks |-> Meant(tracks[t])]]

\* The layout of such a file.
StatusOf(items) ==
  LET status[i \in DOMAIN items] ==
        IF items[i].says[1] >= 128 THEN items[i].says[1] ELSE status[i - 1]
  IN  status
LaidOut(items, start) ==
  [i \in DOMAIN items |->
     LET before == SubSeq(items, 1, i - 1)
         at  == start + Len(Said(before))
         cmd == at + Len(items[i].at)
     IN  [at |-> at, cmd |-> cmd, behind |-> cmd + Len(items[i].says),
          status |-> StatusOf(items)[i], means |-> items[i].means, before |-> Meant(before)]]
LayoutOf(tracks) ==
  LET start(t) == 9 + Len(FlattenSeq([u \in 1..t - 1 |-> Chunk(tracks[u], 0)]))
  IN  [t \in DOMAIN tracks |-> [at |-> start(t) - 8, events |-> LaidOut(tracks[t], start(t))]]

\* A score, and the events it is to become.
Score(score, channels, items) ==
  [File("T_MUS", 1, <<items>>, 0) EXCEPT !.division = 89, !.bytes = << >>, !.score = score, !.channels = channels]

\* Running status, and a delta of two bytes.
Chord == <<On(0, <<146, 60, 100>>), Wide(On(0, <<60, 100>>)), SetsTempo(2, SlowBytes),
           Holds(1, <<130, 60, 64>>, "T_NOTEOFF", <<2, 60, 64>>), SetsTempo(0, FastBytes),
           Holds(2, <<194, 5>>, "T_PRG_CH", <<2, 5>>), Ends(1)>>

\* The same for the player: other messages, and much that it does not want.
OtherChord == <<Skip(<<255, 1, 2, 65, 66>>), Holds(0, <<162, 60, 1>>, "T_NOTEAFT", <<2, 60, 1>>),
                Skip(<<242, 1, 1>>), Holds(0, <<178, 7, 9>>, "T_CONTROL", <<2, 7, 9>>),
                Skip(<<255, 89, 2, 0, 0>>), SetsTempo(2, SlowBytes), Skip(<<241, 1>>),
                Holds(1, <<208, 9>>, "T_CHAN_AFT", <<0, 9>>), SetsTempo(0, FastBytes),
                Skip(<<255, 33, 1, 0>>), Wide(Holds(2, <<239, 0, 64>>, "T_PITCH_BEND", <<15, 0, 64>>)),
                Skip(<<246>>), Skip(<<255, 127, 1, 0>>), Ends(1)>>

Marked(type, name) ==
  <<Holds(0, <<255, type, 2, 65, 66>>, name, <<65, 66>>), SetsTempo(1, FastBytes),
    On(1, <<146, 60, 100>>), Ends(0)>>
Signed == [Marked(6, "") EXCEPT ![1] =
             Holds(0, <<255, 88, 4, 4, 2, 24, 8>>, "T_META_SET_SIGNATURE", <<4, 2, 24, 8>>)]

Lead == <<SetsTempo(0, FastBytes), On(1, <<146, 60, 100>>), Ends(0)>>
Second == <<On(1, <<146, 60, 100>>), On(0, <<60, 100>>), On(1, <<60, 100>>), Ends(1)>>
Alone  == <<On(1, <<146, 60, 100>>), Ends(1)>>

\* The events every score starts with, and the volume of a channel that is new.
Prologue == <<Holds(0, <<255, 81, 3, 9, 163, 26>>, "T_META_SET_TEMPO", <<9, 163, 26>>),
              Holds(0, <<185, 7, 127>>, "T_CONTROL", <<9, 7, 127>>)>>
Volume   == Holds(0, <<176, 7, 127>>, "T_CONTROL", <<0, 7, 127>>)

\* Two events of a score, the second a tick behind the first, and its end.
Tune(score, first, second) ==
  Score(score \o <<96>>, 1, Prologue \o <<Volume, first, second, Ends(0)>>)

\* A note with a volume, then one of percussion that has the volume it starts with,
\* or the end of the note; pitch wheel and mode; program and controller.
Drum   == Tune(<<144, 188, 90, 1, 31, 60>>, Holds(0, <<144, 60, 90>>, "T_NOTEON", <<0, 60, 90>>),
                                            Holds(1, <<153, 60, 64>>, "T_NOTEON", <<9, 60, 64>>))
Note   == Tune(<<144, 188, 90, 1, 0, 60>>, Holds(0, <<144, 60, 90>>, "T_NOTEON", <<0, 60, 90>>),
                                           Holds(1, <<128, 60, 64>>, "T_NOTEOFF", <<0, 60, 64>>))
Wheel  == Tune(<<160, 129, 1, 48, 12, 12>>, Holds(0, <<224, 0, 64>>, "T_PITCH_BEND", <<0, 0, 64>>),
                                            Holds(1, <<176, 126, 2>>, "T_CONTROL", <<0, 126, 2>>))
Change == Tune(<<192, 0, 5, 1, 64, 3, 100>>, Holds(0, <<192, 5>>, "T_PRG_CH", <<0, 5>>),
                                             Holds(1, <<176, 7, 100>>, "T_CONTROL", <<0, 7, 100>>))

\* One channel more than there is room for in front of percussion: the tenth is 10.
Channel(i) == IF i = 10 THEN 10 ELSE i - 1
ManyChannels ==
  Score(FlattenSeq([i \in 1..10 |-> <<15 + i, 60>>]) \o <<96>>, 10,
        Prologue \o FlattenSeq([i \in 1..10 |->
          <<Holds(0, <<176 + Channel(i), 7, 127>>, "T_CONTROL", <<Channel(i), 7, 127>>),
            Holds(0, <<144 + Channel(i), 60, 64>>, "T_NOTEON", <<Channel(i), 60, 64>>)>>])
        \o <<Ends(0)>>)

\* What is put down wrongly: cut off, of more tracks than it has, with something
\* behind its last track that is no track, without a status, a tempo of four bytes, a score that
\* ends within an event, an event of a kind that scores do not have.
Cut(file, n) == [file EXCEPT !.bytes = SubSeq(@, 1, n)]
NotThere(file) == [file EXCEPT !.tracks = @ \o << << >> >>]
Foreign(file)  == [NotThere(file) EXCEPT !.bytes = @ \o <<88, 70, 73, 72, 0, 0, 0, 0>>]
NoStatus == [File("T_MIDI0", 1, <<  >>, 0) EXCEPT
               !.bytes = ID_MTRK \o WriteInt(4) \o <<0, 5, 0, 5>>, !.deltas = 9..13]
LongTempo   == File("T_MIDI0", 1, << <<Skip(<<255, 81, 4, 7, 161, 32, 0>>)>> >>, 0)
CutScore    == Score(<<144, 188>>, 1, << >>)
NoSuchEvent == Score(<<144, 188, 90, 1, 80, 60, 96>>, 1, << >>)
Refused(type, nTracks, channels) ==
  [File(type, nTracks, << >>, 0) EXCEPT !.channels = channels]

\* An XMIDI file of two sequences, of the second of which only the FORM counts.
Xmidi(directory) ==
  [Refused("T_XMIDI", 1, 0) EXCEPT !.directory = directory, !.form = 4 + 8 + 2 + 8 + 6,
                                   !.chunks = <<2, 5, 30>>]

\* A system exclusive message between two notes.
Exclusive == <<On(0, <<146, 60, 100>>),
               Holds(1, <<240, 3, 67, 18, 247>>, "T_SYSEX", <<240, 3, 67, 18, 247>>),
               On(1, <<146, 60, 100>>), Ends(0)>>
=============================================================================
