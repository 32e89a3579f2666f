----------------------------- MODULE MidiLayout -----------------------------
(***************************************************************************)
(* What a file of tracks says, as the MIDI file format has it and not as   *)
(* the parser goes about it: a layout tells of each event where it stands  *)
(* and what it means, and whether the bytes bear it out can be seen event  *)
(* by event.                                                               *)
(*                                                                         *)
(* An event is a record: its delta starts at at, its command at cmd, and   *)
(* it ends in front of behind.  status is that of a channel message, given *)
(* or kept from the one before, or else its first byte; means is the event *)
(* the list gets, if any, and before those it has got till then.           *)
(***************************************************************************)
EXTENDS MidiBytes

KindOf(status) == status - (status % 16)
MessageType(kind) == CASE kind = 128 -> "T_NOTEOFF" [] kind = 144 -> "T_NOTEON"
                       [] kind = 160 -> "T_NOTEAFT" [] kind = 176 -> "T_CONTROL"
                       [] kind = 192 -> "T_PRG_CH"  [] kind = 208 -> "T_CHAN_AFT"
                       [] kind = 224 -> "T_PITCH_BEND"
MessageLength(kind) == IF kind \in {192, 208} THEN 1 ELSE 2

Says(s, x, type, data) == x.means = <<[type |-> type, delta |-> readVLQ(s, x.at), data |-> data]>>

\* A channel message; one of the same status as the message before may leave it out.
MessageLaid(s, x, running, first) ==
  /\ x.status \in 128..239
  /\ \/ s[x.cmd] = x.status /\ first = x.cmd + 1
     \/ s[x.cmd] < 128 /\ running = x.status /\ first = x.cmd
  /\ x.behind = first + MessageLength(KindOf(x.status))
  /\ Says(s, x, MessageType(KindOf(x.status)),
          <<x.status % 16>> \o SubSeq(s, first, x.behind - 1))

\* The meta events the library knows; of some it wants nothing.
Wanted == {<<47, "T_META_EOT", {0}>>, <<81, "T_META_SET_TEMPO", {3}>>,
           <<88, "T_META_SET_SIGNATURE", {4}>>, <<6, "T_META_MARKER", 0..127>>,
           <<7, "T_META_CUEPOINT", 0..127>>}
Unwanted == ((0..5) \cup {8, 9, 127}) \X {0..127} \cup {<<32, {1}>>, <<33, {1}>>, <<84, {5}>>, <<89, {2}>>}

MetaLaid(s, x) ==
  /\ s[x.cmd] = 255 /\ x.status = 255 /\ x.behind = x.cmd + 3 + s[x.cmd + 2]
  /\ \/ \E meta \in Wanted : /\ s[x.cmd + 1] = meta[1] /\ s[x.cmd + 2] \in meta[3]
                             /\ Says(s, x, meta[2], SubSeq(s, x.cmd + 3, x.behind - 1))
     \/ \E meta \in Unwanted : /\ s[x.cmd + 1] = meta[1] /\ s[x.cmd + 2] \in meta[2]
                               /\ x.means = << >>

\* A system common message.
CommonLaid(s, x) ==
  /\ s[x.cmd] \in 241..246 /\ x.status = s[x.cmd] /\ x.means = << >>
  /\ x.behind = x.cmd + 1 + (CASE x.status = 242 -> 2 [] x.status \in {241, 243} -> 1 [] OTHER -> 0)

EventLaid(s, x, running) ==
  /\ x.at \in 1..Len(s) /\ VLQSize(s, x.at) > 0 /\ x.cmd = x.at + VLQSize(s, x.at)
  /\ x.cmd <= Len(s) /\ x.behind <= Len(s) + 1
  /\ (\E first \in {x.cmd, x.cmd + 1} : MessageLaid(s, x, running, first))
       \/ MetaLaid(s, x) \/ CommonLaid(s, x)

EndsTrack(x) == x.status = 255 /\ x.means # << >> /\ x.means[1].type = "T_META_EOT"

\* The status an event may leave out: that of the message in front of it.
RunningAt(events, i) ==
  IF i > 1 /\ events[i - 1].status < 240 THEN events[i - 1].status ELSE 0

\* A track: a header, and events one behind the other up to the one that is the end.  The
\* length in the header may be wrong, if it does not lead to an event.
TrackLaid(s, track) ==
  LET events == track.events
  IN  /\ track.at \in Nat \ {0} /\ track.at + 7 <= Len(s)
      /\ SubSeq(s, track.at, track.at + 3) = ID_MTRK
      /\ Len(events) \in Nat \ {0} /\ events[1].at = track.at + 8 /\ events[1].before = << >>
      /\ \A i \in 1..Len(events) :
           /\ EventLaid(s, events[i], RunningAt(events, i))
           /\ events[i].at # track.at + 8 + ReadInt(s, track.at + 4)
           /\ i = Len(events) <=> EndsTrack(events[i])
      /\ \A i \in 1..Len(events) - 1 :
           /\ events[i + 1].at = events[i].behind
           /\ events[i + 1].before = events[i].before \o events[i].means

Behind(track)  == track.events[Len(track.events)].behind
Meaning(track) == LET last == track.events[Len(track.events)] IN last.before \o last.means

\* n tracks, those that are there one behind the other, mean these lists, and their
\* deltas are among these.
FileLaid(s, layout, n, lists, deltas) ==
  /\ Len(layout) \in 1..n /\ layout[1].at = 1
  /\ \A t \in 1..Len(layout) :
       /\ TrackLaid(s, layout[t])
       /\ \A i \in 1..Len(layout[t].events) : layout[t].events[i].at \in deltas
  /\ \A t \in 1..Len(layout) - 1 : layout[t + 1].at = Behind(layout[t])
  /\ Len(layout) < n => LET next == Behind(layout[Len(layout)])
                        IN  next + 7 <= Len(s) => SubSeq(s, next, next + 3) # ID_MTRK
  /\ lists = [t \in 1..n |-> IF t <= Len(layout) THEN Meaning(layout[t]) ELSE << >>]

WrittenAs(f, layout) == /\ f.type \in {"T_MIDI0", "T_MIDI1", "T_MIDI2"}
                        /\ FileLaid(f.bytes, layout, f.nTracks, f.tracks, f.deltas)
=============================================================================
