---------------------------- MODULE MCAmSession ----------------------------
(***************************************************************************)
(* Every song of MCAmReplay is loaded from a file or a score, most of them *)
(* from several that put it down in different ways; and files that do not  *)
(* become a song.  The linear buffer has any size up to one that is enough *)
(* for the longest.                                                        *)
(***************************************************************************)
EXTENDS MCAmReplay, AmSession, MidiFiles, MidiLayout

\* Files that are as they should be, and some whose headers say another length.
Whole ==
  {<<"T_MIDI0", 1, <<Chord>>, 0>>, <<"T_MIDI0", 1, <<OtherChord>>, 0>>, <<"T_MIDI0", 1, <<Chord>>, -2>>,
   <<"T_MIDI0", 1, <<Marked(6, "T_META_MARKER")>>, 0>>,
   <<"T_MIDI0", 1, <<Marked(6, "T_META_MARKER")>>, 7>>,
   <<"T_MIDI0", 1, <<Marked(7, "T_META_CUEPOINT")>>, 0>>, <<"T_MIDI0", 1, <<Signed>>, 0>>,
   <<"T_MIDI1", 2, <<Lead, Second>>, 0>>, <<"T_MIDI1", 2, <<Lead, Second>>, 100>>,
   <<"T_MIDI2", 2, <<Lead, Second>>, 0>>}
FileOf(w) == File(w[1], w[2], w[3], w[4])
MarkSong  == File("T_MIDI0", 1, <<Marked(6, "T_META_MARKER")>>, 0)
TwoOfThree == NotThere(File("T_MIDI1", 3, <<Lead, Second>>, 0))
OneOfTwo   == Foreign(File("T_MIDI1", 2, <<Alone>>, 0))

\* They say what they are to mean, and that is a song.
ASSUME WholeAreWritten ==
  /\ \A w \in Whole : /\ WrittenAs(FileOf(w), LayoutOf(w[3]))
                       /\ w[1] # "T_MIDI2" => SongOf(FileOf(w), FileOf(w).tracks) \in MCSongs
  /\ WrittenAs(TwoOfThree, LayoutOf(<<Lead, Second>>)) /\ WrittenAs(OneOfTwo, LayoutOf(<<Alone>>))

MCFiles ==
  {FileOf(w) : w \in Whole \ {<<"T_MIDI0", 1, <<Marked(6, "T_META_MARKER")>>, 0>>}} \cup
  {[MarkSong EXCEPT !.division = 200], [MarkSong EXCEPT !.division = 59176], TwoOfThree, OneOfTwo,
   Drum, Note, Wheel, Change, ManyChannels, NoSuchEvent, CutScore, LongTempo,
   Cut(File("T_MIDI0", 1, <<Chord>>, 0), 20), NoStatus,
   Refused("T_UNSUPPORTED", 1, 0), Refused("T_MIDI0", 2, 0), Refused("T_MUS", 1, 16),
   Xmidi(TRUE), Xmidi(FALSE)}

MCPoolSizes == {2 * n : n \in 0..105}

ExclusiveFiles == {File("T_MIDI0", 1, <<Exclusive>>, 0)}
=============================================================================
