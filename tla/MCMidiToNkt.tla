---------------------------- MODULE MCMidiToNkt ----------------------------
(***************************************************************************)
(* All tracks of up to MaxEvents events, deltas of one and of two bytes,   *)
(* with ends of track anywhere, behind these events or nowhere.            *)
(***************************************************************************)
EXTENDS MidiToNkt

CONSTANT MaxEvents

Deltas == {0, 1, VLQ_BASE}
Body   == [kind : {"data"}, delta : Deltas, size : {3}]
            \cup [kind : {"tempo", "other", "eot"}, delta : Deltas, size : {0}]
Eots   == [kind : {"eot"}, delta : Deltas, size : {0}]

MCTracks ==
  LET bodies == UNION {[1..n -> Body] : n \in 0..MaxEvents}
  IN  bodies \cup {Append(b, e) : b \in bodies, e \in Eots}
=============================================================================
