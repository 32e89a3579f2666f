------------------------------ MODULE NktSongs ------------------------------
(***************************************************************************)
(* What the instances of the player need to write songs down: blocks, and  *)
(* where they lie in the events buffer.                                    *)
(***************************************************************************)
EXTENDS NktReplay, FiniteSetsExt

Data(d)     == [msgType |-> NKT_MIDIDATA, delta |-> d, step |-> 0]
Tempo(d, s) == [msgType |-> NKT_TEMPO_CHANGE, delta |-> d, step |-> s]
End(d)      == [msgType |-> NKT_END, delta |-> d, step |-> 0]

OffsetsOf(song) ==
  [t \in 1..Len(song) |->
     [n \in 0..Len(song[t]) |->
        MapThenSumSet(LAMBDA m : SizeofNktBlock + VlqSize(song[t][m].delta), 1..n)]]
=============================================================================
