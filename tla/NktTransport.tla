---------------------------- MODULE NktTransport ----------------------------
(***************************************************************************)
(* What the player promises the program that drives it, and the listener:  *)
(* the position moves on only while the song plays, the song ends only     *)
(* when every track has been played out, a halted song keeps its place or  *)
(* goes to the top, and sound starts in no other mode than playing.        *)
(***************************************************************************)
EXTENDS Naturals, Sequences

VARIABLES
  lengths, \* how many blocks each track has before its end
  mode, pos, sounding
vars == <<lengths, mode, pos, sounding>>

Modes == {"stopped", "playing", "paused"}
Top   == [t \in DOMAIN lengths |-> 0]

Init == lengths \in Seq(Nat) /\ mode = "off" /\ pos = Top /\ sounding = FALSE

Load    == mode = "off" /\ mode' \in Modes /\ pos' = Top /\ UNCHANGED sounding
Unload  == mode # "off" /\ mode' = "off" /\ UNCHANGED <<pos, sounding>>
Command == mode # "off" /\ mode' \in Modes /\ UNCHANGED <<pos, sounding>>

Advance == /\ mode = "playing"
           /\ \E t \in DOMAIN lengths :
                \E p \in pos[t] + 1..lengths[t] : pos' = [pos EXCEPT ![t] = p]
           /\ UNCHANGED <<mode, sounding>>
Sound   == mode = "playing" /\ sounding' = TRUE /\ UNCHANGED <<mode, pos>>
Finish  == /\ mode = "playing" /\ pos = lengths
           /\ mode' \in {"stopped", "playing"} /\ pos' = Top /\ sounding' = FALSE

Rewind  == mode = "stopped" /\ pos' = Top /\ sounding' = FALSE /\ UNCHANGED mode
Hush    == mode # "playing" /\ sounding' = FALSE /\ UNCHANGED <<mode, pos>>

Replace == mode = "off" /\ lengths' \in Seq(Nat) /\ pos' = Top' /\ UNCHANGED <<mode, sounding>>

Next == \/ /\ Load \/ Unload \/ Command \/ Advance \/ Sound \/ Finish \/ Rewind \/ Hush
           /\ UNCHANGED lengths
        \/ Replace
Spec == Init /\ [][Next]_vars
=============================================================================
