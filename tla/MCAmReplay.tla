----------------------------- MODULE MCAmReplay -----------------------------
(***************************************************************************)
(* A song of one track with a chord and two tempo changes, one whose end   *)
(* has no delta, also with time divisions that ask for two ticks in an     *)
(* interrupt and for none; one that a score becomes, and two of two        *)
(* tracks: the second one may send something in the interrupt in which the *)
(* first one ends, or is not there at all.                                 *)
(***************************************************************************)
EXTENDS AmReplay

ASSUME ClockIsShort == CLOCK_MAX <= FRAC * ELAPSED_MOD

Slow == 1000000  \* microseconds: half a tick in an interrupt, where the default is one
Fast == 666666   \* three quarters
Doom == 631578   \* what a score gets

Data(d)     == [type |-> "data", delta |-> d, tempo |-> 1]
Other(d)    == [type |-> "other", delta |-> d, tempo |-> 1]
Tempo(d, t) == [type |-> "T_META_SET_TEMPO", delta |-> d, tempo |-> t]
Eot(d)      == [type |-> "T_META_EOT", delta |-> d, tempo |-> 1]

Single(timeDivision, track) ==
  [seqType |-> "ST_SINGLE", timeDivision |-> timeDivision, tracks |-> <<track>>]
Multi(first, second) ==
  [seqType |-> "ST_MULTI", timeDivision |-> 100, tracks |-> <<first, second>>]

Marks == <<Other(0), Tempo(1, Fast), Data(1), Eot(0)>>

MCSongs ==
  {Single(100, <<Data(0), Data(0), Tempo(2, Slow), Data(1), Tempo(0, Fast), Data(2), Eot(1)>>),
   Single(100, Marks), Single(200, Marks), Single(0, Marks),
   Single(89, <<Tempo(0, Doom), Data(0), Data(0), Data(0), Data(1), Eot(0)>>),
   Multi(<<Tempo(0, Fast), Data(1), Eot(0)>>, <<Data(1), Data(0), Data(1), Eot(1)>>),
   Multi(<<Data(1), Eot(1)>>, << >>)}

MCInitialStates == {{TM_PLAY_ONCE}, {TS_PS_PLAYING}}
=============================================================================
