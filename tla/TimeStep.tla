------------------------------ MODULE TimeStep ------------------------------
(***************************************************************************)
(* Tempo arithmetic: how far a song moves in an interrupt, in fractions of *)
(* a tick, 65536 to a tick.  Unsigned integers of 16 and 32 bits, each     *)
(* division cut off.                                                       *)
(***************************************************************************)
EXTENDS Integers, Sequences

FRAC         == 65536
DEFAULT_MPQN == 500000
DEFAULT_BPM  == 120
SEQUENCER_UPDATE_HZ == 200

\* The product stays below 2^32 in the first case only.
amCalculateTimeStep(qpm, ppq, ups) ==
  LET temp == (qpm % 65536) * ppq
  IN  IF temp < 65536 THEN ((temp * 65536) \div 60) \div ups
                      ELSE (((temp \div 60) % 65536) * 65536) \div ups

\* Frames in a second are not supported.
amDecodeTimeDivisionInfo(timeDivision) == IF timeDivision >= 32768 THEN 0 ELSE timeDivision

\* The tempo in the three bytes of an event, and the step it makes.
TempoVal(bytes) == bytes[1] * 65536 + bytes[2] * 256 + bytes[3]
BPM(mpqn)       == 60000000 \div mpqn
StepAt(mpqn, timeDivision) == amCalculateTimeStep(BPM(mpqn), timeDivision, SEQUENCER_UPDATE_HZ)
=============================================================================
