------------------------------ MODULE MidiBytes ------------------------------
(***************************************************************************)
(* Numbers in a MIDI file: variable length quantities, seven bits to a     *)
(* byte with the highest first and a mark on every byte but the last, and  *)
(* the lengths of chunks, four bytes with the highest first.               *)
(***************************************************************************)
EXTENDS Integers, Sequences, SequencesExt, FiniteSets

Byte == 0..255

\* How many bytes the quantity at s[p] has; 0 if s ends within it.  Four bytes fill
\* the buffer of WriteVarLen; longer ones are not looked for.
VLQSize(s, p) ==
  SelectInSeq(SubSeq(s, p, IF p + 3 <= Len(s) THEN p + 3 ELSE Len(s)), LAMBDA b : b < 128)

readVLQ(s, p) ==
  LET size == VLQSize(s, p)
      digit(k) == IF k < size THEN s[p + size - 1 - k] % 128 ELSE 0  \* k of them behind it
  IN  digit(0) + 128 * (digit(1) + 128 * (digit(2) + 128 * digit(3)))

WriteVarLen(value) ==
  LET last == Cardinality({k \in 1..3 : value >= 128 ^ k})
  IN  [i \in 1..last + 1 |-> ((value \div 128 ^ (last + 1 - i)) % 128)
                               + (IF i <= last THEN 128 ELSE 0)]

ReadInt(s, p) == s[p + 3] + 256 * (s[p + 2] + 256 * (s[p + 1] + 256 * s[p]))
WriteInt(value) == [i \in 1..4 |-> (value \div 256 ^ (4 - i)) % 256]

ID_MTRK == <<77, 84, 114, 107>>
=============================================================================
