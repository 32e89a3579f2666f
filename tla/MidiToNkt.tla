------------------------------ MODULE MidiToNkt ------------------------------
(***************************************************************************)
(* The converter from a MIDI track to NKT event blocks.  It reads the      *)
(* track twice: collectMidiTrackInfo counts the blocks and the bytes they  *)
(* will take, the buffers are made that large, and midiTrackDataToNkt      *)
(* fills them.  Both passes take the events in groups: one event and all   *)
(* those behind it with delta 0.  The channel messages of a group are      *)
(* gathered in a buffer and become one data block, written when the group  *)
(* ends; a tempo change or the end of track becomes a block at once.       *)
(***************************************************************************)
EXTENDS Integers, Sequences, FiniteSets, SequencesExt, RunningSums

CONSTANTS
  Tracks,    \* the MIDI tracks to convert: sequences of events
  VLQ_BASE   \* first delta that needs a second byte, 128 in the code

Kinds == {"data", "tempo", "eot", "other"}
Event == [kind : Kinds, delta : Nat, size : Nat]

ASSUME TracksAssumption == Tracks \subseteq Seq(Event)
ASSUME VlqAssumption == VLQ_BASE \in Nat \ {0}

\* A channel message leaves at least one byte in the group's buffer.
ASSUME DataAssumption ==
  \A t \in Tracks : \A i \in 1..Len(t) : t[i].kind = "data" => t[i].size > 0

SizeofNktBlock == 8
TempoBytes     == 20 \* what a tempo change takes in the data buffer
TempoCounted   == 17 \* what collectMetaEventInfo adds for one

VlqSize(d) == IF d < VLQ_BASE THEN 1 ELSE 2 \* of the deltas below VLQ_BASE^2

VARIABLES
  track,      \* the track under conversion
  pass,       \* "collect", "convert" or "done"
  pCmd,       \* the next event
  groupOpen,  \* inside the loop that takes the events of a group
  delta,      \* delta of the group
  bufPos,     \* bytes of the group's channel messages
  buffer,     \* those messages, as numbers of events
  bEOT,
  nbOfBlocks, eventsBlockSize, dataBlockSize,     \* counted by the first pass
  blocks, eventsBlockOffset, dataBlockOffset      \* written by the second one

counted == <<nbOfBlocks, eventsBlockSize, dataBlockSize>>
written == <<blocks, eventsBlockOffset, dataBlockOffset>>
vars == <<track, pass, pCmd, groupOpen, delta, bufPos, buffer, bEOT, counted, written>>

Init ==
  /\ track \in Tracks
  /\ pass = "collect" /\ pCmd = 1 /\ groupOpen = FALSE /\ delta = 0
  /\ bufPos = 0 /\ buffer = << >> /\ bEOT = FALSE
  /\ nbOfBlocks = 0 /\ eventsBlockSize = 0 /\ dataBlockSize = 0
  /\ blocks = << >> /\ eventsBlockOffset = 0 /\ dataBlockOffset = 0

-----------------------------------------------------------------------------
(* The loop both passes share.                                             *)

MoreEvents == pCmd <= Len(track) /\ ~bEOT
TakesEvent == MoreEvents /\ (groupOpen => track[pCmd].delta = 0)

\* The delta the event is processed with: the group's, or 0 inside it.
EventDelta == IF groupOpen THEN 0 ELSE track[pCmd].delta

\* Mutants: the payload of an event is skipped twice; a group does not begin
\* with the delta of its first event.
TakeEventSkipsTwice ==
  /\ TakesEvent
  /\ pCmd' = pCmd + 2
  /\ groupOpen' = TRUE
  /\ delta' = IF groupOpen THEN delta ELSE track[pCmd].delta
  /\ bEOT' = (track[pCmd].kind = "eot")
TakeEventOldDelta ==
  /\ TakesEvent
  /\ pCmd' = pCmd + 1
  /\ groupOpen' = TRUE
  /\ delta' = track[pCmd].delta
  /\ bEOT' = (track[pCmd].kind = "eot")

TakeEvent ==
  /\ TakesEvent
  /\ pCmd' = pCmd + 1
  /\ groupOpen' = TRUE
  /\ delta' = IF groupOpen THEN delta ELSE track[pCmd].delta
  /\ bEOT' = (track[pCmd].kind = "eot")

\* Mutant: the messages of the group stay in the buffer.
LeaveGroupKeepsBuffer ==
  /\ groupOpen /\ ~TakesEvent
  /\ groupOpen' = FALSE
  /\ UNCHANGED <<pCmd, delta, bEOT, bufPos, buffer>>

LeaveGroup ==
  /\ groupOpen /\ ~TakesEvent
  /\ groupOpen' = FALSE
  /\ bufPos' = 0 /\ buffer' = << >>
  /\ UNCHANGED <<pCmd, delta, bEOT>>

-----------------------------------------------------------------------------
(* First pass: collectMidiTrackInfo.                                       *)

CountBlock(d) == /\ nbOfBlocks' = nbOfBlocks + 1
                 /\ eventsBlockSize' = eventsBlockSize + VlqSize(d) + SizeofNktBlock

CollectData ==
  /\ pass = "collect" /\ TakeEvent /\ track[pCmd].kind = "data"
  /\ bufPos' = bufPos + track[pCmd].size
  /\ UNCHANGED <<track, pass, buffer, counted, written>>

\* The bytes of a tempo change go to the group's buffer: a group with nothing
\* else in it is counted as a data block as well.
CollectTempo ==
  /\ pass = "collect" /\ TakeEvent /\ track[pCmd].kind = "tempo"
  /\ CountBlock(EventDelta)
  /\ bufPos' = bufPos + TempoCounted
  /\ UNCHANGED <<track, pass, buffer, dataBlockSize, written>>

CollectEot ==
  /\ pass = "collect" /\ TakeEvent /\ track[pCmd].kind = "eot"
  /\ CountBlock(EventDelta)
  /\ UNCHANGED <<track, pass, bufPos, buffer, dataBlockSize, written>>

CollectOther ==
  /\ pass = "collect" /\ TakeEvent /\ track[pCmd].kind = "other"
  /\ UNCHANGED <<track, pass, bufPos, buffer, counted, written>>

\* Mutant: the data block of a group is not counted.
CollectGroupUncounted ==
  /\ pass = "collect" /\ LeaveGroup
  /\ dataBlockSize' = dataBlockSize + bufPos
  /\ UNCHANGED <<track, pass, nbOfBlocks, eventsBlockSize, written>>

CollectGroup ==
  /\ pass = "collect" /\ LeaveGroup
  /\ IF bufPos > 0 THEN CountBlock(delta) /\ dataBlockSize' = dataBlockSize + bufPos
                   ELSE UNCHANGED counted
  /\ UNCHANGED <<track, pass, written>>

\* Midi2Nkt makes room for an end the track does not have.
Collected ==
  /\ pass = "collect" /\ ~groupOpen /\ ~MoreEvents
  /\ IF bEOT THEN UNCHANGED counted ELSE CountBlock(0) /\ UNCHANGED dataBlockSize
  /\ pass' = "convert" /\ pCmd' = 1 /\ bEOT' = FALSE
  /\ UNCHANGED <<track, groupOpen, delta, bufPos, buffer, written>>

-----------------------------------------------------------------------------
(* Second pass: midiTrackDataToNkt.                                        *)

WriteBlock(msgType, d, size, events) ==
  /\ blocks' = Append(blocks, [msgType |-> msgType, delta |-> d, vlq |-> VlqSize(d),
                               bufferOffset |-> dataBlockOffset, blockSize |-> size,
                               events |-> events])
  /\ eventsBlockOffset' = eventsBlockOffset + VlqSize(d) + SizeofNktBlock
  /\ dataBlockOffset' = dataBlockOffset + size

ConvertData ==
  /\ pass = "convert" /\ TakeEvent /\ track[pCmd].kind = "data"
  /\ bufPos' = bufPos + track[pCmd].size /\ buffer' = Append(buffer, pCmd)
  /\ UNCHANGED <<track, pass, counted, written>>

ConvertTempo ==
  /\ pass = "convert" /\ TakeEvent /\ track[pCmd].kind = "tempo"
  /\ WriteBlock("tempo", EventDelta, TempoBytes, << >>)
  /\ UNCHANGED <<track, pass, bufPos, buffer, counted>>

ConvertEot ==
  /\ pass = "convert" /\ TakeEvent /\ track[pCmd].kind = "eot"
  /\ WriteBlock("end", EventDelta, 0, << >>)
  /\ UNCHANGED <<track, pass, bufPos, buffer, counted>>

ConvertOther ==
  /\ pass = "convert" /\ TakeEvent /\ track[pCmd].kind = "other"
  /\ UNCHANGED <<track, pass, bufPos, buffer, counted, written>>

ConvertGroup ==
  /\ pass = "convert" /\ LeaveGroup
  /\ IF bufPos > 0 THEN WriteBlock("data", delta, bufPos, buffer) ELSE UNCHANGED written
  /\ UNCHANGED <<track, pass, counted>>

\* Mutant: no end is put behind a track that has none.
ConvertedWithoutEnd ==
  /\ pass = "convert" /\ ~groupOpen /\ ~MoreEvents
  /\ pass' = "done"
  /\ UNCHANGED <<track, pCmd, groupOpen, delta, bufPos, buffer, bEOT, counted, written>>

\* A missing end is written behind the last block, but its delta is written at
\* the start of the events buffer, over the first byte of the first block.
Converted ==
  /\ pass = "convert" /\ ~groupOpen /\ ~MoreEvents
  /\ IF bEOT THEN UNCHANGED written
     ELSE LET end   == [msgType |-> "end", delta |-> 0, vlq |-> 1,
                        bufferOffset |-> 0, blockSize |-> 0, events |-> << >>]
              first == IF blocks = << >> THEN << >> ELSE <<[blocks[1] EXCEPT !.delta = 0]>>
          IN  /\ blocks' = Append(first \o SubSeq(blocks, 2, Len(blocks)), end)
              /\ eventsBlockOffset' = eventsBlockOffset + 1 + SizeofNktBlock
              /\ UNCHANGED dataBlockOffset
  /\ pass' = "done"
  /\ UNCHANGED <<track, pCmd, groupOpen, delta, bufPos, buffer, bEOT, counted>>

Next == \/ CollectData \/ CollectTempo \/ CollectEot \/ CollectOther
        \/ CollectGroup \/ Collected
        \/ ConvertData \/ ConvertTempo \/ ConvertEot \/ ConvertOther
        \/ ConvertGroup \/ Converted
Spec == Init /\ [][Next]_vars

-----------------------------------------------------------------------------
\* The counts and offsets are numbers, the position inside the track or behind.
TypeOK ==
  /\ track \in Tracks /\ pass \in {"collect", "convert", "done"}
  /\ pCmd \in 1..Len(track) + 1
  /\ groupOpen \in BOOLEAN /\ bEOT \in BOOLEAN
  /\ delta \in Nat /\ bufPos \in Nat
  /\ buffer \in Seq(1..Len(track))
  /\ nbOfBlocks \in Nat /\ eventsBlockSize \in Nat /\ dataBlockSize \in Nat
  /\ eventsBlockOffset \in Nat /\ dataBlockOffset \in Nat
  /\ Len(blocks) <= 2 * Len(track) + 1

Done == pass = "done"

\* The second pass never writes more blocks, or more bytes of them, than the
\* first one made room for: the two parse the track alike.
EventsFit == pass # "collect" =>
  Len(blocks) <= nbOfBlocks /\ eventsBlockOffset <= eventsBlockSize

\* The data of every block lies inside the bytes that were counted for the
\* data, which are the bytes saved to the file.
DataFits == Done => \A i \in 1..Len(blocks) :
  blocks[i].bufferOffset + blocks[i].blockSize <= dataBlockSize

Kept == FlattenSeq([i \in 1..Len(blocks) |-> blocks[i].events])

\* Every channel message of the track, up to its end, is in a block, in order and once.
DataKept == Done =>
  /\ \A i, j \in 1..Len(Kept) : i < j => Kept[i] < Kept[j]
  /\ {Kept[i] : i \in 1..Len(Kept)} =
       {i \in 1..Len(track) :
          track[i].kind = "data" /\ \A k \in 1..i - 1 : track[k].kind # "eot"}

\* There is one end, with nothing behind it but the data of its own group, of which
\* the end of track was not the first event.
EndsOnce == Done =>
  \E e \in 1..Len(blocks) :
    /\ {i \in 1..Len(blocks) : blocks[i].msgType = "end"} = {e}
    /\ e < Len(blocks) =>
         /\ e + 1 = Len(blocks) /\ track[pCmd - 1].delta = 0
         /\ blocks[e + 1].msgType = "data"

\* The tick event i has in track t, and the one updateStepNkt sends the j-th of the
\* blocks b at: it takes the block behind a tempo change in the same tick.
TickOf(t, i) == RunningSum([k \in 1..Len(t) |-> t[k].delta])[i]
PlayedAt(b, j) ==
  RunningSum([m \in 1..Len(b) |-> IF m > 1 /\ b[m - 1].msgType = "tempo"
                                  THEN 0 ELSE b[m].delta])[j]

\* A track whose groups keep their ticks: one with a delta in front has a message, a
\* tempo change in it comes first and has a message behind it, and the end of track has
\* a tick of its own.  What is left out stands beside messages, or at the start.
Plain(t) == \E e \in 1..Len(t) :
  /\ t[e].kind = "eot" /\ \A k \in 1..e - 1 : t[k].kind # "eot"
  /\ \A g \in 1..e : g = 1 \/ t[g].delta > 0 =>
       LET group == {i \in g..e : \A k \in g + 1..i : t[k].delta = 0}
           Has(kind) == \E i \in group : t[i].kind = kind
       IN  /\ Has("eot") => t[g].kind = "eot"
           /\ Has("tempo") => Has("data") /\ (t[g].delta > 0 => t[g].kind = "tempo")
           /\ t[g].delta > 0 => Has("data") \/ Has("eot")

\* No message the player reaches is late, whatever the track: what is lost at a group
\* that leaves no block, or behind a tempo change, makes it early.  Of a plain track
\* each is sent at its tick.
KeepsTime == Done =>
  \A j \in 1..Len(blocks) : \A i \in 1..Len(blocks[j].events) :
    LET played == PlayedAt(blocks, j)
        tick   == TickOf(track, blocks[j].events[i])
    IN  /\ Plain(track) => played = tick
        /\ (\A k \in 1..j - 1 : blocks[k].msgType # "end") => played <= tick
=============================================================================
