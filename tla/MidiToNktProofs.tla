-------------------------- MODULE MidiToNktProofs --------------------------
(***************************************************************************)
(* Theorems about the conversion of any track: the types, the one end that *)
(* what it writes has, the room that the first pass makes for the second,  *)
(* the messages that are kept, and the ticks they are played at.           *)
(***************************************************************************)
EXTENDS MidiToNkt, InductionTheorems, SequenceTheorems

Block == [msgType : {"data", "tempo", "end"}, delta : Nat, vlq : Nat,
          bufferOffset : Nat, blockSize : Nat, events : Seq(Nat)]

\* An event adds a block at most, and so does the group it began; before the second
\* pass there are none.
BlocksBounded ==
  /\ blocks \in Seq(Block)
  /\ pass = "collect" => blocks = << >>
  /\ pass = "convert" =>
       Len(blocks) <= 2 * (pCmd - 1) /\ (groupOpen => Len(blocks) < 2 * (pCmd - 1))

\* Between groups there is nothing left of one.
GroupsEmptied == ~groupOpen => bufPos = 0

TypeInv == TypeOK /\ BlocksBounded /\ GroupsEmptied

\* The track is one of events.
LEMMA TrackFacts ==
  ASSUME TypeOK
  PROVE  Len(track) \in Nat /\ \A i \in 1..Len(track) : track[i] \in Event
<1>1. track \in Seq(Event)
  BY TracksAssumption DEF TypeOK
<1> QED BY <1>1

\* What an event that is taken leaves of the loop's variables.
LEMMA TakeTypes ==
  ASSUME TypeOK, TakeEvent
  PROVE  /\ pCmd \in 1..Len(track) /\ pCmd' \in 1..Len(track) + 1 /\ pCmd' = pCmd + 1
         /\ groupOpen' = TRUE /\ delta' \in Nat /\ bEOT' \in BOOLEAN
         /\ EventDelta \in Nat /\ track[pCmd] \in Event /\ ~bEOT
         /\ groupOpen => track[pCmd].delta = 0
<1>1. pCmd \in 1..Len(track) /\ pCmd' = pCmd + 1 /\ Len(track) \in Nat
  BY TrackFacts DEF TakeEvent, TakesEvent, MoreEvents, TypeOK
<1>2. track[pCmd] \in Event
  BY <1>1, TrackFacts
<1>3. track[pCmd].delta \in Nat
  BY <1>2 DEF Event
<1>4. delta' \in Nat /\ EventDelta \in Nat
  BY <1>3 DEF TakeEvent, EventDelta, TypeOK
<1>5. groupOpen' = TRUE /\ bEOT' \in BOOLEAN /\ ~bEOT
      /\ (groupOpen => track[pCmd].delta = 0)
  BY DEF TakeEvent, TakesEvent, MoreEvents
<1> QED BY <1>1, <1>2, <1>4, <1>5

\* The delta of a block takes a byte or two.
LEMMA VlqType == ASSUME NEW d PROVE VlqSize(d) \in Nat
  BY DEF VlqSize

\* A block is written behind the others.
LEMMA WriteTypes ==
  ASSUME TypeOK, blocks \in Seq(Block), NEW type \in {"data", "tempo", "end"},
         NEW d \in Nat, NEW size \in Nat, NEW events \in Seq(Nat),
         WriteBlock(type, d, size, events)
  PROVE  /\ blocks' \in Seq(Block) /\ Len(blocks') = Len(blocks) + 1 /\ Len(blocks) \in Nat
         /\ eventsBlockOffset' \in Nat /\ dataBlockOffset' \in Nat
         /\ \A i \in 1..Len(blocks) : blocks'[i] = blocks[i]
         /\ blocks'[Len(blocks) + 1].msgType = type
         /\ blocks'[Len(blocks) + 1].events = events /\ blocks'[Len(blocks) + 1].delta = d
<1> DEFINE b == [msgType |-> type, delta |-> d, vlq |-> VlqSize(d),
                 bufferOffset |-> dataBlockOffset, blockSize |-> size, events |-> events]
<1>1. b \in Block /\ b.msgType = type /\ b.events = events /\ b.delta = d
  BY VlqType DEF Block, TypeOK
<1>2. blocks' = Append(blocks, b)
  BY DEF WriteBlock
<1> HIDE DEF b
<1>3. /\ blocks' \in Seq(Block) /\ Len(blocks') = Len(blocks) + 1 /\ Len(blocks) \in Nat
      /\ \A i \in 1..Len(blocks) : blocks'[i] = blocks[i]
      /\ blocks'[Len(blocks) + 1] = b
  BY <1>1, <1>2, AppendProperties
<1>4. eventsBlockOffset' \in Nat /\ dataBlockOffset' \in Nat
  BY VlqType DEF WriteBlock, TypeOK, SizeofNktBlock
<1> QED BY <1>1, <1>3, <1>4

\* A block is counted.
LEMMA CountTypes ==
  ASSUME TypeOK, NEW d, CountBlock(d) PROVE nbOfBlocks' \in Nat /\ eventsBlockSize' \in Nat
  BY VlqType DEF CountBlock, TypeOK, SizeofNktBlock

-----------------------------------------------------------------------------
(* The types.                                                              *)

\* A conversion starts with nothing counted and nothing written.
LEMMA TypeInit == Init => TypeInv
<1> SUFFICES ASSUME Init PROVE TypeInv
  OBVIOUS
<1>1. Len(track) \in Nat
  <2>1. track \in Seq(Event)
    BY TracksAssumption DEF Init
  <2> QED BY <2>1
<1>2. blocks \in Seq(Block) /\ Len(blocks) = 0 /\ buffer \in Seq(1..Len(track))
  BY DEF Init
<1>3. pCmd \in 1..Len(track) + 1 /\ Len(blocks) <= 2 * Len(track) + 1
  BY <1>1, <1>2 DEF Init
<1>4. TypeOK
  BY <1>2, <1>3 DEF Init, TypeOK
<1> QED BY <1>2, <1>4 DEF Init, TypeInv, BlocksBounded, GroupsEmptied

\* The first pass.
LEMMA CollectTypes ==
  ASSUME TypeInv, \/ CollectData \/ CollectTempo \/ CollectEot \/ CollectOther
                  \/ CollectGroup
  PROVE  TypeInv'
<1>0. /\ TypeOK /\ track' = track /\ pass = "collect" /\ pass' = "collect"
      /\ UNCHANGED written
  BY DEF CollectData, CollectTempo, CollectEot, CollectOther, CollectGroup, TypeInv
<1>1. CASE CollectGroup
  <2>1. /\ groupOpen' = FALSE /\ bufPos' = 0 /\ buffer' = << >>
        /\ UNCHANGED <<pCmd, delta, bEOT>>
    BY <1>1 DEF CollectGroup, LeaveGroup
  <2>2. nbOfBlocks' \in Nat /\ eventsBlockSize' \in Nat /\ dataBlockSize' \in Nat
    BY <1>0, <1>1, CountTypes DEF CollectGroup, counted, TypeOK
  <2>3. buffer' \in Seq(1..Len(track))
    BY <2>1
  <2> QED
    BY <1>0, <2>1, <2>2, <2>3 DEF written, TypeInv, TypeOK, BlocksBounded, GroupsEmptied
<1>2. CASE CollectData \/ CollectTempo \/ CollectEot \/ CollectOther
  <2>1. TakeEvent
    BY <1>2 DEF CollectData, CollectTempo, CollectEot, CollectOther
  <2>2. /\ pCmd' \in 1..Len(track) + 1 /\ groupOpen' = TRUE /\ delta' \in Nat
        /\ bEOT' \in BOOLEAN /\ track[pCmd] \in Event
    BY <1>0, <2>1, TakeTypes
  <2>3. bufPos' \in Nat /\ buffer' = buffer
    BY <1>0, <1>2, <2>2 DEF CollectData, CollectTempo, CollectEot, CollectOther,
                            TempoCounted, Event, TypeOK
  <2>4. nbOfBlocks' \in Nat /\ eventsBlockSize' \in Nat /\ dataBlockSize' \in Nat
    BY <1>0, <1>2, CountTypes DEF CollectData, CollectTempo, CollectEot, CollectOther,
                                  counted, TypeOK
  <2> QED
    BY <1>0, <2>2, <2>3, <2>4 DEF written, TypeInv, TypeOK, BlocksBounded, GroupsEmptied
<1> QED BY <1>1, <1>2

\* The track is gone back to for the second pass.
LEMMA CollectedTypes == ASSUME TypeInv, Collected PROVE TypeInv'
<1>1. /\ TypeOK /\ pass = "collect" /\ pass' = "convert" /\ pCmd' = 1 /\ bEOT' = FALSE
      /\ ~groupOpen /\ blocks = << >>
      /\ UNCHANGED <<track, groupOpen, delta, bufPos, buffer, written>>
  BY DEF Collected, TypeInv, BlocksBounded
<1>2. nbOfBlocks' \in Nat /\ eventsBlockSize' \in Nat /\ dataBlockSize' \in Nat
  BY <1>1, CountTypes DEF Collected, counted, TypeOK
<1>3. 1 \in 1..Len(track) + 1 /\ Len(blocks) = 0
  BY <1>1, TrackFacts
<1>4. TypeOK'
  BY <1>1, <1>2, <1>3 DEF written, TypeOK
<1>5. BlocksBounded'
  BY <1>1, <1>3 DEF written, TypeInv, BlocksBounded
<1> QED
  BY <1>1, <1>4, <1>5 DEF TypeInv, GroupsEmptied

\* An event of the second pass, which writes a block at most.
LEMMA ConvertTypes ==
  ASSUME TypeInv, ConvertData \/ ConvertTempo \/ ConvertEot \/ ConvertOther
  PROVE  TypeInv'
<1>0. /\ TypeOK /\ blocks \in Seq(Block) /\ UNCHANGED <<track, pass, counted>>
      /\ pass = "convert" /\ TakeEvent
  BY DEF ConvertData, ConvertTempo, ConvertEot, ConvertOther, TypeInv, BlocksBounded
<1>1. /\ pCmd' \in 1..Len(track) + 1 /\ pCmd' = pCmd + 1 /\ pCmd \in 1..Len(track)
      /\ groupOpen' = TRUE /\ delta' \in Nat /\ bEOT' \in BOOLEAN
      /\ track[pCmd] \in Event /\ EventDelta \in Nat
  BY <1>0, TakeTypes
<1>2. bufPos' \in Nat /\ buffer' \in Seq(1..Len(track))
  <2>1. CASE ConvertData
    <3>1. buffer' = Append(buffer, pCmd) /\ bufPos' = bufPos + track[pCmd].size
      BY <2>1 DEF ConvertData
    <3>2. buffer' \in Seq(1..Len(track))
      BY <1>0, <1>1, <3>1, AppendProperties DEF TypeOK
    <3> QED BY <1>0, <1>1, <3>1, <3>2 DEF TypeOK, Event
  <2>2. CASE ~ConvertData
    BY <1>0, <2>2 DEF ConvertTempo, ConvertEot, ConvertOther, TypeOK
  <2> QED BY <2>1, <2>2
<1>3. /\ blocks' \in Seq(Block) /\ eventsBlockOffset' \in Nat /\ dataBlockOffset' \in Nat
      /\ Len(blocks) \in Nat /\ Len(blocks') \in Nat /\ Len(blocks') <= Len(blocks) + 1
  <2>1. << >> \in Seq(Nat) /\ 0 \in Nat /\ TempoBytes \in Nat
    BY DEF TempoBytes
  <2>2. CASE ConvertTempo
    <3>1. WriteBlock("tempo", EventDelta, TempoBytes, << >>)
      BY <2>2 DEF ConvertTempo
    <3>2. /\ blocks' \in Seq(Block) /\ Len(blocks') = Len(blocks) + 1 /\ Len(blocks) \in Nat
          /\ eventsBlockOffset' \in Nat /\ dataBlockOffset' \in Nat
      BY <1>0, <1>1, <2>1, <3>1, WriteTypes
    <3> QED BY <3>2
  <2>3. CASE ConvertEot
    <3>1. WriteBlock("end", EventDelta, 0, << >>)
      BY <2>3 DEF ConvertEot
    <3>2. /\ blocks' \in Seq(Block) /\ Len(blocks') = Len(blocks) + 1 /\ Len(blocks) \in Nat
          /\ eventsBlockOffset' \in Nat /\ dataBlockOffset' \in Nat
      BY <1>0, <1>1, <2>1, <3>1, WriteTypes
    <3> QED BY <3>2
  <2>4. CASE ConvertData \/ ConvertOther
    BY <1>0, <2>4 DEF ConvertData, ConvertOther, written, TypeOK
  <2> QED BY <2>2, <2>3, <2>4
<1>4. Len(track) \in Nat
  BY <1>0, TrackFacts
<1>5. Len(blocks') < 2 * (pCmd' - 1) /\ Len(blocks') <= 2 * Len(track) + 1
  <2>1. Len(blocks) <= 2 * (pCmd - 1) /\ (groupOpen => Len(blocks) < 2 * (pCmd - 1))
    BY <1>0 DEF TypeInv, BlocksBounded
  <2> QED BY <1>0, <1>1, <1>3, <1>4, <2>1
<1> QED
  BY <1>0, <1>1, <1>2, <1>3, <1>5
     DEF counted, TypeInv, TypeOK, BlocksBounded, GroupsEmptied

\* The data block of a group.
LEMMA GroupTypes == ASSUME TypeInv, ConvertGroup PROVE TypeInv'
<1>0. /\ TypeOK /\ blocks \in Seq(Block) /\ pass = "convert"
      /\ UNCHANGED <<track, pass, counted, pCmd, delta, bEOT>>
      /\ groupOpen /\ groupOpen' = FALSE /\ bufPos' = 0 /\ buffer' = << >>
  BY DEF ConvertGroup, LeaveGroup, TypeInv, BlocksBounded
<1>1. /\ blocks' \in Seq(Block) /\ eventsBlockOffset' \in Nat /\ dataBlockOffset' \in Nat
      /\ Len(blocks) \in Nat /\ Len(blocks') \in Nat /\ Len(blocks') <= Len(blocks) + 1
  <2>1. CASE bufPos > 0
    <3>1. buffer \in Seq(Nat) /\ delta \in Nat /\ bufPos \in Nat
      BY <1>0, TrackFacts DEF TypeOK
    <3>2. WriteBlock("data", delta, bufPos, buffer)
      BY <2>1 DEF ConvertGroup
    <3> QED BY <1>0, <3>1, <3>2, WriteTypes
  <2>2. CASE ~(bufPos > 0)
    BY <1>0, <2>2 DEF ConvertGroup, written, TypeOK
  <2> QED BY <2>1, <2>2
<1>2. Len(blocks') <= 2 * (pCmd - 1) /\ Len(blocks') <= 2 * Len(track) + 1
  <2>1. Len(blocks) < 2 * (pCmd - 1)
    BY <1>0 DEF TypeInv, BlocksBounded
  <2>2. pCmd \in 1..Len(track) + 1 /\ Len(track) \in Nat
    BY <1>0, TrackFacts DEF TypeOK
  <2> QED BY <1>1, <2>1, <2>2
<1>3. buffer' \in Seq(1..Len(track))
  BY <1>0
<1>4. TypeOK'
  BY <1>0, <1>1, <1>2, <1>3 DEF counted, TypeOK
<1>5. BlocksBounded'
  BY <1>0, <1>1, <1>2 DEF BlocksBounded
<1> QED
  BY <1>0, <1>4, <1>5 DEF TypeInv, GroupsEmptied

\* Only the second pass's end writes outside a group, an end where the track has none;
\* the delta of the block it writes over is 0.
LEMMA ConvertedTypes ==
  ASSUME TypeInv, Converted
  PROVE  /\ TypeInv'
         /\ ~bEOT => /\ Len(blocks') = Len(blocks) + 1
                     /\ \A i \in 1..Len(blocks) : /\ blocks'[i].msgType = blocks[i].msgType
                                                 /\ blocks'[i].events = blocks[i].events
                                                 /\ blocks'[i].delta <= blocks[i].delta
                     /\ blocks'[Len(blocks) + 1].msgType = "end"
                     /\ blocks'[Len(blocks) + 1].events = << >>
<1>0. /\ TypeOK /\ blocks \in Seq(Block) /\ pass = "convert" /\ ~groupOpen /\ pass' = "done"
      /\ UNCHANGED <<track, pCmd, groupOpen, delta, bufPos, buffer, bEOT, counted>>
      /\ Len(blocks) \in Nat /\ Len(track) \in Nat
  <2>1. TypeOK /\ blocks \in Seq(Block)
    BY DEF TypeInv, BlocksBounded
  <2> QED BY <2>1, TrackFacts DEF Converted
<1>1. Len(blocks) <= 2 * Len(track)
  <2>1. Len(blocks) <= 2 * (pCmd - 1) /\ pCmd \in 1..Len(track) + 1
    BY <1>0 DEF TypeInv, TypeOK, BlocksBounded
  <2> QED BY <1>0, <2>1
<1>2. CASE bEOT
  <2>1. UNCHANGED written
    BY <1>2 DEF Converted
  <2> QED
    BY <1>0, <1>2, <2>1 DEF written, counted, TypeInv, TypeOK, BlocksBounded, GroupsEmptied
<1>3. CASE ~bEOT
  <2> DEFINE end == [msgType |-> "end", delta |-> 0, vlq |-> 1,
                     bufferOffset |-> 0, blockSize |-> 0, events |-> << >>]
             first == IF blocks = << >> THEN << >> ELSE <<[blocks[1] EXCEPT !.delta = 0]>>
             all == first \o SubSeq(blocks, 2, Len(blocks))
  <2>1. /\ blocks' = Append(all, end)
        /\ eventsBlockOffset' = eventsBlockOffset + 1 + SizeofNktBlock
        /\ UNCHANGED dataBlockOffset
    BY <1>3 DEF Converted
  <2>2. end \in Block /\ end.msgType = "end" /\ end.events = << >>
    BY DEF Block
  <2>3. /\ all \in Seq(Block) /\ Len(all) = Len(blocks)
        /\ \A i \in 1..Len(blocks) : /\ all[i].msgType = blocks[i].msgType
                                    /\ all[i].events = blocks[i].events
                                    /\ all[i].delta <= blocks[i].delta
    <3>1. CASE blocks = << >>
      BY <3>1
    <3>2. CASE blocks # << >>
      <4> DEFINE head == [blocks[1] EXCEPT !.delta = 0]
                 tail == SubSeq(blocks, 2, Len(blocks))
      <4>1. Len(blocks) >= 1 /\ blocks[1] \in Block /\ \A i \in 1..Len(blocks) : blocks[i] \in Block
        BY <1>0, <3>2
      <4>2. /\ head \in Block /\ head.msgType = blocks[1].msgType
            /\ head.events = blocks[1].events /\ head.delta <= blocks[1].delta
        <5>1. PICK e \in Block : e = blocks[1]
          BY <4>1
        <5>2. e.delta \in Nat
          BY DEF Block
        <5> QED BY <5>1, <5>2 DEF Block
      <4>3. /\ tail \in Seq(Block) /\ Len(tail) = Len(blocks) - 1
            /\ \A i \in 1..Len(tail) : tail[i] = blocks[i + 1]
        <5> DEFINE n == Len(blocks)
        <5>1. n \in Nat \ {0} /\ \A i \in 2..n : blocks[i] \in Block
          BY <1>0, <4>1
        <5>2. /\ tail \in Seq(Block) /\ Len(tail) = IF 2 <= n THEN n - 2 + 1 ELSE 0
              /\ \A i \in 1..n - 2 + 1 : tail[i] = blocks[2 + i - 1]
          BY <5>1, SubSeqProperties
        <5> HIDE DEF n, tail
        <5>3. Len(tail) = n - 1 /\ \A i \in 1..n - 1 : tail[i] = blocks[i + 1]
          <6>1. Len(tail) = n - 1
            BY <5>1, <5>2
          <6>2. ASSUME NEW i \in 1..n - 1 PROVE tail[i] = blocks[i + 1]
            <7>1. i \in 1..n - 2 + 1 /\ 2 + i - 1 = i + 1
              BY <5>1
            <7> QED BY <5>2, <7>1
          <6> QED BY <6>1, <6>2
        <5> QED BY <5>2, <5>3 DEF n
      <4>4. all = <<head>> \o tail
        BY <3>2
      <4> HIDE DEF head, tail, all
      <4>5. <<head>> \in Seq(Block) /\ Len(<<head>>) = 1 /\ <<head>>[1] = head
        BY <4>2
      <4>6. /\ all \in Seq(Block) /\ Len(all) = Len(blocks) /\ all[1] = head
            /\ \A i \in 2..Len(blocks) : all[i] = tail[i - 1]
        BY <1>0, <4>1, <4>3, <4>4, <4>5, ConcatProperties
      <4>7. ASSUME NEW i \in 1..Len(blocks)
            PROVE  /\ all[i].msgType = blocks[i].msgType /\ all[i].events = blocks[i].events
                   /\ all[i].delta <= blocks[i].delta
        <5>1. CASE i = 1
          BY <4>2, <4>6, <5>1
        <5>2. CASE i # 1
          <6>1. i \in 2..Len(blocks) /\ i - 1 \in 1..Len(tail) /\ (i - 1) + 1 = i
            BY <1>0, <4>3, <5>2
          <6>2. all[i] = blocks[i]
            BY <4>3, <4>6, <6>1
          <6>3. blocks[i].delta \in Nat
            BY <4>1 DEF Block
          <6> QED BY <6>2, <6>3
        <5> QED BY <5>1, <5>2
      <4> QED BY <4>6, <4>7
    <3> QED BY <3>1, <3>2
  <2> HIDE DEF end, all
  <2>4. /\ blocks' \in Seq(Block) /\ Len(blocks') = Len(blocks) + 1
        /\ \A i \in 1..Len(blocks) : blocks'[i] = all[i]
        /\ blocks'[Len(blocks) + 1] = end
    BY <2>1, <2>2, <2>3, AppendProperties, SMTT(40)
  <2>5. /\ \A i \in 1..Len(blocks) : /\ blocks'[i].msgType = blocks[i].msgType
                                    /\ blocks'[i].events = blocks[i].events
                                    /\ blocks'[i].delta <= blocks[i].delta
        /\ blocks'[Len(blocks) + 1].msgType = "end"
        /\ blocks'[Len(blocks) + 1].events = << >>
    BY <2>2, <2>3, <2>4
  <2>6. eventsBlockOffset' \in Nat /\ dataBlockOffset' \in Nat
    BY <1>0, <2>1 DEF TypeOK, SizeofNktBlock
  <2>7. Len(blocks') <= 2 * Len(track) + 1
    BY <1>0, <1>1, <2>4
  <2>8. TypeOK'
    BY <1>0, <2>6, <2>7 DEF counted, TypeOK
  <2>9. BlocksBounded' /\ GroupsEmptied'
    BY <1>0, <2>4 DEF TypeInv, BlocksBounded, GroupsEmptied
  <2> QED BY <2>4, <2>5, <2>8, <2>9 DEF TypeInv
<1> QED BY <1>2, <1>3

\* Every step keeps the types.
LEMMA NextTypes == ASSUME TypeInv, [Next]_vars PROVE TypeInv'
<1>1. CASE UNCHANGED vars
  BY <1>1 DEF vars, counted, written, TypeInv, TypeOK, BlocksBounded, GroupsEmptied
<1> QED
  BY <1>1, CollectTypes, CollectedTypes, ConvertTypes, GroupTypes, ConvertedTypes DEF Next

\* Whatever the track, counts and offsets are numbers, and there are at most two
\* blocks for an event and one more.
THEOREM TypeCorrect == Spec => []TypeOK
<1>1. Spec => []TypeInv
  BY TypeInit, NextTypes, PTL DEF Spec
<1>2. TypeInv => TypeOK
  BY DEF TypeInv
<1> QED BY <1>1, <1>2, PTL

-----------------------------------------------------------------------------
(* The end.                                                                *)

Ends == {i \in 1..Len(blocks) : blocks[i].msgType = "end"}

OneEnd ==
  \E e \in 1..Len(blocks) :
    /\ Ends = {e}
    /\ e < Len(blocks) =>
         /\ e + 1 = Len(blocks) /\ track[pCmd - 1].delta = 0
         /\ blocks[e + 1].msgType = "data"

\* Until the end of track is read there is no end; then it is the last block, and the
\* data of its group, if there is any, began in front of it.
EndInv ==
  /\ pass = "convert" /\ ~bEOT => Ends = {}
  /\ pass = "convert" /\ bEOT /\ groupOpen =>
       /\ Len(blocks) >= 1 /\ Ends = {Len(blocks)}
       /\ bufPos > 0 => track[pCmd - 1].delta = 0
  /\ pass = "convert" /\ bEOT /\ ~groupOpen => OneEnd
  /\ pass = "done" => OneEnd

\* The steps of the second pass up to its end.
LEMMA ConvertEnds ==
  ASSUME TypeInv, EndInv, ConvertData \/ ConvertTempo \/ ConvertEot \/ ConvertOther
  PROVE  EndInv'
<1>0. /\ TypeOK /\ blocks \in Seq(Block) /\ UNCHANGED <<track, pass>> /\ Len(blocks) \in Nat
      /\ pass = "convert" /\ TakeEvent /\ ~bEOT /\ groupOpen' = TRUE
      /\ pCmd \in Nat /\ pCmd' - 1 = pCmd /\ EventDelta \in Nat
      /\ bEOT' = (track[pCmd].kind = "eot")
  <2>1. TypeOK /\ blocks \in Seq(Block) /\ UNCHANGED <<track, pass>> /\ pass = "convert"
        /\ TakeEvent
    BY DEF ConvertData, ConvertTempo, ConvertEot, ConvertOther, TypeInv, BlocksBounded
  <2> QED BY <2>1, TakeTypes DEF TakeEvent
<1>1. Ends = {}
  BY <1>0 DEF EndInv
<1>2. << >> \in Seq(Nat) /\ TempoBytes \in Nat
  BY DEF TempoBytes
<1>3. CASE ConvertData \/ ConvertOther
  <2>1. blocks' = blocks /\ ~bEOT'
    BY <1>0, <1>3 DEF ConvertData, ConvertOther, written
  <2> QED BY <1>0, <1>1, <2>1 DEF EndInv, Ends
<1>4. CASE ConvertTempo
  <2>1. WriteBlock("tempo", EventDelta, TempoBytes, << >>) /\ ~bEOT'
    BY <1>0, <1>4 DEF ConvertTempo
  <2>2. /\ Len(blocks') = Len(blocks) + 1 /\ blocks'[Len(blocks) + 1].msgType = "tempo"
        /\ \A i \in 1..Len(blocks) : blocks'[i] = blocks[i]
    BY <1>0, <1>2, <2>1, WriteTypes
  <2>3. Ends' = {}
    <3> SUFFICES ASSUME NEW i \in 1..Len(blocks') PROVE blocks'[i].msgType # "end"
      BY DEF Ends
    <3>1. CASE i = Len(blocks) + 1 BY <2>2, <3>1
    <3>2. CASE i # Len(blocks) + 1
      <4>1. i \in 1..Len(blocks) BY <1>0, <2>2, <3>2
      <4> QED BY <1>1, <2>2, <4>1 DEF Ends
    <3> QED BY <3>1, <3>2
  <2> QED BY <1>0, <2>1, <2>3 DEF EndInv
<1>5. CASE ConvertEot
  <2>1. WriteBlock("end", EventDelta, 0, << >>) /\ bEOT' /\ bufPos' = bufPos
    BY <1>0, <1>5 DEF ConvertEot
  <2>2. /\ Len(blocks') = Len(blocks) + 1 /\ blocks'[Len(blocks) + 1].msgType = "end"
        /\ \A i \in 1..Len(blocks) : blocks'[i] = blocks[i]
    BY <1>0, <1>2, <2>1, WriteTypes
  <2>3. Ends' = {Len(blocks')}
    <3>1. ASSUME NEW i \in 1..Len(blocks'), i # Len(blocks')
          PROVE  blocks'[i].msgType # "end"
      <4>1. i \in 1..Len(blocks) BY <1>0, <2>2, <3>1
      <4> QED BY <1>1, <2>2, <4>1 DEF Ends
    <3>2. Len(blocks') \in 1..Len(blocks') /\ blocks'[Len(blocks')].msgType = "end"
      BY <1>0, <2>2
    <3> QED BY <3>1, <3>2 DEF Ends
  <2>4. bufPos' > 0 => track'[pCmd' - 1].delta = 0
    <3>1. bufPos > 0 => groupOpen
      BY DEF TypeInv, GroupsEmptied
    <3> QED BY <1>0, <2>1, <3>1, TakeTypes
  <2>5. Len(blocks') >= 1
    BY <1>0, <2>2
  <2> QED BY <1>0, <2>1, <2>3, <2>4, <2>5 DEF EndInv
<1> QED BY <1>3, <1>4, <1>5

\* The group with the end of track in it may have data, which is put behind the end.
LEMMA GroupEnds == ASSUME TypeInv, EndInv, ConvertGroup PROVE EndInv'
<1>0. /\ TypeOK /\ blocks \in Seq(Block) /\ Len(blocks) \in Nat /\ pass = "convert"
      /\ UNCHANGED <<track, pass, pCmd, bEOT>> /\ groupOpen /\ groupOpen' = FALSE
  BY DEF ConvertGroup, LeaveGroup, TypeInv, BlocksBounded
<1>1. CASE bufPos > 0
  <2>1. buffer \in Seq(Nat) /\ delta \in Nat /\ bufPos \in Nat
    BY <1>0, TrackFacts DEF TypeOK
  <2>2. WriteBlock("data", delta, bufPos, buffer)
    BY <1>1 DEF ConvertGroup
  <2>3. /\ Len(blocks') = Len(blocks) + 1 /\ blocks'[Len(blocks) + 1].msgType = "data"
        /\ \A i \in 1..Len(blocks) : blocks'[i] = blocks[i]
    BY <1>0, <2>1, <2>2, WriteTypes
  <2>4. Ends' = Ends
    <3>1. \A i \in 1..Len(blocks') : i = Len(blocks) + 1 \/ i \in 1..Len(blocks)
      BY <1>0, <2>3
    <3>2. \A i \in 1..Len(blocks) : i \in 1..Len(blocks')
      BY <1>0, <2>3
    <3> QED BY <2>3, <3>1, <3>2 DEF Ends
  <2>5. CASE ~bEOT
    BY <1>0, <2>4, <2>5 DEF EndInv
  <2>6. CASE bEOT
    <3>1. Len(blocks) >= 1 /\ Ends = {Len(blocks)} /\ track[pCmd - 1].delta = 0
      BY <1>0, <1>1, <2>6 DEF EndInv
    <3>2. Len(blocks) \in 1..Len(blocks') /\ Len(blocks) + 1 = Len(blocks')
      BY <1>0, <2>3, <3>1
    <3>3. OneEnd'
      BY <1>0, <2>3, <2>4, <3>1, <3>2 DEF OneEnd
    <3> QED BY <1>0, <2>6, <3>3 DEF EndInv
  <2> QED BY <2>5, <2>6
<1>2. CASE ~(bufPos > 0)
  <2>1. blocks' = blocks
    BY <1>2 DEF ConvertGroup, written
  <2>2. CASE ~bEOT
    BY <1>0, <2>1, <2>2 DEF EndInv, Ends
  <2>3. CASE bEOT
    <3>1. Len(blocks) >= 1 /\ Ends = {Len(blocks)}
      BY <1>0, <2>3 DEF EndInv
    <3>2. Ends' = {Len(blocks')} /\ Len(blocks') \in 1..Len(blocks')
          /\ ~(Len(blocks') < Len(blocks'))
      BY <1>0, <2>1, <3>1 DEF Ends
    <3>3. OneEnd'
      BY <3>2 DEF OneEnd
    <3> QED BY <1>0, <2>3, <3>3 DEF EndInv
  <2> QED BY <2>2, <2>3
<1> QED BY <1>1, <1>2

\* A track without an end is given one behind everything else.
LEMMA ConvertedEnds == ASSUME TypeInv, EndInv, Converted PROVE EndInv'
<1>0. /\ Len(blocks) \in Nat /\ pass = "convert" /\ ~groupOpen /\ pass' = "done"
      /\ UNCHANGED <<track, pCmd, bEOT>>
  BY DEF Converted, TypeInv, BlocksBounded
<1>1. CASE bEOT
  <2>1. OneEnd /\ blocks' = blocks
    BY <1>0, <1>1 DEF EndInv, Converted, written
  <2>2. OneEnd'
    BY <1>0, <2>1 DEF OneEnd, Ends
  <2> QED BY <1>0, <2>2 DEF EndInv
<1>2. CASE ~bEOT
  <2>1. /\ Len(blocks') = Len(blocks) + 1 /\ blocks'[Len(blocks) + 1].msgType = "end"
        /\ \A i \in 1..Len(blocks) : blocks'[i].msgType = blocks[i].msgType
    BY <1>2, ConvertedTypes
  <2>2. Ends = {}
    BY <1>0, <1>2 DEF EndInv
  <2>3. ASSUME NEW i \in 1..Len(blocks'), i # Len(blocks')
        PROVE  blocks'[i].msgType # "end"
    <3>1. i \in 1..Len(blocks) BY <1>0, <2>1, <2>3
    <3> QED BY <2>1, <2>2, <3>1 DEF Ends
  <2>4. Len(blocks') \in 1..Len(blocks') /\ blocks'[Len(blocks')].msgType = "end"
        /\ ~(Len(blocks') < Len(blocks'))
    BY <1>0, <2>1
  <2>5. Ends' = {Len(blocks')}
    BY <2>3, <2>4 DEF Ends
  <2>6. OneEnd'
    BY <2>4, <2>5 DEF OneEnd
  <2> QED BY <1>0, <2>6 DEF EndInv
<1> QED BY <1>1, <1>2

\* Every step keeps it.
LEMMA NextEnds == ASSUME TypeInv, EndInv, [Next]_vars PROVE EndInv'
<1>1. CASE CollectData \/ CollectTempo \/ CollectEot \/ CollectOther \/ CollectGroup
  <2>1. pass' = "collect"
    BY <1>1 DEF CollectData, CollectTempo, CollectEot, CollectOther, CollectGroup
  <2> QED BY <2>1 DEF EndInv
<1>2. CASE Collected
  <2>1. pass' = "convert" /\ ~bEOT' /\ blocks' = << >>
    BY <1>2 DEF Collected, written, TypeInv, BlocksBounded
  <2>2. Ends' = {}
    BY <2>1 DEF Ends
  <2> QED BY <2>1, <2>2 DEF EndInv
<1>3. CASE UNCHANGED vars
  BY <1>3 DEF vars, written, EndInv, OneEnd, Ends
<1> QED BY <1>1, <1>2, <1>3, ConvertEnds, GroupEnds, ConvertedEnds DEF Next

\* Whatever the track, what it is converted to has one end, with nothing behind it but
\* the data of its own group.
THEOREM OneEndOnly == Spec => []EndsOnce
<1>1. Init => TypeInv /\ EndInv
  BY TypeInit DEF Init, EndInv
<1>2. TypeInv /\ EndInv /\ [Next]_vars => (TypeInv /\ EndInv)'
  BY NextTypes, NextEnds
<1>3. EndInv => EndsOnce
  BY DEF EndInv, OneEnd, Ends, EndsOnce, Done
<1> QED BY <1>1, <1>2, <1>3, PTL DEF Spec
-----------------------------------------------------------------------------
(* What the first pass has counted at each event.                          *)

\* A group ends behind event i of track t; it begins with i.
Closes(t, i) == i = Len(t) \/ t[i].kind = "eot" \/ t[i + 1].delta # 0
BeginsGroup(t, i) == i = 1 \/ Closes(t, i - 1)

Count == [delta : Nat, buf : Nat, nb : Nat, size : Nat]
Zero == [delta |-> 0, buf |-> 0, nb |-> 0, size |-> 0]

\* The counts c behind event i, and behind the group.
Taken(t, c, i) ==
  LET block == t[i].kind \in {"tempo", "eot"}
  IN  [delta |-> IF BeginsGroup(t, i) THEN t[i].delta ELSE c.delta,
       buf   |-> c.buf + IF t[i].kind = "data" THEN t[i].size
                         ELSE IF t[i].kind = "tempo" THEN TempoCounted ELSE 0,
       nb    |-> c.nb + IF block THEN 1 ELSE 0,
       size  |-> c.size + IF block THEN VlqSize(t[i].delta) + SizeofNktBlock ELSE 0]
Closed(c) ==
  IF c.buf > 0
  THEN [delta |-> c.delta, buf |-> 0, nb |-> c.nb + 1,
        size |-> c.size + (VlqSize(c.delta) + SizeofNktBlock)]
  ELSE c
After(t, c, i) == IF Closes(t, i) THEN Closed(Taken(t, c, i)) ELSE Taken(t, c, i)

\* The counts behind each event of a track.
IsCount(t, h) ==
  /\ h \in [0..Len(t) -> Count] /\ h[0] = Zero
  /\ \A i \in 1..Len(t) : h[i] = After(t, h[i - 1], i)
Counts(t) == CHOOSE h : IsCount(t, h)

\* One event more leaves counts, and none of them is smaller.
LEMMA TakenCount ==
  ASSUME NEW t, NEW i, t[i] \in Event, NEW c \in Count
  PROVE  /\ Taken(t, c, i) \in Count
         /\ c.nb <= Taken(t, c, i).nb /\ c.size <= Taken(t, c, i).size
<1>1. t[i].delta \in Nat /\ t[i].size \in Nat
  BY DEF Event
<1>2. c.delta \in Nat /\ c.buf \in Nat /\ c.nb \in Nat /\ c.size \in Nat
  BY DEF Count
<1>3. PICK v \in Nat : v = VlqSize(t[i].delta)
  BY VlqType
<1> QED BY <1>1, <1>2, <1>3 DEF Taken, Count, TempoCounted, SizeofNktBlock

\* So does the end of a group.
LEMMA ClosedCount ==
  ASSUME NEW c \in Count
  PROVE  Closed(c) \in Count /\ c.nb <= Closed(c).nb /\ c.size <= Closed(c).size
<1>1. c.delta \in Nat /\ c.buf \in Nat /\ c.nb \in Nat /\ c.size \in Nat
  BY DEF Count
<1>2. PICK v \in Nat : v = VlqSize(c.delta)
  BY VlqType
<1>3. CASE c.buf > 0
  BY <1>1, <1>2, <1>3 DEF Closed, Count, SizeofNktBlock
<1>4. CASE ~(c.buf > 0)
  BY <1>1, <1>4 DEF Closed
<1> QED BY <1>3, <1>4

\* What holds of the counts behind the events.
LEMMA CountsExist ==
  ASSUME NEW t \in Seq(Event) PROVE IsCount(t, Counts(t))
<1> DEFINE n == Len(t)
           step == [p \in Count \X Nat |-> IF p[2] \in 1..n THEN After(t, p[1], p[2]) ELSE p[1]]
<1>1. n \in Nat /\ Zero \in Count
  BY DEF Zero, Count
<1>2. step \in [Count \X Nat -> Count]
  <2>1. ASSUME NEW p \in Count \X Nat, p[2] \in 1..n PROVE After(t, p[1], p[2]) \in Count
    <3>1. t[p[2]] \in Event /\ p[1] \in Count
      BY <2>1
    <3>2. Taken(t, p[1], p[2]) \in Count
      BY <3>1, TakenCount
    <3> QED BY <3>2, ClosedCount DEF After
  <2> QED BY <2>1
<1>3. PICK h : h \in Runs(Count, Zero, step, n)
  <2> HIDE DEF n, step
  <2> QED BY <1>1, <1>2, RecursionExists
<1>4. /\ h \in [0..n -> Count] /\ h[0] = Zero
      /\ \A i \in 1..n : h[i] = step[<<h[i - 1], i>>]
  <2> HIDE DEF n, step
  <2> QED BY <1>3 DEF Runs
<1>5. ASSUME NEW i \in 1..n PROVE h[i] = After(t, h[i - 1], i)
  <2>1. i - 1 \in 0..n /\ i \in Nat
    OBVIOUS
  <2>2. <<h[i - 1], i>> \in Count \X Nat
    BY <1>4, <2>1
  <2> QED BY <1>4, <2>2
<1>6. IsCount(t, h)
  BY <1>4, <1>5 DEF IsCount
<1> QED BY <1>6 DEF Counts

\* The counts never go down.
LEMMA CountsGrow ==
  ASSUME NEW t \in Seq(Event), NEW m \in 0..Len(t)
  PROVE  \A i \in 0..m : /\ Counts(t)[i].nb <= Counts(t)[m].nb
                         /\ Counts(t)[i].size <= Counts(t)[m].size
<1>1. PICK h : h = Counts(t)
  OBVIOUS
<1>2. /\ h \in [0..Len(t) -> Count] /\ \A i \in 1..Len(t) : h[i] = After(t, h[i - 1], i)
  BY <1>1, CountsExist DEF IsCount
<1>3. ASSUME NEW i \in 1..Len(t)
      PROVE  h[i - 1].nb <= h[i].nb /\ h[i - 1].size <= h[i].size
  <2>1. PICK c \in Count : c = h[i - 1]
    BY <1>2
  <2>2. PICK d \in Count : d = Taken(t, c, i)
    BY TakenCount
  <2>3. c.nb <= d.nb /\ c.size <= d.size
    BY <2>2, TakenCount
  <2>4. d.nb <= Closed(d).nb /\ d.size <= Closed(d).size /\ Closed(d) \in Count
    BY ClosedCount
  <2>5. h[i] = IF Closes(t, i) THEN Closed(d) ELSE d
    BY <1>2, <2>1, <2>2 DEF After
  <2>6. CASE Closes(t, i)
    <3>1. h[i] = Closed(d)
      BY <2>5, <2>6
    <3> QED BY <2>1, <2>3, <2>4, <3>1 DEF Count
  <2>7. CASE ~Closes(t, i)
    BY <2>1, <2>3, <2>5, <2>7
  <2> QED BY <2>6, <2>7
<1> DEFINE S == {n \in Nat : n <= m => h[m - n].nb <= h[m].nb /\ h[m - n].size <= h[m].size}
<1>4. \A n \in 0..m : n \in S
  <2>0. h[m].nb \in Nat /\ h[m].size \in Nat
    BY <1>2 DEF Count
  <2>1. 0 \in S
    BY <2>0
  <2>2. ASSUME NEW n \in 0..m - 1, n \in S PROVE n + 1 \in S
    <3>1. m - n \in 1..Len(t) /\ (m - n) - 1 = m - (n + 1) /\ m - (n + 1) \in 0..Len(t)
          /\ m - n \in 0..Len(t)
      OBVIOUS
    <3>2. /\ h[m - (n + 1)].nb <= h[m - n].nb /\ h[m - (n + 1)].size <= h[m - n].size
      BY <1>3, <3>1
    <3>3. /\ h[m - (n + 1)].nb \in Nat /\ h[m - (n + 1)].size \in Nat
          /\ h[m - n].nb \in Nat /\ h[m - n].size \in Nat
      BY <1>2, <3>1 DEF Count
    <3> QED BY <2>0, <2>2, <3>2, <3>3
  <2> HIDE DEF S
  <2> QED BY <2>1, <2>2, UpToInduction
<1>5. ASSUME NEW i \in 0..m PROVE h[i].nb <= h[m].nb /\ h[i].size <= h[m].size
  <2>1. m - i \in 0..m /\ m - (m - i) = i
    OBVIOUS
  <2>2. m - i \in S /\ m - i <= m
    <3> HIDE DEF S
    <3> QED BY <1>4, <2>1
  <2>3. h[m - (m - i)].nb <= h[m].nb /\ h[m - (m - i)].size <= h[m].size
    BY <2>2
  <2> QED BY <2>1, <2>3, Zenon
<1> QED BY <1>1, <1>5

-----------------------------------------------------------------------------
(* Where the passes are.                                                   *)

\* No group is open in front of the first event, or of one that does not begin one;
\* the end of track is the last event that is read.
Position ==
  /\ groupOpen => pCmd > 1
  /\ ~groupOpen => pCmd = 1 \/ Closes(track, pCmd - 1)
  /\ bEOT <=> pCmd > 1 /\ track[pCmd - 1].kind = "eot"
  /\ \A k \in 1..pCmd - 2 : track[k].kind # "eot"
  /\ pass = "done" => ~groupOpen /\ ~MoreEvents

\* What the first pass has counted when it is there.
Now == IF groupOpen THEN Taken(track, Counts(track)[pCmd - 2], pCmd - 1)
                    ELSE Counts(track)[pCmd - 1]

\* An open group is left where it ends.
LEMMA LeavesAtClose ==
  ASSUME TypeOK, Position, groupOpen PROVE ~TakesEvent <=> Closes(track, pCmd - 1)
<1>1. Len(track) \in Nat /\ pCmd \in 2..Len(track) + 1 /\ (pCmd - 1) + 1 = pCmd
  BY TrackFacts DEF Position, TypeOK
<1> QED BY <1>1 DEF Position, TakesEvent, MoreEvents, Closes

LEMMA PositionInit == Init => Position
<1> SUFFICES ASSUME Init PROVE Position
  OBVIOUS
<1> QED BY DEF Init, Position

LEMMA TakePosition ==
  ASSUME TypeOK, Position, TakeEvent, track' = track, pass' = pass, pass # "done"
  PROVE  Position'
<1>1. /\ pCmd \in 1..Len(track) /\ pCmd' = pCmd + 1 /\ groupOpen' = TRUE /\ ~bEOT
      /\ bEOT' = (track[pCmd].kind = "eot") /\ Len(track) \in Nat
  BY TakeTypes, TrackFacts DEF TakeEvent
<1>2. pCmd' - 1 = pCmd /\ pCmd' > 1 /\ pCmd' - 2 = pCmd - 1
  BY <1>1
<1>3. \A k \in 1..pCmd - 1 : track[k].kind # "eot"
  <2> SUFFICES ASSUME NEW k \in 1..pCmd - 1 PROVE track[k].kind # "eot"
    OBVIOUS
  <2>1. CASE k = pCmd - 1
    <3>1. pCmd > 1
      BY <1>1, <2>1
    <3> QED BY <1>1, <2>1, <3>1 DEF Position
  <2>2. CASE k # pCmd - 1
    <3>1. k \in 1..pCmd - 2
      BY <1>1, <2>2
    <3> QED BY <3>1 DEF Position
  <2> QED BY <2>1, <2>2
<1> QED BY <1>1, <1>2, <1>3 DEF Position

LEMMA LeavePosition ==
  ASSUME TypeOK, Position, LeaveGroup, track' = track, pass' = pass, pass # "done"
  PROVE  Position'
<1>1. groupOpen /\ ~groupOpen' /\ pCmd' = pCmd /\ bEOT' = bEOT /\ ~TakesEvent
  BY DEF LeaveGroup
<1>2. Closes(track, pCmd - 1)
  BY <1>1, LeavesAtClose
<1> QED BY <1>1, <1>2 DEF Position

LEMMA NextPosition == ASSUME TypeInv, Position, [Next]_vars PROVE Position'
<1>0. TypeOK
  BY DEF TypeInv
<1>1. CASE \/ CollectData \/ CollectTempo \/ CollectEot \/ CollectOther
           \/ ConvertData \/ ConvertTempo \/ ConvertEot \/ ConvertOther
  <2>1. TakeEvent /\ track' = track /\ pass' = pass /\ pass # "done"
    BY <1>1 DEF CollectData, CollectTempo, CollectEot, CollectOther,
                ConvertData, ConvertTempo, ConvertEot, ConvertOther
  <2> QED BY <1>0, <2>1, TakePosition
<1>2. CASE CollectGroup \/ ConvertGroup
  <2>1. LeaveGroup /\ track' = track /\ pass' = pass /\ pass # "done"
    BY <1>2 DEF CollectGroup, ConvertGroup
  <2> QED BY <1>0, <2>1, LeavePosition
<1>3. CASE Collected
  <2>1. ~groupOpen' /\ pCmd' = 1 /\ ~bEOT' /\ pass' = "convert"
    BY <1>3 DEF Collected
  <2> QED BY <2>1 DEF Position
<1>4. CASE Converted
  <2>1. ~groupOpen /\ ~MoreEvents /\ UNCHANGED <<track, groupOpen, pCmd, bEOT>>
    BY <1>4 DEF Converted
  <2> QED BY <2>1 DEF Position, MoreEvents
<1>5. CASE UNCHANGED vars
  BY <1>5 DEF vars, Position, MoreEvents
<1> QED BY <1>1, <1>2, <1>3, <1>4, <1>5 DEF Next

\* The counts at a place are counts, and follow from each other.
LEMMA NowType ==
  ASSUME TypeOK, Position
  PROVE  /\ Now \in Count /\ track \in Seq(Event)
         /\ Now.nb <= Counts(track)[pCmd - 1].nb /\ Now.size <= Counts(track)[pCmd - 1].size
<1>1. Len(track) \in Nat /\ track \in Seq(Event) /\ pCmd \in 1..Len(track) + 1
  BY TrackFacts, TracksAssumption DEF TypeOK
<1>2. PICK h : h = Counts(track)
  OBVIOUS
<1>3. /\ h \in [0..Len(track) -> Count]
      /\ \A i \in 1..Len(track) : h[i] = After(track, h[i - 1], i)
  BY <1>1, <1>2, CountsExist DEF IsCount
<1>4. CASE groupOpen
  <2>1. PICK i : i = pCmd - 1
    OBVIOUS
  <2>2. i \in 1..Len(track) /\ i - 1 = pCmd - 2 /\ i - 1 \in 0..Len(track)
    BY <1>1, <1>4, <2>1 DEF Position
  <2>3. h[i - 1] \in Count /\ track[i] \in Event
    BY <1>1, <1>3, <2>2
  <2>4. PICK c : c = Taken(track, h[i - 1], i)
    OBVIOUS
  <2>5. c \in Count
    BY <2>3, <2>4, TakenCount
  <2>6. Now = c
    BY <1>2, <1>4, <2>1, <2>2, <2>4 DEF Now
  <2>7. h[i] = IF Closes(track, i) THEN Closed(c) ELSE c
    BY <1>3, <2>2, <2>4 DEF After
  <2>8. c.nb <= Closed(c).nb /\ c.size <= Closed(c).size
    BY <2>5, ClosedCount
  <2>9. c.nb <= h[i].nb /\ c.size <= h[i].size
    <3>1. CASE Closes(track, i)
      BY <2>7, <2>8, <3>1
    <3>2. CASE ~Closes(track, i)
      BY <2>5, <2>7, <3>2 DEF Count
    <3> QED BY <3>1, <3>2
  <2> QED BY <1>1, <1>2, <2>1, <2>5, <2>6, <2>9
<1>5. CASE ~groupOpen
  <2>1. pCmd - 1 \in 0..Len(track) /\ Now = h[pCmd - 1]
    BY <1>1, <1>2, <1>5 DEF Now
  <2>2. Now \in Count
    BY <1>3, <2>1
  <2>3. Now.nb \in Nat /\ Now.size \in Nat
    BY <2>2 DEF Count
  <2> QED BY <1>1, <1>2, <2>1, <2>2, <2>3
<1> QED BY <1>4, <1>5

\* An event that is taken adds to the counts,
LEMMA NowTakes ==
  ASSUME TypeOK, Position, TakeEvent, track' = track
  PROVE  Now' = Taken(track, Now, pCmd) /\ track[pCmd].delta = EventDelta
         /\ (BeginsGroup(track, pCmd) <=> ~groupOpen)
<1>1. /\ pCmd \in 1..Len(track) /\ pCmd' - 1 = pCmd /\ pCmd' - 2 = pCmd - 1 /\ groupOpen'
      /\ groupOpen => track[pCmd].delta = 0
  BY TakeTypes
<1>2. PICK h : h = Counts(track)
  OBVIOUS
<1>3. Now' = Taken(track, h[pCmd - 1], pCmd)
  BY <1>1, <1>2 DEF Now
<1>4. h[pCmd - 1] = Now
  <2>1. CASE groupOpen
    <3>1. PICK i : i = pCmd - 1
      OBVIOUS
    <3>2. i \in 1..Len(track) /\ i - 1 = pCmd - 2 /\ track \in Seq(Event)
      BY <1>1, <2>1, <3>1, TrackFacts, TracksAssumption DEF Position, TypeOK
    <3>3. ~Closes(track, i)
      BY <2>1, <3>1, LeavesAtClose DEF TakeEvent
    <3>4. h[i] = Taken(track, h[i - 1], i)
      BY <1>2, <3>2, <3>3, CountsExist DEF IsCount, After
    <3> QED BY <1>2, <2>1, <3>1, <3>2, <3>4 DEF Now
  <2>2. CASE ~groupOpen
    BY <1>2, <2>2 DEF Now
  <2> QED BY <2>1, <2>2
<1>5. track[pCmd].delta = EventDelta
  BY <1>1 DEF EventDelta
<1>6. BeginsGroup(track, pCmd) <=> ~groupOpen
  <2>1. CASE groupOpen
    <3>1. ~Closes(track, pCmd - 1) /\ pCmd # 1
      BY <2>1, LeavesAtClose DEF TakeEvent, Position
    <3> QED BY <2>1, <3>1 DEF BeginsGroup
  <2>2. CASE ~groupOpen
    BY <2>2 DEF Position, BeginsGroup
  <2> QED BY <2>1, <2>2
<1> QED BY <1>3, <1>4, <1>5, <1>6

\* and so does the end of a group.
LEMMA NowLeaves ==
  ASSUME TypeOK, Position, LeaveGroup, track' = track
  PROVE  Now' = Closed(Now)
<1>1. groupOpen /\ ~groupOpen' /\ pCmd' = pCmd /\ Closes(track, pCmd - 1)
  BY LeavesAtClose DEF LeaveGroup
<1>2. PICK h : h = Counts(track)
  OBVIOUS
<1>3. PICK i : i = pCmd - 1
  OBVIOUS
<1>4. i \in 1..Len(track) /\ i - 1 = pCmd - 2 /\ track \in Seq(Event)
  BY <1>1, <1>3, TrackFacts, TracksAssumption DEF Position, TypeOK
<1>5. h[i] = Closed(Taken(track, h[i - 1], i))
  BY <1>1, <1>2, <1>3, <1>4, CountsExist DEF IsCount, After
<1>6. Now' = h[i]
  BY <1>1, <1>2, <1>3 DEF Now
<1>7. Now = Taken(track, h[i - 1], i)
  BY <1>1, <1>2, <1>3, <1>4 DEF Now
<1> QED BY <1>5, <1>6, <1>7

-----------------------------------------------------------------------------
(* The room.                                                               *)

\* Event m is the last one that is read: the first end of track, or the last event.
IsLast(t, m) ==
  /\ m \in 0..Len(t) /\ (m = Len(t) \/ (m > 0 /\ t[m].kind = "eot"))
  /\ \A k \in 1..m - 1 : t[k].kind # "eot"
HasEnd(t, m) == m > 0 /\ t[m].kind = "eot"

\* All events up to the last are counted, and an end where there is none.
RoomMade ==
  \E m \in 0..Len(track) :
    /\ IsLast(track, m)
    /\ nbOfBlocks = Counts(track)[m].nb + IF HasEnd(track, m) THEN 0 ELSE 1
    /\ eventsBlockSize = Counts(track)[m].size
                           + IF HasEnd(track, m) THEN 0 ELSE 1 + SizeofNktBlock

\* The first pass counts what the place says; the second has written no more at any
\* place than the first had counted there.
FitInv ==
  /\ Position
  /\ pass = "collect" =>
       /\ nbOfBlocks = Now.nb /\ eventsBlockSize = Now.size /\ bufPos = Now.buf
       /\ groupOpen => delta = Now.delta
       /\ eventsBlockOffset = 0
  /\ pass # "collect" => RoomMade
  /\ pass = "convert" =>
       /\ Len(blocks) <= Now.nb /\ eventsBlockOffset <= Now.size /\ bufPos <= Now.buf
       /\ groupOpen => delta = Now.delta
  /\ pass = "done" => Len(blocks) <= nbOfBlocks /\ eventsBlockOffset <= eventsBlockSize

\* What an event adds to the counts.
LEMMA TakeCounts ==
  ASSUME TypeOK, Position, TakeEvent, track' = track, groupOpen => delta = Now.delta
  PROVE  /\ Now'.delta = delta'
         /\ Now'.buf = Now.buf + IF track[pCmd].kind = "data" THEN track[pCmd].size
                                 ELSE IF track[pCmd].kind = "tempo" THEN TempoCounted ELSE 0
         /\ Now'.nb = Now.nb + IF track[pCmd].kind \in {"tempo", "eot"} THEN 1 ELSE 0
         /\ Now'.size = Now.size + IF track[pCmd].kind \in {"tempo", "eot"}
                                   THEN VlqSize(EventDelta) + SizeofNktBlock ELSE 0
<1>1. PICK c : c = Now
  OBVIOUS
<1>2. PICK d : d = Now'
  OBVIOUS
<1>3. /\ d = Taken(track, c, pCmd) /\ track[pCmd].delta = EventDelta
      /\ BeginsGroup(track, pCmd) <=> ~groupOpen
  BY <1>1, <1>2, NowTakes
<1>4. delta' = IF groupOpen THEN delta ELSE track[pCmd].delta
  BY DEF TakeEvent
<1>5. d.delta = delta'
  BY <1>1, <1>3, <1>4 DEF Taken
<1>6. /\ d.buf = c.buf + IF track[pCmd].kind = "data" THEN track[pCmd].size
                         ELSE IF track[pCmd].kind = "tempo" THEN TempoCounted ELSE 0
      /\ d.nb = c.nb + IF track[pCmd].kind \in {"tempo", "eot"} THEN 1 ELSE 0
      /\ d.size = c.size + IF track[pCmd].kind \in {"tempo", "eot"}
                           THEN VlqSize(EventDelta) + SizeofNktBlock ELSE 0
  BY <1>3 DEF Taken
<1> QED BY <1>1, <1>2, <1>5, <1>6, Zenon

\* The first pass counts what the place says.
LEMMA CollectFits ==
  ASSUME TypeInv, FitInv, \/ CollectData \/ CollectTempo \/ CollectEot \/ CollectOther
                          \/ CollectGroup
  PROVE  FitInv'
<1>0. /\ TypeOK /\ track' = track /\ pass = "collect" /\ pass' = "collect" /\ Position
      /\ nbOfBlocks = Now.nb /\ eventsBlockSize = Now.size /\ bufPos = Now.buf
      /\ groupOpen => delta = Now.delta
      /\ eventsBlockOffset' = 0
  BY DEF CollectData, CollectTempo, CollectEot, CollectOther, CollectGroup, TypeInv, FitInv,
         written
<1>1. Position'
  BY <1>0, NextPosition DEF FitInv, Next
<1>2. PICK c \in Count : c = Now
  BY <1>0, NowType
<1>3. PICK d : d = Now'
  OBVIOUS
<1>4. CASE CollectGroup
  <2>1. LeaveGroup /\ bufPos' = 0 /\ ~groupOpen' /\ groupOpen
    BY <1>4 DEF CollectGroup, LeaveGroup
  <2>2. d = Closed(c)
    BY <1>0, <1>2, <1>3, <2>1, NowLeaves
  <2>3. c.delta = delta /\ c.buf = bufPos /\ c.nb = nbOfBlocks /\ c.size = eventsBlockSize
    BY <1>0, <1>2, <2>1
  <2>4. nbOfBlocks' = d.nb /\ eventsBlockSize' = d.size /\ bufPos' = d.buf
    <3>1. CASE bufPos > 0
      <4>1. /\ nbOfBlocks' = nbOfBlocks + 1
            /\ eventsBlockSize' = eventsBlockSize + VlqSize(delta) + SizeofNktBlock
        BY <1>4, <3>1 DEF CollectGroup, CountBlock
      <4>2. d.nb = c.nb + 1 /\ d.buf = 0
            /\ d.size = c.size + (VlqSize(c.delta) + SizeofNktBlock)
        BY <2>2, <2>3, <3>1 DEF Closed
      <4>3. VlqSize(delta) \in Nat /\ eventsBlockSize \in Nat
        BY <1>0, VlqType DEF TypeOK
      <4>4. d.size = eventsBlockSize + (VlqSize(delta) + SizeofNktBlock)
        BY <2>3, <4>2
      <4>5. eventsBlockSize' = d.size
        BY <4>1, <4>3, <4>4 DEF SizeofNktBlock
      <4> QED BY <2>1, <2>3, <4>1, <4>2, <4>5
    <3>2. CASE ~(bufPos > 0)
      <4>1. UNCHANGED <<nbOfBlocks, eventsBlockSize>>
        BY <1>4, <3>2 DEF CollectGroup, counted
      <4>2. d = c /\ bufPos = 0
        BY <1>0, <2>2, <2>3, <3>2 DEF Closed, TypeOK
      <4> QED BY <2>1, <2>3, <4>1, <4>2
    <3> QED BY <3>1, <3>2
  <2> QED BY <1>0, <1>1, <1>3, <2>1, <2>4 DEF FitInv
<1>5. CASE CollectData \/ CollectTempo \/ CollectEot \/ CollectOther
  <2>1. TakeEvent
    BY <1>5 DEF CollectData, CollectTempo, CollectEot, CollectOther
  <2>2. /\ d.delta = delta'
        /\ d.buf = c.buf + IF track[pCmd].kind = "data" THEN track[pCmd].size
                           ELSE IF track[pCmd].kind = "tempo" THEN TempoCounted ELSE 0
        /\ d.nb = c.nb + IF track[pCmd].kind \in {"tempo", "eot"} THEN 1 ELSE 0
        /\ d.size = c.size + IF track[pCmd].kind \in {"tempo", "eot"}
                             THEN VlqSize(EventDelta) + SizeofNktBlock ELSE 0
    BY <1>0, <1>2, <1>3, <2>1, TakeCounts
  <2>3. c.buf = bufPos /\ c.nb = nbOfBlocks /\ c.size = eventsBlockSize
    BY <1>0, <1>2
  <2>4. /\ bufPos \in Nat /\ nbOfBlocks \in Nat /\ eventsBlockSize \in Nat
        /\ VlqSize(EventDelta) \in Nat
    BY <1>0, VlqType DEF TypeOK
  <2>5. nbOfBlocks' = d.nb /\ eventsBlockSize' = d.size /\ bufPos' = d.buf
    <3>1. CASE CollectData
      BY <2>2, <2>3, <2>4, <3>1 DEF CollectData, counted
    <3>2. CASE CollectTempo
      <4>1. track[pCmd].kind = "tempo" /\ bufPos' = bufPos + TempoCounted
            /\ nbOfBlocks' = nbOfBlocks + 1
            /\ eventsBlockSize' = eventsBlockSize + VlqSize(EventDelta) + SizeofNktBlock
        BY <3>2 DEF CollectTempo, CountBlock
      <4> QED BY <2>2, <2>3, <2>4, <4>1 DEF SizeofNktBlock
    <3>3. CASE CollectEot
      <4>1. track[pCmd].kind = "eot" /\ bufPos' = bufPos
            /\ nbOfBlocks' = nbOfBlocks + 1
            /\ eventsBlockSize' = eventsBlockSize + VlqSize(EventDelta) + SizeofNktBlock
        BY <3>3 DEF CollectEot, CountBlock
      <4> QED BY <2>2, <2>3, <2>4, <4>1 DEF SizeofNktBlock
    <3>4. CASE CollectOther
      BY <2>2, <2>3, <2>4, <3>4 DEF CollectOther, counted
    <3> QED BY <1>5, <3>1, <3>2, <3>3, <3>4
  <2> QED BY <1>0, <1>1, <1>3, <2>2, <2>5 DEF FitInv
<1> QED BY <1>4, <1>5

\* Where the events are over is the last event.
LEMMA LastIsRead ==
  ASSUME TypeOK, Position, ~MoreEvents
  PROVE  IsLast(track, pCmd - 1) /\ (HasEnd(track, pCmd - 1) <=> bEOT)
<1>1. pCmd \in 1..Len(track) + 1 /\ Len(track) \in Nat /\ bEOT \in BOOLEAN
      /\ (pCmd > Len(track) \/ bEOT)
  BY TrackFacts DEF MoreEvents, TypeOK
<1>2. pCmd - 1 \in 0..Len(track) /\ (pCmd - 1) - 1 = pCmd - 2
  BY <1>1
<1>3. (bEOT <=> pCmd > 1 /\ track[pCmd - 1].kind = "eot") /\ (pCmd > 1 <=> pCmd - 1 > 0)
  BY <1>1 DEF Position
<1>4. \A k \in 1..(pCmd - 1) - 1 : track[k].kind # "eot"
  BY <1>2 DEF Position
<1> QED BY <1>1, <1>2, <1>3, <1>4 DEF IsLast, HasEnd

\* There is one last event, and none is read behind it.
LEMMA BeforeLast ==
  ASSUME TypeOK, Position, NEW m, IsLast(track, m)
  PROVE  pCmd - 1 <= m /\ (~MoreEvents => pCmd - 1 = m)
<1>1. /\ m \in 0..Len(track) /\ (m = Len(track) \/ (m > 0 /\ track[m].kind = "eot"))
      /\ \A k \in 1..m - 1 : track[k].kind # "eot"
      /\ pCmd \in 1..Len(track) + 1 /\ Len(track) \in Nat
  BY TrackFacts DEF IsLast, TypeOK
<1>2. pCmd - 1 <= m
  <2>1. CASE m = Len(track)
    BY <1>1, <2>1
  <2>2. CASE m > 0 /\ track[m].kind = "eot"
    <3>1. ~(m \in 1..pCmd - 2)
      BY <2>2 DEF Position
    <3> QED BY <1>1, <2>2, <3>1
  <2> QED BY <1>1, <2>1, <2>2
<1>3. ASSUME ~MoreEvents PROVE pCmd - 1 >= m
  <2>1. CASE bEOT
    <3>1. pCmd > 1 /\ track[pCmd - 1].kind = "eot"
      BY <2>1 DEF Position
    <3>2. ~(pCmd - 1 \in 1..m - 1)
      BY <1>1, <3>1
    <3> QED BY <1>1, <3>1, <3>2
  <2>2. CASE ~bEOT
    BY <1>1, <1>3, <2>2 DEF MoreEvents
  <2> QED BY <2>1, <2>2
<1> QED BY <1>1, <1>2, <1>3

\* What was counted is the room for the second pass, which begins with nothing.
LEMMA CollectedFits == ASSUME TypeInv, FitInv, Collected PROVE FitInv'
<1>0. /\ TypeOK /\ track' = track /\ pass = "collect" /\ pass' = "convert" /\ Position
      /\ ~groupOpen /\ ~MoreEvents /\ ~groupOpen' /\ pCmd' = 1 /\ blocks' = << >>
      /\ nbOfBlocks = Now.nb /\ eventsBlockSize = Now.size
      /\ bufPos' = 0 /\ eventsBlockOffset' = 0
  BY DEF Collected, TypeInv, FitInv, BlocksBounded, GroupsEmptied, written
<1>1. Position'
  BY <1>0, NextPosition DEF FitInv, Next
<1>2. PICK m : m = pCmd - 1
  OBVIOUS
<1>3. IsLast(track, m) /\ (HasEnd(track, m) <=> bEOT) /\ m \in 0..Len(track)
  BY <1>0, <1>2, LastIsRead DEF IsLast
<1>4. PICK c \in Count : c = Counts(track)[m] /\ c.nb = nbOfBlocks /\ c.size = eventsBlockSize
  <2>1. Now \in Count /\ Now = Counts(track)[m]
    BY <1>0, <1>2, NowType DEF Now
  <2> QED BY <1>0, <2>1
<1>5. VlqSize(0) = 1
  BY VlqAssumption DEF VlqSize
<1>6. /\ nbOfBlocks' = c.nb + IF HasEnd(track, m) THEN 0 ELSE 1
      /\ eventsBlockSize' = c.size + IF HasEnd(track, m) THEN 0 ELSE 1 + SizeofNktBlock
  <2>1. CASE bEOT
    BY <1>0, <1>3, <1>4, <2>1 DEF Collected, counted, TypeOK
  <2>2. CASE ~bEOT
    <3>1. CountBlock(0)
      BY <2>2 DEF Collected
    <3> QED BY <1>0, <1>3, <1>4, <1>5, <2>2, <3>1 DEF CountBlock, TypeOK, SizeofNktBlock
  <2> QED BY <2>1, <2>2
<1>7. PICK z \in Count : z = Now' /\ z = Zero
  <2>1. Now' = Counts(track)[0]
    BY <1>0 DEF Now
  <2>2. track \in Seq(Event)
    BY <1>0, NowType
  <2> QED BY <2>1, <2>2, CountsExist DEF IsCount, Zero, Count
<1>8. z.nb = 0 /\ z.size = 0 /\ z.buf = 0
  BY <1>7 DEF Zero
<1>9. Len(blocks') = 0 /\ eventsBlockOffset' = 0
  BY <1>0
<1>10. RoomMade'
  BY <1>0, <1>3, <1>4, <1>6 DEF RoomMade
<1> QED BY <1>0, <1>1, <1>7, <1>8, <1>9, <1>10 DEF FitInv

\* An event of the second pass writes what the first one counted for it.
LEMMA ConvertFits ==
  ASSUME TypeInv, FitInv, ConvertData \/ ConvertTempo \/ ConvertEot \/ ConvertOther
  PROVE  FitInv'
<1>0. /\ TypeOK /\ track' = track /\ pass = "convert" /\ pass' = "convert" /\ Position
      /\ UNCHANGED counted /\ TakeEvent /\ blocks \in Seq(Block) /\ Len(blocks) \in Nat
      /\ Len(blocks) <= Now.nb /\ eventsBlockOffset <= Now.size /\ bufPos <= Now.buf
      /\ groupOpen => delta = Now.delta
  <2>1. /\ TypeOK /\ track' = track /\ pass = "convert" /\ pass' = "convert" /\ Position
        /\ UNCHANGED counted /\ TakeEvent /\ blocks \in Seq(Block)
        /\ Len(blocks) <= Now.nb /\ eventsBlockOffset <= Now.size /\ bufPos <= Now.buf
        /\ groupOpen => delta = Now.delta
    BY DEF ConvertData, ConvertTempo, ConvertEot, ConvertOther, TypeInv, FitInv, BlocksBounded
  <2> QED BY <2>1
<1>1. Position'
  BY <1>0, NextPosition DEF FitInv, Next
<1>2. RoomMade'
  BY <1>0 DEF FitInv, RoomMade, counted
<1>3. PICK c \in Count : c = Now
  BY <1>0, NowType
<1>4. PICK d : d = Now'
  OBVIOUS
<1>5. PICK v \in Nat : v = VlqSize(EventDelta)
  BY VlqType
<1>6. /\ d.delta = delta'
      /\ d.buf = c.buf + IF track[pCmd].kind = "data" THEN track[pCmd].size
                         ELSE IF track[pCmd].kind = "tempo" THEN TempoCounted ELSE 0
      /\ d.nb = c.nb + IF track[pCmd].kind \in {"tempo", "eot"} THEN 1 ELSE 0
      /\ d.size = c.size + IF track[pCmd].kind \in {"tempo", "eot"}
                           THEN v + SizeofNktBlock ELSE 0
  BY <1>0, <1>3, <1>4, <1>5, TakeCounts
<1>7. /\ bufPos \in Nat /\ eventsBlockOffset \in Nat /\ track[pCmd].size \in Nat
      /\ c.buf \in Nat /\ c.nb \in Nat /\ c.size \in Nat
      /\ EventDelta \in Nat /\ << >> \in Seq(Nat) /\ TempoBytes \in Nat
  BY <1>0, TakeTypes DEF TypeOK, Count, Event, TempoBytes
<1>8. Len(blocks') <= d.nb /\ eventsBlockOffset' <= d.size /\ bufPos' <= d.buf
  <2>1. CASE ConvertData
    <3>1. track[pCmd].kind = "data" /\ bufPos' = bufPos + track[pCmd].size
          /\ UNCHANGED <<blocks, eventsBlockOffset>>
      BY <2>1 DEF ConvertData, written
    <3> QED BY <1>0, <1>3, <1>6, <1>7, <3>1
  <2>2. CASE ConvertTempo
    <3>1. track[pCmd].kind = "tempo" /\ bufPos' = bufPos
          /\ WriteBlock("tempo", EventDelta, TempoBytes, << >>)
      BY <2>2 DEF ConvertTempo
    <3>2. Len(blocks') = Len(blocks) + 1
      BY <1>0, <1>7, <3>1, WriteTypes
    <3>3. eventsBlockOffset' = eventsBlockOffset + v + SizeofNktBlock
      BY <1>5, <3>1 DEF WriteBlock
    <3> QED BY <1>0, <1>3, <1>6, <1>7, <3>1, <3>2, <3>3, SMTT(40) DEF TempoCounted, SizeofNktBlock
  <2>3. CASE ConvertEot
    <3>1. track[pCmd].kind = "eot" /\ bufPos' = bufPos
          /\ WriteBlock("end", EventDelta, 0, << >>)
      BY <2>3 DEF ConvertEot
    <3>2. Len(blocks') = Len(blocks) + 1
      BY <1>0, <1>7, <3>1, WriteTypes
    <3>3. eventsBlockOffset' = eventsBlockOffset + v + SizeofNktBlock
      BY <1>5, <3>1 DEF WriteBlock
    <3> QED BY <1>0, <1>3, <1>6, <1>7, <3>1, <3>2, <3>3 DEF SizeofNktBlock
  <2>4. CASE ConvertOther
    <3>1. track[pCmd].kind = "other" /\ bufPos' = bufPos
          /\ UNCHANGED <<blocks, eventsBlockOffset>>
      BY <2>4 DEF ConvertOther, written
    <3> QED BY <1>0, <1>3, <1>6, <1>7, <3>1
  <2> QED BY <2>1, <2>2, <2>3, <2>4
<1> QED BY <1>0, <1>1, <1>2, <1>4, <1>6, <1>8 DEF FitInv

\* The data block of a group was counted whenever there is data: the first pass's
\* buffer is never behind.
LEMMA GroupFits == ASSUME TypeInv, FitInv, ConvertGroup PROVE FitInv'
<1>0. /\ TypeOK /\ track' = track /\ pass = "convert" /\ pass' = "convert" /\ Position
      /\ UNCHANGED counted /\ LeaveGroup /\ groupOpen /\ ~groupOpen' /\ bufPos' = 0
      /\ blocks \in Seq(Block)
      /\ Len(blocks) <= Now.nb /\ eventsBlockOffset <= Now.size /\ bufPos <= Now.buf
      /\ delta = Now.delta
  BY DEF ConvertGroup, LeaveGroup, TypeInv, FitInv, BlocksBounded
<1>1. Position'
  BY <1>0, NextPosition DEF FitInv, Next
<1>2. RoomMade'
  BY <1>0 DEF FitInv, RoomMade, counted
<1>3. PICK c \in Count : c = Now
  BY <1>0, NowType
<1>4. PICK d : d = Now'
  OBVIOUS
<1>5. d = Closed(c)
  BY <1>0, <1>3, <1>4, NowLeaves
<1>6. PICK v \in Nat : v = VlqSize(delta)
  BY VlqType
<1>7. /\ bufPos \in Nat /\ eventsBlockOffset \in Nat /\ delta \in Nat /\ Len(blocks) \in Nat
      /\ c.buf \in Nat /\ c.nb \in Nat /\ c.size \in Nat /\ buffer \in Seq(Nat)
  BY <1>0, TrackFacts DEF TypeOK, Count
<1>8. d \in Count /\ c.nb <= d.nb /\ c.size <= d.size
  BY <1>5, ClosedCount
<1>9. d.nb \in Nat /\ d.size \in Nat /\ d.buf \in Nat
  BY <1>8 DEF Count
<1>10. Len(blocks') <= d.nb /\ eventsBlockOffset' <= d.size
  <2>1. CASE bufPos > 0
    <3>1. WriteBlock("data", delta, bufPos, buffer)
      BY <2>1 DEF ConvertGroup
    <3>2. Len(blocks') = Len(blocks) + 1
      BY <1>0, <1>7, <3>1, WriteTypes
    <3>3. eventsBlockOffset' = eventsBlockOffset + v + SizeofNktBlock
      BY <1>6, <3>1 DEF WriteBlock
    <3>4. c.buf > 0 /\ c.delta = delta
      BY <1>0, <1>3, <1>7, <2>1
    <3>5. d.nb = c.nb + 1 /\ d.size = c.size + (v + SizeofNktBlock)
      BY <1>5, <1>6, <3>4 DEF Closed
    <3> QED BY <1>0, <1>3, <1>7, <3>2, <3>3, <3>5 DEF SizeofNktBlock
  <2>2. CASE ~(bufPos > 0)
    <3>1. UNCHANGED <<blocks, eventsBlockOffset>>
      BY <2>2 DEF ConvertGroup, written
    <3> QED BY <1>0, <1>3, <1>7, <1>8, <1>9, <3>1
  <2> QED BY <2>1, <2>2
<1> QED BY <1>0, <1>1, <1>2, <1>4, <1>9, <1>10 DEF FitInv

\* Room was made for the end that is missing.
LEMMA ConvertedFits == ASSUME TypeInv, FitInv, Converted PROVE FitInv'
<1>0. /\ TypeOK /\ track' = track /\ pass = "convert" /\ pass' = "done" /\ Position
      /\ UNCHANGED counted /\ ~groupOpen /\ ~MoreEvents /\ Len(blocks) \in Nat
      /\ Len(blocks) <= Now.nb /\ eventsBlockOffset <= Now.size
  <2>1. blocks \in Seq(Block)
    BY DEF TypeInv, BlocksBounded, Converted
  <2> QED BY <2>1 DEF Converted, TypeInv, FitInv
<1>1. Position'
  BY <1>0, NextPosition DEF FitInv, Next
<1>2. RoomMade'
  BY <1>0 DEF FitInv, RoomMade, counted
<1>3. PICK m \in 0..Len(track) :
        /\ IsLast(track, m)
        /\ nbOfBlocks = Counts(track)[m].nb + IF HasEnd(track, m) THEN 0 ELSE 1
        /\ eventsBlockSize = Counts(track)[m].size
                               + IF HasEnd(track, m) THEN 0 ELSE 1 + SizeofNktBlock
  BY <1>0 DEF FitInv, RoomMade
<1>4. pCmd - 1 = m /\ (HasEnd(track, m) <=> bEOT)
  BY <1>0, <1>3, BeforeLast, LastIsRead
<1>5. PICK c \in Count : c = Now /\ c = Counts(track)[m]
  BY <1>0, <1>4, NowType DEF Now
<1>6. /\ nbOfBlocks = c.nb + IF bEOT THEN 0 ELSE 1
      /\ eventsBlockSize = c.size + IF bEOT THEN 0 ELSE 1 + SizeofNktBlock
      /\ Len(blocks) <= c.nb /\ eventsBlockOffset <= c.size
      /\ c.nb \in Nat /\ c.size \in Nat /\ eventsBlockOffset \in Nat /\ Len(blocks) \in Nat
  BY <1>0, <1>3, <1>4, <1>5 DEF Count, TypeOK
<1>7. Len(blocks') <= nbOfBlocks /\ eventsBlockOffset' <= eventsBlockSize
  <2>1. CASE bEOT
    BY <1>6, <2>1 DEF Converted, written
  <2>2. CASE ~bEOT
    <3>1. Len(blocks') = Len(blocks) + 1
      BY <2>2, ConvertedTypes
    <3>2. eventsBlockOffset' = eventsBlockOffset + 1 + SizeofNktBlock
      BY <2>2 DEF Converted
    <3> QED BY <1>6, <2>2, <3>1, <3>2 DEF SizeofNktBlock
  <2> QED BY <2>1, <2>2
<1> QED BY <1>0, <1>1, <1>2, <1>7 DEF FitInv, counted

LEMMA InitFits == Init => FitInv
<1> SUFFICES ASSUME Init PROVE FitInv
  OBVIOUS
<1>1. /\ pass = "collect" /\ pCmd = 1 /\ ~groupOpen /\ bufPos = 0 /\ nbOfBlocks = 0
      /\ eventsBlockSize = 0 /\ eventsBlockOffset = 0 /\ track \in Seq(Event)
  BY TracksAssumption DEF Init
<1>2. Now = Zero
  BY <1>1, CountsExist DEF Now, IsCount
<1> QED BY <1>1, <1>2, PositionInit DEF FitInv, Zero

LEMMA NextFits == ASSUME TypeInv, FitInv, [Next]_vars PROVE FitInv'
<1>1. CASE UNCHANGED vars
  <2>1. Now' = Now /\ RoomMade' = RoomMade /\ Position' = Position
    BY <1>1 DEF vars, counted, Now, RoomMade, Position, MoreEvents
  <2> QED BY <1>1, <2>1 DEF vars, counted, written, FitInv
<1> QED
  BY <1>1, CollectFits, CollectedFits, ConvertFits, GroupFits, ConvertedFits DEF Next

\* Whatever the track, the second pass writes no more blocks, and no more bytes of them,
\* than the first one made room for.
THEOREM NeverOverflows == Spec => []EventsFit
<1>1. Init => TypeInv /\ FitInv
  BY TypeInit, InitFits
<1>2. TypeInv /\ FitInv /\ [Next]_vars => (TypeInv /\ FitInv)'
  BY NextTypes, NextFits
<1>3. TypeInv /\ FitInv => EventsFit
  <2> SUFFICES ASSUME TypeInv, FitInv, pass # "collect"
               PROVE  Len(blocks) <= nbOfBlocks /\ eventsBlockOffset <= eventsBlockSize
    BY DEF EventsFit
  <2>0. TypeOK /\ Position /\ pass \in {"convert", "done"}
    BY DEF TypeInv, TypeOK, FitInv
  <2>1. CASE pass = "done"
    BY <2>1 DEF FitInv
  <2>2. CASE pass = "convert"
    <3>1. PICK m \in 0..Len(track) :
            /\ IsLast(track, m)
            /\ nbOfBlocks = Counts(track)[m].nb + IF HasEnd(track, m) THEN 0 ELSE 1
            /\ eventsBlockSize = Counts(track)[m].size
                                   + IF HasEnd(track, m) THEN 0 ELSE 1 + SizeofNktBlock
      BY DEF FitInv, RoomMade
    <3>2. pCmd - 1 \in 0..m
      BY <2>0, <3>1, TrackFacts, BeforeLast DEF TypeOK
    <3>3. PICK c \in Count : c = Now
      BY <2>0, NowType
    <3>4. PICK d : d = Counts(track)[pCmd - 1]
      OBVIOUS
    <3>5. PICK e : e = Counts(track)[m]
      OBVIOUS
    <3>6. track \in Seq(Event) /\ c.nb <= d.nb /\ c.size <= d.size
      BY <2>0, <3>3, <3>4, NowType
    <3>7. d.nb <= e.nb /\ d.size <= e.size
      BY <3>2, <3>4, <3>5, <3>6, CountsGrow
    <3>8. d \in Count /\ e \in Count
      <4>1. pCmd - 1 \in 0..Len(track)
        BY <3>2, <2>0, TrackFacts
      <4> QED BY <3>4, <3>5, <3>6, <4>1, CountsExist DEF IsCount
    <3>9. Len(blocks) \in Nat /\ eventsBlockOffset \in Nat
          /\ Len(blocks) <= c.nb /\ eventsBlockOffset <= c.size
      <4>1. blocks \in Seq(Block)
        BY DEF TypeInv, BlocksBounded
      <4> QED BY <2>2, <3>3, <4>1, <2>0 DEF FitInv, TypeOK
    <3>10. /\ c.nb \in Nat /\ c.size \in Nat /\ d.nb \in Nat /\ d.size \in Nat
           /\ e.nb \in Nat /\ e.size \in Nat
      BY <3>3, <3>8 DEF Count
    <3>11. nbOfBlocks >= e.nb /\ eventsBlockSize >= e.size
      BY <3>1, <3>5, <3>10 DEF SizeofNktBlock
    <3> QED
      BY <2>0, <3>6, <3>7, <3>9, <3>10, <3>11, SMTT(40) DEF TypeOK
  <2> QED BY <2>0, <2>1, <2>2
<1> QED BY <1>1, <1>2, <1>3, PTL DEF Spec

-----------------------------------------------------------------------------
(* What is kept.                                                           *)

\* The sequence s has the numbers of the data events among the first n, in order.
Exact(t, n, s) ==
  /\ s \in Seq(Nat)
  /\ \A i, j \in 1..Len(s) : i < j => s[i] < s[j]
  /\ {s[i] : i \in 1..Len(s)} = {i \in 1..n : t[i].kind = "data"}

\* The blocks and the buffer have all data that was read.  A buffer without bytes is
\* empty, so no message is left behind at the end of a group.
KeptInv ==
  /\ Position
  /\ pass = "collect" => buffer = << >>
  /\ pass = "convert" => Exact(track, pCmd - 1, Kept \o buffer)
  /\ pass = "done" => Exact(track, pCmd - 1, Kept)
  /\ pass # "collect" /\ bufPos = 0 => buffer = << >>

LEMMA ExactData ==
  ASSUME NEW t, NEW n \in Nat, NEW s, Exact(t, n, s), t[n + 1].kind = "data"
  PROVE  Exact(t, n + 1, Append(s, n + 1))
<1> DEFINE r == Append(s, n + 1)
<1>1. /\ s \in Seq(Nat) /\ Len(s) \in Nat
      /\ \A i, j \in 1..Len(s) : i < j => s[i] < s[j]
      /\ \A x : x \in {s[i] : i \in 1..Len(s)} <=> x \in {i \in 1..n : t[i].kind = "data"}
  BY DEF Exact
<1>2. /\ r \in Seq(Nat) /\ Len(r) = Len(s) + 1 /\ r[Len(s) + 1] = n + 1
      /\ \A i \in 1..Len(s) : r[i] = s[i]
  BY <1>1
<1> HIDE DEF r
<1>3. \A i \in 1..Len(s) : s[i] \in 1..n
  BY <1>1
<1>4. ASSUME NEW i \in 1..Len(r), NEW j \in 1..Len(r), i < j PROVE r[i] < r[j]
  <2>1. i \in 1..Len(s)
    BY <1>1, <1>2, <1>4
  <2>2. CASE j = Len(s) + 1
    BY <1>2, <1>3, <2>1, <2>2, SMTT(40)
  <2>3. CASE j # Len(s) + 1
    <3>1. j \in 1..Len(s)
      BY <1>1, <1>2, <2>3
    <3> QED BY <1>1, <1>2, <1>4, <2>1, <3>1
  <2> QED BY <2>2, <2>3
<1>5. ASSUME NEW x
      PROVE  x \in {r[i] : i \in 1..Len(r)} <=> x \in {i \in 1..n + 1 : t[i].kind = "data"}
  <2>1. ASSUME NEW i \in 1..Len(r), x = r[i]
        PROVE  x \in {k \in 1..n + 1 : t[k].kind = "data"}
    <3>1. CASE i = Len(s) + 1
      BY <1>2, <2>1, <3>1
    <3>2. CASE i # Len(s) + 1
      <4>1. i \in 1..Len(s)
        BY <1>1, <1>2, <3>2
      <4>2. x \in {s[k] : k \in 1..Len(s)}
        BY <1>2, <2>1, <4>1
      <4>3. x \in {k \in 1..n : t[k].kind = "data"}
        BY <1>1, <4>2
      <4> QED BY <4>3
    <3> QED BY <3>1, <3>2
  <2>2. ASSUME x \in 1..n + 1, t[x].kind = "data" PROVE \E i \in 1..Len(r) : x = r[i]
    <3>1. CASE x = n + 1
      <4>1. Len(s) + 1 \in 1..Len(r)
        BY <1>1, <1>2
      <4> QED BY <1>2, <3>1, <4>1
    <3>2. CASE x # n + 1
      <4>1. x \in {k \in 1..n : t[k].kind = "data"}
        BY <2>2, <3>2
      <4>2. PICK i \in 1..Len(s) : x = s[i]
        BY <1>1, <4>1
      <4>3. i \in 1..Len(r)
        BY <1>1, <1>2
      <4> QED BY <1>2, <4>2, <4>3
    <3> QED BY <3>1, <3>2
  <2> QED BY <2>1, <2>2
<1>6. {r[i] : i \in 1..Len(r)} = {i \in 1..n + 1 : t[i].kind = "data"}
  BY <1>5
<1>7. Exact(t, n + 1, r)
  BY <1>2, <1>4, <1>6 DEF Exact
<1> QED BY <1>7 DEF r

LEMMA ExactOther ==
  ASSUME NEW t, NEW n \in Nat, NEW s, Exact(t, n, s), t[n + 1].kind # "data"
  PROVE  Exact(t, n + 1, s)
<1>1. {i \in 1..n : t[i].kind = "data"} = {i \in 1..n + 1 : t[i].kind = "data"}
  OBVIOUS
<1> QED BY <1>1 DEF Exact

LEMMA BlockEvents ==
  ASSUME NEW b \in Seq(Block) PROVE \A i \in 1..Len(b) : b[i].events \in Seq(Nat)
<1> SUFFICES ASSUME NEW i \in 1..Len(b) PROVE b[i].events \in Seq(Nat)
  OBVIOUS
<1>1. PICK x \in Block : x = b[i]
  OBVIOUS
<1>2. x.events \in Seq(Nat)
  BY DEF Block
<1> QED BY <1>1, <1>2

\* The events of the blocks.
EventsOf(b) == [i \in 1..Len(b) |-> b[i].events]

LEMMA KeptType ==
  ASSUME blocks \in Seq(Block) PROVE EventsOf(blocks) \in Seq(Seq(Nat)) /\ Kept \in Seq(Nat)
<1>1. \A i \in 1..Len(blocks) : blocks[i].events \in Seq(Nat)
  BY BlockEvents
<1>2. EventsOf(blocks) \in Seq(Seq(Nat))
  BY <1>1 DEF EventsOf
<1>3. Kept = FlattenSeq(EventsOf(blocks))
  BY DEF Kept, EventsOf
<1> QED BY <1>2, <1>3, FlattenType

\* A block behind the others adds its events.
LEMMA BlockKeeps ==
  ASSUME blocks \in Seq(Block), blocks' \in Seq(Block), Len(blocks') = Len(blocks) + 1,
         \A i \in 1..Len(blocks) : blocks'[i].events = blocks[i].events,
         NEW e \in Seq(Nat), blocks'[Len(blocks) + 1].events = e
  PROVE  Kept' = Kept \o e
<1> DEFINE a == EventsOf(blocks)
           b == EventsOf(blocks')
<1>1. a \in Seq(Seq(Nat)) /\ Len(a) = Len(blocks) /\ Len(blocks) \in Nat
  BY KeptType DEF EventsOf
<1>2. b = Append(a, e)
  <2>1. b \in Seq(Seq(Nat)) /\ Len(b) = Len(blocks) + 1
    <3>1. \A i \in 1..Len(blocks') : blocks'[i].events \in Seq(Nat)
      BY BlockEvents
    <3> QED BY <3>1 DEF EventsOf
  <2>2. PICK c : c = Append(a, e)
    OBVIOUS
  <2>3. /\ c \in Seq(Seq(Nat)) /\ Len(c) = Len(a) + 1 /\ c[Len(a) + 1] = e
        /\ \A i \in 1..Len(a) : c[i] = a[i]
    <3> HIDE DEF a
    <3> QED BY <1>1, <2>2, AppendProperties
  <2>4. ASSUME NEW i \in 1..Len(blocks) + 1 PROVE b[i] = c[i]
    <3>1. CASE i = Len(blocks) + 1
      BY <1>1, <2>3, <3>1 DEF EventsOf
    <3>2. CASE i # Len(blocks) + 1
      <4>1. i \in 1..Len(blocks)
        BY <1>1, <3>2
      <4> QED BY <1>1, <2>3, <4>1 DEF EventsOf
    <3> QED BY <3>1, <3>2
  <2> HIDE DEF a, b
  <2>5. b = c
    BY <1>1, <2>1, <2>3, <2>4, SeqEqual
  <2> QED BY <2>2, <2>5
<1>3. Kept = FlattenSeq(a) /\ Kept' = FlattenSeq(b)
  BY DEF Kept, EventsOf
<1> HIDE DEF a, b
<1>4. FlattenSeq(b) = FlattenSeq(a) \o e
  BY <1>1, <1>2, FlattenAppend
<1> QED BY <1>3, <1>4

\* The first pass keeps nothing yet.
LEMMA CollectKeeps ==
  ASSUME TypeInv, KeptInv, \/ CollectData \/ CollectTempo \/ CollectEot \/ CollectOther
                           \/ CollectGroup
  PROVE  KeptInv'
<1>1. /\ pass = "collect" /\ pass' = "collect" /\ buffer' = << >>
  BY DEF KeptInv, CollectData, CollectTempo, CollectEot, CollectOther, CollectGroup,
         LeaveGroup
<1>2. Position'
  BY NextPosition DEF KeptInv, Next
<1> QED BY <1>1, <1>2 DEF KeptInv

LEMMA CollectedKeeps == ASSUME TypeInv, KeptInv, Collected PROVE KeptInv'
<1>1. /\ pass = "collect" /\ pass' = "convert" /\ buffer' = << >> /\ blocks' = << >>
      /\ pCmd' = 1
  BY DEF KeptInv, Collected, TypeInv, BlocksBounded, written
<1>2. Position'
  BY NextPosition DEF KeptInv, Next
<1>3. Kept' = << >>
  BY <1>1, FlattenEmpty DEF Kept
<1>4. PICK s : s = (Kept \o buffer)'
  OBVIOUS
<1>5. s = << >>
  BY <1>1, <1>3, <1>4
<1>6. PICK n : n = pCmd' - 1
  OBVIOUS
<1>7. n = 0
  BY <1>1, <1>6
<1>8. Exact(track', n, s)
  BY <1>5, <1>7 DEF Exact
<1>9. Exact(track, pCmd - 1, Kept \o buffer)'
  BY <1>4, <1>6, <1>8, Zenon DEF Exact
<1> QED BY <1>1, <1>2, <1>9 DEF KeptInv

\* One number more behind two sequences put together.
LEMMA JoinedAppend ==
  ASSUME NEW a \in Seq(Nat), NEW b \in Seq(Nat), NEW x \in Nat
  PROVE  a \o Append(b, x) = Append(a \o b, x) /\ a \o << >> = a
<1> DEFINE c == a \o Append(b, x)
           d == Append(a \o b, x)
<1>1. Append(b, x) \in Seq(Nat) /\ Len(Append(b, x)) = Len(b) + 1 /\ Append(b, x)[Len(b) + 1] = x
      /\ \A i \in 1..Len(b) : Append(b, x)[i] = b[i]
  BY AppendProperties
<1>2. /\ a \o b \in Seq(Nat) /\ Len(a \o b) = Len(a) + Len(b)
      /\ \A i \in 1..Len(a) + Len(b) : (a \o b)[i] = IF i <= Len(a) THEN a[i] ELSE b[i - Len(a)]
  BY ConcatProperties
<1>3. PICK y : y = Append(b, x)
  OBVIOUS
<1>4. PICK z : z = a \o b
  OBVIOUS
<1>5. /\ c \in Seq(Nat) /\ Len(c) = Len(a) + Len(b) + 1
      /\ \A i \in 1..Len(c) : c[i] = IF i <= Len(a) THEN a[i] ELSE y[i - Len(a)]
  BY <1>1, <1>3
<1>6. /\ d \in Seq(Nat) /\ Len(d) = Len(a) + Len(b) + 1 /\ d[Len(a) + Len(b) + 1] = x
      /\ \A i \in 1..Len(a) + Len(b) : d[i] = z[i]
  <2>1. z \in Seq(Nat) /\ Len(z) = Len(a) + Len(b) /\ d = Append(z, x)
    BY <1>2, <1>4
  <2> HIDE DEF d
  <2> QED BY <2>1, AppendProperties, SMTT(40)
<1>7. ASSUME NEW i \in 1..Len(a) + Len(b) + 1 PROVE c[i] = d[i]
  <2>0. Len(a) \in Nat /\ Len(b) \in Nat
    OBVIOUS
  <2> HIDE DEF c, d
  <2>1. CASE i = Len(a) + Len(b) + 1
    <3>1. i - Len(a) = Len(b) + 1 /\ ~(i <= Len(a))
      BY <2>0, <2>1
    <3> QED BY <1>1, <1>3, <1>5, <1>6, <2>1, <3>1
  <2>2. CASE i # Len(a) + Len(b) + 1
    <3>1. i \in 1..Len(a) + Len(b) /\ (i <= Len(a) \/ i - Len(a) \in 1..Len(b))
      BY <2>0, <2>2
    <3>2. d[i] = IF i <= Len(a) THEN a[i] ELSE b[i - Len(a)]
      BY <1>2, <1>4, <1>6, <3>1
    <3>3. c[i] = IF i <= Len(a) THEN a[i] ELSE y[i - Len(a)]
      BY <1>5
    <3> QED BY <1>1, <1>3, <3>1, <3>2, <3>3
  <2> QED BY <2>1, <2>2
<1>8. c = d
  <2> HIDE DEF c, d
  <2> QED BY <1>5, <1>6, <1>7, SeqEqual
<1> QED BY <1>8

\* An event of the second pass is put in the buffer if it is data, and a block that is
\* written meanwhile has none.
LEMMA ConvertKeeps ==
  ASSUME TypeInv, KeptInv, ConvertData \/ ConvertTempo \/ ConvertEot \/ ConvertOther
  PROVE  KeptInv'
<1>0. /\ TypeOK /\ track' = track /\ pass = "convert" /\ pass' = "convert" /\ TakeEvent
      /\ blocks \in Seq(Block) /\ Exact(track, pCmd - 1, Kept \o buffer)
      /\ bufPos = 0 => buffer = << >>
  BY DEF ConvertData, ConvertTempo, ConvertEot, ConvertOther, TypeInv, KeptInv, BlocksBounded
<1>1. Position'
  BY NextPosition DEF KeptInv, Next
<1>2. /\ pCmd \in 1..Len(track) /\ pCmd' - 1 = pCmd /\ pCmd - 1 \in Nat /\ (pCmd - 1) + 1 = pCmd
      /\ track[pCmd] \in Event /\ EventDelta \in Nat /\ bufPos \in Nat /\ pCmd \in Nat
  BY <1>0, TakeTypes DEF TypeOK
<1>3. Kept \in Seq(Nat) /\ buffer \in Seq(Nat)
  <2>1. Kept \in Seq(Nat)
    BY <1>0, KeptType
  <2> QED BY <1>0, <2>1, TrackFacts DEF TypeOK
<1>4. << >> \in Seq(Nat) /\ TempoBytes \in Nat
  BY DEF TempoBytes
<1>5. PICK s : s = Kept \o buffer
  OBVIOUS
<1>6. PICK r : r = (Kept \o buffer)'
  OBVIOUS
<1>7. Exact(track, pCmd - 1, s)
  BY <1>0, <1>5
<1>8. Exact(track, pCmd, r) /\ (bufPos' = 0 => buffer' = << >>)
  <2>1. CASE ConvertData
    <3>1. /\ track[pCmd].kind = "data" /\ bufPos' = bufPos + track[pCmd].size
          /\ buffer' = Append(buffer, pCmd) /\ blocks' = blocks
      BY <2>1 DEF ConvertData, written
    <3>2. Kept' = Kept
      BY <3>1 DEF Kept
    <3>3. r = Append(s, pCmd)
      BY <1>2, <1>3, <1>5, <1>6, <3>1, <3>2, JoinedAppend
    <3>4. Exact(track, (pCmd - 1) + 1, Append(s, (pCmd - 1) + 1))
      BY <1>2, <1>7, <3>1, ExactData
    <3>5. track[pCmd].size > 0 /\ track[pCmd].size \in Nat
      <4>1. track \in Tracks
        BY <1>0 DEF TypeOK
      <4> QED BY <1>2, <3>1, <4>1, DataAssumption DEF Event
    <3> QED BY <1>2, <3>1, <3>3, <3>4, <3>5
  <2>2. CASE ConvertTempo
    <3>1. /\ track[pCmd].kind # "data" /\ bufPos' = bufPos /\ buffer' = buffer
          /\ WriteBlock("tempo", EventDelta, TempoBytes, << >>)
      BY <2>2 DEF ConvertTempo
    <3>2. /\ blocks' \in Seq(Block) /\ Len(blocks') = Len(blocks) + 1
          /\ \A i \in 1..Len(blocks) : blocks'[i] = blocks[i]
          /\ blocks'[Len(blocks) + 1].events = << >>
      BY <1>0, <1>2, <1>4, <3>1, WriteTypes
    <3>3. Kept' = Kept \o << >>
      BY <1>0, <1>4, <3>2, BlockKeeps
    <3>4. r = s
      BY <1>3, <1>5, <1>6, <3>1, <3>3, JoinedAppend
    <3>5. Exact(track, (pCmd - 1) + 1, s)
      BY <1>2, <1>7, <3>1, ExactOther
    <3> QED BY <1>0, <1>2, <3>1, <3>4, <3>5
  <2>3. CASE ConvertEot
    <3>1. /\ track[pCmd].kind # "data" /\ bufPos' = bufPos /\ buffer' = buffer
          /\ WriteBlock("end", EventDelta, 0, << >>)
      BY <2>3 DEF ConvertEot
    <3>2. /\ blocks' \in Seq(Block) /\ Len(blocks') = Len(blocks) + 1
          /\ \A i \in 1..Len(blocks) : blocks'[i] = blocks[i]
          /\ blocks'[Len(blocks) + 1].events = << >>
      BY <1>0, <1>2, <1>4, <3>1, WriteTypes
    <3>3. Kept' = Kept \o << >>
      BY <1>0, <1>4, <3>2, BlockKeeps
    <3>4. r = s
      BY <1>3, <1>5, <1>6, <3>1, <3>3, JoinedAppend
    <3>5. Exact(track, (pCmd - 1) + 1, s)
      BY <1>2, <1>7, <3>1, ExactOther
    <3> QED BY <1>0, <1>2, <3>1, <3>4, <3>5
  <2>4. CASE ConvertOther
    <3>1. /\ track[pCmd].kind # "data" /\ bufPos' = bufPos /\ buffer' = buffer
          /\ blocks' = blocks
      BY <2>4 DEF ConvertOther, written
    <3>2. r = s
      BY <1>5, <1>6, <3>1 DEF Kept
    <3>3. Exact(track, (pCmd - 1) + 1, s)
      BY <1>2, <1>7, <3>1, ExactOther
    <3> QED BY <1>0, <1>2, <3>1, <3>2, <3>3
  <2> QED BY <1>0, <2>1, <2>2, <2>3, <2>4
<1>9. Exact(track, pCmd - 1, Kept \o buffer)'
  <2>1. PICK n : n = pCmd' - 1
    OBVIOUS
  <2>2. Exact(track', n, r)
    BY <1>0, <1>2, <1>8, <2>1
  <2> QED BY <1>6, <2>1, <2>2, Zenon DEF Exact
<1> QED BY <1>0, <1>1, <1>8, <1>9 DEF KeptInv

\* The block of a group takes the buffer over.
LEMMA GroupKeeps == ASSUME TypeInv, KeptInv, ConvertGroup PROVE KeptInv'
<1>0. /\ TypeOK /\ UNCHANGED <<track, pCmd>> /\ pass = "convert" /\ pass' = "convert"
      /\ blocks \in Seq(Block) /\ Exact(track, pCmd - 1, Kept \o buffer)
      /\ bufPos = 0 => buffer = << >>
      /\ bufPos' = 0 /\ buffer' = << >> /\ bufPos \in Nat /\ delta \in Nat
  BY DEF ConvertGroup, LeaveGroup, TypeInv, TypeOK, KeptInv, BlocksBounded
<1>1. Position'
  BY NextPosition DEF KeptInv, Next
<1>2. Kept \in Seq(Nat) /\ buffer \in Seq(Nat) /\ << >> \in Seq(Nat)
  <2>1. Kept \in Seq(Nat)
    BY <1>0, KeptType
  <2> QED BY <1>0, <2>1, TrackFacts DEF TypeOK
<1>3. PICK s \in Seq(Nat) : s = Kept \o buffer
  BY <1>0 DEF Exact
<1>4. Kept' = s
  <2>1. CASE bufPos > 0
    <3>1. WriteBlock("data", delta, bufPos, buffer)
      BY <2>1 DEF ConvertGroup
    <3>2. /\ blocks' \in Seq(Block) /\ Len(blocks') = Len(blocks) + 1
          /\ \A i \in 1..Len(blocks) : blocks'[i] = blocks[i]
          /\ blocks'[Len(blocks) + 1].events = buffer
      BY <1>0, <1>2, <3>1, WriteTypes
    <3> QED BY <1>0, <1>2, <1>3, <3>2, BlockKeeps
  <2>2. CASE ~(bufPos > 0)
    <3>1. blocks' = blocks /\ buffer = << >>
      BY <1>0, <2>2 DEF ConvertGroup, written
    <3>2. Kept' = Kept
      BY <3>1 DEF Kept
    <3> QED BY <1>2, <1>3, <3>1, <3>2
  <2> QED BY <2>1, <2>2
<1>5. Exact(track, pCmd - 1, Kept \o buffer)'
  <2>1. PICK r : r = (Kept \o buffer)'
    OBVIOUS
  <2>2. r = s
    BY <1>0, <1>3, <1>4, <2>1
  <2>3. Exact(track', pCmd' - 1, r)
    BY <1>0, <1>3, <2>2
  <2> QED BY <2>1, <2>3, Zenon DEF Exact
<1> QED BY <1>0, <1>1, <1>5 DEF KeptInv

\* The missing end has none.
LEMMA ConvertedKeeps == ASSUME TypeInv, KeptInv, Converted PROVE KeptInv'
<1>0. /\ TypeOK /\ UNCHANGED <<track, pCmd, buffer, bufPos, bEOT>>
      /\ pass = "convert" /\ pass' = "done" /\ ~groupOpen
      /\ blocks \in Seq(Block) /\ Exact(track, pCmd - 1, Kept \o buffer)
      /\ bufPos = 0 => buffer = << >>
      /\ bufPos = 0 /\ TypeInv'
  BY ConvertedTypes DEF Converted, TypeInv, KeptInv, BlocksBounded, GroupsEmptied
<1>1. Position'
  BY NextPosition DEF KeptInv, Next
<1>2. Kept \in Seq(Nat) /\ << >> \in Seq(Nat)
  BY <1>0, KeptType
<1>3. Kept' = Kept
  <2>1. CASE bEOT
    BY <2>1 DEF Converted, written, Kept
  <2>2. CASE ~bEOT
    <3>1. /\ blocks' \in Seq(Block) /\ Len(blocks') = Len(blocks) + 1
          /\ \A i \in 1..Len(blocks) : blocks'[i].events = blocks[i].events
          /\ blocks'[Len(blocks) + 1].events = << >>
      BY <1>0, <2>2, ConvertedTypes DEF TypeInv, BlocksBounded
    <3>2. Kept' = Kept \o << >>
      BY <1>0, <1>2, <3>1, BlockKeeps
    <3> QED BY <1>2, <3>2
  <2> QED BY <2>1, <2>2
<1>4. Exact(track, pCmd - 1, Kept)
  <2>1. Kept \o buffer = Kept
    BY <1>0, <1>2
  <2> QED BY <1>0, <2>1
<1>5. Exact(track, pCmd - 1, Kept)'
  <2>1. PICK r : r = Kept'
    OBVIOUS
  <2>2. Exact(track', pCmd' - 1, r)
    BY <1>0, <1>3, <1>4, <2>1
  <2> QED BY <2>1, <2>2, Zenon DEF Exact
<1> QED BY <1>0, <1>1, <1>5 DEF KeptInv

LEMMA NextKeeps == ASSUME TypeInv, KeptInv, [Next]_vars PROVE KeptInv'
<1>1. CASE UNCHANGED vars
  <2>1. Kept' = Kept /\ Position' = Position
    BY <1>1 DEF vars, written, Kept, Position, MoreEvents
  <2>2. UNCHANGED <<track, pass, pCmd, bufPos, buffer>>
    BY <1>1 DEF vars
  <2>3. /\ Exact(track, pCmd - 1, Kept \o buffer)' <=> Exact(track, pCmd - 1, Kept \o buffer)
        /\ Exact(track, pCmd - 1, Kept)' <=> Exact(track, pCmd - 1, Kept)
    BY <2>1, <2>2 DEF Exact
  <2> QED BY <2>1, <2>2, <2>3 DEF KeptInv
<1> QED
  BY <1>1, CollectKeeps, CollectedKeeps, ConvertKeeps, GroupKeeps, ConvertedKeeps DEF Next

\* Whatever the track, every channel message in front of its end is in a block, in order
\* and once.
THEOREM NothingLost == Spec => []DataKept
<1>1. Init => TypeInv /\ KeptInv
  BY TypeInit, PositionInit DEF Init, KeptInv
<1>2. TypeInv /\ KeptInv /\ [Next]_vars => (TypeInv /\ KeptInv)'
  BY NextTypes, NextKeeps
<1>3. TypeInv /\ KeptInv => DataKept
  <2> SUFFICES ASSUME TypeInv, KeptInv, pass = "done"
               PROVE  /\ \A i, j \in 1..Len(Kept) : i < j => Kept[i] < Kept[j]
                      /\ {Kept[i] : i \in 1..Len(Kept)} =
                           {i \in 1..Len(track) :
                              track[i].kind = "data" /\ \A k \in 1..i - 1 : track[k].kind # "eot"}
    BY DEF DataKept, Done
  <2>1. /\ \A i, j \in 1..Len(Kept) : i < j => Kept[i] < Kept[j]
        /\ {Kept[i] : i \in 1..Len(Kept)} = {i \in 1..pCmd - 1 : track[i].kind = "data"}
    BY DEF KeptInv, Exact
  <2>2. TypeOK /\ Position /\ ~MoreEvents /\ Len(track) \in Nat /\ pCmd \in 1..Len(track) + 1
    BY TrackFacts DEF TypeInv, KeptInv, Position, TypeOK
  <2>3. IsLast(track, pCmd - 1)
    BY <2>2, LastIsRead
  <2>4. ASSUME NEW i \in 1..Len(track)
        PROVE  i \in 1..pCmd - 1 <=> \A k \in 1..i - 1 : track[k].kind # "eot"
    <3>1. CASE i <= pCmd - 1
      <4>1. \A k \in 1..i - 1 : k \in 1..pCmd - 2
        BY <2>2, <3>1
      <4> QED BY <2>2, <3>1, <4>1 DEF Position
    <3>2. CASE ~(i <= pCmd - 1)
      <4>1. pCmd - 1 > 0 /\ track[pCmd - 1].kind = "eot" /\ pCmd - 1 \in 1..i - 1
        BY <2>2, <2>3, <3>2 DEF IsLast
      <4> QED BY <2>2, <3>2, <4>1
    <3> QED BY <3>1, <3>2, <2>2
  <2>5. \A i \in 1..pCmd - 1 : i \in 1..Len(track)
    BY <2>2
  <2>6. {i \in 1..pCmd - 1 : track[i].kind = "data"} =
          {i \in 1..Len(track) :
             track[i].kind = "data" /\ \A k \in 1..i - 1 : track[k].kind # "eot"}
    BY <2>4, <2>5
  <2> QED BY <2>1, <2>6
<1> QED BY <1>1, <1>2, <1>3, PTL DEF Spec


-----------------------------------------------------------------------------
(* The time.                                                               *)

\* All messages of the blocks b are played at the ticks they have in track t; none of
\* those the player reaches is played behind its tick.
OnTime(t, b) ==
  \A j \in 1..Len(b) : \A i \in 1..Len(b[j].events) :
    PlayedAt(b, j) = TickOf(t, b[j].events[i])
NotLate(t, b) ==
  \A j \in 1..Len(b) : (\A k \in 1..j - 1 : b[k].msgType # "end") =>
    \A i \in 1..Len(b[j].events) :
      TickOf(t, b[j].events[i]) \in Nat /\ PlayedAt(b, j) <= TickOf(t, b[j].events[i])

BehindTempo(b) == Len(b) > 0 /\ b[Len(b)].msgType = "tempo"

\* Whatever the track, nothing written is late, and nothing the group in hand may write
\* will be: the blocks, with its delta if it is still to come, are not past the events.
\* Behind the end of track nothing is reached.
LateInv ==
  /\ pass # "collect" => NotLate(track, blocks)
  /\ pass = "convert" =>
       /\ \A i \in 1..Len(buffer) : TickOf(track, buffer[i]) = TickOf(track, pCmd - 1)
       /\ IF bEOT THEN \E j \in 1..Len(blocks) : blocks[j].msgType = "end"
                  ELSE PlayedAt(blocks, Len(blocks))
                         + (IF groupOpen /\ ~BehindTempo(blocks) THEN delta ELSE 0)
                       <= TickOf(track, pCmd - 1)

\* The group in hand began with event g, and has bytes if it has a message.
GroupFrom(g) ==
  /\ g \in 1..pCmd - 1 /\ (g = 1 \/ track[g].delta > 0) /\ delta = track[g].delta
  /\ \A k \in g + 1..pCmd - 1 : track[k].delta = 0
  /\ bufPos > 0 <=> \E k \in g..pCmd - 1 : track[k].kind = "data"

\* Of a plain track, what is written is played on time.  Between groups the blocks have
\* come as far as the events; inside one they lack its delta, or have taken it with a
\* tempo change, for which a message must follow, or with the end.
TimeInv == Plain(track) =>
  /\ pass # "collect" => OnTime(track, blocks)
  /\ pass = "convert" /\ ~groupOpen =>
       PlayedAt(blocks, Len(blocks)) = TickOf(track, pCmd - 1) /\ ~BehindTempo(blocks)
  /\ pass = "convert" /\ groupOpen => \E g \in 1..pCmd - 1 :
       /\ GroupFrom(g)
       /\ \/ /\ PlayedAt(blocks, Len(blocks)) + delta = TickOf(track, pCmd - 1)
             /\ ~BehindTempo(blocks) /\ ~bEOT /\ track[g].kind # "tempo"
          \/ /\ PlayedAt(blocks, Len(blocks)) = TickOf(track, pCmd - 1)
             /\ BehindTempo(blocks) /\ ~bEOT /\ \E k \in g..pCmd - 1 : track[k].kind = "tempo"
          \/ /\ PlayedAt(blocks, Len(blocks)) = TickOf(track, pCmd - 1)
             /\ ~BehindTempo(blocks) /\ bEOT /\ bufPos = 0

\* The tick of an event is that of the one before it and its delta.
LEMMA TickGrows ==
  ASSUME NEW t \in Seq(Event)
  PROVE  /\ TickOf(t, 0) = 0 /\ \A i \in 0..Len(t) : TickOf(t, i) \in Nat
         /\ \A i \in 1..Len(t) : TickOf(t, i) = TickOf(t, i - 1) + t[i].delta
<1> DEFINE a == [k \in 1..Len(t) |-> t[k].delta]
<1>1. Len(a) = Len(t) /\ Len(t) \in Nat
  OBVIOUS
<1>2. \A i \in 1..Len(a) : a[i] \in Nat /\ a[i] = t[i].delta
  <2> SUFFICES ASSUME NEW i \in 1..Len(t) PROVE t[i].delta \in Nat
    BY <1>1
  <2>1. PICK e \in Event : e = t[i]
    OBVIOUS
  <2> QED BY <2>1 DEF Event
<1>3. \A i : TickOf(t, i) = RunningSum(a)[i]
  BY DEF TickOf
<1> HIDE DEF a
<1>4. /\ RunningSum(a) \in [0..Len(a) -> Nat] /\ RunningSum(a)[0] = 0
      /\ \A i \in 1..Len(a) : RunningSum(a)[i] = RunningSum(a)[i - 1] + a[i]
  BY <1>1, <1>2, RunningSumGrows
<1>5. PICK s : s = RunningSum(a)
  OBVIOUS
<1>6. /\ s \in [0..Len(t) -> Nat] /\ s[0] = 0
      /\ \A i \in 1..Len(t) : s[i] = s[i - 1] + t[i].delta
  BY <1>1, <1>2, <1>4, <1>5
<1>7. \A i : TickOf(t, i) = s[i]
  BY <1>3, <1>5
<1> QED BY <1>6, <1>7

\* What the blocks add to the time.
DeltasPlayed(b) ==
  [m \in 1..Len(b) |-> IF m > 1 /\ b[m - 1].msgType = "tempo" THEN 0 ELSE b[m].delta]

LEMMA DeltasType ==
  ASSUME NEW b \in Seq(Block), NEW a, a = DeltasPlayed(b)
  PROVE  /\ Len(a) = Len(b) /\ Len(b) \in Nat /\ \A m \in 1..Len(b) : a[m] \in Nat
         /\ RunningSum(a) \in [0..Len(b) -> Nat] /\ RunningSum(a)[0] = 0
         /\ \A i \in 1..Len(b) : RunningSum(a)[i] = RunningSum(a)[i - 1] + a[i]
<1>1. Len(a) = Len(b) /\ Len(b) \in Nat
  BY DEF DeltasPlayed
<1>2. ASSUME NEW m \in 1..Len(b) PROVE a[m] \in Nat
  <2>1. PICK e \in Block : e = b[m]
    OBVIOUS
  <2>2. e.delta \in Nat
    BY DEF Block
  <2> QED BY <2>1, <2>2 DEF DeltasPlayed
<1>3. \A m \in 1..Len(a) : a[m] \in Nat
  BY <1>1, <1>2
<1>4. /\ RunningSum(a) \in [0..Len(a) -> Nat] /\ RunningSum(a)[0] = 0
      /\ \A i \in 1..Len(a) : RunningSum(a)[i] = RunningSum(a)[i - 1] + a[i]
  BY <1>1, <1>3, RunningSumGrows
<1> QED BY <1>1, <1>2, <1>4

LEMMA PlayedType ==
  ASSUME NEW b \in Seq(Block)
  PROVE  PlayedAt(b, 0) = 0 /\ \A j \in 0..Len(b) : PlayedAt(b, j) \in Nat
<1>1. PICK a : a = DeltasPlayed(b)
  OBVIOUS
<1>2. RunningSum(a) \in [0..Len(b) -> Nat] /\ RunningSum(a)[0] = 0
  BY <1>1, DeltasType
<1>3. \A j : PlayedAt(b, j) = RunningSum(a)[j]
  BY <1>1 DEF PlayedAt, DeltasPlayed
<1>4. PICK s : s = RunningSum(a)
  OBVIOUS
<1>5. s \in [0..Len(b) -> Nat] /\ s[0] = 0 /\ \A j : PlayedAt(b, j) = s[j]
  BY <1>2, <1>3, <1>4
<1> QED BY <1>5

\* A block more is played its delta behind the others, or with the tempo change that is
\* the last of them.
LEMMA PlayedGrows ==
  ASSUME NEW b \in Seq(Block), NEW c \in Seq(Block), Len(c) = Len(b) + 1,
         \A i \in 1..Len(b) : c[i] = b[i]
  PROVE  /\ \A j \in 0..Len(b) : PlayedAt(c, j) = PlayedAt(b, j)
         /\ PlayedAt(c, Len(c)) =
              PlayedAt(b, Len(b)) + IF BehindTempo(b) THEN 0 ELSE c[Len(c)].delta
<1>1. PICK a : a = DeltasPlayed(b)
  OBVIOUS
<1>2. PICK d : d = DeltasPlayed(c)
  OBVIOUS
<1>3. PICK n : n = Len(b)
  OBVIOUS
<1>4. /\ Len(a) = n /\ n \in Nat /\ \A m \in 1..n : a[m] \in Nat
      /\ RunningSum(a) \in [0..n -> Nat] /\ RunningSum(a)[0] = 0
  BY <1>1, <1>3, DeltasType
<1>5. /\ Len(d) = n + 1 /\ \A m \in 1..n + 1 : d[m] \in Nat
      /\ \A i \in 1..n + 1 : RunningSum(d)[i] = RunningSum(d)[i - 1] + d[i]
  BY <1>2, <1>3, DeltasType
<1>6. ASSUME NEW m \in 1..n PROVE a[m] = d[m]
  <2>1. m \in 1..Len(b) /\ m \in 1..Len(c)
        /\ (m > 1 => m - 1 \in 1..Len(b) /\ m - 1 \in 1..Len(c))
    BY <1>3, <1>4
  <2>2. a[m] = IF m > 1 /\ b[m - 1].msgType = "tempo" THEN 0 ELSE b[m].delta
    BY <1>1, <2>1 DEF DeltasPlayed
  <2>3. d[m] = IF m > 1 /\ c[m - 1].msgType = "tempo" THEN 0 ELSE c[m].delta
    BY <1>2, <2>1 DEF DeltasPlayed
  <2> QED BY <2>1, <2>2, <2>3
<1>7. ASSUME NEW j \in 0..n PROVE RunningSum(a)[j] = RunningSum(d)[j]
  <2>1. j \in Nat /\ j <= Len(a) /\ j <= Len(d) /\ \A i \in 1..j : a[i] = d[i]
    BY <1>4, <1>5, <1>6
  <2>2. Len(a) \in Nat /\ Len(d) \in Nat /\ (\A i \in 1..Len(a) : a[i] \in Nat)
        /\ (\A i \in 1..Len(d) : d[i] \in Nat)
    BY <1>4, <1>5, SMTT(40)
  <2> QED BY <2>1, <2>2, RunningSumsAgree
<1>8. PICK s : s = RunningSum(a)
  OBVIOUS
<1>9. PICK r : r = RunningSum(d)
  OBVIOUS
<1>10. (\A j : PlayedAt(b, j) = s[j]) /\ (\A j : PlayedAt(c, j) = r[j])
  BY <1>1, <1>2, <1>8, <1>9 DEF PlayedAt, DeltasPlayed
<1>11. r[n + 1] = s[n] + d[n + 1]
  <2>1. n + 1 \in 1..n + 1 /\ (n + 1) - 1 = n /\ n \in 0..n
    BY <1>4
  <2> QED BY <1>5, <1>7, <1>8, <1>9, <2>1
<1>12. d[n + 1] = IF BehindTempo(b) THEN 0 ELSE c[n + 1].delta
  <2>1. n + 1 \in 1..Len(c) /\ (n > 0 => n \in 1..Len(b)) /\ (n + 1) - 1 = n
    BY <1>3, <1>4
  <2>2. d[n + 1] = IF n + 1 > 1 /\ c[n].msgType = "tempo" THEN 0 ELSE c[n + 1].delta
    BY <1>2, <2>1 DEF DeltasPlayed
  <2>3. BehindTempo(b) <=> n > 0 /\ b[n].msgType = "tempo"
    BY <1>3, <1>4 DEF BehindTempo
  <2> QED BY <1>4, <2>1, <2>2, <2>3
<1> QED BY <1>3, <1>7, <1>8, <1>9, <1>10, <1>11, <1>12

\* A block whose messages have the tick it is played at keeps everything on time.
LEMMA OnTimeGrows ==
  ASSUME NEW t, NEW b \in Seq(Block), NEW c \in Seq(Block), Len(c) = Len(b) + 1,
         \A i \in 1..Len(b) : c[i] = b[i], OnTime(t, b),
         \A i \in 1..Len(c[Len(c)].events) : TickOf(t, c[Len(c)].events[i]) = PlayedAt(c, Len(c))
  PROVE  OnTime(t, c)
<1> SUFFICES ASSUME NEW j \in 1..Len(c), NEW i \in 1..Len(c[j].events)
             PROVE  PlayedAt(c, j) = TickOf(t, c[j].events[i])
  BY DEF OnTime
<1>1. CASE j = Len(c)
  BY <1>1
<1>2. CASE j # Len(c)
  <2>1. j \in 1..Len(b) /\ j \in 0..Len(b) /\ c[j] = b[j]
    BY <1>2
  <2>2. PlayedAt(c, j) = PlayedAt(b, j)
    BY <2>1, PlayedGrows
  <2> QED BY <2>1, <2>2 DEF OnTime
<1> QED BY <1>1, <1>2

\* Sums of smaller numbers are smaller.
LEMMA SumsBelow ==
  ASSUME NEW a, Len(a) \in Nat, \A i \in 1..Len(a) : a[i] \in Nat,
         NEW b, Len(b) \in Nat, \A i \in 1..Len(b) : b[i] \in Nat,
         NEW k \in Nat, k <= Len(a), k <= Len(b), \A i \in 1..k : a[i] <= b[i]
  PROVE  RunningSum(a)[k] <= RunningSum(b)[k]
<1>1. PICK f : f = RunningSum(a)
  OBVIOUS
<1>2. PICK h : h = RunningSum(b)
  OBVIOUS
<1>3. f \in [0..Len(a) -> Nat] /\ f[0] = 0 /\ \A i \in 1..Len(a) : f[i] = f[i - 1] + a[i]
  BY <1>1, RunningSumGrows
<1>4. h \in [0..Len(b) -> Nat] /\ h[0] = 0 /\ \A i \in 1..Len(b) : h[i] = h[i - 1] + b[i]
  BY <1>2, RunningSumGrows
<1> DEFINE Lower == {i \in 0..k : f[i] <= h[i]}
<1>5. \A i \in 0..k : i \in Lower
  <2>1. 0 \in Lower
    BY <1>3, <1>4
  <2>2. ASSUME NEW i \in 0..k - 1, i \in Lower PROVE i + 1 \in Lower
    <3>1. /\ i + 1 \in 1..k /\ (i + 1) - 1 = i /\ i + 1 \in 1..Len(a) /\ i + 1 \in 1..Len(b)
          /\ i \in 0..Len(a) /\ i \in 0..Len(b) /\ f[i] <= h[i]
      BY <2>2
    <3>2. f[i + 1] = f[i] + a[i + 1] /\ h[i + 1] = h[i] + b[i + 1]
      BY <1>3, <1>4, <3>1
    <3>3. /\ a[i + 1] <= b[i + 1] /\ a[i + 1] \in Nat /\ b[i + 1] \in Nat
          /\ f[i] \in Nat /\ h[i] \in Nat
      BY <1>3, <1>4, <3>1
    <3>4. f[i + 1] <= h[i + 1]
      BY <3>1, <3>2, <3>3
    <3> QED BY <3>1, <3>4
  <2> HIDE DEF Lower
  <2> QED BY <2>1, <2>2, UpToInduction
<1> QED BY <1>1, <1>2, <1>5

\* Blocks with smaller deltas are played no later.
LEMMA PlayedBelow ==
  ASSUME NEW b \in Seq(Block), NEW c \in Seq(Block), NEW j \in 1..Len(b), Len(b) <= Len(c),
         \A i \in 1..Len(b) : c[i].msgType = b[i].msgType /\ c[i].delta <= b[i].delta
  PROVE  PlayedAt(c, j) <= PlayedAt(b, j)
<1>1. PICK a : a = DeltasPlayed(b)
  OBVIOUS
<1>2. PICK d : d = DeltasPlayed(c)
  OBVIOUS
<1>3. Len(a) = Len(b) /\ Len(a) \in Nat /\ \A m \in 1..Len(a) : a[m] \in Nat
  BY <1>1, DeltasType
<1>4. Len(d) = Len(c) /\ Len(d) \in Nat /\ \A m \in 1..Len(d) : d[m] \in Nat
  BY <1>2, DeltasType
<1>5. j \in Nat /\ j <= Len(a) /\ j <= Len(d)
  BY <1>3, <1>4
<1>6. ASSUME NEW m \in 1..j PROVE d[m] <= a[m]
  <2>1. m \in 1..Len(b) /\ m \in 1..Len(c) /\ (m > 1 => m - 1 \in 1..Len(b))
    BY <1>3, <1>4, <1>5
  <2>2. a[m] = IF m > 1 /\ b[m - 1].msgType = "tempo" THEN 0 ELSE b[m].delta
    BY <1>1, <2>1 DEF DeltasPlayed
  <2>3. d[m] = IF m > 1 /\ c[m - 1].msgType = "tempo" THEN 0 ELSE c[m].delta
    BY <1>2, <2>1 DEF DeltasPlayed
  <2> QED BY <2>1, <2>2, <2>3
<1>7. RunningSum(d)[j] <= RunningSum(a)[j]
  BY <1>3, <1>4, <1>5, <1>6, SumsBelow
<1> QED BY <1>1, <1>2, <1>7 DEF PlayedAt, DeltasPlayed

\* A block that is not late, or is behind an end, makes none late.
LEMMA NotLateGrows ==
  ASSUME NEW t, NEW b \in Seq(Block), NEW c \in Seq(Block), Len(c) = Len(b) + 1,
         \A i \in 1..Len(b) : c[i] = b[i], NotLate(t, b),
         (\A k \in 1..Len(b) : b[k].msgType # "end") =>
            \A i \in 1..Len(c[Len(c)].events) :
              /\ TickOf(t, c[Len(c)].events[i]) \in Nat
              /\ PlayedAt(c, Len(c)) <= TickOf(t, c[Len(c)].events[i])
  PROVE  NotLate(t, c)
<1> SUFFICES ASSUME NEW j \in 1..Len(c), \A k \in 1..j - 1 : c[k].msgType # "end",
                    NEW i \in 1..Len(c[j].events)
             PROVE  TickOf(t, c[j].events[i]) \in Nat /\ PlayedAt(c, j) <= TickOf(t, c[j].events[i])
  BY DEF NotLate
<1>0. Len(b) \in Nat /\ \A k \in 1..j - 1 : k \in 1..Len(b)
  OBVIOUS
<1>1. \A k \in 1..j - 1 : b[k].msgType # "end"
  BY <1>0
<1>2. CASE j = Len(c)
  <2>1. j - 1 = Len(b)
    BY <1>0, <1>2
  <2> QED BY <1>1, <1>2, <2>1
<1>3. CASE j # Len(c)
  <2>1. j \in 1..Len(b) /\ j \in 0..Len(b) /\ c[j] = b[j]
    BY <1>3
  <2>2. PlayedAt(c, j) = PlayedAt(b, j)
    BY <2>1, PlayedGrows
  <2> QED BY <1>1, <2>1, <2>2 DEF NotLate
<1> QED BY <1>2, <1>3

\* Of a plain track, an end of track begins the group it is in, and so does a tempo
\* change where the group has a delta; where the group closes, a tempo change has a
\* message, and a delta has one or the end.
LEMMA PlainGroup ==
  ASSUME TypeOK, Plain(track), NEW m \in 1..Len(track), \A k \in 1..m - 1 : track[k].kind # "eot",
         NEW g \in 1..m, g = 1 \/ track[g].delta > 0,
         \A k \in g + 1..m : track[k].delta = 0
  PROVE  /\ track[m].kind = "eot" => m = g
         /\ (\E k \in g..m : track[k].kind = "tempo") /\ track[g].delta > 0 =>
              track[g].kind = "tempo"
         /\ Closes(track, m) =>
              /\ (\E k \in g..m : track[k].kind = "tempo") =>
                   \E k \in g..m : track[k].kind = "data"
              /\ track[g].delta > 0 =>
                   track[m].kind = "eot" \/ \E k \in g..m : track[k].kind = "data"
<1>0. Len(track) \in Nat
  BY TrackFacts
<1>1. PICK e \in 1..Len(track) :
        /\ track[e].kind = "eot" /\ \A k \in 1..e - 1 : track[k].kind # "eot"
        /\ \A h \in 1..e : h = 1 \/ track[h].delta > 0 =>
             LET group == {i \in h..e : \A k \in h + 1..i : track[k].delta = 0}
                 Has(kind) == \E i \in group : track[i].kind = kind
             IN  /\ Has("eot") => track[h].kind = "eot"
                 /\ Has("tempo") =>
                      Has("data") /\ (track[h].delta > 0 => track[h].kind = "tempo")
                 /\ track[h].delta > 0 => Has("data") \/ Has("eot")
  BY Zenon DEF Plain
<1> DEFINE group == {i \in g..e : \A k \in g + 1..i : track[k].delta = 0}
<1>2. m <= e
  <2>1. ~(e \in 1..m - 1)
    BY <1>1
  <2> QED BY <2>1
<1>3. \A i \in g..m : i \in group
  BY <1>2
<1>4. /\ (\E i \in group : track[i].kind = "eot") => track[g].kind = "eot"
      /\ (\E i \in group : track[i].kind = "tempo") =>
           /\ \E i \in group : track[i].kind = "data"
           /\ track[g].delta > 0 => track[g].kind = "tempo"
      /\ track[g].delta > 0 => \/ \E i \in group : track[i].kind = "data"
                               \/ \E i \in group : track[i].kind = "eot"
  <2>1. g \in 1..e
    BY <1>2
  <2> QED BY <1>1, <2>1, Zenon
<1>5. ASSUME Closes(track, m), NEW i \in group PROVE i \in g..m
  <2>1. CASE m = Len(track)
    BY <2>1
  <2>2. CASE track[m].kind = "eot"
    <3>1. ~(m \in 1..e - 1)
      BY <1>1, <2>2
    <3> QED BY <1>2, <3>1
  <2>3. CASE track[m + 1].delta # 0
    <3>1. ~(m + 1 \in g + 1..i)
      BY <2>3
    <3> QED BY <3>1
  <2> QED BY <1>5, <2>1, <2>2, <2>3 DEF Closes
<1>6. \A i \in group : track[i].kind = "eot" => i = e
  <2>1. ASSUME NEW i \in group, i # e PROVE i \in 1..e - 1
    BY <2>1
  <2> HIDE DEF group
  <2> QED BY <1>1, <2>1
<1> HIDE DEF group
<1>7. ASSUME track[m].kind = "eot" PROVE m = g
  <2>1. m \in group
    BY <1>3
  <2>2. ~(g \in 1..m - 1)
    BY <1>4, <1>7, <2>1
  <2> QED BY <2>2
<1>8. (\E k \in g..m : track[k].kind = "tempo") => \E i \in group : track[i].kind = "tempo"
  BY <1>3
<1>9. ASSUME Closes(track, m), NEW i \in group, track[i].kind = "eot"
      PROVE  track[m].kind = "eot"
  <2>1. i \in g..m /\ i = e
    BY <1>5, <1>6, <1>9
  <2> QED BY <1>2, <1>9, <2>1
<1>10. ASSUME Closes(track, m), NEW i \in group, track[i].kind = "data"
       PROVE  \E k \in g..m : track[k].kind = "data"
  BY <1>5, <1>10
<1> QED BY <1>4, <1>7, <1>8, <1>9, <1>10, Zenon

\* The ticks around an event that is taken.
LEMMA TakeTicks ==
  ASSUME TypeInv, Position, TakeEvent
  PROVE  /\ TickOf(track, pCmd - 1) \in Nat /\ track[pCmd].delta \in Nat
         /\ TickOf(track, pCmd) = TickOf(track, pCmd - 1) + track[pCmd].delta
         /\ EventDelta = track[pCmd].delta /\ PlayedAt(blocks, Len(blocks)) \in Nat
         /\ pCmd \in 1..Len(track) /\ pCmd' - 1 = pCmd /\ ~bEOT /\ groupOpen'
         /\ bEOT' = (track[pCmd].kind = "eot") /\ delta \in Nat
         /\ delta' = (IF groupOpen THEN delta ELSE track[pCmd].delta)
         /\ groupOpen => track[pCmd].delta = 0
<1>1. TypeOK /\ blocks \in Seq(Block)
  BY DEF TypeInv, BlocksBounded
<1>2. /\ pCmd \in 1..Len(track) /\ pCmd' = pCmd + 1 /\ track[pCmd] \in Event
      /\ ~bEOT /\ groupOpen' = TRUE /\ (groupOpen => track[pCmd].delta = 0)
  BY <1>1, TakeTypes
<1>3. /\ bEOT' = (track[pCmd].kind = "eot") /\ delta \in Nat
      /\ delta' = IF groupOpen THEN delta ELSE track[pCmd].delta
  BY <1>1 DEF TakeEvent, TypeOK
<1>4. track[pCmd].delta \in Nat
  <2>1. PICK e \in Event : e = track[pCmd]
    BY <1>2
  <2> QED BY <2>1 DEF Event
<1>5. /\ TickOf(track, pCmd - 1) \in Nat
      /\ TickOf(track, pCmd) = TickOf(track, pCmd - 1) + track[pCmd].delta
  <2>1. track \in Seq(Event) /\ pCmd - 1 \in 0..Len(track)
    BY <1>1, <1>2, TracksAssumption DEF TypeOK
  <2> QED BY <1>2, <2>1, TickGrows
<1>6. PlayedAt(blocks, Len(blocks)) \in Nat
  <2>1. Len(blocks) \in 0..Len(blocks)
    BY <1>1
  <2> QED BY <1>1, <2>1, PlayedType
<1>7. EventDelta = track[pCmd].delta
  BY <1>2 DEF EventDelta
<1> QED BY <1>2, <1>3, <1>4, <1>5, <1>6, <1>7

\* The block of a tempo change or an end.
LEMMA EventBlock ==
  ASSUME TypeInv, Position, ConvertTempo \/ ConvertEot
  PROVE  /\ blocks' \in Seq(Block) /\ Len(blocks') = Len(blocks) + 1 /\ Len(blocks) \in Nat
         /\ \A i \in 1..Len(blocks) : blocks'[i] = blocks[i]
         /\ blocks'[Len(blocks')].events = << >>
         /\ ConvertTempo => BehindTempo(blocks')
         /\ ConvertEot => ~BehindTempo(blocks') /\ blocks'[Len(blocks')].msgType = "end"
         /\ PlayedAt(blocks', Len(blocks')) = PlayedAt(blocks, Len(blocks))
              + (IF BehindTempo(blocks) THEN 0 ELSE track[pCmd].delta)
<1>1. PICK type \in {"tempo", "end"}, size \in Nat :
        /\ WriteBlock(type, EventDelta, size, << >>)
        /\ track[pCmd].kind = IF type = "tempo" THEN "tempo" ELSE "eot"
  <2>1. CASE ConvertTempo
    BY <2>1 DEF ConvertTempo, TempoBytes
  <2>2. CASE ConvertEot
    BY <2>2 DEF ConvertEot
  <2> QED BY <2>1, <2>2
<1>2. TypeOK /\ blocks \in Seq(Block) /\ TakeEvent
  BY DEF ConvertTempo, ConvertEot, TypeInv, BlocksBounded
<1>3. EventDelta = track[pCmd].delta /\ track[pCmd].delta \in Nat
  BY <1>2, TakeTicks
<1>4. << >> \in Seq(Nat) /\ type \in {"data", "tempo", "end"} /\ EventDelta \in Nat
  BY <1>3
<1>5. /\ blocks' \in Seq(Block) /\ Len(blocks') = Len(blocks) + 1 /\ Len(blocks) \in Nat
      /\ \A i \in 1..Len(blocks) : blocks'[i] = blocks[i]
      /\ blocks'[Len(blocks) + 1].msgType = type
      /\ blocks'[Len(blocks) + 1].events = << >>
      /\ blocks'[Len(blocks) + 1].delta = EventDelta
  BY <1>1, <1>2, <1>4, WriteTypes, ZenonT(60)
<1>6. PlayedAt(blocks', Len(blocks')) = PlayedAt(blocks, Len(blocks))
        + IF BehindTempo(blocks) THEN 0 ELSE blocks'[Len(blocks')].delta
  BY <1>2, <1>5, PlayedGrows
<1>7. BehindTempo(blocks') <=> type = "tempo"
  BY <1>5 DEF BehindTempo
<1>8. (ConvertTempo => type = "tempo") /\ (ConvertEot => type = "end")
  BY <1>1 DEF ConvertTempo, ConvertEot
<1>9. PlayedAt(blocks', Len(blocks')) = PlayedAt(blocks, Len(blocks))
        + (IF BehindTempo(blocks) THEN 0 ELSE track[pCmd].delta)
  BY <1>3, <1>5, <1>6
<1> QED BY <1>5, <1>7, <1>8, <1>9

\* The block of a group with bytes, and that there is none without.
LEMMA GroupBlock ==
  ASSUME TypeInv, ConvertGroup
  PROVE  /\ delta \in Nat /\ PlayedAt(blocks, Len(blocks)) \in Nat
         /\ Closes(track, pCmd - 1) \/ ~Position
         /\ bufPos > 0 =>
              /\ blocks' \in Seq(Block) /\ Len(blocks') = Len(blocks) + 1
              /\ \A i \in 1..Len(blocks) : blocks'[i] = blocks[i]
              /\ blocks'[Len(blocks')].events = buffer /\ ~BehindTempo(blocks')
              /\ PlayedAt(blocks', Len(blocks')) = PlayedAt(blocks, Len(blocks))
                   + (IF BehindTempo(blocks) THEN 0 ELSE delta)
         /\ ~(bufPos > 0) => blocks' = blocks
<1>1. /\ TypeOK /\ blocks \in Seq(Block) /\ Len(blocks) \in Nat /\ groupOpen /\ ~TakesEvent
      /\ delta \in Nat /\ bufPos \in Nat /\ buffer \in Seq(Nat)
  <2>1. TypeOK /\ blocks \in Seq(Block) /\ groupOpen /\ ~TakesEvent
    BY DEF ConvertGroup, LeaveGroup, TypeInv, BlocksBounded
  <2> QED BY <2>1, TrackFacts DEF TypeOK
<1>2. Closes(track, pCmd - 1) \/ ~Position
  BY <1>1, LeavesAtClose
<1>3. PlayedAt(blocks, Len(blocks)) \in Nat
  <2>1. Len(blocks) \in 0..Len(blocks)
    BY <1>1
  <2> QED BY <1>1, <2>1, PlayedType
<1>4. ASSUME bufPos > 0
      PROVE  /\ blocks' \in Seq(Block) /\ Len(blocks') = Len(blocks) + 1
             /\ \A i \in 1..Len(blocks) : blocks'[i] = blocks[i]
             /\ blocks'[Len(blocks')].events = buffer /\ ~BehindTempo(blocks')
             /\ PlayedAt(blocks', Len(blocks')) = PlayedAt(blocks, Len(blocks))
                  + (IF BehindTempo(blocks) THEN 0 ELSE delta)
  <2>1. WriteBlock("data", delta, bufPos, buffer)
    BY <1>4 DEF ConvertGroup
  <2>2. /\ blocks' \in Seq(Block) /\ Len(blocks') = Len(blocks) + 1
        /\ \A i \in 1..Len(blocks) : blocks'[i] = blocks[i]
        /\ blocks'[Len(blocks')].msgType = "data"
        /\ blocks'[Len(blocks')].events = buffer /\ blocks'[Len(blocks')].delta = delta
    BY <1>1, <2>1, WriteTypes
  <2>3. PlayedAt(blocks', Len(blocks')) = PlayedAt(blocks, Len(blocks))
          + IF BehindTempo(blocks) THEN 0 ELSE blocks'[Len(blocks')].delta
    BY <1>1, <2>2, PlayedGrows
  <2>4. ~BehindTempo(blocks')
    BY <2>2 DEF BehindTempo
  <2> QED BY <2>2, <2>3, <2>4
<1>5. ASSUME ~(bufPos > 0) PROVE blocks' = blocks
  BY <1>5 DEF ConvertGroup, written
<1> QED BY <1>1, <1>2, <1>3, <1>4, <1>5

\* An event of the second pass makes nothing late.
LEMMA ConvertLate ==
  ASSUME TypeInv, KeptInv, LateInv, ConvertData \/ ConvertTempo \/ ConvertEot \/ ConvertOther
  PROVE  LateInv'
<1>0. /\ TypeOK /\ track' = track /\ pass = "convert" /\ pass' = "convert" /\ TakeEvent
      /\ blocks \in Seq(Block) /\ Position /\ buffer \in Seq(Nat)
      /\ (~groupOpen => buffer = << >>)
  <2>1. /\ TypeOK /\ track' = track /\ pass = "convert" /\ pass' = "convert" /\ TakeEvent
        /\ blocks \in Seq(Block) /\ Position /\ (~groupOpen => buffer = << >>)
    BY DEF ConvertData, ConvertTempo, ConvertEot, ConvertOther, TypeInv, KeptInv,
           BlocksBounded, GroupsEmptied
  <2> QED BY <2>1, TrackFacts DEF TypeOK
<1>1. PICK x : x = TickOf(track, pCmd - 1)
  OBVIOUS
<1>2. PICK y : y = TickOf(track, pCmd)
  OBVIOUS
<1>3. PICK p : p = PlayedAt(blocks, Len(blocks))
  OBVIOUS
<1>4. PICK d : d = track[pCmd].delta
  OBVIOUS
<1>5. /\ x \in Nat /\ d \in Nat /\ y = x + d /\ p \in Nat /\ delta \in Nat
      /\ pCmd \in 1..Len(track) /\ pCmd' - 1 = pCmd /\ ~bEOT /\ groupOpen'
      /\ bEOT' = (track[pCmd].kind = "eot") /\ delta' = (IF groupOpen THEN delta ELSE d)
      /\ groupOpen => d = 0
  BY <1>0, <1>1, <1>2, <1>3, <1>4, TakeTicks
<1>6. /\ NotLate(track, blocks) /\ \A i \in 1..Len(buffer) : TickOf(track, buffer[i]) = x
      /\ p + (IF groupOpen /\ ~BehindTempo(blocks) THEN delta ELSE 0) <= x
  BY <1>0, <1>1, <1>3, <1>5 DEF LateInv
<1>7. \A i \in 1..Len(buffer) : TickOf(track, buffer[i]) = y
  <2>1. CASE groupOpen
    BY <1>5, <1>6, <2>1
  <2>2. CASE ~groupOpen
    BY <1>0, <2>2
  <2> QED BY <2>1, <2>2
<1>8. TickOf(track', pCmd' - 1) = y
  BY <1>0, <1>2, <1>5
<1>9. CASE ConvertData \/ ConvertOther
  <2>1. blocks' = blocks /\ ~bEOT'
    BY <1>5, <1>9 DEF ConvertData, ConvertOther, written
  <2>2. \A i \in 1..Len(buffer') : TickOf(track', buffer'[i]) = y
    <3>1. CASE ConvertData
      <4>1. buffer' = Append(buffer, pCmd)
        BY <3>1 DEF ConvertData
      <4>2. /\ Len(buffer') = Len(buffer) + 1 /\ buffer'[Len(buffer) + 1] = pCmd
            /\ \A i \in 1..Len(buffer) : buffer'[i] = buffer[i]
            /\ Len(buffer) \in Nat
        BY <1>0, <1>5, <4>1, AppendProperties
      <4> SUFFICES ASSUME NEW i \in 1..Len(buffer') PROVE TickOf(track, buffer'[i]) = y
        BY <1>0
      <4>3. CASE i = Len(buffer) + 1
        BY <1>2, <4>2, <4>3
      <4>4. CASE i # Len(buffer) + 1
        <5>1. i \in 1..Len(buffer)
          BY <4>2, <4>4
        <5> QED BY <1>7, <4>2, <5>1
      <4> QED BY <4>3, <4>4
    <3>2. CASE ConvertOther
      <4>1. buffer' = buffer
        BY <3>2 DEF ConvertOther
      <4> QED BY <1>0, <1>7, <4>1
    <3> QED BY <1>9, <3>1, <3>2
  <2>3. p + (IF ~BehindTempo(blocks) THEN delta' ELSE 0) <= y
    BY <1>5, <1>6
  <2>4. PlayedAt(blocks', Len(blocks')) = p /\ NotLate(track', blocks')
        /\ BehindTempo(blocks') = BehindTempo(blocks)
    BY <1>0, <1>3, <1>6, <2>1
  <2> QED BY <1>0, <1>5, <1>8, <2>1, <2>2, <2>3, <2>4 DEF LateInv
<1>10. CASE ConvertTempo \/ ConvertEot
  <2>1. /\ blocks' \in Seq(Block) /\ Len(blocks') = Len(blocks) + 1 /\ Len(blocks) \in Nat
        /\ \A i \in 1..Len(blocks) : blocks'[i] = blocks[i]
        /\ blocks'[Len(blocks')].events = << >>
        /\ ConvertTempo => BehindTempo(blocks')
        /\ ConvertEot => blocks'[Len(blocks')].msgType = "end"
        /\ PlayedAt(blocks', Len(blocks')) = p + (IF BehindTempo(blocks) THEN 0 ELSE d)
    BY <1>0, <1>3, <1>4, <1>10, EventBlock
  <2>2. NotLate(track', blocks')
    <3>1. Len(blocks'[Len(blocks')].events) = 0
      BY <2>1
    <3>2. \A i \in 1..Len(blocks'[Len(blocks')].events) :
            /\ TickOf(track, blocks'[Len(blocks')].events[i]) \in Nat
            /\ PlayedAt(blocks', Len(blocks')) <= TickOf(track, blocks'[Len(blocks')].events[i])
      BY <3>1
    <3> QED BY <1>0, <1>6, <2>1, <3>2, NotLateGrows
  <2>3. \A i \in 1..Len(buffer') : TickOf(track', buffer'[i]) = y
    <3>1. buffer' = buffer
      BY <1>10 DEF ConvertTempo, ConvertEot
    <3> QED BY <1>0, <1>7, <3>1
  <2>4. CASE ConvertTempo
    <3>1. ~bEOT' /\ BehindTempo(blocks')
      BY <1>5, <2>1, <2>4 DEF ConvertTempo
    <3>2. PlayedAt(blocks', Len(blocks')) <= y
      BY <1>5, <1>6, <2>1
    <3>3. PlayedAt(blocks', Len(blocks')) + 0 <= y
      BY <1>5, <2>1, <3>2
    <3> QED BY <1>0, <1>8, <2>2, <2>3, <3>1, <3>3 DEF LateInv
  <2>5. CASE ConvertEot
    <3>1. bEOT' /\ Len(blocks') \in 1..Len(blocks') /\ blocks'[Len(blocks')].msgType = "end"
      <4>1. track[pCmd].kind = "eot"
        BY <2>5 DEF ConvertEot
      <4>2. bEOT' = (track[pCmd].kind = "eot")
        BY <1>5
      <4>3. Len(blocks') \in 1..Len(blocks')
        BY <2>1
      <4> QED BY <2>1, <2>5, <4>1, <4>2, <4>3, Zenon
    <3> QED BY <1>0, <1>8, <2>2, <2>3, <3>1 DEF LateInv
  <2> QED BY <1>10, <2>4, <2>5
<1> QED BY <1>9, <1>10

\* Nor does the block of a group.
LEMMA GroupLate == ASSUME TypeInv, KeptInv, LateInv, ConvertGroup PROVE LateInv'
<1>0. /\ UNCHANGED <<track, pCmd, bEOT>> /\ pass = "convert" /\ pass' = "convert"
      /\ blocks \in Seq(Block) /\ groupOpen /\ ~groupOpen' /\ buffer' = << >>
  BY DEF ConvertGroup, LeaveGroup, TypeInv, BlocksBounded
<1>1. PICK x : x = TickOf(track, pCmd - 1)
  OBVIOUS
<1>2. PICK p : p = PlayedAt(blocks, Len(blocks))
  OBVIOUS
<1>3. /\ NotLate(track, blocks) /\ \A i \in 1..Len(buffer) : TickOf(track, buffer[i]) = x
      /\ IF bEOT THEN \E j \in 1..Len(blocks) : blocks[j].msgType = "end"
                 ELSE p + (IF ~BehindTempo(blocks) THEN delta ELSE 0) <= x
  BY <1>0, <1>1, <1>2 DEF LateInv
<1>4. TickOf(track', pCmd' - 1) = x
  BY <1>0, <1>1
<1>5. delta \in Nat /\ p \in Nat
  BY <1>2, GroupBlock
<1>6. x \in Nat
  <2>1. track \in Seq(Event) /\ pCmd - 1 \in 0..Len(track)
    BY TracksAssumption, TrackFacts DEF TypeInv, TypeOK
  <2> QED BY <1>1, <2>1, TickGrows
<1>7. \A i \in 1..Len(buffer') : TickOf(track', buffer'[i]) = x
  BY <1>0
<1>8. CASE bufPos > 0
  <2>1. /\ blocks' \in Seq(Block) /\ Len(blocks') = Len(blocks) + 1
        /\ \A i \in 1..Len(blocks) : blocks'[i] = blocks[i]
        /\ blocks'[Len(blocks')].events = buffer
        /\ PlayedAt(blocks', Len(blocks')) = p + (IF BehindTempo(blocks) THEN 0 ELSE delta)
    BY <1>2, <1>8, GroupBlock
  <2>2. PICK q : q = PlayedAt(blocks', Len(blocks'))
    OBVIOUS
  <2>3. ~bEOT => q <= x /\ q + 0 <= x
    BY <1>3, <1>5, <2>1, <2>2
  <2>4. bEOT => \E j \in 1..Len(blocks) : blocks[j].msgType = "end"
    BY <1>3
  <2>5. NotLate(track', blocks')
    <3>1. ASSUME \A k \in 1..Len(blocks) : blocks[k].msgType # "end",
                 NEW i \in 1..Len(blocks'[Len(blocks')].events)
          PROVE  /\ TickOf(track, blocks'[Len(blocks')].events[i]) \in Nat
                 /\ PlayedAt(blocks', Len(blocks'))
                      <= TickOf(track, blocks'[Len(blocks')].events[i])
      <4>1. q <= x
        BY <2>3, <2>4, <3>1
      <4>2. TickOf(track, blocks'[Len(blocks')].events[i]) = x
        BY <1>3, <2>1
      <4> QED BY <1>6, <2>2, <4>1, <4>2
    <3> QED BY <1>0, <1>3, <2>1, <3>1, NotLateGrows
  <2>6. bEOT' => \E j \in 1..Len(blocks') : blocks'[j].msgType = "end"
    <3>1. \A j \in 1..Len(blocks) : j \in 1..Len(blocks')
      BY <1>0, <2>1
    <3> QED BY <1>0, <2>1, <2>4, <3>1
  <2> QED BY <1>0, <1>4, <1>7, <2>2, <2>3, <2>5, <2>6 DEF LateInv
<1>9. CASE ~(bufPos > 0)
  <2>1. blocks' = blocks
    BY <1>9, GroupBlock
  <2>2. ~bEOT => p + 0 <= x
    BY <1>3, <1>5, <1>6
  <2> QED BY <1>0, <1>2, <1>3, <1>4, <1>7, <2>1, <2>2 DEF LateInv
<1> QED BY <1>8, <1>9

\* Nor does an end that was missing, though it takes the delta from the first block.
LEMMA ConvertedLate == ASSUME TypeInv, LateInv, Converted PROVE LateInv'
<1>0. /\ track' = track /\ pass = "convert" /\ pass' = "done"
      /\ NotLate(track, blocks) /\ blocks \in Seq(Block)
  BY DEF Converted, LateInv, TypeInv, BlocksBounded
<1>1. blocks' \in Seq(Block)
  BY ConvertedTypes DEF TypeInv, BlocksBounded
<1>2. CASE bEOT
  <2>1. blocks' = blocks
    BY <1>2 DEF Converted, written
  <2> QED BY <1>0, <2>1 DEF LateInv
<1>3. CASE ~bEOT
  <2>1. PICK c : c = blocks'
    OBVIOUS
  <2>2. /\ Len(c) = Len(blocks) + 1 /\ c \in Seq(Block) /\ c[Len(c)].events = << >>
        /\ \A i \in 1..Len(blocks) : /\ c[i].msgType = blocks[i].msgType
                                     /\ c[i].events = blocks[i].events
                                     /\ c[i].delta <= blocks[i].delta
    BY <1>1, <1>3, <2>1, ConvertedTypes
  <2>3. NotLate(track, c)
    <3> SUFFICES ASSUME NEW j \in 1..Len(c), \A k \in 1..j - 1 : c[k].msgType # "end",
                        NEW i \in 1..Len(c[j].events)
                 PROVE  /\ TickOf(track, c[j].events[i]) \in Nat
                        /\ PlayedAt(c, j) <= TickOf(track, c[j].events[i])
      BY DEF NotLate
    <3>1. Len(blocks) \in Nat /\ Len(blocks) <= Len(c)
      BY <1>0, <2>2
    <3>2. j \in 1..Len(blocks)
      <4>1. CASE j = Len(c)
        BY <2>2, <4>1
      <4> QED BY <2>2, <3>1, <4>1
    <3>3. \A k \in 1..j - 1 : k \in 1..Len(blocks)
      BY <3>1, <3>2
    <3>4. \A k \in 1..j - 1 : blocks[k].msgType # "end"
      BY <2>2, <3>3
    <3>5. c[j].events = blocks[j].events
      BY <2>2, <3>2
    <3>6. /\ TickOf(track, c[j].events[i]) \in Nat
          /\ PlayedAt(blocks, j) <= TickOf(track, c[j].events[i])
      BY <1>0, <3>2, <3>4, <3>5 DEF NotLate
    <3>7. PlayedAt(c, j) <= PlayedAt(blocks, j)
      BY <1>0, <2>2, <3>1, <3>2, PlayedBelow
    <3>8. PlayedAt(c, j) \in Nat /\ PlayedAt(blocks, j) \in Nat
      <4>1. j \in 0..Len(blocks) /\ j \in 0..Len(c)
        BY <3>2
      <4> QED BY <1>0, <2>2, <4>1, PlayedType
    <3> QED BY <3>6, <3>7, <3>8
  <2> QED BY <1>0, <2>1, <2>3 DEF LateInv
<1> QED BY <1>2, <1>3
\* An event of the second pass leaves a plain track on time.
LEMMA ConvertTimes ==
  ASSUME TypeInv, KeptInv, TimeInv, ConvertData \/ ConvertTempo \/ ConvertEot \/ ConvertOther
  PROVE  TimeInv'
<1>0. /\ TypeOK /\ track' = track /\ pass = "convert" /\ pass' = "convert" /\ TakeEvent
      /\ blocks \in Seq(Block) /\ Position /\ groupOpen' /\ bufPos \in Nat
      /\ (~groupOpen => bufPos = 0)
  BY DEF ConvertData, ConvertTempo, ConvertEot, ConvertOther, TakeEvent, TypeInv, KeptInv,
         BlocksBounded, GroupsEmptied, TypeOK
<1>1. PICK x : x = TickOf(track, pCmd - 1)
  OBVIOUS
<1>2. PICK y : y = TickOf(track, pCmd)
  OBVIOUS
<1>3. PICK p : p = PlayedAt(blocks, Len(blocks))
  OBVIOUS
<1>4. PICK d : d = track[pCmd].delta
  OBVIOUS
<1>5. /\ x \in Nat /\ d \in Nat /\ y = x + d /\ p \in Nat /\ delta \in Nat
      /\ pCmd \in 1..Len(track) /\ pCmd' - 1 = pCmd /\ ~bEOT
      /\ bEOT' = (track[pCmd].kind = "eot") /\ delta' = (IF groupOpen THEN delta ELSE d)
      /\ groupOpen => d = 0
  BY <1>0, <1>1, <1>2, <1>3, <1>4, TakeTicks
<1>6. PICK q : q = PlayedAt(blocks', Len(blocks'))
  OBVIOUS
<1> SUFFICES ASSUME Plain(track') PROVE
    /\ OnTime(track, blocks')
    /\ \E g \in 1..pCmd :
         /\ GroupFrom(g)'
         /\ \/ q + delta' = y /\ ~BehindTempo(blocks') /\ ~bEOT' /\ track[g].kind # "tempo"
            \/ /\ q = y /\ BehindTempo(blocks') /\ ~bEOT'
               /\ \E k \in g..pCmd : track[k].kind = "tempo"
            \/ q = y /\ ~BehindTempo(blocks') /\ bEOT' /\ bufPos' = 0
  BY <1>0, <1>2, <1>5, <1>6 DEF TimeInv
<1>7. Plain(track)
  BY <1>0
<1>8. OnTime(track, blocks)
  BY <1>0, <1>7 DEF TimeInv
<1>9. PICK g \in 1..pCmd :
        /\ g = 1 \/ track[g].delta > 0
        /\ delta' = track[g].delta /\ \A k \in g + 1..pCmd : track[k].delta = 0
        /\ bufPos > 0 <=> \E k \in g..pCmd - 1 : track[k].kind = "data"
        /\ groupOpen => g # pCmd /\
             \/ p + delta = x /\ ~BehindTempo(blocks) /\ track[g].kind # "tempo"
             \/ p = x /\ BehindTempo(blocks) /\ \E k \in g..pCmd - 1 : track[k].kind = "tempo"
        /\ ~groupOpen => g = pCmd /\ p = x /\ ~BehindTempo(blocks)
  <2>1. CASE groupOpen
    <3>1. PICK g \in 1..pCmd - 1 :
            /\ GroupFrom(g)
            /\ \/ p + delta = x /\ ~BehindTempo(blocks) /\ track[g].kind # "tempo"
               \/ p = x /\ BehindTempo(blocks) /\ \E k \in g..pCmd - 1 : track[k].kind = "tempo"
      BY <1>0, <1>1, <1>3, <1>5, <1>7, <2>1 DEF TimeInv
    <3>2. /\ g = 1 \/ track[g].delta > 0
          /\ delta = track[g].delta /\ \A k \in g + 1..pCmd - 1 : track[k].delta = 0
          /\ bufPos > 0 <=> \E k \in g..pCmd - 1 : track[k].kind = "data"
      BY <3>1 DEF GroupFrom
    <3>3. \A k \in g + 1..pCmd : track[k].delta = 0
      <4>1. \A k \in g + 1..pCmd : k = pCmd \/ k \in g + 1..pCmd - 1
        BY <1>5
      <4> QED BY <1>4, <1>5, <2>1, <3>2, <4>1
    <3>4. g \in 1..pCmd /\ g # pCmd
      BY <1>5
    <3> QED BY <1>5, <2>1, <3>1, <3>2, <3>3, <3>4
  <2>2. CASE ~groupOpen
    <3>1. pCmd = 1 \/ track[pCmd].delta > 0
      <4>1. CASE pCmd # 1
        <5>1. pCmd > 1 /\ (pCmd - 1) + 1 = pCmd /\ pCmd - 1 # Len(track)
          BY <1>0, <1>5, <4>1, TrackFacts
        <5>2. track[pCmd - 1].kind # "eot" /\ Closes(track, pCmd - 1)
          BY <1>0, <1>5, <2>2, <4>1, <5>1 DEF Position
        <5> QED BY <1>4, <1>5, <5>1, <5>2 DEF Closes
      <4> QED BY <4>1
    <3>2. p = x /\ ~BehindTempo(blocks)
      BY <1>0, <1>1, <1>3, <1>7, <2>2 DEF TimeInv
    <3>3. ~(\E k \in pCmd..pCmd - 1 : TRUE) /\ ~(\E k \in pCmd + 1..pCmd : TRUE)
      BY <1>5
    <3>4. pCmd \in 1..pCmd
      BY <1>5
    <3> QED BY <1>0, <1>4, <1>5, <2>2, <3>1, <3>2, <3>3, <3>4
  <2> QED BY <2>1, <2>2
<1>10. /\ track[pCmd].kind = "eot" => pCmd = g
       /\ (\E k \in g..pCmd : track[k].kind = "tempo") /\ track[g].delta > 0 =>
            track[g].kind = "tempo"
  <2>1. \A k \in 1..pCmd - 1 : track[k].kind # "eot"
    <3>1. \A k \in 1..pCmd - 1 : k = pCmd - 1 \/ k \in 1..pCmd - 2
      BY <1>5
    <3>2. pCmd > 1 => track[pCmd - 1].kind # "eot"
      BY <1>0, <1>5 DEF Position
    <3>3. \A k \in 1..pCmd - 2 : track[k].kind # "eot"
      BY <1>0 DEF Position
    <3> QED BY <1>5, <3>1, <3>2, <3>3
  <2> QED BY <1>0, <1>5, <1>7, <1>9, <2>1, PlainGroup
<1>11. /\ \A k \in g..pCmd : k = pCmd \/ k \in g..pCmd - 1
       /\ \A k \in g..pCmd - 1 : k \in g..pCmd
       /\ pCmd \in g..pCmd /\ g \in g..pCmd
  BY <1>5
<1>12. ASSUME bufPos' > 0 <=> bufPos > 0 \/ track[pCmd].kind = "data" PROVE GroupFrom(g)'
  <2>1. bufPos' > 0 <=> \E k \in g..pCmd : track[k].kind = "data"
    BY <1>9, <1>11, <1>12
  <2> QED BY <1>0, <1>5, <1>9, <2>1 DEF GroupFrom
<1>13. CASE ConvertData \/ ConvertOther
  <2>1. /\ blocks' = blocks /\ ~bEOT' /\ track[pCmd].kind \in {"data", "other"}
    BY <1>5, <1>13 DEF ConvertData, ConvertOther, written
  <2>2. bufPos' > 0 <=> bufPos > 0 \/ track[pCmd].kind = "data"
    <3>1. CASE ConvertData
      <4>1. track[pCmd].kind = "data" /\ bufPos' = bufPos + track[pCmd].size
        BY <3>1 DEF ConvertData
      <4>2. PICK e \in Event : e = track[pCmd]
        BY <1>0, <1>5, TrackFacts
      <4>3. track[pCmd].size > 0
        <5>1. track \in Tracks
          BY <1>0 DEF TypeOK
        <5> QED BY <1>5, <4>1, <5>1, DataAssumption
      <4>4. e.size \in Nat
        BY DEF Event
      <4> QED BY <1>0, <4>1, <4>2, <4>3, <4>4
    <3>2. CASE ConvertOther
      BY <3>2 DEF ConvertOther
    <3> QED BY <1>13, <3>1, <3>2
  <2>3. q = p
    BY <1>3, <1>6, <2>1
  <2>4. OnTime(track, blocks') /\ BehindTempo(blocks') = BehindTempo(blocks)
    BY <1>8, <2>1
  <2>5. CASE groupOpen
    <3>1. y = x /\ delta' = delta
      BY <1>5, <2>5
    <3>2. (\E k \in g..pCmd - 1 : track[k].kind = "tempo") =>
            \E k \in g..pCmd : track[k].kind = "tempo"
      BY <1>11
    <3> QED BY <1>9, <1>12, <2>1, <2>2, <2>3, <2>4, <2>5, <3>1, <3>2
  <2>6. CASE ~groupOpen
    <3>1. q + delta' = y /\ ~BehindTempo(blocks') /\ track[g].kind # "tempo"
      BY <1>5, <1>9, <2>1, <2>3, <2>4, <2>6
    <3> QED BY <1>9, <1>12, <2>1, <2>2, <2>4, <3>1
  <2> QED BY <2>5, <2>6
<1>14. CASE ConvertTempo \/ ConvertEot
  <2>1. /\ blocks' \in Seq(Block) /\ Len(blocks') = Len(blocks) + 1
        /\ \A i \in 1..Len(blocks) : blocks'[i] = blocks[i]
        /\ blocks'[Len(blocks')].events = << >>
        /\ ConvertTempo => BehindTempo(blocks')
        /\ ConvertEot => ~BehindTempo(blocks')
        /\ q = p + (IF BehindTempo(blocks) THEN 0 ELSE d)
    BY <1>0, <1>3, <1>4, <1>6, <1>14, EventBlock
  <2>2. OnTime(track, blocks')
    <3>1. Len(blocks'[Len(blocks')].events) = 0
      BY <2>1
    <3>2. \A i \in 1..Len(blocks'[Len(blocks')].events) :
            TickOf(track, blocks'[Len(blocks')].events[i]) = PlayedAt(blocks', Len(blocks'))
      BY <3>1
    <3> QED BY <1>0, <1>8, <2>1, <3>2, OnTimeGrows
  <2>3. bufPos' = bufPos /\ track[pCmd].kind # "data"
    BY <1>14 DEF ConvertTempo, ConvertEot
  <2>4. GroupFrom(g)'
    BY <1>12, <2>3
  <2>5. CASE ConvertTempo
    <3>1. track[pCmd].kind = "tempo"
      BY <2>5 DEF ConvertTempo
    <3>2. ~bEOT' /\ BehindTempo(blocks') /\ \E k \in g..pCmd : track[k].kind = "tempo"
      BY <1>5, <1>11, <2>1, <2>5, <3>1
    <3>3. q = y
      <4>1. CASE ~groupOpen
        BY <1>5, <1>9, <2>1, <4>1
      <4>2. CASE groupOpen
        <5>1. delta = track[g].delta /\ q = p /\ y = x
          BY <1>5, <1>9, <2>1, <4>2
        <5>2. CASE p + delta = x /\ track[g].kind # "tempo"
          <6>1. ~(delta > 0)
            BY <1>10, <3>2, <5>1, <5>2
          <6> QED BY <1>5, <5>1, <5>2, <6>1
        <5> QED BY <1>9, <4>2, <5>1, <5>2
      <4> QED BY <4>1, <4>2
    <3> QED BY <2>2, <2>4, <3>2, <3>3
  <2>6. CASE ConvertEot
    <3>1. track[pCmd].kind = "eot"
      BY <2>6 DEF ConvertEot
    <3>2. g = pCmd /\ ~groupOpen
      BY <1>9, <1>10, <3>1
    <3>3. q = y /\ bufPos' = 0 /\ bEOT' /\ ~BehindTempo(blocks')
      BY <1>0, <1>5, <1>9, <2>1, <2>3, <2>6, <3>1, <3>2
    <3> QED BY <2>2, <2>4, <3>3
  <2> QED BY <1>14, <2>5, <2>6
<1> QED BY <1>13, <1>14
\* So does the block of a group: its delta is still to come, or was the tempo change's,
\* or there is none.
LEMMA GroupTimes == ASSUME TypeInv, KeptInv, LateInv, TimeInv, ConvertGroup PROVE TimeInv'
<1>0. /\ UNCHANGED <<track, pCmd, bEOT>> /\ pass = "convert" /\ pass' = "convert"
      /\ blocks \in Seq(Block) /\ groupOpen /\ ~groupOpen' /\ TypeOK /\ Position
      /\ bufPos \in Nat
  BY DEF ConvertGroup, LeaveGroup, TypeInv, TypeOK, KeptInv, BlocksBounded
<1>1. PICK x : x = TickOf(track, pCmd - 1)
  OBVIOUS
<1>2. PICK p : p = PlayedAt(blocks, Len(blocks))
  OBVIOUS
<1>3. PICK q : q = PlayedAt(blocks', Len(blocks'))
  OBVIOUS
<1> SUFFICES ASSUME Plain(track')
             PROVE  OnTime(track, blocks') /\ q = x /\ ~BehindTempo(blocks')
  BY <1>0, <1>1, <1>3 DEF TimeInv
<1>4. Plain(track)
  BY <1>0
<1>5. OnTime(track, blocks) /\ \A i \in 1..Len(buffer) : TickOf(track, buffer[i]) = x
  BY <1>0, <1>1, <1>4 DEF TimeInv, LateInv
<1>6. PICK g \in 1..pCmd - 1 :
        /\ GroupFrom(g)
        /\ \/ p + delta = x /\ ~BehindTempo(blocks) /\ ~bEOT
           \/ /\ p = x /\ BehindTempo(blocks) /\ ~bEOT
              /\ \E k \in g..pCmd - 1 : track[k].kind = "tempo"
           \/ p = x /\ ~BehindTempo(blocks) /\ bEOT /\ bufPos = 0
  BY <1>0, <1>1, <1>2, <1>4 DEF TimeInv
<1>7. /\ pCmd - 1 \in 1..Len(track) /\ delta \in Nat /\ p \in Nat
      /\ ~bEOT => track[pCmd - 1].kind # "eot"
  <2>1. pCmd \in 1..Len(track) + 1 /\ pCmd > 1 /\ Len(track) \in Nat
    BY <1>0, TrackFacts DEF TypeOK, Position
  <2> QED BY <1>0, <1>2, <2>1, GroupBlock DEF Position
<1>8. /\ (\E k \in g..pCmd - 1 : track[k].kind = "tempo") => bufPos > 0
      /\ delta > 0 => track[pCmd - 1].kind = "eot" \/ bufPos > 0
  <2>1. PICK m : m = pCmd - 1
    OBVIOUS
  <2>2. /\ g \in 1..m /\ m \in 1..Len(track)
        /\ g = 1 \/ track[g].delta > 0
        /\ delta = track[g].delta /\ \A k \in g + 1..m : track[k].delta = 0
        /\ bufPos > 0 <=> \E k \in g..m : track[k].kind = "data"
    BY <1>6, <1>7, <2>1 DEF GroupFrom
  <2>3. Closes(track, m)
    BY <1>0, <2>1, GroupBlock
  <2>4. \A k \in 1..m - 1 : track[k].kind # "eot"
    <3>1. m - 1 = pCmd - 2
      BY <1>7, <2>1, <1>0 DEF TypeOK
    <3> QED BY <1>0, <3>1 DEF Position
  <2>5. /\ (\E k \in g..m : track[k].kind = "tempo") =>
             \E k \in g..m : track[k].kind = "data"
        /\ track[g].delta > 0 =>
             track[m].kind = "eot" \/ \E k \in g..m : track[k].kind = "data"
    BY <1>0, <1>4, <2>2, <2>3, <2>4, PlainGroup
  <2> QED BY <2>1, <2>2, <2>5
<1>9. CASE bufPos > 0
  <2>1. /\ blocks' \in Seq(Block) /\ Len(blocks') = Len(blocks) + 1
        /\ \A i \in 1..Len(blocks) : blocks'[i] = blocks[i]
        /\ blocks'[Len(blocks')].events = buffer /\ ~BehindTempo(blocks')
        /\ q = p + (IF BehindTempo(blocks) THEN 0 ELSE delta)
    BY <1>2, <1>3, <1>9, GroupBlock
  <2>2. q = x
    BY <1>6, <1>7, <1>9, <2>1
  <2>3. OnTime(track, blocks')
    <3>1. \A i \in 1..Len(blocks'[Len(blocks')].events) :
            TickOf(track, blocks'[Len(blocks')].events[i]) = PlayedAt(blocks', Len(blocks'))
      BY <1>3, <1>5, <2>1, <2>2
    <3> QED BY <1>0, <1>5, <2>1, <3>1, OnTimeGrows
  <2> QED BY <2>1, <2>2, <2>3
<1>10. CASE ~(bufPos > 0)
  <2>1. blocks' = blocks /\ q = p
    BY <1>2, <1>3, <1>10, GroupBlock
  <2>2. p = x /\ ~BehindTempo(blocks)
    BY <1>6, <1>7, <1>8, <1>10
  <2> QED BY <1>5, <2>1, <2>2
<1> QED BY <1>9, <1>10

\* A plain track has its end, so nothing is added.
LEMMA ConvertedTimes == ASSUME TypeInv, KeptInv, TimeInv, Converted PROVE TimeInv'
<1>1. /\ TypeOK /\ Position /\ UNCHANGED <<track, bEOT>> /\ pass = "convert" /\ pass' = "done"
      /\ ~MoreEvents
  BY DEF Converted, TypeInv, KeptInv
<1> SUFFICES ASSUME Plain(track') PROVE OnTime(track', blocks')
  BY <1>1 DEF TimeInv
<1>2. Plain(track)
  BY <1>1
<1>3. bEOT
  <2>1. PICK i \in 1..Len(track) : track[i].kind = "eot"
    BY <1>2, Zenon DEF Plain
  <2>2. IsLast(track, pCmd - 1) /\ (HasEnd(track, pCmd - 1) <=> bEOT)
    BY <1>1, LastIsRead
  <2>3. Len(track) \in Nat /\ pCmd \in 1..Len(track) + 1
    BY <1>1, TrackFacts DEF TypeOK
  <2>4. CASE pCmd - 1 = Len(track)
    <3>1. i = pCmd - 1 \/ i \in 1..(pCmd - 1) - 1
      BY <2>3, <2>4
    <3>2. i = pCmd - 1
      BY <2>1, <2>2, <3>1 DEF IsLast
    <3> QED BY <2>1, <2>2, <3>2 DEF HasEnd
  <2>5. CASE pCmd - 1 # Len(track)
    BY <2>2, <2>5 DEF IsLast, HasEnd
  <2> QED BY <2>4, <2>5
<1>4. blocks' = blocks
  BY <1>3 DEF Converted, written
<1> QED BY <1>1, <1>2, <1>4 DEF TimeInv

LEMMA NextTimes ==
  ASSUME TypeInv, KeptInv, LateInv, TimeInv, [Next]_vars PROVE LateInv' /\ TimeInv'
<1>1. CASE CollectData \/ CollectTempo \/ CollectEot \/ CollectOther \/ CollectGroup
  <2>1. pass' = "collect"
    BY <1>1 DEF CollectData, CollectTempo, CollectEot, CollectOther, CollectGroup
  <2> QED BY <2>1 DEF LateInv, TimeInv
<1>2. CASE Collected
  <2>1. /\ pass' = "convert" /\ blocks' = << >> /\ pCmd' = 1 /\ ~groupOpen' /\ track' = track
        /\ track \in Seq(Event) /\ buffer' = << >> /\ ~bEOT'
    BY <1>2, TracksAssumption DEF Collected, written, TypeInv, TypeOK, KeptInv, BlocksBounded
  <2>2. << >> \in Seq(Block) /\ Len(<< >>) = 0
    OBVIOUS
  <2>3. PICK b \in Seq(Block) : b = blocks' /\ Len(b) = 0
    BY <2>1, <2>2
  <2>4. /\ PlayedAt(b, Len(b)) = 0 /\ ~BehindTempo(b)
        /\ OnTime(track, b) /\ NotLate(track, b)
    <3>1. PlayedAt(b, 0) = 0
      BY PlayedType
    <3>2. PlayedAt(b, Len(b)) = 0
      BY <2>3, <3>1, Zenon
    <3>3. ~BehindTempo(b)
      BY <2>3 DEF BehindTempo
    <3>4. OnTime(track, b) /\ NotLate(track, b)
      <4>1. 1..Len(b) = {}
        BY <2>3
      <4> QED BY <4>1 DEF OnTime, NotLate
    <3> QED BY <3>2, <3>3, <3>4
  <2>5. TickOf(track, 0) = 0
    BY <2>1, TickGrows
  <2>6. pCmd' - 1 = 0
    BY <2>1
  <2>7. \A i \in 1..Len(buffer') : TickOf(track', buffer'[i]) = TickOf(track', pCmd' - 1)
    BY <2>1
  <2>8. TimeInv'
    BY <2>1, <2>3, <2>4, <2>5, <2>6 DEF TimeInv
  <2>9. PlayedAt(b, Len(b)) + 0 <= TickOf(track, 0)
    BY <2>4, <2>5
  <2> QED BY <2>1, <2>3, <2>4, <2>6, <2>7, <2>8, <2>9 DEF LateInv
<1>3. CASE UNCHANGED vars
  <2>1. \A g : GroupFrom(g)' = GroupFrom(g)
    BY <1>3 DEF vars, GroupFrom
  <2>2. LateInv'
    BY <1>3 DEF vars, written, LateInv
  <2>3. TimeInv'
    BY <1>3, <2>1 DEF vars, written, TimeInv
  <2> QED BY <2>2, <2>3
<1> QED BY <1>1, <1>2, <1>3, ConvertLate, GroupLate, ConvertedLate,
           ConvertTimes, GroupTimes, ConvertedTimes DEF Next

\* Whatever the track, the player sends none of the messages it reaches behind its tick;
\* and each at its tick where every group with a delta has a message or is the end, and
\* tempo changes come first in theirs.
THEOREM PlayedOnTime == Spec => []KeepsTime
<1>1. Init => TypeInv /\ KeptInv /\ LateInv /\ TimeInv
  BY TypeInit, PositionInit DEF Init, KeptInv, LateInv, TimeInv
<1>2. TypeInv /\ KeptInv /\ LateInv /\ TimeInv /\ [Next]_vars =>
        (TypeInv /\ KeptInv /\ LateInv /\ TimeInv)'
  BY NextTypes, NextKeeps, NextTimes
<1>3. LateInv /\ TimeInv => KeepsTime
  <2> SUFFICES ASSUME LateInv, TimeInv, pass = "done",
                      NEW j \in 1..Len(blocks), NEW i \in 1..Len(blocks[j].events)
               PROVE  /\ Plain(track) => PlayedAt(blocks, j) = TickOf(track, blocks[j].events[i])
                      /\ (\A k \in 1..j - 1 : blocks[k].msgType # "end") =>
                           PlayedAt(blocks, j) <= TickOf(track, blocks[j].events[i])
    BY DEF KeepsTime, Done
  <2> QED BY DEF LateInv, TimeInv, OnTime, NotLate
<1> QED BY <1>1, <1>2, <1>3, PTL DEF Spec
=============================================================================
