--------------------------- MODULE AmSessionProofs ---------------------------
(***************************************************************************)
(* What holds of a load whatever the bytes it reads: its lists, its        *)
(* channels, its memory and that it moves on.  What holds of one whose     *)
(* file is laid out as in MidiLayout: the lists are what the file means.   *)
(* And what follows for the player that is given the lists.                *)
(***************************************************************************)
EXTENDS AmSession, AmReplayProofs, MidiLayout, FiniteSetTheorems

\* MIDI channels are given out upwards and without percussion's, so what has been
\* given lies below what is given next.
ChannelsBelow ==
  /\ currentChannel \in Nat \ {9}
  /\ channelMap \in [Channels -> Int]
  /\ \A c \in Channels \ {15} :
       channelMap[c] = -1 \/ channelMap[c] \in 0..currentChannel - 1 \ {9}

ChannelInv == ChannelsApart /\ ChannelsBelow

\* No channel is given out before a score is read.
LEMMA FreshChannels ==
  ASSUME currentChannel = 0, channelMap = [c \in Channels |-> IF c = 15 THEN 9 ELSE -1]
  PROVE  ChannelInv
  BY DEF ChannelInv, ChannelsApart, ChannelsBelow, Channels

\* The channel behind one that is not percussion's is another such one.
LEMMA NextChannel ==
  ASSUME ChannelsBelow
  PROVE  /\ AfterMapping(currentChannel) \in Nat \ {9}
         /\ AfterMapping(currentChannel) > currentChannel
  BY DEF ChannelsBelow, AfterMapping

\* An event of any kind gives at most its own channel a MIDI channel, and one that
\* nobody has.  Nothing is asked of the score's bytes.
LEMMA ConvertsKeeps ==
  ASSUME ChannelInv, NEW message, Converts(message)
  PROVE  ChannelInv'
<1> DEFINE k == channel
           next == AfterMapping(currentChannel)
<1>1. /\ channelMap' = [channelMap EXCEPT ![k] = Mapped]
      /\ currentChannel' = IF IsNew THEN next ELSE currentChannel
  BY DEF Converts
<1>2. /\ IsNew <=> channelMap[k] < 0
      /\ Mapped = IF IsNew THEN currentChannel ELSE channelMap[k]
  BY DEF IsNew, Mapped
<1>3. next \in Nat \ {9} /\ next > currentChannel /\ currentChannel \in Nat \ {9}
  BY NextChannel DEF ChannelInv, ChannelsBelow
<1> HIDE DEF k, next
<1>4. CASE k \notin Channels \/ ~IsNew
  <2>1. channelMap' = channelMap
    BY <1>1, <1>2, <1>4 DEF ChannelInv, ChannelsBelow
  <2>2. currentChannel' \in Nat \ {9} /\ currentChannel' >= currentChannel
    BY <1>1, <1>3
  <2>3. ChannelsBelow'
    BY <1>3, <2>1, <2>2 DEF ChannelInv, ChannelsBelow
  <2> QED BY <2>1, <2>3 DEF ChannelInv, ChannelsApart
<1>5. CASE k \in Channels /\ IsNew
  <2>1. /\ channelMap'[k] = currentChannel /\ currentChannel' = next
        /\ \A c \in Channels : c # k => channelMap'[c] = channelMap[c]
        /\ channelMap' \in [Channels -> Int]
    BY <1>1, <1>2, <1>3, <1>5 DEF ChannelInv, ChannelsBelow
  <2>2. k # 15
    BY <1>2, <1>5 DEF ChannelInv, ChannelsApart
  <2>3. ChannelsBelow'
    <3>1. channelMap'[k] \in 0..next - 1 \ {9}
      BY <1>3, <2>1
    <3>2. ASSUME NEW c \in Channels \ {15}, c # k
          PROVE  channelMap'[c] = -1 \/ channelMap'[c] \in 0..next - 1 \ {9}
      BY <1>3, <2>1, <3>2 DEF ChannelInv, ChannelsBelow
    <3> QED BY <1>3, <2>1, <3>1, <3>2 DEF ChannelsBelow
  <2>4. ASSUME NEW c \in Channels, c # k PROVE channelMap[c] # currentChannel
    <3>1. CASE c = 15
      BY <1>3, <3>1 DEF ChannelInv, ChannelsApart
    <3>2. CASE c # 15
      BY <1>3, <3>2 DEF ChannelInv, ChannelsBelow
    <3> QED BY <3>1, <3>2
  <2>5. channelMap'[15] = 9
    BY <2>1, <2>2 DEF ChannelInv, ChannelsApart, Channels
  <2>6. ASSUME NEW c \in Channels, NEW d \in Channels, c # d, channelMap'[c] >= 0
        PROVE  channelMap'[c] # channelMap'[d]
    <3>1. CASE c = k
      BY <2>1, <2>4, <2>6, <3>1
    <3>2. CASE d = k
      BY <2>1, <2>4, <2>6, <3>2
    <3>3. CASE c # k /\ d # k
      BY <2>1, <2>6, <3>3 DEF ChannelInv, ChannelsApart
    <3> QED BY <3>1, <3>2, <3>3
  <2> QED BY <2>3, <2>5, <2>6 DEF ChannelInv, ChannelsApart
<1> QED BY <1>4, <1>5

-----------------------------------------------------------------------------
(* Bytes and the numbers they make.                                        *)

LEMMA BytesAreNumbers ==
  ASSUME NEW s \in Seq(Byte), NEW i \in 1..Len(s) PROVE s[i] \in 0..255 /\ s[i] \in Nat
<1>1. s[i] \in Byte
  OBVIOUS
<1>2. \A b \in Byte : b \in 0..255 /\ b \in Nat
  BY DEF Byte
<1> QED BY <1>1, <1>2, Zenon

LEMMA ByteIsNumber == 0 \in Byte /\ \A b \in Byte : b \in Nat
  BY DEF Byte

LEMMA PairBelow == \A m, n \in Nat : m < n => <<m, n>> \in LessThan
<1> TAKE m, n \in Nat
<1> HAVE m < n
<1>1. <<m, n>> \in Nat \X Nat /\ <<m, n>>[1] = m /\ <<m, n>>[2] = n
  OBVIOUS
<1> QED BY <1>1 DEF LessThan

\* The first of some places is one of them, and in front of the others.
LEMMA FirstPlace ==
  ASSUME NEW I \in SUBSET Nat, I # {}
  PROVE  Min(I) \in I /\ \A i \in I : Min(I) <= i
<1>1. PICK n \in I : \A m \in I : <<m, n>> \notin LessThan
  BY WFMin, LessThanWellFounded
<1>2. \A m \in I : n <= m
  <2> TAKE m \in I
  <2>1. m \in Nat /\ n \in Nat /\ (m < n => <<m, n>> \in LessThan)
    BY PairBelow
  <2> QED BY <1>1, <2>1
<1>3. \E x \in I : \A y \in I : x <= y
  BY <1>2
<1> QED BY <1>3, Zenon DEF Min

\* A quantity has at most four bytes, all of them within the file.
LEMMA VLQSizeBounds ==
  ASSUME NEW s \in Seq(Byte), NEW p \in Nat \ {0}
  PROVE  /\ VLQSize(s, p) \in 0..4
         /\ VLQSize(s, p) > 0 => p + VLQSize(s, p) - 1 <= Len(s)
<1> DEFINE last == IF p + 3 <= Len(s) THEN p + 3 ELSE Len(s)
           window == SubSeq(s, p, last)
           I == {i \in 1..Len(window) : window[i] < 128}
<1>1. last \in Nat /\ last <= p + 3 /\ last <= Len(s)
  OBVIOUS
<1>2. Len(window) = IF p <= last THEN last - p + 1 ELSE 0
  BY <1>1
<1>3. I # {} => Min(I) \in I
  <2>1. I \in SUBSET Nat
    BY <1>1, <1>2
  <2> QED BY FirstPlace, <2>1
<1>4. VLQSize(s, p) = IF I # {} THEN Min(I) ELSE 0
  BY DEF VLQSize, SelectInSeq
<1> HIDE DEF window
<1>5. CASE I = {}
  BY <1>4, <1>5
<1>6. CASE I # {}
  <2>1. Min(I) \in 1..Len(window)
    BY <1>3, <1>6
  <2> HIDE DEF I
  <2> QED BY <1>1, <1>2, <1>4, <1>6, <2>1
<1> QED BY <1>5, <1>6

\* What a quantity says is a number.
LEMMA QuantityType ==
  ASSUME NEW s \in Seq(Byte), NEW p \in Nat \ {0}, VLQSize(s, p) > 0
  PROVE  readVLQ(s, p) \in Nat
<1> DEFINE size == VLQSize(s, p)
           digit(k) == IF k < size THEN s[p + size - 1 - k] % 128 ELSE 0
<1>1. size \in 1..4 /\ p + size - 1 <= Len(s)
  BY VLQSizeBounds
<1> HIDE DEF size
<1>2. \A k \in 0..3 : digit(k) \in Nat
  <2> TAKE k \in 0..3
  <2>1. CASE k < size
    <3>1. p + size - 1 - k \in 1..Len(s)
      BY <1>1, <2>1
    <3>2. s[p + size - 1 - k] \in 0..255
      BY <3>1, BytesAreNumbers
    <3>3. digit(k) = s[p + size - 1 - k] % 128
      BY <2>1
    <3>4. \A b \in 0..255 : b % 128 \in Nat
      OBVIOUS
    <3> QED BY <3>2, <3>3, <3>4, Zenon
  <2>2. CASE ~(k < size)
    <3>1. digit(k) = 0
      BY <2>2, Zenon
    <3> QED BY <3>1
  <2> QED BY <2>1, <2>2
<1>3. readVLQ(s, p) = digit(0) + 128 * (digit(1) + 128 * (digit(2) + 128 * digit(3)))
  BY DEF readVLQ, size
<1> HIDE DEF digit
<1> QED BY <1>2, <1>3

\* So are the four bytes of a length.
LEMMA LengthType ==
  ASSUME NEW s \in Seq(Byte), NEW p \in Nat \ {0}, p + 3 <= Len(s)
  PROVE  ReadInt(s, p) \in Nat
<1>1. \A i \in 1..Len(s) : s[i] \in Nat
  BY BytesAreNumbers, Zenon
<1>2. s[p] \in Nat /\ s[p + 1] \in Nat /\ s[p + 2] \in Nat /\ s[p + 3] \in Nat
  BY <1>1
<1> QED BY <1>2 DEF ReadInt

\* A quantity is put down in bytes.
LEMMA WriteVarLenType ==
  ASSUME NEW v \in Nat PROVE WriteVarLen(v) \in Seq(Byte)
<1> DEFINE Passed == {k \in 1..3 : v >= 128 ^ k}
           last == Cardinality(Passed)
<1>1. last \in 0..3
  <2>1. IsFiniteSet(1..3) /\ Cardinality(1..3) = IF 1 > 3 THEN 0 ELSE 3 - 1 + 1
    <3>1. 1 \in Int /\ 3 \in Int
      OBVIOUS
    <3> QED BY <3>1, FS_Interval, Zenon
  <2>2. Passed \in SUBSET (1..3)
    OBVIOUS
  <2>3. IsFiniteSet(Passed) /\ last <= 3
    BY <2>1, <2>2, FS_Subset
  <2>4. last \in Nat
    BY <2>3, FS_CardinalityType
  <2> QED BY <2>3, <2>4
<1> HIDE DEF Passed
<1>2. WriteVarLen(v) = [i \in 1..last + 1 |-> ((v \div 128 ^ (last + 1 - i)) % 128)
                                              + (IF i <= last THEN 128 ELSE 0)]
  BY DEF WriteVarLen, Passed
<1> HIDE DEF last
<1>3. \A j \in 0..3 : 128 ^ j \in Nat \ {0}
  <2>1. 128 ^ 0 \in Nat \ {0} /\ 128 ^ 1 \in Nat \ {0} /\ 128 ^ 2 \in Nat \ {0} /\ 128 ^ 3 \in Nat \ {0}
    OBVIOUS
  <2>2. 0..3 = {0, 1, 2, 3}
    OBVIOUS
  <2> QED BY <2>1, <2>2
<1>4. \A d \in Nat \ {0} : (v \div d) % 128 \in 0..127
  OBVIOUS
<1>5. \A i \in 1..last + 1 : (v \div 128 ^ (last + 1 - i)) % 128 \in 0..127
  <2> TAKE i \in 1..last + 1
  <2>1. last + 1 - i \in 0..3
    BY <1>1
  <2> QED BY <1>3, <1>4, <2>1
<1>6. \A i \in 1..last + 1 : ((v \div 128 ^ (last + 1 - i)) % 128)
                               + (IF i <= last THEN 128 ELSE 0) \in Byte
  BY <1>1, <1>5 DEF Byte
<1> QED BY <1>1, <1>2, <1>6

\* So is a length.
LEMMA WriteIntType ==
  ASSUME NEW v \in Nat PROVE WriteInt(v) \in Seq(Byte)
<1>1. 256 ^ 0 \in Nat \ {0} /\ 256 ^ 1 \in Nat \ {0} /\ 256 ^ 2 \in Nat \ {0} /\ 256 ^ 3 \in Nat \ {0}
  OBVIOUS
<1>2. \A d \in Nat \ {0} : (v \div d) % 256 \in Byte
  BY DEF Byte
<1>3. \A i \in 1..4 : (v \div 256 ^ (4 - i)) % 256 \in Byte
  <2> TAKE i \in 1..4
  <2>1. 4 - i \in {0, 1, 2, 3}
    OBVIOUS
  <2>2. \A j \in {0, 1, 2, 3} : 256 ^ j \in Nat \ {0}
    BY <1>1, ZenonT(60)
  <2>3. 256 ^ (4 - i) \in Nat \ {0}
    BY <2>1, <2>2, ZenonT(60)
  <2> QED BY <1>2, <2>3
<1> QED BY <1>3 DEF WriteInt

-----------------------------------------------------------------------------
(* What lists take of the linear buffer.                                   *)

\* Where one member is larger and the others are the same, so much larger is the sum.
LEMMA OneGrows ==
  ASSUME NEW a \in Seq(Nat), NEW b \in Seq(Nat), Len(b) = Len(a), NEW t \in 1..Len(a),
         NEW d \in Nat, b[t] = a[t] + d, \A i \in 1..Len(a) : i # t => b[i] = a[i]
  PROVE  RunningSum(b)[Len(b)] = RunningSum(a)[Len(a)] + d
<1> DEFINE n == Len(a)
           f == RunningSum(a)
           g == RunningSum(b)
           Same == {k \in 0..n : g[k] = f[k] + (IF k >= t THEN d ELSE 0)}
<1>1. n \in Nat /\ t \in 1..n /\ Len(b) = n
      /\ (\A i \in 1..n : a[i] \in Nat /\ b[i] \in Nat)
  OBVIOUS
<1>2. f \in [0..n -> Nat] /\ f[0] = 0 /\ \A i \in 1..n : f[i] = f[i - 1] + a[i]
  BY <1>1, RunningSumGrows
<1>3. g \in [0..n -> Nat] /\ g[0] = 0 /\ \A i \in 1..n : g[i] = g[i - 1] + b[i]
  BY <1>1, RunningSumGrows
<1> HIDE DEF n, f, g
<1>4. 0 \in Same
  BY <1>1, <1>2, <1>3
<1>5. ASSUME NEW k \in 0..n - 1, k \in Same PROVE k + 1 \in Same
  <2>1. k + 1 \in 1..n /\ (k + 1) - 1 = k /\ f[k] \in Nat /\ a[k + 1] \in Nat
    <3>1. k + 1 \in 1..n /\ (k + 1) - 1 = k /\ k \in 0..n
      BY <1>1
    <3>2. f[k] \in Nat
      BY <1>2, <3>1
    <3> QED BY <1>1, <3>1, <3>2
  <2>2. f[k + 1] = f[k] + a[k + 1] /\ g[k + 1] = g[k] + b[k + 1]
    BY <1>2, <1>3, <2>1
  <2>3. g[k] = f[k] + (IF k >= t THEN d ELSE 0)
    BY <1>5
  <2>4. b[k + 1] = a[k + 1] + (IF k + 1 = t THEN d ELSE 0)
    BY <1>1, <2>1 DEF n
  <2>5. g[k + 1] = f[k + 1] + (IF k + 1 >= t THEN d ELSE 0)
    BY <1>1, <2>1, <2>2, <2>3, <2>4, SMTT(40)
  <2> QED BY <2>1, <2>5
<1>6. \A k \in 0..n : k \in Same
  <2> HIDE DEF Same
  <2> QED BY <1>1, <1>4, <1>5, UpToInduction
<1>7. g[n] = f[n] + d
  BY <1>1, <1>6
<1> QED BY <1>1, <1>7 DEF n, f, g

\* A sum of zeros.
LEMMA NothingAdded ==
  ASSUME NEW a, Len(a) \in Nat, \A i \in 1..Len(a) : a[i] = 0
  PROVE  RunningSum(a)[Len(a)] = 0
<1> DEFINE n == Len(a)
           f == RunningSum(a)
           Zero == {k \in 0..n : f[k] = 0}
<1>1. f \in [0..n -> Nat] /\ f[0] = 0 /\ \A i \in 1..n : f[i] = f[i - 1] + a[i]
  BY RunningSumGrows
<1>2. n \in Nat /\ \A i \in 1..n : a[i] = 0
  OBVIOUS
<1> HIDE DEF n, f
<1>3. 0 \in Zero
  BY <1>1, <1>2
<1>4. ASSUME NEW k \in 0..n - 1, k \in Zero PROVE k + 1 \in Zero
  <2>1. k + 1 \in 1..n /\ (k + 1) - 1 = k
    BY <1>2
  <2> QED BY <1>1, <1>2, <1>4, <2>1, SMTT(40)
<1>5. \A k \in 0..n : k \in Zero
  <2> HIDE DEF Zero
  <2> QED BY <1>2, <1>3, <1>4, UpToInduction
<1> QED BY <1>2, <1>5 DEF n, f

LEMMA SizeType ==
  /\ \A e \in LoadedEvent : Size(e) \in Nat \ {0}
  /\ \A type \in DOMAIN DataSize : NODE + DataSize[type] \in Nat \ {0}
<1>1. \A type \in DOMAIN DataSize : NODE + DataSize[type] \in Nat \ {0}
  BY DEF NODE, DataSize
<1>2. \A e \in LoadedEvent : e.type \in DOMAIN DataSize
  BY DEF LoadedEvent
<1> QED BY <1>1, <1>2 DEF Size

\* The sizes of a list's events.
Sizes(list) == [n \in DOMAIN list |-> Size(list[n])]

LEMMA SizesType ==
  ASSUME NEW list \in Seq(LoadedEvent)
  PROVE  /\ Sizes(list) \in Seq(Nat) /\ Len(Sizes(list)) = Len(list)
         /\ \A n \in 1..Len(list) : Sizes(list)[n] = Size(list[n])
<1>1. DOMAIN list = 1..Len(list) /\ Len(list) \in Nat
      /\ \A n \in 1..Len(list) : list[n] \in LoadedEvent
  OBVIOUS
<1>2. \A n \in 1..Len(list) : Size(list[n]) \in Nat
  BY <1>1, SizeType
<1> QED BY <1>1, <1>2 DEF Sizes

LEMMA ListSizeIs == \A list : ListSize(list) = RunningSum(Sizes(list))[Len(list)]
  BY DEF ListSize, Sizes

LEMMA ListSizeType ==
  ASSUME NEW list \in Seq(LoadedEvent) PROVE ListSize(list) \in Nat
<1> DEFINE a == Sizes(list)
<1>1. a \in Seq(Nat) /\ Len(a) = Len(list)
  BY SizesType
<1>2. Len(a) \in Nat /\ \A i \in 1..Len(a) : a[i] \in Nat
  BY <1>1
<1>3. RunningSum(a) \in [0..Len(a) -> Nat]
  BY <1>2, RunningSumGrows
<1> QED BY <1>1, <1>2, <1>3, ListSizeIs

\* An event behind the last one.
LEMMA ListSizeAppend ==
  ASSUME NEW list \in Seq(LoadedEvent), NEW e \in LoadedEvent
  PROVE  ListSize(Append(list, e)) = ListSize(list) + Size(e)
<1> DEFINE more == Append(list, e)
           a == Sizes(list)
           b == Sizes(more)
           n == Len(list)
<1>1. more \in Seq(LoadedEvent) /\ Len(more) = n + 1 /\ n \in Nat
      /\ (\A i \in 1..n : more[i] = list[i]) /\ more[n + 1] = e
  OBVIOUS
<1>2. a \in Seq(Nat) /\ Len(a) = n /\ \A i \in 1..n : a[i] = Size(list[i])
  BY SizesType
<1>3. b \in Seq(Nat) /\ Len(b) = n + 1 /\ \A i \in 1..n + 1 : b[i] = Size(more[i])
  BY <1>1, SizesType
<1> HIDE DEF more, a, b, n
<1>4. \A i \in 1..n : a[i] = b[i]
  BY <1>1, <1>2, <1>3
<1>5. (\A i \in 1..Len(a) : a[i] \in Nat) /\ (\A i \in 1..Len(b) : b[i] \in Nat)
  BY <1>2, <1>3, SMTT(40)
<1>6. RunningSum(a)[n] = RunningSum(b)[n]
  <2>1. n <= Len(a) /\ n <= Len(b) /\ Len(a) \in Nat /\ Len(b) \in Nat
    BY <1>1, <1>2, <1>3
  <2> QED BY <1>1, <1>4, <1>5, <2>1, RunningSumsAgree
<1>7. \A i \in 1..Len(b) : RunningSum(b)[i] = RunningSum(b)[i - 1] + b[i]
  <2>1. Len(b) \in Nat
    BY <1>1, <1>3
  <2> QED BY <1>5, <2>1, RunningSumGrows, Zenon
<1>8. RunningSum(b)[n + 1] = RunningSum(b)[n] + b[n + 1]
  <2>1. n + 1 \in 1..Len(b) /\ (n + 1) - 1 = n
    BY <1>1, <1>3
  <2> QED BY <1>7, <2>1
<1>9. b[n + 1] = Size(e)
  BY <1>1, <1>3
<1> QED BY <1>1, <1>6, <1>8, <1>9, ListSizeIs DEF more, a, b, n

ListSizes(lists) == [t \in DOMAIN lists |-> ListSize(lists[t])]

LEMMA ListSizesType ==
  ASSUME NEW lists \in Seq(Seq(LoadedEvent))
  PROVE  /\ ListSizes(lists) \in Seq(Nat) /\ Len(ListSizes(lists)) = Len(lists)
         /\ \A t \in 1..Len(lists) : ListSizes(lists)[t] = ListSize(lists[t])
<1>1. DOMAIN lists = 1..Len(lists) /\ Len(lists) \in Nat
      /\ \A t \in 1..Len(lists) : lists[t] \in Seq(LoadedEvent)
  OBVIOUS
<1>2. \A t \in 1..Len(lists) : ListSize(lists[t]) \in Nat
  BY <1>1, ListSizeType
<1> QED BY <1>1, <1>2 DEF ListSizes

LEMMA TakenIs == \A lists : Taken(lists) = RunningSum(ListSizes(lists))[Len(lists)]
  BY DEF Taken, ListSizes

\* Lists without events take nothing.
LEMMA NothingTaken ==
  ASSUME NEW n \in Nat
  PROVE  /\ [t \in 1..n |-> << >>] \in Seq(Seq(LoadedEvent))
         /\ Taken([t \in 1..n |-> << >>]) = 0
<1> DEFINE lists == [t \in 1..n |-> << >>]
           a == ListSizes(lists)
<1>1. lists \in Seq(Seq(LoadedEvent)) /\ Len(lists) = n
      /\ (\A t \in 1..n : lists[t] = << >>)
  <2>1. << >> \in Seq(LoadedEvent)
    OBVIOUS
  <2> QED BY <2>1
<1>2. ListSize(<< >>) = 0
  <2>1. << >> \in Seq(LoadedEvent) /\ Len(<< >>) = 0
    OBVIOUS
  <2>2. Len(Sizes(<< >>)) = 0
    BY <2>1, SizesType
  <2>3. Len(Sizes(<< >>)) \in Nat /\ \A i \in 1..Len(Sizes(<< >>)) : Sizes(<< >>)[i] = 0
    BY <2>2
  <2> QED BY <2>1, <2>2, <2>3, NothingAdded, ListSizeIs
<1> HIDE DEF lists
<1>3. Len(a) = n /\ \A t \in 1..n : a[t] = 0
  BY <1>1, <1>2, ListSizesType
<1>4. RunningSum(a)[Len(a)] = 0
  BY <1>3, NothingAdded
<1> QED BY <1>1, <1>3, <1>4, TakenIs DEF lists

LEMMA TakenType ==
  ASSUME NEW lists \in Seq(Seq(LoadedEvent)) PROVE Taken(lists) \in Nat
<1> DEFINE a == ListSizes(lists)
<1>1. a \in Seq(Nat) /\ Len(a) = Len(lists)
  BY ListSizesType
<1>2. Len(a) \in Nat /\ \A i \in 1..Len(a) : a[i] \in Nat
  BY <1>1
<1>3. RunningSum(a) \in [0..Len(a) -> Nat]
  BY <1>2, RunningSumGrows
<1> QED BY <1>1, <1>2, <1>3, TakenIs

\* An event more in one of the lists.
LEMMA TakenAppend ==
  ASSUME NEW lists \in Seq(Seq(LoadedEvent)), NEW t \in 1..Len(lists), NEW e \in LoadedEvent
  PROVE  LET more == [lists EXCEPT ![t] = Append(@, e)]
         IN  more \in Seq(Seq(LoadedEvent)) /\ Taken(more) = Taken(lists) + Size(e)
<1> DEFINE list == lists[t]
           more == [lists EXCEPT ![t] = Append(@, e)]
           a == ListSizes(lists)
           b == ListSizes(more)
<1>1. list \in Seq(LoadedEvent) /\ Append(list, e) \in Seq(LoadedEvent)
  OBVIOUS
<1>2. more \in Seq(Seq(LoadedEvent)) /\ Len(more) = Len(lists)
      /\ more[t] = Append(list, e) /\ \A i \in 1..Len(lists) : i # t => more[i] = lists[i]
  BY <1>1
<1> HIDE DEF list, more
<1>3. a \in Seq(Nat) /\ Len(a) = Len(lists)
      /\ \A i \in 1..Len(lists) : a[i] = ListSize(lists[i])
  BY ListSizesType
<1>4. b \in Seq(Nat) /\ Len(b) = Len(lists)
      /\ \A i \in 1..Len(lists) : b[i] = ListSize(more[i])
  BY <1>2, ListSizesType
<1>5. b[t] = a[t] + Size(e)
  <2>1. ListSize(Append(list, e)) = ListSize(list) + Size(e)
    BY <1>1, ListSizeAppend
  <2> QED BY <1>2, <1>3, <1>4, <2>1 DEF list
<1>6. \A i \in 1..Len(a) : i # t => b[i] = a[i]
  BY <1>2, <1>3, <1>4
<1>7. Size(e) \in Nat
  BY SizeType
<1> HIDE DEF a, b
<1>8. RunningSum(b)[Len(b)] = RunningSum(a)[Len(a)] + Size(e)
  BY <1>3, <1>4, <1>5, <1>6, <1>7, OneGrows
<1> QED BY <1>2, <1>3, <1>4, <1>8, TakenIs DEF a, b, more

-----------------------------------------------------------------------------
(* The parser.                                                             *)

LEMMA PartOfFile ==
  ASSUME midi \in Seq(Byte), NEW first \in Nat \ {0}, NEW n \in Nat, first + n - 1 <= Len(midi)
  PROVE  Bytes(first, n) \in Seq(Byte)
<1>1. \A i \in first..first + n - 1 : midi[i] \in Byte
  OBVIOUS
<1>2. first \in Int /\ first + n - 1 \in Int
  OBVIOUS
<1>3. \A k \in Int : (\A i \in first..k : midi[i] \in Byte) => SubSeq(midi, first, k) \in Seq(Byte)
  BY <1>2, SubSeqProperties
<1> QED BY <1>1, <1>2, <1>3 DEF Bytes

\* Of an event that is there, the command is, and it ends within the file or right
\* behind it.
LEMMA Reading ==
  ASSUME midi \in Seq(Byte), pCmd \in Nat \ {0}, g_runningStatus \in Byte, WithinFile
  PROVE  /\ Command \in 1..Len(midi) /\ Delta \in Nat /\ Status \in Byte
         /\ DataAt \in Nat \ {0} /\ Parameters \in 0..2
         /\ EventEnd \in Nat \ {0} /\ EventEnd <= Len(midi) + 1
         /\ usSwitch \in 128..239 => EventEnd = DataAt + Parameters
         /\ usSwitch = 240 => SysexEnd \in Command..Len(midi)
         /\ usSwitch = 255 => /\ Command + 2 <= Len(midi) /\ EventEnd = MetaEnd
                              /\ MetaLength \in Byte
<1>1. VLQSize(midi, pCmd) \in 1..4 /\ Len(midi) \in Nat
  BY VLQSizeBounds DEF WithinFile
<1>2. Command \in 1..Len(midi)
  BY <1>1 DEF Command, WithinFile
<1>3. Delta \in Nat
  BY <1>1, QuantityType DEF Delta
<1>4. Status \in Byte
  BY <1>2 DEF Status
<1>5. DataAt \in Nat \ {0}
  BY <1>2 DEF DataAt
<1>6. Parameters \in 0..2
  BY DEF Parameters
<1>7. EventEnd <= Len(midi) + 1
  BY DEF WithinFile
<1>8. usSwitch \in 128..239 => EventEnd = DataAt + Parameters
  <2> HAVE usSwitch \in 128..239
  <2>1. usSwitch # 240 /\ usSwitch \notin 241..246 /\ usSwitch # 255
    OBVIOUS
  <2> QED BY <2>1, ZenonT(40) DEF EventEnd
<1>9. usSwitch = 240 => SysexEnd \in Command..Len(midi)
  <2> HAVE usSwitch = 240
  <2> DEFINE I == {i \in Command..Len(midi) : midi[i] = 247}
  <2>1. SysexEnd = IF I # {} THEN Min(I) ELSE 0
    BY DEF SysexEnd, SelectInSubSeq
  <2>2. SysexEnd > 0
    BY DEF WithinFile
  <2>3. I \in SUBSET Nat
    BY <1>2
  <2>4. I # {}
    BY <2>1, <2>2
  <2>5. Min(I) \in I
    BY <2>3, <2>4, FirstPlace
  <2> QED BY <2>1, <2>4, <2>5
<1>10. ASSUME usSwitch = 255
       PROVE  /\ Command + 2 <= Len(midi) /\ EventEnd = MetaEnd
              /\ MetaLength \in Byte /\ MetaEnd \in Nat \ {0}
  <2>1. Command + 2 <= Len(midi)
    BY <1>10 DEF WithinFile
  <2>2. EventEnd = MetaEnd
    BY <1>10 DEF EventEnd
  <2>3. MetaLength \in Byte
    <3>1. CASE MetaType \in Texts \cup Named
      <4>1. readVLQ(midi, Command + 2) \in Nat
        <5>1. VLQSize(midi, Command + 2) > 0 /\ Command + 2 \in Nat \ {0}
          BY <1>2, <1>10, <3>1 DEF WithinFile
        <5> QED BY <5>1, QuantityType
      <4>2. MetaLength = readVLQ(midi, Command + 2) % 256
        BY <3>1 DEF MetaLength
      <4>3. \A v \in Nat : v % 256 \in Byte
        BY DEF Byte
      <4> QED BY <4>1, <4>2, <4>3
    <3>2. CASE MetaType \notin Texts \cup Named
      <4>1. MetaLength = midi[Command + 2] /\ Command + 2 \in 1..Len(midi)
        BY <1>2, <2>1, <3>2 DEF MetaLength
      <4> QED BY <4>1
    <3> QED BY <3>1, <3>2
  <2>4. MetaEnd \in Nat \ {0}
    <3>1. MetaEnd \in {Command + 4, Command + 5, Command + 3 + MetaLength, Command + 2 + MetaLength}
      BY DEF MetaEnd
    <3>2. Command \in Nat /\ MetaLength \in Nat
      BY <1>2, <2>3 DEF Byte
    <3> QED BY <3>1, <3>2
  <2> QED BY <2>1, <2>2, <2>3, <2>4
<1>11. EventEnd \in Nat \ {0}
  <2>1. CASE usSwitch = 255
    BY <1>10, <2>1
  <2>2. CASE usSwitch = 240
    <3>1. EventEnd = SysexEnd
      BY <2>2 DEF EventEnd
    <3> QED BY <1>2, <1>9, <2>2, <3>1
  <2>3. CASE usSwitch # 255 /\ usSwitch # 240
    <3>1. EventEnd \in {DataAt + Parameters, Command + 1 + Parameters, Command}
      BY <2>3 DEF EventEnd
    <3> QED BY <1>2, <1>5, <1>6, <3>1
  <2> QED BY <2>1, <2>2, <2>3
<1> QED BY <1>2, <1>3, <1>4, <1>5, <1>6, <1>7, <1>8, <1>9, <1>10, <1>11

-----------------------------------------------------------------------------
(* The conversion of a score.                                              *)

\* As many channels of the score have a MIDI channel as have been given out, and there
\* are not more than there is room for.
Given   == {c \in Channels \ {15} : channelMap[c] >= 0}
Counted == /\ IsFiniteSet(Given)
           /\ Cardinality(Given) = IF currentChannel < 9 THEN currentChannel
                                                         ELSE currentChannel - 1

LEMMA FourteenOthers ==
  ASSUME NEW k \in Channels \ {15}
  PROVE  IsFiniteSet(Channels \ {15, k}) /\ Cardinality(Channels \ {15, k}) = 14
<1>1. IsFiniteSet(0..14) /\ Cardinality(0..14) = 15
  <2>1. 0 \in Int /\ 14 \in Int
    OBVIOUS
  <2>2. IsFiniteSet(0..14) /\ Cardinality(0..14) = IF 0 > 14 THEN 0 ELSE 14 - 0 + 1
    BY <2>1, FS_Interval, Zenon
  <2> QED BY <2>2
<1>2. Channels \ {15, k} = (0..14) \ {k} /\ k \in 0..14
  BY DEF Channels
<1> QED BY <1>1, <1>2, FS_RemoveElement

LEMMA RoomForChannel ==
  ASSUME ChannelInv, Counted, channel \in Channels PROVE Mapped \in 0..15
<1>1. currentChannel \in Nat /\ channelMap \in [Channels -> Int]
  BY DEF ChannelInv, ChannelsBelow
<1>2. CASE IsNew
  <2>1. Mapped = currentChannel /\ channelMap[channel] < 0
    BY <1>2 DEF Mapped, IsNew
  <2>2. channel # 15
    BY <2>1 DEF ChannelInv, ChannelsApart
  <2>3. Given \in SUBSET (Channels \ {15, channel})
    BY <1>1, <2>1 DEF Given
  <2>4. Cardinality(Given) <= 14
    <3>1. channel \in Channels \ {15}
      BY <2>2
    <3>2. IsFiniteSet(Channels \ {15, channel}) /\ Cardinality(Channels \ {15, channel}) = 14
      BY <3>1, FourteenOthers, Zenon
    <3>3. Cardinality(Given) <= Cardinality(Channels \ {15, channel})
      BY <2>3, <3>2, FS_Subset, Zenon
    <3> QED BY <3>2, <3>3
  <2> QED BY <1>1, <2>1, <2>4 DEF Counted
<1>3. CASE ~IsNew
  <2>1. Mapped = channelMap[channel] /\ channelMap[channel] >= 0
    BY <1>1, <1>3 DEF Mapped, IsNew
  <2>2. CASE channel = 15
    BY <2>1, <2>2 DEF ChannelInv, ChannelsApart
  <2>3. CASE channel # 15
    <3>1. channelMap[channel] \in 0..currentChannel - 1 \ {9}
      BY <1>1, <2>1, <2>3 DEF ChannelInv, ChannelsBelow
    <3>2. \E n \in Nat : n = Cardinality(Given) /\ n <= 15
      <4>1. Given \in SUBSET (0..14)
        BY DEF Given, Channels
      <4>2. 0 \in Int /\ 14 \in Int
        OBVIOUS
      <4>3. IsFiniteSet(0..14) /\ Cardinality(0..14) = IF 0 > 14 THEN 0 ELSE 14 - 0 + 1
        BY <4>2, FS_Interval, Zenon
      <4>4. Cardinality(Given) <= Cardinality(0..14)
        BY <4>1, <4>3, FS_Subset, Zenon
      <4>5. Cardinality(Given) \in Nat
        BY FS_CardinalityType DEF Counted
      <4> QED BY <4>3, <4>4, <4>5
    <3> QED BY <1>1, <2>1, <3>1, <3>2 DEF Counted
  <2> QED BY <2>2, <2>3
<1> QED BY <1>2, <1>3

LEMMA ConvertsCounts ==
  ASSUME ChannelInv, Counted, channel \in Channels, NEW message, Converts(message)
  PROVE  Counted'
<1> DEFINE k == channel
           next == AfterMapping(currentChannel)
<1>1. /\ channelMap' = [channelMap EXCEPT ![k] = Mapped]
      /\ currentChannel' = IF IsNew THEN next ELSE currentChannel
  BY DEF Converts
<1>2. /\ IsNew <=> channelMap[k] < 0
      /\ Mapped = IF IsNew THEN currentChannel ELSE channelMap[k]
  BY DEF IsNew, Mapped
<1>3. currentChannel \in Nat \ {9} /\ channelMap \in [Channels -> Int] /\ k \in Channels
      /\ channelMap[15] = 9
  BY DEF ChannelInv, ChannelsBelow, ChannelsApart
<1>4. next = IF currentChannel + 1 = 9 THEN 10 ELSE currentChannel + 1
  BY DEF AfterMapping
<1> HIDE DEF k, next
<1>5. CASE ~IsNew
  <2>1. channelMap' = channelMap /\ currentChannel' = currentChannel
    BY <1>1, <1>2, <1>3, <1>5
  <2> QED BY <2>1 DEF Counted, Given
<1>6. CASE IsNew
  <2>1. k # 15 /\ k \notin Given
    BY <1>2, <1>3, <1>6 DEF Given
  <2>2. Given' = Given \cup {k}
    <3>1. \A c \in Channels : channelMap'[c] = IF c = k THEN currentChannel ELSE channelMap[c]
      BY <1>1, <1>2, <1>3, <1>6
    <3> QED BY <1>3, <2>1, <3>1 DEF Given
  <2>3. IsFiniteSet(Given') /\ Cardinality(Given') = Cardinality(Given) + 1
    BY <2>1, <2>2, FS_AddElement DEF Counted
  <2>4. currentChannel' = next
    BY <1>1, <1>6
  <2> QED BY <1>3, <1>4, <2>3, <2>4 DEF Counted
<1> QED BY <1>5, <1>6

\* What is read of an event of a score that is there.
LEMMA ReadingScore ==
  ASSUME file.score \in Seq(Byte), cur \in Nat \ {0}, cur <= Len(file.score), WithinScore
  PROVE  /\ event \in Byte /\ channel \in Channels /\ Used \in 0..2
         /\ ~IsEvent(6) => Param(1) \in Byte
         /\ IsEvent(1) /\ Param(1) >= 128 => Param(2) \in Byte
         /\ IsEvent(3) \/ IsEvent(4) => Param(2) \in Byte /\ Param(1) + 1 \in 1..15
<1> DEFINE score == file.score
<1>1. Len(score) \in Nat /\ \A i \in 1..Len(score) : score[i] \in Byte
  OBVIOUS
<1>2. event \in Byte
  BY <1>1 DEF event
<1>3. channel \in Channels
  <2>1. \A b \in Byte : b % 16 \in Channels
    BY DEF Byte, Channels
  <2> QED BY <1>2, <2>1 DEF channel
<1>4. Used \in 0..2
  BY DEF Used
<1>5. ASSUME ~IsEvent(6) PROVE Param(1) \in Byte
  <2>1. cur + 1 \in 1..Len(score)
    BY <1>1, <1>5 DEF WithinScore
  <2> QED BY <1>1, <2>1 DEF Param
<1>6. \A a, b \in 0..7 : IsEvent(a) /\ IsEvent(b) => a = b
  BY DEF IsEvent
<1>7. ASSUME Used = 2 PROVE Param(2) \in Byte
  <2>1. cur + 2 \in 1..Len(score)
    BY <1>1, <1>7 DEF WithinScore
  <2> QED BY <1>1, <2>1 DEF Param
<1>8. ASSUME IsEvent(1), Param(1) >= 128 PROVE Used = 2
  <2>1. ~IsEvent(6) /\ ~IsEvent(3) /\ ~IsEvent(4)
    BY <1>6, <1>8
  <2> QED BY <1>8, <2>1, Zenon DEF Used
<1>9. ASSUME IsEvent(3) \/ IsEvent(4) PROVE Used = 2
  <2>1. ~IsEvent(6) /\ ~IsEvent(1)
    BY <1>6, <1>9
  <2> QED BY <1>9, <2>1, Zenon DEF Used
<1>10. ASSUME IsEvent(3) \/ IsEvent(4) PROVE Param(1) + 1 \in 1..15
  <2>1. ~IsEvent(6)
    BY <1>6, <1>10
  <2>2. Param(1) < 15
    BY <1>10 DEF WithinScore, MidiMap
  <2>3. Param(1) \in 0..255
    BY <1>5, <2>1 DEF Byte
  <2>4. \A b \in 0..255 : b < 15 => b + 1 \in 1..15
    OBVIOUS
  <2> QED BY <2>2, <2>3, <2>4, Zenon
<1> QED BY <1>2, <1>3, <1>4, <1>5, <1>7, <1>8, <1>9, <1>10

\* An event that becomes a message of bytes.
LEMMA ConvertsTypes ==
  ASSUME file.score \in Seq(Byte), cur \in Nat \ {0}, delta_time \in Nat, midi \in Seq(Byte),
         Mapped \in 0..15, cur <= Len(file.score), WithinScore,
         NEW message \in Seq(Byte), Converts(message)
  PROVE  midi' \in Seq(Byte) /\ cur' \in Nat \ {0} /\ delta_time' \in Nat
<1> DEFINE next == cur + 1 + Used
<1>1. next \in Nat \ {0}
  BY ReadingScore
<1>2. WriteVarLen(delta_time) \in Seq(Byte)
  BY WriteVarLenType
<1>3. Introduction \in Seq(Byte)
  <2>1. CASE IsNew
    <3>1. Introduction = <<176 + Mapped, 7, 127, 0>>
      BY <2>1 DEF Introduction
    <3>2. 176 + Mapped \in Byte /\ 7 \in Byte /\ 127 \in Byte /\ 0 \in Byte
      BY DEF Byte
    <3> QED BY <3>1, <3>2
  <2>2. CASE ~IsNew
    BY <2>2 DEF Introduction
  <2> QED BY <2>1, <2>2
<1>4. midi' \in Seq(Byte)
  <2>1. midi' = midi \o WriteVarLen(delta_time) \o Introduction \o message
    BY DEF Converts
  <2> QED BY <1>2, <1>3, <2>1
<1> HIDE DEF next
<1>5. CASE event >= 128
  <2>1. /\ delta_time' = readVLQ(file.score, next)
        /\ cur' = next + VLQSize(file.score, next)
    BY <1>5 DEF Converts, next
  <2>2. VLQSize(file.score, next) > 0
    BY <1>5 DEF WithinScore, next
  <2>3. VLQSize(file.score, next) \in Nat /\ readVLQ(file.score, next) \in Nat
    BY <1>1, <2>2, VLQSizeBounds, QuantityType
  <2> QED BY <1>1, <1>4, <2>1, <2>3
<1>6. CASE ~(event >= 128)
  <2>1. delta_time' = 0 /\ cur' = next
    BY <1>6 DEF Converts, next
  <2> QED BY <1>1, <1>4, <2>1
<1> QED BY <1>5, <1>6

-----------------------------------------------------------------------------
(* The invariant of a load.                                                *)

FileTyped == /\ file.score \in Seq(Byte) /\ file.bytes \in Seq(Byte)
             /\ file.nTracks \in Nat \ {0} /\ file.channels \in Nat

\* While a score is read its channels are not more than a header may say.
ScoreTyped == /\ cur \in Nat \ {0} /\ delta_time \in Nat
              /\ channel_volume \in [Channels -> Byte]
              /\ load = "convert" => file.channels <= 15

ParserTyped == /\ pCmd \in Nat \ {0} /\ endAddr \in Nat \ {0}
               /\ g_runningStatus \in Byte /\ recallStatus \in BOOLEAN /\ bEOF \in BOOLEAN

\* What the lists take has been taken from the buffer.
ListsInv == /\ pool \in Nat /\ offset \in Nat /\ offset <= pool
            /\ iRetVal \in {"AM_OK", "AM_ERR"}
            /\ arTracks \in Seq(Seq(LoadedEvent)) /\ Taken(arTracks) <= offset

\* A track that is read has a list.
TrackInv == /\ trackNb \in Nat \ {0}
            /\ load \in {"start", "convert"} => trackNb = 1
            /\ load \in {"header", "events"} => trackNb <= Len(arTracks)

Stages == {"start", "convert", "header", "events", "ok", "error", "lost", "done"}

LoadInv == /\ load \in Stages /\ midi \in Seq(Byte)
           /\ FileTyped /\ ScoreTyped /\ ChannelInv /\ Counted
           /\ ParserTyped /\ ListsInv /\ TrackInv

\* A message of two or three bytes.
LEMMA Messages ==
  /\ \A a, b \in Byte : <<a, b>> \in Seq(Byte)
  /\ \A a, b, c \in Byte : <<a, b, c>> \in Seq(Byte)
  OBVIOUS

\* Whatever an event of a score is, it becomes a message of bytes.
LEMMA EventConverted ==
  ASSUME LoadInv, load = "convert", ConvertsEvent
  PROVE  /\ \E message \in Seq(Byte) : Converts(message)
         /\ channel_volume' \in [Channels -> Byte]
         /\ Mapped \in 0..15 /\ channel \in Channels
<1>1. file.score \in Seq(Byte) /\ cur \in Nat \ {0} /\ cur <= Len(file.score) /\ WithinScore
  BY DEF LoadInv, FileTyped, ScoreTyped, ConvertsEvent
<1>2. /\ channel \in Channels
      /\ ~IsEvent(6) => Param(1) \in Byte
      /\ IsEvent(1) /\ Param(1) >= 128 => Param(2) \in Byte
      /\ IsEvent(3) \/ IsEvent(4) => Param(2) \in Byte /\ Param(1) + 1 \in 1..15
  BY <1>1, ReadingScore
<1>3. Mapped \in 0..15 /\ Mapped \in Channels
  BY <1>2, RoomForChannel DEF LoadInv, Channels
<1>4. /\ 128 + Mapped \in Byte /\ 144 + Mapped \in Byte /\ 224 + Mapped \in Byte
      /\ 176 + Mapped \in Byte /\ 192 + Mapped \in Byte
      /\ 64 \in Byte /\ 0 \in Byte /\ 255 \in Byte /\ 47 \in Byte
  BY <1>3 DEF Byte
<1>5. channel_volume \in [Channels -> Byte]
  BY DEF LoadInv, ScoreTyped
<1>6. \A a, b \in 0..7 : IsEvent(a) /\ IsEvent(b) => a = b
  BY DEF IsEvent
<1>7. ASSUME IsEvent(3) \/ IsEvent(4) PROVE MidiMap[Param(1) + 1] \in Byte
  <2>1. \A i \in 1..15 : MidiMap[i] \in Byte
    BY DEF MidiMap, Byte
  <2> QED BY <1>2, <1>7, <2>1
<1> DEFINE Goal == /\ \E message \in Seq(Byte) : Converts(message)
                   /\ channel_volume' \in [Channels -> Byte]
<1>11. ASSUME KeyOff PROVE Goal
  <2>1. Param(1) \in Byte
    BY <1>2, <1>6, <1>11 DEF KeyOff
  <2>2. <<128 + Mapped, Param(1), 64>> \in Seq(Byte)
    BY <1>4, <2>1, Messages
  <2> QED BY <1>5, <1>11, <2>2 DEF KeyOff
<1>12. ASSUME KeyOn PROVE Goal
  <2> DEFINE volume == IF Param(1) >= 128 THEN Param(2) ELSE channel_volume[Mapped]
  <2>1. Param(1) \in Byte
    BY <1>2, <1>6, <1>12 DEF KeyOn
  <2>2. volume \in Byte
    BY <1>2, <1>3, <1>5, <1>12 DEF KeyOn
  <2>3. /\ Converts(<<144 + Mapped, Param(1) % 128, volume>>)
        /\ channel_volume' = [channel_volume EXCEPT ![Mapped] = volume]
    BY <1>12 DEF KeyOn
  <2> HIDE DEF volume
  <2>4. Param(1) % 128 \in Byte
    <3>1. \A b \in Byte : b % 128 \in Byte
      BY DEF Byte
    <3> QED BY <2>1, <3>1
  <2>5. <<144 + Mapped, Param(1) % 128, volume>> \in Seq(Byte)
    BY <1>4, <2>2, <2>4, Messages
  <2> QED BY <1>3, <1>5, <2>2, <2>3, <2>5
<1>13. ASSUME PitchWheel PROVE Goal
  <2>1. Param(1) \in Byte
    BY <1>2, <1>6, <1>13 DEF PitchWheel
  <2>2. Param(1) \div 2 \in Byte
    <3>1. \A b \in Byte : b \div 2 \in Byte
      BY DEF Byte
    <3> QED BY <2>1, <3>1
  <2>3. <<224 + Mapped, 0, Param(1) \div 2>> \in Seq(Byte)
    BY <1>4, <2>2, Messages
  <2> QED BY <1>5, <1>13, <2>3 DEF PitchWheel
<1>14. ASSUME ChannelMode PROVE Goal
  <2> DEFINE last == IF Param(2) = 12 THEN file.channels + 1 ELSE 0
  <2>1. last \in Byte
    <3>1. file.channels \in Nat /\ file.channels <= 15
      BY DEF LoadInv, FileTyped, ScoreTyped
    <3>2. file.channels + 1 \in Byte
      BY <3>1 DEF Byte
    <3> QED BY <1>4, <3>2
  <2>2. Converts(<<176 + Mapped, MidiMap[Param(1) + 1], last>>) /\ UNCHANGED channel_volume
    BY <1>14 DEF ChannelMode
  <2>3. MidiMap[Param(1) + 1] \in Byte
    BY <1>7, <1>14 DEF ChannelMode
  <2> HIDE DEF last
  <2>4. <<176 + Mapped, MidiMap[Param(1) + 1], last>> \in Seq(Byte)
    BY <1>4, <2>1, <2>3, Messages
  <2> QED BY <1>5, <2>2, <2>4
<1>15. ASSUME ControllerChange PROVE Goal
  <2>1. MidiMap[Param(1) + 1] \in Byte /\ Param(2) \in Byte
    BY <1>2, <1>7, <1>15 DEF ControllerChange
  <2>2. CASE Param(1) = 0
    <3>1. Converts(<<192 + Mapped, Param(2)>>) /\ UNCHANGED channel_volume
      BY <1>15, <2>2 DEF ControllerChange
    <3>2. <<192 + Mapped, Param(2)>> \in Seq(Byte)
      BY <1>4, <2>1, Messages
    <3> QED BY <1>5, <3>1, <3>2
  <2>3. CASE Param(1) # 0
    <3>1. /\ Converts(<<176 + Mapped, MidiMap[Param(1) + 1], Param(2)>>)
          /\ UNCHANGED channel_volume
      BY <1>15, <2>3 DEF ControllerChange
    <3>2. <<176 + Mapped, MidiMap[Param(1) + 1], Param(2)>> \in Seq(Byte)
      BY <1>4, <2>1, Messages
    <3> QED BY <1>5, <3>1, <3>2
  <2> QED BY <2>2, <2>3
<1>16. ASSUME ScoreEnd PROVE Goal
  <2>1. <<255, 47, 0>> \in Seq(Byte)
    BY <1>4, Messages
  <2> QED BY <1>5, <1>16, <2>1 DEF ScoreEnd
<1>17. Goal
  BY <1>11, <1>12, <1>13, <1>14, <1>15, <1>16 DEF ConvertsEvent
<1> QED BY <1>2, <1>3, <1>17

LEMMA ScoreStep == ASSUME LoadInv, MusEventConverted PROVE LoadInv'
<1>1. load = "convert" /\ ConvertsEvent /\ UNCHANGED <<file, pool, load, parserVars, listVars>>
  BY DEF MusEventConverted
<1>2. PICK message \in Seq(Byte) : Converts(message)
  BY <1>1, EventConverted
<1>3. channel_volume' \in [Channels -> Byte] /\ Mapped \in 0..15 /\ channel \in Channels
  BY <1>1, EventConverted
<1>4. midi' \in Seq(Byte) /\ cur' \in Nat \ {0} /\ delta_time' \in Nat
  BY <1>1, <1>2, <1>3, ConvertsTypes DEF LoadInv, FileTyped, ScoreTyped, ConvertsEvent
<1>5. ChannelInv' /\ Counted'
  BY <1>2, <1>3, ConvertsKeeps, ConvertsCounts DEF LoadInv
<1>6. FileTyped' /\ ScoreTyped'
  BY <1>1, <1>3, <1>4 DEF LoadInv, FileTyped, ScoreTyped
<1>7. ParserTyped' /\ ListsInv' /\ TrackInv'
  BY <1>1 DEF LoadInv, ParserTyped, ListsInv, TrackInv, parserVars, listVars
<1> QED BY <1>1, <1>4, <1>5, <1>6, <1>7 DEF LoadInv

\* A step of the parser that leaves the score alone.
LEMMA ParserStep ==
  ASSUME LoadInv, UNCHANGED <<file, pool, musVars>>, load # "convert", load' # "convert",
         load' \in Stages, midi' \in Seq(Byte), ParserTyped', ListsInv', TrackInv'
  PROVE  LoadInv'
<1>1. FileTyped' /\ ScoreTyped'
  BY DEF LoadInv, FileTyped, ScoreTyped, musVars
<1>2. ChannelInv' /\ Counted'
  BY DEF LoadInv, ChannelInv, ChannelsApart, ChannelsBelow, Counted, Given, musVars
<1> QED BY <1>1, <1>2 DEF LoadInv

\* An event is added whole or not at all, and what it takes is there.
LEMMA Adding ==
  ASSUME LoadInv, load = "events", UNCHANGED <<pool, trackNb>>,
         NEW e \in LoadedEvent, NEW reported \in BOOLEAN, AddEvent(e, reported)
  PROVE  load' \in {"events", "lost"} /\ ListsInv' /\ TrackInv'
<1>1. /\ pool \in Nat /\ offset \in Nat /\ offset <= pool /\ iRetVal \in {"AM_OK", "AM_ERR"}
      /\ arTracks \in Seq(Seq(LoadedEvent)) /\ Taken(arTracks) <= offset
      /\ trackNb \in 1..Len(arTracks)
  BY DEF LoadInv, ListsInv, TrackInv
<1>2. CASE trackNb \in dangling
  <2>1. load' = "lost" /\ UNCHANGED <<iRetVal, arTracks, offset>>
    BY <1>2 DEF AddEvent, listVars
  <2> QED BY <1>1, <2>1 DEF ListsInv, TrackInv
<1>3. CASE trackNb \notin dangling /\ offset + Size(e) <= pool
  <2>1. /\ load' = "events" /\ UNCHANGED iRetVal
        /\ arTracks' = [arTracks EXCEPT ![trackNb] = Append(@, e)]
        /\ offset' = offset + Size(e)
    BY <1>3 DEF AddEvent
  <2>2. arTracks' \in Seq(Seq(LoadedEvent)) /\ Taken(arTracks') = Taken(arTracks) + Size(e)
    BY <1>1, <2>1, TakenAppend
  <2>3. Len(arTracks') = Len(arTracks)
    BY <1>1, <2>1
  <2>4. Size(e) \in Nat /\ Taken(arTracks) \in Nat
    BY <1>1, SizeType, TakenType
  <2>5. offset' \in Nat /\ offset' <= pool' /\ Taken(arTracks') <= offset'
    <3> HIDE DEF Size
    <3> QED BY <1>1, <1>3, <2>1, <2>2, <2>4
  <2> QED BY <1>1, <2>1, <2>2, <2>3, <2>5 DEF ListsInv, TrackInv
<1>4. CASE trackNb \notin dangling /\ ~(offset + Size(e) <= pool)
  <2>1. /\ load' = "events" /\ UNCHANGED arTracks
        /\ iRetVal' = IF reported THEN "AM_ERR" ELSE iRetVal
        /\ offset' = IF offset + NODE <= pool THEN offset + NODE ELSE offset
    BY <1>4 DEF AddEvent
  <2>2. offset' \in Nat /\ offset' <= pool' /\ offset <= offset'
    BY <1>1, <2>1 DEF NODE
  <2>3. Taken(arTracks) \in Nat
    BY <1>1, TakenType
  <2> QED BY <1>1, <2>1, <2>2, <2>3 DEF ListsInv, TrackInv
<1> QED BY <1>2, <1>3, <1>4

ChannelKinds == {128, 144, 160, 176, 192, 208, 224}
ChannelTypes == {"T_NOTEON", "T_NOTEOFF", "T_NOTEAFT", "T_CONTROL", "T_PRG_CH", "T_CHAN_AFT",
                 "T_PITCH_BEND"}

\* What the handlers of the events that are put into a list have in common.
Adds(e, reported) ==
  /\ AddEvent(e, reported) /\ pCmd' = EventEnd
  /\ UNCHANGED <<file, pool, midi, musVars, endAddr, trackNb>>
  /\ g_runningStatus' \in Byte /\ recallStatus' \in BOOLEAN
  /\ bEOF' = (bEOF \/ e.type = "T_META_EOT")
  /\ e.type = "T_META_SET_TEMPO" => Len(e.data) = 3

LEMMA ChannelAdds ==
  ASSUME LoadInv, load = "events", WithinFile,
         NEW kind \in ChannelKinds, NEW type \in ChannelTypes, ChannelEvent(kind, type)
  PROVE  \E e \in LoadedEvent, reported \in BOOLEAN : Adds(e, reported)
<1> DEFINE e == [type |-> type, delta |-> Delta,
                 data |-> <<g_runningStatus' % 16>> \o Bytes(DataAt, Parameters)]
<1>1. /\ usSwitch = kind
      /\ g_runningStatus' = IF Recalled THEN g_runningStatus ELSE Status
      /\ recallStatus' = TRUE /\ AddEvent(e, TRUE) /\ pCmd' = EventEnd
      /\ UNCHANGED <<file, pool, midi, musVars, endAddr, trackNb, bEOF>>
  BY Zenon DEF ChannelEvent
<1>2. midi \in Seq(Byte) /\ pCmd \in Nat \ {0} /\ endAddr \in Nat \ {0}
      /\ g_runningStatus \in Byte /\ bEOF \in BOOLEAN
  BY DEF LoadInv, ParserTyped
<1>3. /\ Delta \in Nat /\ Status \in Byte /\ DataAt \in Nat \ {0} /\ Parameters \in 0..2
      /\ EventEnd \in Nat \ {0} /\ EventEnd <= Len(midi) + 1
      /\ usSwitch \in 128..239 => EventEnd = DataAt + Parameters
  BY <1>2, Reading
<1>4. EventEnd = DataAt + Parameters
  <2>1. kind \in 128..239
    BY DEF ChannelKinds
  <2> QED BY <1>1, <1>3, <2>1
<1>5. Bytes(DataAt, Parameters) \in Seq(Byte)
  <2>1. DataAt + Parameters - 1 <= Len(midi) /\ Parameters \in Nat
    BY <1>2, <1>3, <1>4
  <2> QED BY <1>2, <1>3, <2>1, PartOfFile
<1>6. g_runningStatus' \in Byte
  BY <1>1, <1>2, <1>3
<1>7. e \in LoadedEvent
  <2>1. g_runningStatus' % 16 \in Byte
    <3>1. \A b \in Byte : b % 16 \in Byte
      BY DEF Byte
    <3> QED BY <1>6, <3>1
  <2>2. <<g_runningStatus' % 16>> \o Bytes(DataAt, Parameters) \in Seq(Byte)
    BY <1>5, <2>1
  <2>3. type \in DOMAIN DataSize
    BY DEF ChannelTypes, DataSize
  <2> QED BY <1>3, <2>2, <2>3 DEF LoadedEvent
<1>8. bEOF' = (bEOF \/ type = "T_META_EOT") /\ type # "T_META_SET_TEMPO"
  BY <1>1, <1>2 DEF ChannelTypes
<1>9. Adds(e, TRUE)
  <2>1. e.type = type
    OBVIOUS
  <2> HIDE DEF e
  <2>2. recallStatus' \in BOOLEAN
    BY <1>1
  <2> QED BY <1>1, <1>6, <1>8, <2>1, <2>2, Zenon DEF Adds
<1> HIDE DEF e
<1> QED BY <1>7, <1>9

OtherTypes == {"T_META_SET_TEMPO", "T_META_EOT", "T_META_CUEPOINT", "T_META_MARKER",
               "T_META_SET_SIGNATURE", "T_SYSEX"}

LEMMA OtherAdds ==
  ASSUME LoadInv, load = "events", WithinFile,
         NEW type \in OtherTypes, NEW data \in Seq(Byte), NEW reported \in BOOLEAN,
         OtherEvent(type, data, reported), bEOF' = (bEOF \/ type = "T_META_EOT"),
         type = "T_META_SET_TEMPO" => Len(data) = 3
  PROVE  \E e \in LoadedEvent, r \in BOOLEAN : Adds(e, r)
<1> DEFINE e == [type |-> type, delta |-> Delta, data |-> data]
<1>1. /\ AddEvent(e, reported) /\ pCmd' = EventEnd /\ recallStatus' = FALSE
      /\ UNCHANGED <<file, pool, midi, musVars, endAddr, trackNb, g_runningStatus>>
  BY Zenon DEF OtherEvent
<1>2. midi \in Seq(Byte) /\ pCmd \in Nat \ {0} /\ endAddr \in Nat \ {0}
      /\ g_runningStatus \in Byte
  BY DEF LoadInv, ParserTyped
<1>3. Delta \in Nat /\ EventEnd \in Nat \ {0}
  BY <1>2, Reading
<1>4. e \in LoadedEvent
  <2>1. type \in DOMAIN DataSize
    BY DEF OtherTypes, DataSize
  <2> QED BY <1>3, <2>1 DEF LoadedEvent
<1>5. Adds(e, reported)
  <2>1. e.type = type /\ e.data = data
    OBVIOUS
  <2> HIDE DEF e
  <2>2. g_runningStatus' \in Byte /\ recallStatus' \in BOOLEAN
    BY <1>1, <1>2
  <2> QED BY <1>1, <2>1, <2>2, Zenon DEF Adds
<1> HIDE DEF e
<1> QED BY <1>4, <1>5

LEMMA ForgetsStep == ASSUME LoadInv, load = "events", WithinFile, Forgets PROVE LoadInv'
<1>1. /\ pCmd' = EventEnd /\ recallStatus' = FALSE
      /\ UNCHANGED <<file, pool, load, midi, musVars, endAddr, trackNb, g_runningStatus, bEOF,
                     listVars>>
  BY DEF Forgets
<1>2. midi \in Seq(Byte) /\ pCmd \in Nat \ {0} /\ g_runningStatus \in Byte
  BY DEF LoadInv, ParserTyped
<1>3. EventEnd \in Nat \ {0}
  BY <1>2, Reading
<1>4. ParserTyped' /\ ListsInv' /\ TrackInv'
  BY <1>1, <1>3 DEF LoadInv, ParserTyped, ListsInv, TrackInv, listVars
<1> QED BY <1>1, <1>2, <1>4, ParserStep DEF Stages

\* Every handler of an event that is put into a list.
LEMMA EventAdds ==
  ASSUME LoadInv, ReadsEvent, ~(OtherMeta \/ SystemCommon \/ UnknownEvent)
  PROVE  \E e \in LoadedEvent, reported \in BOOLEAN : Adds(e, reported)
<1>1. load = "events" /\ WithinFile
  BY DEF ReadsEvent
<1>2. midi \in Seq(Byte) /\ pCmd \in Nat \ {0} /\ g_runningStatus \in Byte /\ bEOF \in BOOLEAN
  BY DEF LoadInv, ParserTyped
<1>3. /\ Command \in 1..Len(midi) /\ EventEnd <= Len(midi) + 1 /\ Len(midi) \in Nat
      /\ usSwitch = 240 => SysexEnd \in Command..Len(midi)
      /\ usSwitch = 255 => /\ Command + 2 <= Len(midi) /\ EventEnd = MetaEnd
                           /\ MetaLength \in Byte
  BY <1>1, <1>2, Reading
<1>4. CASE NoteOff \/ NoteOn \/ NoteAft \/ Controller \/ ProgramChange \/ ChannelAft \/ PitchBend
  <2>1. PICK kind \in ChannelKinds, type \in ChannelTypes : ChannelEvent(kind, type)
    BY <1>4 DEF NoteOff, NoteOn, NoteAft, Controller, ProgramChange, ChannelAft, PitchBend,
                ChannelKinds, ChannelTypes
  <2> QED BY <1>1, <2>1, ChannelAdds
<1>5. CASE SysexMsg
  <2>1. usSwitch = 240 /\ OtherEvent("T_SYSEX", Bytes(Command, SysexEnd - Command), TRUE)
        /\ UNCHANGED bEOF
    BY <1>5 DEF SysexMsg
  <2>2. Bytes(Command, SysexEnd - Command) \in Seq(Byte)
    <3>1. /\ SysexEnd - Command \in Nat /\ Command \in Nat \ {0}
          /\ Command + (SysexEnd - Command) - 1 <= Len(midi)
      BY <1>3, <2>1
    <3> QED BY <1>2, <3>1, PartOfFile
  <2>3. "T_SYSEX" \in OtherTypes
    BY DEF OtherTypes
  <2> QED BY <1>1, <1>2, <2>1, <2>2, <2>3, OtherAdds
<1>6. ASSUME NEW metaType \in {6, 7}, NEW type \in {"T_META_MARKER", "T_META_CUEPOINT"},
             TakesName(metaType, type)
      PROVE  \E e \in LoadedEvent, reported \in BOOLEAN : Adds(e, reported)
  <2>1. usSwitch = 255 /\ MetaType = metaType
        /\ OtherEvent(type, Bytes(Command + 3, MetaLength), FALSE) /\ UNCHANGED bEOF
    BY <1>6 DEF TakesName, ReadsMeta
  <2>2. MetaEnd = Command + 3 + MetaLength
    <3>1. MetaType \in Named /\ MetaType \notin {32, 33} /\ MetaType # 89
      BY <2>1 DEF Named
    <3> QED BY <3>1 DEF MetaEnd
  <2>3. Bytes(Command + 3, MetaLength) \in Seq(Byte)
    <3>1. MetaLength \in Nat /\ MetaEnd <= Len(midi) + 1
      BY <1>3, <2>1, ByteIsNumber
    <3>2. (Command + 3) + MetaLength - 1 <= Len(midi) /\ Command + 3 \in Nat \ {0}
      BY <1>3, <2>2, <3>1
    <3> QED BY <1>2, <3>1, <3>2, PartOfFile
  <2>4. type \in OtherTypes /\ type # "T_META_EOT" /\ type # "T_META_SET_TEMPO"
    BY DEF OtherTypes
  <2> QED BY <1>1, <1>2, <2>1, <2>3, <2>4, OtherAdds
<1>7. CASE Marker \/ CuePoint
  BY <1>6, <1>7 DEF Marker, CuePoint, OtherTypes
<1>8. CASE EndOfTrack
  <2>1. OtherEvent("T_META_EOT", << >>, TRUE) /\ bEOF' = TRUE
    BY <1>8 DEF EndOfTrack
  <2>3. bEOF' \in BOOLEAN /\ << >> \in Seq(Byte)
    BY <2>1
  <2>2. "T_META_EOT" \in OtherTypes
    BY DEF OtherTypes
  <2> QED BY <1>1, <2>1, <2>2, <2>3, OtherAdds
<1>9. CASE SetTempo
  <2> DEFINE tempo == [i \in 1..3 |-> IF i <= MetaLength THEN midi[Command + 2 + i] ELSE 0]
  <2>1. usSwitch = 255 /\ MetaType = 81 /\ OtherEvent("T_META_SET_TEMPO", tempo, TRUE)
        /\ UNCHANGED bEOF
    BY <1>9 DEF SetTempo, ReadsMeta
  <2>2. MetaEnd = Command + 3 + MetaLength
    <3>1. MetaType \in Timed /\ MetaType \notin {32, 33} /\ MetaType # 89
      BY <2>1 DEF Timed
    <3> QED BY <3>1 DEF MetaEnd
  <2>3. tempo \in Seq(Byte)
    <3>1. MetaLength \in Nat /\ MetaEnd <= Len(midi) + 1 /\ 0 \in Byte
      BY <1>3, <2>1, ByteIsNumber
    <3>2. ASSUME NEW i \in 1..3, i <= MetaLength PROVE midi[Command + 2 + i] \in Byte
      <4>1. Command + 2 + i \in 1..Len(midi)
        BY <1>3, <2>2, <3>1, <3>2
      <4> QED BY <1>2, <4>1
    <3>3. \A i \in 1..3 : tempo[i] \in Byte
      BY <3>1, <3>2
    <3>4. tempo \in [1..3 -> Byte]
      BY <3>3
    <3> QED BY <3>4
  <2>4. "T_META_SET_TEMPO" \in OtherTypes /\ Len(tempo) = 3
    BY DEF OtherTypes
  <2> HIDE DEF tempo
  <2> QED BY <1>1, <1>2, <2>1, <2>3, <2>4, OtherAdds
<1>10. CASE TimeSignature
  <2>1. usSwitch = 255 /\ MetaType = 88 /\ UNCHANGED bEOF
        /\ OtherEvent("T_META_SET_SIGNATURE", Bytes(Command + 3, 4), TRUE)
    BY <1>10 DEF TimeSignature, ReadsMeta
  <2>2. Command + 6 <= Len(midi)
    BY <1>1, <2>1 DEF WithinFile
  <2>3. Bytes(Command + 3, 4) \in Seq(Byte)
    <3>1. (Command + 3) + 4 - 1 <= Len(midi) /\ Command + 3 \in Nat \ {0} /\ 4 \in Nat
      BY <1>3, <2>2
    <3> QED BY <1>2, <3>1, PartOfFile
  <2>4. "T_META_SET_SIGNATURE" \in OtherTypes
    BY DEF OtherTypes
  <2> QED BY <1>1, <1>2, <2>1, <2>3, <2>4, OtherAdds
<1> QED BY <1>4, <1>5, <1>7, <1>8, <1>9, <1>10 DEF ReadsEvent

\* Every handler of an event.
LEMMA EventStep == ASSUME LoadInv, ReadsEvent PROVE LoadInv'
<1>1. load = "events" /\ WithinFile
  BY DEF ReadsEvent
<1>2. CASE OtherMeta \/ SystemCommon \/ UnknownEvent
  BY <1>1, <1>2, ForgetsStep DEF OtherMeta, SystemCommon, UnknownEvent
<1>3. CASE ~(OtherMeta \/ SystemCommon \/ UnknownEvent)
  <2>1. PICK e \in LoadedEvent, reported \in BOOLEAN : Adds(e, reported)
    BY <1>3, EventAdds
  <2>2. /\ AddEvent(e, reported) /\ pCmd' = EventEnd
        /\ UNCHANGED <<file, pool, midi, musVars, endAddr, trackNb>>
        /\ g_runningStatus' \in Byte /\ recallStatus' \in BOOLEAN
        /\ bEOF' = (bEOF \/ e.type = "T_META_EOT")
    BY <2>1 DEF Adds
  <2>3. load' \in {"events", "lost"} /\ ListsInv' /\ TrackInv'
    BY <1>1, <2>2, Adding
  <2>4. midi \in Seq(Byte) /\ pCmd \in Nat \ {0} /\ g_runningStatus \in Byte
        /\ endAddr \in Nat \ {0} /\ bEOF \in BOOLEAN
    BY DEF LoadInv, ParserTyped
  <2>5. EventEnd \in Nat \ {0}
    BY <1>1, <2>4, Reading
  <2>6. ParserTyped'
    BY <2>2, <2>4, <2>5 DEF ParserTyped
  <2> QED BY <1>1, <2>2, <2>3, <2>4, <2>6, ParserStep DEF Stages
<1> QED BY <1>2, <1>3

\* A load starts with one event list for each track, and nothing in them.
LEMMA StartStep ==
  ASSUME LoadInv, MidiIsTaken \/ XmidiIsRead \/ MusIsTaken \/ MusConverted PROVE LoadInv'
<1>1. /\ pool \in Nat /\ offset \in Nat /\ offset <= pool /\ iRetVal \in {"AM_OK", "AM_ERR"}
      /\ file.nTracks \in Nat \ {0} /\ file.bytes \in Seq(Byte) /\ midi \in Seq(Byte)
      /\ trackNb \in Nat \ {0} /\ (load \in {"start", "convert"} => trackNb = 1)
  BY DEF LoadInv, FileTyped, ListsInv, TrackInv
<1>2. ASSUME NEW n \in Nat \ {0}, arTracks' = [t \in 1..n |-> << >>],
             UNCHANGED <<pool, iRetVal, offset>>
      PROVE  ListsInv' /\ Len(arTracks') = n
  <2>1. arTracks' \in Seq(Seq(LoadedEvent)) /\ Taken(arTracks') = 0
    BY <1>2, NothingTaken
  <2> QED BY <1>1, <1>2, <2>1 DEF ListsInv
<1>3. << << >> >> = [t \in 1..1 |-> << >>] /\ 1 \in Nat \ {0}
  OBVIOUS
<1>4. CASE MidiIsTaken
  <2>1. /\ load = "start" /\ load' = "header" /\ midi' = file.bytes
        /\ arTracks' = [t \in 1..file.nTracks |-> << >>]
        /\ UNCHANGED <<file, pool, musVars, parserVars, iRetVal, dangling, offset>>
    BY <1>4 DEF MidiIsTaken
  <2>2. ListsInv' /\ Len(arTracks') = file.nTracks
    BY <1>1, <1>2, <2>1
  <2>3. ParserTyped' /\ TrackInv'
    BY <1>1, <2>1, <2>2 DEF LoadInv, ParserTyped, TrackInv, parserVars
  <2> QED BY <1>1, <2>1, <2>2, <2>3, ParserStep DEF Stages
<1>5. CASE XmidiIsRead
  <2>1. /\ load = "start" /\ load' \in {"ok", "lost"} /\ arTracks' = << << >> >>
        /\ UNCHANGED <<file, pool, midi, musVars, parserVars, iRetVal, dangling, offset>>
    BY <1>5 DEF XmidiIsRead
  <2>2. ListsInv'
    BY <1>2, <1>3, <2>1
  <2>3. ParserTyped' /\ TrackInv'
    BY <1>1, <2>1 DEF LoadInv, ParserTyped, TrackInv, parserVars
  <2> QED BY <1>1, <2>1, <2>2, <2>3, ParserStep DEF Stages
<1>6. CASE MusIsTaken
  <2>1. /\ load = "start" /\ load' = "convert" /\ midi' = MusPrologue /\ file.channels <= 15
        /\ UNCHANGED <<file, pool, musVars, parserVars, listVars>>
    BY <1>6 DEF MusIsTaken, MIDI_MAXCHANNELS
  <2>2. MusPrologue \in Seq(Byte)
    <3>1. /\ 0 \in Byte /\ 255 \in Byte /\ 81 \in Byte /\ 3 \in Byte /\ 9 \in Byte
          /\ 163 \in Byte /\ 26 \in Byte /\ 185 \in Byte /\ 7 \in Byte /\ 127 \in Byte
      BY DEF Byte
    <3> QED BY <3>1 DEF MusPrologue
  <2>3. FileTyped' /\ ScoreTyped' /\ ChannelInv' /\ Counted'
    BY <2>1 DEF LoadInv, FileTyped, ScoreTyped, ChannelInv, ChannelsApart, ChannelsBelow,
                Counted, Given, musVars
  <2>4. ParserTyped' /\ ListsInv' /\ TrackInv'
    BY <1>1, <2>1 DEF LoadInv, ParserTyped, ListsInv, TrackInv, parserVars, listVars
  <2> QED BY <2>1, <2>2, <2>3, <2>4 DEF LoadInv, Stages
<1>7. CASE MusConverted
  <2>1. /\ load = "convert" /\ load' = "header" /\ midi' = TrackOf(midi)
        /\ arTracks' = << << >> >>
        /\ UNCHANGED <<file, pool, musVars, parserVars, iRetVal, dangling, offset>>
    BY <1>7 DEF MusConverted
  <2>2. TrackOf(midi) \in Seq(Byte)
    <3>1. Len(midi) \in Nat
      BY <1>1
    <3>2. WriteInt(Len(midi)) \in Seq(Byte)
      BY <3>1, WriteIntType
    <3>3. ID_MTRK \in Seq(Byte)
      <4>1. 77 \in Byte /\ 84 \in Byte /\ 114 \in Byte /\ 107 \in Byte
        BY DEF Byte
      <4> QED BY <4>1 DEF ID_MTRK
    <3> QED BY <1>1, <3>2, <3>3 DEF TrackOf
  <2>3. ListsInv' /\ Len(arTracks') = 1
    BY <1>2, <1>3, <2>1
  <2>4. FileTyped' /\ ScoreTyped' /\ ChannelInv' /\ Counted'
    BY <2>1 DEF LoadInv, FileTyped, ScoreTyped, ChannelInv, ChannelsApart, ChannelsBelow,
                Counted, Given, musVars
  <2>5. ParserTyped' /\ TrackInv'
    BY <1>1, <2>1, <2>3 DEF LoadInv, ParserTyped, TrackInv, parserVars
  <2> QED BY <2>1, <2>2, <2>3, <2>4, <2>5 DEF LoadInv, Stages
<1> QED BY <1>4, <1>5, <1>6, <1>7

\* The headers of the tracks, the end of a track, and what ends the load.
LEMMA TrackStep ==
  ASSUME LoadInv,
         TrackStarts \/ NoTrackIsThere \/ TrackEnds \/ RunsOffFile
           \/ OutOfMemory \/ TypeIsRefused \/ MusEventUnsupported \/ MusRunsOff
  PROVE  LoadInv'
<1>1. midi \in Seq(Byte) /\ pCmd \in Nat \ {0} /\ trackNb \in Nat \ {0} /\ Len(midi) \in Nat
      /\ (load \in {"header", "events"} => trackNb <= Len(arTracks))
      /\ Len(arTracks) \in Nat
  BY DEF LoadInv, ParserTyped, TrackInv, ListsInv
<1>2. CASE TrackStarts
  <2>1. /\ load = "header" /\ HeaderInFile /\ load' = "events" /\ recallStatus' = FALSE
        /\ pCmd' = pCmd + 8 /\ endAddr' = pCmd + 8 + ReadInt(midi, pCmd + 4) /\ bEOF' = FALSE
        /\ UNCHANGED <<file, pool, midi, musVars, trackNb, g_runningStatus, listVars>>
    BY <1>2 DEF TrackStarts
  <2>2. ReadInt(midi, pCmd + 4) \in Nat
    <3>1. pCmd + 4 \in Nat \ {0} /\ (pCmd + 4) + 3 <= Len(midi)
      BY <1>1, <2>1 DEF HeaderInFile
    <3> QED BY <1>1, <3>1, LengthType
  <2>3. ParserTyped'
    <3>1. \A n \in Nat : pCmd + 8 + n \in Nat \ {0}
      BY <1>1
    <3>2. pCmd' \in Nat \ {0} /\ endAddr' \in Nat \ {0}
      BY <1>1, <2>1, <2>2, <3>1
    <3>3. g_runningStatus' \in Byte
      BY <2>1 DEF LoadInv, ParserTyped
    <3>4. recallStatus' \in BOOLEAN /\ bEOF' \in BOOLEAN
      BY <2>1, Zenon
    <3> QED BY <3>2, <3>3, <3>4 DEF ParserTyped
  <2>6. ListsInv'
    BY <2>1 DEF LoadInv, ListsInv, listVars
  <2>4. arTracks' = arTracks
    BY <2>1 DEF listVars
  <2>5. TrackInv'
    BY <1>1, <2>1, <2>4 DEF TrackInv
  <2> QED BY <1>1, <2>1, <2>3, <2>5, <2>6, ParserStep DEF Stages
<1>3. CASE NoTrackIsThere \/ RunsOffFile \/ OutOfMemory \/ TypeIsRefused
           \/ MusEventUnsupported \/ MusRunsOff
  <2>1. /\ load' \in {"ok", "error", "lost"}
        /\ UNCHANGED <<file, pool, midi, musVars, parserVars, listVars>>
    BY <1>3 DEF NoTrackIsThere, RunsOffFile, OutOfMemory, TypeIsRefused, MusEventUnsupported,
                MusRunsOff
  <2>2. FileTyped' /\ ScoreTyped' /\ ChannelInv' /\ Counted'
    BY <2>1 DEF LoadInv, FileTyped, ScoreTyped, ChannelInv, ChannelsApart, ChannelsBelow,
                Counted, Given, musVars
  <2>3. ParserTyped' /\ ListsInv' /\ TrackInv'
    BY <2>1 DEF LoadInv, ParserTyped, ListsInv, TrackInv, parserVars, listVars
  <2> QED BY <1>1, <2>1, <2>2, <2>3 DEF LoadInv, Stages
<1>4. CASE TrackEnds
  <2>1. /\ load = "events"
        /\ UNCHANGED <<file, pool, midi, musVars, pCmd, endAddr, recallStatus, g_runningStatus,
                       bEOF, listVars>>
    BY <1>4 DEF TrackEnds
  <2>2. \/ load' = "header" /\ trackNb' = trackNb + 1 /\ trackNb < Len(arTracks)
        \/ load' \in {"ok", "error"} /\ trackNb' = trackNb
    BY <1>4 DEF TrackEnds
  <2>3. ParserTyped' /\ ListsInv'
    BY <2>1 DEF LoadInv, ParserTyped, ListsInv, listVars
  <2>4. arTracks' = arTracks
    BY <2>1 DEF listVars
  <2>5. TrackInv'
    BY <1>1, <2>1, <2>2, <2>4 DEF TrackInv
  <2> QED BY <1>1, <2>1, <2>2, <2>3, <2>5, ParserStep DEF Stages
<1> QED BY <1>2, <1>3, <1>4

LEMMA LoaderStep == ASSUME LoadInv, LoaderNext PROVE LoadInv'
  BY ScoreStep, EventStep, StartStep, TrackStep DEF LoaderNext, Starts

-----------------------------------------------------------------------------
(* The session: a load begins, and behind the one that is handed over      *)
(* stands another beginning.                                               *)

LEMMA NobodyHasAChannel ==
  ASSUME currentChannel = 0, channelMap = [c \in Channels |-> IF c = 15 THEN 9 ELSE -1]
  PROVE  ChannelInv /\ Counted
<1>1. ChannelInv
  BY FreshChannels
<1>2. Given = {}
  BY DEF Given
<1> QED BY <1>1, <1>2, FS_EmptySet DEF Counted

\* The state a load begins in, with a file or without.
Beginning ==
  /\ load \in {"start", "done"} /\ FileTyped /\ pool \in Nat /\ offset = 0 /\ midi = << >>
  /\ cur = 1 /\ delta_time = 0 /\ currentChannel = 0
  /\ channelMap = [c \in Channels |-> IF c = 15 THEN 9 ELSE -1]
  /\ channel_volume = [c \in Channels |-> 64]
  /\ pCmd = 1 /\ endAddr = 1 /\ trackNb = 1 /\ recallStatus = FALSE /\ g_runningStatus = 0
  /\ bEOF = FALSE /\ iRetVal = "AM_OK" /\ arTracks = << >>

LEMMA Begins == Beginning => LoadInv
<1> SUFFICES ASSUME Beginning PROVE LoadInv
  OBVIOUS
<1>1. 64 \in Byte /\ 0 \in Byte
  BY DEF Byte
<1>2. ScoreTyped
  BY <1>1 DEF Beginning, ScoreTyped
<1>3. ParserTyped
  <2>1. pCmd \in Nat \ {0} /\ endAddr \in Nat \ {0} /\ g_runningStatus \in Byte
    BY <1>1 DEF Beginning
  <2>2. recallStatus \in BOOLEAN /\ bEOF \in BOOLEAN
    BY Zenon DEF Beginning
  <2> QED BY <2>1, <2>2 DEF ParserTyped
<1>4. ListsInv
  <2>1. arTracks = [t \in 1..0 |-> << >>] /\ 0 \in Nat
    BY DEF Beginning
  <2>2. arTracks \in Seq(Seq(LoadedEvent)) /\ Taken(arTracks) = 0
    BY <2>1, NothingTaken
  <2> QED BY <2>2 DEF Beginning, ListsInv
<1>5. TrackInv
  BY DEF Beginning, TrackInv
<1>6. midi \in Seq(Byte)
  BY DEF Beginning
<1>7. ChannelInv /\ Counted
  BY NobodyHasAChannel DEF Beginning
<1> QED BY <1>2, <1>3, <1>4, <1>5, <1>6, <1>7 DEF Beginning, LoadInv, Stages

LEMMA SessionBegins == ASSUME SessionInit PROVE LoadInv
<1>1. file \in Files /\ pool \in PoolSizes
  BY DEF SessionInit, LoaderInit
<1>2. FileTyped
  <2>1. IsFile(file)
    BY <1>1, FilesAssumption
  <2> QED BY <2>1 DEF IsFile, FileTyped
<1>3. pool \in Nat
  BY <1>1, PoolAssumption
<1>4. Beginning
  BY <1>2, <1>3 DEF SessionInit, LoaderInit, MusInit, Beginning
<1> QED BY <1>4, Begins

LEMMA BeginsAgain == (Beginning => LoadInv)'
  BY Begins, PTL

LEMMA SessionStep == ASSUME LoadInv, [SessionNext]_sessionVars PROVE LoadInv'
<1>1. CASE Loading
  BY <1>1, LoaderStep DEF Loading
<1>2. CASE HandOver
  <2>1. /\ load' = "done" /\ file' = NoFile /\ pool' = 0 /\ offset' = 0 /\ midi' = << >>
        /\ cur' = 1 /\ delta_time' = 0 /\ currentChannel' = 0
        /\ channelMap' = [c \in Channels |-> IF c = 15 THEN 9 ELSE -1]
        /\ channel_volume' = [c \in Channels |-> 64]
        /\ pCmd' = 1 /\ endAddr' = 1 /\ trackNb' = 1 /\ recallStatus' = FALSE
        /\ g_runningStatus' = 0 /\ bEOF' = FALSE
        /\ iRetVal' = "AM_OK" /\ arTracks' = << >>
    BY <1>2 DEF HandOver
  <2>2. FileTyped'
    BY <2>1 DEF FileTyped, NoFile
  <2>3. Beginning'
    BY <2>1, <2>2 DEF Beginning, Channels
  <2> QED BY <2>3, BeginsAgain
<1>3. CASE UNCHANGED loaderVars
  <2>1. UNCHANGED <<file, pool, load, midi, musVars, parserVars, listVars>>
    BY <1>3 DEF loaderVars
  <2>2. FileTyped' /\ ScoreTyped' /\ ChannelInv' /\ Counted'
    BY <2>1 DEF LoadInv, FileTyped, ScoreTyped, ChannelInv, ChannelsApart, ChannelsBelow,
                Counted, Given, musVars
  <2>3. ParserTyped' /\ ListsInv' /\ TrackInv'
    BY <2>1 DEF LoadInv, ParserTyped, ListsInv, TrackInv, parserVars, listVars
  <2> QED BY <2>1, <2>2, <2>3 DEF LoadInv
<1> QED BY <1>1, <1>2, <1>3 DEF SessionNext, Playing, sessionVars

LEMMA LoadInvariant == Session => []LoadInv
<1>1. SessionInit => LoadInv
  BY SessionBegins
<1>2. LoadInv /\ [SessionNext]_sessionVars => LoadInv'
  BY SessionStep
<1> QED BY <1>1, <1>2, PTL DEF Session

\* Whatever bytes a score is of, no two of its channels share a MIDI channel, and
\* percussion shares its own with none.
THEOREM ScoreChannels == Session => []ChannelsApart
<1>1. LoadInv => ChannelsApart
  BY DEF LoadInv, ChannelInv
<1> QED BY <1>1, LoadInvariant, PTL

\* Whatever bytes a file is of and however large the linear buffer is, the load reads
\* numbers and puts down events of bytes, and what it puts down never takes more than
\* the buffer has.
THEOREM LoaderTypes == Session => []LoaderTypeOK
<1>1. LoadInv => LoaderTypeOK
  BY DEF LoadInv, LoaderTypeOK, ParserTyped, ListsInv, LoadedEvent, Byte, Stages
<1> QED BY <1>1, LoadInvariant, PTL

-----------------------------------------------------------------------------
(* The player in the session.  What holds of it for every set of songs     *)
(* holds of the song that was loaded, if that is one of them: the loader   *)
(* leaves the player alone, and what it hands over is a song at its top.   *)

PlayerInv == /\ TypeInv /\ OrderInv /\ StepInv /\ TransportInv
             /\ \A t \in Tracks : OnTime(t)
             /\ CLOCK_MAX <= FRAC * ELAPSED_MOD => LateInv

LEMMA OpeningHolds == Opening => PlayerInv
<1>1. Opening => TransportInv
  BY DEF Opening, TransportInv
<1> QED BY <1>1, InitTypes, OrderInit, StepInit, OnTimeInit, LateInit DEF PlayerInv

LEMMA OpeningHoldsNext == (Opening => PlayerInv)'
  BY OpeningHolds, PTL

\* A song at its top that nobody plays is one the transport may have been given.
LEMMA OpeningMaps ==
  Opening => /\ Mode = "off" /\ <<LastOf(1)>> \in Seq(Nat)
             /\ <<IF IsSingle THEN Position(1) ELSE 0>> = Transport!Top
<1> SUFFICES ASSUME Opening
             PROVE  /\ Mode = "off" /\ <<LastOf(1)>> \in Seq(Nat)
                    /\ <<IF IsSingle THEN Position(1) ELSE 0>> = Transport!Top
  OBVIOUS
<1>1. song \in Songs /\ 1 \in Tracks /\ Len(song.tracks[1]) \in Nat /\ Len(song.tracks[1]) >= 1
  BY InitTypes, LastTrack, SongFacts DEF TypeInv, TypeOK
<1>2. LastOf(1) \in Nat
  BY <1>1 DEF LastOf
<1>3. currEventPtr[1][2] = 1
  BY <1>1 DEF Opening, First
<1>4. Position(1) = 0
  BY <1>2, <1>3 DEF Position
<1>5. Mode = "off"
  BY DEF Opening, Mode
<1>6. <<LastOf(1)>> \in Seq(Nat) /\ <<0>> = [t \in DOMAIN <<LastOf(1)>> |-> 0]
  BY <1>2
<1> QED BY <1>4, <1>5, <1>6 DEF Transport!Top

LEMMA OpeningMapsNext ==
  (Opening => /\ Mode = "off" /\ <<LastOf(1)>> \in Seq(Nat)
              /\ <<IF IsSingle THEN Position(1) ELSE 0>> = Transport!Top)'
  BY OpeningMaps, PTL

\* Until the song is handed over the player is as it was.
WaitsForSong == load # "done" => Init

LEMMA PlayerGoesOn == ASSUME PlayerInv, [Next]_vars PROVE PlayerInv'
  BY NextTypes, OrderNext, StepNext, OnTimeNext, LateNext, TransportNext DEF PlayerInv

LEMMA SongHandedOver ==
  ASSUME Init, HandOver, song' \in Songs, LoadInv PROVE Opening'
<1>1. song' = LoadedSong /\ DOMAIN LoadedSong.tracks = DOMAIN arTracks
  BY DEF HandOver, LoadedSong, SongOf
<1>2. arTracks \in Seq(Seq(LoadedEvent))
  BY DEF LoadInv, ListsInv
<1>3. Tracks' = DOMAIN arTracks
  <2>1. Len(LoadedSong.tracks) = Len(arTracks)
    BY <1>2 DEF LoadedSong, SongOf
  <2> QED BY <1>1, <1>2, <2>1 DEF Tracks
<1>4. PICK s \in InitialStates : playState' = [t \in DOMAIN arTracks |-> s]
  BY DEF HandOver
<1>5. playState' \in [Tracks' -> SUBSET Bits]
  <2>1. s \in SUBSET Bits
    BY InitialAssumption
  <2> QED BY <1>3, <1>4, <2>1
<1>6. /\ currEventPtr' = [t \in Tracks' |-> First(t)]
      /\ timeElapsedInt' = [t \in Tracks' |-> 0]
  BY <1>3 DEF HandOver
<1>7. /\ (active = FALSE)' /\ (hooked = FALSE)' /\ (timeElapsedFrac = 0)' /\ (timeStep = 0)'
      /\ (endOfSequence = FALSE)' /\ (bStopped = FALSE)' /\ (isr = 0)' /\ (hung = FALSE)'
  BY DEF HandOver, Init
<1>8. /\ (call = "none")' /\ (todo = << >>)' /\ (loaded = FALSE)' /\ (word = {})'
      /\ (sounding = FALSE)' /\ (played = << >>)' /\ (clock = 0)'
  BY DEF HandOver, Init, client, history
<1> QED BY <1>5, <1>6, <1>7, <1>8 DEF Opening, First

\* What is handed over is a song.
HandsOverSongs == HandOver => song' \in Songs

LEMMA HandOverWaits == ASSUME HandOver, WaitsForSong PROVE Init /\ load' = "done"
  BY DEF HandOver, WaitsForSong

LEMMA LoadingWaits == ASSUME Loading PROVE load # "done" /\ UNCHANGED vars
  BY DEF Loading, LoaderNext, Starts, OutOfMemory, TypeIsRefused, MidiIsTaken,
     XmidiIsRead, MusIsTaken, MusEventConverted, MusEventUnsupported, MusRunsOff,
     MusConverted, TrackStarts, NoTrackIsThere, TrackEnds, RunsOffFile, ReadsEvent

LEMMA PlayerInSession ==
  ASSUME LoadInv, PlayerInv, WaitsForSong, [SessionNext /\ HandsOverSongs]_sessionVars
  PROVE  PlayerInv' /\ WaitsForSong'
<1>1. CASE Loading
  <2>1. UNCHANGED vars /\ load # "done"
    BY <1>1, LoadingWaits
  <2>2. PlayerInv'
    BY <2>1, PlayerGoesOn
  <2>3. Init'
    BY <2>1 DEF WaitsForSong, Init, vars, tracks, client, history, Tracks, First
  <2> QED BY <2>2, <2>3 DEF WaitsForSong
<1>2. CASE HandOver /\ song' \in Songs
  <2>1. Init /\ load' = "done"
    BY <1>2, HandOverWaits
  <2>2. PlayerInv'
    BY <1>2, <2>1, SongHandedOver, OpeningHoldsNext
  <2> QED BY <2>1, <2>2 DEF WaitsForSong
<1>3. CASE Playing(Next)
  <2>1. load' = "done" /\ PlayerInv'
    BY <1>3, PlayerGoesOn DEF Playing, loaderVars
  <2> QED BY <2>1 DEF WaitsForSong
<1>4. CASE UNCHANGED sessionVars
  <2>1. UNCHANGED vars /\ UNCHANGED load
    BY <1>4 DEF sessionVars, loaderVars
  <2>2. PlayerInv'
    BY <2>1, PlayerGoesOn
  <2>3. Init => Init'
    BY <2>1 DEF Init, vars, tracks, client, history, Tracks, First
  <2> QED BY <2>1, <2>2, <2>3 DEF WaitsForSong
<1> QED BY <1>1, <1>2, <1>3, <1>4 DEF SessionNext, HandsOverSongs

\* Every step of the session is one of the transport or none; a song handed over takes
\* the place of one that does not play.
LEMMA SessionMaps ==
  ASSUME LoadInv, PlayerInv, WaitsForSong, [SessionNext /\ HandsOverSongs]_sessionVars
  PROVE  [Transport!Next]_Transport!vars
<1>1. CASE HandOver /\ song' \in Songs
  <2>1. Init
    BY <1>1, HandOverWaits
  <2>2. Opening'
    BY <1>1, <2>1, SongHandedOver
  <2>3. Mode = "off"
    BY <2>1, InitOpens, OpeningMaps
  <2>4. /\ Mode' = "off" /\ <<LastOf(1)>>' \in Seq(Nat)
        /\ <<IF IsSingle THEN Position(1) ELSE 0>>' = Transport!Top'
    BY <2>2, OpeningMapsNext
  <2>5. Transport!Replace
    BY <2>3, <2>4 DEF Transport!Replace
  <2> QED BY <2>5 DEF Transport!Next
<1>2. CASE Playing(Next)
  <2>1. Next
    BY <1>2 DEF Playing
  <2> QED BY <2>1, StepMaps DEF PlayerInv
<1>3. CASE Loading \/ UNCHANGED sessionVars
  <2>1. UNCHANGED vars
    BY <1>3, LoadingWaits DEF sessionVars
  <2> QED BY <2>1, StepMaps DEF PlayerInv
<1> QED BY <1>1, <1>2, <1>3 DEF SessionNext, HandsOverSongs

\* Whatever is in the files: if what is handed over is a song, then it is played as the
\* player promises, in order and in time, at the tempo of its last change, late by a
\* tick an event at most.
THEOREM PlaysWhatWasLoaded ==
  Session /\ [][HandsOverSongs]_sessionVars
    => [](TypeOK /\ PlayedInOrder /\ NeverOverdue /\ StepInForce
            /\ (CLOCK_MAX <= FRAC * ELAPSED_MOD => LateByEvents))
<1> DEFINE Inv == LoadInv /\ PlayerInv /\ WaitsForSong
           Kept == TypeOK /\ PlayedInOrder /\ NeverOverdue /\ StepInForce
                     /\ (CLOCK_MAX <= FRAC * ELAPSED_MOD => LateByEvents)
<1>1. SessionInit => Inv
  BY SessionBegins, InitOpens, OpeningHolds DEF SessionInit, WaitsForSong
<1>2. Inv /\ [SessionNext /\ HandsOverSongs]_sessionVars => Inv'
  BY SessionStep, PlayerInSession
<1>3. Inv => Kept
  <2>1. TypeInv => TypeOK
    BY DEF TypeInv
  <2>2. OrderInv => PlayedInOrder
    BY DEF OrderInv, PlayedInOrder, InOrder
  <2>3. OrderInv /\ (\A t \in Tracks : OnTime(t)) => NeverOverdue
    BY DEF OrderInv, NeverOverdue, OnTime
  <2> QED BY <2>1, <2>2, <2>3, StepInvInForce, LateInvLate DEF PlayerInv
<1> HIDE DEF Inv, Kept
<1>4. Session /\ [][HandsOverSongs]_sessionVars => []Kept
  BY <1>1, <1>2, <1>3, PTL DEF Session
<1> QED BY <1>4 DEF Kept

\* Whatever is in the files: if what is handed over is a song, then the session as a
\* whole does what the transport promises, the loading of the song included.
THEOREM SessionImplements ==
  Session /\ [][HandsOverSongs]_sessionVars => ImplementsTransport
<1> DEFINE Inv == LoadInv /\ PlayerInv /\ WaitsForSong
<1>1. SessionInit => Inv /\ Transport!Init
  <2>1. SessionInit => Opening
    BY InitOpens DEF SessionInit
  <2>2. Opening => Transport!Init
    BY OpeningMaps DEF Transport!Init
  <2> QED BY <2>1, <2>2, SessionBegins, OpeningHolds DEF SessionInit, WaitsForSong
<1>2. Inv /\ [SessionNext /\ HandsOverSongs]_sessionVars => Inv'
  BY SessionStep, PlayerInSession
<1>3. Inv /\ [SessionNext /\ HandsOverSongs]_sessionVars => [Transport!Next]_Transport!vars
  BY SessionMaps
<1> HIDE DEF Inv
<1> QED BY <1>1, <1>2, <1>3, PTL DEF Session, ImplementsTransport, Transport!Spec

-----------------------------------------------------------------------------
(* What is handed over.  Lists get their events one after the other, and   *)
(* none behind an end of track.                                            *)

Blank(first) == \A t \in DOMAIN arTracks : t >= first => arTracks[t] = << >>
NoEnd(list)  == \A n \in 1..Len(list) : list[n].type # "T_META_EOT"
TemposWhole  == \A t \in DOMAIN arTracks : \A n \in 1..Len(arTracks[t]) :
                  arTracks[t][n].type = "T_META_SET_TEMPO" => Len(arTracks[t][n].data) = 3

\* Formats 1 and 2 only may have several tracks.
SingleTypes == {"T_MIDI0", "T_XMIDI", "T_MUS"}
Supported   == SingleTypes \cup {"T_MIDI1", "T_MIDI2"}
FormatInv ==
  /\ file.division \in Nat
  /\ load \in {"start", "convert"} => arTracks = << >>
  /\ load = "convert" => file.type = "T_MUS"
  /\ load \in {"header", "events", "ok"} =>
       file.type \in Supported /\ (file.type \in SingleTypes => Len(arTracks) = 1)
  /\ load = "ok" => arTracks # << >>

EndInv ==
  /\ load = "header" => Blank(trackNb)
  /\ load = "events" => Blank(trackNb + 1) /\ (~bEOF => NoEnd(arTracks[trackNb]))
  /\ NothingBehindEnd /\ TemposWhole

\* An event put behind a list without an end.
LEMMA EndAdded ==
  ASSUME LoadInv, EndInv, load = "events", ~bEOF, UNCHANGED <<pool, trackNb>>,
         NEW e \in LoadedEvent, NEW reported \in BOOLEAN, AddEvent(e, reported),
         bEOF' \/ e.type # "T_META_EOT", e.type = "T_META_SET_TEMPO" => Len(e.data) = 3
  PROVE  EndInv' /\ Len(arTracks') = Len(arTracks)
<1>1. arTracks \in Seq(Seq(LoadedEvent)) /\ trackNb \in 1..Len(arTracks) /\ Len(arTracks) \in Nat
  BY DEF LoadInv, ListsInv, TrackInv
<1>2. load' \in {"events", "lost"}
  BY Adding
<1>3. CASE arTracks' = arTracks
  BY <1>1, <1>2, <1>3 DEF EndInv, Blank, NoEnd, NothingBehindEnd, TemposWhole
<1>4. CASE arTracks' # arTracks
  <2> DEFINE list == arTracks[trackNb]
             more == Append(list, e)
  <2>1. arTracks' = [arTracks EXCEPT ![trackNb] = more]
    BY <1>4 DEF AddEvent, listVars
  <2>2. list \in Seq(LoadedEvent) /\ NoEnd(list)
    BY <1>1 DEF EndInv
  <2>3. /\ Len(more) = Len(list) + 1 /\ Len(list) \in Nat /\ more[Len(list) + 1] = e
        /\ \A n \in 1..Len(list) : more[n] = list[n]
    BY <2>2
  <2>4. /\ DOMAIN arTracks' = DOMAIN arTracks /\ Len(arTracks') = Len(arTracks)
        /\ arTracks'[trackNb] = more /\ DOMAIN arTracks = 1..Len(arTracks)
        /\ \A t \in DOMAIN arTracks : t # trackNb => arTracks'[t] = arTracks[t]
    BY <1>1, <2>1
  <2> HIDE DEF list, more
  <2>5. Blank(trackNb + 1)'
    BY <1>1, <2>4 DEF EndInv, Blank
  <2>6. ~bEOF' => NoEnd(more)
    BY <2>2, <2>3 DEF NoEnd
  <2>7. NothingBehindEnd'
    <3>1. \A n \in 1..Len(more) - 1 : more[n].type # "T_META_EOT"
      BY <2>2, <2>3 DEF NoEnd
    <3>2. \A t \in DOMAIN arTracks : t # trackNb =>
            \A n \in 1..Len(arTracks'[t]) - 1 : arTracks'[t][n].type # "T_META_EOT"
      BY <2>4 DEF EndInv, NothingBehindEnd
    <3> QED BY <2>4, <3>1, <3>2 DEF NothingBehindEnd
  <2>8. TemposWhole'
    <3>1. \A n \in 1..Len(more) : more[n].type = "T_META_SET_TEMPO" => Len(more[n].data) = 3
      <4>1. \A n \in 1..Len(list) :
              list[n].type = "T_META_SET_TEMPO" => Len(list[n].data) = 3
        BY <1>1 DEF EndInv, TemposWhole, list
      <4> QED BY <2>3, <4>1
    <3>2. \A t \in DOMAIN arTracks : t # trackNb => \A n \in 1..Len(arTracks'[t]) :
            arTracks'[t][n].type = "T_META_SET_TEMPO" => Len(arTracks'[t][n].data) = 3
      BY <2>4 DEF EndInv, TemposWhole
    <3> QED BY <2>4, <3>1, <3>2 DEF TemposWhole
  <2> QED BY <1>2, <2>4, <2>5, <2>6, <2>7, <2>8 DEF EndInv
<1> QED BY <1>3, <1>4

\* Every handler leaves the lists like that.
LEMMA EndEvent ==
  ASSUME LoadInv, EndInv, ReadsEvent
  PROVE  EndInv' /\ load' \in {"events", "lost"} /\ Len(arTracks') = Len(arTracks)
         /\ UNCHANGED file
<1>1. load = "events" /\ ~bEOF /\ WithinFile
  BY DEF ReadsEvent, MoreEvents
<1>2. midi \in Seq(Byte) /\ pCmd \in Nat \ {0} /\ g_runningStatus \in Byte
  BY DEF LoadInv, ParserTyped
<1>3. /\ Command \in 1..Len(midi) /\ EventEnd <= Len(midi) + 1 /\ Len(midi) \in Nat
      /\ Delta \in Nat
  BY <1>1, <1>2, Reading
<1>4. CASE OtherMeta \/ SystemCommon \/ UnknownEvent
  <2>1. UNCHANGED <<file, load, trackNb, bEOF, arTracks>>
    BY <1>4 DEF OtherMeta, SystemCommon, UnknownEvent, Forgets, listVars
  <2>2. EndInv'
    BY <2>1 DEF EndInv, Blank, NoEnd, NothingBehindEnd, TemposWhole
  <2> QED BY <1>1, <2>1, <2>2
<1>5. CASE ~(OtherMeta \/ SystemCommon \/ UnknownEvent)
  <2>1. PICK e \in LoadedEvent, reported \in BOOLEAN : Adds(e, reported)
    BY <1>5, EventAdds
  <2>2. /\ AddEvent(e, reported) /\ UNCHANGED <<file, pool, trackNb>>
        /\ bEOF' \/ e.type # "T_META_EOT"
        /\ e.type = "T_META_SET_TEMPO" => Len(e.data) = 3
    BY <2>1 DEF Adds
  <2> QED BY <1>1, <2>2, EndAdded, Adding
<1> QED BY <1>4, <1>5

LEMMA EndStep == ASSUME LoadInv, EndInv, [SessionNext]_sessionVars PROVE EndInv'
<1>1. arTracks \in Seq(Seq(LoadedEvent)) /\ trackNb \in Nat \ {0}
      /\ (load \in {"header", "events"} => trackNb \in 1..Len(arTracks))
  BY DEF LoadInv, ListsInv, TrackInv
<1>2. ASSUME NEW n \in Nat \ {0}, arTracks' = [t \in 1..n |-> << >>], load' \in {"header", "ok", "lost"}
      PROVE  EndInv'
  <2>1. DOMAIN arTracks' = 1..n /\ \A t \in 1..n : arTracks'[t] = << >>
    BY <1>2
  <2> QED BY <1>2, <2>1 DEF EndInv, Blank, NothingBehindEnd, TemposWhole
<1>3. << << >> >> = [t \in 1..1 |-> << >>] /\ 1 \in Nat \ {0}
  OBVIOUS
<1>4. CASE MidiIsTaken /\ UNCHANGED vars
  <2>1. arTracks' = [t \in 1..file.nTracks |-> << >>] /\ load' = "header"
        /\ file.nTracks \in Nat \ {0}
    BY <1>4 DEF MidiIsTaken, LoadInv, FileTyped
  <2> QED BY <1>2, <2>1
<1>5. CASE (XmidiIsRead \/ MusConverted) /\ UNCHANGED vars
  <2>1. arTracks' = << << >> >> /\ load' \in {"header", "ok", "lost"}
    BY <1>5 DEF XmidiIsRead, MusConverted
  <2> QED BY <1>2, <1>3, <2>1
<1>6. CASE TrackStarts
  <2>1. load = "header" /\ load' = "events" /\ UNCHANGED <<trackNb, arTracks>>
    BY <1>6 DEF TrackStarts, listVars
  <2>2. arTracks[trackNb] = << >> /\ Blank(trackNb + 1)
    BY <1>1, <2>1 DEF EndInv, Blank
  <2>3. NoEnd(arTracks[trackNb])
    BY <2>2 DEF NoEnd
  <2> QED BY <2>1, <2>2, <2>3 DEF EndInv, Blank, NothingBehindEnd, TemposWhole
<1>7. CASE TrackEnds
  <2>1. load = "events" /\ UNCHANGED arTracks
        /\ (load' \in {"ok", "error"} \/ (load' = "header" /\ trackNb' = trackNb + 1))
    BY <1>7 DEF TrackEnds, listVars
  <2> QED BY <1>1, <2>1 DEF EndInv, Blank, NothingBehindEnd, TemposWhole
<1>8. CASE ReadsEvent
  BY <1>8, EndEvent
<1>9. CASE UNCHANGED <<load, trackNb, bEOF, arTracks>>
  BY <1>9 DEF EndInv, Blank, NoEnd, NothingBehindEnd, TemposWhole
<1>10. CASE UNCHANGED arTracks /\ load' \in {"convert", "error", "lost", "ok"}
  BY <1>10 DEF EndInv, NothingBehindEnd, TemposWhole
<1>11. CASE HandOver
  <2>1. load' = "done" /\ arTracks' = << >>
    BY <1>11 DEF HandOver
  <2> QED BY <2>1 DEF EndInv, NothingBehindEnd, TemposWhole
<1>12. CASE MusEventConverted \/ Playing(Next) \/ UNCHANGED sessionVars
  <2>1. UNCHANGED <<load, trackNb, bEOF, arTracks>>
    BY <1>12 DEF MusEventConverted, parserVars, listVars, Playing, loaderVars, sessionVars
  <2> QED BY <1>9, <2>1
<1>13. CASE OutOfMemory \/ TypeIsRefused \/ MusIsTaken \/ MusEventUnsupported \/ MusRunsOff
            \/ NoTrackIsThere \/ RunsOffFile
  <2>1. UNCHANGED arTracks /\ load' \in {"convert", "error", "lost", "ok"}
    BY <1>13 DEF OutOfMemory, TypeIsRefused, MusIsTaken, MusEventUnsupported, MusRunsOff,
                 NoTrackIsThere, RunsOffFile, listVars
  <2> QED BY <1>10, <2>1
<1> QED BY <1>4, <1>5, <1>6, <1>7, <1>8, <1>11, <1>12, <1>13
        DEF SessionNext, Loading, LoaderNext, Starts

LEMMA FormatStep ==
  ASSUME LoadInv, EndInv, FormatInv, [SessionNext]_sessionVars PROVE FormatInv'
<1>1. file.nTracks \in Nat \ {0} /\ arTracks \in Seq(Seq(LoadedEvent))
      /\ (load \in {"header", "events"} => trackNb \in 1..Len(arTracks))
  BY DEF LoadInv, FileTyped, ListsInv, TrackInv
<1>2. CASE MidiIsTaken
  <2>1. /\ load' = "header" /\ UNCHANGED file /\ arTracks' = [t \in 1..file.nTracks |-> << >>]
        /\ file.type \in {"T_MIDI1", "T_MIDI2"} \/ (file.type = "T_MIDI0" /\ file.nTracks = 1)
    BY <1>2 DEF MidiIsTaken
  <2>2. Len(arTracks') = file.nTracks
    BY <1>1, <2>1
  <2> QED BY <2>1, <2>2 DEF FormatInv, Supported, SingleTypes
<1>3. CASE XmidiIsRead \/ MusConverted
  <2>1. /\ load' \in {"header", "ok", "lost"} /\ UNCHANGED file /\ arTracks' = << << >> >>
        /\ file.type \in {"T_XMIDI", "T_MUS"}
    BY <1>3 DEF XmidiIsRead, MusConverted, FormatInv
  <2>2. Len(arTracks') = 1 /\ arTracks' # << >>
    BY <2>1
  <2> QED BY <2>1, <2>2 DEF FormatInv, Supported, SingleTypes
<1>4. CASE MusIsTaken \/ MusEventConverted
  <2>1. /\ load \in {"start", "convert"} /\ load' = "convert" /\ UNCHANGED <<file, arTracks>>
        /\ file.type = "T_MUS"
    BY <1>4 DEF MusIsTaken, MusEventConverted, FormatInv, listVars
  <2> QED BY <2>1 DEF FormatInv
<1>5. CASE ReadsEvent
  <2>1. load' \in {"events", "lost"} /\ Len(arTracks') = Len(arTracks) /\ UNCHANGED file
    BY <1>5, EndEvent
  <2>2. load = "events"
    BY <1>5 DEF ReadsEvent
  <2> QED BY <2>1, <2>2 DEF FormatInv
<1>6. CASE TrackStarts \/ NoTrackIsThere \/ TrackEnds
  <2>1. load \in {"header", "events"} /\ UNCHANGED <<file, arTracks>>
        /\ load' \in {"header", "events", "ok", "error"}
    BY <1>6 DEF TrackStarts, NoTrackIsThere, TrackEnds, listVars
  <2>2. arTracks # << >>
    BY <1>1, <2>1
  <2> QED BY <2>1, <2>2 DEF FormatInv
<1>7. CASE OutOfMemory \/ TypeIsRefused \/ MusEventUnsupported \/ MusRunsOff \/ RunsOffFile
  <2>1. load' \in {"error", "lost"} /\ UNCHANGED file
    BY <1>7 DEF OutOfMemory, TypeIsRefused, MusEventUnsupported, MusRunsOff, RunsOffFile
  <2> QED BY <2>1 DEF FormatInv
<1>8. CASE HandOver
  <2>1. load' = "done" /\ file' = NoFile
    BY <1>8 DEF HandOver
  <2> QED BY <2>1 DEF FormatInv, NoFile
<1>9. CASE Playing(Next) \/ UNCHANGED sessionVars
  <2>1. UNCHANGED <<load, file, arTracks>>
    BY <1>9 DEF listVars, Playing, loaderVars, sessionVars
  <2> QED BY <2>1 DEF FormatInv
<1> QED BY <1>2, <1>3, <1>4, <1>5, <1>6, <1>7, <1>8, <1>9
        DEF SessionNext, Loading, LoaderNext, Starts

LEMMA ListsInvariant == Session => [](LoadInv /\ EndInv /\ FormatInv)
<1>1. SessionInit => LoadInv /\ EndInv /\ FormatInv
  <2> SUFFICES ASSUME SessionInit PROVE EndInv /\ FormatInv
    BY SessionBegins
  <2>1. load = "start" /\ arTracks = << >> /\ IsFile(file)
    BY FilesAssumption DEF SessionInit, LoaderInit
  <2>2. EndInv
    BY <2>1 DEF EndInv, NothingBehindEnd, TemposWhole
  <2>3. file.division \in Nat
    <3>1. \A n \in 0..2^16 - 1 : n \in Nat
      OBVIOUS
    <3> QED BY <2>1, <3>1, Zenon DEF IsFile
  <2> QED BY <2>1, <2>2, <2>3 DEF FormatInv
<1>2. LoadInv /\ EndInv /\ FormatInv /\ [SessionNext]_sessionVars
        => LoadInv' /\ EndInv' /\ FormatInv'
  BY SessionStep, EndStep, FormatStep
<1> QED BY <1>1, <1>2, PTL DEF Session

\* Whatever is in the files, no list goes on behind an end of track.
THEOREM ListsEnd == Session => []NothingBehindEnd
<1>1. EndInv => NothingBehindEnd
  BY DEF EndInv
<1> QED BY <1>1, ListsInvariant, PTL

\* What the player asks of the lists that the parser does not see to: there is something
\* to play, what is not empty has its end, and no tempo is 0.
WellEnded ==
  /\ arTracks[1] # << >>
  /\ \A t \in DOMAIN arTracks :
       /\ arTracks[t] # << >> => arTracks[t][Len(arTracks[t])].type = "T_META_EOT"
       /\ \A n \in DOMAIN arTracks[t] :
            arTracks[t][n].type = "T_META_SET_TEMPO" => TempoVal(arTracks[t][n].data) # 0

LEMMA TempoType ==
  ASSUME NEW data \in Seq(Byte), Len(data) = 3 PROVE TempoVal(data) \in Nat
<1>1. data[1] \in Nat /\ data[2] \in Nat /\ data[3] \in Nat
  <2>1. 1 \in 1..Len(data) /\ 2 \in 1..Len(data) /\ 3 \in 1..Len(data)
    OBVIOUS
  <2>2. \A i \in 1..Len(data) : data[i] \in Nat
    BY BytesAreNumbers
  <2> QED BY <2>1, <2>2
<1>2. \A a, b, c \in Nat : a * 65536 + b * 256 + c \in Nat
  OBVIOUS
<1> QED BY <1>1, <1>2 DEF TempoVal

\* The player sees of an event when it is due and of which of its kinds it is.
LEMMA SeenByPlayer ==
  ASSUME NEW e \in LoadedEvent, e.type = "T_META_SET_TEMPO" => Len(e.data) = 3
  PROVE  /\ ReplayEvent(e).type \in {"data", "other", "T_META_SET_TEMPO", "T_META_EOT"}
         /\ ReplayEvent(e).delta \in Nat /\ ReplayEvent(e).tempo \in Nat
         /\ ReplayEvent(e).type = "T_META_EOT" <=> e.type = "T_META_EOT"
         /\ ReplayEvent(e) \in Event <=>
              (e.type = "T_META_SET_TEMPO" => TempoVal(e.data) # 0)
<1> DEFINE type == CASE e.type \in {"T_META_SET_TEMPO", "T_META_EOT"} -> e.type
                     [] e.type \in {"T_META_CUEPOINT", "T_META_MARKER", "T_META_SET_SIGNATURE"} ->
                          "other"
                     [] OTHER -> "data"
           tempo == IF e.type = "T_META_SET_TEMPO" THEN TempoVal(e.data) ELSE 1
<1>1. ReplayEvent(e) = [type |-> type, delta |-> e.delta, tempo |-> tempo]
  BY DEF ReplayEvent
<1>2. type \in {"data", "other", "T_META_SET_TEMPO", "T_META_EOT"}
  <2>1. CASE e.type \in {"T_META_SET_TEMPO", "T_META_EOT"}
    BY <2>1
  <2>2. CASE e.type \in {"T_META_CUEPOINT", "T_META_MARKER", "T_META_SET_SIGNATURE"}
    <3>1. type = "other"
      BY <2>2
    <3> QED BY <3>1
  <2>3. CASE e.type \notin {"T_META_SET_TEMPO", "T_META_EOT", "T_META_CUEPOINT",
                            "T_META_MARKER", "T_META_SET_SIGNATURE"}
    <3>1. type = "data"
      BY <2>3
    <3> QED BY <3>1
  <2> QED BY <2>1, <2>2, <2>3
<1>3. type = "T_META_EOT" <=> e.type = "T_META_EOT"
  OBVIOUS
<1>4. e.delta \in Nat /\ e.data \in Seq(Byte)
  BY DEF LoadedEvent
<1>5. tempo \in Nat
  BY <1>4, TempoType
<1>6. tempo # 0 <=> (e.type = "T_META_SET_TEMPO" => TempoVal(e.data) # 0)
  OBVIOUS
<1> HIDE DEF type, tempo
<1>7. ReplayEvent(e) \in Event <=> tempo # 0
  BY <1>1, <1>2, <1>4, <1>5 DEF Event
<1> QED BY <1>1, <1>2, <1>3, <1>4, <1>5, <1>6, <1>7

\* What is made of the lists is a song exactly if they are well ended.
LEMMA SongOfLists ==
  ASSUME LoadInv, EndInv, FormatInv, load = "ok", file.type # "T_MIDI2"
  PROVE  Playable(LoadedSong) <=> WellEnded
<1> DEFINE s == LoadedSong
<1>1. arTracks \in Seq(Seq(LoadedEvent)) /\ arTracks # << >>
      /\ file.type \in {"T_MIDI0", "T_MIDI1", "T_XMIDI", "T_MUS"}
      /\ (file.type # "T_MIDI1" => Len(arTracks) = 1)
  BY DEF LoadInv, ListsInv, FormatInv, Supported, SingleTypes
<1>2. /\ s.seqType = IF file.type = "T_MIDI1" THEN "ST_MULTI" ELSE "ST_SINGLE"
      /\ s.timeDivision = amDecodeTimeDivisionInfo(file.division)
      /\ s.tracks = [t \in DOMAIN arTracks |-> [n \in DOMAIN arTracks[t] |->
                                                  ReplayEvent(arTracks[t][n])]]
  BY DEF LoadedSong, SongOf
<1>3. s.timeDivision \in Nat
  <2>1. file.division \in Nat
    BY DEF FormatInv
  <2> QED BY <1>2, <2>1 DEF amDecodeTimeDivisionInfo
<1>4. /\ Len(arTracks) \in Nat \ {0} /\ DOMAIN arTracks = 1..Len(arTracks)
      /\ DOMAIN s.tracks = 1..Len(arTracks) /\ Len(s.tracks) = Len(arTracks)
      /\ s.tracks # << >> /\ 1 \in 1..Len(arTracks)
  BY <1>1, <1>2
<1>5. ASSUME NEW t \in 1..Len(arTracks)
      PROVE  /\ Len(arTracks[t]) \in Nat /\ DOMAIN arTracks[t] = 1..Len(arTracks[t])
             /\ Len(s.tracks[t]) = Len(arTracks[t]) /\ DOMAIN s.tracks[t] = 1..Len(arTracks[t])
             /\ arTracks[t] # << >> <=> Len(arTracks[t]) > 0
             /\ s.tracks[t] # << >> <=> Len(arTracks[t]) > 0
             /\ \A n \in 1..Len(arTracks[t]) :
                  /\ s.tracks[t][n] = ReplayEvent(arTracks[t][n])
                  /\ arTracks[t][n] \in LoadedEvent
                  /\ arTracks[t][n].type = "T_META_SET_TEMPO" => Len(arTracks[t][n].data) = 3
  <2>1. arTracks[t] \in Seq(LoadedEvent)
    BY <1>1
  <2>2. s.tracks[t] = [n \in DOMAIN arTracks[t] |-> ReplayEvent(arTracks[t][n])]
    BY <1>2, <1>4
  <2>3. \A n \in 1..Len(arTracks[t]) :
          arTracks[t][n].type = "T_META_SET_TEMPO" => Len(arTracks[t][n].data) = 3
    BY <1>4 DEF EndInv, TemposWhole
  <2> HIDE DEF s
  <2> QED BY <2>1, <2>2, <2>3
<1> HIDE DEF s
<1>6. ASSUME NEW t \in 1..Len(arTracks), NEW n \in 1..Len(arTracks[t])
      PROVE  /\ s.tracks[t][n].type = "T_META_EOT" <=> arTracks[t][n].type = "T_META_EOT"
             /\ s.tracks[t][n] \in Event <=>
                  (arTracks[t][n].type = "T_META_SET_TEMPO" => TempoVal(arTracks[t][n].data) # 0)
  BY <1>5, SeenByPlayer
<1>7. s.tracks \in Seq(Seq(Event)) <=>
        \A t \in 1..Len(arTracks) : \A n \in 1..Len(arTracks[t]) : s.tracks[t][n] \in Event
  <2>1. ASSUME s.tracks \in Seq(Seq(Event)), NEW t \in 1..Len(arTracks),
               NEW n \in 1..Len(arTracks[t])
        PROVE  s.tracks[t][n] \in Event
    <3>1. s.tracks[t] \in Seq(Event)
      BY <1>4, <2>1
    <3> QED BY <1>5, <3>1
  <2>2. ASSUME \A t \in 1..Len(arTracks) : \A n \in 1..Len(arTracks[t]) :
                 s.tracks[t][n] \in Event
        PROVE  s.tracks \in Seq(Seq(Event))
    <3>1. ASSUME NEW t \in 1..Len(arTracks) PROVE s.tracks[t] \in Seq(Event)
      <4>1. s.tracks[t] = [n \in DOMAIN arTracks[t] |-> ReplayEvent(arTracks[t][n])]
        BY <1>2, <1>4
      <4>2. s.tracks[t] \in [1..Len(arTracks[t]) -> Event]
        BY <1>5, <2>2, <4>1
      <4>3. \A n \in Nat : \A f \in [1..n -> Event] : f \in Seq(Event)
        OBVIOUS
      <4>4. Len(arTracks[t]) \in Nat
        BY <1>5
      <4> QED BY <4>2, <4>3, <4>4, Zenon
    <3>2. s.tracks \in [1..Len(arTracks) -> Seq(Event)]
      BY <1>2, <1>4, <3>1
    <3> QED BY <1>4, <3>2
  <2> QED BY <2>1, <2>2
<1>8. ASSUME NEW t \in 1..Len(arTracks)
      PROVE  (\A n \in 1..Len(s.tracks[t]) : n = Len(s.tracks[t]) <=> s.tracks[t][n].type = "T_META_EOT")
               <=> (arTracks[t] # << >> => arTracks[t][Len(arTracks[t])].type = "T_META_EOT")
  <2> DEFINE l == Len(arTracks[t])
  <2>1. l \in Nat /\ Len(s.tracks[t]) = l /\ (arTracks[t] # << >> <=> l > 0)
    BY <1>5
  <2>2. \A n \in 1..l - 1 : arTracks[t][n].type # "T_META_EOT"
    BY <1>4 DEF EndInv, NothingBehindEnd
  <2>3. \A n \in 1..l : s.tracks[t][n].type = "T_META_EOT" <=> arTracks[t][n].type = "T_META_EOT"
    BY <1>6
  <2> HIDE DEF l
  <2>4. \A n \in 1..l : n = l \/ n \in 1..l - 1
    BY <2>1
  <2>5. l > 0 => l \in 1..l
    BY <2>1
  <2>6. \A n \in 1..l - 1 : n # l /\ n \in 1..l
    BY <2>1
  <2>7. (\A n \in 1..l : n = l <=> s.tracks[t][n].type = "T_META_EOT")
          <=> (l > 0 => arTracks[t][l].type = "T_META_EOT")
    <3>1. l > 0 \/ 1..l = {}
      BY <2>1
    <3> QED BY <2>2, <2>3, <2>4, <2>5, <2>6, <3>1
  <2> QED BY <2>1, <2>7 DEF l
<1>9. s.tracks[1] # << >> <=> arTracks[1] # << >>
  BY <1>4, <1>5
<1>10. /\ s.seqType \in {"ST_SINGLE", "ST_MULTI"}
       /\ s.seqType = "ST_SINGLE" => Len(s.tracks) = 1
  BY <1>1, <1>2, <1>4
<1>11. Playable(s) <=>
         /\ s.tracks \in Seq(Seq(Event)) /\ arTracks[1] # << >>
         /\ \A t \in 1..Len(arTracks) :
              arTracks[t] # << >> => arTracks[t][Len(arTracks[t])].type = "T_META_EOT"
  <2>1. (\A t \in 1..Len(s.tracks) : \A n \in 1..Len(s.tracks[t]) :
           n = Len(s.tracks[t]) <=> s.tracks[t][n].type = "T_META_EOT")
        <=> \A t \in 1..Len(arTracks) :
              arTracks[t] # << >> => arTracks[t][Len(arTracks[t])].type = "T_META_EOT"
    BY <1>4, <1>8
  <2> QED BY <1>3, <1>4, <1>9, <1>10, <2>1 DEF Playable
<1>12. WellEnded <=>
         /\ arTracks[1] # << >>
         /\ \A t \in 1..Len(arTracks) :
              arTracks[t] # << >> => arTracks[t][Len(arTracks[t])].type = "T_META_EOT"
         /\ \A t \in 1..Len(arTracks) : \A n \in 1..Len(arTracks[t]) : s.tracks[t][n] \in Event
  <2>1. \A t \in 1..Len(arTracks) : DOMAIN arTracks[t] = 1..Len(arTracks[t])
    BY <1>5
  <2>2. \A t \in 1..Len(arTracks) : \A n \in 1..Len(arTracks[t]) :
          s.tracks[t][n] \in Event <=>
            (arTracks[t][n].type = "T_META_SET_TEMPO" => TempoVal(arTracks[t][n].data) # 0)
    BY <1>6, Zenon
  <2>3. DOMAIN arTracks = 1..Len(arTracks)
    BY <1>4
  <2> QED BY <2>1, <2>2, <2>3, Zenon DEF WellEnded
<1> QED BY <1>7, <1>11, <1>12 DEF s

\* Whatever is in the files: of a file that is not of format 2 the load makes a song as
\* the player asks for it exactly if there is something to play, what is not empty has
\* its end of track, and no tempo is 0.
THEOREM LoadsSongs ==
  Session => [](load = "ok" /\ file.type # "T_MIDI2" => (Playable(LoadedSong) <=> WellEnded))
<1>1. LoadInv /\ EndInv /\ FormatInv
        => (load = "ok" /\ file.type # "T_MIDI2" => (Playable(LoadedSong) <=> WellEnded))
  BY SongOfLists
<1> QED BY <1>1, ListsInvariant, PTL

-----------------------------------------------------------------------------
(* The parser of a file that is laid out.  Each event is read where it     *)
(* stands and as what it means, so that the parser goes from event to      *)
(* event and from track to track.                                          *)

\* A quantity below 128 takes one byte.
LEMMA ShortQuantity ==
  ASSUME NEW s \in Seq(Byte), NEW p \in 1..Len(s), s[p] < 128
  PROVE  VLQSize(s, p) = 1 /\ readVLQ(s, p) = s[p]
<1> DEFINE last == IF p + 3 <= Len(s) THEN p + 3 ELSE Len(s)
           window == SubSeq(s, p, last)
           I == {i \in 1..Len(window) : window[i] < 128}
<1>1. last \in Nat /\ p <= last /\ last <= Len(s) /\ p \in Nat
  OBVIOUS
<1>2. Len(window) = last - p + 1 /\ window[1] = s[p]
  BY <1>1
<1>3. 1 \in I /\ I \in SUBSET Nat /\ \A i \in I : i >= 1
  <2>1. Len(window) \in Nat /\ 1 \in 1..Len(window) /\ window[1] < 128
    BY <1>1, <1>2
  <2> HIDE DEF window
  <2> QED BY <2>1
<1>4. VLQSize(s, p) = IF I # {} THEN Min(I) ELSE 0
  BY DEF VLQSize, SelectInSeq
<1> HIDE DEF I
<1>5. Min(I) \in I /\ Min(I) <= 1
  BY <1>3, FirstPlace
<1>6. VLQSize(s, p) = 1
  <2>1. Min(I) \in Nat /\ Min(I) >= 1
    BY <1>3, <1>5
  <2>2. Min(I) = 1
    BY <1>5, <2>1
  <2>3. I # {}
    BY <1>3
  <2> QED BY <1>4, <2>2, <2>3
<1>7. s[p] \in 0..127
  <2>1. s[p] \in 0..255
    BY BytesAreNumbers
  <2>2. \A b \in 0..255 : b < 128 => b \in 0..127
    OBVIOUS
  <2> QED BY <2>1, <2>2, Zenon
<1>8. readVLQ(s, p) = s[p]
  <2> DEFINE digit(k) == IF k < 1 THEN s[p + 1 - 1 - k] % 128 ELSE 0
  <2>1. readVLQ(s, p) = digit(0) + 128 * (digit(1) + 128 * (digit(2) + 128 * digit(3)))
    BY <1>6 DEF readVLQ
  <2>2. digit(0) = s[p] % 128 /\ digit(1) = 0 /\ digit(2) = 0 /\ digit(3) = 0
    <3>1. p + 1 - 1 - 0 = p
      BY <1>1
    <3>2. digit(0) = s[p + 1 - 1 - 0] % 128
      OBVIOUS
    <3> QED BY <3>1, <3>2
  <2> HIDE DEF digit
  <2>3. s[p] % 128 = s[p]
    <3>1. \A b \in 0..127 : b % 128 = b
      OBVIOUS
    <3> QED BY <1>7, <3>1, Zenon
  <2>4. s[p] \in Nat
    <3>1. \A b \in 0..127 : b \in Nat
      OBVIOUS
    <3> QED BY <1>7, <3>1, Zenon
  <2> QED BY <2>1, <2>2, <2>3, <2>4
<1> QED BY <1>6, <1>8

LEMMA KindsOfMessages == \A b \in 128..239 : KindOf(b) \in ChannelKinds /\ High(b) = KindOf(b)
  BY DEF KindOf, High, ChannelKinds

LEMMA LengthsOfMessages ==
  ASSUME usSwitch \in ChannelKinds
  PROVE  Parameters = MessageLength(usSwitch) /\ usSwitch \in 128..239
  BY DEF ChannelKinds, Parameters, MessageLength

\* Each handler is that of one command.
LEMMA Handlers ==
  ASSUME ReadsEvent
  PROVE  /\ \A kind \in ChannelKinds : usSwitch = kind => ChannelEvent(kind, MessageType(kind))
         /\ usSwitch \in 241..246 => Forgets
         /\ usSwitch = 255 /\ MetaType = 47 => EndOfTrack
         /\ usSwitch = 255 /\ MetaType = 81 => SetTempo
         /\ usSwitch = 255 /\ MetaType = 88 => TimeSignature
         /\ usSwitch = 255 /\ MetaType = 6 => Marker
         /\ usSwitch = 255 /\ MetaType = 7 => CuePoint
         /\ usSwitch = 255 /\ MetaType \notin Named \cup Timed => Forgets
<1>1. /\ MessageType(128) = "T_NOTEOFF" /\ MessageType(144) = "T_NOTEON"
      /\ MessageType(160) = "T_NOTEAFT" /\ MessageType(176) = "T_CONTROL"
      /\ MessageType(192) = "T_PRG_CH" /\ MessageType(208) = "T_CHAN_AFT"
      /\ MessageType(224) = "T_PITCH_BEND"
  BY DEF MessageType
<1> DEFINE OfChannel(kind) == ChannelEvent(kind, MessageType(kind)) /\ usSwitch = kind
<1>2. \/ \E kind \in ChannelKinds : OfChannel(kind)
      \/ SysexMsg \/ Marker \/ CuePoint \/ EndOfTrack \/ SetTempo \/ TimeSignature
      \/ OtherMeta \/ SystemCommon \/ UnknownEvent
  <2>1. NoteOff \/ NoteOn \/ NoteAft \/ Controller \/ ProgramChange \/ ChannelAft \/ PitchBend
          => \E kind \in ChannelKinds : ChannelEvent(kind, MessageType(kind))
    <3> DEFINE Is(kind) == ChannelEvent(kind, MessageType(kind))
    <3>1. NoteOff => Is(128)
      BY <1>1 DEF NoteOff
    <3>2. NoteOn => Is(144)
      BY <1>1 DEF NoteOn
    <3>3. NoteAft => Is(160)
      BY <1>1 DEF NoteAft
    <3>4. Controller => Is(176)
      BY <1>1 DEF Controller
    <3>5. ProgramChange => Is(192)
      BY <1>1 DEF ProgramChange
    <3>6. ChannelAft => Is(208)
      BY <1>1 DEF ChannelAft
    <3>7. PitchBend => Is(224)
      BY <1>1 DEF PitchBend
    <3>8. /\ 128 \in ChannelKinds /\ 144 \in ChannelKinds /\ 160 \in ChannelKinds
          /\ 176 \in ChannelKinds /\ 192 \in ChannelKinds /\ 208 \in ChannelKinds
          /\ 224 \in ChannelKinds
      BY DEF ChannelKinds
    <3> HIDE DEF Is
    <3>9. NoteOff \/ NoteOn \/ NoteAft \/ Controller \/ ProgramChange \/ ChannelAft \/ PitchBend
            => \E kind \in ChannelKinds : Is(kind)
      BY <3>1, <3>2, <3>3, <3>4, <3>5, <3>6, <3>7, <3>8
    <3> QED BY <3>9 DEF Is
  <2>2. \A kind, type : ChannelEvent(kind, type) => usSwitch = kind
    BY Zenon DEF ChannelEvent
  <2> QED BY <2>1, <2>2, Zenon DEF ReadsEvent
<1>3. /\ SysexMsg => usSwitch = 240
      /\ Marker => usSwitch = 255 /\ MetaType = 6
      /\ CuePoint => usSwitch = 255 /\ MetaType = 7
      /\ EndOfTrack => usSwitch = 255 /\ MetaType = 47
      /\ SetTempo => usSwitch = 255 /\ MetaType = 81
      /\ TimeSignature => usSwitch = 255 /\ MetaType = 88
      /\ OtherMeta => usSwitch = 255 /\ MetaType \notin Named \cup Timed /\ Forgets
      /\ SystemCommon => usSwitch \in 241..246 /\ Forgets
      /\ UnknownEvent => usSwitch \in (0..127) \cup (247..254)
  BY Zenon DEF SysexMsg, Marker, CuePoint, EndOfTrack, SetTempo, TimeSignature, OtherMeta,
     SystemCommon, UnknownEvent, TakesName, ReadsMeta
<1>4. \A kind \in ChannelKinds : OfChannel(kind) => usSwitch \in 128..239
  BY DEF ChannelKinds
<1>5. Named \cup Timed = {6, 7, 47, 81, 88}
  BY DEF Named, Timed
<1> DEFINE m == MetaType
           k == usSwitch
<1>6. ASSUME NEW kind \in ChannelKinds, k = kind PROVE ChannelEvent(kind, MessageType(kind))
  <2>1. k \in 128..239
    BY <1>6 DEF ChannelKinds
  <2>2. ~(SysexMsg \/ Marker \/ CuePoint \/ EndOfTrack \/ SetTempo \/ TimeSignature
          \/ OtherMeta \/ SystemCommon \/ UnknownEvent)
    <3> HIDE DEF k, OfChannel
    <3>1. k # 240 /\ k # 255 /\ k \notin 241..246 /\ k \notin (0..127) \cup (247..254)
      BY <2>1
    <3> QED BY <1>3, <3>1, Zenon DEF k
  <2>3. PICK kk \in ChannelKinds : OfChannel(kk)
    BY <1>2, <2>2, Zenon
  <2>4. kk = kind
    BY <1>6, <2>3
  <2> QED BY <2>3, <2>4
<1>7. ASSUME k \in 241..246 PROVE Forgets
  <2>1. k # 240 /\ k # 255 /\ k \notin (0..127) \cup (247..254) /\ k \notin 128..239
    <3> HIDE DEF k
    <3> QED BY <1>7
  <2> QED BY <1>2, <1>3, <1>4, <2>1, Zenon
<1>8. ASSUME k = 255
      PROVE  /\ m = 47 => EndOfTrack
             /\ m = 81 => SetTempo
             /\ m = 88 => TimeSignature
             /\ m = 6 => Marker
             /\ m = 7 => CuePoint
             /\ m \notin Named \cup Timed => Forgets
  <2>1. k # 240 /\ k \notin 241..246 /\ k \notin (0..127) \cup (247..254) /\ k \notin 128..239
    <3> HIDE DEF k
    <3> QED BY <1>8
  <2> HIDE DEF OfChannel, k, m
  <2>2. OtherMeta => Forgets /\ m \notin {6, 7, 47, 81, 88}
    BY <1>3, <1>5, Zenon DEF m
  <2>3. /\ ~(\E kind \in ChannelKinds : OfChannel(kind)) /\ ~SysexMsg /\ ~SystemCommon
        /\ ~UnknownEvent
    <3>1. usSwitch # 240 /\ usSwitch \notin 241..246 /\ usSwitch \notin (0..127) \cup (247..254)
          /\ usSwitch \notin 128..239
      BY <2>1 DEF k
    <3>2. ~SysexMsg /\ ~SystemCommon /\ ~UnknownEvent
      BY <1>3, <3>1, Zenon
    <3> QED BY <1>4, <3>1, <3>2, Zenon
  <2>4. Marker \/ CuePoint \/ EndOfTrack \/ SetTempo \/ TimeSignature \/ OtherMeta
    BY <1>2, <2>3, Zenon
  <2>5. (Marker => m = 6) /\ (CuePoint => m = 7) /\ (EndOfTrack => m = 47)
        /\ (SetTempo => m = 81) /\ (TimeSignature => m = 88)
    BY <1>3 DEF m
  <2>6. ASSUME m = 47 PROVE EndOfTrack
    <3>1. m # 6 /\ m # 7 /\ m # 81 /\ m # 88 /\ m \in {6, 7, 47, 81, 88}
      BY <2>6
    <3> QED BY <2>2, <2>4, <2>5, <3>1, Zenon
  <2>7. ASSUME m = 81 PROVE SetTempo
    <3>1. m # 6 /\ m # 7 /\ m # 47 /\ m # 88 /\ m \in {6, 7, 47, 81, 88}
      BY <2>7
    <3> QED BY <2>2, <2>4, <2>5, <3>1, Zenon
  <2>8. ASSUME m = 88 PROVE TimeSignature
    <3>1. m # 6 /\ m # 7 /\ m # 47 /\ m # 81 /\ m \in {6, 7, 47, 81, 88}
      BY <2>8
    <3> QED BY <2>2, <2>4, <2>5, <3>1, Zenon
  <2>9. ASSUME m = 6 PROVE Marker
    <3>1. m # 7 /\ m # 47 /\ m # 81 /\ m # 88 /\ m \in {6, 7, 47, 81, 88}
      BY <2>9
    <3> QED BY <2>2, <2>4, <2>5, <3>1, Zenon
  <2>10. ASSUME m = 7 PROVE CuePoint
    <3>1. m # 6 /\ m # 47 /\ m # 81 /\ m # 88 /\ m \in {6, 7, 47, 81, 88}
      BY <2>10
    <3> QED BY <2>2, <2>4, <2>5, <3>1, Zenon
  <2>11. ASSUME m \notin Named \cup Timed PROVE Forgets
    <3>1. m # 6 /\ m # 7 /\ m # 47 /\ m # 81 /\ m # 88
      BY <1>5, <2>11
    <3> QED BY <2>2, <2>4, <2>5, <3>1, Zenon
  <2> QED BY <2>6, <2>7, <2>8, <2>9, <2>10, <2>11
<1> QED BY <1>6, <1>7, <1>8

\* Whether the parser knows the status an event may leave out.
Remembers(running) == IF running = 0 THEN ~recallStatus
                                     ELSE recallStatus /\ g_runningStatus = running

\* An event is read as what it means.  What takes no more than the smallest events and
\* the end of a track cannot fail without a word.
Took(x) ==
  /\ pCmd' = x.behind /\ bEOF' = (bEOF \/ EndsTrack(x))
  /\ Remembers(IF x.status < 240 THEN x.status ELSE 0)'
  /\ UNCHANGED <<file, pool, midi, musVars, endAddr, trackNb>>
  /\ \/ x.means = << >> /\ UNCHANGED <<load, listVars>>
     \/ \E e, reported : /\ x.means = <<e>> /\ AddEvent(e, reported) /\ Size(e) \in Nat
                         /\ reported \/ Size(e) = NODE + 4
                         /\ EndsTrack(x) => reported /\ Size(e) = NODE + 4

LEMMA TakesSize ==
  /\ \A e : e.type \in ChannelTypes \cup OtherTypes => Size(e) \in Nat
  /\ \A e : e.type \in {"T_META_EOT", "T_META_MARKER", "T_META_CUEPOINT"} => Size(e) = NODE + 4
<1>1. \A type \in ChannelTypes \cup OtherTypes : NODE + DataSize[type] \in Nat
  BY DEF ChannelTypes, OtherTypes, NODE, DataSize
<1>2. \A type \in {"T_META_EOT", "T_META_MARKER", "T_META_CUEPOINT"} :
        NODE + DataSize[type] = NODE + 4
  BY DEF DataSize
<1> QED BY <1>1, <1>2, Zenon DEF Size

LEMMA TypesOfMessages == \A kind \in ChannelKinds : MessageType(kind) \in ChannelTypes
<1> TAKE kind \in ChannelKinds
<1>1. kind \in {128, 144, 160, 176, 192, 208, 224}
  BY DEF ChannelKinds
<1>2. MessageType(kind) \in {"T_NOTEOFF", "T_NOTEON", "T_NOTEAFT", "T_CONTROL", "T_PRG_CH",
                             "T_CHAN_AFT", "T_PITCH_BEND"}
  BY <1>1 DEF MessageType
<1> QED BY <1>2 DEF ChannelTypes

LEMMA MessageTaken ==
  ASSUME LoadInv, ReadsEvent, NEW x, NEW running, NEW first, pCmd = x.at, x.cmd = Command,
         MessageLaid(midi, x, running, first), Remembers(running)
  PROVE  Took(x)
<1> DEFINE kind == KindOf(x.status)
<1>1. /\ x.status \in 128..239
      /\ (Status = x.status /\ first = Command + 1) \/ (Status < 128 /\ running = x.status /\ first = Command)
      /\ x.behind = first + MessageLength(kind)
      /\ x.means = <<[type |-> MessageType(kind), delta |-> readVLQ(midi, x.at),
                      data |-> <<x.status % 16>> \o SubSeq(midi, first, x.behind - 1)]>>
  BY DEF MessageLaid, Says, Status
<1>2. midi \in Seq(Byte) /\ pCmd \in Nat \ {0} /\ g_runningStatus \in Byte /\ WithinFile
      /\ load = "events"
  BY DEF LoadInv, ParserTyped, ReadsEvent
<1>3. Command \in 1..Len(midi) /\ Len(midi) \in Nat
      /\ (usSwitch \in 128..239 => EventEnd = DataAt + Parameters)
  BY <1>2, Reading
<1>4. kind \in ChannelKinds /\ High(x.status) = kind
  BY <1>1, KindsOfMessages
<1> HIDE DEF kind
<1>5. /\ usSwitch = kind /\ DataAt = first
      /\ (IF Recalled THEN g_runningStatus ELSE Status) = x.status
  <2>1. CASE Status = x.status /\ first = Command + 1
    <3>1. \A b \in 128..239 : ~(b < 128) /\ ~(b >= 240)
      OBVIOUS
    <3>2. ~Recalled /\ ~(Status >= 240)
      BY <1>1, <2>1, <3>1, Zenon DEF Recalled
    <3> QED BY <1>4, <2>1, <3>2, Zenon DEF usSwitch, DataAt
  <2>2. CASE Status < 128 /\ running = x.status /\ first = Command
    <3>1. running # 0
      <4>1. \A b \in 128..239 : b # 0
        OBVIOUS
      <4> QED BY <1>1, <2>2, <4>1, Zenon
    <3>2. recallStatus /\ g_runningStatus = x.status
      BY <2>2, <3>1 DEF Remembers
    <3>3. Recalled
      BY <2>2, <3>2 DEF Recalled
    <3> QED BY <1>4, <2>2, <3>2, <3>3, Zenon DEF usSwitch, DataAt
  <2> QED BY <1>1, <2>1, <2>2
<1>6. EventEnd = x.behind /\ Parameters = MessageLength(kind) /\ Parameters \in 0..2
  BY <1>1, <1>2, <1>3, <1>4, <1>5, LengthsOfMessages, Reading
<1>7. ChannelEvent(kind, MessageType(kind))
  BY <1>4, <1>5, Handlers
<1> DEFINE e == [type |-> MessageType(kind), delta |-> Delta,
                 data |-> <<x.status % 16>> \o Bytes(DataAt, Parameters)]
<1>8. /\ g_runningStatus' = x.status /\ recallStatus' = TRUE /\ AddEvent(e, TRUE)
      /\ pCmd' = x.behind
      /\ UNCHANGED <<file, pool, midi, musVars, endAddr, trackNb, bEOF>>
  <2>1. /\ g_runningStatus' = (IF Recalled THEN g_runningStatus ELSE Status)
        /\ recallStatus' = TRUE /\ pCmd' = EventEnd
        /\ AddEvent([type |-> MessageType(kind), delta |-> Delta,
                     data |-> <<g_runningStatus' % 16>> \o Bytes(DataAt, Parameters)], TRUE)
        /\ UNCHANGED <<file, pool, midi, musVars, endAddr, trackNb, bEOF>>
    BY <1>7, Zenon DEF ChannelEvent
  <2> QED BY <1>5, <1>6, <2>1
<1>9. x.means = <<e>>
  <2>1. Delta = readVLQ(midi, x.at)
    BY DEF Delta
  <2>2. Bytes(DataAt, Parameters) = SubSeq(midi, first, x.behind - 1)
    <3>1. first \in Int /\ x.behind = first + Parameters
      BY <1>1, <1>3, <1>6
    <3>2. \A a \in Int, n \in 0..2 : (a + n) - 1 = a + n - 1
      OBVIOUS
    <3> QED BY <1>5, <1>6, <3>1, <3>2, Zenon DEF Bytes
  <2> QED BY <1>1, <2>1, <2>2, Zenon DEF e
<1>10. Size(e) \in Nat
  <2>1. e.type \in ChannelTypes
    BY <1>4, TypesOfMessages
  <2> QED BY <2>1, TakesSize
<1> HIDE DEF e
<1>11. ~EndsTrack(x) /\ x.status < 240 /\ x.status # 0
  <2>1. \A b \in 128..239 : b # 255 /\ b < 240 /\ b # 0
    OBVIOUS
  <2> QED BY <1>1, <2>1, Zenon DEF EndsTrack
<1>12. Remembers(IF x.status < 240 THEN x.status ELSE 0)'
  BY <1>8, <1>11 DEF Remembers
<1>13. bEOF' = (bEOF \/ EndsTrack(x))
  <2>1. bEOF \in BOOLEAN
    BY DEF LoadInv, ParserTyped
  <2> QED BY <1>8, <1>11, <2>1
<1> QED BY <1>8, <1>9, <1>10, <1>11, <1>12, <1>13 DEF Took

LEMMA CommonTaken ==
  ASSUME LoadInv, ReadsEvent, NEW x, pCmd = x.at, x.cmd = Command, CommonLaid(midi, x)
  PROVE  Took(x)
<1>1. /\ Status \in 241..246 /\ x.status = Status /\ x.means = << >>
      /\ x.behind = Command + 1 + (CASE x.status = 242 -> 2 [] x.status \in {241, 243} -> 1
                                     [] OTHER -> 0)
  BY DEF CommonLaid, Status
<1>2. usSwitch = Status
  <2>1. ~Recalled /\ Status >= 240
    BY <1>1 DEF Recalled
  <2> QED BY <2>1, Zenon DEF usSwitch
<1>3. Parameters = (CASE x.status = 242 -> 2 [] x.status \in {241, 243} -> 1 [] OTHER -> 0)
  BY <1>1, <1>2 DEF Parameters
<1>4. EventEnd = Command + 1 + Parameters
  <2> DEFINE k == usSwitch
  <2>1. k \in 241..246
    BY <1>1, <1>2, Zenon
  <2> HIDE DEF k
  <2>2. k \notin 128..239 /\ k # 240 /\ k # 255
    BY <2>1
  <2>3. usSwitch \in 241..246 /\ usSwitch \notin 128..239 /\ usSwitch # 240 /\ usSwitch # 255
    BY <2>1, <2>2 DEF k
  <2> QED BY <2>3, Zenon DEF EventEnd
<1>5. Forgets
  BY <1>1, <1>2, Handlers
<1>6. /\ pCmd' = x.behind /\ recallStatus' = FALSE
      /\ UNCHANGED <<file, pool, load, midi, musVars, endAddr, trackNb, bEOF, listVars>>
  BY <1>1, <1>3, <1>4, <1>5 DEF Forgets
<1>7. ~EndsTrack(x) /\ ~(x.status < 240)
  BY <1>1 DEF EndsTrack
<1>8. Remembers(IF x.status < 240 THEN x.status ELSE 0)'
  BY <1>6, <1>7 DEF Remembers
<1>9. bEOF' = (bEOF \/ EndsTrack(x))
  <2>1. bEOF \in BOOLEAN
    BY DEF LoadInv, ParserTyped
  <2> QED BY <1>6, <1>7, <2>1
<1> QED BY <1>1, <1>6, <1>8, <1>9 DEF Took

\* What a meta event says: which it is, and that its length is one byte.
LEMMA KindsOfMeta ==
  /\ \A meta \in Wanted :
       \/ meta[1] = 47 /\ meta[2] = "T_META_EOT" /\ meta[3] = {0}
       \/ meta[1] = 81 /\ meta[2] = "T_META_SET_TEMPO" /\ meta[3] = {3}
       \/ meta[1] = 88 /\ meta[2] = "T_META_SET_SIGNATURE" /\ meta[3] = {4}
       \/ meta[1] = 6 /\ meta[2] = "T_META_MARKER" /\ meta[3] = 0..127
       \/ meta[1] = 7 /\ meta[2] = "T_META_CUEPOINT" /\ meta[3] = 0..127
  /\ \A meta \in Unwanted :
       \/ meta[1] \in Texts \cup {0, 127} /\ meta[2] = 0..127
       \/ meta[1] \in {32, 33} /\ meta[2] = {1}
       \/ meta[1] = 84 /\ meta[2] = {5}
       \/ meta[1] = 89 /\ meta[2] = {2}
<1>1. \A meta \in Wanted :
       \/ meta[1] = 47 /\ meta[2] = "T_META_EOT" /\ meta[3] = {0}
       \/ meta[1] = 81 /\ meta[2] = "T_META_SET_TEMPO" /\ meta[3] = {3}
       \/ meta[1] = 88 /\ meta[2] = "T_META_SET_SIGNATURE" /\ meta[3] = {4}
       \/ meta[1] = 6 /\ meta[2] = "T_META_MARKER" /\ meta[3] = 0..127
       \/ meta[1] = 7 /\ meta[2] = "T_META_CUEPOINT" /\ meta[3] = 0..127
  <2>1. \A meta \in Wanted :
          \/ meta = <<47, "T_META_EOT", {0}>>
          \/ meta = <<81, "T_META_SET_TEMPO", {3}>>
          \/ meta = <<88, "T_META_SET_SIGNATURE", {4}>>
          \/ meta = <<6, "T_META_MARKER", 0..127>>
          \/ meta = <<7, "T_META_CUEPOINT", 0..127>>
    BY Zenon DEF Wanted
  <2> TAKE meta \in Wanted
  <2>2. CASE meta = <<47, "T_META_EOT", {0}>>
    BY <2>2
  <2>3. CASE meta = <<81, "T_META_SET_TEMPO", {3}>>
    BY <2>3
  <2>4. CASE meta = <<88, "T_META_SET_SIGNATURE", {4}>>
    BY <2>4
  <2>5. CASE meta = <<6, "T_META_MARKER", 0..127>>
    BY <2>5
  <2>6. CASE meta = <<7, "T_META_CUEPOINT", 0..127>>
    BY <2>6
  <2> QED BY <2>1, <2>2, <2>3, <2>4, <2>5, <2>6
<1>2. \A n \in (0..5) \cup {8, 9, 127} : n \in Texts \cup {0, 127}
  BY DEF Texts
<1>3. \A meta \in Unwanted :
       \/ meta[1] \in (0..5) \cup {8, 9, 127} /\ meta[2] = 0..127
       \/ meta[1] \in {32, 33} /\ meta[2] = {1}
       \/ meta[1] = 84 /\ meta[2] = {5}
       \/ meta[1] = 89 /\ meta[2] = {2}
  BY DEF Unwanted
<1> QED BY <1>1, <1>2, <1>3, Zenon

LEMMA MetaRead ==
  ASSUME LoadInv, ReadsEvent, NEW x, pCmd = x.at, x.cmd = Command, MetaLaid(midi, x)
  PROVE  /\ usSwitch = 255 /\ MetaLength = midi[Command + 2] /\ EventEnd = x.behind
         /\ x.behind = Command + 3 + MetaLength /\ MetaLength \in 0..127
         /\ Command \in 1..Len(midi) /\ Command + 2 <= Len(midi) /\ Len(midi) \in Nat
<1> DEFINE n == midi[Command + 2]
<1>1. Status = 255 /\ x.behind = Command + 3 + n
  BY Zenon DEF MetaLaid, Status
<1>2. usSwitch = 255
  <2>1. ~Recalled /\ Status >= 240
    BY <1>1 DEF Recalled
  <2> QED BY <1>1, <2>1, Zenon DEF usSwitch
<1>3. midi \in Seq(Byte) /\ pCmd \in Nat \ {0} /\ g_runningStatus \in Byte /\ WithinFile
  BY DEF LoadInv, ParserTyped, ReadsEvent
<1>4. /\ Command \in 1..Len(midi) /\ Command + 2 <= Len(midi) /\ EventEnd = MetaEnd
      /\ Len(midi) \in Nat
  BY <1>2, <1>3, Reading
<1>5. \/ MetaType \in {6, 7, 47, 81, 84, 88} \cup Texts \cup {0, 127} /\ n \in 0..127
      \/ MetaType \in {32, 33} /\ n = 1
      \/ MetaType = 89 /\ n = 2
  <2>1. \/ \E meta \in Wanted : MetaType = meta[1] /\ n \in meta[3]
        \/ \E meta \in Unwanted : MetaType = meta[1] /\ n \in meta[2]
    BY Zenon DEF MetaLaid, MetaType
  <2>2. CASE \E meta \in Wanted : MetaType = meta[1] /\ n \in meta[3]
    <3>1. PICK meta \in Wanted : MetaType = meta[1] /\ n \in meta[3]
      BY <2>2
    <3>2. MetaType \in {6, 7, 47, 81, 88} /\ n \in 0..127
      BY <3>1, KindsOfMeta
    <3> QED BY <3>2
  <2>3. CASE \E meta \in Unwanted : MetaType = meta[1] /\ n \in meta[2]
    <3>1. PICK meta \in Unwanted : MetaType = meta[1] /\ n \in meta[2]
      BY <2>3
    <3> QED BY <3>1, KindsOfMeta
  <2> QED BY <2>1, <2>2, <2>3
<1> DEFINE m == MetaType
<1>6. m \in Texts \cup {6, 7, 47, 81, 84, 88, 0, 127, 32, 33, 89} /\ n \in 0..127
  BY <1>5
<1>7. MetaLength = n
  <2>1. CASE m \in Texts \cup Named
    <3>1. readVLQ(midi, Command + 2) = n
      <4>1. Command + 2 \in 1..Len(midi)
        BY <1>4
      <4>2. \A v \in 0..127 : v < 128
        OBVIOUS
      <4>3. n < 128
        BY <1>6, <4>2, Zenon
      <4> QED BY <1>3, <4>1, <4>3, ShortQuantity
    <3>2. \A v \in 0..127 : v % 256 = v
      OBVIOUS
    <3> QED BY <1>6, <2>1, <3>1, <3>2, Zenon DEF MetaLength
  <2>2. CASE m \notin Texts \cup Named
    BY <2>2, Zenon DEF MetaLength
  <2> QED BY <2>1, <2>2
<1>8. MetaEnd = x.behind
  <2>1. CASE m \in {32, 33} /\ n = 1
    <3> HIDE DEF m
    <3>1. m \in {32, 33} /\ m # 89 /\ m \notin Texts \cup Named \cup Timed \cup Skipped
      BY <2>1 DEF Texts, Named, Timed, Skipped
    <3>2. MetaEnd = Command + 4
      BY <3>1, Zenon DEF MetaEnd, m
    <3> QED BY <1>1, <1>4, <2>1, <3>2
  <2>2. CASE m = 89 /\ n = 2
    <3> HIDE DEF m
    <3>1. m \notin {32, 33} /\ m = 89 /\ m \notin Texts \cup Named \cup Timed \cup Skipped
      BY <2>2 DEF Texts, Named, Timed, Skipped
    <3>2. MetaEnd = Command + 5
      BY <3>1, Zenon DEF MetaEnd, m
    <3> QED BY <1>1, <1>4, <2>2, <3>2
  <2>3. CASE m \in {6, 7, 47, 81, 84, 88} \cup Texts \cup {0, 127}
    <3> HIDE DEF m
    <3>1. m \notin {32, 33} /\ m # 89 /\ m \in Texts \cup Named \cup Timed \cup Skipped
      BY <2>3 DEF Texts, Named, Timed, Skipped
    <3>2. MetaEnd = Command + 3 + MetaLength
      BY <3>1, Zenon DEF MetaEnd, m
    <3> QED BY <1>1, <1>7, <3>2
  <2> QED BY <1>5, <2>1, <2>2, <2>3
<1> QED BY <1>1, <1>2, <1>4, <1>6, <1>7, <1>8

\* A meta event that is put into the list.
LEMMA OtherTaken ==
  ASSUME NEW x, NEW type \in OtherTypes, NEW data, NEW reported, bEOF \in BOOLEAN,
         OtherEvent(type, data, reported), EventEnd = x.behind, x.status = 255,
         x.means = <<[type |-> type, delta |-> Delta, data |-> data]>>,
         bEOF' = (bEOF \/ type = "T_META_EOT"),
         reported \/ type \in {"T_META_MARKER", "T_META_CUEPOINT"},
         type = "T_META_EOT" => reported
  PROVE  Took(x)
<1> DEFINE e == [type |-> type, delta |-> Delta, data |-> data]
<1>1. /\ AddEvent(e, reported) /\ pCmd' = x.behind /\ recallStatus' = FALSE
      /\ UNCHANGED <<file, pool, midi, musVars, endAddr, trackNb, g_runningStatus>>
  BY DEF OtherEvent
<1>2. EndsTrack(x) <=> type = "T_META_EOT"
  BY DEF EndsTrack
<1>3. Size(e) \in Nat /\ (type \in {"T_META_EOT", "T_META_MARKER", "T_META_CUEPOINT"}
                            => Size(e) = NODE + 4)
  <2>1. e.type = type
    OBVIOUS
  <2> HIDE DEF e
  <2>2. e.type \in ChannelTypes \cup OtherTypes
    BY <2>1
  <2> QED BY <2>1, <2>2, TakesSize
<1>4. Remembers(IF x.status < 240 THEN x.status ELSE 0)'
  BY <1>1 DEF Remembers
<1>5. x.means = <<e>>
  OBVIOUS
<1> HIDE DEF e
<1>6. /\ reported \/ Size(e) = NODE + 4
      /\ EndsTrack(x) => reported /\ Size(e) = NODE + 4
  BY <1>2, <1>3, Zenon
<1> QED BY <1>1, <1>2, <1>3, <1>4, <1>5, <1>6 DEF Took

LEMMA MetaTaken ==
  ASSUME LoadInv, ReadsEvent, NEW x, pCmd = x.at, x.cmd = Command, MetaLaid(midi, x)
  PROVE  Took(x)
<1>1. /\ usSwitch = 255 /\ MetaLength = midi[Command + 2] /\ EventEnd = x.behind
      /\ x.behind = Command + 3 + MetaLength /\ MetaLength \in 0..127
      /\ Command \in 1..Len(midi) /\ Command + 2 <= Len(midi) /\ Len(midi) \in Nat
  BY MetaRead
<1>2. bEOF \in BOOLEAN
  BY DEF LoadInv, ParserTyped
<1>3. x.status = 255 /\ Delta = readVLQ(midi, x.at)
  BY DEF MetaLaid, Delta
<1>4. SubSeq(midi, Command + 3, x.behind - 1) = Bytes(Command + 3, MetaLength)
  <2>1. x.behind - 1 = Command + 3 + MetaLength - 1
    BY <1>1
  <2> QED BY <2>1 DEF Bytes
<1>5. ASSUME NEW meta \in Wanted, MetaType = meta[1], MetaLength \in meta[3],
             x.means = <<[type |-> meta[2], delta |-> Delta,
                          data |-> Bytes(Command + 3, MetaLength)]>>
      PROVE  Took(x)
  <2>1. CASE meta[1] = 47 /\ meta[2] = "T_META_EOT" /\ meta[3] = {0}
    <3>1. OtherEvent("T_META_EOT", << >>, TRUE) /\ bEOF' = TRUE
      <4>1. EndOfTrack
        BY <1>1, <1>5, <2>1, Handlers
      <4> QED BY <4>1 DEF EndOfTrack
    <3>2. Bytes(Command + 3, MetaLength) = << >>
      <4>1. MetaLength = 0
        BY <1>5, <2>1
      <4> QED BY <1>1, <4>1 DEF Bytes
    <3>3. "T_META_EOT" \in OtherTypes
      BY DEF OtherTypes
    <3>4. /\ x.means = <<[type |-> "T_META_EOT", delta |-> Delta, data |-> << >>]>>
          /\ bEOF' = (bEOF \/ "T_META_EOT" = "T_META_EOT")
      BY <1>2, <1>5, <2>1, <3>1, <3>2
    <3> QED BY <1>1, <1>2, <1>3, <3>1, <3>3, <3>4, OtherTaken, Zenon
  <2>2. CASE meta[1] = 81 /\ meta[2] = "T_META_SET_TEMPO" /\ meta[3] = {3}
    <3> DEFINE data == [i \in 1..3 |-> IF i <= MetaLength THEN midi[Command + 2 + i] ELSE 0]
    <3>1. OtherEvent("T_META_SET_TEMPO", data, TRUE) /\ bEOF' = bEOF
      <4>1. SetTempo
        BY <1>1, <1>5, <2>2, Handlers
      <4> QED BY <4>1 DEF SetTempo
    <3>2. Bytes(Command + 3, MetaLength) = data
      <4>1. MetaLength = 3
        BY <1>5, <2>2
      <4>2. \A i \in 1..3 : Command + 3 + i - 1 = Command + 2 + i
        BY <1>1
      <4>3. Bytes(Command + 3, 3) = [i \in 1..3 |-> midi[Command + 2 + i]]
        BY <1>1 DEF Bytes
      <4> QED BY <4>1, <4>3
    <3>3. "T_META_SET_TEMPO" \in OtherTypes /\ "T_META_SET_TEMPO" # "T_META_EOT"
      BY DEF OtherTypes
    <3> HIDE DEF data
    <3>4. x.means = <<[type |-> "T_META_SET_TEMPO", delta |-> Delta, data |-> data]>>
      BY <1>5, <2>2, <3>2, Zenon
    <3>5. bEOF' = (bEOF \/ "T_META_SET_TEMPO" = "T_META_EOT")
      BY <1>2, <3>1
    <3> QED BY <1>1, <1>2, <1>3, <3>1, <3>3, <3>4, <3>5, OtherTaken, Zenon
  <2>3. CASE meta[1] = 88 /\ meta[2] = "T_META_SET_SIGNATURE" /\ meta[3] = {4}
    <3>1. OtherEvent("T_META_SET_SIGNATURE", Bytes(Command + 3, 4), TRUE) /\ bEOF' = bEOF
      <4>1. TimeSignature
        BY <1>1, <1>5, <2>3, Handlers
      <4> QED BY <4>1 DEF TimeSignature
    <3>2. MetaLength = 4
      BY <1>5, <2>3
    <3>3. "T_META_SET_SIGNATURE" \in OtherTypes /\ "T_META_SET_SIGNATURE" # "T_META_EOT"
      BY DEF OtherTypes
    <3>4. /\ x.means = <<[type |-> "T_META_SET_SIGNATURE", delta |-> Delta,
                          data |-> Bytes(Command + 3, 4)]>>
          /\ bEOF' = (bEOF \/ "T_META_SET_SIGNATURE" = "T_META_EOT")
      BY <1>2, <1>5, <2>3, <3>1, <3>2, <3>3
    <3> QED BY <1>1, <1>2, <1>3, <3>1, <3>3, <3>4, OtherTaken, Zenon
  <2>4. CASE meta[1] = 6 /\ meta[2] = "T_META_MARKER" /\ meta[3] = 0..127
    <3>1. OtherEvent("T_META_MARKER", Bytes(Command + 3, MetaLength), FALSE) /\ bEOF' = bEOF
      <4>1. Marker
        BY <1>1, <1>5, <2>4, Handlers
      <4> QED BY <4>1 DEF Marker, TakesName
    <3>2. "T_META_MARKER" \in OtherTypes /\ "T_META_MARKER" # "T_META_EOT"
      BY DEF OtherTypes
    <3>3. /\ x.means = <<[type |-> "T_META_MARKER", delta |-> Delta,
                          data |-> Bytes(Command + 3, MetaLength)]>>
          /\ bEOF' = (bEOF \/ "T_META_MARKER" = "T_META_EOT")
      BY <1>2, <1>5, <2>4, <3>1, <3>2
    <3> QED BY <1>1, <1>2, <1>3, <3>1, <3>2, <3>3, OtherTaken, Zenon
  <2>5. CASE meta[1] = 7 /\ meta[2] = "T_META_CUEPOINT" /\ meta[3] = 0..127
    <3>1. OtherEvent("T_META_CUEPOINT", Bytes(Command + 3, MetaLength), FALSE) /\ bEOF' = bEOF
      <4>1. CuePoint
        BY <1>1, <1>5, <2>5, Handlers
      <4> QED BY <4>1 DEF CuePoint, TakesName
    <3>2. "T_META_CUEPOINT" \in OtherTypes /\ "T_META_CUEPOINT" # "T_META_EOT"
      BY DEF OtherTypes
    <3>3. /\ x.means = <<[type |-> "T_META_CUEPOINT", delta |-> Delta,
                          data |-> Bytes(Command + 3, MetaLength)]>>
          /\ bEOF' = (bEOF \/ "T_META_CUEPOINT" = "T_META_EOT")
      BY <1>2, <1>5, <2>5, <3>1, <3>2
    <3> QED BY <1>1, <1>2, <1>3, <3>1, <3>2, <3>3, OtherTaken, Zenon
  <2> QED BY <2>1, <2>2, <2>3, <2>4, <2>5, KindsOfMeta
<1>6. ASSUME NEW meta \in Unwanted, MetaType = meta[1], x.means = << >>
      PROVE  Took(x)
  <2>1. MetaType \notin Named \cup Timed
    BY <1>6, KindsOfMeta DEF Texts, Named, Timed
  <2>2. Forgets
    BY <1>1, <2>1, Handlers
  <2>3. /\ pCmd' = x.behind /\ recallStatus' = FALSE /\ bEOF' = bEOF
        /\ UNCHANGED <<file, pool, load, midi, musVars, endAddr, trackNb, listVars>>
    BY <1>1, <2>2 DEF Forgets
  <2>4. ~EndsTrack(x)
    BY <1>6 DEF EndsTrack
  <2>5. Remembers(IF x.status < 240 THEN x.status ELSE 0)'
    BY <1>3, <2>3 DEF Remembers
  <2> QED BY <1>2, <1>6, <2>3, <2>4, <2>5 DEF Took
<1>7. \/ \E meta \in Wanted :
           /\ MetaType = meta[1] /\ MetaLength \in meta[3]
           /\ x.means = <<[type |-> meta[2], delta |-> Delta,
                           data |-> Bytes(Command + 3, MetaLength)]>>
      \/ \E meta \in Unwanted : MetaType = meta[1] /\ x.means = << >>
  <2>1. \/ \E meta \in Wanted :
             /\ midi[Command + 1] = meta[1] /\ midi[Command + 2] \in meta[3]
             /\ x.means = <<[type |-> meta[2], delta |-> readVLQ(midi, x.at),
                             data |-> SubSeq(midi, Command + 3, x.behind - 1)]>>
        \/ \E meta \in Unwanted : midi[Command + 1] = meta[1] /\ x.means = << >>
    BY Zenon DEF MetaLaid, Says
  <2>2. CASE \E meta \in Wanted :
             /\ midi[Command + 1] = meta[1] /\ midi[Command + 2] \in meta[3]
             /\ x.means = <<[type |-> meta[2], delta |-> readVLQ(midi, x.at),
                             data |-> SubSeq(midi, Command + 3, x.behind - 1)]>>
    <3>1. PICK meta \in Wanted :
             /\ midi[Command + 1] = meta[1] /\ midi[Command + 2] \in meta[3]
             /\ x.means = <<[type |-> meta[2], delta |-> readVLQ(midi, x.at),
                             data |-> SubSeq(midi, Command + 3, x.behind - 1)]>>
      BY <2>2
    <3>2. MetaType = meta[1] /\ MetaLength \in meta[3]
      BY <1>1, <3>1 DEF MetaType
    <3>3. x.means = <<[type |-> meta[2], delta |-> Delta,
                       data |-> Bytes(Command + 3, MetaLength)]>>
      BY <1>3, <1>4, <3>1
    <3> QED BY <3>2, <3>3
  <2>3. CASE \E meta \in Unwanted : midi[Command + 1] = meta[1] /\ x.means = << >>
    BY <2>3 DEF MetaType
  <2> QED BY <2>1, <2>2, <2>3
<1> QED BY <1>5, <1>6, <1>7, Zenon

LEMMA EventTaken ==
  ASSUME LoadInv, ReadsEvent, NEW x, NEW running, pCmd = x.at,
         EventLaid(midi, x, running), Remembers(running)
  PROVE  Took(x)
<1>1. x.cmd = Command
  BY Zenon DEF EventLaid, Command
<1>2. \/ \E first \in {x.cmd, x.cmd + 1} : MessageLaid(midi, x, running, first)
      \/ MetaLaid(midi, x) \/ CommonLaid(midi, x)
  BY Zenon DEF EventLaid
<1> QED BY <1>1, <1>2, MessageTaken, MetaTaken, CommonTaken

\* There is no room for an event whose failure goes unreported, nor for an end of track.
Short == offset + NODE + 4 > pool

\* The parser is in front of an event, and has put down what the events before it mean
\* or has run out of memory without a word.
AtEvent(events, i) ==
  /\ pCmd = events[i].at /\ Remembers(RunningAt(events, i)) /\ ~bEOF
  /\ arTracks[trackNb] = events[i].before \/ Short

TrackGoesOn(track) ==
  /\ endAddr = track.at + 8 + ReadInt(midi, track.at + 4)
  /\ \/ iRetVal = "AM_ERR"
     \/ bEOF /\ pCmd = Behind(track) /\ arTracks[trackNb] = Meaning(track)
     \/ \E i \in 1..Len(track.events) : AtEvent(track.events, i)

\* What an event that was taken leaves behind.
LEMMA TakenLeaves ==
  ASSUME LoadInv, load = "events", NEW x, Took(x),
         arTracks[trackNb] = x.before \/ Short
  PROVE  \/ load' = "lost"
         \/ /\ load' = "events" /\ Len(arTracks') = Len(arTracks)
            /\ \A t \in DOMAIN arTracks : t # trackNb => arTracks'[t] = arTracks[t]
            /\ \/ iRetVal' = "AM_ERR"
               \/ iRetVal' = iRetVal /\ arTracks'[trackNb] = x.before \o x.means
               \/ iRetVal' = iRetVal /\ Short' /\ ~EndsTrack(x)
<1>1. /\ arTracks \in Seq(Seq(LoadedEvent)) /\ trackNb \in 1..Len(arTracks)
      /\ Len(arTracks) \in Nat /\ DOMAIN arTracks = 1..Len(arTracks)
      /\ arTracks[trackNb] \in Seq(LoadedEvent) /\ offset \in Nat /\ pool \in Nat
      /\ iRetVal \in {"AM_OK", "AM_ERR"}
  BY DEF LoadInv, ListsInv, TrackInv
<1>2. pool' = pool /\ trackNb' = trackNb
  BY DEF Took
<1>3. CASE x.means = << >> /\ UNCHANGED <<load, listVars>>
  <2>1. load' = load /\ arTracks' = arTracks /\ offset' = offset /\ iRetVal' = iRetVal
    BY <1>3 DEF listVars
  <2>2. ~EndsTrack(x)
    BY <1>3 DEF EndsTrack
  <2>3. arTracks[trackNb] = x.before => x.before \o x.means = x.before
    BY <1>1, <1>3
  <2>4. Short => Short'
    BY <1>2, <2>1 DEF Short
  <2> QED BY <1>2, <2>1, <2>2, <2>3, <2>4
<1>4. ASSUME NEW e, NEW reported, x.means = <<e>>, AddEvent(e, reported), Size(e) \in Nat,
             reported \/ Size(e) = NODE + 4, EndsTrack(x) => reported /\ Size(e) = NODE + 4
      PROVE  \/ load' = "lost"
             \/ /\ load' = "events" /\ Len(arTracks') = Len(arTracks)
                /\ \A t \in DOMAIN arTracks : t # trackNb => arTracks'[t] = arTracks[t]
                /\ \/ iRetVal' = "AM_ERR"
                   \/ iRetVal' = iRetVal /\ arTracks'[trackNb] = x.before \o x.means
                   \/ iRetVal' = iRetVal /\ Short' /\ ~EndsTrack(x)
  <2>1. CASE trackNb \in dangling
    BY <1>4, <2>1 DEF AddEvent
  <2>2. CASE trackNb \notin dangling /\ offset + Size(e) <= pool
    <3>1. /\ load' = "events" /\ arTracks' = [arTracks EXCEPT ![trackNb] = Append(@, e)]
          /\ offset' = offset + Size(e) /\ iRetVal' = iRetVal
      BY <1>4, <2>2 DEF AddEvent
    <3>2. /\ Len(arTracks') = Len(arTracks) /\ arTracks'[trackNb] = Append(arTracks[trackNb], e)
          /\ \A t \in DOMAIN arTracks : t # trackNb => arTracks'[t] = arTracks[t]
      BY <1>1, <3>1
    <3>3. arTracks[trackNb] = x.before => Append(arTracks[trackNb], e) = x.before \o x.means
      BY <1>1, <1>4
    <3>4. Short => Short' /\ ~EndsTrack(x)
      <4>1. Short => Short'
        BY <1>1, <1>2, <1>4, <3>1 DEF Short, NODE
      <4>2. Size(e) = NODE + 4 => ~Short
        BY <1>1, <2>2 DEF Short, NODE
      <4> QED BY <1>4, <4>1, <4>2, Zenon
    <3> QED BY <3>1, <3>2, <3>3, <3>4
  <2>3. CASE trackNb \notin dangling /\ ~(offset + Size(e) <= pool)
    <3>1. /\ load' = "events" /\ arTracks' = arTracks
          /\ offset' = (IF offset + NODE <= pool THEN offset + NODE ELSE offset)
          /\ iRetVal' = IF reported THEN "AM_ERR" ELSE iRetVal
      BY <1>4, <2>3 DEF AddEvent
    <3>2. Size(e) = NODE + 4 => Short'
      BY <1>1, <1>2, <2>3, <3>1 DEF Short, NODE
    <3>3. ~reported => Size(e) = NODE + 4 /\ ~EndsTrack(x)
      BY <1>4, Zenon
    <3> QED BY <3>1, <3>2, <3>3
  <2> QED BY <2>1, <2>2, <2>3
<1> QED BY <1>3, <1>4 DEF Took

\* From an event the parser comes to the next one, or the track is at its end.
LEMMA EventPassed ==
  ASSUME LoadInv, ReadsEvent, NEW track, TrackLaid(midi, track), TrackGoesOn(track)
  PROVE  \/ load' = "lost"
         \/ /\ load' = "events" /\ TrackGoesOn(track)' /\ Len(arTracks') = Len(arTracks)
            /\ \A t \in DOMAIN arTracks : t # trackNb => arTracks'[t] = arTracks[t]
<1> DEFINE events == track.events
<1>1. load = "events" /\ iRetVal = "AM_OK" /\ ~bEOF /\ bEOF \in BOOLEAN
  BY DEF ReadsEvent, MoreEvents, LoadInv, ParserTyped
<1>2. PICK i \in 1..Len(events) : AtEvent(events, i)
  BY <1>1 DEF TrackGoesOn
<1>3. /\ EventLaid(midi, events[i], RunningAt(events, i))
      /\ i = Len(events) <=> EndsTrack(events[i])
      /\ Len(events) \in Nat
      /\ i < Len(events) => /\ events[i + 1].at = events[i].behind
                            /\ events[i + 1].before = events[i].before \o events[i].means
  <2>1. Len(events) \in Nat /\ (i < Len(events) => i \in 1..Len(events) - 1)
    BY DEF TrackLaid
  <2> QED BY <2>1 DEF TrackLaid
<1>4. Took(events[i])
  BY <1>2, <1>3, EventTaken DEF AtEvent
<1> DEFINE x == events[i]
<1>5. \/ load' = "lost"
      \/ /\ load' = "events" /\ Len(arTracks') = Len(arTracks)
         /\ \A t \in DOMAIN arTracks : t # trackNb => arTracks'[t] = arTracks[t]
         /\ \/ iRetVal' = "AM_ERR"
            \/ iRetVal' = iRetVal /\ arTracks'[trackNb] = x.before \o x.means
            \/ iRetVal' = iRetVal /\ Short' /\ ~EndsTrack(x)
  <2>1. arTracks[trackNb] = x.before \/ Short
    BY <1>2 DEF AtEvent
  <2> QED BY <1>1, <1>4, <2>1, TakenLeaves
<1>6. /\ pCmd' = x.behind /\ bEOF' = (bEOF \/ EndsTrack(x))
      /\ Remembers(IF x.status < 240 THEN x.status ELSE 0)'
      /\ midi' = midi /\ endAddr' = endAddr /\ trackNb' = trackNb
  BY <1>4 DEF Took
<1>7. (endAddr = track.at + 8 + ReadInt(midi, track.at + 4))'
  BY <1>6 DEF TrackGoesOn
<1>8. CASE EndsTrack(x)
  <2>1. i = Len(events) /\ bEOF'
    BY <1>3, <1>6, <1>8
  <2>2. pCmd' = Behind(track) /\ Meaning(track) = x.before \o x.means
    BY <1>6, <2>1 DEF Behind, Meaning
  <2>3. load' = "lost" \/ iRetVal' = "AM_ERR" \/ arTracks'[trackNb] = Meaning(track)
    BY <1>5, <1>8, <2>2
  <2> QED BY <1>5, <1>6, <1>7, <2>1, <2>2, <2>3 DEF TrackGoesOn
<1>9. CASE ~EndsTrack(x)
  <2>1. i < Len(events) /\ i + 1 \in 1..Len(events)
    BY <1>3, <1>9
  <2>2. pCmd' = events[i + 1].at /\ ~bEOF'
    BY <1>1, <1>3, <1>6, <1>9, <2>1
  <2>3. RunningAt(events, i + 1) = IF x.status < 240 THEN x.status ELSE 0
    BY <2>1 DEF RunningAt
  <2>4. Remembers(RunningAt(events, i + 1))'
    BY <1>6, <2>3 DEF Remembers
  <2>5. load' = "lost" \/ iRetVal' = "AM_ERR" \/ Short' \/ arTracks'[trackNb] = events[i + 1].before
    BY <1>3, <1>5, <2>1
  <2>6. ASSUME load' # "lost", iRetVal' # "AM_ERR" PROVE AtEvent(events, i + 1)'
    <3>1. Short' \/ arTracks'[trackNb'] = events[i + 1].before
      BY <1>6, <2>5, <2>6
    <3> QED BY <2>2, <2>4, <3>1, Zenon DEF AtEvent
  <2>7. load' = "lost" \/ TrackGoesOn(track)'
    BY <1>7, <2>1, <2>6 DEF TrackGoesOn
  <2> QED BY <1>5, <2>7
<1> QED BY <1>8, <1>9

-----------------------------------------------------------------------------
(* A file that is laid out: where the parser is in it.                     *)

LaidAs(L) == FileLaid(midi, L, Len(arTracks), file.tracks, file.deltas)

\* Where a track starts, or the place behind the last one.
Place(L, t) == IF t <= Len(L) THEN L[t].at ELSE Behind(L[Len(L)])

Done(count) == \A t \in 1..count : arTracks[t] = file.tracks[t]

Parsed(L) ==
  /\ load = "header" => /\ trackNb <= Len(L) + 1 /\ pCmd = Place(L, trackNb)
                        /\ Done(trackNb - 1) /\ iRetVal = "AM_OK"
  /\ load = "events" => trackNb <= Len(L) /\ Done(trackNb - 1) /\ TrackGoesOn(L[trackNb])
  /\ load = "ok" => arTracks = file.tracks

PartsAre(L) ==
  /\ Len(L) \in 1..Len(arTracks) /\ Len(arTracks) \in Nat /\ L[1].at = 1
  /\ \A t \in 1..Len(L) :
       /\ TrackLaid(midi, L[t]) /\ file.tracks[t] = Meaning(L[t])
       /\ \A i \in 1..Len(L[t].events) : L[t].events[i].at \in file.deltas
       /\ Place(L, t + 1) = Behind(L[t])
  /\ \A t \in Len(L) + 1..Len(arTracks) : file.tracks[t] = << >>
  /\ file.tracks = [t \in 1..Len(arTracks) |-> file.tracks[t]]

LEMMA PartsOfFile == ASSUME LoadInv, NEW L, LaidAs(L) PROVE PartsAre(L)
<1> DEFINE n == Len(arTracks)
<1>1. Len(L) \in 1..n /\ n \in Nat /\ L[1].at = 1
  BY DEF LaidAs, FileLaid, LoadInv, ListsInv
<1>2. file.tracks = [t \in 1..n |-> IF t <= Len(L) THEN Meaning(L[t]) ELSE << >>]
  BY DEF LaidAs, FileLaid
<1> HIDE DEF n
<1>3. \A t \in 1..Len(L) :
        /\ TrackLaid(midi, L[t]) /\ \A i \in 1..Len(L[t].events) : L[t].events[i].at \in file.deltas
  BY Zenon DEF LaidAs, FileLaid
<1>4. \A t \in 1..Len(L) - 1 : L[t + 1].at = Behind(L[t])
  BY Zenon DEF LaidAs, FileLaid
<1>5. \A t \in 1..Len(L) : Place(L, t + 1) = Behind(L[t])
  BY <1>1, <1>4 DEF Place
<1>6. \A t \in 1..n : file.tracks[t] = IF t <= Len(L) THEN Meaning(L[t]) ELSE << >>
  BY <1>2
<1>7. file.tracks = [t \in 1..n |-> file.tracks[t]]
  BY <1>2
<1>8. \A t \in 1..Len(L) : file.tracks[t] = Meaning(L[t])
  BY <1>1, <1>6
<1>9. \A t \in Len(L) + 1..n : file.tracks[t] = << >>
  BY <1>1, <1>6
<1> QED BY <1>1, <1>3, <1>5, <1>7, <1>8, <1>9 DEF n, PartsAre

LEMMA LaidTrackStarts ==
  ASSUME LoadInv, EndInv, TrackStarts, NEW L, LaidAs(L), Parsed(L)
  PROVE  Parsed(L)'
<1>0. PartsAre(L)
  BY PartsOfFile
<1>1. /\ load = "header" /\ HeaderInFile /\ SubSeq(midi, pCmd, pCmd + 3) = ID_MTRK
      /\ load' = "events" /\ pCmd' = pCmd + 8 /\ endAddr' = pCmd + 8 + ReadInt(midi, pCmd + 4)
      /\ recallStatus' = FALSE /\ bEOF' = FALSE /\ trackNb' = trackNb /\ midi' = midi
      /\ file' = file /\ arTracks' = arTracks
  BY DEF TrackStarts, listVars
<1>2. trackNb <= Len(L) + 1 /\ pCmd = Place(L, trackNb) /\ Done(trackNb - 1)
  BY <1>1 DEF Parsed
<1>3. /\ trackNb \in 1..Len(arTracks) /\ Len(arTracks) \in Nat /\ Len(L) \in 1..Len(arTracks)
  BY <1>1, <1>0 DEF PartsAre, LoadInv, TrackInv, ListsInv
<1>4. trackNb <= Len(L)
  <2>1. SUFFICES ASSUME trackNb = Len(L) + 1 PROVE FALSE
    BY <1>2, <1>3
  <2>2. pCmd = Behind(L[Len(L)]) /\ Len(L) < Len(arTracks)
    BY <1>2, <1>3, <2>1 DEF Place
  <2>3. pCmd + 7 <= Len(midi) => SubSeq(midi, pCmd, pCmd + 3) # ID_MTRK
    BY <2>2 DEF LaidAs, FileLaid
  <2> QED BY <1>1, <2>3 DEF HeaderInFile
<1> DEFINE track == L[trackNb]
<1>5. TrackLaid(midi, track) /\ pCmd = track.at
  <2>1. trackNb \in 1..Len(L)
    BY <1>3, <1>4
  <2>2. pCmd = track.at
    BY <1>2, <1>4 DEF Place
  <2> QED BY <1>0, <2>1, <2>2, Zenon DEF PartsAre
<1>6. /\ Len(track.events) \in Nat \ {0} /\ track.events[1].at = track.at + 8
      /\ track.events[1].before = << >>
  BY <1>5 DEF TrackLaid
<1>7. arTracks[trackNb] = << >>
  BY <1>1, <1>3 DEF EndInv, Blank
<1>8. AtEvent(track.events, 1)'
  <2>1. RunningAt(track.events, 1) = 0
    BY DEF RunningAt
  <2> QED BY <1>1, <1>5, <1>6, <1>7, <2>1 DEF AtEvent, Remembers
<1>9. TrackGoesOn(track)'
  BY <1>1, <1>5, <1>6, <1>8 DEF TrackGoesOn
<1>10. Done(trackNb - 1)'
  BY <1>1, <1>2 DEF Done
<1> QED BY <1>1, <1>4, <1>9, <1>10 DEF Parsed

LEMMA LaidNoTrack ==
  ASSUME LoadInv, EndInv, NoTrackIsThere, NEW L, LaidAs(L), Parsed(L)
  PROVE  Parsed(L)'
<1>0. PartsAre(L)
  BY PartsOfFile
<1>1. /\ load = "header" /\ SubSeq(midi, pCmd, pCmd + 3) # ID_MTRK /\ load' = "ok"
      /\ file' = file /\ arTracks' = arTracks
  BY DEF NoTrackIsThere, listVars
<1>2. trackNb <= Len(L) + 1 /\ pCmd = Place(L, trackNb) /\ Done(trackNb - 1)
  BY <1>1 DEF Parsed
<1>3. /\ trackNb \in 1..Len(arTracks) /\ Len(arTracks) \in Nat /\ Len(L) \in 1..Len(arTracks)
      /\ arTracks \in Seq(Seq(LoadedEvent))
  BY <1>1, <1>0 DEF PartsAre, LoadInv, TrackInv, ListsInv
<1>4. trackNb = Len(L) + 1
  <2>1. SUFFICES ASSUME trackNb <= Len(L) PROVE FALSE
    BY <1>2, <1>3
  <2>2. TrackLaid(midi, L[trackNb]) /\ pCmd = L[trackNb].at
    <3>1. trackNb \in 1..Len(L)
      BY <1>3, <2>1
    <3>2. pCmd = L[trackNb].at
      BY <1>2, <2>1 DEF Place
    <3> QED BY <1>0, <3>1, <3>2, Zenon DEF PartsAre
  <2> QED BY <1>1, <2>2 DEF TrackLaid
<1>5. \A t \in 1..Len(arTracks) : arTracks[t] = file.tracks[t]
  <2>1. \A t \in 1..Len(L) : arTracks[t] = file.tracks[t]
    BY <1>2, <1>3, <1>4 DEF Done
  <2>2. \A t \in Len(L) + 1..Len(arTracks) : arTracks[t] = << >> /\ file.tracks[t] = << >>
    BY <1>1, <1>3, <1>4, <1>0 DEF PartsAre, EndInv, Blank
  <2> QED BY <1>3, <2>1, <2>2
<1>6. arTracks = [t \in 1..Len(arTracks) |-> arTracks[t]]
  BY <1>3
<1>7. arTracks = file.tracks
  BY <1>5, <1>6, <1>0 DEF PartsAre
<1> QED BY <1>1, <1>7 DEF Parsed

LEMMA LaidTrackEnds ==
  ASSUME LoadInv, TrackEnds, NEW L, LaidAs(L), Parsed(L)
  PROVE  Parsed(L)'
<1>0. PartsAre(L)
  BY PartsOfFile
<1>1. /\ load = "events" /\ ~MoreEvents /\ file' = file /\ arTracks' = arTracks /\ pCmd' = pCmd
      /\ iRetVal' = iRetVal
      /\ IF iRetVal = "AM_OK" /\ trackNb < Len(arTracks)
         THEN load' = "header" /\ trackNb' = trackNb + 1
         ELSE load' = (IF iRetVal = "AM_OK" THEN "ok" ELSE "error") /\ UNCHANGED trackNb
  BY DEF TrackEnds, listVars
<1>2. trackNb <= Len(L) /\ Done(trackNb - 1) /\ TrackGoesOn(L[trackNb])
  BY <1>1 DEF Parsed
<1>3. /\ trackNb \in 1..Len(arTracks) /\ Len(arTracks) \in Nat /\ Len(L) \in 1..Len(arTracks)
      /\ arTracks \in Seq(Seq(LoadedEvent)) /\ bEOF \in BOOLEAN /\ iRetVal \in {"AM_OK", "AM_ERR"}
  BY <1>1, <1>0 DEF PartsAre, LoadInv, TrackInv, ListsInv, ParserTyped
<1>4. CASE iRetVal = "AM_ERR"
  BY <1>1, <1>4 DEF Parsed
<1>5. CASE iRetVal = "AM_OK"
  <2> DEFINE track == L[trackNb]
  <2>1. TrackLaid(midi, track) /\ file.tracks[trackNb] = Meaning(track)
        /\ Place(L, trackNb + 1) = Behind(track)
    <3>1. trackNb \in 1..Len(L)
      BY <1>2, <1>3
    <3> QED BY <1>0, <3>1, Zenon DEF PartsAre
  <2>2. pCmd = Behind(track) /\ arTracks[trackNb] = Meaning(track)
    <3>1. SUFFICES ASSUME NEW i \in 1..Len(track.events), AtEvent(track.events, i) PROVE FALSE
      BY <1>2, <1>5 DEF TrackGoesOn
    <3>2. pCmd = track.events[i].at /\ ~bEOF /\ endAddr = track.at + 8 + ReadInt(midi, track.at + 4)
      BY <1>2, <3>1 DEF AtEvent, TrackGoesOn
    <3>3. track.events[i].at # track.at + 8 + ReadInt(midi, track.at + 4)
      BY <2>1 DEF TrackLaid
    <3> QED BY <1>1, <1>5, <3>2, <3>3, Zenon DEF MoreEvents
  <2>3. Done(trackNb)
    <3>1. \A t \in 1..trackNb : t \in 1..trackNb - 1 \/ t = trackNb
      BY <1>3
    <3> QED BY <1>2, <2>1, <2>2, <3>1 DEF Done
  <2>4. CASE trackNb < Len(arTracks)
    <3>1. load' = "header" /\ trackNb' = trackNb + 1
      BY <1>1, <1>5, <2>4
    <3>2. Done(trackNb - 1)'
      <4>1. trackNb' - 1 = trackNb
        BY <1>3, <3>1
      <4> QED BY <1>1, <2>3, <4>1 DEF Done
    <3> QED BY <1>1, <1>2, <1>3, <1>5, <2>1, <2>2, <3>1, <3>2 DEF Parsed
  <2>5. CASE ~(trackNb < Len(arTracks))
    <3>1. load' = "ok" /\ trackNb = Len(arTracks)
      BY <1>1, <1>3, <1>5, <2>5
    <3>2. arTracks = [t \in 1..Len(arTracks) |-> arTracks[t]]
      BY <1>3
    <3>3. arTracks = file.tracks
      BY <2>3, <3>1, <3>2, <1>0 DEF PartsAre, Done
    <3> QED BY <1>1, <3>1, <3>3 DEF Parsed
  <2> QED BY <2>4, <2>5
<1> QED BY <1>3, <1>4, <1>5

LEMMA ReadingKeeps == ASSUME ReadsEvent PROVE UNCHANGED <<file, midi, trackNb>>
<1> DEFINE Still == UNCHANGED <<file, midi, trackNb>>
<1>1. \A kind, type : ChannelEvent(kind, type) => Still
  BY DEF ChannelEvent
<1>2. \A type, data, reported : OtherEvent(type, data, reported) => Still
  BY DEF OtherEvent
<1>3. Forgets => Still
  BY DEF Forgets
<1> HIDE DEF Still
<1>4. Still
  BY <1>1, <1>2, <1>3, Zenon
     DEF ReadsEvent, NoteOff, NoteOn, NoteAft, Controller, ProgramChange, ChannelAft,
         PitchBend, SysexMsg, Marker, CuePoint, TakesName, EndOfTrack, SetTempo,
         TimeSignature, OtherMeta, SystemCommon, UnknownEvent
<1> QED BY <1>4 DEF Still

LEMMA LaidEvent ==
  ASSUME LoadInv, ReadsEvent, NEW L, LaidAs(L), Parsed(L)
  PROVE  Parsed(L)'
<1>0. PartsAre(L)
  BY PartsOfFile
<1>1. load = "events"
  BY DEF ReadsEvent
<1>2. trackNb <= Len(L) /\ Done(trackNb - 1) /\ TrackGoesOn(L[trackNb])
  BY <1>1 DEF Parsed
<1>3. /\ trackNb \in 1..Len(arTracks) /\ Len(arTracks) \in Nat /\ Len(L) \in 1..Len(arTracks)
      /\ DOMAIN arTracks = 1..Len(arTracks)
  BY <1>1, <1>0 DEF PartsAre, LoadInv, TrackInv, ListsInv
<1>4. TrackLaid(midi, L[trackNb])
  <2>1. trackNb \in 1..Len(L)
    BY <1>2, <1>3
  <2> QED BY <1>0, <2>1, Zenon DEF PartsAre
<1>5. \/ load' = "lost"
      \/ /\ load' = "events" /\ TrackGoesOn(L[trackNb])' /\ UNCHANGED <<file, trackNb>>
         /\ \A t \in DOMAIN arTracks : t # trackNb => arTracks'[t] = arTracks[t]
  <2>1. UNCHANGED <<file, trackNb>>
    BY ReadingKeeps
  <2> QED BY <1>2, <1>4, <2>1, EventPassed
<1>6. CASE load' = "lost"
  BY <1>6 DEF Parsed
<1>7. CASE load' # "lost"
  <2>1. Done(trackNb - 1)'
    BY <1>2, <1>3, <1>5, <1>7 DEF Done
  <2> QED BY <1>2, <1>5, <1>7, <2>1 DEF Parsed
<1> QED BY <1>6, <1>7

MidiTypes == {"T_MIDI0", "T_MIDI1", "T_MIDI2"}
LayoutInv ==
  /\ load = "start" => midi = << >>
  /\ load \in {"start", "convert"} => pCmd = 1 /\ iRetVal = "AM_OK"
  /\ load \in {"header", "events", "ok"} =>
       /\ file.type \in MidiTypes => midi = file.bytes /\ Len(arTracks) = file.nTracks
       /\ \A L : LaidAs(L) => Parsed(L)

\* The tracks are about to be read.
LEMMA LayoutBegins ==
  ASSUME LoadInv, load' = "header", UNCHANGED <<file, pCmd, trackNb, iRetVal>>,
         pCmd = 1, trackNb = 1, iRetVal = "AM_OK", NEW n \in Nat \ {0}, Len(arTracks') = n,
         file.type \in MidiTypes => midi' = file.bytes /\ n = file.nTracks
  PROVE  LayoutInv'
<1>1. SUFFICES ASSUME NEW L, LaidAs(L)' PROVE Parsed(L)'
  BY DEF LayoutInv
<1>2. Len(L) \in 1..n /\ L[1].at = 1
  BY <1>1 DEF LaidAs, FileLaid
<1>3. trackNb' = 1 /\ pCmd' = Place(L, 1) /\ 1 <= Len(L) + 1 /\ iRetVal' = "AM_OK"
  BY <1>2 DEF Place
<1>4. Done(trackNb - 1)'
  <2>1. 1..trackNb' - 1 = {}
    BY <1>3
  <2> QED BY <2>1 DEF Done
<1> QED BY <1>3, <1>4 DEF Parsed

\* They are read on.
LEMMA LayoutGoesOn ==
  ASSUME LayoutInv, load \in {"header", "events"}, UNCHANGED <<file, midi>>,
         Len(arTracks') = Len(arTracks), load' \notin {"start", "convert"},
         \A L : LaidAs(L) /\ Parsed(L) => Parsed(L)'
  PROVE  LayoutInv'
<1>1. \A L : LaidAs(L)' => LaidAs(L)
  BY DEF LaidAs
<1> QED BY <1>1 DEF LayoutInv

LEMMA LayoutStep ==
  ASSUME LoadInv, EndInv, FormatInv, LayoutInv, [SessionNext]_sessionVars PROVE LayoutInv'
<1>1. file.nTracks \in Nat \ {0} /\ Len(arTracks) \in Nat
      /\ (load \in {"start", "convert"} => trackNb = 1)
  BY DEF LoadInv, FileTyped, ListsInv, TrackInv
<1>2. CASE MidiIsTaken
  <2>1. /\ load = "start" /\ load' = "header" /\ midi' = file.bytes
        /\ arTracks' = [t \in 1..file.nTracks |-> << >>]
        /\ UNCHANGED <<file, pCmd, trackNb, iRetVal>>
    BY <1>2 DEF MidiIsTaken, parserVars
  <2>2. Len(arTracks') = file.nTracks
    BY <1>1, <2>1
  <2> QED BY <1>1, <2>1, <2>2, LayoutBegins DEF LayoutInv
<1>3. CASE MusConverted
  <2>1. /\ load = "convert" /\ load' = "header" /\ arTracks' = << << >> >>
        /\ file.type = "T_MUS" /\ UNCHANGED <<file, pCmd, trackNb, iRetVal>>
    BY <1>3 DEF MusConverted, parserVars, FormatInv
  <2>2. Len(arTracks') = 1 /\ file.type \notin MidiTypes
    BY <2>1 DEF MidiTypes
  <2> QED BY <1>1, <2>1, <2>2, LayoutBegins DEF LayoutInv
<1>4. CASE XmidiIsRead
  <2>1. /\ load' \in {"ok", "lost"} /\ midi' = << >> /\ file.type = "T_XMIDI" /\ UNCHANGED file
        /\ Len(arTracks') = 1
    BY <1>4 DEF XmidiIsRead, LayoutInv
  <2>2. ASSUME NEW L, LaidAs(L)' PROVE FALSE
    <3>1. TrackLaid(midi', L[1]) /\ L[1].at = 1
      <4>1. Len(L) \in 1..1 /\ L[1].at = 1 /\ \A t \in 1..Len(L) : TrackLaid(midi', L[t])
        BY <2>1, <2>2, Zenon DEF LaidAs, FileLaid
      <4>2. 1 \in 1..Len(L)
        BY <4>1
      <4> QED BY <4>1, <4>2, Zenon
    <3>2. 1 + 7 <= Len(midi')
      BY <3>1 DEF TrackLaid
    <3> QED BY <2>1, <3>2
  <2> QED BY <2>1, <2>2 DEF LayoutInv, MidiTypes
<1>5. CASE MusIsTaken \/ MusEventConverted
  <2>1. load \in {"start", "convert"} /\ load' = "convert" /\ UNCHANGED <<pCmd, iRetVal>>
    BY <1>5 DEF MusIsTaken, MusEventConverted, parserVars, listVars
  <2> QED BY <2>1 DEF LayoutInv
<1>6. CASE TrackStarts
  <2>1. load = "header" /\ load' = "events" /\ UNCHANGED <<file, midi, arTracks>>
    BY <1>6 DEF TrackStarts, listVars
  <2> QED BY <1>6, <2>1, LaidTrackStarts, LayoutGoesOn
<1>7. CASE NoTrackIsThere
  <2>1. load = "header" /\ load' = "ok" /\ UNCHANGED <<file, midi, arTracks>>
    BY <1>7 DEF NoTrackIsThere, listVars
  <2> QED BY <1>7, <2>1, LaidNoTrack, LayoutGoesOn
<1>8. CASE TrackEnds
  <2>1. load = "events" /\ load' \in {"header", "ok", "error"} /\ UNCHANGED <<file, midi, arTracks>>
    BY <1>8 DEF TrackEnds, listVars
  <2> QED BY <1>8, <2>1, LaidTrackEnds, LayoutGoesOn
<1>9. CASE ReadsEvent
  <2>1. load = "events" /\ load' \in {"events", "lost"} /\ Len(arTracks') = Len(arTracks)
        /\ file' = file
    BY <1>9, EndEvent DEF ReadsEvent
  <2>2. midi' = midi
    BY <1>9, ReadingKeeps
  <2> QED BY <1>9, <2>1, <2>2, LaidEvent, LayoutGoesOn
<1>10. CASE load' \in {"error", "lost", "done"}
  BY <1>10 DEF LayoutInv
<1>11. CASE OutOfMemory \/ TypeIsRefused \/ MusEventUnsupported \/ MusRunsOff \/ RunsOffFile
            \/ HandOver
  <2>1. load' \in {"error", "lost", "done"}
    BY <1>11 DEF OutOfMemory, TypeIsRefused, MusEventUnsupported, MusRunsOff, RunsOffFile, HandOver
  <2> QED BY <1>10, <2>1
<1>12. CASE UNCHANGED loaderVars
  <2>1. UNCHANGED <<file, load, midi, pCmd, endAddr, trackNb, recallStatus, g_runningStatus, bEOF,
                    iRetVal, arTracks, offset, pool>>
    BY <1>12 DEF loaderVars, parserVars, listVars
  <2>2. \A L : LaidAs(L)' => LaidAs(L)
    BY <2>1 DEF LaidAs
  <2>3. \A L : Parsed(L) => Parsed(L)'
    BY <2>1 DEF Parsed, Done, TrackGoesOn, AtEvent, Remembers, Short
  <2> QED BY <2>1, <2>2, <2>3 DEF LayoutInv
<1> QED BY <1>2, <1>3, <1>4, <1>5, <1>6, <1>7, <1>8, <1>9, <1>11, <1>12
        DEF SessionNext, Loading, LoaderNext, Starts, Playing, sessionVars

LEMMA LayoutInvariant == Session => [](LoadInv /\ EndInv /\ FormatInv /\ LayoutInv)
<1>1. SessionInit => LayoutInv
  BY DEF SessionInit, LoaderInit, LayoutInv
<1>2. LoadInv /\ EndInv /\ FormatInv /\ LayoutInv /\ [SessionNext]_sessionVars => LayoutInv'
  BY LayoutStep
<1> QED BY <1>1, <1>2, ListsInvariant, PTL DEF Session

\* The file that is loaded is laid out, or what has been made of a score is.
LaidOutFile == \E L : WrittenAs(file, L) \/ LaidAs(L)

LEMMA LaidIsParsed ==
  ASSUME LayoutInv, load \in {"header", "events", "ok"}, LaidOutFile
  PROVE  \E L : LaidAs(L) /\ Parsed(L)
<1>1. \A L : WrittenAs(file, L) => LaidAs(L)
  BY DEF LayoutInv, WrittenAs, LaidAs, MidiTypes
<1> QED BY <1>1 DEF LaidOutFile, LayoutInv

\* Whatever a file says and in whatever way it leaves statuses out or its headers are
\* wrong about lengths: if it is laid out as the format has it, the parser takes for a
\* delta what is one.
THEOREM ReadsInStep == Session => [](LaidOutFile => InStep)
<1>1. ASSUME LoadInv, LayoutInv, LaidOutFile PROVE InStep
  <2>1. SUFFICES ASSUME load = "events", MoreEvents PROVE pCmd \in file.deltas
    BY DEF InStep
  <2>2. PICK L : LaidAs(L) /\ Parsed(L)
    BY <1>1, <2>1, LaidIsParsed
  <2>3. trackNb \in 1..Len(L) /\ TrackGoesOn(L[trackNb])
    <3>1. Len(L) \in 1..Len(arTracks) /\ Len(arTracks) \in Nat
      BY <1>1, <2>2, PartsOfFile DEF PartsAre
    <3> QED BY <1>1, <2>1, <2>2, <3>1 DEF Parsed, LoadInv, TrackInv
  <2>4. iRetVal = "AM_OK" /\ ~bEOF
    BY <2>1 DEF MoreEvents
  <2>5. PICK i \in 1..Len(L[trackNb].events) : AtEvent(L[trackNb].events, i)
    BY <2>3, <2>4 DEF TrackGoesOn
  <2>6. L[trackNb].events[i].at \in file.deltas
    <3>1. PartsAre(L)
      BY <1>1, <2>2, PartsOfFile
    <3> QED BY <2>3, <2>5, <3>1, Zenon DEF PartsAre
  <2> QED BY <2>5, <2>6 DEF AtEvent
<1>2. LoadInv /\ LayoutInv => (LaidOutFile => InStep)
  BY <1>1
<1> QED BY <1>2, LayoutInvariant, PTL

\* And a load that reports success has made of it the lists that it means, wherever
\* memory runs out.
THEOREM ReadsWhole == Session => [](LaidOutFile => LoadedWhole)
<1>1. LayoutInv => (LaidOutFile => LoadedWhole)
  <2> SUFFICES ASSUME LayoutInv, LaidOutFile, load = "ok" PROVE arTracks = file.tracks
    BY DEF LoadedWhole
  <2>1. \E L : LaidAs(L) /\ Parsed(L)
    BY LaidIsParsed
  <2> QED BY <2>1 DEF Parsed
<1> QED BY <1>1, LayoutInvariant, PTL

-----------------------------------------------------------------------------
(* From the file to what is heard: if the files that are to be played are  *)
(* laid out and mean songs, the lists handed over are those songs.         *)

FilesAreSongs ==
  \A f \in Files : f.type # "T_MIDI2" =>
    (\E L : WrittenAs(f, L)) /\ SongOf(f, f.tracks) \in Songs

FileIsGiven == load # "done" => file \in Files

LEMMA LoadingKeeps == ASSUME Loading PROVE file' = file
<1>1. CASE ReadsEvent
  BY <1>1, ReadingKeeps
<1>2. CASE LoaderNext /\ ~ReadsEvent
  BY <1>2 DEF LoaderNext, Starts, OutOfMemory, TypeIsRefused, MidiIsTaken, XmidiIsRead,
     MusIsTaken, MusEventConverted, MusEventUnsupported, MusRunsOff, MusConverted, TrackStarts,
     NoTrackIsThere, TrackEnds, RunsOffFile, ConvertsEvent
<1> QED BY <1>1, <1>2 DEF Loading

LEMMA FileStep ==
  ASSUME FileIsGiven, [SessionNext]_sessionVars PROVE FileIsGiven'
<1>1. CASE Loading
  BY <1>1, LoadingKeeps, LoadingWaits DEF FileIsGiven
<1>2. CASE HandOver
  BY <1>2 DEF HandOver, FileIsGiven
<1>3. CASE UNCHANGED loaderVars
  BY <1>3 DEF loaderVars, FileIsGiven
<1> QED BY <1>1, <1>2, <1>3 DEF SessionNext, Playing, sessionVars

LEMMA WrittenHandOver ==
  ASSUME FilesAreSongs, LayoutInv, FileIsGiven PROVE HandsOverSongs
<1> SUFFICES ASSUME HandOver PROVE song' \in Songs
  BY DEF HandsOverSongs
<1>1. load = "ok" /\ file.type # "T_MIDI2" /\ song' = SongOf(file, arTracks)
  BY DEF HandOver, LoadedSong
<1>2. file \in Files
  BY <1>1 DEF FileIsGiven
<1>3. (\E L : WrittenAs(file, L)) /\ SongOf(file, file.tracks) \in Songs
  BY <1>1, <1>2 DEF FilesAreSongs
<1>4. \E L : LaidAs(L) /\ Parsed(L)
  BY <1>1, <1>3, LaidIsParsed DEF LaidOutFile
<1>5. arTracks = file.tracks
  BY <1>1, <1>4 DEF Parsed
<1> QED BY <1>1, <1>3, <1>5

LEMMA WrittenSession == FilesAreSongs => (Session => [][HandsOverSongs]_sessionVars)
<1>1. FilesAreSongs /\ LayoutInv /\ FileIsGiven => HandsOverSongs
  BY WrittenHandOver
<1>2. SessionInit => FileIsGiven
  BY DEF SessionInit, LoaderInit, FileIsGiven
<1>3. FileIsGiven /\ [SessionNext]_sessionVars => FileIsGiven'
  BY FileStep
<1> SUFFICES ASSUME FilesAreSongs PROVE Session => [][HandsOverSongs]_sessionVars
  OBVIOUS
<1>4. LayoutInv /\ FileIsGiven => HandsOverSongs
  BY <1>1
<1> QED BY <1>2, <1>3, <1>4, LayoutInvariant, PTL DEF Session

\* A file that is laid out and means a song is loaded and played in order and in time,
\* with any buffer that the load does not fail for; and the session as a whole does
\* what the transport promises.
THEOREM PlaysWrittenFiles ==
  FilesAreSongs =>
    (Session => /\ [](TypeOK /\ PlayedInOrder /\ NeverOverdue /\ StepInForce
                         /\ (CLOCK_MAX <= FRAC * ELAPSED_MOD => LateByEvents))
                /\ ImplementsTransport)
<1> DEFINE Kept == TypeOK /\ PlayedInOrder /\ NeverOverdue /\ StepInForce
                     /\ (CLOCK_MAX <= FRAC * ELAPSED_MOD => LateByEvents)
<1> SUFFICES ASSUME FilesAreSongs PROVE Session => []Kept /\ ImplementsTransport
  OBVIOUS
<1>1. Session => [][HandsOverSongs]_sessionVars
  BY WrittenSession
<1>2. Session /\ [][HandsOverSongs]_sessionVars => []Kept
  BY PlaysWhatWasLoaded
<1> HIDE DEF FilesAreSongs, Kept
<1>3. Session => []Kept
  BY <1>1, <1>2, PTL
<1>4. Session => ImplementsTransport
  BY <1>1, SessionImplements
<1> QED BY <1>3, <1>4

-----------------------------------------------------------------------------
(* A load gets on.  That the steps go on is for fairness; that there are   *)
(* finitely many of them for a file can be seen of each.                   *)

Advances ==
  \/ Stage < Stage'
  \/ /\ Stage = 1 /\ Stage' = 1 /\ UNCHANGED file
     /\ cur < cur' /\ cur' <= Len(file.score) + 1
  \/ /\ Stage = 2 /\ Stage' = 2 /\ UNCHANGED <<file, midi>> /\ Len(arTracks') = Len(arTracks)
     /\ \/ pCmd < pCmd' /\ pCmd' <= Len(midi) + 1 /\ trackNb' = trackNb
        \/ pCmd' = pCmd /\ trackNb < trackNb' /\ trackNb' <= Len(arTracks)

LEMMA StageOf ==
  /\ load = "start" => Stage = 0
  /\ load = "convert" => Stage = 1
  /\ load \in {"header", "events"} => Stage = 2
  /\ load \in {"ok", "error", "lost"} => Stage = 3
  /\ load = "done" => Stage = 4
  BY DEF Stage

LEMMA NextStages ==
  (/\ load = "start" => Stage = 0
   /\ load = "convert" => Stage = 1
   /\ load \in {"header", "events"} => Stage = 2
   /\ load \in {"ok", "error", "lost"} => Stage = 3
   /\ load = "done" => Stage = 4)'
  BY StageOf, PTL

LEMMA EventMoves ==
  ASSUME LoadInv, ReadsEvent
  PROVE  pCmd < pCmd' /\ pCmd' <= Len(midi) + 1
<1>1. midi \in Seq(Byte) /\ pCmd \in Nat \ {0} /\ g_runningStatus \in Byte /\ WithinFile
  BY DEF LoadInv, ParserTyped, ReadsEvent
<1>2. pCmd' = EventEnd
  <2> DEFINE Moves == pCmd' = EventEnd
  <2>1. \A kind, type : ChannelEvent(kind, type) => Moves
    BY DEF ChannelEvent
  <2>2. \A type, data, reported : OtherEvent(type, data, reported) => Moves
    BY DEF OtherEvent
  <2>3. Forgets => Moves
    BY DEF Forgets
  <2> HIDE DEF Moves
  <2>4. Moves
    BY <2>1, <2>2, <2>3, Zenon
       DEF ReadsEvent, NoteOff, NoteOn, NoteAft, Controller, ProgramChange, ChannelAft,
           PitchBend, SysexMsg, Marker, CuePoint, TakesName, EndOfTrack, SetTempo,
           TimeSignature, OtherMeta, SystemCommon, UnknownEvent
  <2> QED BY <2>4 DEF Moves
<1>3. /\ Command \in Nat /\ Parameters \in 0..2 /\ EventEnd <= Len(midi) + 1
      /\ usSwitch \in 128..239 => EventEnd = DataAt + Parameters
      /\ usSwitch = 240 => SysexEnd \in Command..Len(midi)
      /\ usSwitch = 255 => EventEnd = MetaEnd /\ MetaLength \in Byte
  BY <1>1, Reading
<1>4. pCmd < Command
  <2>1. VLQSize(midi, pCmd) \in 1..4
    BY <1>1, VLQSizeBounds DEF WithinFile
  <2> QED BY <1>1, <2>1 DEF Command
<1>5. Command <= EventEnd
  <2>1. CASE usSwitch = 240
    <3>1. EventEnd = SysexEnd
      BY <2>1 DEF EventEnd
    <3> QED BY <1>3, <2>1, <3>1
  <2>2. CASE usSwitch = 255
    <3>1. MetaEnd \in {Command + 4, Command + 5, Command + 3 + MetaLength, Command + 2 + MetaLength}
      BY DEF MetaEnd
    <3>2. EventEnd = MetaEnd /\ MetaLength \in Nat
      BY <1>3, <2>2, ByteIsNumber, Zenon
    <3> QED BY <1>3, <3>1, <3>2
  <2>3. CASE usSwitch # 240 /\ usSwitch # 255
    <3>1. EventEnd \in {DataAt + Parameters, Command + 1 + Parameters, Command}
      BY <2>3 DEF EventEnd
    <3>2. DataAt \in {Command, Command + 1}
      BY DEF DataAt
    <3> HIDE DEF DataAt
    <3>3. \A c \in Nat, n \in 0..2 : c <= c + n /\ c <= (c + 1) + n /\ c <= c
      OBVIOUS
    <3> QED BY <1>3, <3>1, <3>2, <3>3, Zenon
  <2> QED BY <2>1, <2>2, <2>3
<1>6. \A a, b, c \in Int : a < b /\ b <= c => a < c
  OBVIOUS
<1>7. EventEnd \in Int /\ pCmd \in Int
  BY <1>1, Reading
<1> QED BY <1>2, <1>3, <1>4, <1>5, <1>6, <1>7

LEMMA ScoreMoves ==
  ASSUME LoadInv, MusEventConverted
  PROVE  cur < cur' /\ cur' <= Len(file.score) + 1
<1>1. file.score \in Seq(Byte) /\ cur \in Nat \ {0} /\ cur <= Len(file.score) /\ WithinScore
      /\ load = "convert"
  BY DEF LoadInv, FileTyped, ScoreTyped, MusEventConverted, ConvertsEvent
<1>2. PICK message \in Seq(Byte) : Converts(message)
  BY <1>1, EventConverted DEF MusEventConverted
<1>3. Used \in 0..2
  BY <1>1, ReadingScore
<1> DEFINE next == cur + 1 + Used
           size == VLQSize(file.score, next)
<1>4. next \in Nat \ {0} /\ cur < next /\ next <= Len(file.score) + 1 /\ Len(file.score) \in Nat
  BY <1>1, <1>3 DEF WithinScore
<1>5. cur' = IF event >= 128 THEN next + size ELSE next
  BY <1>2 DEF Converts
<1>6. event >= 128 => size > 0
  BY <1>1 DEF WithinScore
<1>7. size \in 0..4 /\ (size > 0 => next + size - 1 <= Len(file.score))
  BY <1>1, <1>4, VLQSizeBounds
<1> HIDE DEF next, size
<1> QED BY <1>1, <1>4, <1>5, <1>6, <1>7

LEMMA LoadMoves ==
  ASSUME LoadInv, EndInv, [SessionNext]_sessionVars PROVE [Advances]_loaderVars
<1>1. Len(arTracks) \in Nat /\ trackNb \in Nat /\ pCmd \in Nat
      /\ (load \in {"header", "events"} => trackNb <= Len(arTracks))
  BY DEF LoadInv, ListsInv, TrackInv, ParserTyped
<1>2. CASE load = "start" /\ load' \in {"convert", "header", "ok", "error", "lost"}
  BY <1>2, StageOf, NextStages DEF Advances
<1>3. CASE load \in {"convert", "header", "events"} /\ load' \in {"ok", "error", "lost"}
  BY <1>3, StageOf, NextStages DEF Advances
<1>4. CASE OutOfMemory \/ TypeIsRefused \/ MidiIsTaken \/ XmidiIsRead \/ MusIsTaken
  <2>1. load = "start" /\ load' \in {"convert", "header", "ok", "error", "lost"}
    BY <1>4 DEF OutOfMemory, TypeIsRefused, MidiIsTaken, XmidiIsRead, MusIsTaken
  <2> QED BY <1>2, <2>1
<1>5. CASE MusEventConverted
  <2>1. load = "convert" /\ load' = "convert" /\ file' = file
    BY <1>5 DEF MusEventConverted
  <2> QED BY <1>5, <2>1, ScoreMoves, StageOf, NextStages DEF Advances
<1>6. CASE MusConverted
  <2>1. load = "convert" /\ load' = "header"
    BY <1>6 DEF MusConverted
  <2> QED BY <2>1, StageOf, NextStages DEF Advances
<1>7. CASE MusEventUnsupported \/ MusRunsOff \/ NoTrackIsThere \/ RunsOffFile
  <2>1. load \in {"convert", "header", "events"} /\ load' \in {"ok", "error", "lost"}
    BY <1>7 DEF MusEventUnsupported, MusRunsOff, NoTrackIsThere, RunsOffFile
  <2> QED BY <1>3, <2>1
<1>8. CASE TrackStarts
  <2>1. /\ load = "header" /\ load' = "events" /\ pCmd' = pCmd + 8 /\ pCmd + 7 <= Len(midi)
        /\ UNCHANGED <<file, midi, arTracks, trackNb>>
    BY <1>8 DEF TrackStarts, HeaderInFile, listVars
  <2>2. Len(midi) \in Nat
    BY DEF LoadInv
  <2>3. Stage = 2 /\ Stage' = 2
    BY <2>1, StageOf, NextStages
  <2>4. pCmd < pCmd' /\ pCmd' <= Len(midi) + 1
    BY <1>1, <2>1, <2>2
  <2> QED BY <2>1, <2>3, <2>4 DEF Advances
<1>9. CASE TrackEnds
  <2>1. CASE load' \in {"ok", "error"}
    BY <1>3, <1>9, <2>1 DEF TrackEnds
  <2>2. CASE load' \notin {"ok", "error"}
    <3>1. /\ load = "events" /\ load' = "header" /\ trackNb' = trackNb + 1
          /\ trackNb < Len(arTracks) /\ UNCHANGED <<file, midi, arTracks, pCmd>>
      BY <1>9, <2>2 DEF TrackEnds, listVars
    <3>2. Stage = 2 /\ Stage' = 2
      BY <3>1, StageOf, NextStages
    <3>3. trackNb < trackNb' /\ trackNb' <= Len(arTracks)
      BY <1>1, <3>1
    <3> QED BY <3>1, <3>2, <3>3 DEF Advances
  <2> QED BY <2>1, <2>2
<1>10. CASE ReadsEvent
  <2>1. load = "events" /\ load' \in {"events", "lost"} /\ Len(arTracks') = Len(arTracks)
    BY <1>10, EndEvent DEF ReadsEvent
  <2>2. UNCHANGED <<file, midi, trackNb>>
    BY <1>10, ReadingKeeps
  <2>3. CASE load' = "lost"
    BY <1>3, <2>1, <2>3
  <2>4. CASE load' = "events"
    <3>1. Stage = 2 /\ Stage' = 2
      BY <2>1, <2>4, StageOf, NextStages
    <3>2. pCmd < pCmd' /\ pCmd' <= Len(midi) + 1
      BY <1>10, EventMoves
    <3> QED BY <2>1, <2>2, <3>1, <3>2 DEF Advances
  <2> QED BY <2>1, <2>3, <2>4
<1>11. CASE HandOver
  <2>1. load = "ok" /\ load' = "done"
    BY <1>11 DEF HandOver
  <2> QED BY <2>1, StageOf, NextStages DEF Advances
<1>12. CASE UNCHANGED loaderVars
  BY <1>12
<1> QED BY <1>4, <1>5, <1>6, <1>7, <1>8, <1>9, <1>10, <1>11, <1>12
        DEF SessionNext, Loading, LoaderNext, Starts, Playing, sessionVars

\* Whatever is in the files, the loader never comes back to where it was: each step takes
\* it to a later stage, or further in the score or the file, or to the next track.
THEOREM LoadGetsOn == Session => LoadAdvances
<1>1. LoadInv /\ EndInv /\ [SessionNext]_sessionVars => [Advances]_loaderVars
  BY LoadMoves
<1> QED BY <1>1, ListsInvariant, PTL DEF Session, LoadAdvances, Advances
=============================================================================
