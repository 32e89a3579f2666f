----------------------------- MODULE NktFileProofs -----------------------------
(***************************************************************************)
(* Theorems about saving and loading, for every song, every size of the    *)
(* disk and every error: what a save that succeeds has written, and that   *)
(* what is loaded is what was saved.                                       *)
(***************************************************************************)
EXTENDS NktFile, InductionTheorems, SequenceTheorems

-----------------------------------------------------------------------------
(* Sequences put together.                                                 *)

\* The first k members of a sequence, and these put together.
FirstOf(s, k) == [t \in 1..k |-> s[t]]
Together(s, k) == FlattenSeq(FirstOf(s, k))

LEMMA FirstGrows ==
  ASSUME NEW V, NEW s \in Seq(V)
  PROVE  /\ FirstOf(s, 0) = << >> /\ FirstOf(s, Len(s)) = s
         /\ \A k \in 0..Len(s) : FirstOf(s, k) \in Seq(V) /\ Len(FirstOf(s, k)) = k
         /\ \A k \in 0..Len(s) - 1 : FirstOf(s, k + 1) = Append(FirstOf(s, k), s[k + 1])
<1>1. ASSUME NEW k \in 0..Len(s) PROVE FirstOf(s, k) \in Seq(V) /\ Len(FirstOf(s, k)) = k
  BY DEF FirstOf
<1>2. FirstOf(s, 0) = << >>
  BY DEF FirstOf
<1>3. FirstOf(s, Len(s)) = s
  BY DEF FirstOf
<1>4. ASSUME NEW k \in 0..Len(s) - 1
      PROVE  FirstOf(s, k + 1) = Append(FirstOf(s, k), s[k + 1])
  <2> DEFINE a == FirstOf(s, k + 1)
             b == Append(FirstOf(s, k), s[k + 1])
  <2>1. k \in 0..Len(s) /\ k + 1 \in 0..Len(s) /\ s[k + 1] \in V
    OBVIOUS
  <2>2. a \in Seq(V) /\ Len(a) = k + 1
    BY <1>1, <2>1
  <2>3. FirstOf(s, k) \in Seq(V) /\ Len(FirstOf(s, k)) = k
    BY <1>1, <2>1
  <2>4. b \in Seq(V) /\ Len(b) = k + 1
    BY <2>1, <2>3
  <2>5. \A i \in 1..k + 1 : a[i] = s[i]
    BY DEF FirstOf
  <2>6. \A i \in 1..k : b[i] = FirstOf(s, k)[i] /\ FirstOf(s, k)[i] = s[i]
    BY <2>1, <2>3 DEF FirstOf
  <2>7. b[k + 1] = s[k + 1]
    BY <2>1, <2>3, AppendProperties
  <2>8. ASSUME NEW i \in 1..k + 1 PROVE a[i] = b[i]
    <3>1. i \in 1..k \/ i = k + 1
      OBVIOUS
    <3> HIDE DEF a, b
    <3> QED BY <2>5, <2>6, <2>7, <3>1
  <2> HIDE DEF a, b
  <2>9. a = b
    BY <2>2, <2>4, <2>8, SeqEqual
  <2> QED BY <2>9 DEF a, b
<1> QED BY <1>1, <1>2, <1>3, <1>4

LEMMA TogetherGrows ==
  ASSUME NEW S, NEW s \in Seq(Seq(S))
  PROVE  /\ Together(s, 0) = << >> /\ Together(s, Len(s)) = FlattenSeq(s)
         /\ \A k \in 0..Len(s) : Together(s, k) \in Seq(S)
         /\ \A k \in 0..Len(s) - 1 : Together(s, k + 1) = Together(s, k) \o s[k + 1]
<1>1. Together(s, 0) = << >> /\ Together(s, Len(s)) = FlattenSeq(s)
  BY FirstGrows, FlattenEmpty DEF Together
<1>2. ASSUME NEW k \in 0..Len(s) PROVE Together(s, k) \in Seq(S)
  <2>1. FirstOf(s, k) \in Seq(Seq(S))
    BY FirstGrows
  <2> QED BY <2>1, FlattenType DEF Together
<1>3. ASSUME NEW k \in 0..Len(s) - 1 PROVE Together(s, k + 1) = Together(s, k) \o s[k + 1]
  <2>1. k \in 0..Len(s) /\ s[k + 1] \in Seq(S)
    OBVIOUS
  <2>2. FirstOf(s, k) \in Seq(Seq(S)) /\ FirstOf(s, k + 1) = Append(FirstOf(s, k), s[k + 1])
    BY <2>1, FirstGrows
  <2> QED BY <2>1, <2>2, FlattenAppend DEF Together
<1> QED BY <1>1, <1>2, <1>3

\* x begins with a.
Begins(S, a, x) == \E r \in Seq(S) : x = a \o r

LEMMA BeginsShorter ==
  ASSUME NEW S, NEW a \in Seq(S), NEW c \in Seq(S), NEW x \in Seq(S), Begins(S, a \o c, x),
         NEW w \in 0..Len(c)
  PROVE  /\ SubSeq(c, 1, w) \in Seq(S) /\ Len(SubSeq(c, 1, w)) = w
         /\ Begins(S, a \o SubSeq(c, 1, w), x)
<1>1. PICK r \in Seq(S) : x = (a \o c) \o r
  BY DEF Begins
<1>2. /\ SubSeq(c, 1, w) \in Seq(S) /\ Len(SubSeq(c, 1, w)) = w
      /\ SubSeq(c, w + 1, Len(c)) \in Seq(S)
  BY SubSeqProperties
<1>3. c = SubSeq(c, 1, w) \o SubSeq(c, w + 1, Len(c))
  <2>1. SubSeq(c, 1, Len(c)) = c
    BY SubSeqFull
  <2>2. 1 \in 1..Len(c) + 1 /\ w \in 1 - 1..Len(c) /\ Len(c) \in w..Len(c)
    OBVIOUS
  <2> QED BY <2>1, <2>2, ConcatAdjacentSubSeq
<1> DEFINE b == SubSeq(c, 1, w)
           d == SubSeq(c, w + 1, Len(c))
<1>4. x = (a \o b) \o (d \o r)
  <2> HIDE DEF b, d
  <2>1. b \in Seq(S) /\ d \in Seq(S) /\ c = b \o d
    BY <1>2, <1>3 DEF b, d
  <2>2. (a \o (b \o d)) \o r = (a \o b) \o (d \o r)
    <3>1. a \o (b \o d) = (a \o b) \o d /\ a \o b \in Seq(S)
      BY <2>1, SMTT(40)
    <3>2. ((a \o b) \o d) \o r = (a \o b) \o (d \o r)
      BY <2>1, <3>1, SMTT(40)
    <3> QED BY <3>1, <3>2
  <2> QED BY <1>1, <2>1, <2>2
<1>5. d \o r \in Seq(S)
  BY <1>2, ConcatProperties
<1> QED BY <1>2, <1>4, <1>5 DEF Begins

\* What is put together begins with what the first k make.
LEMMA BeginsTogether ==
  ASSUME NEW S, NEW s \in Seq(Seq(S)), NEW k \in 0..Len(s)
  PROVE  Begins(S, Together(s, k), FlattenSeq(s))
<1> DEFINE n == Len(s)
           Back == {d \in Nat : d <= n => Begins(S, Together(s, n - d), FlattenSeq(s))}
<1>0. n \in Nat /\ FlattenSeq(s) \in Seq(S) /\ << >> \in Seq(S)
  BY FlattenType
<1>1. 0 \in Back
  <2>1. FlattenSeq(s) = Together(s, n - 0) \o << >>
    BY <1>0, TogetherGrows
  <2>2. Begins(S, Together(s, n - 0), FlattenSeq(s))
    BY <1>0, <2>1 DEF Begins
  <2> QED BY <2>2
<1>2. ASSUME NEW d \in Nat, d \in Back PROVE d + 1 \in Back
  <2> SUFFICES ASSUME d + 1 <= n PROVE Begins(S, Together(s, n - (d + 1)), FlattenSeq(s))
    OBVIOUS
  <2> DEFINE j == n - (d + 1)
  <2>1. j \in 0..n - 1 /\ n - d = j + 1 /\ d <= n /\ j \in 0..n /\ j + 1 \in 1..n
    BY <1>0
  <2> HIDE DEF j
  <2>2. Together(s, j + 1) = Together(s, j) \o s[j + 1] /\ Together(s, j) \in Seq(S)
    BY <2>1, TogetherGrows
  <2>3. s[j + 1] \in Seq(S)
    BY <2>1
  <2>4. Begins(S, Together(s, j + 1), FlattenSeq(s))
    BY <1>2, <2>1
  <2>5. PICK r \in Seq(S) : FlattenSeq(s) = Together(s, j + 1) \o r
    BY <2>4 DEF Begins
  <2>6. FlattenSeq(s) = Together(s, j) \o (s[j + 1] \o r) /\ s[j + 1] \o r \in Seq(S)
    <3>1. PICK g, h : g = Together(s, j) /\ h = s[j + 1]
      OBVIOUS
    <3>2. g \in Seq(S) /\ h \in Seq(S) /\ FlattenSeq(s) = (g \o h) \o r
      BY <2>2, <2>3, <2>5, <3>1
    <3>3. (g \o h) \o r = g \o (h \o r) /\ h \o r \in Seq(S)
      BY <3>2, SMTT(40)
    <3> QED BY <3>1, <3>2, <3>3, Zenon
  <2>7. Begins(S, Together(s, j), FlattenSeq(s))
    BY <2>6 DEF Begins
  <2> QED BY <2>7 DEF j
<1>3. \A d \in Nat : d \in Back
  <2> HIDE DEF Back
  <2> QED BY <1>1, <1>2, SetInduction
<1>4. n - k \in Nat /\ n - k <= n /\ n - (n - k) = k
  BY <1>0
<1> QED BY <1>3, <1>4

\* Reading, from the end of a, the size of c finds c where the file goes that far, and
\* the beginning of it where it does not.
LEMMA Finds ==
  ASSUME NEW S, NEW a \in Seq(S), NEW c \in Seq(S), NEW x \in Seq(S), Begins(S, a \o c, x),
         disk \in Seq(S), Begins(S, disk, x), Len(a) <= Len(disk)
  PROVE  LET found == Found(Len(a), Len(c))
         IN  /\ found \in Seq(S) /\ Len(found) <= Len(c)
             /\ Len(found) < Len(c) <=> Len(disk) < Len(a) + Len(c)
             /\ Len(found) < Len(c) => Len(a) + Len(found) = Len(disk)
             /\ Len(a) + Len(found) <= Len(disk)
             /\ \A k \in 1..Len(found) : found[k] = c[k]
             /\ Len(a) + Len(c) <= Len(disk) => found = c
<1> DEFINE p == Len(a)
           n == Len(c)
           q == IF p + n <= Len(disk) THEN p + n ELSE Len(disk)
           found == SubSeq(disk, p + 1, q)
<1>1. p \in Nat /\ n \in Nat /\ Len(disk) \in Nat /\ q \in p..Len(disk)
  OBVIOUS
<1>2. /\ found \in Seq(S) /\ Len(found) = q - p
      /\ \A i \in 1..q - p : found[i] = disk[p + i]
  <2> HIDE DEF p, q
  <2>1. p + 1 \in Int /\ q \in Int /\ \A i \in p + 1..q : disk[i] \in S
    BY <1>1
  <2>2. Len(found) = IF p + 1 <= q THEN q - (p + 1) + 1 ELSE 0
    BY <2>1, SubSeqProperties
  <2>3. \A i \in 1..q - (p + 1) + 1 : found[i] = disk[(p + 1) + i - 1]
    BY <2>1, SubSeqProperties
  <2>4. q - (p + 1) + 1 = q - p /\ \A i \in 1..q - p : (p + 1) + i - 1 = p + i
    BY <1>1
  <2>5. Len(found) = q - p
    BY <1>1, <2>2
  <2>6. found \in Seq(S)
    BY <2>1, SubSeqProperties
  <2>7. \A i \in 1..q - p : found[i] = disk[p + i]
    BY <2>3, <2>4
  <2> QED BY <2>5, <2>6, <2>7
<1>3. PICK r \in Seq(S) : x = (a \o c) \o r
  BY DEF Begins
<1>4. PICK u \in Seq(S) : x = disk \o u
  BY DEF Begins
<1>5. ASSUME NEW i \in 1..q - p PROVE disk[p + i] = c[i]
  <2>1. p + i \in 1..Len(disk) /\ i \in 1..n /\ p + i \in 1..p + n
    BY <1>1
  <2>2. x[p + i] = disk[p + i]
    BY <1>4, <2>1
  <2>3. (a \o c)[p + i] = c[i] /\ a \o c \in Seq(S) /\ Len(a \o c) = p + n
    BY <2>1
  <2>4. x[p + i] = (a \o c)[p + i]
    BY <1>3, <2>1, <2>3
  <2> QED BY <2>2, <2>3, <2>4
<1>6. \A i \in 1..Len(found) : found[i] = c[i]
  BY <1>2, <1>5
<1>7. Found(Len(a), Len(c)) = found
  BY DEF Found
<1>8. ASSUME p + n <= Len(disk) PROVE found = c
  <2>1. Len(found) = Len(c)
    BY <1>1, <1>2, <1>8
  <2> HIDE DEF found
  <2> QED BY <1>2, <1>6, <2>1, SeqEqual
<1> HIDE DEF found
<1> QED BY <1>1, <1>2, <1>6, <1>7, <1>8

LEMMA BeginsFirst ==
  ASSUME NEW S, NEW a \in Seq(S), NEW c \in Seq(S), NEW x \in Seq(S), Begins(S, a \o c, x)
  PROVE  Begins(S, a, x)
<1>1. PICK r \in Seq(S) : x = (a \o c) \o r
  BY DEF Begins
<1>2. (a \o c) \o r = a \o (c \o r) /\ c \o r \in Seq(S)
  OBVIOUS
<1> QED BY <1>1, <1>2 DEF Begins

\* Rows of the size of the track information are found at multiples of it.
LEMMA RowsTogether ==
  ASSUME NEW S, NEW s \in Seq(Seq(S)), \A t \in 1..Len(s) : Len(s[t]) = InfoSize,
         NEW k \in 0..Len(s)
  PROVE  /\ Len(Together(s, k)) = InfoSize * k
         /\ \A t \in 1..k : \A f \in 1..InfoSize :
              Together(s, k)[(t - 1) * InfoSize + f] = s[t][f]
<1> DEFINE n == Len(s)
           Laid(j) == /\ Len(Together(s, j)) = 5 * j
                      /\ \A t \in 1..j : \A f \in 1..5 : Together(s, j)[(t - 1) * 5 + f] = s[t][f]
           Good == {j \in Nat : Laid(j)}
<1>0. n \in Nat
  OBVIOUS
<1>1. 0 \in Good
  BY TogetherGrows
<1>2. ASSUME NEW j \in 0..n - 1, j \in Good PROVE j + 1 \in Good
  <2>1. j \in Nat /\ j \in 0..n /\ j + 1 \in 1..n /\ Laid(j)
    BY <1>2
  <2>2. PICK a, b, c : a = Together(s, j) /\ b = s[j + 1] /\ c = Together(s, j + 1)
    OBVIOUS
  <2>3. /\ a \in Seq(S) /\ b \in Seq(S) /\ c = a \o b /\ Len(b) = 5 /\ Len(a) = 5 * j
        /\ \A t \in 1..j : \A f \in 1..5 : a[(t - 1) * 5 + f] = s[t][f]
    <3>1. Len(a) = 5 * j /\ \A t \in 1..j : \A f \in 1..5 : a[(t - 1) * 5 + f] = s[t][f]
      BY <2>1, <2>2
    <3> HIDE DEF Good, Laid
    <3>2. a \in Seq(S) /\ c = a \o b
      BY <2>1, <2>2, TogetherGrows
    <3>3. b \in Seq(S) /\ Len(b) = 5
      BY <2>1, <2>2 DEF InfoSize
    <3> QED BY <3>1, <3>2, <3>3
  <2> HIDE DEF Good, Laid, n
  <2>4. /\ Len(c) = Len(a) + Len(b) /\ Len(a) \in Nat
        /\ \A i \in 1..Len(a) : c[i] = a[i]
        /\ \A i \in 1..Len(b) : c[Len(a) + i] = b[i]
    <3>1. a \in Seq(S) /\ b \in Seq(S) /\ c = a \o b
      BY <2>3
    <3> QED BY ONLY <3>1
  <2>5. Len(c) = 5 * (j + 1)
    BY <2>1, <2>3, <2>4
  <2>6. ASSUME NEW t \in 1..j + 1, NEW f \in 1..5 PROVE c[(t - 1) * 5 + f] = s[t][f]
    <3>1. CASE t \in 1..j
      <4>1. (t - 1) * 5 + f \in 1..Len(a)
        BY <2>1, <2>3, <3>1
      <4>2. c[(t - 1) * 5 + f] = a[(t - 1) * 5 + f]
        BY <2>4, <4>1
      <4> QED BY <2>3, <3>1, <4>2
    <3>2. CASE t = j + 1
      <4>1. (t - 1) * 5 + f = Len(a) + f /\ f \in 1..Len(b)
        BY <2>1, <2>3, <3>2
      <4>2. c[Len(a) + f] = b[f]
        BY <2>4, <4>1
      <4> QED BY <2>2, <3>2, <4>1, <4>2
    <3> QED BY <2>1, <3>1, <3>2
  <2> QED BY <2>1, <2>2, <2>5, <2>6 DEF Good, Laid, n
<1>3. \A j \in 0..n : j \in Good
  <2> HIDE DEF Good
  <2> QED BY <1>0, <1>1, <1>2, UpToInduction
<1> QED BY <1>3 DEF InfoSize

-----------------------------------------------------------------------------
(* What the variables are.                                                 *)

Kinds  == {"event", "data", "packed event", "packed data"}
Parts  == Kinds \X Nat \X Nat
Fields == {"field"} \X {0} \X Nat
Cells  == Parts \cup Fields \cup {Junk}

Stored == [events : Seq(Parts), data : Seq(Parts)]
Memory == [events : Seq(Cells), data : Seq(Cells)]

Writes  == {"infos", "events", "data", "close"}
SavePcs == {"start", "compress", "header"} \cup Writes
TrackPcs == {"readEvents", "readData", "unpackEvents", "unpackData", "copy"}
AllPcs  == SavePcs \cup TrackPcs \cup {"saved", "readInfos", "track", "loaded"}

\* What is saved: every track has blocks, and the information of a track names the
\* number of its blocks and the size of them with the same number.
Shape ==
  /\ song \in Songs /\ compress \in BOOLEAN /\ room \in 0..ROOM_MAX /\ pc \in AllPcs
  /\ saved \in {"no", "ok", "error"} /\ loaded \in {"no", "sequence", "null"}
  /\ memFailed \in BOOLEAN /\ ioError \in BOOLEAN
  /\ seq \in Seq(Stored) /\ Len(seq) = Len(song)
  /\ \A t \in 1..Len(seq) : Len(seq[t].events) >= 1
  /\ trackInfo \in Seq(Seq(Fields)) /\ Len(trackInfo) \in {0, Len(seq)}
  /\ \A t \in 1..Len(trackInfo) : /\ Len(trackInfo[t]) = InfoSize
                                  /\ trackInfo[t][1] = trackInfo[t][2]
  /\ disk \in Seq(Cells)
  /\ pc \in SavePcs => trk \in 1..Len(song)

\* How far the two calls are.
Stages ==
  /\ pc \in SavePcs => saved = "no"
  /\ pc \notin SavePcs => saved # "no"
  /\ pc \in SavePcs \cup {"saved"} => tracks = << >> /\ infos = << >>
  /\ pc \in {"start", "compress", "header", "infos", "saved", "readInfos"} => trk = 1
  /\ pc \in SavePcs \ {"start"} \/ saved = "ok" => Len(trackInfo) = Len(seq)
  /\ pc = "start" => trackInfo = << >>
  /\ loaded = "no" <=> pc # "loaded"

LEMMA SizeFacts ==
  ASSUME Shape
  PROVE  /\ song \in Seq(Size) /\ Len(song) \in Nat /\ Len(song) >= 1 /\ Len(seq) = Len(song)
         /\ \A t \in 1..Len(song) : /\ song[t] \in Size /\ song[t].events \in Nat \ {0}
                                    /\ song[t].data \in Nat
<1>1. song \in Seq(Size) /\ song # << >> /\ Len(seq) = Len(song)
  BY SongsAssumption DEF Shape
<1>2. Len(song) \in Nat /\ Len(song) >= 1
  BY <1>1
<1>3. \A t \in 1..Len(song) : song[t] \in Size
  BY <1>1
<1> QED BY <1>1, <1>2, <1>3 DEF Size

\* A part of a block is as long as it says, and of its cells.
LEMMA PartType ==
  ASSUME NEW what \in Kinds, NEW t \in Nat, NEW n \in Nat
  PROVE  Part(what, t, n) \in Seq(Parts) /\ Len(Part(what, t, n)) = n
<1>1. ASSUME NEW k \in 1..n PROVE <<what, t, k>> \in Parts
  <2>1. k \in Nat
    OBVIOUS
  <2> QED BY <2>1 DEF Parts
<1> DEFINE p == [k \in 1..n |-> <<what, t, k>>]
<1>2. p \in [1..n -> Parts]
  BY <1>1
<1> HIDE DEF p
<1>3. p \in Seq(Parts) /\ Len(p) = n
  BY <1>2
<1> QED BY <1>3 DEF Part, p

LEMMA BlocksType ==
  ASSUME NEW s \in Seq(Size)
  PROVE  /\ Blocks(s) \in Seq(Stored) /\ Len(Blocks(s)) = Len(s)
         /\ \A t \in 1..Len(s) : /\ Blocks(s)[t].events = Part("event", t, s[t].events)
                                 /\ Blocks(s)[t].data = Part("data", t, s[t].data)
                                 /\ Len(Blocks(s)[t].events) = s[t].events
                                 /\ Len(Blocks(s)[t].data) = s[t].data
<1>1. ASSUME NEW t \in 1..Len(s)
      PROVE  /\ Blocks(s)[t] \in Stored
             /\ Blocks(s)[t].events = Part("event", t, s[t].events)
             /\ Blocks(s)[t].data = Part("data", t, s[t].data)
             /\ Len(Blocks(s)[t].events) = s[t].events
             /\ Len(Blocks(s)[t].data) = s[t].data
  <2>1. s[t] \in Size /\ t \in Nat
    OBVIOUS
  <2>2. s[t].events \in Nat /\ s[t].data \in Nat
    BY <2>1 DEF Size
  <2>3. PICK e, d : e = Part("event", t, s[t].events) /\ d = Part("data", t, s[t].data)
    OBVIOUS
  <2>4. /\ e \in Seq(Parts) /\ Len(e) = s[t].events
        /\ d \in Seq(Parts) /\ Len(d) = s[t].data
    BY <2>1, <2>2, <2>3, PartType DEF Kinds
  <2>5. Blocks(s)[t] = [events |-> e, data |-> d]
    BY <2>3 DEF Blocks
  <2> QED BY <2>3, <2>4, <2>5 DEF Stored
<1>2. Blocks(s) \in Seq(Stored) /\ Len(Blocks(s)) = Len(s)
  <2>1. Blocks(s) = [t \in 1..Len(s) |-> Blocks(s)[t]] /\ Len(s) \in Nat
    BY DEF Blocks
  <2> QED BY <1>1, <2>1
<1> QED BY <1>1, <1>2

\* The cells of what is written.
LEMMA CellTypes ==
  ASSUME Shape
  PROVE  /\ \A v \in Nat : Field(v) \in Fields /\ Field(v)[3] = v /\ Field(v) \notin Parts
         /\ Parts \subseteq Cells /\ Fields \subseteq Cells /\ Zero \in Cells /\ Junk \in Cells
         /\ <<Field(ID_NKT), Field(NKT_VERSION), Field(Len(song))>> \in Seq(Cells)
         /\ FlattenSeq(trackInfo) \in Seq(Fields) /\ FlattenSeq(trackInfo) \in Seq(Cells)
         /\ \A t \in 1..Len(song) : /\ seq[t].events \in Seq(Parts) /\ seq[t].events \in Seq(Cells)
                                    /\ seq[t].data \in Seq(Parts) /\ seq[t].data \in Seq(Cells)
<1>1. \A v \in Nat : Field(v) \in Fields /\ Field(v)[3] = v /\ Field(v) \notin Parts
  BY DEF Field, Fields, Parts, Kinds
<1>2. Parts \subseteq Cells /\ Fields \subseteq Cells /\ Junk \in Cells
  BY DEF Cells
<1>3. Zero \in Cells
  BY <1>1, <1>2 DEF Zero
<1>4. <<Field(ID_NKT), Field(NKT_VERSION), Field(Len(song))>> \in Seq(Cells)
  <2>1. Field(ID_NKT) \in Cells /\ Field(NKT_VERSION) \in Cells /\ Field(Len(song)) \in Cells
    BY <1>1, <1>2, SizeFacts DEF ID_NKT, NKT_VERSION
  <2> QED BY <2>1
<1>5. FlattenSeq(trackInfo) \in Seq(Fields)
  BY FlattenType DEF Shape
<1>6. FlattenSeq(trackInfo) \in Seq(Cells)
  BY <1>2, <1>5, SeqMonotonic
<1>7. ASSUME NEW t \in 1..Len(song)
      PROVE  /\ seq[t].events \in Seq(Parts) /\ seq[t].events \in Seq(Cells)
             /\ seq[t].data \in Seq(Parts) /\ seq[t].data \in Seq(Cells)
  <2>1. seq[t] \in Stored
    BY SizeFacts DEF Shape
  <2>2. seq[t].events \in Seq(Parts) /\ seq[t].data \in Seq(Parts)
    BY <2>1 DEF Stored
  <2> QED BY <1>2, <2>2, SeqMonotonic
<1> QED BY <1>1, <1>2, <1>3, <1>4, <1>5, <1>6, <1>7

\* What a call of Fwrite does: it fails, or writes w cells, all of them if there is room.
Puts(cells, wanted, next) ==
  \/ /\ ioError' = TRUE /\ next
     /\ UNCHANGED <<disk, room, saved>>
  \/ \E w \in 0..Len(cells) :
       /\ disk' = disk \o SubSeq(cells, 1, w) /\ room' = room - w /\ room' \in Nat
       /\ w = Len(cells) \/ room' = 0
       /\ UNCHANGED ioError
       /\ \/ w < wanted /\ SaveReturns("error")
          \/ w >= wanted /\ next /\ UNCHANGED saved

Header == <<Field(ID_NKT), Field(NKT_VERSION), Field(Len(song))>>
Written == <<song, seq, trackInfo, compress, loading, memFailed>>

LEMMA FwritePuts ==
  ASSUME room \in Nat, NEW S, NEW cells \in Seq(S), NEW wanted \in Nat, NEW ACTION next,
         Fwrite(cells, wanted, next)
  PROVE  Puts(cells, wanted, next)
<1> DEFINE w == IF Len(cells) <= room THEN Len(cells) ELSE room
<1>1. \/ /\ disk' = disk \o SubSeq(cells, 1, w) /\ room' = room - w
         /\ IF w < wanted THEN SaveReturns("error") ELSE next /\ UNCHANGED saved
         /\ UNCHANGED ioError
      \/ ioError' = TRUE /\ next /\ UNCHANGED <<disk, room, saved>>
  BY DEF Fwrite
<1>2. CASE ioError' = TRUE /\ next /\ UNCHANGED <<disk, room, saved>>
  BY <1>2 DEF Puts
<1>3. CASE /\ disk' = disk \o SubSeq(cells, 1, w) /\ room' = room - w
           /\ IF w < wanted THEN SaveReturns("error") ELSE next /\ UNCHANGED saved
           /\ UNCHANGED ioError
  <2>1. w \in 0..Len(cells) /\ room - w \in Nat /\ (w = Len(cells) \/ room - w = 0) /\ w \in Nat
    OBVIOUS
  <2> HIDE DEF w
  <2>2. \/ w < wanted /\ SaveReturns("error")
        \/ w >= wanted /\ next /\ UNCHANGED saved
    BY <1>3, <2>1
  <2> QED BY <1>3, <2>1, <2>2 DEF Puts
<1> QED BY <1>1, <1>2, <1>3

LEMMA HeaderPuts ==
  ASSUME Shape, SaveHeader
  PROVE  /\ pc = "header" /\ UNCHANGED Written
         /\ Puts(Header, HeaderSize, pc' = "infos" /\ UNCHANGED trk)
<1>1. room \in Nat /\ Header \in Seq(Cells) /\ HeaderSize \in Nat
  BY RoomAssumption, CellTypes DEF Shape, Header, HeaderSize
<1>2. /\ pc = "header" /\ UNCHANGED Written
      /\ Fwrite(Header, HeaderSize, pc' = "infos" /\ UNCHANGED trk)
  BY DEF SaveHeader, Header, Written
<1> QED BY <1>1, <1>2, FwritePuts

LEMMA TrackInfoPuts ==
  ASSUME Shape, SaveTrackInfo
  PROVE  /\ pc = "infos" /\ UNCHANGED Written
         /\ Puts(FlattenSeq(trackInfo), 1, pc' = "events" /\ UNCHANGED trk)
<1>1. room \in Nat /\ FlattenSeq(trackInfo) \in Seq(Cells) /\ 1 \in Nat
  BY RoomAssumption, CellTypes DEF Shape
<1>2. /\ pc = "infos" /\ UNCHANGED Written
      /\ Fwrite(FlattenSeq(trackInfo), 1, pc' = "events" /\ UNCHANGED trk)
  BY DEF SaveTrackInfo, Written
<1> QED BY <1>1, <1>2, FwritePuts

LEMMA EventsPuts ==
  ASSUME Shape, SaveEvents
  PROVE  /\ pc = "events" /\ UNCHANGED Written /\ trk \in 1..Len(song)
         /\ Puts(seq[trk].events, Len(seq[trk].events), pc' = "data" /\ UNCHANGED trk)
<1>1. pc = "events" /\ trk \in 1..Len(song)
  BY DEF SaveEvents, Shape, SavePcs, Writes
<1>2. room \in Nat /\ seq[trk].events \in Seq(Cells) /\ Len(seq[trk].events) \in Nat
  BY <1>1, RoomAssumption, CellTypes DEF Shape
<1>3. /\ UNCHANGED Written
      /\ Fwrite(seq[trk].events, Len(seq[trk].events), pc' = "data" /\ UNCHANGED trk)
  BY DEF SaveEvents, Written
<1> QED BY <1>1, <1>2, <1>3, FwritePuts

LEMMA DataPuts ==
  ASSUME Shape, SaveData
  PROVE  /\ pc = "data" /\ UNCHANGED Written /\ trk \in 1..Len(song)
         /\ Puts(seq[trk].data, Len(seq[trk].data),
                 IF trk < Len(seq) THEN pc' = "events" /\ trk' = trk + 1
                                   ELSE pc' = "close" /\ UNCHANGED trk)
<1>1. pc = "data" /\ trk \in 1..Len(song)
  BY DEF SaveData, Shape, SavePcs, Writes
<1>2. room \in Nat /\ seq[trk].data \in Seq(Cells) /\ Len(seq[trk].data) \in Nat
  BY <1>1, RoomAssumption, CellTypes DEF Shape
<1>3. /\ UNCHANGED Written
      /\ Fwrite(seq[trk].data, Len(seq[trk].data),
                IF trk < Len(seq) THEN pc' = "events" /\ trk' = trk + 1
                                  ELSE pc' = "close" /\ UNCHANGED trk)
  BY DEF SaveData, Written
<1> QED BY <1>1, <1>2, <1>3, FwritePuts

\* A write keeps the types, wherever it goes on.
LEMMA PutsShape ==
  ASSUME Shape, UNCHANGED Written, NEW cells \in Seq(Cells), NEW wanted, NEW ACTION next,
         Puts(cells, wanted, next),
         next => pc' \in Writes /\ trk' \in 1..Len(song)
  PROVE  Shape'
<1>1. /\ disk' \in Seq(Cells) /\ room' \in 0..ROOM_MAX /\ ioError' \in BOOLEAN
      /\ saved' \in {"no", "ok", "error"}
  <2>1. CASE UNCHANGED <<disk, room, saved>> /\ ioError' = TRUE
    BY <2>1 DEF Shape
  <2>2. CASE ~(UNCHANGED <<disk, room, saved>> /\ ioError' = TRUE)
    <3>1. PICK w \in 0..Len(cells) :
            /\ disk' = disk \o SubSeq(cells, 1, w) /\ room' = room - w /\ room' \in Nat
            /\ UNCHANGED ioError /\ (UNCHANGED saved \/ saved' = "error")
      BY <2>2 DEF Puts, SaveReturns
    <3>2. SubSeq(cells, 1, w) \in Seq(Cells)
      BY SubSeqProperties
    <3>3. disk' \in Seq(Cells)
      BY <3>1, <3>2 DEF Shape
    <3> QED BY <3>1, <3>3, RoomAssumption DEF Shape
  <2> QED BY <2>1, <2>2
<1>2. pc' \in AllPcs /\ (pc' \in SavePcs => trk' \in 1..Len(song))
  <2>1. \/ next
        \/ SaveReturns("error")
    BY DEF Puts
  <2> QED BY <2>1 DEF SaveReturns, AllPcs, SavePcs, Writes
<1> QED BY <1>1, <1>2 DEF Shape, Written, loading

\* The loader leaves what was saved alone.
LEMMA LoaderShape ==
  ASSUME Shape, UNCHANGED <<song, saving>>, pc' \in AllPcs \ SavePcs,
         loaded' \in {"no", "sequence", "null"}, memFailed' \in BOOLEAN, ioError' \in BOOLEAN
  PROVE  Shape'
  BY DEF Shape, saving

LEMMA LoaderGoesOn ==
  ASSUME Shape,
         \/ LoadHeader \/ LoadCannotStart \/ LoadTrackInfo \/ LoadTrack \/ LoadRunsOutOfMemory
         \/ LoadUnpacksEvents \/ LoadUnpacksData \/ LoadCopies
         \/ LoadEvents \/ LoadData \/ LoadCloses
  PROVE  /\ UNCHANGED <<song, saving>> /\ pc \in AllPcs \ SavePcs /\ pc' \in AllPcs \ SavePcs
         /\ loaded' \in {"no", "sequence", "null"} /\ pc' # "saved"
         /\ \/ pc' = "loaded" /\ loaded' # "no"
            \/ pc' # "loaded" /\ loaded' = loaded /\ pc # "loaded"
         /\ memFailed' \in BOOLEAN /\ ioError' \in BOOLEAN /\ (ioError => ioError')
<1> USE DEF AllPcs, SavePcs, Writes, TrackPcs, LoadReturns, saving, loading
<1>1. loaded \in {"no", "sequence", "null"} /\ memFailed \in BOOLEAN /\ ioError \in BOOLEAN
  BY DEF Shape
<1>2. CASE LoadHeader
  BY <1>1, <1>2 DEF LoadHeader, Fread
<1>3. CASE LoadTrackInfo
  BY <1>1, <1>3 DEF LoadTrackInfo, Fread
<1>4. CASE LoadCannotStart \/ LoadTrack \/ LoadRunsOutOfMemory \/ LoadCopies \/ LoadCloses
  BY <1>1, <1>4 DEF LoadCannotStart, LoadTrack, LoadRunsOutOfMemory, LoadCopies, LoadCloses
<1>5. CASE LoadUnpacksEvents
  BY <1>1, <1>5 DEF LoadUnpacksEvents, Fread
<1>6. CASE LoadUnpacksData
  BY <1>1, <1>6 DEF LoadUnpacksData, Fread
<1>7. CASE LoadEvents
  BY <1>1, <1>7 DEF LoadEvents, Fread
<1>8. CASE LoadData
  BY <1>1, <1>8 DEF LoadData, Fread
<1> QED BY <1>2, <1>3, <1>4, <1>5, <1>6, <1>7, <1>8

\* The information of a track is a row of fields.
LEMMA TrackInfoType ==
  ASSUME Shape, NEW t \in 1..Len(seq)
  PROVE  /\ TrackInfo(t) \in Seq(Fields) /\ Len(TrackInfo(t)) = InfoSize
         /\ LET e == Len(seq[t].events)  d == Len(seq[t].data)
            IN  /\ TrackInfo(t)[1] = Field(e) /\ TrackInfo(t)[2] = Field(e)
                /\ TrackInfo(t)[3] = Field(e) /\ TrackInfo(t)[4] = Field(d)
                /\ TrackInfo(t)[5] = Field(d)
<1>1. PICK e, d : e = Len(seq[t].events) /\ d = Len(seq[t].data)
  OBVIOUS
<1>2. e \in Nat /\ d \in Nat
  BY <1>1, SizeFacts, CellTypes
<1>3. PICK fe, fd : fe = Field(e) /\ fd = Field(d)
  OBVIOUS
<1>4. fe \in Fields /\ fd \in Fields
  BY <1>2, <1>3, CellTypes
<1>5. TrackInfo(t) = <<fe, fe, fe, fd, fd>>
  BY <1>1, <1>3 DEF TrackInfo
<1>6. <<fe, fe, fe, fd, fd>> \in Seq(Fields) /\ Len(<<fe, fe, fe, fd, fd>>) = 5
  BY <1>4
<1> QED BY <1>1, <1>3, <1>5, <1>6 DEF InfoSize

\* A row with packed sizes is a row, with its first two fields.
PackedRow(row, e, d) == [row EXCEPT ![3] = e, ![5] = d]

LEMMA PackedRowType ==
  ASSUME NEW S, NEW o \in Seq(S), Len(o) = InfoSize, NEW a \in S, NEW b \in S
  PROVE  /\ PackedRow(o, a, b) \in Seq(S) /\ Len(PackedRow(o, a, b)) = InfoSize
         /\ PackedRow(o, a, b)[1] = o[1] /\ PackedRow(o, a, b)[2] = o[2]
<1>1. PICK r : r = PackedRow(o, a, b)
  OBVIOUS
<1>2. o \in [1..InfoSize -> S] /\ InfoSize \in Nat
  BY DEF InfoSize
<1>3. r \in [1..InfoSize -> S]
  BY <1>1, <1>2 DEF PackedRow
<1>4. r[1] = o[1] /\ r[2] = o[2]
  BY <1>1, <1>2 DEF PackedRow, InfoSize
<1>5. r \in Seq(S) /\ Len(r) = InfoSize
  BY ONLY <1>2, <1>3
<1> QED BY <1>1, <1>4, <1>5

\* Packing leaves a first block that is not empty, and its row of the same form.
LEMMA PackedShape ==
  ASSUME Shape, Stages, SaveCompresses
  PROVE  /\ seq' \in Seq(Stored) /\ Len(seq') = Len(seq)
         /\ \A t \in 1..Len(seq') : Len(seq'[t].events) >= 1
         /\ trackInfo' \in Seq(Seq(Fields)) /\ Len(trackInfo') = Len(seq)
         /\ \A t \in 1..Len(trackInfo') : /\ Len(trackInfo'[t]) = InfoSize
                                          /\ trackInfo'[t][1] = trackInfo'[t][2]
<1>1. PICK e \in 1..Len(seq[1].events) - 1, d \in 1..Len(seq[1].data) - 1 : PackedBlocks(e, d)
  BY DEF SaveCompresses
<1>2. /\ Len(seq) >= 1 /\ Len(seq) \in Nat /\ Len(trackInfo) = Len(seq) /\ 1 \in 1..Len(seq)
      /\ Len(seq[1].events) \in Nat /\ Len(seq[1].data) \in Nat
  BY SizeFacts, CellTypes DEF Stages, SaveCompresses, SavePcs
<1>3. e \in Nat /\ d \in Nat /\ e >= 1
  BY <1>1, <1>2
<1>4. PICK pe, pd : pe = Part("packed event", 1, e) /\ pd = Part("packed data", 1, d)
  OBVIOUS
<1>5. pe \in Seq(Parts) /\ pd \in Seq(Parts) /\ Len(pe) = e
  BY <1>3, <1>4, PartType DEF Kinds
<1>6. seq' = [seq EXCEPT ![1] = [events |-> pe, data |-> pd]]
  BY <1>1, <1>4 DEF PackedBlocks
<1>7. /\ seq' \in Seq(Stored) /\ Len(seq') = Len(seq)
      /\ \A t \in 1..Len(seq') : Len(seq'[t].events) >= 1
  <2>1. [events |-> pe, data |-> pd] \in Stored
    BY <1>5 DEF Stored
  <2>2. /\ seq' \in Seq(Stored) /\ Len(seq') = Len(seq)
        /\ \A t \in 1..Len(seq) : seq'[t] = IF t = 1 THEN [events |-> pe, data |-> pd] ELSE seq[t]
    BY <1>2, <1>6, <2>1, ExceptSeq DEF Shape
  <2>3. ASSUME NEW t \in 1..Len(seq) PROVE Len(seq'[t].events) >= 1
    <3>1. CASE t = 1
      BY <1>3, <1>5, <2>2, <3>1
    <3>2. CASE t # 1
      BY <2>2, <3>2 DEF Shape
    <3> QED BY <3>1, <3>2
  <2> QED BY <2>2, <2>3
<1>8. PICK row : row = PackedRow(trackInfo[1], Field(e), Field(d))
  OBVIOUS
<1>9. trackInfo' = [trackInfo EXCEPT ![1] = row]
  BY <1>1, <1>8 DEF PackedBlocks, PackedRow
<1>10. row \in Seq(Fields) /\ Len(row) = InfoSize /\ row[1] = row[2]
  <2>1. /\ trackInfo[1] \in Seq(Fields) /\ Len(trackInfo[1]) = InfoSize
        /\ trackInfo[1][1] = trackInfo[1][2]
    BY <1>2 DEF Shape
  <2>2. Field(e) \in Fields /\ Field(d) \in Fields
    BY <1>3, CellTypes
  <2>3. PICK o, x, y : o = trackInfo[1] /\ x = Field(e) /\ y = Field(d)
    OBVIOUS
  <2>4. row = PackedRow(o, x, y)
    BY <1>8, <2>3
  <2>5. o \in Seq(Fields) /\ Len(o) = InfoSize /\ x \in Fields /\ y \in Fields /\ o[1] = o[2]
    BY <2>1, <2>2, <2>3
  <2> QED BY <2>4, <2>5, PackedRowType, ZenonT(60)
<1>11. /\ trackInfo' \in Seq(Seq(Fields)) /\ Len(trackInfo') = Len(trackInfo)
       /\ \A t \in 1..Len(trackInfo) : trackInfo'[t] = IF t = 1 THEN row ELSE trackInfo[t]
  BY <1>2, <1>9, <1>10, ExceptSeq DEF Shape
<1> QED BY <1>2, <1>7, <1>10, <1>11 DEF Shape

LEMMA ShapeInit == Init => Shape /\ Stages
<1> SUFFICES ASSUME Init PROVE Shape /\ Stages
  OBVIOUS
<1>1. song \in Seq(Size) /\ Len(song) >= 1 /\ Len(song) \in Nat
  BY SongsAssumption DEF Init
<1>2. seq \in Seq(Stored) /\ Len(seq) = Len(song)
  BY <1>1, BlocksType DEF Init
<1>3. ASSUME NEW t \in 1..Len(seq) PROVE Len(seq[t].events) >= 1
  <2>1. Len(seq[t].events) = song[t].events /\ song[t] \in Size
    BY <1>1, <1>2, BlocksType DEF Init
  <2> QED BY <2>1 DEF Size
<1>4. room \in 0..ROOM_MAX
  BY RoomAssumption DEF Init, HeaderSize
<1>5. << >> \in Seq(Cells) /\ << >> \in Seq(Seq(Fields)) /\ Len(<< >>) = 0
  OBVIOUS
<1>6. pc \in AllPcs /\ trk \in 1..Len(song)
  BY <1>1 DEF Init, AllPcs, SavePcs
<1>7. /\ trackInfo \in Seq(Seq(Fields)) /\ Len(trackInfo) = 0 /\ disk \in Seq(Cells)
      /\ song \in Songs /\ compress = FALSE /\ memFailed = FALSE /\ ioError = FALSE
      /\ saved = "no" /\ loaded = "no" /\ \A t \in 1..Len(trackInfo) : FALSE
  BY <1>5 DEF Init
<1>8. Shape
  BY <1>2, <1>3, <1>4, <1>6, <1>7 DEF Shape
<1> QED BY <1>8 DEF Stages, Init, SavePcs

LEMMA ShapeStep == ASSUME Shape, Stages, [Next]_vars PROVE Shape'
<1> USE DEF loading, SaveReturns
<1>1. CASE SaveStarts
  <2>1. trackInfo' = [t \in 1..Len(seq) |-> TrackInfo(t)]
    BY <1>1 DEF SaveStarts
  <2>2. Len(seq) \in Nat
    BY SizeFacts
  <2>3. trackInfo' \in Seq(Seq(Fields)) /\ Len(trackInfo') = Len(seq)
    BY <2>1, <2>2, TrackInfoType
  <2>4. \A t \in 1..Len(trackInfo') : /\ Len(trackInfo'[t]) = InfoSize
                                      /\ trackInfo'[t][1] = trackInfo'[t][2]
    BY <2>1, <2>3, TrackInfoType
  <2>5. pc' \in SavePcs /\ pc \in SavePcs /\ pc' \in AllPcs
    BY <1>1 DEF SaveStarts, SavePcs, AllPcs, Writes
  <2> QED BY <1>1, <2>3, <2>4, <2>5 DEF SaveStarts, Shape
<1>2. CASE SaveCannotStart
  BY <1>2 DEF SaveCannotStart, Shape, AllPcs, SavePcs, Writes
<1>3. CASE SaveCompresses
  <2>1. pc' \in SavePcs /\ pc \in SavePcs /\ pc' \in AllPcs
    BY <1>3 DEF SaveCompresses, SavePcs, AllPcs, Writes
  <2> QED BY <1>3, <2>1, PackedShape DEF SaveCompresses, Shape
<1>4. CASE SaveCannotCompress
  BY <1>4 DEF SaveCannotCompress, Shape, AllPcs, SavePcs, Writes
<1>5. CASE SaveHeader
  <2>1. trk \in 1..Len(song) /\ Header \in Seq(Cells)
    BY <1>5, CellTypes DEF Shape, SaveHeader, SavePcs, Header
  <2> QED BY <1>5, <2>1, HeaderPuts, PutsShape DEF Writes, Written
<1>6. CASE SaveTrackInfo
  <2>1. trk \in 1..Len(song) /\ FlattenSeq(trackInfo) \in Seq(Cells)
    BY <1>6, CellTypes DEF Shape, SaveTrackInfo, SavePcs, Writes
  <2> QED BY <1>6, <2>1, TrackInfoPuts, PutsShape DEF Writes, Written
<1>7. CASE SaveEvents
  BY <1>7, EventsPuts, PutsShape, CellTypes DEF Writes, Written
<1>8. CASE SaveData
  <2>1. /\ trk \in 1..Len(song) /\ Len(song) \in Nat /\ Len(seq) = Len(song)
        /\ seq[trk].data \in Seq(Cells) /\ song' = song /\ UNCHANGED Written
    BY <1>8, DataPuts, SizeFacts, CellTypes DEF Written
  <2> DEFINE next == IF trk < Len(seq) THEN pc' = "events" /\ trk' = trk + 1
                                       ELSE pc' = "close" /\ UNCHANGED trk
  <2>2. next => pc' \in Writes /\ trk' \in 1..Len(song)
    BY <2>1 DEF Writes
  <2>3. Puts(seq[trk].data, Len(seq[trk].data), next)
    BY <1>8, DataPuts
  <2> HIDE DEF next
  <2> QED BY <2>1, <2>2, <2>3, PutsShape
<1>9. CASE SaveCloses
  BY <1>9 DEF SaveCloses, Shape, AllPcs, SavePcs, Writes
<1>10. CASE \/ LoadHeader \/ LoadCannotStart \/ LoadTrackInfo \/ LoadTrack
            \/ LoadRunsOutOfMemory \/ LoadUnpacksEvents \/ LoadUnpacksData \/ LoadCopies
            \/ LoadEvents \/ LoadData \/ LoadCloses
  BY <1>10, LoaderGoesOn, LoaderShape
<1>11. CASE UNCHANGED vars
  BY <1>11 DEF Shape, vars, saving
<1> QED BY <1>1, <1>2, <1>3, <1>4, <1>5, <1>6, <1>7, <1>8, <1>9, <1>10, <1>11 DEF Next

LEMMA PutsStages ==
  ASSUME Stages, UNCHANGED Written, NEW cells, NEW wanted, NEW ACTION next,
         Puts(cells, wanted, next), pc \in SavePcs \ {"start"},
         next => pc' \in Writes /\ (pc' = "infos" => trk' = 1)
  PROVE  Stages'
<1> USE DEF SavePcs, Writes
<1>1. saved = "no" /\ tracks = << >> /\ infos = << >> /\ Len(trackInfo) = Len(seq) /\ loaded = "no"
  BY DEF Stages
<1>2. \/ next /\ saved' = saved
      \/ SaveReturns("error")
  BY DEF Puts
<1> QED BY <1>1, <1>2 DEF Stages, Written, loading, SaveReturns

LEMMA StagesStep == ASSUME Shape, Stages, [Next]_vars PROVE Stages'
<1> USE DEF loading, SaveReturns, SavePcs, Writes, Written
<1>1. CASE SaveStarts
  <2>1. Len(trackInfo') = Len(seq)
    BY <1>1, SizeFacts DEF SaveStarts
  <2> QED BY <1>1, <2>1 DEF SaveStarts, Stages
<1>2. CASE SaveCannotStart \/ SaveCannotCompress \/ SaveCloses
  BY <1>2 DEF SaveCannotStart, SaveCannotCompress, SaveCloses, Stages
<1>3. CASE SaveCompresses
  BY <1>3, PackedShape DEF SaveCompresses, Stages
<1>4. CASE SaveHeader
  <2>1. trk = 1
    BY <1>4 DEF Stages, SaveHeader
  <2> QED BY <1>4, <2>1, HeaderPuts, PutsStages
<1>5. CASE SaveTrackInfo
  BY <1>5, TrackInfoPuts, PutsStages
<1>6. CASE SaveEvents
  BY <1>6, EventsPuts, PutsStages
<1>7. CASE SaveData
  BY <1>7, DataPuts, PutsStages
<1>8. CASE \/ LoadHeader \/ LoadCannotStart \/ LoadTrackInfo \/ LoadTrack
           \/ LoadRunsOutOfMemory \/ LoadUnpacksEvents \/ LoadUnpacksData \/ LoadCopies
           \/ LoadEvents \/ LoadData \/ LoadCloses
  <2>1. /\ UNCHANGED <<song, saving>> /\ pc \notin SavePcs /\ pc' \notin SavePcs
        /\ pc' # "saved" /\ (loaded' = "no" <=> pc' # "loaded")
    BY <1>8, LoaderGoesOn DEF Stages
  <2>2. pc' = "readInfos" => trk' = 1
    <3>1. ASSUME pc' = "readInfos" PROVE LoadHeader
      BY <1>8, <3>1
      DEF LoadCannotStart, LoadTrackInfo, LoadTrack, LoadRunsOutOfMemory, LoadUnpacksEvents,
          LoadUnpacksData, LoadCopies, LoadEvents, LoadData, LoadCloses, LoadReturns, Fread
    <3> QED BY <3>1 DEF LoadHeader, Fread, Stages
  <2> QED BY <2>1, <2>2 DEF Stages, saving
<1>9. CASE UNCHANGED vars
  BY <1>9 DEF Stages, vars, saving
<1> QED BY <1>1, <1>2, <1>3, <1>4, <1>5, <1>6, <1>7, <1>8, <1>9 DEF Next

-----------------------------------------------------------------------------
(* What a file begins with: a header that is right, or one the loader refuses. *)

HasHeader == /\ Len(disk) >= HeaderSize
             /\ disk[1] = Field(ID_NKT) /\ disk[2] = Field(NKT_VERSION)
             /\ disk[3] = Field(Len(song))

Unreadable == Len(disk) >= 2 => ~(disk[1] = Field(ID_NKT) /\ disk[2] = Field(NKT_VERSION))

Beginning ==
  /\ pc \in {"start", "compress", "header"} =>
       disk = << >> /\ room \in {0} \cup HeaderSize..ROOM_MAX
  /\ pc = "infos" => disk \in {<< >>, Header}
  /\ HasHeader \/ Unreadable

\* Writing blocks on leaves the header right, or the file unreadable.
LEMMA WritesOn ==
  ASSUME Shape, UNCHANGED song, HasHeader \/ Unreadable, NEW c \in Seq(Parts), disk' = disk \o c
  PROVE  (HasHeader \/ Unreadable)'
<1>1. PICK d : d = disk
  OBVIOUS
<1>2. d \in Seq(Cells) /\ c \in Seq(Cells) /\ disk' = d \o c
  BY <1>1, CellTypes, SeqMonotonic DEF Shape
<1>0. Len(d) \in Nat /\ Len(c) \in Nat
  BY ONLY <1>2
<1>3. /\ Len(disk') = Len(d) + Len(c) /\ Len(d) \in Nat /\ Len(c) \in Nat
      /\ \A i \in 1..Len(d) : disk'[i] = d[i]
      /\ \A i \in 1..Len(c) : disk'[Len(d) + i] = c[i]
  BY ONLY <1>2
<1>4. \A i \in 1..Len(c) : c[i] # Field(ID_NKT) /\ c[i] # Field(NKT_VERSION)
  <2>1. \A i \in 1..Len(c) : c[i] \in Parts
    OBVIOUS
  <2>2. Field(ID_NKT) \notin Parts /\ Field(NKT_VERSION) \notin Parts
    BY CellTypes DEF ID_NKT, NKT_VERSION
  <2> QED BY <2>1, <2>2
<1>5. CASE HasHeader
  BY <1>1, <1>3, <1>5 DEF HasHeader, HeaderSize
<1>6. CASE Unreadable
  <2>1. CASE Len(d) >= 2
    BY <1>1, <1>3, <1>6, <2>1 DEF Unreadable
  <2>2. CASE Len(d) = 1
    <3>1. Len(disk') >= 2 => disk'[2] = c[1] /\ 1 \in 1..Len(c)
      BY <1>3, <2>2
    <3> QED BY <1>4, <3>1 DEF Unreadable
  <2>3. CASE Len(d) = 0
    <3>1. Len(disk') >= 2 => disk'[1] = c[1] /\ 1 \in 1..Len(c)
      BY <1>3, <2>3
    <3> QED BY <1>4, <3>1 DEF Unreadable
  <2>4. Len(d) >= 2 \/ Len(d) = 1 \/ Len(d) = 0
    <3>1. \A n \in Nat : n >= 2 \/ n = 1 \/ n = 0
      OBVIOUS
    <3> QED BY <1>0, <3>1, Zenon
  <2> QED BY <2>1, <2>2, <2>3, <2>4, Zenon
<1> QED BY <1>5, <1>6

\* The track information begins with the same number twice, as no header does.
LEMMA InfosUnreadable ==
  ASSUME Shape, Len(trackInfo) = Len(seq), disk = << >>,
         NEW w \in 0..Len(FlattenSeq(trackInfo)),
         disk' = disk \o SubSeq(FlattenSeq(trackInfo), 1, w)
  PROVE  Unreadable'
<1>1. /\ trackInfo \in Seq(Seq(Fields)) /\ Len(trackInfo) >= 1 /\ Len(trackInfo) \in Nat
      /\ \A t \in 1..Len(trackInfo) : Len(trackInfo[t]) = InfoSize
      /\ trackInfo[1][1] = trackInfo[1][2]
  BY SizeFacts DEF Shape
<1>2. PICK x : x = FlattenSeq(trackInfo)
  OBVIOUS
<1>3. x \in Seq(Cells) /\ x = Together(trackInfo, Len(trackInfo))
  BY <1>1, <1>2, CellTypes, TogetherGrows
<1>4. Len(trackInfo) \in 0..Len(trackInfo) /\ 1 \in 1..Len(trackInfo)
  BY <1>1
<1>5. \A f \in 1..InfoSize : x[(1 - 1) * InfoSize + f] = trackInfo[1][f]
  BY <1>1, <1>3, <1>4, RowsTogether
<1>6. x[1] = x[2]
  <2>1. 1 \in 1..InfoSize /\ 2 \in 1..InfoSize /\ (1 - 1) * InfoSize + 1 = 1
        /\ (1 - 1) * InfoSize + 2 = 2
    BY DEF InfoSize
  <2> QED BY <1>1, <1>5, <2>1
<1>7. disk' = SubSeq(x, 1, w)
  <2>1. SubSeq(x, 1, w) \in Seq(Cells)
    BY <1>2, <1>3, SubSeqProperties
  <2> QED BY <1>2, <2>1
<1>8. Len(disk') >= 2 => disk'[1] = disk'[2]
  BY <1>2, <1>3, <1>6, <1>7
<1>9. Field(ID_NKT) # Field(NKT_VERSION)
  BY DEF Field, ID_NKT, NKT_VERSION
<1> QED BY <1>8, <1>9 DEF Unreadable

LEMMA HeaderType ==
  ASSUME Shape
  PROVE  /\ Header \in Seq(Cells) /\ Len(Header) = HeaderSize /\ Len(Header) >= HeaderSize
         /\ Header[1] = Field(ID_NKT) /\ Header[2] = Field(NKT_VERSION)
         /\ Header[3] = Field(Len(song))
<1>1. Header \in Seq(Cells)
  BY CellTypes DEF Header
<1> QED BY <1>1 DEF Header, HeaderSize

LEMMA WritesOnFromHeader ==
  ASSUME Shape, UNCHANGED song, HasHeader, NEW c \in Seq(Cells), disk' = disk \o c
  PROVE  HasHeader'
<1>1. PICK d : d = disk
  OBVIOUS
<1>2. d \in Seq(Cells) /\ disk' = d \o c
  BY <1>1 DEF Shape
<1>3. /\ Len(disk') = Len(d) + Len(c) /\ Len(d) \in Nat /\ Len(c) \in Nat
      /\ \A i \in 1..Len(d) : disk'[i] = d[i]
  BY ONLY <1>2
<1> QED BY <1>1, <1>3 DEF HasHeader, HeaderSize

\* The header is written as a whole or not at all.
LEMMA HeaderWritten ==
  ASSUME Shape, Beginning, SaveHeader
  PROVE  /\ song' = song /\ disk = << >>
         /\ \/ disk' = Header /\ pc' = "infos"
            \/ disk' = << >> /\ (SaveReturns("error") \/ (pc' = "infos" /\ ioError'))
<1>1. /\ pc = "header" /\ song' = song
      /\ Puts(Header, HeaderSize, pc' = "infos" /\ UNCHANGED trk)
  BY HeaderPuts DEF Written
<1>2. disk = << >> /\ room \in {0} \cup HeaderSize..ROOM_MAX
  BY <1>1 DEF Beginning
<1>3. CASE UNCHANGED disk /\ pc' = "infos" /\ ioError' = TRUE
  BY <1>1, <1>2, <1>3
<1>4. CASE ~(UNCHANGED disk /\ pc' = "infos" /\ ioError' = TRUE)
  <2>1. PICK w \in 0..Len(Header) :
          /\ disk' = disk \o SubSeq(Header, 1, w) /\ room' = room - w /\ room' \in Nat
          /\ w = Len(Header) \/ room' = 0
          /\ \/ w < HeaderSize /\ SaveReturns("error")
             \/ w >= HeaderSize /\ pc' = "infos"
    BY <1>1, <1>4 DEF Puts
  <2>2. w = HeaderSize \/ w = 0
    <3>1. w \in 0..3
      BY HeaderType DEF HeaderSize
    <3>2. room = 0 \/ room \in 3..ROOM_MAX
      BY <1>2 DEF HeaderSize
    <3>3. w = 3 \/ room - w = 0
      BY <2>1, HeaderType DEF HeaderSize
    <3>4. w = 3 \/ w = 0
      BY ONLY <3>1, <3>2, <3>3, RoomAssumption
    <3> QED BY <3>4 DEF HeaderSize
  <2>3. CASE w = HeaderSize
    <3>1. SubSeq(Header, 1, w) = Header
      BY <2>3, HeaderType, SubSeqFull
    <3>2. << >> \o Header = Header
      BY HeaderType
    <3>3. ~(w < HeaderSize)
      BY <2>3 DEF HeaderSize
    <3> QED BY <1>1, <1>2, <2>1, <3>1, <3>2, <3>3
  <2>4. CASE w = 0 /\ w # HeaderSize
    <3>1. SubSeq(Header, 1, 0) = << >> /\ << >> \o << >> = << >>
      BY SubSeqEmpty
    <3>2. disk' = << >>
      BY <1>2, <2>1, <2>4, <3>1
    <3>3. ~(w >= HeaderSize)
      BY <2>4 DEF HeaderSize
    <3> QED BY <1>1, <1>2, <2>1, <3>2, <3>3
  <2> QED BY <2>2, <2>3, <2>4
<1> QED BY <1>3, <1>4

LEMMA BeginningStep ==
  ASSUME Shape, Stages, Beginning, [Next]_vars PROVE Beginning'
<1> USE DEF SaveReturns
<1>1. CASE SaveStarts \/ SaveCannotStart \/ SaveCompresses \/ SaveCannotCompress \/ SaveCloses
  <2>1. UNCHANGED <<song, disk, room>>
    BY <1>1 DEF SaveStarts, SaveCannotStart, SaveCompresses, SaveCannotCompress, SaveCloses
  <2>2. /\ pc' # "infos"
        /\ pc' \in {"start", "compress", "header"} => pc \in {"start", "compress", "header"}
    BY <1>1 DEF SaveStarts, SaveCannotStart, SaveCompresses, SaveCannotCompress, SaveCloses
  <2> QED BY <2>1, <2>2 DEF Beginning, HasHeader, Unreadable
<1>2. CASE SaveHeader
  <2>1. /\ song' = song /\ pc' \in {"infos", "saved"}
        /\ disk' = Header \/ disk' = << >>
        /\ pc' = "infos" => disk' \in {<< >>, Header}
    BY <1>2, HeaderWritten
  <2>2. Header' = Header
    BY <2>1 DEF Header
  <2>3. CASE disk' = Header
    <3>1. HasHeader'
      BY <2>1, <2>3, HeaderType DEF HasHeader, HeaderSize
    <3> QED BY <2>1, <2>2, <3>1 DEF Beginning
  <2>4. CASE disk' = << >>
    <3>1. Unreadable'
      BY <2>4 DEF Unreadable
    <3> QED BY <2>1, <2>2, <2>4, <3>1 DEF Beginning
  <2> QED BY <2>1, <2>3, <2>4
<1>3. CASE SaveTrackInfo
  <2>1. /\ pc = "infos" /\ UNCHANGED Written /\ song' = song
        /\ Puts(FlattenSeq(trackInfo), 1, pc' = "events" /\ UNCHANGED trk)
    BY <1>3, TrackInfoPuts DEF Written
  <2>2. disk \in {<< >>, Header} /\ Len(trackInfo) = Len(seq)
    BY <2>1 DEF Beginning, Stages, SavePcs, Writes
  <2>3. pc' \in {"events", "saved"}
    BY <2>1 DEF Puts
  <2>4. CASE UNCHANGED disk
    BY <2>1, <2>3, <2>4 DEF Beginning, HasHeader, Unreadable
  <2>5. CASE ~UNCHANGED disk
    <3>1. PICK w \in 0..Len(FlattenSeq(trackInfo)) :
            disk' = disk \o SubSeq(FlattenSeq(trackInfo), 1, w)
      BY <2>1, <2>5 DEF Puts
    <3>2. CASE disk = << >>
      <4>1. Unreadable'
        BY <2>2, <3>1, <3>2, InfosUnreadable
      <4> QED BY <2>3, <4>1 DEF Beginning
    <3>3. CASE disk = Header
      <4>1. HasHeader
        BY <3>3, HeaderType DEF HasHeader, HeaderSize
      <4>2. SubSeq(FlattenSeq(trackInfo), 1, w) \in Seq(Cells)
        BY CellTypes, SubSeqProperties
      <4>3. HasHeader'
        BY <2>1, <3>1, <4>1, <4>2, WritesOnFromHeader
      <4> QED BY <2>3, <4>3 DEF Beginning
    <3> QED BY <2>2, <3>2, <3>3
  <2> QED BY <2>4, <2>5
<1>4. ASSUME NEW cells \in Seq(Parts), NEW wanted, NEW ACTION next, UNCHANGED Written,
             Puts(cells, wanted, next), next => pc' \in {"events", "data", "close"}
      PROVE  Beginning'
  <2>1. song' = song /\ pc' \in {"events", "data", "close", "saved"}
    BY <1>4 DEF Puts, Written
  <2>2. CASE UNCHANGED disk
    BY <2>1, <2>2 DEF Beginning, HasHeader, Unreadable
  <2>3. CASE ~UNCHANGED disk
    <3>1. PICK w \in 0..Len(cells) : disk' = disk \o SubSeq(cells, 1, w)
      BY <1>4, <2>3 DEF Puts
    <3>2. SubSeq(cells, 1, w) \in Seq(Parts)
      BY SubSeqProperties
    <3>3. (HasHeader \/ Unreadable)'
      BY <2>1, <3>1, <3>2, WritesOn DEF Beginning
    <3> QED BY <2>1, <3>3 DEF Beginning
  <2> QED BY <2>2, <2>3
<1>5. CASE SaveEvents
  BY <1>4, <1>5, EventsPuts, CellTypes
<1>6. CASE SaveData
  <2> DEFINE next == IF trk < Len(seq) THEN pc' = "events" /\ trk' = trk + 1
                                       ELSE pc' = "close" /\ UNCHANGED trk
  <2>1. next => pc' \in {"events", "data", "close"}
    OBVIOUS
  <2>2. UNCHANGED Written /\ seq[trk].data \in Seq(Parts)
        /\ Puts(seq[trk].data, Len(seq[trk].data), next)
    BY <1>6, DataPuts, CellTypes
  <2> HIDE DEF next
  <2> QED BY <1>4, <2>1, <2>2
<1>7. CASE \/ LoadHeader \/ LoadCannotStart \/ LoadTrackInfo \/ LoadTrack
           \/ LoadRunsOutOfMemory \/ LoadUnpacksEvents \/ LoadUnpacksData \/ LoadCopies
           \/ LoadEvents \/ LoadData \/ LoadCloses
  <2>1. UNCHANGED <<song, saving>> /\ pc' \notin SavePcs
    BY <1>7, LoaderGoesOn
  <2> QED BY <2>1 DEF Beginning, HasHeader, Unreadable, saving, SavePcs, Writes
<1>8. CASE UNCHANGED vars
  BY <1>8 DEF Beginning, HasHeader, Unreadable, vars, saving, Header
<1> QED BY <1>1, <1>2, <1>3, <1>5, <1>6, <1>7, <1>8 DEF Next

LEMMA BeginningInit == Init => Beginning
  BY DEF Init, Beginning, Unreadable

-----------------------------------------------------------------------------
(* What the loader keeps.                                                  *)

Loading ==
  /\ trk \in 1..Len(song) + 1 /\ pos \in Nat
  /\ infos \in Seq(Seq(Nat)) /\ Len(infos) <= Len(song)
  /\ tracks \in Seq(Memory) /\ unpacked \in Memory /\ Len(tracks) <= Len(infos)
  /\ pc \in TrackPcs => trk <= Len(infos)
  /\ pc \in TrackPcs \cup {"track"} =>
       Len(tracks) = trk - 1 /\ \A t \in 1..Len(infos) : Len(infos[t]) = InfoSize
  /\ pc = "readInfos" => tracks = << >>

LEMMA FoundType ==
  ASSUME Shape, NEW p \in Nat, NEW n \in Nat
  PROVE  /\ Found(p, n) \in Seq(Cells) /\ Len(Found(p, n)) \in Nat
         /\ \A k \in 1..Len(Found(p, n)) : Found(p, n)[k] = disk[p + k]
         /\ p <= Len(disk) => Len(Found(p, n)) = IF p + n <= Len(disk) THEN n ELSE Len(disk) - p
<1> DEFINE q == IF p + n <= Len(disk) THEN p + n ELSE Len(disk)
<1>1. disk \in Seq(Cells) /\ Len(disk) \in Nat /\ q \in Nat /\ q <= Len(disk)
  BY DEF Shape
<1> HIDE DEF q
<1>2. p + 1 \in Int /\ q \in Int /\ \A i \in p + 1..q : disk[i] \in Cells
  BY <1>1
<1> DEFINE x == SubSeq(disk, p + 1, q)
<1>3. x \in Seq(Cells)
  BY <1>2, SubSeqProperties
<1>4. Len(x) = IF p + 1 <= q THEN q - (p + 1) + 1 ELSE 0
  BY <1>2, SubSeqProperties
<1>5. \A k \in 1..q - (p + 1) + 1 : x[k] = disk[(p + 1) + k - 1]
  BY <1>2, SubSeqProperties
<1> HIDE DEF x
<1>6. Len(x) \in Nat /\ (Len(x) > 0 => q - (p + 1) + 1 = Len(x))
  BY <1>1, <1>4
<1>7. ASSUME NEW k \in 1..Len(x) PROVE x[k] = disk[p + k]
  <2>1. k \in 1..q - (p + 1) + 1 /\ (p + 1) + k - 1 = p + k
    BY <1>6
  <2> QED BY <1>5, <2>1
<1>8. p <= Len(disk) => Len(x) = IF p + n <= Len(disk) THEN n ELSE Len(disk) - p
  BY <1>1, <1>4 DEF q
<1>9. Found(p, n) = x
  BY DEF Found, q, x
<1> QED BY <1>3, <1>6, <1>7, <1>8, <1>9

LEMMA FoundCells ==
  ASSUME Shape, NEW p \in Nat, NEW n \in Nat
  PROVE  Found(p, n) \in Seq(Cells) /\ Len(Found(p, n)) \in Nat
  BY FoundType

LEMMA FilledType ==
  ASSUME NEW n \in Nat, NEW S, NEW cells \in Seq(S), NEW before \in S
  PROVE  Filled(n, cells, before) \in Seq(S) /\ Len(Filled(n, cells, before)) = n
<1> DEFINE g == [k \in 1..n |-> IF k <= Len(cells) THEN cells[k] ELSE before]
<1>1. g \in [1..n -> S]
  OBVIOUS
<1> HIDE DEF g
<1>2. g \in Seq(S) /\ Len(g) = n
  BY <1>1
<1> QED BY <1>2 DEF Filled, g

LEMMA DecompressType == ASSUME Shape, NEW source PROVE Decompress(source) \in Seq(Cells)
<1>1. /\ Blocks(song)[1].events \in Seq(Cells) /\ Blocks(song)[1].data \in Seq(Cells)
  <2>1. Blocks(song)[1] \in Stored
    BY SizeFacts, BlocksType
  <2>2. Blocks(song)[1].events \in Seq(Parts) /\ Blocks(song)[1].data \in Seq(Parts)
    BY <2>1 DEF Stored
  <2> QED BY <2>2, CellTypes, SeqMonotonic
<1>2. <<Junk>> \in Seq(Cells)
  BY CellTypes
<1>3. Decompress(source) \in {Blocks(song)[1].events, Blocks(song)[1].data, <<Junk>>}
  BY DEF Decompress
<1> QED BY <1>1, <1>2, <1>3

LEMMA InfosType ==
  ASSUME NEW n \in Nat, NEW all \in Seq(Cells), Len(all) = InfoSize * n
  PROVE  LET new == [t \in 1..n |-> InfoOf(all, t)]
         IN  /\ new \in Seq(Seq(Nat)) /\ Len(new) = n
             /\ \A t \in 1..Len(new) : Len(new[t]) = InfoSize
<1>1. \A c \in Cells : c[3] \in Nat
  BY DEF Cells, Parts, Fields, Junk
<1>2. ASSUME NEW t \in 1..n PROVE InfoOf(all, t) \in [1..InfoSize -> Nat]
  <2>1. ASSUME NEW f \in 1..InfoSize PROVE all[(t - 1) * InfoSize + f] \in Cells
    <3>1. (t - 1) * InfoSize + f \in 1..Len(all)
      BY DEF InfoSize
    <3> QED BY <3>1
  <2> QED BY <1>1, <2>1 DEF InfoOf
<1>3. ASSUME NEW t \in 1..n PROVE InfoOf(all, t) \in Seq(Nat) /\ Len(InfoOf(all, t)) = InfoSize
  <2>1. InfoSize \in Nat
    BY DEF InfoSize
  <2> QED BY <1>2, <2>1
<1> DEFINE new == [t \in 1..n |-> InfoOf(all, t)]
<1>4. new \in [1..n -> Seq(Nat)] /\ \A t \in 1..n : Len(new[t]) = InfoSize
  BY <1>3
<1> HIDE DEF new
<1>5. new \in Seq(Seq(Nat)) /\ Len(new) = n
  BY <1>4
<1> QED BY <1>4, <1>5 DEF new

LEMMA SizesType ==
  ASSUME Loading, pc \in TrackPcs
  PROVE  trk \in 1..Len(infos) /\ EventsSize(trk) \in Nat /\ DataSize(trk) \in Nat
<1>1. trk \in 1..Len(infos)
  BY DEF Loading
<1>2. infos[trk] \in Seq(Nat) /\ Len(infos[trk]) = 5
  BY <1>1 DEF Loading, InfoSize
<1> QED BY <1>1, <1>2 DEF EventsSize, DataSize

\* One of the two blocks of a track is put into its buffer.
LEMMA MemoryType ==
  ASSUME unpacked \in Memory, NEW c \in Seq(Cells)
  PROVE  [unpacked EXCEPT !.events = c] \in Memory /\ [unpacked EXCEPT !.data = c] \in Memory
  BY DEF Memory

\* Memory that cells were read into has them, and what was there before.
LEMMA FilledCells ==
  ASSUME NEW n \in Nat, NEW cells, Len(cells) \in Nat, NEW before, NEW k \in 1..n
  PROVE  /\ k <= Len(cells) => Filled(n, cells, before)[k] = cells[k]
         /\ k > Len(cells) => Filled(n, cells, before)[k] = before
  BY DEF Filled

\* The header that is read: the song's, or the file is refused.
LEMMA HeaderRead ==
  ASSUME Shape, Beginning, LoadHeader
  PROVE  \/ /\ pc' = "readInfos" /\ HasHeader /\ pos' = HeaderSize
            /\ infos' = [t \in 1..Len(song) |-> << >>] /\ UNCHANGED <<loaded, ioError>>
         \/ /\ pc' = "loaded" /\ loaded' = "null" /\ pos' \in 0..Len(disk) /\ UNCHANGED infos
            /\ ioError' = TRUE \/ (UNCHANGED ioError /\ ~HasHeader)
<1> DEFINE hd(cells) == Filled(HeaderSize, cells, Zero)
           Got(cells) ==
             IF hd(cells)[1] = Field(ID_NKT) /\ hd(cells)[2] = Field(NKT_VERSION)
             THEN pc' = "readInfos" /\ infos' = [t \in 1..hd(cells)[3][3] |-> << >>]
                  /\ UNCHANGED loaded
             ELSE LoadReturns("null") /\ UNCHANGED infos
<1>1. \/ Got(Found(0, HeaderSize)) /\ pos' = 0 + Len(Found(0, HeaderSize)) /\ UNCHANGED ioError
      \/ Got(<< >>) /\ pos' = 0 /\ ioError' = TRUE
  BY DEF LoadHeader, Fread
<1>3. Zero # Field(NKT_VERSION)
  BY DEF Zero, Field, NKT_VERSION
<1>4. /\ 0 \in Nat /\ HeaderSize \in Nat /\ Len(disk) \in Nat /\ 0 <= Len(disk)
      /\ 1 \in 1..HeaderSize /\ 2 \in 1..HeaderSize /\ 3 \in 1..HeaderSize /\ HeaderSize = 3
  BY DEF HeaderSize, Shape
<1>5. CASE Got(<< >>) /\ pos' = 0 /\ ioError' = TRUE
  <2>1. Len(<< >>) = 0 /\ 2 > 0 /\ 0 \in Nat
    OBVIOUS
  <2>2. hd(<< >>)[2] = Zero
    BY <1>4, <2>1, FilledCells
  <2> QED BY <1>3, <1>4, <1>5, <2>2 DEF LoadReturns
<1>6. CASE /\ Got(Found(0, HeaderSize)) /\ pos' = 0 + Len(Found(0, HeaderSize))
           /\ UNCHANGED ioError
  <2>1. PICK x : x = Found(0, HeaderSize)
    OBVIOUS
  <2>2. PICK h : h = hd(x)
    OBVIOUS
  <2>3. /\ Len(x) \in Nat /\ \A k \in 1..Len(x) : x[k] = disk[k]
        /\ Len(x) = IF 3 <= Len(disk) THEN 3 ELSE Len(disk)
    <3>1. /\ 0 + 3 <= Len(disk) <=> 3 <= Len(disk)
          /\ Len(disk) - 0 = Len(disk)
      BY <1>4
    <3>2. Len(x) \in Nat /\ \A k \in 1..Len(x) : x[k] = disk[0 + k]
      BY <1>4, <2>1, FoundType
    <3>3. Len(x) = IF 0 + HeaderSize <= Len(disk) THEN HeaderSize ELSE Len(disk) - 0
      BY <1>4, <2>1, FoundType
    <3> QED BY <1>4, <3>1, <3>2, <3>3
  <2>4. /\ IF h[1] = Field(ID_NKT) /\ h[2] = Field(NKT_VERSION)
           THEN pc' = "readInfos" /\ infos' = [t \in 1..h[3][3] |-> << >>] /\ UNCHANGED loaded
           ELSE LoadReturns("null") /\ UNCHANGED infos
        /\ pos' = Len(x)
    BY <1>6, <2>1, <2>2, <2>3
  <2>5. \A k \in 1..HeaderSize : /\ k <= Len(x) => h[k] = x[k]
                                 /\ k > Len(x) => h[k] = Zero
    BY <1>4, <2>2, <2>3, FilledCells
  <2> HIDE DEF hd, Got
  <2>6. CASE HasHeader
    <3>1. Len(x) = 3
      BY <1>4, <2>3, <2>6 DEF HasHeader
    <3>2. h[1] = disk[1] /\ h[2] = disk[2] /\ h[3] = disk[3]
      BY <1>4, <2>3, <2>5, <3>1
    <3>3. disk[3][3] = Len(song)
      BY <2>6 DEF HasHeader, Field
    <3>4. /\ pc' = "readInfos" /\ infos' = [t \in 1..h[3][3] |-> << >>]
          /\ UNCHANGED loaded
      BY <2>4, <2>6, <3>2 DEF HasHeader
    <3> QED BY <1>4, <1>6, <2>4, <2>6, <3>1, <3>2, <3>3, <3>4
  <2>7. CASE ~HasHeader
    <3>1. Unreadable
      BY <2>7 DEF Beginning
    <3>2. ~(h[1] = Field(ID_NKT) /\ h[2] = Field(NKT_VERSION))
      <4>1. CASE Len(x) >= 2
        <5>1. Len(disk) >= 2 /\ 1 \in 1..Len(x) /\ 2 \in 1..Len(x)
          BY <1>4, <2>3, <4>1
        <5>2. h[1] = disk[1] /\ h[2] = disk[2]
          BY <1>4, <2>3, <2>5, <4>1, <5>1
        <5> QED BY <3>1, <5>1, <5>2 DEF Unreadable
      <4>2. CASE ~(Len(x) >= 2)
        <5>1. 2 > Len(x)
          BY <2>3, <4>2
        <5> QED BY <1>3, <1>4, <2>5, <5>1
      <4> QED BY <4>1, <4>2
    <3>3. LoadReturns("null") /\ UNCHANGED infos
      BY <2>4, <3>2
    <3> QED BY <1>4, <1>6, <2>3, <2>4, <2>7, <3>3 DEF LoadReturns
  <2> QED BY <2>6, <2>7
<1> QED BY <1>1, <1>5, <1>6

LEMMA SaverGoesOn ==
  ASSUME Shape,
         \/ SaveStarts \/ SaveCannotStart \/ SaveCompresses \/ SaveCannotCompress
         \/ SaveHeader \/ SaveTrackInfo \/ SaveEvents \/ SaveData \/ SaveCloses
  PROVE  /\ UNCHANGED <<song, loading>> /\ pc' \in SavePcs \cup {"saved"}
         /\ ioError' \in BOOLEAN /\ (ioError => ioError')
<1> USE DEF SavePcs, Writes, SaveReturns, Written
<1>1. ioError \in BOOLEAN
  BY DEF Shape
<1>2. CASE SaveStarts
  BY <1>1, <1>2 DEF SaveStarts
<1>8. CASE SaveCompresses
  BY <1>1, <1>8 DEF SaveCompresses
<1>7. CASE SaveCannotStart
  BY <1>1, <1>7 DEF SaveCannotStart
<1>9. CASE SaveCannotCompress
  BY <1>1, <1>9 DEF SaveCannotCompress
<1>10. CASE SaveCloses
  BY <1>1, <1>10 DEF SaveCloses
<1>3. CASE SaveHeader
  BY <1>1, <1>3, HeaderPuts DEF Puts
<1>4. CASE SaveTrackInfo
  BY <1>1, <1>4, TrackInfoPuts DEF Puts
<1>5. CASE SaveEvents
  BY <1>1, <1>5, EventsPuts DEF Puts
<1>6. CASE SaveData
  BY <1>1, <1>6, DataPuts DEF Puts
<1> QED BY <1>2, <1>3, <1>4, <1>5, <1>6, <1>7, <1>8, <1>9, <1>10

\* A read moves on, or fails and stays.
LEMMA ReadMoves ==
  ASSUME Shape, NEW n \in Nat, pos \in Nat, NEW x, x = pos + Len(Found(pos, n)) \/ x = pos
  PROVE  x \in Nat
  BY FoundCells

\* What is read into a buffer is memory.
LEMMA ReadType ==
  ASSUME Shape, NEW p \in Nat, NEW n \in Nat, NEW before \in Cells, NEW c \in {Found(p, n), << >>}
  PROVE  /\ Filled(n, c, before) \in Seq(Cells)
         /\ Filled(n, Decompress(Filled(n, c, before)), before) \in Seq(Cells)
<1>0. Found(p, n) \in Seq(Cells)
  BY FoundCells
<1>1. c \in Seq(Cells)
  <2>1. CASE c = Found(p, n)
    BY <1>0, <2>1
  <2>2. CASE c = << >>
    BY <2>2
  <2> QED BY <2>1, <2>2
<1>2. Filled(n, c, before) \in Seq(Cells)
  BY <1>1, FilledType
<1>3. Decompress(Filled(n, c, before)) \in Seq(Cells)
  BY DecompressType
<1> QED BY <1>2, <1>3, FilledType

\* The track information that is read has a row for each track, cut short or not.
LEMMA TrackInfoRead ==
  ASSUME Shape, Loading, LoadTrackInfo
  PROVE  /\ pos' \in Nat /\ infos' \in Seq(Seq(Nat)) /\ Len(infos') = Len(infos)
         /\ \A t \in 1..Len(infos') : Len(infos'[t]) = InfoSize
         /\ pc = "readInfos" /\ UNCHANGED <<song, unpacked, tracks, trk>>
         /\ \E c \in {Found(HeaderSize, InfoSize * Len(infos)), << >>} :
              /\ LET all == Filled(InfoSize * Len(infos), c, Zero)
                 IN  infos' = [t \in 1..Len(infos) |-> InfoOf(all, t)]
              /\ pos' = HeaderSize + Len(c)
              /\ \/ ioError' = TRUE
                 \/ UNCHANGED ioError /\ c = Found(HeaderSize, InfoSize * Len(infos))
         /\ IF 0 \in {infos'[1][1], infos'[1][2], infos'[1][4]}
            THEN LoadReturns("null") ELSE pc' = "track" /\ UNCHANGED loaded
<1>1. HeaderSize \in Nat /\ Len(infos) \in Nat /\ InfoSize * Len(infos) \in Nat
  BY DEF HeaderSize, InfoSize, Loading
<1>2. Found(HeaderSize, InfoSize * Len(infos)) \in Seq(Cells) /\ << >> \in Seq(Cells)
      /\ Len(<< >>) = 0 /\ HeaderSize + 0 = HeaderSize
      /\ Len(Found(HeaderSize, InfoSize * Len(infos))) \in Nat
  <2>1. Found(HeaderSize, InfoSize * Len(infos)) \in Seq(Cells)
        /\ Len(Found(HeaderSize, InfoSize * Len(infos))) \in Nat
    BY <1>1, FoundCells
  <2> QED BY <1>1, <2>1
<1>3. PICK c \in {Found(HeaderSize, InfoSize * Len(infos)), << >>} :
        /\ infos' = [t \in 1..Len(infos) |->
                       InfoOf(Filled(InfoSize * Len(infos), c, Zero), t)]
        /\ pos' = HeaderSize + Len(c)
        /\ \/ ioError' = TRUE
           \/ UNCHANGED ioError /\ c = Found(HeaderSize, InfoSize * Len(infos))
        /\ IF 0 \in {infos'[1][1], infos'[1][2], infos'[1][4]}
           THEN LoadReturns("null") ELSE pc' = "track" /\ UNCHANGED loaded
  BY <1>2 DEF LoadTrackInfo, Fread
<1>4. PICK all : all = Filled(InfoSize * Len(infos), c, Zero)
  OBVIOUS
<1>5. all \in Seq(Cells) /\ Len(all) = InfoSize * Len(infos)
  <2>1. c \in Seq(Cells) /\ Zero \in Cells
    BY <1>2, CellTypes
  <2> QED BY <1>1, <1>4, <2>1, FilledType
<1>6. infos' = [t \in 1..Len(infos) |-> InfoOf(all, t)]
  BY <1>3, <1>4
<1>7. /\ infos' \in Seq(Seq(Nat)) /\ Len(infos') = Len(infos)
      /\ \A t \in 1..Len(infos') : Len(infos'[t]) = InfoSize
  BY <1>1, <1>5, <1>6, InfosType
<1>8. pos' \in Nat
  BY <1>1, <1>2, <1>3
<1>9. pc = "readInfos" /\ UNCHANGED <<song, unpacked, tracks, trk>>
  BY DEF LoadTrackInfo
<1> QED BY <1>3, <1>7, <1>8, <1>9

LEMMA LoadingStep ==
  ASSUME Shape, Stages, Beginning, Loading, Shape', Stages', [Next]_vars PROVE Loading'
<1> USE DEF TrackPcs
<1>0. Len(song) \in Nat /\ Len(song) >= 1
  BY SizeFacts
<1>1. CASE \/ SaveStarts \/ SaveCannotStart \/ SaveCompresses \/ SaveCannotCompress
           \/ SaveHeader \/ SaveTrackInfo \/ SaveEvents \/ SaveData \/ SaveCloses
  <2>1. UNCHANGED <<song, loading>> /\ pc' \in SavePcs \cup {"saved"}
    BY <1>1, SaverGoesOn
  <2>2. trk' \in 1..Len(song) + 1
    <3>1. CASE pc' \in SavePcs
      <4>1. trk' \in 1..Len(song)
        BY <2>1, <3>1 DEF Shape
      <4> QED BY <1>0, <4>1
    <3>2. CASE pc' = "saved"
      BY <1>0, <3>2 DEF Stages
    <3> QED BY <2>1, <3>1, <3>2
  <2> QED BY <2>1, <2>2 DEF Loading, loading, SavePcs, Writes
<1>2. CASE LoadHeader
  <2>1. UNCHANGED <<song, unpacked, tracks, trk>> /\ pc = "saved"
    BY <1>2 DEF LoadHeader
  <2>2. tracks = << >> /\ infos = << >>
    BY <2>1 DEF Stages
  <2>3. CASE /\ pc' = "readInfos" /\ pos' = HeaderSize
             /\ infos' = [t \in 1..Len(song) |-> << >>]
    <3>1. infos' \in Seq(Seq(Nat)) /\ Len(infos') = Len(song)
      BY <1>0, <2>3
    <3> QED BY <1>0, <2>1, <2>2, <2>3, <3>1 DEF Loading, HeaderSize
  <2>4. CASE pc' = "loaded" /\ pos' \in Nat /\ UNCHANGED infos
    BY <2>1, <2>4 DEF Loading
  <2>5. pos' \in 0..Len(disk) => pos' \in Nat
    OBVIOUS
  <2> QED BY <1>2, <2>3, <2>4, <2>5, HeaderRead
<1>3. CASE LoadTrackInfo
  <2>1. /\ pos' \in Nat /\ infos' \in Seq(Seq(Nat)) /\ Len(infos') = Len(infos)
        /\ \A t \in 1..Len(infos') : Len(infos'[t]) = InfoSize
        /\ pc = "readInfos" /\ UNCHANGED <<song, unpacked, tracks, trk>>
    BY <1>3, TrackInfoRead
  <2>2. pc' \in {"track", "loaded"}
    BY <1>3, TrackInfoRead DEF LoadReturns
  <2>3. trk = 1 /\ tracks = << >> /\ Len(tracks) = 0
    BY <2>1 DEF Loading, Stages
  <2> QED BY <1>0, <2>1, <2>2, <2>3 DEF Loading
<1>4. CASE LoadCannotStart \/ LoadRunsOutOfMemory \/ LoadCloses
  BY <1>4 DEF LoadCannotStart, LoadRunsOutOfMemory, LoadCloses, LoadReturns, Loading
<1>5. CASE LoadTrack
  <2>1. << >> \in Seq(Cells)
    OBVIOUS
  <2>2. unpacked' \in Memory
    <3>1. unpacked' = [events |-> << >>, data |-> << >>]
      BY <1>5 DEF LoadTrack
    <3>2. PICK e : e = << >>
      OBVIOUS
    <3>3. e \in Seq(Cells) /\ unpacked' = [events |-> e, data |-> e]
      BY <2>1, <3>1, <3>2
    <3> QED BY <3>3 DEF Memory
  <2>3. /\ pc = "track" /\ trk <= Len(infos) /\ pc' \in {"unpackEvents", "readEvents"}
        /\ UNCHANGED <<song, pos, infos, tracks, trk>>
    BY <1>5 DEF LoadTrack
  <2> QED BY <2>2, <2>3 DEF Loading
<1>6. ASSUME pc \in TrackPcs, pc' \in TrackPcs \cup {"loaded"}, unpacked' \in Memory, pos' \in Nat,
             UNCHANGED <<song, infos, tracks, trk>>
      PROVE  Loading'
  BY <1>6 DEF Loading
<1>7. ASSUME pc \in TrackPcs
      PROVE  /\ EventsSize(trk) \in Nat /\ DataSize(trk) \in Nat /\ pos \in Nat
             /\ unpacked \in Memory /\ Zero \in Cells /\ Junk \in Cells
             /\ << >> \in Seq(Cells)
  BY <1>7, SizesType, CellTypes DEF Loading
<1>8. CASE LoadUnpacksEvents
  <2>1. /\ pc = "unpackEvents" /\ pc' = "unpackData"
        /\ UNCHANGED <<song, infos, tracks, trk>>
    BY <1>8 DEF LoadUnpacksEvents
  <2>2. \/ \E c \in {Found(pos, EventsSize(trk)), << >>} :
             unpacked' = [unpacked EXCEPT !.events = Filled(EventsSize(trk),
                            Decompress(Filled(EventsSize(trk), c, Zero)), Zero)]
        \/ unpacked' = [unpacked EXCEPT !.events = Filled(EventsSize(trk), << >>, Junk)]
    BY <1>8, Zenon DEF LoadUnpacksEvents, Fread
  <2>3. pos' = pos + Len(Found(pos, EventsSize(trk))) \/ pos' = pos
    BY <1>8 DEF LoadUnpacksEvents, Fread
  <2>4. unpacked' \in Memory
    BY <1>7, <2>1, <2>2, ReadType, FilledType, MemoryType
  <2>5. pos' \in Nat
    BY <1>7, <2>1, <2>3, ReadMoves
  <2> QED BY <1>6, <2>1, <2>4, <2>5
<1>9. CASE LoadUnpacksData
  <2>1. /\ pc = "unpackData" /\ pc' = "copy"
        /\ UNCHANGED <<song, infos, tracks, trk>>
    BY <1>9 DEF LoadUnpacksData
  <2>2. \/ \E c \in {Found(pos, DataSize(trk)), << >>} :
             unpacked' = [unpacked EXCEPT !.data = Filled(DataSize(trk),
                            Decompress(Filled(DataSize(trk), c, Zero)), Zero)]
        \/ unpacked' = [unpacked EXCEPT !.data = Filled(DataSize(trk), << >>, Junk)]
    BY <1>9, Zenon DEF LoadUnpacksData, Fread
  <2>3. pos' = pos + Len(Found(pos, DataSize(trk))) \/ pos' = pos
    BY <1>9 DEF LoadUnpacksData, Fread
  <2>4. unpacked' \in Memory
    BY <1>7, <2>1, <2>2, ReadType, FilledType, MemoryType
  <2>5. pos' \in Nat
    BY <1>7, <2>1, <2>3, ReadMoves
  <2> QED BY <1>6, <2>1, <2>4, <2>5
<1>10. ASSUME pc \in TrackPcs, pc' = "track", trk' = trk + 1, pos' \in Nat, NEW m \in Memory,
              tracks' = Append(tracks, m), UNCHANGED <<song, infos, unpacked>>
       PROVE  Loading'
  <2>1. tracks \in Seq(Memory) /\ Len(tracks) = trk - 1 /\ trk <= Len(infos) /\ trk \in Nat
        /\ Len(infos) \in Nat /\ Len(infos) <= Len(song)
    BY <1>0, <1>10 DEF Loading
  <2>2. tracks' \in Seq(Memory) /\ Len(tracks') = trk' - 1 /\ Len(tracks') <= Len(infos')
    BY <1>10, <2>1
  <2>3. trk' \in 1..Len(song) + 1
    BY <1>0, <1>10, <2>1
  <2> QED BY <1>10, <2>2, <2>3 DEF Loading
<1>11. CASE LoadCopies
  <2>1. /\ pc = "copy" /\ pc' = "track" /\ trk' = trk + 1 /\ tracks' = Append(tracks, unpacked)
        /\ UNCHANGED <<song, pos, infos, unpacked>>
    BY <1>11 DEF LoadCopies
  <2> QED BY <1>7, <1>10, <2>1
<1>12. CASE LoadEvents
  <2>1. pc = "readEvents" /\ pc' \in {"loaded", "readData"} /\ UNCHANGED <<song, infos, tracks, trk>>
    BY <1>12 DEF LoadEvents, Fread, LoadReturns
  <2>2. \/ \E c \in {Found(pos, EventsSize(trk)), << >>} :
             unpacked' = [unpacked EXCEPT !.events = Filled(EventsSize(trk), c, Junk)]
        \/ unpacked' = unpacked
    BY <1>12, Zenon DEF LoadEvents, Fread
  <2>3. pos' = pos + Len(Found(pos, EventsSize(trk))) \/ pos' = pos
    BY <1>12 DEF LoadEvents, Fread
  <2>4. unpacked' \in Memory
    BY <1>7, <2>1, <2>2, ReadType, MemoryType
  <2>5. pos' \in Nat
    BY <1>7, <2>1, <2>3, ReadMoves
  <2> QED BY <1>6, <2>1, <2>4, <2>5
<1>13. CASE LoadData
  <2>1. pc = "readData" /\ UNCHANGED <<song, infos, unpacked>>
    BY <1>13 DEF LoadData
  <2>2. \/ /\ \E c \in {Found(pos, DataSize(trk)), << >>} :
                tracks' = Append(tracks,
                            [unpacked EXCEPT !.data = Filled(DataSize(trk), c, Junk)])
           /\ pc' = "track" /\ trk' = trk + 1
        \/ pc' = "loaded" /\ UNCHANGED <<tracks, trk>>
    BY <1>13, Zenon DEF LoadData, Fread, LoadReturns
  <2>3. pos' = pos + Len(Found(pos, DataSize(trk))) \/ pos' = pos
    BY <1>13 DEF LoadData, Fread
  <2>4. pos' \in Nat
    BY <1>7, <2>1, <2>3, ReadMoves
  <2>5. CASE pc' = "loaded" /\ UNCHANGED <<tracks, trk>>
    BY <1>6, <1>7, <2>1, <2>4, <2>5
  <2>6. CASE /\ \E c \in {Found(pos, DataSize(trk)), << >>} :
                  tracks' = Append(tracks,
                              [unpacked EXCEPT !.data = Filled(DataSize(trk), c, Junk)])
             /\ pc' = "track" /\ trk' = trk + 1
    <3>1. PICK m \in Memory : tracks' = Append(tracks, m)
      BY <1>7, <2>1, <2>6, ReadType, MemoryType
    <3> QED BY <1>10, <2>1, <2>4, <2>6, <3>1
  <2> QED BY <2>2, <2>5, <2>6
<1>14. CASE UNCHANGED vars
  BY <1>14 DEF vars, loading, Loading
<1> QED BY <1>1, <1>2, <1>3, <1>4, <1>5, <1>8, <1>9, <1>11, <1>12, <1>13, <1>14 DEF Next

LEMMA LoadingInit == Init => Loading
<1> SUFFICES ASSUME Init PROVE Loading
  OBVIOUS
<1>1. song \in Seq(Size) /\ Len(song) >= 1 /\ Len(song) \in Nat
  BY SongsAssumption DEF Init
<1>2. /\ << >> \in Seq(Seq(Nat)) /\ << >> \in Seq(Memory) /\ Len(<< >>) = 0
      /\ << >> \in Seq(Cells)
  OBVIOUS
<1>3. unpacked \in Memory
  <2>1. PICK e : e = << >>
    OBVIOUS
  <2>2. e \in Seq(Cells) /\ unpacked = [events |-> e, data |-> e]
    BY <1>2, <2>1 DEF Init
  <2> QED BY <2>2 DEF Memory
<1>4. pc = "start" /\ infos = << >> /\ tracks = << >> /\ trk = 1 /\ pos = 0
  BY DEF Init
<1> QED BY <1>1, <1>2, <1>3, <1>4 DEF Loading, TrackPcs

\* The loader's position: behind the header, that is all there, and then as far as
\* there was something to read.
InFile ==
  /\ pos <= Len(disk)
  /\ pc \in SavePcs \cup {"saved"} => pos = 0
  /\ pc = "readInfos" => pos = HeaderSize

\* A read stops at the end of the file.
LEMMA ReadStays ==
  ASSUME Shape, NEW p \in Nat, p <= Len(disk), NEW n \in Nat, NEW x,
         x = p + Len(Found(p, n)) \/ x = p
  PROVE  x <= Len(disk)
<1>1. PICK len : len = Len(Found(p, n))
  OBVIOUS
<1>2. Len(disk) \in Nat
  BY DEF Shape
<1>3. len = IF p + n <= Len(disk) THEN n ELSE Len(disk) - p
  BY <1>1, FoundType
<1> QED BY <1>1, <1>2, <1>3

LEMMA InFileStep ==
  ASSUME Shape, Stages, Beginning, Loading, InFile, Shape', [Next]_vars PROVE InFile'
<1>1. Len(disk) \in Nat /\ Len(disk') \in Nat /\ pos \in Nat /\ pos <= Len(disk)
  <2>1. disk \in Seq(Cells) /\ disk' \in Seq(Cells)
    BY Zenon DEF Shape
  <2>2. pos \in Nat /\ pos <= Len(disk)
    BY Zenon DEF Loading, InFile
  <2> QED BY <2>1, <2>2
<1>2. ASSUME UNCHANGED disk, pc' \notin SavePcs \cup {"saved", "readInfos"},
             \/ pos' = pos
             \/ \E n \in Nat : pos' = pos + Len(Found(pos, n))
      PROVE  InFile'
  <2>1. pos' <= Len(disk)
    BY <1>1, <1>2, ReadStays
  <2> QED BY <1>2, <2>1 DEF InFile
<1>3. CASE \/ SaveStarts \/ SaveCannotStart \/ SaveCompresses \/ SaveCannotCompress
           \/ SaveHeader \/ SaveTrackInfo \/ SaveEvents \/ SaveData \/ SaveCloses
  <2>1. pos' = pos /\ pc' \in SavePcs \cup {"saved"}
    BY <1>3, SaverGoesOn DEF loading
  <2>2. pc \in SavePcs
    BY <1>3 DEF SaveStarts, SaveCannotStart, SaveCompresses, SaveCannotCompress, SaveHeader,
       SaveTrackInfo, SaveEvents, SaveData, SaveCloses, SavePcs, Writes
  <2>3. pos' = 0
    BY <2>1, <2>2 DEF InFile
  <2>4. pc' # "readInfos"
    BY <2>1 DEF SavePcs, Writes
  <2> QED BY <1>1, <2>3, <2>4 DEF InFile
<1> USE DEF SavePcs, Writes
<1>4. CASE LoadHeader
  <2>1. UNCHANGED disk
    BY <1>4 DEF LoadHeader, saving
  <2>2. CASE pc' = "readInfos" /\ HasHeader /\ pos' = HeaderSize
    BY <1>1, <2>1, <2>2 DEF InFile, HasHeader
  <2>3. CASE pc' = "loaded" /\ pos' \in 0..Len(disk)
    BY <1>1, <2>1, <2>3 DEF InFile
  <2> QED BY <1>4, <2>2, <2>3, HeaderRead
<1>5. CASE LoadTrackInfo
  <2>1. UNCHANGED disk /\ pc = "readInfos"
    BY <1>5 DEF LoadTrackInfo, saving
  <2>2. pos = HeaderSize
    BY <2>1 DEF InFile
  <2>3. pc' \in {"track", "loaded"}
    BY <1>5, TrackInfoRead DEF LoadReturns
  <2>4. PICK c \in {Found(HeaderSize, InfoSize * Len(infos)), << >>} : pos' = HeaderSize + Len(c)
    BY <1>5, TrackInfoRead
  <2>5. InfoSize * Len(infos) \in Nat
    BY DEF InfoSize, Loading
  <2>6. pos' = pos + Len(Found(pos, InfoSize * Len(infos))) \/ pos' = pos
    <3>1. CASE c = Found(HeaderSize, InfoSize * Len(infos))
      BY <2>2, <2>4, <3>1
    <3>2. CASE c = << >>
      BY <1>1, <2>2, <2>4, <3>2
    <3> QED BY <2>4, <3>1, <3>2
  <2> QED BY <1>2, <2>1, <2>3, <2>5, <2>6
<1>6. CASE LoadCannotStart \/ LoadRunsOutOfMemory \/ LoadCloses \/ LoadTrack \/ LoadCopies
  BY <1>2, <1>6 DEF LoadCannotStart, LoadRunsOutOfMemory, LoadCloses, LoadTrack, LoadCopies,
     LoadReturns, saving
<1>7. ASSUME pc \in TrackPcs PROVE EventsSize(trk) \in Nat /\ DataSize(trk) \in Nat
  BY <1>7, SizesType
<1>8. CASE LoadUnpacksEvents
  <2>1. UNCHANGED disk /\ pc = "unpackEvents" /\ pc' = "unpackData"
    BY <1>8 DEF LoadUnpacksEvents, saving
  <2>2. pos' = pos + Len(Found(pos, EventsSize(trk))) \/ pos' = pos
    BY <1>8 DEF LoadUnpacksEvents, Fread
  <2> QED BY <1>2, <1>7, <2>1, <2>2 DEF TrackPcs
<1>9. CASE LoadUnpacksData
  <2>1. UNCHANGED disk /\ pc = "unpackData" /\ pc' = "copy"
    BY <1>9 DEF LoadUnpacksData, saving
  <2>2. pos' = pos + Len(Found(pos, DataSize(trk))) \/ pos' = pos
    BY <1>9 DEF LoadUnpacksData, Fread
  <2> QED BY <1>2, <1>7, <2>1, <2>2 DEF TrackPcs
<1>10. CASE LoadEvents
  <2>1. UNCHANGED disk /\ pc = "readEvents" /\ pc' \in {"loaded", "readData"}
    BY <1>10 DEF LoadEvents, Fread, LoadReturns, saving
  <2>2. pos' = pos + Len(Found(pos, EventsSize(trk))) \/ pos' = pos
    BY <1>10 DEF LoadEvents, Fread
  <2> QED BY <1>2, <1>7, <2>1, <2>2 DEF TrackPcs
<1>11. CASE LoadData
  <2>1. UNCHANGED disk /\ pc = "readData" /\ pc' \in {"loaded", "track"}
    BY <1>11 DEF LoadData, Fread, LoadReturns, saving
  <2>2. pos' = pos + Len(Found(pos, DataSize(trk))) \/ pos' = pos
    BY <1>11 DEF LoadData, Fread
  <2> QED BY <1>2, <1>7, <2>1, <2>2 DEF TrackPcs
<1>12. CASE UNCHANGED vars
  BY <1>12 DEF vars, saving, loading, InFile
<1> QED BY <1>3, <1>4, <1>5, <1>6, <1>8, <1>9, <1>10, <1>11, <1>12 DEF Next

Well == Shape /\ Stages /\ Beginning /\ Loading /\ InFile

LEMMA WellInit == Init => Well
<1>1. Init => InFile
  BY DEF Init, InFile
<1> QED BY <1>1, ShapeInit, BeginningInit, LoadingInit DEF Well

LEMMA WellStep == ASSUME Well, [Next]_vars PROVE Well'
  BY ShapeStep, StagesStep, BeginningStep, LoadingStep, InFileStep DEF Well

LEMMA WellAlways == Spec => []Well
  BY WellInit, WellStep, PTL DEF Spec

\* saveNktSequence and loadNktSequence: the loop over the tracks stays inside them, also
\* over a file that is not whole, no more tracks are loaded than its header says, and the
\* position stays within the file.
THEOREM FileTypes == Spec => []TypeOK
<1>1. Well => TypeOK
  BY DEF Well, Shape, Loading, InFile, TypeOK
<1> QED BY <1>1, WellAlways, PTL

-----------------------------------------------------------------------------
(* What a save has written.                                                *)

Content(b) == [t \in 1..Len(b) |-> b[t].events \o b[t].data]

\* A file up to track k: header h, information i and blocks b.
UpToOf(h, i, b, k) == (h \o FlattenSeq(i)) \o Together(Content(b), k)
UpTo(k) == UpToOf(Header, trackInfo, seq, k)

LEMMA FrontFacts ==
  ASSUME Shape
  PROVE  /\ Image \in Seq(Cells) /\ UpTo(0) = Header \o FlattenSeq(trackInfo)
         /\ UpTo(Len(song)) = Image
         /\ \A k \in 0..Len(song) : /\ UpTo(k) \in Seq(Cells) /\ Begins(Cells, UpTo(k), Image)
                                    /\ Len(UpTo(k)) >= HeaderSize
         /\ \A k \in 1..Len(song) : UpTo(k) = (UpTo(k - 1) \o seq[k].events) \o seq[k].data
<1> DEFINE n == Len(song)
           c == Content(seq)
           h == Header \o FlattenSeq(trackInfo)
<1>1. n \in Nat /\ Len(seq) = n
  BY SizeFacts
<1>2. h \in Seq(Cells) /\ Len(h) >= HeaderSize
  <2>1. PICK a, b : a = Header /\ b = FlattenSeq(trackInfo)
    OBVIOUS
  <2>2. a \in Seq(Cells) /\ b \in Seq(Cells) /\ Len(a) = 3
    BY <2>1, HeaderType, CellTypes DEF HeaderSize
  <2>3. a \o b \in Seq(Cells) /\ Len(a \o b) = Len(a) + Len(b) /\ Len(b) \in Nat
    BY <2>2, ConcatProperties, LenProperties
  <2>4. Len(a \o b) >= HeaderSize
    BY <2>2, <2>3 DEF HeaderSize
  <2> QED BY <2>1, <2>3, <2>4, Zenon
<1>3. c \in Seq(Seq(Cells)) /\ Len(c) = n
      /\ \A t \in 1..n : c[t] = seq[t].events \o seq[t].data /\ c[t] \in Seq(Cells)
  <2>1. ASSUME NEW t \in 1..n
        PROVE  seq[t].events \o seq[t].data \in Seq(Cells)
    <3>1. PICK a, b : a = seq[t].events /\ b = seq[t].data
      OBVIOUS
    <3>2. a \in Seq(Cells) /\ b \in Seq(Cells)
      BY <3>1, CellTypes
    <3>3. a \o b \in Seq(Cells)
      BY ONLY <3>2
    <3> QED BY <3>1, <3>3, Zenon
  <2>2. c = [t \in 1..n |-> seq[t].events \o seq[t].data]
    BY <1>1 DEF Content
  <2> HIDE DEF c, n
  <2>3. c \in [1..n -> Seq(Cells)] /\ \A t \in 1..n : c[t] = seq[t].events \o seq[t].data
    BY <2>1, <2>2
  <2>4. c \in Seq(Seq(Cells)) /\ Len(c) = n
    BY <1>1, <2>3
  <2> QED BY <2>1, <2>3, <2>4, Zenon
<1> HIDE DEF h, c, n
<1>4. \A k : UpTo(k) = h \o Together(c, k)
  BY DEF UpTo, UpToOf, h, c
<1>5. Image = h \o FlattenSeq(c)
  <2>1. c = [t \in 1..Len(seq) |-> seq[t].events \o seq[t].data]
    BY DEF c, Content
  <2> QED BY <2>1 DEF Image, Header, h
<1>6. FlattenSeq(c) \in Seq(Cells)
  BY <1>3, FlattenType
<1>7. Image \in Seq(Cells)
  <2>1. PICK f : f = FlattenSeq(c)
    OBVIOUS
  <2>2. f \in Seq(Cells)
    BY <1>6, <2>1
  <2>3. h \o f \in Seq(Cells)
    BY ONLY <1>2, <2>2
  <2> QED BY <1>5, <2>1, <2>3, Zenon
<1>8. UpTo(0) = h
  <2>1. UpTo(0) = h \o << >>
    BY <1>3, <1>4, TogetherGrows
  <2> QED BY <1>2, <2>1
<1>9. UpTo(n) = Image
  BY <1>3, <1>4, <1>5, TogetherGrows
<1>10. ASSUME NEW k \in 0..n
       PROVE  /\ UpTo(k) \in Seq(Cells) /\ Len(UpTo(k)) >= HeaderSize
              /\ Begins(Cells, UpTo(k), Image)
  <2>1. PICK x : x = Together(c, k)
    OBVIOUS
  <2>2. x \in Seq(Cells) /\ UpTo(k) = h \o x
    BY <1>3, <1>4, <2>1, TogetherGrows
  <2>3. PICK r \in Seq(Cells) : FlattenSeq(c) = x \o r
    BY <1>3, <2>1, BeginsTogether DEF Begins
  <2>4. h \o (x \o r) = (h \o x) \o r /\ h \o x \in Seq(Cells) /\ Len(h \o x) >= Len(h)
        /\ Len(h) \in Nat /\ Len(h \o x) \in Nat
    BY ONLY <1>2, <2>2, <2>3
  <2>5. Image = UpTo(k) \o r
    BY <1>5, <2>2, <2>3, <2>4, Zenon
  <2>6. Begins(Cells, UpTo(k), Image)
    BY <2>5 DEF Begins
  <2>7. Len(h \o x) >= HeaderSize
    BY <1>2, <2>4 DEF HeaderSize
  <2> QED BY <2>2, <2>4, <2>6, <2>7, Zenon
<1>11. ASSUME NEW k \in 1..n PROVE UpTo(k) = (UpTo(k - 1) \o seq[k].events) \o seq[k].data
  <2>1. PICK j, x, a, b : j = k - 1 /\ x = Together(c, j) /\ a = seq[k].events /\ b = seq[k].data
    OBVIOUS
  <2>2. j \in 0..n - 1 /\ j + 1 = k /\ j \in 0..n
    BY <1>1, <2>1
  <2>3. x \in Seq(Cells) /\ a \in Seq(Cells) /\ b \in Seq(Cells) /\ c[k] = a \o b
    BY <1>1, <1>3, <2>1, <2>2, TogetherGrows, CellTypes DEF n
  <2>4. Together(c, j + 1) = Together(c, j) \o c[j + 1]
    BY <1>3, <2>2, TogetherGrows
  <2>5. UpTo(k) = h \o (x \o (a \o b)) /\ UpTo(j) = h \o x
    BY <1>4, <2>1, <2>2, <2>3, <2>4
  <2>6. h \o (x \o (a \o b)) = ((h \o x) \o a) \o b
    <3>1. h \o (x \o (a \o b)) = (h \o x) \o (a \o b) /\ h \o x \in Seq(Cells)
      BY ONLY <1>2, <2>3, SMTT(40)
    <3>2. PICK y : y = h \o x
      OBVIOUS
    <3>3. y \o (a \o b) = (y \o a) \o b
      <4>1. y \in Seq(Cells)
        BY <3>1, <3>2
      <4> QED BY ONLY <2>3, <4>1
    <3> QED BY <3>1, <3>2, <3>3, Zenon
  <2> QED BY <2>1, <2>5, <2>6, Zenon
<1> QED BY <1>7, <1>8, <1>9, <1>10, <1>11 DEF n, h

\* The blocks of a track go behind the front before it.
LEMMA FrontGrows ==
  ASSUME Shape, NEW t \in 1..Len(song)
  PROVE  /\ UpTo(t - 1) \in Seq(Cells) /\ Len(UpTo(t - 1)) >= HeaderSize
         /\ UpTo(t - 1) \o seq[t].events \in Seq(Cells)
         /\ Len(UpTo(t - 1) \o seq[t].events) = Len(UpTo(t - 1)) + Len(seq[t].events)
         /\ Len(UpTo(t - 1) \o seq[t].events) >= HeaderSize
         /\ UpTo(t) = (UpTo(t - 1) \o seq[t].events) \o seq[t].data
         /\ Begins(Cells, UpTo(t - 1) \o seq[t].events, Image)
         /\ Begins(Cells, UpTo(t), Image)
<1>1. t - 1 \in 0..Len(song) /\ t \in 0..Len(song)
  BY SizeFacts
<1>2. PICK f, a, b : f = UpTo(t - 1) /\ a = seq[t].events /\ b = seq[t].data
  OBVIOUS
<1>3. /\ f \in Seq(Cells) /\ a \in Seq(Cells) /\ b \in Seq(Cells) /\ Len(f) >= 3
      /\ UpTo(t) = (f \o a) \o b /\ Begins(Cells, UpTo(t), Image) /\ Image \in Seq(Cells)
  BY <1>1, <1>2, FrontFacts, CellTypes DEF HeaderSize
<1>4. f \o a \in Seq(Cells) /\ Len(f \o a) = Len(f) + Len(a) /\ Len(f \o a) >= 3
  BY ONLY <1>3
<1>5. Begins(Cells, f \o a, Image)
  <2>1. PICK g : g = f \o a
    OBVIOUS
  <2>2. g \in Seq(Cells) /\ Begins(Cells, g \o b, Image)
    BY <1>3, <1>4, <2>1
  <2> QED BY <1>3, <2>1, <2>2, BeginsFirst
<1> QED BY <1>2, <1>3, <1>4, <1>5 DEF HeaderSize

\* A write puts all of a part behind the file, or fills the disk with the beginning of it.
LEMMA PutsWholly ==
  ASSUME disk \in Seq(Cells), Len(disk) >= HeaderSize, NEW c \in Seq(Cells), NEW x \in Seq(Cells),
         Begins(Cells, disk \o c, x), NEW wanted \in 0..Len(c), NEW ACTION next,
         Puts(c, wanted, next), ~ioError'
  PROVE  \/ disk' = disk \o c /\ next /\ UNCHANGED saved
         \/ /\ Len(disk') >= HeaderSize /\ Begins(Cells, disk', x) /\ room' = 0
            /\ SaveReturns("error") \/ (next /\ UNCHANGED saved /\ wanted < Len(c))
<1>1. PICK w \in 0..Len(c) :
        /\ disk' = disk \o SubSeq(c, 1, w) /\ (w = Len(c) \/ room' = 0)
        /\ \/ w < wanted /\ SaveReturns("error")
           \/ w >= wanted /\ next /\ UNCHANGED saved
  BY DEF Puts
<1>2. CASE w = Len(c)
  <2>1. SubSeq(c, 1, w) = c
    BY <1>2, SubSeqFull
  <2>2. ~(w < wanted)
    BY <1>2
  <2> QED BY <1>1, <2>1, <2>2
<1>3. CASE w # Len(c)
  <2>1. PICK d, s : d = disk /\ s = SubSeq(c, 1, w)
    OBVIOUS
  <2>2. d \in Seq(Cells) /\ s \in Seq(Cells) /\ Begins(Cells, d \o s, x) /\ Len(d) >= 3
    BY <2>1, BeginsShorter DEF HeaderSize
  <2>3. Len(d \o s) >= 3
    BY ONLY <2>2
  <2>4. disk' = d \o s /\ room' = 0
    BY <1>1, <1>3, <2>1
  <2>5. SaveReturns("error") \/ (next /\ UNCHANGED saved /\ wanted < Len(c))
    <3>1. w >= wanted => wanted < Len(c)
      BY <1>3
    <3> QED BY <1>1, <3>1
  <2> QED BY <2>2, <2>3, <2>4, <2>5 DEF HeaderSize
<1> QED BY <1>2, <1>3

\* Of the whole file at least the header is there.
Cut == Len(disk) >= HeaderSize /\ Begins(Cells, disk, Image)

\* What is on the disk at each point.  The track information alone may be cut short
\* unnoticed; the disk is full then.
FileSoFar ==
  /\ pc = "infos" => disk = Header
  /\ pc = "events" => disk = UpTo(trk - 1) \/ (trk = 1 /\ room = 0 /\ Cut)
  /\ pc = "data" => disk = UpTo(trk - 1) \o seq[trk].events
  /\ pc = "close" => disk = Image
  /\ pc \notin SavePcs => disk = Image \/ (saved = "error" /\ (disk = << >> \/ Cut))

LEMMA SameFile ==
  ASSUME UNCHANGED <<song, seq, trackInfo>>
  PROVE  Image' = Image /\ Header' = Header /\ \A k : UpTo(k)' = UpTo(k)
  BY DEF Image, Header, UpTo

LEMMA InfosLength ==
  ASSUME Shape, Len(trackInfo) = Len(seq)
  PROVE  Len(FlattenSeq(trackInfo)) = InfoSize * Len(song) /\ InfoSize * Len(song) >= 5
<1>1. /\ trackInfo \in Seq(Seq(Fields)) /\ Len(trackInfo) = Len(song) /\ Len(song) \in Nat
      /\ Len(song) >= 1 /\ \A t \in 1..Len(trackInfo) : Len(trackInfo[t]) = InfoSize
  BY SizeFacts DEF Shape
<1>2. Together(trackInfo, Len(trackInfo)) = FlattenSeq(trackInfo)
  BY <1>1, TogetherGrows
<1>3. Len(trackInfo) \in 0..Len(trackInfo)
  BY <1>1
<1>4. Len(Together(trackInfo, Len(trackInfo))) = InfoSize * Len(trackInfo)
  BY <1>1, <1>3, RowsTogether
<1> QED BY <1>1, <1>2, <1>4 DEF InfoSize

LEMMA EventsWritten ==
  ASSUME Shape, FileSoFar, SaveEvents, ~ioError'
  PROVE  /\ UNCHANGED Written
         /\ \/ /\ disk' = UpTo(trk - 1) \o seq[trk].events
               /\ pc' = "data" /\ UNCHANGED <<trk, saved>>
            \/ Len(disk') >= HeaderSize /\ Begins(Cells, disk', Image) /\ SaveReturns("error")
<1>1. /\ pc = "events" /\ UNCHANGED Written /\ trk \in 1..Len(song)
      /\ Puts(seq[trk].events, Len(seq[trk].events), pc' = "data" /\ UNCHANGED trk)
  BY EventsPuts
<1>2. PICK c : c = seq[trk].events
  OBVIOUS
<1>3. c \in Seq(Cells) /\ Len(c) \in Nat /\ Len(c) >= 1 /\ Len(c) \in 0..Len(c)
  BY <1>1, <1>2, CellTypes, SizeFacts DEF Shape
<1>4. Puts(c, Len(c), pc' = "data" /\ UNCHANGED trk)
  BY <1>1, <1>2
<1>5. CASE disk = UpTo(trk - 1)
  <2>1. disk \in Seq(Cells) /\ Len(disk) >= HeaderSize /\ Begins(Cells, disk \o c, Image)
        /\ Image \in Seq(Cells)
    BY <1>1, <1>2, <1>5, FrontGrows, FrontFacts
  <2>2. \/ disk' = disk \o c /\ (pc' = "data" /\ UNCHANGED trk) /\ UNCHANGED saved
        \/ /\ Len(disk') >= HeaderSize /\ Begins(Cells, disk', Image) /\ room' = 0
           /\ \/ SaveReturns("error")
              \/ ((pc' = "data" /\ UNCHANGED trk) /\ UNCHANGED saved /\ Len(c) < Len(c))
    BY <1>3, <1>4, <2>1, PutsWholly
  <2>3. ~(Len(c) < Len(c))
    BY <1>3
  <2> QED BY <1>1, <1>2, <1>5, <2>2, <2>3
<1>6. CASE room = 0 /\ Cut
  <2>1. PICK w \in 0..Len(c) :
          /\ disk' = disk \o SubSeq(c, 1, w) /\ room' = room - w /\ room' \in Nat
          /\ \/ w < Len(c) /\ SaveReturns("error")
             \/ w >= Len(c)
    BY <1>4 DEF Puts
  <2>2. w = 0
    BY <1>3, <1>6, <2>1
  <2>3. SubSeq(c, 1, 0) = << >> /\ disk \o << >> = disk
    BY SubSeqEmpty DEF Shape
  <2>4. ~(w >= Len(c))
    BY <1>3, <2>2
  <2>5. disk' = disk /\ SaveReturns("error")
    BY <2>1, <2>2, <2>3, <2>4, Zenon
  <2> QED BY <1>1, <1>6, <2>5 DEF Cut
<1> QED BY <1>1, <1>5, <1>6 DEF FileSoFar

LEMMA DataWritten ==
  ASSUME Shape, FileSoFar, SaveData, ~ioError'
  PROVE  /\ UNCHANGED Written /\ trk \in 1..Len(song)
         /\ \/ /\ disk' = UpTo(trk) /\ UNCHANGED saved
               /\ \/ trk < Len(song) /\ pc' = "events" /\ trk' = trk + 1
                  \/ trk = Len(song) /\ pc' = "close"
            \/ Len(disk') >= HeaderSize /\ Begins(Cells, disk', Image) /\ SaveReturns("error")
<1> DEFINE next == IF trk < Len(seq) THEN pc' = "events" /\ trk' = trk + 1
                                     ELSE pc' = "close" /\ UNCHANGED trk
<1>1. /\ pc = "data" /\ UNCHANGED Written /\ trk \in 1..Len(song) /\ Len(seq) = Len(song)
      /\ Puts(seq[trk].data, Len(seq[trk].data), next) /\ Len(song) \in Nat
  BY DataPuts, SizeFacts
<1>2. PICK c : c = seq[trk].data
  OBVIOUS
<1>3. next => \/ trk < Len(song) /\ pc' = "events" /\ trk' = trk + 1
              \/ trk = Len(song) /\ pc' = "close"
  BY <1>1
<1> HIDE DEF next
<1>4. c \in Seq(Cells) /\ Len(c) \in Nat /\ Len(c) \in 0..Len(c)
  BY <1>1, <1>2, CellTypes
<1>5. Puts(c, Len(c), next)
  BY <1>1, <1>2
<1>6. disk \in Seq(Cells) /\ Len(disk) >= HeaderSize /\ disk \o c = UpTo(trk)
      /\ Begins(Cells, disk \o c, Image) /\ Image \in Seq(Cells)
  BY <1>1, <1>2, FrontGrows, FrontFacts DEF FileSoFar
<1>7. \/ disk' = disk \o c /\ next /\ UNCHANGED saved
      \/ /\ Len(disk') >= HeaderSize /\ Begins(Cells, disk', Image) /\ room' = 0
         /\ SaveReturns("error") \/ (next /\ UNCHANGED saved /\ Len(c) < Len(c))
  BY <1>4, <1>5, <1>6, PutsWholly
<1>8. ~(Len(c) < Len(c))
  BY <1>4
<1> QED BY <1>1, <1>3, <1>6, <1>7, <1>8

LEMMA InfosWritten ==
  ASSUME Shape, Stages, FileSoFar, SaveTrackInfo, ~ioError'
  PROVE  /\ UNCHANGED Written /\ trk = 1
         /\ \/ disk' = UpTo(0) /\ pc' = "events" /\ UNCHANGED <<trk, saved>>
            \/ /\ Len(disk') >= HeaderSize /\ Begins(Cells, disk', Image) /\ room' = 0
               /\ SaveReturns("error") \/ (pc' = "events" /\ UNCHANGED trk)
<1>1. /\ pc = "infos" /\ UNCHANGED Written
      /\ Puts(FlattenSeq(trackInfo), 1, pc' = "events" /\ UNCHANGED trk)
  BY TrackInfoPuts
<1>2. trk = 1 /\ Len(trackInfo) = Len(seq) /\ disk = Header
  BY <1>1 DEF Stages, SavePcs, Writes, FileSoFar
<1>3. PICK c : c = FlattenSeq(trackInfo)
  OBVIOUS
<1>4. c \in Seq(Cells) /\ 1 \in 0..Len(c)
  <2>1. Len(c) >= 5
    BY <1>2, <1>3, InfosLength
  <2>2. c \in Seq(Cells) /\ Len(c) \in Nat
    BY <1>3, CellTypes
  <2> QED BY <2>1, <2>2
<1>5. disk \in Seq(Cells) /\ Len(disk) >= HeaderSize /\ disk \o c = UpTo(0)
      /\ Begins(Cells, disk \o c, Image) /\ Image \in Seq(Cells)
  <2>1. 0 \in 0..Len(song)
    BY SizeFacts
  <2> QED BY <1>2, <1>3, <2>1, HeaderType, FrontFacts
<1>6. Puts(c, 1, pc' = "events" /\ UNCHANGED trk)
  BY <1>1, <1>3
<1>7. \/ disk' = disk \o c /\ (pc' = "events" /\ UNCHANGED trk) /\ UNCHANGED saved
      \/ /\ Len(disk') >= HeaderSize /\ Begins(Cells, disk', Image) /\ room' = 0
         /\ \/ SaveReturns("error")
            \/ ((pc' = "events" /\ UNCHANGED trk) /\ UNCHANGED saved /\ 1 < Len(c))
  BY <1>4, <1>5, <1>6, PutsWholly
<1> QED BY <1>1, <1>2, <1>5, <1>7

LEMMA FileStep ==
  ASSUME Well, ~ioError => FileSoFar, [Next]_vars PROVE ~ioError' => FileSoFar'
<1> SUFFICES ASSUME ~ioError' PROVE FileSoFar'
  OBVIOUS
<1> USE DEF SaveReturns
<1>0. Shape /\ Stages /\ Beginning
  BY DEF Well
<1>1. CASE SaveStarts
  BY <1>1 DEF SaveStarts, FileSoFar, SavePcs, Writes
<1>2. CASE SaveCannotStart \/ SaveCannotCompress
  <2>1. pc \in {"start", "compress"} /\ disk' = disk /\ pc' = "saved" /\ saved' = "error"
    BY <1>2 DEF SaveCannotStart, SaveCannotCompress
  <2>2. disk' = << >>
    BY <1>0, <2>1 DEF Beginning
  <2> QED BY <2>1, <2>2 DEF FileSoFar, SavePcs, Writes
<1>3. CASE SaveCompresses
  BY <1>3 DEF SaveCompresses, FileSoFar, SavePcs, Writes
<1>4. CASE SaveHeader
  <2>1. \/ disk' = Header /\ pc' = "infos"
        \/ disk' = << >> /\ SaveReturns("error")
    BY <1>0, <1>4, HeaderWritten
  <2>2. Header' = Header
    BY <1>4 DEF SaveHeader, Header
  <2> QED BY <2>1, <2>2 DEF FileSoFar, SavePcs, Writes
<1>5. ASSUME UNCHANGED Written PROVE Image' = Image /\ Header' = Header /\ \A k : UpTo(k)' = UpTo(k)
  BY <1>5, SameFile DEF Written
<1>6. ASSUME UNCHANGED Written, Len(disk') >= HeaderSize, Begins(Cells, disk', Image)
      PROVE  Cut'
  BY <1>5, <1>6 DEF Cut, HeaderSize
<1>7. CASE SaveTrackInfo
  <2>1. ~ioError
    BY <1>0, <1>7, SaverGoesOn
  <2>2. /\ UNCHANGED Written /\ trk = 1
        /\ \/ disk' = UpTo(0) /\ pc' = "events" /\ UNCHANGED <<trk, saved>>
           \/ /\ Len(disk') >= HeaderSize /\ Begins(Cells, disk', Image) /\ room' = 0
              /\ SaveReturns("error") \/ (pc' = "events" /\ UNCHANGED trk)
    BY <1>0, <1>7, <2>1, InfosWritten
  <2>3. UpTo(0)' = UpTo(0) /\ trk - 1 = 0
    BY <1>5, <2>2
  <2>4. CASE disk' = UpTo(0) /\ pc' = "events" /\ UNCHANGED <<trk, saved>>
    <3>1. trk' - 1 = 0
      BY <2>2, <2>4
    <3>2. UpTo(trk - 1)' = disk'
      BY <2>3, <2>4, <3>1 DEF UpTo
    <3> QED BY <2>4, <3>2 DEF FileSoFar, SavePcs, Writes
  <2>5. CASE /\ Len(disk') >= HeaderSize /\ Begins(Cells, disk', Image) /\ room' = 0
             /\ SaveReturns("error") \/ (pc' = "events" /\ UNCHANGED trk)
    <3>1. Cut'
      BY <1>6, <2>2, <2>5
    <3> QED BY <2>2, <2>5, <3>1 DEF FileSoFar, SavePcs, Writes
  <2> QED BY <2>2, <2>4, <2>5
<1>8. CASE SaveEvents
  <2>1. ~ioError
    BY <1>0, <1>8, SaverGoesOn
  <2>2. /\ UNCHANGED Written
        /\ \/ /\ disk' = UpTo(trk - 1) \o seq[trk].events
              /\ pc' = "data" /\ UNCHANGED <<trk, saved>>
           \/ Len(disk') >= HeaderSize /\ Begins(Cells, disk', Image) /\ SaveReturns("error")
    BY <1>0, <1>8, <2>1, EventsWritten
  <2>3. CASE /\ disk' = UpTo(trk - 1) \o seq[trk].events
             /\ pc' = "data" /\ UNCHANGED <<trk, saved>>
    <3>1. UpTo(trk - 1)' = UpTo(trk - 1) /\ seq' = seq
      BY <1>5, <2>2, <2>3 DEF UpTo, Written
    <3>2. (UpTo(trk - 1) \o seq[trk].events)' = disk'
      BY <2>3, <3>1
    <3> QED BY <2>3, <3>2 DEF FileSoFar, SavePcs, Writes
  <2>4. CASE Len(disk') >= HeaderSize /\ Begins(Cells, disk', Image) /\ SaveReturns("error")
    <3>1. Cut'
      BY <1>6, <2>2, <2>4
    <3> QED BY <2>4, <3>1 DEF FileSoFar, SavePcs, Writes
  <2> QED BY <2>2, <2>3, <2>4
<1>9. CASE SaveData
  <2>1. ~ioError
    BY <1>0, <1>9, SaverGoesOn
  <2>2. /\ UNCHANGED Written /\ trk \in 1..Len(song)
        /\ \/ /\ disk' = UpTo(trk) /\ UNCHANGED saved
              /\ \/ trk < Len(song) /\ pc' = "events" /\ trk' = trk + 1
                 \/ trk = Len(song) /\ pc' = "close"
           \/ Len(disk') >= HeaderSize /\ Begins(Cells, disk', Image) /\ SaveReturns("error")
    BY <1>0, <1>9, <2>1, DataWritten
  <2>3. CASE disk' = UpTo(trk) /\ trk < Len(song) /\ pc' = "events" /\ trk' = trk + 1
    <3>1. trk' - 1 = trk
      BY <1>0, <2>2, <2>3
    <3>2. UpTo(trk - 1)' = UpTo(trk)
      BY <1>5, <2>2, <3>1 DEF UpTo
    <3> QED BY <2>3, <3>2 DEF FileSoFar, SavePcs, Writes
  <2>4. CASE disk' = UpTo(trk) /\ trk = Len(song) /\ pc' = "close"
    <3>1. disk' = Image'
      BY <1>0, <1>5, <2>2, <2>4, FrontFacts
    <3> QED BY <2>4, <3>1 DEF FileSoFar, SavePcs, Writes
  <2>5. CASE Len(disk') >= HeaderSize /\ Begins(Cells, disk', Image) /\ SaveReturns("error")
    <3>1. Cut'
      BY <1>6, <2>2, <2>5
    <3> QED BY <2>5, <3>1 DEF FileSoFar, SavePcs, Writes
  <2> QED BY <2>2, <2>3, <2>4, <2>5
<1>10. CASE SaveCloses
  <2>1. pc = "close" /\ pc' = "saved" /\ UNCHANGED <<song, seq, trackInfo, disk>> /\ ~ioError
    BY <1>0, <1>10, SaverGoesOn DEF SaveCloses
  <2> QED BY <2>1, SameFile DEF FileSoFar, SavePcs, Writes
<1>11. CASE \/ LoadHeader \/ LoadCannotStart \/ LoadTrackInfo \/ LoadTrack
            \/ LoadRunsOutOfMemory \/ LoadUnpacksEvents \/ LoadUnpacksData \/ LoadCopies
            \/ LoadEvents \/ LoadData \/ LoadCloses
  <2>1. /\ UNCHANGED <<song, seq, trackInfo, disk, saved>> /\ pc \notin SavePcs /\ pc' \notin SavePcs
        /\ ~ioError
    BY <1>0, <1>11, LoaderGoesOn DEF saving
  <2>2. FileSoFar /\ Image' = Image
    BY <2>1, SameFile
  <2>3. Cut' <=> Cut
    BY <2>1, <2>2 DEF Cut, HeaderSize
  <2> QED BY <2>1, <2>2, <2>3 DEF FileSoFar, SavePcs, Writes
<1>12. CASE UNCHANGED vars
  <2>1. UNCHANGED <<song, seq, trackInfo, disk, saved, pc, trk, room, ioError>>
    BY <1>12 DEF vars, saving
  <2>2. FileSoFar /\ Image' = Image /\ Header' = Header /\ UpTo(trk - 1)' = UpTo(trk - 1)
    BY <2>1, SameFile DEF UpTo
  <2>3. Cut' <=> Cut
    BY <2>1, <2>2 DEF Cut, HeaderSize
  <2> QED BY <2>1, <2>2, <2>3 DEF FileSoFar
<1> QED BY <1>1, <1>2, <1>3, <1>4, <1>7, <1>8, <1>9, <1>10, <1>11, <1>12 DEF Next

Kept == Well /\ (~ioError => FileSoFar)

LEMMA KeptAlways == Spec => []Kept
<1>1. Init => Kept
  BY WellInit DEF Kept, Init, FileSoFar, SavePcs
<1>2. Kept /\ [Next]_vars => Kept'
  BY WellStep, FileStep DEF Kept
<1> QED BY <1>1, <1>2, PTL DEF Spec

\* saveNktSequence: AM_OK is returned for a whole file only, although the result of one
\* of the writes is looked at in the wrong way.
THEOREM SavesWhole == Spec => []SavedWhole
<1>1. Kept => SavedWhole
  BY DEF Kept, Well, Stages, FileSoFar, SavedWhole
<1> QED BY <1>1, KeptAlways, PTL

-----------------------------------------------------------------------------
(* Loading what was saved, where nothing was packed.                       *)

RowOf(s) == <<Field(s.events), Field(s.events), Field(s.events), Field(s.data), Field(s.data)>>
Rows(s)  == [t \in 1..Len(s) |-> RowOf(s[t])]
SizesOf(s) == [t \in 1..Len(s) |->
                 [f \in 1..InfoSize |-> IF f <= 3 THEN s[t].events ELSE s[t].data]]

\* The file holds the blocks of the song as they are.
Plain ==
  /\ pc = "start" => ~compress
  /\ pc = "compress" => compress
  /\ ~compress => /\ seq = Blocks(song)
                  /\ trackInfo = Rows(song) \/ (trackInfo = << >> /\ disk = << >>)

LEMMA PlainInit == Init => Plain
  BY DEF Init, Plain

LEMMA RowsWritten ==
  ASSUME Shape, seq = Blocks(song)
  PROVE  [t \in 1..Len(seq) |-> TrackInfo(t)] = Rows(song)
<1>1. /\ song \in Seq(Size) /\ Len(seq) = Len(song)
      /\ \A t \in 1..Len(song) : /\ Len(seq[t].events) = song[t].events
                                 /\ Len(seq[t].data) = song[t].data
  BY SizeFacts, BlocksType
<1>2. ASSUME NEW t \in 1..Len(song) PROVE TrackInfo(t) = RowOf(song[t])
  BY <1>1 DEF TrackInfo, RowOf
<1> QED BY <1>1, <1>2 DEF Rows

LEMMA PlainStep == ASSUME Well, Plain, [Next]_vars PROVE Plain'
<1> USE DEF SaveReturns
<1>0. Shape /\ Stages /\ Beginning
  BY DEF Well
<1>1. CASE SaveStarts
  <2>1. trackInfo' = Rows(song) /\ seq' = Blocks(song) /\ song' = song
    BY <1>0, <1>1, RowsWritten DEF SaveStarts, Plain
  <2>2. pc' # "start" /\ (pc' = "compress" => compress')
    BY <1>1 DEF SaveStarts
  <2> QED BY <2>1, <2>2 DEF Plain
<1>2. CASE SaveCannotStart \/ SaveCannotCompress \/ SaveCloses
  BY <1>2 DEF SaveCannotStart, SaveCannotCompress, SaveCloses, Plain
<1>3. CASE SaveCompresses
  BY <1>3 DEF SaveCompresses, Plain
<1>4. ASSUME UNCHANGED <<song, seq, trackInfo, compress>>, pc' \notin {"start", "compress"},
             Len(trackInfo) = Len(seq)
      PROVE  Plain'
  <2>1. trackInfo # << >>
    BY <1>0, <1>4, SizeFacts
  <2> QED BY <1>4, <2>1 DEF Plain
<1>5. CASE SaveHeader \/ SaveTrackInfo \/ SaveEvents \/ SaveData
  <2>1. UNCHANGED <<song, seq, trackInfo, compress>> /\ Len(trackInfo) = Len(seq)
    BY <1>0, <1>5 DEF SaveHeader, SaveTrackInfo, SaveEvents, SaveData, Stages, SavePcs, Writes
  <2>2. pc' \notin {"start", "compress"}
    BY <1>5 DEF SaveHeader, SaveTrackInfo, SaveEvents, SaveData, Fwrite
  <2> QED BY <1>4, <2>1, <2>2
<1>6. CASE \/ LoadHeader \/ LoadCannotStart \/ LoadTrackInfo \/ LoadTrack
           \/ LoadRunsOutOfMemory \/ LoadUnpacksEvents \/ LoadUnpacksData \/ LoadCopies
           \/ LoadEvents \/ LoadData \/ LoadCloses
  BY <1>0, <1>6, LoaderGoesOn DEF saving, Plain, SavePcs
<1>7. CASE UNCHANGED vars
  BY <1>7 DEF Plain, vars, saving
<1> QED BY <1>1, <1>2, <1>3, <1>5, <1>6, <1>7 DEF Next

\* What a file cut short ends in is the beginning of what was to be written.
LEMMA CutFacts ==
  ASSUME Shape, Cut, NEW a \in Seq(Cells), NEW c \in Seq(Cells), Begins(Cells, a \o c, Image)
  PROVE  disk = Image => Len(a) + Len(c) <= Len(disk)
<1>1. PICK r \in Seq(Cells) : Image = (a \o c) \o r
  BY DEF Begins
<1>2. Len((a \o c) \o r) = Len(a) + Len(c) + Len(r) /\ Len(r) \in Nat /\ Len(a) \in Nat
      /\ Len(c) \in Nat
  OBVIOUS
<1>3. Len(Image) = Len(a) + Len(c) + Len(r)
  BY <1>1, <1>2
<1> QED BY <1>2, <1>3

\* Reading the part c behind a from a file of this song.
LEMMA FindsPart ==
  ASSUME Shape, Cut, NEW a \in Seq(Cells), NEW c \in Seq(Cells), Begins(Cells, a \o c, Image),
         Len(a) <= Len(disk)
  PROVE  LET found == Found(Len(a), Len(c))
         IN  \/ found = c /\ Len(a) + Len(c) <= Len(disk)
             \/ /\ disk # Image /\ Len(found) \in Nat /\ Len(found) < Len(c)
                /\ Len(a) + Len(found) = Len(disk)
                /\ \A k \in 1..Len(found) : found[k] = c[k]
<1>1. PICK f : f = Found(Len(a), Len(c))
  OBVIOUS
<1>2. disk \in Seq(Cells) /\ Image \in Seq(Cells) /\ Begins(Cells, disk, Image)
  BY FrontFacts DEF Shape, Cut
<1>3. /\ Len(f) < Len(c) <=> Len(disk) < Len(a) + Len(c)
      /\ Len(f) < Len(c) => Len(a) + Len(f) = Len(disk)
      /\ \A k \in 1..Len(f) : f[k] = c[k]
      /\ Len(a) + Len(c) <= Len(disk) => f = c
      /\ f \in Seq(Cells)
  BY <1>1, <1>2, Finds
<1>4. Len(a) \in Nat /\ Len(c) \in Nat /\ Len(disk) \in Nat /\ Len(f) \in Nat
  BY <1>2, <1>3
<1>5. CASE Len(a) + Len(c) <= Len(disk)
  BY <1>1, <1>3, <1>5
<1>6. CASE Len(disk) < Len(a) + Len(c)
  <2>1. disk # Image
    BY <1>4, <1>6, CutFacts
  <2> QED BY <1>1, <1>3, <1>4, <1>6, <2>1
<1> QED BY <1>4, <1>5, <1>6

LEMMA FilledAll ==
  ASSUME NEW S, NEW c \in Seq(S), NEW before
  PROVE  Filled(Len(c), c, before) = c
<1>1. Filled(Len(c), c, before) = [k \in 1..Len(c) |-> c[k]]
  BY DEF Filled
<1> QED BY <1>1

\* The fields of the track information that was written, by their places in the file.
LEMMA RowCells ==
  ASSUME Shape, trackInfo = Rows(song), NEW t \in 1..Len(song), NEW f \in 1..InfoSize
  PROVE  FlattenSeq(trackInfo)[(t - 1) * InfoSize + f][3] =
           IF f <= 3 THEN song[t].events ELSE song[t].data
<1>1. /\ trackInfo \in Seq(Seq(Fields)) /\ Len(trackInfo) = Len(song) /\ Len(song) \in Nat
      /\ \A i \in 1..Len(trackInfo) : Len(trackInfo[i]) = InfoSize
  <2>1. Len(trackInfo) = Len(song) /\ Len(song) \in Nat
    BY SizeFacts DEF Rows
  <2> QED BY <2>1 DEF Shape
<1>2. Together(trackInfo, Len(trackInfo)) = FlattenSeq(trackInfo)
  BY <1>1, TogetherGrows
<1>3. Len(trackInfo) \in 0..Len(trackInfo) /\ t \in 1..Len(trackInfo)
  BY <1>1
<1>4. FlattenSeq(trackInfo)[(t - 1) * InfoSize + f] = trackInfo[t][f]
  BY <1>1, <1>2, <1>3, RowsTogether
<1>5. trackInfo[t] = RowOf(song[t])
  BY <1>1, <1>3 DEF Rows
<1>6. RowOf(song[t])[f][3] = IF f <= 3 THEN song[t].events ELSE song[t].data
  <2>1. f \in {1, 2, 3, 4, 5}
    BY DEF InfoSize
  <2> QED BY <2>1 DEF RowOf, Field
<1> QED BY <1>4, <1>5, <1>6

\* The track information that was read: all of it, or the beginning of it, which the
\* loader takes if at least the four fields are there that it looks at.
LEMMA InfosFound ==
  ASSUME Shape, Loading, Cut, trackInfo = Rows(song), Len(infos) = Len(song), LoadTrackInfo,
         ~ioError'
  PROVE  \/ infos' = SizesOf(song) /\ pos' = Len(UpTo(0)) /\ pos' <= Len(disk)
         \/ /\ pos' = Len(disk) /\ disk # Image
            /\ infos'[1][4] # 0 => infos'[1][2] = song[1].events /\ infos'[1][3] = song[1].events
<1> DEFINE n == Len(song)
           i == FlattenSeq(trackInfo)
<1>1. /\ n \in Nat /\ n >= 1 /\ Header \in Seq(Cells) /\ Len(Header) = HeaderSize
      /\ i \in Seq(Cells) /\ Len(i) = InfoSize * n /\ Len(trackInfo) = Len(seq)
  <2>1. Len(trackInfo) = Len(seq)
    BY SizeFacts DEF Rows
  <2> QED BY <2>1, SizeFacts, HeaderType, CellTypes, InfosLength
<1>2. Begins(Cells, Header \o i, Image) /\ UpTo(0) = Header \o i /\ Len(Header) <= Len(disk)
  <2>1. 0 \in 0..Len(song)
    BY <1>1
  <2> QED BY <1>1, <2>1, FrontFacts DEF Cut, HeaderSize, Shape
<1>3. PICK c, all :
        /\ c = Found(Len(Header), Len(i)) /\ all = Filled(InfoSize * n, c, Zero)
        /\ infos' = [t \in 1..n |-> InfoOf(all, t)] /\ pos' = Len(Header) + Len(c)
  <2>1. \E c \in {Found(HeaderSize, InfoSize * Len(infos)), << >>} :
          /\ infos' = [t \in 1..Len(infos) |->
                         InfoOf(Filled(InfoSize * Len(infos), c, Zero), t)]
          /\ pos' = HeaderSize + Len(c)
          /\ \/ ioError' = TRUE
             \/ UNCHANGED ioError /\ c = Found(HeaderSize, InfoSize * Len(infos))
    BY TrackInfoRead, Zenon
  <2>2. PICK c : c = Found(HeaderSize, InfoSize * Len(infos))
    OBVIOUS
  <2>3. /\ infos' = [t \in 1..Len(infos) |-> InfoOf(Filled(InfoSize * Len(infos), c, Zero), t)]
        /\ pos' = HeaderSize + Len(c)
    BY <2>1, <2>2, Zenon
  <2>4. HeaderSize = Len(Header) /\ Len(infos) = n /\ InfoSize * Len(infos) = Len(i)
    BY <1>1
  <2>5. c = Found(Len(Header), Len(i))
    BY <2>2, <2>4
  <2> QED BY <2>3, <2>4, <2>5, Zenon
<1>4. ASSUME NEW t \in 1..n, NEW f \in 1..InfoSize
      PROVE  i[(t - 1) * InfoSize + f][3] = IF f <= 3 THEN song[t].events ELSE song[t].data
  BY <1>4, RowCells
<1>5. ASSUME NEW t \in 1..n, NEW f \in 1..InfoSize
      PROVE  infos'[t][f] = all[(t - 1) * InfoSize + f][3]
  BY <1>3 DEF InfoOf
<1>6. PICK h, j : h = Header /\ j = i
  OBVIOUS
<1> HIDE DEF i
<1>7. /\ h \in Seq(Cells) /\ j \in Seq(Cells) /\ Begins(Cells, h \o j, Image)
      /\ Len(h) <= Len(disk) /\ c = Found(Len(h), Len(j))
  BY <1>1, <1>2, <1>3, <1>6
<1>8. \/ c = j /\ Len(h) + Len(j) <= Len(disk)
      \/ /\ disk # Image /\ Len(c) \in Nat /\ Len(c) < Len(j) /\ Len(h) + Len(c) = Len(disk)
         /\ \A k \in 1..Len(c) : c[k] = j[k]
  BY <1>7, FindsPart
<1>9. CASE c = j /\ Len(h) + Len(j) <= Len(disk)
  <2>1. all = j
    BY <1>1, <1>3, <1>6, <1>7, <1>9, FilledAll
  <2>2. infos' = SizesOf(song)
    <3>1. ASSUME NEW t \in 1..n
          PROVE  InfoOf(all, t) =
                   [f \in 1..InfoSize |-> IF f <= 3 THEN song[t].events ELSE song[t].data]
      BY <1>4, <1>6, <2>1 DEF InfoOf
    <3> QED BY <1>3, <3>1 DEF SizesOf
  <2>3. Len(h \o j) = Len(h) + Len(j)
    BY <1>7
  <2> QED BY <1>2, <1>3, <1>6, <1>9, <2>2, <2>3
<1>10. CASE /\ disk # Image /\ Len(c) \in Nat /\ Len(h) + Len(c) = Len(disk)
            /\ \A k \in 1..Len(c) : c[k] = j[k]
  <2>1. 1 \in 1..n /\ InfoSize * n \in Nat /\ InfoSize * n >= 5
    BY <1>1 DEF InfoSize
  <2>2. \A f \in 1..5 : /\ infos'[1][f] = all[f][3]
                        /\ j[f][3] = IF f <= 3 THEN song[1].events ELSE song[1].data
    <3>1. ASSUME NEW f \in 1..5 PROVE f \in 1..InfoSize /\ (1 - 1) * InfoSize + f = f
      BY DEF InfoSize
    <3> QED BY <1>4, <1>5, <1>6, <2>1, <3>1
  <2>3. ASSUME NEW f \in 1..5
        PROVE  /\ f <= Len(c) => all[f] = j[f]
               /\ f > Len(c) => all[f] = Zero
    <3>1. f \in 1..InfoSize * n
      BY <2>1
    <3>2. /\ f <= Len(c) => all[f] = c[f]
          /\ f > Len(c) => all[f] = Zero
      BY <1>3, <1>10, <2>1, <3>1, FilledCells
    <3> QED BY <1>10, <3>2
  <2>4. ASSUME infos'[1][4] # 0
        PROVE  infos'[1][2] = song[1].events /\ infos'[1][3] = song[1].events
    <3>1. Zero[3] = 0
      BY DEF Zero, Field
    <3>2. ~(4 > Len(c))
      BY <2>2, <2>3, <2>4, <3>1
    <3>3. 2 <= Len(c) /\ 3 <= Len(c)
      BY <1>10, <3>2
    <3> QED BY <2>2, <2>3, <3>3
  <2> QED BY <1>3, <1>6, <1>10, <2>4
<1> QED BY <1>8, <1>9, <1>10

\* The sizes the loader goes by are those of the song.
LEMMA SizesAre ==
  ASSUME infos = SizesOf(song), NEW t \in 1..Len(song)
  PROVE  EventsSize(t) = song[t].events /\ DataSize(t) = song[t].data /\ ~IsPacked(t)
  BY DEF SizesOf, EventsSize, DataSize, IsPacked, InfoSize

\* The blocks of a track, read from where they begin: the whole of them, or the file ends.
LEMMA EventsFound ==
  ASSUME Shape, Cut, seq = Blocks(song), infos = SizesOf(song), trk \in 1..Len(song),
         pos = Len(UpTo(trk - 1)), pos <= Len(disk), unpacked \in Memory, LoadEvents, ~ioError'
  PROVE  \/ /\ pc' = "readData" /\ UNCHANGED loaded
            /\ pos' = Len(UpTo(trk - 1) \o seq[trk].events) /\ pos' <= Len(disk)
            /\ unpacked' \in Memory /\ unpacked'.events = seq[trk].events
         \/ disk # Image /\ LoadReturns("null")
<1>1. PICK a, b : a = UpTo(trk - 1) /\ b = seq[trk].events
  OBVIOUS
<1>2. /\ a \in Seq(Cells) /\ b \in Seq(Cells) /\ Begins(Cells, a \o b, Image)
      /\ Len(a \o b) = Len(a) + Len(b) /\ Len(a) <= Len(disk) /\ pos = Len(a)
  BY <1>1, FrontGrows, CellTypes
<1>3. EventsSize(trk) = Len(b)
  <2>1. EventsSize(trk) = song[trk].events
    BY SizesAre
  <2> QED BY <1>1, <2>1, SizeFacts, BlocksType
<1>4. PICK c : c = Found(Len(a), Len(b))
  OBVIOUS
<1>5. /\ IF Len(c) < Len(b) THEN LoadReturns("null")
         ELSE /\ unpacked' = [unpacked EXCEPT !.events = Filled(Len(b), c, Junk)]
              /\ pc' = "readData" /\ UNCHANGED loaded
      /\ pos' = Len(a) + Len(c)
  BY <1>2, <1>3, <1>4 DEF LoadEvents, Fread
<1>6. \/ c = b /\ Len(a) + Len(b) <= Len(disk)
      \/ disk # Image /\ Len(c) < Len(b)
  BY <1>2, <1>4, FindsPart
<1>7. CASE c = b /\ Len(a) + Len(b) <= Len(disk)
  <2>1. Filled(Len(b), c, Junk) = b /\ ~(Len(c) < Len(b))
    BY <1>2, <1>7, FilledAll
  <2>2. unpacked' = [unpacked EXCEPT !.events = b] /\ pc' = "readData" /\ UNCHANGED loaded
    BY <1>5, <2>1
  <2>3. unpacked' \in Memory /\ unpacked'.events = b
    BY <1>2, <2>2 DEF Memory
  <2> QED BY <1>1, <1>2, <1>5, <1>7, <2>2, <2>3
<1>8. CASE disk # Image /\ Len(c) < Len(b)
  BY <1>5, <1>8
<1> QED BY <1>6, <1>7, <1>8

LEMMA DataFound ==
  ASSUME Shape, Cut, seq = Blocks(song), infos = SizesOf(song), trk \in 1..Len(song),
         pos = Len(UpTo(trk - 1) \o seq[trk].events), pos <= Len(disk), unpacked \in Memory,
         unpacked.events = seq[trk].events, LoadData, ~ioError'
  PROVE  \/ /\ pc' = "track" /\ trk' = trk + 1 /\ UNCHANGED loaded
            /\ pos' = Len(UpTo(trk)) /\ pos' <= Len(disk)
            /\ tracks' = Append(tracks, seq[trk])
         \/ disk # Image /\ LoadReturns("null")
<1>1. PICK a, b : a = UpTo(trk - 1) \o seq[trk].events /\ b = seq[trk].data
  OBVIOUS
<1>2. /\ a \in Seq(Cells) /\ b \in Seq(Cells) /\ UpTo(trk) = a \o b
      /\ Begins(Cells, a \o b, Image) /\ Len(a) <= Len(disk) /\ pos = Len(a)
  BY <1>1, FrontGrows, CellTypes
<1>3. DataSize(trk) = Len(b)
  <2>1. DataSize(trk) = song[trk].data
    BY SizesAre
  <2> QED BY <1>1, <2>1, SizeFacts, BlocksType
<1>4. PICK c : c = Found(Len(a), Len(b))
  OBVIOUS
<1>5. /\ IF Len(c) < Len(b) THEN LoadReturns("null")
         ELSE /\ tracks' = Append(tracks, [unpacked EXCEPT !.data = Filled(Len(b), c, Junk)])
              /\ pc' = "track" /\ trk' = trk + 1 /\ UNCHANGED loaded
      /\ pos' = Len(a) + Len(c)
  BY <1>2, <1>3, <1>4 DEF LoadData, Fread
<1>6. \/ c = b /\ Len(a) + Len(b) <= Len(disk)
      \/ disk # Image /\ Len(c) < Len(b)
  BY <1>2, <1>4, FindsPart
<1>7. CASE c = b /\ Len(a) + Len(b) <= Len(disk)
  <2>1. Filled(Len(b), c, Junk) = b /\ ~(Len(c) < Len(b)) /\ Len(a \o b) = Len(a) + Len(b)
    BY <1>2, <1>7, FilledAll
  <2>2. /\ tracks' = Append(tracks, [unpacked EXCEPT !.data = b])
        /\ pc' = "track" /\ trk' = trk + 1 /\ UNCHANGED loaded
    BY <1>5, <2>1
  <2>3. [unpacked EXCEPT !.data = b] = seq[trk]
    <3>1. seq[trk] \in Stored
      BY SizeFacts DEF Shape
    <3> QED BY <1>1, <3>1 DEF Memory, Stored
  <2> QED BY <1>2, <1>5, <1>7, <2>1, <2>2, <2>3
<1>8. CASE disk # Image /\ Len(c) < Len(b)
  BY <1>5, <1>8
<1> QED BY <1>6, <1>7, <1>8

LEMMA JoinFacts ==
  ASSUME NEW S, NEW a \in Seq(S), NEW b \in Seq(S)
  PROVE  /\ a \o b \in Seq(S) /\ Len(a \o b) = Len(a) + Len(b)
         /\ Len(a) \in Nat /\ Len(b) \in Nat
         /\ \A k \in 1..Len(a) : (a \o b)[k] = a[k]
OBVIOUS

\* A file that was written to its end is one the loader takes.
LEMMA ImageHasHeader == ASSUME Shape, disk = Image PROVE HasHeader
<1>1. PICK h, i, c : /\ h = Header /\ i = FlattenSeq(trackInfo) /\ c = Together(Content(seq), Len(song))
  OBVIOUS
<1>2. PICK r \in Seq(Cells) : Image = UpTo(0) \o r
  <2>1. 0 \in 0..Len(song)
    BY SizeFacts
  <2> QED BY <2>1, FrontFacts DEF Begins
<1>3. UpTo(0) = h \o i /\ h \in Seq(Cells) /\ i \in Seq(Cells) /\ Len(h) = 3
  BY <1>1, FrontFacts, HeaderType, CellTypes DEF HeaderSize
<1>4. PICK x : x = h \o i
  OBVIOUS
<1>5. x \in Seq(Cells) /\ Len(x) = Len(h) + Len(i) /\ Len(i) \in Nat
      /\ \A k \in 1..Len(h) : x[k] = h[k]
  BY <1>3, <1>4, JoinFacts
<1>6. disk = x \o r
  BY <1>2, <1>3, <1>4
<1>7. Len(disk) = Len(x) + Len(r) /\ Len(r) \in Nat /\ \A k \in 1..Len(x) : disk[k] = x[k]
  <2>1. Len(x \o r) = Len(x) + Len(r) /\ Len(r) \in Nat /\ \A k \in 1..Len(x) : (x \o r)[k] = x[k]
    BY <1>5, JoinFacts
  <2> QED BY <1>6, <2>1, Zenon
<1>8. Len(disk) >= 3 /\ \A k \in 1..3 : disk[k] = h[k]
  BY <1>3, <1>5, <1>7
<1> QED BY <1>1, <1>8, HeaderType DEF HasHeader, HeaderSize

\* The loader has the first tracks, and stands behind them in the file.
InOrder ==
  /\ infos = SizesOf(song) /\ tracks = FirstOf(Blocks(song), trk - 1) /\ pos <= Len(disk)
  /\ pc # "readData" => pos = Len(UpTo(trk - 1))
  /\ pc = "readData" => /\ pos = Len(UpTo(trk - 1) \o seq[trk].events)
                        /\ unpacked.events = seq[trk].events

\* The file ended in the track information; nothing of the first track will be found.
AtTheEnd ==
  /\ trk = 1 /\ pos = Len(disk) /\ disk # Image /\ pc # "readData"
  /\ infos[1][2] = song[1].events /\ infos[1][3] = song[1].events

Reading ==
  /\ pc \in {"readInfos", "track"} \cup TrackPcs =>
       Cut /\ Len(infos) = Len(song) /\ trackInfo = Rows(song)
  /\ pc \in {"track"} \cup TrackPcs =>
       pc \in {"track", "readEvents", "readData"} /\ (InOrder \/ AtTheEnd)
  /\ loaded = "sequence" => tracks = Blocks(song)
  /\ loaded = "null" => disk # Image \/ memFailed \/ song[1].data = 0

LEMMA LoaderSame ==
  ASSUME UNCHANGED <<song, saving>>
  PROVE  /\ UNCHANGED <<seq, trackInfo, compress, disk, room, saved, Image>> /\ (Cut' <=> Cut)
         /\ \A k : UpTo(k)' = UpTo(k)
<1>1. UNCHANGED <<song, seq, trackInfo, compress, disk, room, saved>>
  BY DEF saving
<1>2. Image' = Image /\ \A k : UpTo(k)' = UpTo(k)
  BY <1>1, SameFile
<1> QED BY <1>1, <1>2 DEF Cut, HeaderSize

\* What the steps of the loader start from.
Starts == Kept /\ Plain /\ Reading /\ ~compress /\ ~ioError

LEMMA StartsFacts ==
  ASSUME Starts
  PROVE  /\ Shape /\ Stages /\ Beginning /\ Loading /\ FileSoFar /\ seq = Blocks(song)
         /\ Len(song) \in Nat /\ Len(song) >= 1 /\ song[1].events >= 1 /\ song[1].events \in Nat
         /\ 1 \in 1..Len(song) /\ Len(disk) \in Nat
         /\ \A t \in 1..Len(song) : song[t].events # 0
<1>1. Shape /\ Stages /\ Beginning /\ Loading /\ FileSoFar /\ seq = Blocks(song)
  BY DEF Starts, Kept, Well, Plain
<1>2. Len(song) \in Nat /\ Len(song) >= 1 /\ \A t \in 1..Len(song) : song[t].events \in Nat \ {0}
  BY <1>1, SizeFacts
<1>3. 1 \in 1..Len(song) /\ Len(disk) \in Nat
  BY <1>1, <1>2 DEF Shape
<1> QED BY <1>1, <1>2, <1>3

LEMMA HeaderReading ==
  ASSUME Starts, LoadHeader, ~ioError' PROVE Reading'
<1>0. /\ Shape /\ Beginning /\ Stages /\ FileSoFar /\ UNCHANGED <<song, saving>>
      /\ pc = "saved" /\ UNCHANGED memFailed
  BY StartsFacts DEF LoadHeader
<1>1. loaded = "no"
  BY <1>0 DEF Stages
<1>2. CASE /\ pc' = "readInfos" /\ HasHeader /\ infos' = [t \in 1..Len(song) |-> << >>]
           /\ UNCHANGED loaded
  <2>1. disk # << >>
    BY <1>2 DEF HasHeader, HeaderSize
  <2>2. trackInfo = Rows(song)
    BY <2>1 DEF Starts, Plain
  <2>3. Cut
    <3>1. CASE disk = Image
      <4>1. Len(song) \in 0..Len(song)
        BY StartsFacts
      <4> QED BY <1>0, <3>1, <4>1, FrontFacts DEF Cut
    <3>2. CASE disk # Image
      BY <1>0, <2>1, <3>2 DEF FileSoFar, SavePcs, Writes
    <3> QED BY <3>1, <3>2
  <2>4. Len(infos') = Len(song)
    BY <1>2, StartsFacts
  <2> QED BY <1>0, <1>1, <1>2, <2>2, <2>3, <2>4, LoaderSame DEF Reading, TrackPcs
<1>3. CASE pc' = "loaded" /\ loaded' = "null" /\ ~HasHeader
  <2>1. disk # Image
    BY <1>0, <1>3, ImageHasHeader
  <2> QED BY <1>0, <1>3, <2>1, LoaderSame DEF Reading, TrackPcs
<1> QED BY <1>0, <1>2, <1>3, HeaderRead

LEMMA InfosReading ==
  ASSUME Starts, LoadTrackInfo, ~ioError' PROVE Reading'
<1>0. /\ Shape /\ Loading /\ Stages /\ UNCHANGED <<song, saving, tracks, trk, memFailed>>
      /\ pc = "readInfos" /\ trk = 1 /\ tracks = << >>
  BY StartsFacts DEF LoadTrackInfo, Stages, Loading
<1>1. loaded = "no" /\ Cut /\ Len(infos) = Len(song) /\ trackInfo = Rows(song)
  BY <1>0 DEF Stages, Starts, Reading
<1>2. /\ Len(infos') = Len(song)
      /\ IF 0 \in {infos'[1][1], infos'[1][2], infos'[1][4]}
         THEN pc' = "loaded" /\ loaded' = "null"
         ELSE pc' = "track" /\ loaded' = loaded
  BY <1>0, <1>1, TrackInfoRead DEF LoadReturns
<1>3. \/ infos' = SizesOf(song) /\ pos' = Len(UpTo(0)) /\ pos' <= Len(disk)
      \/ /\ pos' = Len(disk) /\ disk # Image
         /\ infos'[1][4] # 0 => infos'[1][2] = song[1].events /\ infos'[1][3] = song[1].events
  BY <1>0, <1>1, InfosFound
<1>4. Cut' /\ trackInfo' = Rows(song) /\ disk' = disk /\ Image' = Image /\ UpTo(0)' = UpTo(0)
  BY <1>0, <1>1, LoaderSame
<1>5. CASE pc' = "loaded" /\ loaded' = "null" /\ 0 \in {infos'[1][1], infos'[1][2], infos'[1][4]}
  <2>1. CASE infos' = SizesOf(song)
    <3>1. infos'[1][1] = song[1].events /\ infos'[1][2] = song[1].events
          /\ infos'[1][4] = song[1].data /\ song[1].events # 0
      BY <2>1, StartsFacts DEF SizesOf, InfoSize
    <3>2. song[1].data = 0
      BY <1>5, <3>1
    <3> QED BY <1>0, <1>4, <1>5, <3>2 DEF Reading, TrackPcs
  <2>2. CASE disk # Image
    BY <1>4, <1>5, <2>2 DEF Reading, TrackPcs
  <2> QED BY <1>3, <2>1, <2>2
<1>6. CASE pc' = "track" /\ loaded' = loaded /\ 0 \notin {infos'[1][1], infos'[1][2], infos'[1][4]}
  <2>1. CASE infos' = SizesOf(song) /\ pos' = Len(UpTo(0)) /\ pos' <= Len(disk)
    <3>1. tracks' = FirstOf(Blocks(song), 0) /\ trk' - 1 = 0 /\ song' = song
      BY <1>0, FirstGrows, StartsFacts, BlocksType, SizeFacts
    <3>2. UpTo(trk - 1)' = UpTo(0)
      BY <1>4, <3>1 DEF UpTo
    <3>3. InOrder'
      BY <1>4, <1>6, <2>1, <3>1, <3>2 DEF InOrder
    <3> QED BY <1>0, <1>1, <1>2, <1>4, <1>6, <3>3 DEF Reading
  <2>2. CASE /\ pos' = Len(disk) /\ disk # Image
             /\ infos'[1][4] # 0 => infos'[1][2] = song[1].events /\ infos'[1][3] = song[1].events
    <3>1. AtTheEnd'
      BY <1>0, <1>4, <1>6, <2>2 DEF AtTheEnd
    <3> QED BY <1>0, <1>1, <1>2, <1>4, <1>6, <3>1 DEF Reading
  <2> QED BY <1>3, <2>1, <2>2
<1> QED BY <1>2, <1>5, <1>6

LEMMA TrackReading ==
  ASSUME Starts, LoadTrack PROVE Reading'
<1>0. /\ pc = "track" /\ trk <= Len(infos) /\ trk \in 1..Len(song) + 1
      /\ UNCHANGED <<song, saving, pos, infos, tracks, loaded, trk, memFailed>>
      /\ pc' = IF IsPacked(trk) THEN "unpackEvents" ELSE "readEvents"
  BY StartsFacts DEF LoadTrack, Loading
<1>1. /\ Cut /\ Len(infos) = Len(song) /\ trackInfo = Rows(song) /\ (InOrder \/ AtTheEnd)
      /\ loaded # "sequence" /\ loaded # "null"
  BY <1>0, StartsFacts DEF Starts, Reading, Stages
<1>2. ~IsPacked(trk)
  <2>1. CASE InOrder
    <3>1. trk \in 1..Len(song)
      BY <1>0, <1>1, StartsFacts
    <3> QED BY <2>1, <3>1, SizesAre DEF InOrder
  <2>2. CASE AtTheEnd
    BY <2>2 DEF AtTheEnd, IsPacked
  <2> QED BY <1>1, <2>1, <2>2
<1>3. /\ Cut' /\ trackInfo' = Rows(song) /\ disk' = disk /\ Image' = Image /\ pc' = "readEvents"
  BY <1>0, <1>1, <1>2, LoaderSame
<1>4. UpTo(trk - 1)' = UpTo(trk - 1)
  BY <1>0, LoaderSame DEF UpTo
<1>5. InOrder' \/ AtTheEnd'
  <2>1. CASE InOrder
    BY <1>0, <1>3, <1>4, <2>1 DEF InOrder
  <2>2. CASE AtTheEnd
    BY <1>0, <1>3, <2>2 DEF AtTheEnd
  <2> QED BY <1>1, <2>1, <2>2
<1> QED BY <1>0, <1>1, <1>3, <1>5 DEF Reading

LEMMA EventsReading ==
  ASSUME Starts, LoadEvents, ~ioError' PROVE Reading'
<1>0. /\ pc = "readEvents" /\ trk \in 1..Len(infos)
      /\ UNCHANGED <<song, saving, infos, tracks, trk, memFailed>>
      /\ Shape /\ unpacked \in Memory /\ seq = Blocks(song)
  <2>1. Loading /\ pc = "readEvents"
    BY StartsFacts DEF LoadEvents
  <2>2. trk \in 1..Len(infos)
    BY <2>1, SizesType DEF TrackPcs
  <2> QED BY <2>1, <2>2, StartsFacts DEF LoadEvents, Loading
<1>1. /\ Cut /\ Len(infos) = Len(song) /\ trackInfo = Rows(song) /\ (InOrder \/ AtTheEnd)
      /\ loaded # "sequence" /\ loaded # "null"
  BY <1>0, StartsFacts DEF Starts, Reading, Stages, TrackPcs
<1>2. /\ Cut' /\ trackInfo' = Rows(song) /\ disk' = disk /\ Image' = Image /\ seq' = seq
      /\ UpTo(trk - 1)' = UpTo(trk - 1)
  BY <1>0, <1>1, LoaderSame DEF UpTo
<1>3. CASE disk # Image /\ LoadReturns("null")
  BY <1>2, <1>3 DEF LoadReturns, Reading, TrackPcs
<1>4. CASE InOrder
  <2>1. pos = Len(UpTo(trk - 1)) /\ pos <= Len(disk) /\ infos = SizesOf(song)
    BY <1>0, <1>4 DEF InOrder
  <2>2. CASE /\ pc' = "readData" /\ UNCHANGED loaded
             /\ pos' = Len(UpTo(trk - 1) \o seq[trk].events) /\ pos' <= Len(disk)
             /\ unpacked' \in Memory /\ unpacked'.events = seq[trk].events
    <3>1. (UpTo(trk - 1) \o seq[trk].events)' = UpTo(trk - 1) \o seq[trk].events
      BY <1>0, <1>2
    <3>2. InOrder'
      BY <1>0, <1>2, <1>4, <2>2, <3>1 DEF InOrder
    <3> QED BY <1>0, <1>1, <1>2, <2>2, <3>2 DEF Reading
  <2> QED BY <1>0, <1>1, <1>3, <2>1, <2>2, EventsFound
<1>5. CASE AtTheEnd
  <2>1. /\ trk = 1 /\ pos = Len(disk) /\ disk # Image /\ EventsSize(trk) = song[1].events
        /\ song[1].events >= 1 /\ song[1].events \in Nat /\ Len(disk) \in Nat
    BY <1>5, StartsFacts DEF AtTheEnd, EventsSize
  <2>2. Len(Found(pos, EventsSize(trk))) < EventsSize(trk)
    <3>1. PICK p, n : p = pos /\ n = EventsSize(trk)
      OBVIOUS
    <3>2. p \in Nat /\ n \in Nat /\ p <= Len(disk) /\ n >= 1 /\ p = Len(disk)
      BY <2>1, <3>1
    <3>3. Len(Found(p, n)) = IF p + n <= Len(disk) THEN n ELSE Len(disk) - p
      BY <1>0, <3>2, FoundType
    <3>4. Len(Found(p, n)) < n
      BY <3>2, <3>3
    <3> QED BY <3>1, <3>4
  <2>3. LoadReturns("null")
    BY <2>2 DEF LoadEvents, Fread
  <2> QED BY <1>3, <2>1, <2>3
<1> QED BY <1>1, <1>4, <1>5

LEMMA DataReading ==
  ASSUME Starts, LoadData, ~ioError' PROVE Reading'
<1>0. /\ pc = "readData" /\ trk \in 1..Len(infos)
      /\ UNCHANGED <<song, saving, infos, memFailed>>
      /\ Shape /\ unpacked \in Memory /\ seq = Blocks(song)
  <2>1. Loading /\ pc = "readData"
    BY StartsFacts DEF LoadData
  <2>2. trk \in 1..Len(infos)
    BY <2>1, SizesType DEF TrackPcs
  <2> QED BY <2>1, <2>2, StartsFacts DEF LoadData, Loading
<1>1. /\ Cut /\ Len(infos) = Len(song) /\ trackInfo = Rows(song) /\ InOrder
      /\ loaded # "sequence" /\ loaded # "null"
  BY <1>0, StartsFacts DEF Starts, Reading, Stages, TrackPcs, AtTheEnd
<1>2. /\ Cut' /\ trackInfo' = Rows(song) /\ disk' = disk /\ Image' = Image /\ song' = song
      /\ UpTo(trk)' = UpTo(trk') /\ \A k : UpTo(k)' = UpTo(k)
  BY <1>0, <1>1, LoaderSame DEF UpTo
<1>3. CASE disk # Image /\ LoadReturns("null")
  BY <1>2, <1>3 DEF LoadReturns, Reading, TrackPcs
<1>4. CASE /\ pc' = "track" /\ trk' = trk + 1 /\ UNCHANGED loaded
           /\ pos' = Len(UpTo(trk)) /\ pos' <= Len(disk) /\ tracks' = Append(tracks, seq[trk])
  <2>1. trk' - 1 = trk /\ trk - 1 \in 0..Len(song) - 1 /\ (trk - 1) + 1 = trk
    BY <1>0, <1>1, <1>4, StartsFacts
  <2>2. UpTo(trk - 1)' = UpTo(trk)
    BY <1>2, <2>1 DEF UpTo
  <2>3. tracks' = FirstOf(Blocks(song), trk)
    <3>1. PICK k : k = trk - 1
      OBVIOUS
    <3>2. k \in 0..Len(Blocks(song)) - 1 /\ k + 1 = trk /\ Blocks(song) \in Seq(Stored)
      BY <1>0, <2>1, <3>1, BlocksType, SizeFacts
    <3>3. FirstOf(Blocks(song), k + 1) = Append(FirstOf(Blocks(song), k), Blocks(song)[k + 1])
      BY <3>2, FirstGrows
    <3>4. tracks = FirstOf(Blocks(song), k)
      BY <1>1, <3>1 DEF InOrder
    <3> QED BY <1>0, <1>4, <3>2, <3>3, <3>4
  <2>4. InOrder'
    BY <1>0, <1>1, <1>2, <1>4, <2>1, <2>2, <2>3 DEF InOrder
  <2> QED BY <1>0, <1>1, <1>2, <1>4, <2>4 DEF Reading
<1>5. /\ pos = Len(UpTo(trk - 1) \o seq[trk].events) /\ pos <= Len(disk)
      /\ infos = SizesOf(song) /\ unpacked.events = seq[trk].events /\ trk \in 1..Len(song)
  BY <1>0, <1>1 DEF InOrder
<1> QED BY <1>0, <1>1, <1>3, <1>4, <1>5, DataFound

LEMMA ClosesReading ==
  ASSUME Starts, LoadCloses PROVE Reading'
<1>0. /\ pc = "track" /\ trk > Len(infos) /\ trk \in 1..Len(song) + 1
      /\ UNCHANGED <<song, saving, tracks>> /\ pc' = "loaded" /\ loaded' = "sequence"
  BY StartsFacts DEF LoadCloses, Loading, LoadReturns
<1>1. Len(infos) = Len(song) /\ (InOrder \/ AtTheEnd)
  BY <1>0 DEF Starts, Reading
<1>2. trk - 1 = Len(song) /\ trk # 1
  BY <1>0, <1>1, StartsFacts
<1>3. tracks = FirstOf(Blocks(song), Len(song))
  BY <1>1, <1>2 DEF InOrder, AtTheEnd
<1>4. FirstOf(Blocks(song), Len(song)) = Blocks(song)
  BY StartsFacts, SizeFacts, BlocksType, FirstGrows
<1> QED BY <1>0, <1>3, <1>4 DEF Reading, TrackPcs

LEMMA ReadingStep ==
  ASSUME Kept, Plain, ~compress /\ ~ioError => Reading, [Next]_vars
  PROVE  ~compress' /\ ~ioError' => Reading'
<1> SUFFICES ASSUME ~compress', ~ioError' PROVE Reading'
  OBVIOUS
<1>0. Shape /\ Stages /\ Beginning /\ Loading
  BY DEF Kept, Well
<1>1. CASE \/ SaveStarts \/ SaveCannotStart \/ SaveCompresses \/ SaveCannotCompress
           \/ SaveHeader \/ SaveTrackInfo \/ SaveEvents \/ SaveData \/ SaveCloses
  <2>1. pc' \in SavePcs \cup {"saved"} /\ loaded' = loaded
    BY <1>0, <1>1, SaverGoesOn DEF loading
  <2>2. Stages'
    BY <1>0, StagesStep
  <2>3. loaded' = "no"
    BY <2>1, <2>2 DEF Stages, SavePcs, Writes
  <2> QED BY <2>1, <2>3 DEF Reading, SavePcs, Writes, TrackPcs
<1>2. CASE \/ LoadHeader \/ LoadCannotStart \/ LoadTrackInfo \/ LoadTrack
           \/ LoadRunsOutOfMemory \/ LoadUnpacksEvents \/ LoadUnpacksData \/ LoadCopies
           \/ LoadEvents \/ LoadData \/ LoadCloses
  <2>1. UNCHANGED <<song, saving>> /\ ~ioError
    BY <1>0, <1>2, LoaderGoesOn
  <2>2. Starts
    BY <2>1 DEF Starts, saving
  <2>3. CASE LoadCannotStart \/ LoadRunsOutOfMemory
    BY <2>3 DEF LoadCannotStart, LoadRunsOutOfMemory, LoadReturns, Reading, TrackPcs
  <2>4. CASE LoadUnpacksEvents \/ LoadUnpacksData \/ LoadCopies
    BY <2>2, <2>4 DEF LoadUnpacksEvents, LoadUnpacksData, LoadCopies, Starts, Reading, TrackPcs
  <2> QED BY <1>2, <2>2, <2>3, <2>4, HeaderReading, InfosReading, TrackReading,
             EventsReading, DataReading, ClosesReading
<1>3. CASE UNCHANGED vars
  <2>1. /\ UNCHANGED <<song, saving>> /\ UNCHANGED <<pc, trk, memFailed, ioError>>
        /\ UNCHANGED <<pos, infos, unpacked, tracks, loaded>>
    BY <1>3 DEF vars, loading
  <2>2. /\ UNCHANGED <<seq, trackInfo, disk, compress, Image, UpTo(trk - 1)>> /\ (Cut' <=> Cut)
    BY <2>1, LoaderSame DEF UpTo
  <2>3. Reading
    BY <2>1, <2>2
  <2> QED BY <2>1, <2>2, <2>3 DEF Reading, InOrder, AtTheEnd
<1> QED BY <1>1, <1>2, <1>3 DEF Next

Loads == Kept /\ Plain /\ (~compress /\ ~ioError => Reading)

LEMMA LoadsAlways == Spec => []Loads
<1>1. Init => Loads
  <2>1. Init => Kept
    BY WellInit DEF Kept, Init, FileSoFar, SavePcs
  <2> QED BY <2>1, PlainInit DEF Loads, Init, Reading, TrackPcs
<1>2. Loads /\ [Next]_vars => Loads'
  <2>1. Kept /\ [Next]_vars => Kept'
    BY WellStep, FileStep DEF Kept
  <2> QED BY <2>1, PlainStep, ReadingStep DEF Loads, Kept
<1> QED BY <1>1, <1>2, PTL DEF Spec

\* loadNktSequence: a sequence it returns is the one that was saved, also where the disk
\* was full and the file is not whole.
THEOREM LoadsWhatWasSaved == Spec => []LoadedIsSaved
<1>1. Loads => LoadedIsSaved
  BY DEF Loads, Reading, LoadedIsSaved
<1> QED BY <1>1, LoadsAlways, PTL

\* And it takes every file that saveNktSequence said was good.
THEOREM TakesWhatWasSaved == Spec => []SavedLoads
<1>1. ASSUME Loads, loaded = "null", saved # "error", ~compress, ~ioError
      PROVE  memFailed \/ song[1].data = 0
  <2>1. pc = "loaded"
    BY <1>1 DEF Loads, Kept, Well, Stages
  <2>2. disk = Image
    BY <1>1, <2>1 DEF Loads, Kept, FileSoFar, SavePcs, Writes
  <2> QED BY <1>1, <2>2 DEF Loads, Reading
<1>2. Loads => SavedLoads
  BY <1>1 DEF SavedLoads
<1> QED BY <1>2, LoadsAlways, PTL
=============================================================================
