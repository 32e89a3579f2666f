------------------------------- MODULE NktFile -------------------------------
(***************************************************************************)
(* Saving a sequence to an NKT file and loading it back: saveNktSequence   *)
(* and loadNktSequence.  The disk may be full and reads and writes may     *)
(* fail in between.  Memory and files hold cells, the size of one uint32:  *)
(* a field of a header, or a part of a block, known by what it belongs to. *)
(***************************************************************************)
EXTENDS Integers, Sequences, FiniteSets, SequencesExt

CONSTANTS
  Songs,    \* sequences to save: for each track the sizes of its two blocks
  ROOM_MAX  \* cells that are free on the disk at most

\* Every track has at least its end block; a track of tempo changes has no data.
Size == [events : Nat \ {0}, data : Nat]
ASSUME SongsAssumption == Songs \subseteq Seq(Size) \ {<< >>}
ASSUME RoomAssumption  == ROOM_MAX \in Nat

Field(v)       == <<"field", 0, v>>
Part(what, t, n) == [k \in 1..n |-> <<what, t, k>>]
Zero == Field(0)
Junk == <<"junk", 0, 0>>  \* memory nobody has written

\* Memory of n cells after cells were read or copied to its start.
Filled(n, cells, before) == [k \in 1..n |-> IF k <= Len(cells) THEN cells[k] ELSE before]

ID_NKT      == 1
NKT_VERSION == 4
HeaderSize  == 3  \* id, division and version, nbOfTracks
InfoSize    == 5  \* sNktTrackInfo

VARIABLES
  song,       \* what is to be saved
  seq,        \* the sequence in memory: the blocks of each track
  trackInfo,  \* the track information that goes to the file
  compress,   \* bCompress
  disk, room, \* the file and the cells left on the disk
  pc,
  trk,        \* track being saved or loaded
  pos,        \* file position of the loader
  infos,      \* track information that was read
  unpacked,   \* temporary buffers of the loader
  tracks,     \* tracks loaded so far
  saved,      \* "no", "ok" or "error"
  loaded,     \* "no", "sequence" or "null"
  memFailed, ioError  \* some allocation failed, some call returned an error code

saving  == <<seq, trackInfo, compress, disk, room, saved>>
loading == <<pos, infos, unpacked, tracks, loaded>>
vars == <<song, saving, loading, pc, trk, memFailed, ioError>>

Blocks(s) == [t \in 1..Len(s) |-> [events |-> Part("event", t, s[t].events),
                                   data   |-> Part("data", t, s[t].data)]]

\* Room comes by the cluster: a disk that is not full holds a whole header.
Init ==
  /\ song \in Songs /\ seq = Blocks(song) /\ trackInfo = << >> /\ compress = FALSE
  /\ disk = << >> /\ room \in {0} \cup HeaderSize..ROOM_MAX
  /\ pc = "start" /\ trk = 1 /\ pos = 0
  /\ infos = << >> /\ unpacked = [events |-> << >>, data |-> << >>] /\ tracks = << >>
  /\ saved = "no" /\ loaded = "no"
  /\ memFailed = FALSE /\ ioError = FALSE

SaveReturns(res) == saved' = res /\ pc' = "saved" /\ trk' = 1
LoadReturns(res) == loaded' = res /\ pc' = "loaded"

-----------------------------------------------------------------------------
(* saveNktSequence.                                                        *)

\* setNktTrackInfo: both sizes of a block are those it has in memory.
TrackInfo(t) == LET e == Len(seq[t].events)  d == Len(seq[t].data)
                IN  <<Field(e), Field(e), Field(e), Field(d), Field(d)>>

SaveStarts ==
  /\ pc = "start"
  /\ trackInfo' = [t \in 1..Len(seq) |-> TrackInfo(t)]
  /\ compress' \in BOOLEAN
  /\ pc' = IF compress' THEN "compress" ELSE "header"
  /\ UNCHANGED <<song, seq, disk, room, saved, loading, trk, memFailed, ioError>>

SaveCannotStart ==
  /\ pc = "start"
  /\ \/ memFailed' = TRUE /\ UNCHANGED ioError  \* no memory for the track information
     \/ ioError' = TRUE /\ UNCHANGED memFailed  \* Fcreate fails
  /\ SaveReturns("error")
  /\ UNCHANGED <<song, seq, trackInfo, compress, disk, room, loading>>

\* Only the first track is packed, in place.  The information keeps the size
\* the block had before, beside its packed size.
PackedBlocks(e, d) ==
  /\ seq' = [seq EXCEPT ![1] = [events |-> Part("packed event", 1, e),
                                data   |-> Part("packed data", 1, d)]]
  /\ trackInfo' = [trackInfo EXCEPT ![1][3] = Field(e), ![1][5] = Field(d)]

SaveCompresses ==
  /\ pc = "compress"
  /\ \E e \in 1..Len(seq[1].events) - 1, d \in 1..Len(seq[1].data) - 1 : PackedBlocks(e, d)
  /\ pc' = "header"
  /\ UNCHANGED <<song, compress, disk, room, saved, loading, trk, memFailed, ioError>>

\* A block does not get smaller, or the memory for it cannot be had.
SaveCannotCompress ==
  /\ pc = "compress"
  /\ memFailed' \in {memFailed, TRUE}
  /\ SaveReturns("error")
  /\ UNCHANGED <<song, seq, trackInfo, compress, disk, room, loading, ioError>>

\* Fwrite writes what there is room for, or returns an error code: a negative
\* number, which compares as the largest of the unsigned ones.
Fwrite(cells, wanted, next) ==
  \/ LET written == IF Len(cells) <= room THEN Len(cells) ELSE room
     IN  /\ disk' = disk \o SubSeq(cells, 1, written) /\ room' = room - written
         /\ IF written < wanted THEN SaveReturns("error")
            ELSE next /\ UNCHANGED saved
         /\ UNCHANGED ioError
  \/ ioError' = TRUE /\ next /\ UNCHANGED <<disk, room, saved>>

SaveHeader ==
  /\ pc = "header"
  /\ Fwrite(<<Field(ID_NKT), Field(NKT_VERSION), Field(Len(song))>>, HeaderSize,
            pc' = "infos" /\ UNCHANGED trk)
  /\ UNCHANGED <<song, seq, trackInfo, compress, loading, memFailed>>

\* The size written is compared with sizeof(sizeof(...)), 4 bytes.
SaveTrackInfo ==
  /\ pc = "infos"
  /\ Fwrite(FlattenSeq(trackInfo), 1, pc' = "events" /\ UNCHANGED trk)
  /\ UNCHANGED <<song, seq, trackInfo, compress, loading, memFailed>>

SaveEvents ==
  /\ pc = "events"
  /\ Fwrite(seq[trk].events, Len(seq[trk].events), pc' = "data" /\ UNCHANGED trk)
  /\ UNCHANGED <<song, seq, trackInfo, compress, loading, memFailed>>

\* Mutant: a block that is cut short is not noticed.
SaveDataUnchecked ==
  /\ pc = "data"
  /\ Fwrite(seq[trk].data, 0,
            IF trk < Len(seq) THEN pc' = "events" /\ trk' = trk + 1
                              ELSE pc' = "close" /\ UNCHANGED trk)
  /\ UNCHANGED <<song, seq, trackInfo, compress, loading, memFailed>>

SaveData ==
  /\ pc = "data"
  /\ Fwrite(seq[trk].data, Len(seq[trk].data),
            IF trk < Len(seq) THEN pc' = "events" /\ trk' = trk + 1
                              ELSE pc' = "close" /\ UNCHANGED trk)
  /\ UNCHANGED <<song, seq, trackInfo, compress, loading, memFailed>>

SaveCloses ==
  /\ pc = "close"
  /\ \/ SaveReturns("ok") /\ UNCHANGED ioError
     \/ SaveReturns("error") /\ ioError' = TRUE
  /\ UNCHANGED <<song, seq, trackInfo, compress, disk, room, loading, memFailed>>

-----------------------------------------------------------------------------
(* loadNktSequence.                                                        *)

\* What Fread finds at file position p: fewer than n cells at the end of file.
Found(p, n) == SubSeq(disk, p + 1, IF p + n <= Len(disk) THEN p + n ELSE Len(disk))

\* An error code reads nothing, and is not taken for a short count.
Fread(p, n, Got(_, _)) ==
  \/ Got(Found(p, n), Len(Found(p, n)) < n) /\ pos' = p + Len(Found(p, n)) /\ UNCHANGED ioError
  \/ Got(<< >>, FALSE) /\ pos' = p /\ ioError' = TRUE

\* The result of the read is not looked at, only the id and, further down, the
\* version, in a header that was cleared before.
LoadHeader ==
  /\ pc = "saved"
  /\ Fread(0, HeaderSize, LAMBDA cells, short :
       LET hd == Filled(HeaderSize, cells, Zero)
       IN  IF hd[1] = Field(ID_NKT) /\ hd[2] = Field(NKT_VERSION)
           THEN pc' = "readInfos" /\ infos' = [t \in 1..hd[3][3] |-> << >>] /\ UNCHANGED loaded
           ELSE LoadReturns("null") /\ UNCHANGED infos)
  /\ UNCHANGED <<song, saving, unpacked, tracks, trk, memFailed>>

\* The memory for the sequence or for the track information cannot be had, or
\* the file not be opened.
LoadCannotStart ==
  /\ pc = "saved"
  /\ memFailed' = TRUE /\ LoadReturns("null")
  /\ UNCHANGED <<song, saving, pos, infos, unpacked, tracks, trk, ioError>>

\* The fields of sNktTrackInfo of track t.
InfoOf(cells, t) == [f \in 1..InfoSize |-> cells[(t - 1) * InfoSize + f][3]]
EventsSize(t)  == infos[t][2]
DataSize(t)    == infos[t][4]
IsPacked(t)    == infos[t][2] # infos[t][3]

\* Only the first track is checked for blocks and data.
LoadTrackInfo ==
  /\ pc = "readInfos"
  /\ Fread(HeaderSize, InfoSize * Len(infos), LAMBDA cells, short :
       LET all == Filled(InfoSize * Len(infos), cells, Zero)
       IN  /\ infos' = [t \in 1..Len(infos) |-> InfoOf(all, t)]
           /\ IF 0 \in {infos'[1][1], infos'[1][2], infos'[1][4]}
              THEN LoadReturns("null")
              ELSE pc' = "track" /\ UNCHANGED loaded)
  /\ UNCHANGED <<song, saving, unpacked, tracks, trk, memFailed>>

LoadTrack ==
  /\ pc = "track" /\ trk <= Len(infos)
  /\ pc' = IF IsPacked(trk) THEN "unpackEvents" ELSE "readEvents"
  /\ unpacked' = [events |-> << >>, data |-> << >>]
  /\ UNCHANGED <<song, saving, pos, infos, tracks, loaded, trk, memFailed, ioError>>

\* The track table or a linear buffer cannot be had.
LoadRunsOutOfMemory ==
  /\ pc = "track" /\ trk <= Len(infos)
  /\ memFailed' = TRUE /\ LoadReturns("null")
  /\ UNCHANGED <<song, saving, pos, infos, unpacked, tracks, trk, ioError>>

\* lzo1x_decompress: the block whose packed form the source begins with.  Of
\* anything else it makes what nobody can say.
Decompress(source) ==
  CASE IsPrefix(seq[1].events, source) -> Blocks(song)[1].events
    [] IsPrefix(seq[1].data, source)   -> Blocks(song)[1].data
    [] OTHER                           -> <<Junk>>

\* The source is read with the unpacked size; the decompressor complains of what
\* is left behind the packed block, so the size stays as it is.  With memory
\* missing nothing is read, and the block is whatever the memory holds.
LoadUnpacksEvents ==
  /\ pc = "unpackEvents" /\ pc' = "unpackData"
  /\ \/ /\ Fread(pos, EventsSize(trk), LAMBDA cells, short :
            unpacked' = [unpacked EXCEPT !.events = Filled(EventsSize(trk),
                           Decompress(Filled(EventsSize(trk), cells, Zero)), Zero)])
        /\ UNCHANGED memFailed
     \/ /\ unpacked' = [unpacked EXCEPT !.events = Filled(EventsSize(trk), << >>, Junk)]
        /\ memFailed' = TRUE /\ UNCHANGED <<pos, ioError>>
  /\ UNCHANGED <<song, saving, infos, tracks, loaded, trk>>

LoadUnpacksData ==
  /\ pc = "unpackData" /\ pc' = "copy"
  /\ \/ /\ Fread(pos, DataSize(trk), LAMBDA cells, short :
            unpacked' = [unpacked EXCEPT !.data = Filled(DataSize(trk),
                           Decompress(Filled(DataSize(trk), cells, Zero)), Zero)])
        /\ UNCHANGED memFailed
     \/ /\ unpacked' = [unpacked EXCEPT !.data = Filled(DataSize(trk), << >>, Junk)]
        /\ memFailed' = TRUE /\ UNCHANGED <<pos, ioError>>
  /\ UNCHANGED <<song, saving, infos, tracks, loaded, trk>>

LoadCopies ==
  /\ pc = "copy"
  /\ tracks' = Append(tracks, unpacked)
  /\ pc' = "track" /\ trk' = trk + 1
  /\ UNCHANGED <<song, saving, pos, infos, unpacked, loaded, memFailed, ioError>>

\* Mutant: the size of the other block is read.
LoadEventsOtherSize ==
  /\ pc = "readEvents"
  /\ Fread(pos, DataSize(trk), LAMBDA cells, short :
       IF short THEN LoadReturns("null") /\ UNCHANGED unpacked
       ELSE /\ unpacked' = [unpacked EXCEPT !.events = Filled(EventsSize(trk), cells, Junk)]
            /\ pc' = "readData" /\ UNCHANGED loaded)
  /\ UNCHANGED <<song, saving, infos, tracks, trk, memFailed>>

LoadEvents ==
  /\ pc = "readEvents"
  /\ Fread(pos, EventsSize(trk), LAMBDA cells, short :
       IF short THEN LoadReturns("null") /\ UNCHANGED unpacked
       ELSE /\ unpacked' = [unpacked EXCEPT !.events = Filled(EventsSize(trk), cells, Junk)]
            /\ pc' = "readData" /\ UNCHANGED loaded)
  /\ UNCHANGED <<song, saving, infos, tracks, trk, memFailed>>

\* Mutants: a short read is not noticed; the loop does not go on to the next track.
LoadDataUnchecked ==
  /\ pc = "readData"
  /\ Fread(pos, DataSize(trk), LAMBDA cells, short :
       /\ tracks' = Append(tracks, [unpacked EXCEPT !.data = Filled(DataSize(trk), cells, Junk)])
       /\ pc' = "track" /\ trk' = trk + 1 /\ UNCHANGED loaded)
  /\ UNCHANGED <<song, saving, infos, unpacked, memFailed>>

LoadDataSameTrack ==
  /\ pc = "readData"
  /\ Fread(pos, DataSize(trk), LAMBDA cells, short :
       IF short THEN LoadReturns("null") /\ UNCHANGED tracks
       ELSE /\ tracks' = Append(tracks,
                           [unpacked EXCEPT !.data = Filled(DataSize(trk), cells, Junk)])
            /\ pc' = "track" /\ UNCHANGED loaded)
  /\ UNCHANGED <<song, saving, infos, unpacked, trk, memFailed>>

LoadData ==
  /\ pc = "readData"
  /\ Fread(pos, DataSize(trk), LAMBDA cells, short :
       IF short THEN LoadReturns("null") /\ UNCHANGED <<tracks, trk>>
       ELSE /\ tracks' = Append(tracks,
                           [unpacked EXCEPT !.data = Filled(DataSize(trk), cells, Junk)])
            /\ pc' = "track" /\ trk' = trk + 1 /\ UNCHANGED loaded)
  /\ UNCHANGED <<song, saving, infos, unpacked, memFailed>>

LoadCloses ==
  /\ pc = "track" /\ trk > Len(infos)
  /\ LoadReturns("sequence")
  /\ UNCHANGED <<song, saving, pos, infos, unpacked, tracks, trk, memFailed, ioError>>

Next ==
  \/ SaveStarts \/ SaveCannotStart \/ SaveCompresses \/ SaveCannotCompress
  \/ SaveHeader \/ SaveTrackInfo \/ SaveEvents \/ SaveData \/ SaveCloses
  \/ LoadHeader \/ LoadCannotStart \/ LoadTrackInfo \/ LoadTrack \/ LoadRunsOutOfMemory
  \/ LoadUnpacksEvents \/ LoadUnpacksData \/ LoadCopies
  \/ LoadEvents \/ LoadData \/ LoadCloses
Spec == Init /\ [][Next]_vars

-----------------------------------------------------------------------------
\* saveNktSequence and loadNktSequence: the tracks are counted in step with the loop, and
\* the loader's position never goes beyond the end of the file, however short it was cut.
TypeOK ==
  /\ song \in Songs /\ compress \in BOOLEAN /\ room \in 0..ROOM_MAX
  /\ saved \in {"no", "ok", "error"} /\ loaded \in {"no", "sequence", "null"}
  /\ memFailed \in BOOLEAN /\ ioError \in BOOLEAN
  /\ trk \in 1..Len(song) + 1 /\ pos \in 0..Len(disk) /\ Len(infos) <= Len(song)
  /\ Len(tracks) <= Len(infos)

Image == <<Field(ID_NKT), Field(NKT_VERSION), Field(Len(song))>> \o FlattenSeq(trackInfo)
           \o FlattenSeq([t \in 1..Len(seq) |-> seq[t].events \o seq[t].data])

\* A save that returns AM_OK has written the whole file, wherever the disk ran
\* full: the track information is not checked, but what follows it is.
SavedWhole == saved = "ok" /\ ~ioError => disk = Image

\* The sequence loadNktSequence returns is the one that was saved, also from the
\* file a failed save left behind.
LoadedIsSaved ==
  loaded = "sequence" /\ ~compress /\ ~ioError => tracks = Blocks(song)

\* The same for a song that was saved compressed.
PackedLoadedIsSaved ==
  saved = "ok" /\ loaded = "sequence" /\ ~memFailed /\ ~ioError => tracks = Blocks(song)

\* A file saved with AM_OK is not refused, unless memory is missing or its first
\* track has no data: the loader has that for a broken file.
SavedLoads ==
  loaded = "null" =>
    saved = "error" \/ compress \/ memFailed \/ ioError \/ song[1].data = 0
=============================================================================
