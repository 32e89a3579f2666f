# Verification of amidilib

amidilib plays MIDI music on Atari ST, TT and Falcon computers. This directory
holds TLA+ models of its core, the TLC configurations that check them, and theorems
proved with TLAPS about both players, the converter, the files and the loader.
Paths are relative to the repository's root, line numbers those of the sources
beside this directory.

## 1. Inventory

| Component | Source | State | Operations | Interacts with |
|---|---|---|---|---|
| NKT player | `src/common/formats/nkt_rep.c` | active sequence, `sequenceState`, per track block number, offset and elapsed time, `timeStep`, `bStopped`, `bPaused` | `updateStepNkt`, `updateStepNktMt`, `onEndSequence` in the timer interrupt; init, play, pause, stop, mode switch in the main program | everything in this table that sends or installs |
| Master settings | `nkt_rep.c` 263-363 | requested and current volume and balance | request; carried out in the interrupt | send buffer |
| Send buffer | `src/tos/common.s`, `nkt_rep_m68k.s`, `include/midi_cmd.h` | `MIDIsendBuffer`, `MIDIbytesToSend` | filled by commands and blocks, flushed by the interrupt or the main program | MIDI port |
| Installation | `nkt_rep_m68k.s` | `updateStepRout`, `oldVector`, timer registers | install with or without timer, deinstall | player |
| NKT files | `nkt_rep.c` 687-1260, 1462-1786 | file, track information, buffers of the tracks | save, load, destroy | allocator, LZO |
| MIDI to NKT | `formats/midi2nkt.c`, `midiInfo.c` | position, group buffer, counts, offsets | count, convert | saver |
| Linear buffer | `memory/linalloc.c` | start, size, offset | create, alloc, free, destroy | loader, converter |
| AM player | `src/tos/midi_rep.c`, `midiReplay.s` | sequence of event lists, state per track | the same as the NKT player, mute | send buffer, event list |
| Event list, stack | `containers/` | nodes; elements | add, copy, destroy; push, pop | parser, XMIDI |
| Parser, AM loader | `midi/mparser.c`, `core/amidilib.c` | sequence under construction | parse, load, init, deinit | event list |
| MUS, XMIDI | `formats/mus2midi.c`, `xmidi.c` | position in the score, channel map; position in the chunks | convert; read | parser |
| Time steps | `timing/miditim.c` | none | step of a tempo, decode a time division | AM player, NKT player |
| The rest | config, fmio, Roland tables, YM2149, ikbd, log, demos, minilzo, nktlib, seq2nkt (all of it commented out) | | | |

The only concurrency is between the main program and the timer interrupt. The
interrupt runs to completion; the main program can be interrupted between any
two instructions. They share `sequenceState`, the send buffer and the pointers
to the active sequence and the replay routine, all without disabling interrupts.
What is hard follows from that, from the player's way with time (equality of
elapsed time and delta, tempo changes that take the next block along), from two
passes over the same data (counting and writing, saving and loading) that must
agree, and from failures half way through loading and saving. The list of
hazards in `PROJECT.json` gives each with its line.

What makes the components correct:

* player: nothing sounds when it is stopped or paused; a stop rewinds
  everything; the place in the byte stream belongs to the block number; the tempo
  is that of the last change; no event is missed, lost, repeated or sent off its
  tick; tracks keep together; a song ends when all tracks have, once, and then
  stops or begins again.
* send buffer: each message goes out once and whole.
* installation: deinstalling restores the vector that was there before.
* files: what loads is what was saved, whatever failed in between.
* converter: the second pass fits the first; every message is kept, in order and
  at its tick; one end.
* allocator: blocks are disjoint and inside the buffer, also when aligned.
* AM player: as the NKT player; every callback is called once, in order.
* loader: what is reported as loaded is all of the file; the parser is never in the
  middle of an event, also when memory runs out; a load ends.
* MUS: no two channels of a score share a MIDI channel.
* master settings: what was asked for reaches the device, and what is recorded is
  what the device has.

## 2. Plan

| Step | Module | Builds on | Checks | Proofs |
|---|---|---|---|---|
| done | `NktTransport`, `NktReplay` | | two instances, three counterexamples | types, silence, stop, synchrony, tempo in force, no missed block, schedule, tracks together, delivery, the transport |
| done | `NktPlayer` | `NktReplay` | the one-track instance with requests | the player is unchanged; settings told are the device's |
| done | `MidiToNkt` | | all short tracks, one counterexample | types, one end, sizes fit, data kept, on time |
| done | `NktFile` | | short songs, full disks, one counterexample | types, saved whole, loaded is saved, saved loads |
| done | `TimeStep`, `AmReplay` | the transport again | songs of one and two tracks, one counterexample | types, order, never overdue, tempo in force, what is lost, the transport |
| done | `MidiBytes`, `Mus2Midi`, `AmLoader` | | files and scores, linear buffers of any size, one counterexample | types and the buffer's bound, how lists end, that a load moves on, in `AmSessionProofs` |
| done | `MidiLayout` | `MidiBytes` | the files of the instance are laid out | every laid-out file is read in step and whole |
| done | `AmSession` | loader and player | the two composed | a score's channels stay apart; the player's invariants from the load on; the transport, from the file on |
| left | `MidiSendBuffer` with the timer vector | `NktPlayer` | flush against ticks, installs and deinstalls | bytes sent are bytes put |
| left | memory of `NktFile` and `destroyNktSequence`, aligned allocation | `NktFile` | what stays allocated | disjoint allocations |
| left | stack and the contents of XMIDI chunks | `AmLoader` | | stack order |

Many of these compare a state with what a sum or a concatenation over the data so far
gives: a clock with the deltas of a song, bytes written with bytes counted, blocks
loaded with blocks saved. `InductionTheorems` has the induction they need. The
library's induction theorems take a predicate as a parameter, which the provers at
hand cannot instantiate; a set of numbers they can, so `SetInduction` and
`UpToInduction` speak of sets, and rest on the library's theorem that a well-founded
relation has minimal members. From these follow that a recursion has a function that
obeys it (`RecursionExists`), that `RunningSum` of `RunningSums` grows by one member
at a time, and how the flattening of a sequence of sequences grows.

Two kinds of properties stay with TLC. Liveness under fairness is out of the provers'
reach. And `LoadedWhole` and `InStep` compare what the parser finds with what a file is
supposed to mean: that is proved for the files `MidiLayout` describes, and checked for
those of the instance it does not (section 5).

`NktTransport` is the one abstract specification: both players implement it. The
files, songs and bounds of the instances are in the MC modules, `NktSongs` and
`MidiFiles`.

## 3. The player: `NktReplay`

`Song[t]` is the list of blocks of track t: message type, delta and, for a tempo
change, the step it sets at the update frequency in use. Payload bytes are left
out: a block that is sent is known by its number. Time is counted in fractions
of a tick, `FRAC` to a tick (65536 in the code); `ELAPSED_MOD` is the width of
`timeElapsedInt` and `VLQ_BASE` the first delta of two bytes. Instances use small
numbers for all three.

The main program is `call`, `todo`, `loaded`, `word`. A transport call first
reads `sequenceState` into the constant `state` and decides (`Enter`); each
compound assignment is then `LoadState` and `StoreState`, and an interrupt can
come between any two of these. `stopNktSequence` ends with `StopResetsDevice`,
the reset outside the interrupt: its bytes may be lost to an interrupt that
empties the buffer, so the device may or may not be silent behind it. Install
and deinstall are single actions, as they run with interrupts off or with
nothing installed; initialisation of a sequence while another one is being
replayed is left out, as the demos do not do it.

The interrupt is `isr`: 0 outside, 1..n at track n, n+1 behind the loop. While
`isr # 0` the main program does nothing. `TickPaused`, `TickStopped` and
`TickPlaying` are the three branches of the update step; `TrackWaits`,
`TrackSends`, `TrackChangesTempo`, `TrackEnded` and `SingleEnds` what an
iteration of the loop can do; `TickEnds` the end of song and the sending of the
buffer. One module stands for both `updateStepNkt` and `updateStepNktMt`: they
differ in what happens at an end. A tick that finds nothing to do (already
paused or stopped) changes nothing here; it is `TickHalted` of `NktPlayer`, as it
may still send settings.

`eventsBlockOffset` is kept beside `currentBlockId`. What is read at an offset is
the block that starts there; at any other offset it is garbage, of which a data
block and an end are taken as the possible outcomes. The offsets of blocks are a
constant table, `BlockOffset`, tied to the deltas by `OffsetAssumption`, so that
no recursion over the song is needed in proofs. `played` and `clock` are history:
what was sent and the fractions that elapsed since the last rewind. `CLOCK_MAX`
bounds `clock`; properties speak of it below that bound, which songs of the
instances do not reach before their ends.

`NktTransport` is the abstract player: mode, position and sound. `NktReplay`
implements it under the mapping at the end of the module, so no race of calls
and interrupts lets a song move on while it is halted, end before every track
has, or start to sound outside playing.

### Master settings: `NktPlayer`

`NktPlayer` is the player as it runs: every interrupt begins with
`handleMasterSettings`, conjoined to the four actions an interrupt can begin
with. The main program leaves its requests in two variables and the interrupt
compares them with what it recorded in `moduleSettings`; `device` is what the
device was sent. The balance is looked at only when the volume differs, so a
balance asked for alone is not sent until a volume is; an MT-32 refuses a volume
above 100, and is asked again in each interrupt. `setupMidiDevice` is the initial
state, for both devices: recorded settings of 0 force the first update. The text
for the display of an MT-32 is left out.

`SettingsArrive` says what can be said under these rules: a volume that the device
can have arrives, with the balance asked for by then, unless the request is
changed before.

### Fairness

WF of the interrupt, since the timer keeps firing, and WF of `MainStep`, since a
call that was entered runs on while nothing interrupts it. The second is a weak
demand: each interrupt disables `MainStep`, so a main program that is never
given a step between two interrupts satisfies it. Nobody has to call anything, and
no property needs more.

### Runs

| Run | Song and bounds | Shows |
|---|---|---|
| `nkt_single` | one track, eight blocks, two tempo changes, deltas of one and two bytes, steps of one third to one tick, direct sending, all calls at all times; one volume and one balance to ask for, both devices | types, the seven other invariants, the transport, that a song left alone ends or comes round, that silence follows a halt, that settings arrive |
| `nkt_multi` | three tracks, a tempo change in the second, an event at once in the other two, sending through the system; no requests | tracks together, everything sent, end; the rest is proved for songs of any number of tracks |
| `resume_race` | as `nkt_single`, without settings | a tick between the two assignments of a resume rewinds the song |
| `tempo_behind_event` | what the converter writes for a tempo change behind an event of the same tick | the offset leaves the blocks |
| `fast_tempo` | the step of 160 beats a minute, 4/3 of a tick; deltas of 1 | the song hangs |

The bounds are enough for what can differ: a delta shorter than, equal to and
longer than the base; a step below and of a tick; a tempo change at once, with
and without a fraction left; ends in different ticks; a volume an MT-32 takes as
its default, one it refuses and a device takes that is none. `nkt_single` starts
from both states the demos use: once and stopped, looping and playing. Both
passing instances assume `PairedTempos`, checked by an ASSUME: every tempo change
is followed by a block whose delta has the same size. Without it `InSync` is
false, as `tempo_behind_event` shows. `NotOverdue` and the two properties of the
end need steps of at most a tick, as `fast_tempo` shows. The ASSUMEs of the instances
also check `EndsAreLast` and `TemposApart`, and that of `nkt_multi` `StepsBelowTick`, the
premises of the theorems below; `nkt_single` has a step of a whole tick. That is no rare case: at
96 ticks to the beat, which every converted sequence has, and 200 interrupts a
second every tempo above 125 BPM takes more than a tick.

### Proofs: `NktReplayProofs`

For every song, offset table, base, clock width, default step and build flag:

* `TypeCorrect`: the type invariant, inductive as it stands.
* `Silence`, `StopRewinds`: from the inductive invariant `HaltInv`, which is the
  conjunction of both and of the shape of the loop. It is needed as a tick that
  has started to play is inside the loop with the flags as they were: that they are
  reset, and nothing sounds before they are, must be carried along.
* `StaysInSync`, which assumes `PairedTempos`. The step that matters is
  `TrackChangesTempo`: the offset moves on by twice the size of the tempo block,
  which is the offset two blocks on exactly when the sizes are equal.

The constants' assumptions are those of `NktReplay`: the songs are sequences of
sequences of blocks, the numbers positive, the offsets those of the blocks in
turn and growing. That each song has a table with these properties is not among the
theorems; TLC computes it in `NktSongs` and checks the assumption.

### Proofs: `NktPlayerProofs`

* `PlayerPlays`: every behaviour of `NktPlayer` is one of `NktReplay`, so every
  theorem about `NktReplay` holds of the composition, with requests at any time. Each action of the
  composed interrupt is an action of the interrupt or `TickHalted`, which leaves the
  player as it is.
* `SettingsTold`: the settings the main program can read back are those the device
  was sent, or 0 before the first; and no device is sent a volume beyond its limit.
  The inductive invariant `SettingsInv` adds the types: that requests are bytes is
  needed to compare them with the limits.
* `Implements`: the player implements `NktTransport`, for songs with `PairedTempos` and
  `EndsAreLast` (every track has one end, its last block, and a tempo change does not
  take the end along). Initial states map to initial states and each action to a step
  of the transport or to none. The types and synchrony are used, and `TransportInv`,
  which adds four facts about states between the steps of a call or of an interrupt:
  `LoopPlays`, that the loop runs only in a tick that found the song playing, without
  which a block sent by the loop could be one of a halted song; `StopHalts`, that a stop
  that has made its write has left a halted song behind, so that what follows of the call
  is no step of the transport; `BeforeEnd`, that no track goes past its end, so that what
  is read is a block; and `CountedAtEnd`, that when as many tracks were counted as the
  loop has passed, all of those stand at their ends, which makes an end of song the end
  of all tracks.

### Proofs: `NktTempoProofs`

* `LastTempo`: `TempoInForce`, with `PairedTempos` and `TemposApart`. The second is
  needed because a tempo change takes the block behind it along without looking at
  it: were that a tempo change, it would be counted as sent and never be in force.
* `NeverJumpedOver`: `NotOverdue`, which also needs `EndsAreLast` and `StepsBelowTick`:
  steps strictly below a tick, and deltas of 0 only in a first block or behind a
  tempo change. The inductive invariant `OverdueInv` adds that the step in force is below
  a tick, that a track is never in front of a block that a tempo change took along
  (`Settled`), and that a track whose first block is due at once has lost no time before
  it (`Fresh`). Then time grows by one tick at most, and cannot pass a delta without
  having been equal to it.

* `KeepsSchedule`: `OnSchedule`, with `PairedTempos`, `TemposApart` and a clock that
  stays within what `timeElapsedInt` counts (`CLOCK_MAX <= FRAC * ELAPSED_MOD`; the
  instances check it). What elapsed on a track is the running sum of the deltas it has
  replayed, the deltas of blocks taken along left out, and ticks and fraction left
  over. The inductive step is that of one block: the sum grows by its delta, and the
  rest is what the accumulator keeps. Nothing is lost in carries, whatever the steps,
  over however many blocks.
* `StayTogether`: `TracksTogether`, when the tempo changes are on one track v
  (`TemposOnOneTrack`). `TogetherInv` says it in the middle of an interrupt: what each
  clock is due to show when the loop is through, less what the tracks behind v have
  ahead since the change (`Ahead`), is the same for all.
* `DeliversAll`: `Delivered`, when tracks that share an interrupt share its buffer
  (`TracksShareBuffer`: one track, or a build that sends through the system). With
  direct sending each track of several overwrites the buffer of the one before it, so
  without the premise there is nothing to prove. What is carried through the interrupt
  is that `played` and `tx` together are `Complete`: their range is all replayed blocks
  of all tracks but the tempo changes, and each track's come in their order.

What is said of the end of a song and of silence needs fairness, and is only
model-checked.

## 4. The player of event lists: `AmReplay` and `TimeStep`

The second player replays parsed MIDI files: per track a list of events with a
callback each, and the transport calls write `playState` of the active track, the
first. A position is a list and a number in it; behind the last event it is NULL.
What `fSetTempo` does is part of sending a tempo event. Calls and interrupt are
modelled as in `NktReplay`, and one module stands for both `updateStepSingle` and
`updateStepMulti`, which do the same per track. All lists end with their one end
of track, as the parser builds them. Not in the model: the bytes of the send
buffer, a song that is started while another one is hooked, and a build with
assertions, in which the check of `getActiveAmSequence` (midi_rep.c:23)
assigns 1 to the pointer it means to compare.

Time is the code's own here. `TimeStep` computes the step of a tempo as
`amCalculateTimeStep` does, in fractions of 1/65536 tick at 200 interrupts a
second, with each division cut off and each conversion to 16 bits. TLC's integers
have 32 bits with a sign, so tempos and divisions are such that no product leaves
these: divisions of 100, 200, 89 (what a score gets) and 0 (a division in frames,
which is not supported). `CLOCK_MAX` is 14 ticks, more than a pass of any song takes.

What a stop may do while the first track's pointer is NULL is not followed: the
handler then runs astray (`hung`) and nothing more happens. A song of two tracks
reaches this, so deadlock is not checked.

The songs: one of one track with a chord and tempo changes with and without delta;
one that needs exactly a tick, more than one and none in an interrupt; one that a
score becomes; one of two tracks that can both send in the interrupt in which the
first one ends; one whose second track is missing. They are checked as part of
`am_session`, below.

* `PlayedInOrder`, `PlayOnceStops`, `ImplementsTransport`: for one track, every
  event once and in order, an end unless the steps are 0, and the promises of
  `NktTransport`. Sound is left out of the mapping: a stop silences the device from
  the main program only, through the send buffer, and a note may survive the race
  with an interrupt.
* `LateByEvents`: an interrupt sends one event, and the tick it takes is lost. So
  a song with steps of at most a tick is late, by a tick for each event at most, and
  never early. With longer steps the rest is lost in each interrupt.
* `NeverOverdue`: as no more than one tick is added at a time, the test for equality
  of time and delta is never passed over. This holds for several tracks as well.
* `StepInForce`, `PauseFallsSilent`: for all songs.
* `am_rewind`: of several tracks a stop rewinds the first one only.

For several tracks little more can be said: they share one fraction, which gives
its ticks to some of them more often; the first end found counts, unless a later
track takes it back; and behind the end the first track plays the last one's list.

### Proofs: `AmReplayProofs`

For every set of songs that are `Playable`, tempos and time divisions of any size:

* `TypeCorrect`. The inductive `TypeInv` adds which pointers there can be (NULL, or an
  event or the place behind the last of a list) and which writes of a call are left.
* `SingleInOrder`: `PlayedInOrder`, from `OrderInv`: in a song of one track what was
  played are the events in front of the pointer, in their order, and the pointer is at
  the end only between the pass that reaches it and the `TickEnds` behind that
  pass. So the handler of a one-track song never goes astray.
* `NeverLate`: `NeverOverdue`, for any number of tracks, from the fact that time and delta
  are compared in every tick and no more than one tick is added (`OnTime`).
* `LastTempo`: `StepInForce`. `StepInv` names the place of the tempo event in force, which
  the property only says to exist.
* `Implements`: a song of one track implements `NktTransport`, by `TransportInv`: a
  pass is over a song that plays, and the end it noted is that of the list.

* `LosesWithEventsOnly`: `LateByEvents`, for a clock within what `timeElapsedInt`
  counts (`CLOCK_MAX <= FRAC * ELAPSED_MOD`, which an ASSUME of the instance checks). By
  `LateInv` the clock is, between events and in front of them, the deltas told so far,
  ticks and fraction elapsed, and one tick for some of the events sent: an interrupt that
  waits moves both sides on by its step, since the carry into the ticks is what leaves the
  fraction; one that sends drops at most the tick it carried.

Only what needs fairness is model-checked alone.

## 5. Loading and playing: `AmLoader`, `Mus2Midi`, `AmSession`

`AmLoader` is `amProcessMidiFileData` with the parser. One action reads one event,
by the handler of its kind, out of the bytes of the file: `VLQSize`, `readVLQ` and
`ReadInt` of `MidiBytes` read as the code does, and `EventEnd` is where each
handler leaves the position, which is not always behind the event. `AddEvent` takes
a node and then its data from the linear buffer; when only the node fits, a list
may be left with a first node that was never linked (`dangling`). `Mus2Midi`
converts a score, one event per action, to the bytes the parser then reads.

The parser trusts its file. What it does behind the end of the file or of the score,
with a pointer that was never set, behind a failed assertion or with a tempo of more
bytes than its array has is not followed (`WithinFile`, `WithinScore`): `load` is "lost"
from there on, and a property that speaks of a load that is still going on or was
reported successful says nothing of it.

A file carries what it is supposed to mean: `tracks` are its events, `deltas` the bytes
at which they start. The files are put together in `MidiFiles` from events, each
with the bytes that stand for it and its meaning, so neither comes from the parser.
There are at least one event of each handler, running status, deltas in more
bytes than needed, headers whose lengths are too long or too short, files of types 0,
1 and 2 and XMIDI, scores with every kind of event, ten channels and one
unknown event, and files and scores that are cut off, miss a track or a status, have a
tempo of four bytes, or are refused. The
linear buffer has every even size up to 210 bytes, so memory runs out
at every allocation of the longest file.

`AmSession` is midiplay: the loaded lists are handed over to the player
(`HandOver`), which from then on runs as in section 4. All that is said of the
player in `am_session` is thus said of songs that came out of the parser. A
sequence of type 2 is loaded and not played. Fairness: a load goes on, and the
player as before.

* `LoadedWhole`: a load that reports success has every event the library knows, on
  its track, with delta and data. A full buffer is never taken for the end of a track.
* `InStep`: a delta is only ever read where one starts. `am_sysex` shows that a
  system exclusive message breaks this: its last byte, F7, is read as a delta.
* `LoaderTypeOK`: besides the types, what the lists hold was taken from the linear
  buffer, and never more than it has.
* `ChannelsApart`: the MIDI channels a score is given differ, and percussion keeps 9.
* `NothingBehindEnd`: no list has an event behind an end of track, so a list ends where
  the player stops reading it.
* `LoadAdvances`: a load never comes back to where it was; its stages follow one another,
  and within one the place in the score or the file, or the track, only moves on.
* `LoadEnds`: every load ends, whatever is in the file (a chunk count that wraps is
  "lost").

`WholeAreWritten`, an assumption TLC evaluates, says that the files of tracks that are as
they should be, those with a wrong length in a header and those that miss a track are laid
out as `MidiLayout` has it, and that those `AmSession` plays mean songs of the instance.

A load ends in an error, lost, or in a song that may hang, so deadlock is not checked.

### Proofs: `AmSessionProofs`

Of a file and a score nothing is assumed but that they consist of bytes, with at least
one track (`IsFile`), and of the linear buffer nothing but that its size is a number.
The inductive invariant is `LoadInv`, with `EndInv` and `FormatInv`:

* what is read is a byte, and what is made of bytes are numbers: a delta or a length of
  any number of bytes, a message a score's event becomes, an event of the parser;
* the MIDI channels given to a score so far lie below the next one, which is never 9
  (`ChannelsBelow`), and there are as many channels given as the next one says, without
  percussion (`Counted`). A header with more than 15 channels is refused, so the last
  is not passed;
* the sizes of all that is in the lists add up to at most `offset`, and `offset` to at
  most the size of the buffer (`ListsInv`). A list that gets an event grows by its size
  and no other list does (`OneGrows`), by which `AddEvent` takes the offset on; a node
  left dangling takes it on without a list;
* there is a list for the track that is read (`TrackInv`).

From it follow `ScoreChannels`, which is `ChannelsApart`, and `LoaderTypes`, which is
`LoaderTypeOK`, for every file and score and every buffer.

* an end of track is the last of its list: the event loop of a track stops with it, the list
  of the track that is read has none until then, and those of later tracks are empty
  (`EndInv`). `ListsEnd` is `NothingBehindEnd`.
* only formats 1 and 2 have several tracks (`FormatInv`), and a tempo has three bytes.

From it follow `ScoreChannels`, which is `ChannelsApart`, and `LoaderTypes`, which is
`LoaderTypeOK`, for every file and score and every buffer. `LoadsSongs` says which loaded
lists are a song the player can be given (`Playable`): those with something on the first
track, in which every track is empty or ends with an end of track and no tempo is 0
(`WellEnded`); all else a song needs, the parser sees to, whatever is in the file. `LoadGetsOn` is `LoadAdvances`: an event takes the parser at least a byte
further and never behind the byte after the last, a header that is not one takes it to the next
track, and nothing puts it back.

`ReadsInStep` and `ReadsWhole` are `InStep` and `LoadedWhole` for files that are laid out.
`MidiLayout` says what that is, without a parser: a layout is a list of tracks, each a
list of events, and of each event it is told where it stands, which status it has, given or
kept, and what it means. Whether the bytes bear that out is a condition on one event and
its neighbour, so nothing is computed. It has channel messages, meta events the library
knows, and the system common messages; system exclusive messages are not in it, since
the parser misreads them (`am_sysex`), nor are unknown meta events. A header's length may be
wrong. The theorems ask that the file is laid out, or the track its score was
converted to (`LaidOutFile`). The invariant is `LayoutInv`, of every layout of the file at once: between two events
of a track

* the parser is at the event the layout has next, the running status is the layout's,
  and the list has what the events before it mean (`TrackGoesOn`); or
* an event found no memory and was left out without a word (`Short`), and then the end of
  the track finds none either, because the buffer never gets anything back, so the load
  does not come to report success; and
* the tracks done mean what the layout says (`Done`), and behind the last one there is no
  header, which leaves the other tracks empty.

`LaidEvent` is its step: each kind of event in the layout is taken by the handler the parser
chooses for it (`MessageTaken`, `MetaTaken`, `CommonTaken`), which adds what it means and
stops behind it.

`PlaysWhatWasLoaded` carries the player's invariants of section 4 through the composition:
if every hand-over is of a song (`HandsOverSongs`), then it is well typed,
played in order, never overdue, at the tempo of its last change, and late by its events
only. Until then the player is in a state it begins in (`WaitsForSong`), and a hand-over
puts it at the top of the song (`Opening`, from which its invariants hold).
`SessionImplements` has from the same premise that the session as a whole implements
`NktTransport`: until the hand-over it stutters.

`PlaysWrittenFiles` joins the two halves: if the files that are played are laid out and mean
songs (`FilesAreSongs`), then no premise on the loader is left; from the bytes to the
notes, with every buffer, what the file says is what is played, in order and in time. That
there are such files is what `WholeAreWritten` shows.

What remains with TLC alone: `LoadEnds`, for which `LoadAdvances` is the measure and fairness
is what cannot be used; and `LoadedWhole` and `InStep` for bytes that are not laid out. That
every score is converted to a track that is, is not proved.

## 6. The converter: `MidiToNkt`

A track is a sequence of events: a channel message with its size, a tempo
change, the end, or another meta event. One action is one event of one pass, or
what happens when a group of events with delta 0 behind its first ends, or the
end of a pass. The position `pCmd` is the number of an event, so an event is
never read from its middle; running status and the lengths of messages are
abstracted to the size an event adds to the buffer. What both passes compute is
kept: block and byte counts in the first, blocks with their offsets in the
second. Deltas below VLQ_BASE squared take one or two bytes. The conversion is a
sequential program that ends, so deadlock is not checked.

`midi2nkt` takes all tracks of up to three events, with and without an end, with
deltas 0, 1 and one of two bytes: enough for a group to begin with each kind of
event and to have any other behind it, and for two groups in a row.

* `EventsFit`: the event buffer sized by the first pass holds what the second
  writes. The first pass counts a data block for a group with only a tempo
  change, so it may be too large; never too small.
* `DataKept`: every channel message, in order, once.
* `EndsOnce`: one end, last but for the data of its own group. (That data is
  never played, as the player stops at the end.)
* `KeepsTime`: whatever the track, the player sends no message it reaches behind its
  tick, and in a plain track each at its tick. `Plain` rules out what the converter does
  not carry over: the delta of a group that leaves no block, or whose tempo change comes
  behind another event or has no message behind it, an end in the tick of the last
  events, and a missing end. There the messages that follow are early. Within a group
  that has a message, whatever is left out, put together or split in front is covered.
* `midi2nkt_sizes` shows that tempo changes write three bytes more than counted.

Sequences of sysex messages, failed allocations and bad chunks are left out.

### Proofs: `MidiToNktProofs`

For every track, with its end anywhere or nowhere, and messages of every size of at
least a byte (`DataAssumption`):

* `TypeCorrect`. It needs that an event adds two blocks at most (`BlocksBounded`).
* `OneEndOnly`: `EndsOnce`. While there is no end there was no end of track, and
  an end that was written is followed by the data of its group only (`EndInv`).
* `NeverOverflows`: `EventsFit`. `Counts` is what the first pass has counted behind each
  event, a recursion over the track, and `Now` what that is at the place one of the passes
  has reached. By `FitInv` the counters of the first pass are `Now`, and the second pass has
  written no more than `Now` at any place; `RoomMade` keeps of the first pass what it
  ended with, the one end it adds to a track without one included. As counts only grow, the
  second pass stays within that.
* `NothingLost`: `DataKept`. The messages in the blocks and in the buffer together are
  `Exact`: those in front of the place, in order and once (`KeptInv`). A group's
  buffer without bytes has no messages, as no message has a size of 0: a message of no
  bytes would be left out with its group.
* `PlayedOnTime`: `KeepsTime`. Both halves compare, at each place, the time the blocks so
  far have been played at with the tick of the last event. For every track (`LateInv`) the
  blocks are not past it, with the delta of an open group added unless a tempo change has
  been written in it, behind which the player drops the delta; until the end is written,
  behind which nothing is reached. The delta 0 that a missing end puts on the first block
  makes nothing later (`PlayedBelow`). For a plain track (`TimeInv`) the two are the same
  between groups; inside of one (`GroupFrom`) the blocks lack its delta, or have taken it
  with its tempo change, for which a message is still to come, or with the end.
  `PlainGroup` has what the premise says of a group that is only read in part.

## 7. Files: `NktFile`

Memory and files are sequences of cells, of the size of a uint32: header fields
with their numbers, and parts of blocks known by track, block and place, so that
a block read from the wrong place is seen to be another. A song is saved once,
to a disk with some room left, and the file that is there afterwards is loaded,
whether saving succeeded or not. `Fwrite` writes what there is room for, or
returns an error code; the code compares results as unsigned numbers, so an error
code passes for a complete write, and for a complete read in the loader. Any
allocation may fail. Compression packs the first track to any smaller size;
decompression (external) finds the block whose packed form its input begins
with. A disk that is not full is taken to have room for the header, as room comes
by the cluster; a file cut inside the header does not occur.

`nkt_file` takes all songs of one and two tracks with events of two or three cells
and data of none, two or three, and every room up to more than the largest file takes
(25 cells). `SavedWhole`, `LoadedIsSaved` and `SavedLoads` together say that saving and
loading agree for songs saved uncompressed, with calls that returned error codes left out:
there the code takes nothing for something. A song whose first track has no data is saved
with AM_OK and then refused, as the loader takes a size of 0 for a file without
blocks (nkt_rep.c:852); `SavedLoads` says so. `nkt_file_packed` shows that a song saved
compressed does not come back: the loader reads the packed block with its
unpacked size. Runs end, so deadlock is not checked.

### Proofs: `NktFileProofs`

For every song, room and failure:

* `FileTypes`: `TypeOK`, from `Well`: what is in memory (`Shape`, `Beginning`, `Loading`)
  and how far the two calls are (`Stages`). The number of tracks comes out of the
  file's header, also of a file that was cut behind it. What is read moves the place in
  the file by what the file gives, so the loader stays within it (`InFile`).
* `SavesWhole`: `SavedWhole`. Until a call has returned an error code the file holds at every
  step what was to be written so far, or it is the beginning of that and the disk is
  full (`FileSoFar`). The result of writing the track information is compared with the wrong
  size, so a save goes on after that write was cut short: what saves it is that the disk
  is full then, and the next block cannot be written.
* `LoadsWhatWasSaved`: `LoadedIsSaved`. A file is the image of the song or a part of it
  from its beginning. The loader is then either `InOrder`, at the place in the file behind
  the blocks it has, or `AtTheEnd` of a file that ends in the track information, where the
  first track gives it nothing and it fails. The cells of a block are told apart, so a
  block that is loaded whole is the block that was saved (`Reading`).
* `TakesWhatWasSaved`: `SavedLoads`, from the same invariant: a whole file is refused only
  for memory, or for a first track without data.

The images are concatenations over the tracks, of which `InductionTheorems` says how they
grow by a track.

Which memory is left allocated after a failed load and after
`destroyNktSequence` is not modelled yet.

## 8. Not modelled

Reasons are in `PROJECT.json` with each component. Planned: the bytes of the send
buffer and a flush that an interrupt cuts in two, the timer vector and a double
installation, the memory that failed loads and `destroyNktSequence` leave, aligned
allocation, the stack and what XMIDI chunks contain. Of the loader: printing,
`destroyList`, what happens behind "lost". Of master settings: the text on the
display.

Left out for good: configuration, file wrappers, Roland tables and patches, YM2149,
keyboard, log and demos (formatting, hardware registers, or no state of their own);
seq2nkt, all of whose code is commented out; minilzo, with its headers, which is
vendored and taken for a pair of functions that invert each other; and nktlib, a
copy of the same sources. The two copies of minilzo with their headers and nktlib
are more than half of the lines of the repository.
