# marm: a TLA+ model

marm transcodes recorded WebRTC media: it reads RTP packets from archives
(`mjr` files of a Janus gateway, `pcap`), assembles them into frames, muxes the
frames with libav, and splits, remuxes and segments MPEG-TS files so that an
archive can be transcoded piece by piece ("windowed/resumable", README.rst) and
the pieces concatenated. This directory holds TLA+ modules of its core logic,
TLC configurations that model-check them, and proofs that TLAPS checks.
Paths below are relative to the repository.

## The system

| Component | State it keeps | Operations | Hard because | Correct when |
|---|---|---|---|---|
| `RTPCursor` (marm/rtp.py) | position (part, packet), the part read from, the readers and indexes of the parts | `current`, `_next`, `_prev`, `seek` (absolute, relative), `tell` | position and part are assigned separately; an index exists only while a part is open; parts can be empty or torn | steps go to the neighbouring packet, what is read is at the position |
| Loops over a cursor (marm/rtp.py) | the cursor, shared with every other caller | `__iter__`, `search`, `slice`, `restoring`, `spans`, `compute` | a loop starts from whatever state calls before it left; it, or the code it calls, can raise half way | each visits what it was asked for, once; `restoring` restores, also after a raise; all end |
| Time cuts (marm/rtp.py) | the cursor | `fastforward`, `rewind`, `interval`, `time_cut`, `time_slice` | frames span packets, times repeat and go backward, two kinds of alignment | positions and returned offsets agree, no frame cut in two |
| Windowed transcoding (test/test_mpegts.py) | next part, cuts so far | one cut per step over a window of parts | the archive grows between steps; the last packet of a window is a middle one of the next | each cut starts where the one before stopped |
| Split (rtp.split_packets, cli.split_cmd) | generators over one reader, part files | chunk, write or skip a part | chunks are lazy and share state; killed runs, reruns | part files are within the limits and follow on each other, nothing lost |
| mjr reader/writer (marm/mjr.py) | file position | `index`, iteration, `write_header`, `write_packet` | skipping seeks past the end of a torn payload that reading would miss; any short read is taken for the end | a file cut anywhere reads back as a beginning, without raising |
| Muxer (marm/ext/mux.c, ext.pyx) | one pending packet per stream, last timestamps, pending Python exception | read packets by callback, merge, write | callbacks raise into C; three time bases | merged in order, nothing refused, exceptions reach the caller |
| Segmenter (marm/ext/segment.c) | open file, file number, first pts, counters, libav's interleaving queue | read, split, write, flush, close | the queue holds packets of the old file at a split; failures of each call | segments concatenate to the input |
| Remuxer (marm/ext/remux.c) | filter, offsets, counters | read, filter, offset, write | filter answers that end the asking, filters that raise | the copy holds what the filter keeps |
| TS counters (marm/ext/mpegts.c) | counter per stream of a file | load from one file, reset in the next | patched into a muxer after its header | concatenations are continuous |
| `VideoFrames` (marm/frame.py) | packet read ahead | construct, `next` | lost packets, a source that raises in a frame | frames tile the packets |
| Mux command (cli.mux_cmd, mux_parser, probes) | the cursors, probed and then muxed from | bucket archives, `--offset`, probe size and frame rate, make frames, mux | probes are scans of the very cursors that are muxed; many ways to raise between the steps | all that the cursors reach is handed to the muxer, and the container holds what of it comes in rising time; the header describes the frames |
| Generator (marm/ext/gen.c, ext.pyx) | samples made and left, frames the encoder holds, the file | open, header, encode, write, flush | encoders hold and reorder frames, every call may fail, the last frame is shorter | the file reads back as what was asked for |
| Frame files, `monotonic` (marm/frame.py) | file position; last time and distance | header and frame records; make times rise | a frame that is cut short is taken for the end; frames repeat | beginnings read back, replayed times rise |
| Stream scan (marm/ext/scan.c, ext.pyx) | the demuxer's last counters | read to the end, load counters | a read that fails looks like the end | the counters are those of the file's last packets |
| Payload headers, pcap, payload probe, ffmpeg wrappers | little or none | | | not modelled, see below |

How they interact. `split_cmd` drives a reader through `split_packets` and writes
parts. An `RTPCursor` is built over the parts; a caller asks it for cuts by time,
seeks, and iterates. `VideoFrames` or an audio counterpart consume that iteration and
are the packet sources of `mux` (`mux_cmd` probes the same cursors first): C code calls back into Python for the next
packet, for file writes and for whether an exception is pending
(`marm_next_packet_cb`, `marm_write_cb`, `abort`). The files that come out are scanned
for their last counters (`last_mpegts_ccs`), which are passed to `segment` and
`remux` so that the next file continues them. Everything runs in one thread under
Python's interpreter lock: there is no concurrency to interleave. What is hard is
the order of calls on shared mutable state (cursor, generators, pending exception, the
muxer's queue), failure half way through a sequence, and runs that die.

## Modules

| Module | Models | Variables and actions |
|---|---|---|
| `PacketTape` | what a cursor promises: one tape of packets | `head`, `got`; Read, Forward, Back, GoTo |
| `RTPCursor` | the cursor | `pos_part`, `pos_pkt`, `part`, `reader` are the attributes; `togo` is what a relative seek has left, `out` what a call returned or raised. Current, Advance (`_next`), Retreat (`_prev`), SeekTo, SeekBy and its loop |
| `CursorScan` | loops as programs over `RTPCursor`'s actions | `job` is the running loop (its kind, phase, saved position), `seen` what it handed out |
| `TimePositions` | times to positions, as operators on an archive | – |
| `TimeCut` | a cursor and calls of `time_cut`, `time_slice` | `pos`, `opened` (the part there is open), `call` (arguments and result) |
| `Windows` | steps over windows of a growing archive | `recording`, of which `total` parts are recorded, `i` next part, `cuts` |
| `MJR` | mjr files by their fields: what is written, read, skipped and taken for the end | operators |
| `Split` | split_packets inside split_cmd, its part files, its runs | `nxt`, `last`, `epoch`, `cnt` are the generator's state, `files` the disk, field by field |
| `Mux` | marm_mux and its callbacks | `pend` pending packets, `last` timestamps, `exc` pending exception, `file` |
| `MpegTs` | counters of MPEG-TS files | operators |
| `Segment` | marm_segment | `queue` of the muxer, `nb` file number, `disk` packets on disk with file and counter |
| `Remux` | marm_remux and `FrameRange` | `asked` filter answers, `out` packets copied |
| `Scan` | marm_scan of a file before the copy that is appended to it | `before` is the file, `seen` what was read of it; `last` of `Remux` is what the demuxer holds |
| `VideoFrames` | frame.VideoFrames | `taken` packets, `frames` handed out |
| `MuxCommand` | `mux_cmd` over `VideoFrames`; or a caller that only assembles frames | `stage` is the command's next step, `streams` and `first` its cursors, `profile` what was probed, `container` what the muxer's filter let into the file; the position of the video cursor is `taken` |
| `FrameFile` | frame files by their fields, `monotonic` | operators |
| `Gen` | marm_gen_audio, marm_gen_video and the wrappers that call them | `pts` and `left` count samples, `queue` is the encoder, `file` the disk, `made` the packets written |
| `RTPCursorProofs` | theorems about `RTPCursor`, its abstract tape and `CursorScan` | |
| `TimeCutProofs` | theorems about `TimeCut` and `Windows`, and lemmas about `TimePositions` | |
| `MuxProofs`, `SegmentProofs`, `SplitProofs` | theorems about the module named | |
| `RemuxProofs` | theorems about `Remux` and `Scan` | |
| `VideoFramesProofs` | theorems about `VideoFrames` and `MuxCommand` | |
| `GenProofs` | theorems about `FrameFile` and `Gen` | |
| `MCTimes` | `TimeCut` and `Windows` side by side, for the two kinds of caller of `time_cut` | `caller` says which of the two a behaviour is of |
| `MC...` | constants and bounds for TLC | |

`CursorScan` composes `RTPCursor`; `RTPCursor` is shown to implement `PacketTape`;
`TimePositions` rests on that (a position is a packet's number) with one exception
the model keeps: a step forward out of a part that is not open leaves it
(rtp.py:941). `Windows` and `TimeCut` use `TimePositions`; `Segment` and `Remux`
use `MpegTs`, `Scan` goes before `Remux`; `Split` writes and reads `MJR` files, `Gen` those of `FrameFile`;
`MuxCommand` extends `VideoFrames`, whose source is the cursor that was probed. PROJECT.json lists under `map` the lines each definition
translates. A definition marked "Slip" is a plausible mistake in the code, used to show
that a property would notice it; no specification uses it.

Abstractions. Payloads are not modelled; a packet is its position, or its time, stream,
key flag. A raised exception is a value in a variable. libav is modelled from how the
code uses it: an interleaving queue that may hold back any packets until a flush, a
muxer that refuses timestamps that do not increase, rescaling that rounds, an
encoder that gives back at most one packet per frame and holds up to `Delay` frames.
Files (`MJR`, `FrameFile`) are rows of whole fields: a field cut short reads like one
that is missing, so cutting after any field covers a cut at any byte.
Every libav or file call that the code checks may fail.

## Runs

Most runs finish in seconds, `CursorScanAll` in about three minutes,
`TimesAll`, `SplitAll` and `MuxCommandAll` in about one.

| Run | Bounds | Shows |
|---|---|---|
| RTPCursorAny | 3 parts of 0..2 packets, any torn; seeks just outside the archive; relative seeks up to 2 | types, bounds, stale part only when empty, packet read is at the position, steps reach neighbours, backward seeks move as many packets as they take off what they have to move, relative seeks end |
| RTPCursorTape | 3 parts of 1..3 packets | the cursor implements `PacketTape` |
| CursorScanAll | 3 parts of 0..2 packets, at most one torn | loops are contiguous; restored whatever raises; complete over parts with packets; end |
| TimesAll | cuts: up to 4 packets in up to 2 parts, times of 3 seconds in any order, any frames, at most one of them a key frame, begins and ends from before the cursor (-1) to behind the archive's end; windows: up to 5 packets in 3 parts, lead 0..2, size 1..2, lag 0..1, parts recorded at any time between steps | offsets of aligned cuts are their packets' times, cuts hold their range, begin and end at frames, slices are decodable; cuts of consecutive windows meet |
| TimesUnaligned | as TimesAll | the finding on unaligned cuts below |
| SplitAll | up to 3 packets, 16 pairs of limits, 3 runs that can die anywhere, of the file in hand any part on disk | parts are within the limits, at most one packet short of the count, and follow on each other, cut parts read back as their beginning, nothing is lost and a forced rerun repairs, finished parts stay |
| SplitCount | as SplitAll, `--count 1` | the finding on `--count` below |
| MuxAll | two streams of up to 3 packets, any failure | merged in order, nothing refused, exceptions stop it and reach the caller; it ends |
| SegmentSafety | up to 4 packets of two streams, counters modulo 3, any failure | concatenation, split points, shortest segments, counters |
| RemuxSafety | a file of none, one or three packets scanned up to any of them, then up to 4 packets of two streams, all filters, offsets, counters modulo 3, any failure | filter, range, offsets, exceptions; file and copy are continuous together |
| MuxCommandAll | frames: 4 of two packets, any lost, any key frames, a source that raises anywhere; command: up to 4 of 5 archives (empty, cut short, beginning inside a frame, restarting), 6 lists of streams, both orders, offsets -1..2, windows 1..3 | frames tile the packets; the command hands over all its cursors reach and the container holds what of it comes later than all before; the header describes the frames |
| GenAll | durations 0..2 of 3 samples or pictures, -1 (no limit) to 5 samples, frames of 2, up to 2 held back, any failure, killed anywhere; audio shifted and rescaled | files read back as what was asked for, replayed times rise, requests with a limit end |

Why the bounds suffice. A cursor step crosses at most one boundary forward and any
number backward, so three parts, the middle one empty, show both; two packets have a first,
a last and, with a third part, packets in between. A split decision needs a first
packet, one to compare and one after, in each of two streams. A frame over a part
boundary needs two packets on either side. Counters modulo 3 wrap within four packets.
Runs of `split` differ only in what the one before left, so one to die, one to skip and one
to repair are enough, and three packets give every pair of neighbouring chunks. The least window of
an estimate, 10 frame starts in the code, is `MinWindow` = 2: two starts are the fewest with
a distance. Two archives per stream show the order they are dealt out in, and a cursor that
stops between them. Five samples in frames of two leave a shorter last frame, and more
frames than the encoder holds back.
Most bounds limit inputs only (`MaxPackets`, `MaxParts`, `MaxPkts`, ...). Bounds in
guards are `MaxRuns` (how often `split` is started), `MaxPts` (how far a generator without
an end is followed) and `MaxParams` (parameters of one `-v` or `-a`).

Each module states its types as `TypeOK` or in its proofs' invariant. Type correctness is
proved of every module, and no run spends a property on it.

Runs whose programs end say `CHECK_DEADLOCK FALSE`; the cursor never ends and is
checked for deadlock.

### Where the code does something else than it says

Two runs find a property violated. `SplitCount`: `--count n` gives parts of n - 1
packets, and with `--count 1` the command ends normally without having written any.
`TimesUnaligned`: without alignment `time_cut` is documented to return the offsets it was
given (rtp.py:629, 631), and returns the times of its packets (rtp.py:687).
PROJECT.json quotes the lines under `findings`.

Further behaviour that a doc or a test would not lead one to expect is in the models as
the code has it, and shows as a condition of a property that holds:

| Property | Its condition excludes |
|---|---|
| `WalkIsComplete` (`CleanArchive`) | an iteration stops at a part without packets and never sees the parts after it (rtp.py:938); `_prev` does go on over such parts |
| `SearchFindsNearest` (`job.warm`) | a search forward right after a seek within a part, which closes it, leaves that part at once (rtp.py:941) |
| `ComputeFoldsAtMostOnce` | `compute` leaves out a packet that is alone in its span (rtp.py:503) |
| `NextIsSuccessor` (the part is open) | `_next` from a part that a seek has closed leaves that part (rtp.py:941) |
| `BackSeekIsExact` (ends at -1 of an empty part) | a seek back can end at packet -1 of a part without packets, one packet short, where `current` raises; before the archive's first packet too, when its first part is empty (rtp.py:421) |
| `RestoringRestores` (`job.saved \in Packets`) | going back to a position that is no packet raises IndexError (rtp.py:464) |
| `OffsetsAreExact` (`align # "no"`, `b >= 0`, `e >= 0`) | offsets of a cut that begins or ends before the cursor are off by twice the overshoot (rtp.py:583); unaligned cuts are the finding above |
| `SliceIsDecodable` (a key frame before the end) | without one `time_slice` slices backward from the last packet (rtp.py:800) |
| `PartsAreChunks` (`e - b + 1 >= limits.count - 1`) | a part has one packet less than `--count` allows (rtp.py:1089) |
| `NothingIsLost` (`numbered`, `NoneCutShort`) | an `out_format` without `{part}` names one file for all parts (cli.py:261); a rerun without --force takes a part that was cut short for finished and skips its packets (cli.py:262) |
| `OffsetsReachTheirStream` (streams from 0 on) | with an offset for stream 1 alone, stream 0 is moved by it (ext.pyx:616) |
| `RaisesReachCaller` | an exception of the first video packet can be forgotten when there is no audio packet (mux.c:221) |
| `SegmentsConcatenate` (nothing failed) | a failed flush or last close is reported as success, and so is damaged input, which is taken for its end (segment.c:178, 386, 347); a file that raises in a read does reach the caller |
| `SegmentsSplitExactly` | with audio as stream 0 segments start anywhere in the video (segment.c:96) |
| `MuxedIsComplete` (`Later`) | of archives that restart their times, packets not later than the latest before are dropped from the container, and the command returns normally (mux.c:237, 265) |
| `MuxedIsComplete` (`stage = "muxed"`) | `-v` and `-a` options are ignored or raise KeyError (cli.py:399); a mux without video raises NameError (cli.py:456); `--video-frame-rate-window` below 10 always raises; a container without an extension is emptied before the error; the help describes other separators of archives (cli.py:341) than the parser takes (cli.py:139) |
| `FramesReadBack` (`Audio => req.valid`, frames still held) | an unknown type of tone returns normally with nothing made (gen.c:438); the video encoder is not flushed, so its last frames are missing (gen.c:186); the last audio frame is filled up with old samples (gen.c:459) |
| `GenEnds` (a limit) | an audio request with neither duration nor samples never ends; an audio encoder that is not found is no error, and its unset context is used later (gen.c:337) |

### Fairness

`SeekEnds`, `LoopsEnd`, `MuxEnds` and `GenEnds` assume weak fairness of the
running call's next step: the code is sequential and has no waits, so a step that
can be taken is taken as long as the interpreter runs. Nothing is assumed of
the caller: starting a call is not fair, and neither is the end of a killed process.
`GenEnds` is about requests with a limit. `MuxEnds` takes the packet sources to be
finite, as its inputs are.

## Proofs

TLAPS checks the theorems for any number of parts of any length and any inputs; TLC
had checked the same formulas and the strengthened invariants first.

`RTPCursorProofs`. `TypeCorrect` comes first. `PositionIsSound` is the conjunction
of `InBounds` (the position is within the index of its part, or is packet 0 or -1 of
a part that has none) and `StalePartIsEmpty` (the part read from is that of the position, or
is a part without packets). Neither is inductive alone: `_next` computes with the length of
`self.part` and the position of the cursor, so bounds after it need the two to agree
up to empty parts, and agreement needs bounds to know that a step that failed had
run into an empty part. `PacketsComeFromPosition` adds that a relative seek in progress
returns nothing. `PrevReachesPredecessor` and `NextReachesSuccessor` are action
properties over that invariant; `BackSeekIsAlwaysExact` is one that needs the types only. It is a law of conservation:
the rank of the position among the packets (`Rank`) and what the seek has left to move
(`Owing`) add up to the same before and after each step, so where a seek that is over stands is
settled by where it began. At packet -1 of an empty part, which is the rank of the next packet, one
more is owing than `togo` says. `InPartsBefore`, the count of the packets before a part, is a recursive
function that is shown to exist for any number of parts (`CountExists`). `CursorImplementsTape` uses the first two: over parts that
all have packets, with packets read before the cursor is moved, every
step is a step of the tape or leaves it alone. Assumptions: `NbParts` is positive,
parts have natural lengths, seek targets are pairs of integers.

The same module proves all five invariants of `CursorScan`. A loop's steps are the cursor's, so its
invariant (`LoopOK`) is the cursor's with the type of the loop, in which whatever a loop has
remembered is a place a cursor can seek to. On top of it,
`Walking` says that a walk stands on the last packet it handed out, in a part that is open, which is
why the next packet is a neighbour; it needs no assumption about the archive, as an
iteration over an empty part ends. `Restoring` remembers where a loop in `restoring()` began, which is
a packet and so can be sought whatever the loop, or the code it calls (`BodyRaises`), has done to
the cursor; it, too, holds over any archive. The other three hold over parts that all have packets
and are not torn. `Searching` says that
nothing between the start of a search and the cursor matches. `WalkedAll` says that the
packets handed out are just those from the start to the cursor (`Passed`), and as many as were counted. `Folding` follows
`compute`: the spans that are left begin where the next part does, and what was folded is below the place
the fold is at. Assumption (`ScanAssumption`): the sets a loop's arguments are from are
sets of pairs of integers.

`TimeCutProofs`. A call is made of searches, so lemmas say what each finds: the first packet late
enough (`Forward`), the last frame before (`StartBefore`), the first key frame after (`KeyAfter`), where
alignment puts an end (`Aligned`). The invariant (`Called`) is that a call that has returned is
the one the operators describe, from where the cursor stood; the three properties follow from it and
the lemmas. `OffsetsAreExact` is false of ends before the cursor, which the proof showed first; the run has
such ends. Times are anything in `OffsetsAreAlwaysExact` and `SliceIsAlwaysDecodable`; in order in the first half of
`CutIsAlwaysTimeRange`.

For `Windows`, a part's first packet is found by its rank among the first packets, so first come
lemmas on ranks: each rank exists (`RankExists`), and bounds rise with it (`BoundsRise`). The
invariant (`Stepped`) is that each cut made is the cut of a window whose recorded end was
some `total` between what the step needed and what there is now. A cut stops at the
alignment of a moment that the next cut begins with, and both searches stay within both windows
(`NextStarts`, `StepStops`), which is where the conditions of `WindowsMeet` are used. Assumptions:
recordings are archives, windows have a size, `None` is no integer.

`MuxProofs`. `FilterIsEnough` strengthens "the muxer refuses nothing" to: the last
timestamp the filter compares with is no earlier than that of any packet of the stream
in the file. `ReturnMeansComplete` follows the control
from the loop's end to the caller: a result of success with no exception pending
implies drained sources and a trailer. `NoWriteAfterRaise` needs no invariant: every write
follows a check. `RaisesAlwaysReachCaller` says where an exception that was raised is: pending,
or returned, and it can be forgotten only at the first video packet without audio.
`MergesInOrder` proves the order of the merge, `MergedInOrder`, for sources that are in order
(`Sorted`): nothing still to come of a source, and no packet of it in hand, is before one
in the file (`NotBefore`, `FileBehind`), what is to come being in order itself (`Ahead`); a source
that has no packet in hand and was not just asked is drained.
`FileIsAlwaysMerged` is about what each source has in the file. The invariant (`KeepInv`) follows, for each stream, the
number n of packets the loop has judged (`Judged`, `Sent`): as many of its packets are in the file as the filter keeps
of the first n, what the filter compares with is the last of these, and the packet in hand and those to
come are the ones after n, unless the source raised. A packet that was kept stays kept, in its place (`KeptStays`),
so each packet of the file has its place among all that the filter keeps (`Placed`). `Kept` is a fold of the
library, which runs over sets of indices; `KeptSteps` turns it into one step per packet. Assumption: time bases are
positive.

`VideoFramesProofs`. `FramesTile` relates frames to each other; what makes it inductive
is what is between them: a new object has taken nothing (`Fresh`); the packet read ahead is the
last one taken, starts a frame and follows on the last one, unless the source raised (`Ahead`);
nothing read ahead means the source was read to its end (`AtEnd`), and a stop means there is
nothing read ahead (`Stopped`). `FramesOK` is what this adds up to for the frames handed out. `Search`, the loop over
packets, is characterised by a lemma first.

The command's steps keep that invariant (`CommandInvariant`): the cursor is where it was
until the frames are made, whatever was probed from it. `ProfileAlwaysDescribes` adds that the
probes found the key frame the frames begin with, and that the rate is at most that of the
frames (`RateOK`): frame starts sampled have different times, so there are no more of them
than units of time between the first and the last. That a cursor over archives yields a sequence of packets
is a fact about the library's recursive `FlattenSeq`; it is proved by the least length for which it
would fail (`FlatExists`, `FlatType`). Assumptions: commands have archives and types (`CommandsAssumption`),
an estimate takes two frames at least (`BoundsAssumption`), inputs are sequences of packets (`InputsAssumption`).

`MuxedIsAlwaysComplete` compares what the command's loops leave with what its description
promises. `Delivers` says what the loops read: the streams are those `Buckets` makes of the archives, every
cursor begins at its target, a key frame is there once the video was probed, and at the end both
sources were read through. The description deals the archives out by their rank in an order, the code by slices;
`Ranks`, `Quotient`, `DealtRises` and `DealtStreams` show by counting that these are the same
(`BucketIsStream`). It joins all of the packets after a target and the code reads part
after part until one ends early: `FlatPadded` and `YieldsReachable`. What was handed over is not
what the container holds: the filter keeps a packet when it is later than the last one kept,
the property when it is later than all before it, and the two agree because the last one kept is always the latest.

`RemuxProofs` and `SegmentProofs` begin with lemmas about the number of packets of a stream
before a position, and how it grows when one is appended: the counters of `CountersContinue` are
such a count modulo any modulus.

`RemuxProofs` prove the properties of a remux given any counters. The invariant says that the
answers are one per packet asked about (`AskedOK`), the copy is the packets kept among them
(`CopiedOK`), a range keeps just the frames in it (`RangedOK`), counting as it goes, an exception is pending
from the raise on (`Told`), and only a result of success, or one with the exception pending,
reaches the end (`EndsOK`).

They are carried over to a remux that follows a scan, with the property that joins
the two, `ConcatenationContinues`. The scan's invariant (`Scanned`) says that the
demuxer holds the counter of the last packet read of each stream; those of the remux say that the
copy counts on from there; between two packets of a stream there is either no other packet of
it in the copy or just one more than before.

`SegmentProofs` prove all three properties of the segmenter's run, for any interval
and any packets the muxer holds back. The difficulty is that a packet's file is
the one open when the muxer lets it go, which the flush before a split forces: the
invariant says, of packets on disk and of packets still in the muxer, in which file they are or
will be (`Layout`, `Flow`, `Files`), that files change just where they should (`Splits`,
`Begun`, `Pending`), and what is closed and written at the end (`Ending`, `AllClosed`).

`SplitProofs` prove all four properties of `split`'s run. Part files of different runs
agree because all runs follow one plan: a sequence g of the first packets of the chunks any
run has begun (`Plan`). The invariant is that such a plan exists with every part file a
beginning of its chunk (`FilesFollow`), a chunk being exactly what the code makes one (`IsChunk`), the running split at its place in it (`RunFollows`), and
the chunks behind the run all with files, whole ones under --force (`Leaves`). That two
runs cannot disagree is the lemma `OneChunk`: where a chunk begins settles where it ends.
`NothingIsEverLost` then follows from the plan reaching the archive's end. `PartsAlwaysReadBack` says
that the packets of a file, cut where it may be, are within the limits of its chunk (`Readable`, `Fits`): the chunk that begins
there ends at one place only (`ChunkHasEnd`, `OneChunk`), which the property calls its limit, and
reading and indexing come to what the file has in full and at most one record that
it has not (`ReadsAsRun`, `IndexesTo`). What the properties say of a part (`IsPart`: within the limits, and at
most one packet short of them) follows of every chunk (`ChunkIsPart`). Assumptions: times
are integers, limits integers or absent, which may be zero or negative.

`GenProofs` prove both safety properties of the generator's run. The invariant (`Inv`) says what the file holds
(`FileOK`: header, whole frames, at most a part of one more), that packets of audio are numbered frame after frame and
stop at the limit asked for (`AudioOK`), and that every picture encoded is written or still in the encoder
(`VideoOK`). `FramesAlwaysReadBack` then needs arithmetic only: a cut file has a whole number of
frames in it (`ReadsBeginning`, `Quotient`), and the frames made are as many as the limit takes
(`FramesNeeded`). `Monotonic` is a fold of the library; it is followed frame by frame as `Kept` is
(`FoldExists`, `MonotonicFolds`), and each step of it is later than the last and never before the
frame's own time (`MonotonicRises`). Assumptions: requests are of the types the wrappers take
(`RequestsAssumption`), frame sizes and rates are positive (`SizesAssumption`).

Every safety property that a passing run checks is the property of a theorem.
Only model-checked: all liveness (`SeekEnds`, `LoopsEnd`, `MuxEnds`, `GenEnds`), which the prover
has no rule for under fairness, and the two violated properties (`NothingIsLostByLimits`, `OffsetsAreGiven`). Proved but not in a
run: that the muxer writes nothing after an exception (`NoWriteAfterRaise`).

## Not modelled

- a part that cannot be opened: `part.open()` always succeeds, where in the code a missing file or
  one cut inside its header raises (rtp.py:886).
- `compute` with a stop (rtp.py:492): its last span is exclusive then. The model folds all of
  the rest of the archive.
- rounding of times between archive and container in `MuxCommand`, whose filter compares the times of
  the frames; `Mux` has the time bases.
- the wrap of the RTP clock: times that go backward stand for it.
- a scan of only part of what was joined: a stream with no packet in one window leaves no
  counter in it, and the window after starts that stream at 0. `ConcatenationContinues` is
  about a file and the copy appended to it, which is all `last_mpegts_ccs` looks at. In
  `Segment` the counters passed in are any values.
- what an error of libav in a scan's reads loses: the scan ends there with success, and the
  property is stated for a file read to its end.
- values in a header, and the media type of an mjr file: data that no step depends on.
- payload headers of RTP, VP8, Opus and the probe of the payload type, a vote over them:
  bit layouts without state, which unit tests reach.
- pcap: a loop around a library, under the same cursor; ffmpeg wrappers: external programs.
- `compute`'s cache, the key frame and drop count of a window, audio stitching by samples.
- what a process does when it dereferences NULL in a cleanup after a failed set-up
  (mux.c:317, remux.c:231): the model ends with an error there. Likewise what is written
  through the unset audio encoder of gen.c: the model has the process end or go on.

Behaviour that is in the models but that no property is about, as the repository does not say
what it should be: where a seek forward over boundaries lands (rtp.py:440); a slice backward when there
is no key frame (rtp.py:800); an `out_format` without `{part}` (cli.py:261); failed flushes and closes of segments
(segment.c:178, 386); offsets of ends before the cursor (rtp.py:583); frames left in the video
encoder (gen.c:186); the crash of a cleanup (mux.c:317). PROJECT.json lists them under `hazards`, with
notes, and the properties that come near them have them as conditions.

## Plan

Done, in this order: the cursor with its abstract tape and proofs; loops over it; the muxer
with proofs; counters, segmenter, remuxer; frames; time cuts and windows; split; mjr files
under split; the mux command over the frames; frame files and the generator; proofs about
frames, remuxer, segmenter and split; the scan before a remux, with proofs; proofs about loops,
time cuts, windows, part files that are cut short, the merge, the mux command, frame files and
the generator.

Left, extending the model:
1. VideoFrames as the source of Mux, with a source that raises in a frame (`MuxCommand` has
   the order of calls, `Mux` the exceptions).
2. `Windows`: key frame and drop count of each window; `CursorScan`: `compute`'s cache.

Left, proving: nothing that a run checks but liveness; of each extension, its properties.
