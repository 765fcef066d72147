------------------------------- MODULE Segment -------------------------------
(***************************************************************************)
(* frame.segment: splitting a container into numbered files (segment.c).   *)
(*                                                                         *)
(* One muxer writes all files; only its i/o context is replaced.  The      *)
(* muxer queues packets to interleave the streams and is flushed before a  *)
(* file is closed.  A flush that fails is logged and not reported: the     *)
(* file stays open, its number is not used up, and the next segment_open   *)
(* opens, and so truncates, the same file.  What the last segment_close    *)
(* returns is ignored.                                                     *)
(*                                                                         *)
(* The demuxer, the muxer and the files are external: any of their calls   *)
(* may fail.  An exception raised by in_file.read looks like the end of    *)
(* the input to the C code and is raised when marm_segment returns.        *)
(***************************************************************************)
EXTENDS MpegTs, Sequences

CONSTANTS Inputs,     \* containers: kinds of the streams and their packets
          Interval    \* seg->interval, in the time base of stream 0

InputPacket == [st : Streams, key : BOOLEAN, pts : Int]

ASSUME InputsAssumption == Inputs \subseteq [video : SUBSET Streams, pkts : Seq(InputPacket)]
ASSUME IntervalAssumption == Interval \in Int

VARIABLES input,    \* the container read
          given,    \* mpegts_ccs
          read,     \* packets read so far; pkts[read] is the one in hand
          prev,     \* prev_pts, or unset (AV_NOPTS_VALUE)
          nb,       \* number of the current segment
          pb,       \* the muxer has an i/o context
          handles,  \* files open
          queue,    \* packets the muxer holds back
          disk,     \* packets in the files, in the order written
          cc,       \* the muxer's continuity counters
          pc, res,  \* control point and result of marm_segment
          faults,   \* calls that failed and are not reported by res
          outcome   \* what the caller of segment() sees

io == <<nb, pb, handles, queue, disk, cc>>
vars == <<input, given, read, prev, nb, pb, handles, queue, disk, cc, pc, res, faults, outcome>>

Unset == [set |-> FALSE, pts |-> 0]
At(p) == [set |-> TRUE, pts |-> p]
Pkt(i) == input.pkts[i]
RefStream == 0                 \* ref_stream_index, chosen by segment_init
RefIsVideo == RefStream \in input.video

TypeOK ==
    /\ input \in [video : SUBSET Streams, pkts : Seq(InputPacket)]
    /\ given \in UNION { [S -> Counter] : S \in SUBSET Streams }
    /\ read \in 0 .. Len(input.pkts)
    /\ prev \in [set : BOOLEAN, pts : Int]
    /\ nb \in Nat /\ pb \in BOOLEAN /\ handles \in Nat
    /\ queue \in Seq(1 .. Len(input.pkts))
    /\ disk \in Seq([file : Nat, pkt : 1 .. Len(input.pkts), cc : Counter])
    /\ cc \in [Streams -> Counter]
    /\ pc \in {"open", "read", "write", "muxing", "flush", "finish", "exit", "done"}
    /\ res \in {"ok", "error"}
    /\ faults \in SUBSET {"read", "input", "flush", "last_close"}
    /\ outcome \in {"none", "returns", "raises", "marm_error"}

Init ==
    /\ input \in Inputs /\ given \in Ccs
    /\ read = 0 /\ prev = Unset /\ nb = 0 /\ pb = FALSE /\ handles = 0
    /\ queue = <<>> /\ disk = <<>> /\ cc = HeaderCcs
    /\ pc = "open" /\ res = "ok" /\ faults = {} /\ outcome = "none"

Fail == res' = "error" /\ pc' = "exit" /\ UNCHANGED <<faults, outcome>>

GoTo(l) == pc' = l /\ UNCHANGED <<res, faults, outcome>>

(***************************************************************************)
(* segment_open: the first one also writes the header.  In a split the     *)
(* packet in hand starts the segment.                                      *)
(***************************************************************************)
\* What is left on disk when file nb is opened: were it there already, its packets
\* would be the last ones.
Truncated == SubSeq(disk, 1, Cardinality({ i \in DOMAIN disk : disk[i].file # nb }))

OpenFails ==
    /\ pc = "open" /\ Fail
    /\ UNCHANGED <<input, given, read, prev, io>>

HeaderFails ==
    /\ pc = "open" /\ nb = 0 /\ Fail
    /\ pb' = TRUE /\ handles' = handles + 1 /\ disk' = Truncated
    /\ UNCHANGED <<input, given, read, prev, nb, queue, cc>>

\* Slip: every segment resets the counters.
OpenResets ==
    /\ pc = "open"
    /\ pb' = TRUE /\ handles' = handles + 1 /\ disk' = Truncated
    /\ cc' = ResetCcs(HeaderCcs, given)
    /\ IF read = 0 THEN prev' = Unset /\ GoTo("read")
                   ELSE prev' = At(Pkt(read).pts) /\ GoTo("write")
    /\ UNCHANGED <<input, given, read, nb, queue>>

Open ==
    /\ pc = "open"
    /\ pb' = TRUE /\ handles' = handles + 1 /\ disk' = Truncated
    /\ cc' = IF nb = 0 THEN ResetCcs(HeaderCcs, given) ELSE cc
    /\ IF read = 0 THEN prev' = Unset /\ GoTo("read")
                   ELSE prev' = At(Pkt(read).pts) /\ GoTo("write")
    /\ UNCHANGED <<input, given, read, nb, queue>>

\* Slip: a strict comparison.
AtSplitLater(p) ==
    /\ p.st = RefStream /\ prev.set
    /\ RefIsVideo => p.key
    /\ p.pts - prev.pts > Interval

(***************************************************************************)
(* The loop: read a packet, decide whether it starts a segment, write it.  *)
(***************************************************************************)
\* segment_at_split, for a packet that is not the first of its segment.
AtSplit(p) ==
    /\ p.st = RefStream /\ prev.set
    /\ RefIsVideo => p.key
    /\ p.pts - prev.pts >= Interval

Read ==
    /\ pc = "read" /\ read < Len(input.pkts)
    /\ read' = read + 1
    /\ LET p == Pkt(read + 1)
       IN /\ prev' = IF p.st = RefStream /\ ~prev.set THEN At(p.pts) ELSE prev
          /\ GoTo(IF AtSplit(p) THEN "flush" ELSE "write")
    /\ UNCHANGED <<input, given, io>>

\* av_read_frame fails: the end of the input, in_file.read raised, or the input is
\* damaged, which is taken for its end without an exception.
ReadEnds ==
    /\ pc = "read" /\ pc' = "finish"
    /\ \/ read = Len(input.pkts) /\ UNCHANGED faults
       \/ \E f \in {"read", "input"} : faults' = faults \cup {f}
    /\ UNCHANGED <<input, given, read, prev, io, res, outcome>>

DupFails ==
    /\ pc = "read" /\ read < Len(input.pkts)
    /\ read' = read + 1 /\ Fail
    /\ UNCHANGED <<input, given, prev, io>>

Write ==
    /\ pc = "write"
    /\ queue' = Append(queue, read)
    /\ GoTo("muxing")
    /\ UNCHANGED <<input, given, read, prev, nb, pb, handles, disk, cc>>

\* The muxer writes a packet it holds, when it takes one in, is flushed or ends.
MuxerWrites ==
    /\ pc \in {"muxing", "flush", "finish"} /\ queue # <<>>
    /\ LET st == Pkt(Head(queue)).st
           c == CountUp(cc[st])
       IN /\ disk' = Append(disk, [file |-> nb, pkt |-> Head(queue), cc |-> c])
          /\ cc' = [cc EXCEPT ![st] = c]
    /\ queue' = Tail(queue)
    /\ UNCHANGED <<input, given, read, prev, nb, pb, handles, pc, res, faults, outcome>>

WriteDone ==
    /\ pc = "muxing" /\ GoTo("read")
    /\ UNCHANGED <<input, given, read, prev, io>>

WriteFails ==
    /\ pc = "muxing" /\ Fail
    /\ UNCHANGED <<input, given, read, prev, io>>

(***************************************************************************)
(* segment_close                                                           *)
(***************************************************************************)
CloseFile == pb' = FALSE /\ handles' = handles - 1

\* The flush gives up at a packet it cannot write; the split goes on.
FlushFails ==
    /\ pc = "flush" /\ queue # <<>>
    /\ queue' = Tail(queue)
    /\ faults' = faults \cup {"flush"} /\ pc' = "open"
    /\ UNCHANGED <<input, given, read, prev, nb, pb, handles, disk, cc, res, outcome>>

\* Slip: the number is not used up.
CloseKeepsNumber ==
    /\ pc = "flush" /\ queue = <<>>
    /\ CloseFile /\ nb' = nb
    /\ GoTo("open") \/ Fail
    /\ UNCHANGED <<input, given, read, prev, queue, disk, cc>>

Close ==
    /\ pc = "flush" /\ queue = <<>>
    /\ CloseFile
    /\ \/ nb' = nb + 1 /\ GoTo("open")
       \/ nb' = nb /\ Fail
    /\ UNCHANGED <<input, given, read, prev, queue, disk, cc>>

LastClose ==
    /\ pc = "finish" /\ queue = <<>>
    /\ CloseFile
    /\ \/ nb' = nb + 1 /\ GoTo("exit")
       \/ /\ nb' = nb /\ pc' = "exit"
          /\ faults' = faults \cup {"last_close"} /\ UNCHANGED <<res, outcome>>
    /\ UNCHANGED <<input, given, read, prev, queue, disk, cc>>

\* The trailer fails: the file is left open.
TrailerFails ==
    /\ pc = "finish" /\ pc' = "exit"
    /\ faults' = faults \cup {"last_close"}
    /\ UNCHANGED <<input, given, read, prev, io, res, outcome>>

\* Back in Cython: a pending exception is raised first, then the result counts.
Return ==
    /\ pc = "exit" /\ pc' = "done"
    /\ outcome' = IF "read" \in faults THEN "raises"
                  ELSE IF res # "ok" THEN "marm_error" ELSE "returns"
    /\ UNCHANGED <<input, given, read, prev, io, res, faults>>

Next ==
    \/ OpenFails \/ HeaderFails \/ Open
    \/ Read \/ ReadEnds \/ DupFails
    \/ Write \/ MuxerWrites \/ WriteDone \/ WriteFails
    \/ FlushFails \/ Close \/ LastClose \/ TrailerFails \/ Return

Spec == Init /\ [][Next]_vars

-----------------------------------------------------------------------------
(***************************************************************************)
(* Properties.  Files are compared in the order of their numbers, which is *)
(* the order they are written in.                                          *)
(***************************************************************************)
OnDisk == [i \in 1 .. Len(disk) |-> disk[i].pkt]

Starts(i) == i = 1 \/ disk[i].file # disk[i - 1].file

\* The first packet of stream st in its segment.
Leads(i, st) ==
    /\ Pkt(disk[i].pkt).st = st
    /\ \A j \in 1 .. i - 1 : disk[j].file = disk[i].file => Pkt(disk[j].pkt).st # st

\* Unless a flush failed, the segments one after the other and what the muxer
\* holds back are the input so far: nothing lost, repeated or moved.  When segment()
\* returns and nothing failed they are the whole input, every file is closed and the
\* files are numbered without a gap.  (After a damaged input, a failed flush or a failed
\* close of the last segment it returns, too, with packets lost.)
SegmentsConcatenate ==
    /\ "flush" \notin faults /\ res = "ok" =>
          OnDisk \o queue = [i \in 1 .. (IF pc \in {"flush", "open", "write"} /\ read > 0
                                         THEN read - 1 ELSE read) |-> i]
    /\ outcome = "returns" /\ faults = {} =>
          /\ OnDisk = [i \in 1 .. Len(input.pkts) |-> i]
          /\ handles = 0
          /\ input.pkts # <<>> => { disk[i].file : i \in 1 .. Len(disk) } = 0 .. nb - 1

\* The input is split where it should be, and everywhere it should be: a segment after
\* the first starts with a packet of the reference stream, a key frame when that is
\* video, at least Interval after the first of the segment before, and no segment
\* holds a packet it could have been split at.
SegmentsSplitExactly ==
    "flush" \notin faults =>
       /\ \A i \in 2 .. Len(disk) : Starts(i) =>
             /\ Leads(i, RefStream)
             /\ RefIsVideo => Pkt(disk[i].pkt).key
             /\ \A j \in 1 .. i - 1 :
                   disk[j].file = disk[i].file - 1 /\ Leads(j, RefStream) =>
                      Pkt(disk[i].pkt).pts - Pkt(disk[j].pkt).pts >= Interval
       /\ \A i, j \in 1 .. Len(disk) :
             LET p == Pkt(disk[i].pkt)
                 q == Pkt(disk[j].pkt)
             IN j < i /\ disk[i].file = disk[j].file /\ Leads(j, RefStream)
                /\ p.st = RefStream /\ (RefIsVideo => p.key)
                => p.pts - q.pts < Interval

\* The continuity counters of each stream run on from the ones passed in, across
\* all segments.
CountersContinue ==
    "flush" \notin faults =>
       \A st \in Streams, i \in 1 .. Len(disk) : Pkt(disk[i].pkt).st = st =>
          LET before == { j \in 1 .. i - 1 : Pkt(disk[j].pkt).st = st }
          IN disk[i].cc =
               (ResetCcs(HeaderCcs, given)[st] + Cardinality(before) + 1) % CcMod
=============================================================================
