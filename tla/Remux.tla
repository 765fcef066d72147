-------------------------------- MODULE Remux --------------------------------
(***************************************************************************)
(* frame.remux: copying a container into another through a packet filter   *)
(* (remux.c), with frame.FrameRange as one such filter, and the counters   *)
(* frame.last_mpegts_ccs has read off the file this one will follow.       *)
(*                                                                         *)
(* Unlike marm_mux, the loop does not ask whether an exception is pending: *)
(* a filter that raises answers -1, which counts as "keep", and copying    *)
(* goes on; the exception is raised when marm_remux returns.  An exception *)
(* in in_file.read looks like the end of the input.                        *)
(***************************************************************************)
EXTENDS MpegTs, Sequences

CONSTANTS Inputs,     \* containers: their packets, in order
          Filters,    \* packet filters a caller passes
          Offsets     \* offset_pts: functions from streams to offsets

Answers == {"keep", "drop", "keep_all", "drop_all", "raise"}
FilterType == [kind : {"none", "any", "range"}, st : Streams, b : Int, e : Int]

ASSUME InputsAssumption == Inputs \subseteq Seq([st : Streams, pts : Int])
ASSUME FiltersAssumption == Filters \subseteq FilterType
ASSUME OffsetsAssumption ==
    \A o \in Offsets : DOMAIN o \subseteq Streams /\ o \in [DOMAIN o -> Int]

VARIABLES input, filter, offset,  \* the arguments of remux()
          last,     \* last counters of the file before, from scan.c
          mpegts,   \* the output format has continuity counters
          count,    \* FrameRange.count
          read,     \* packets read so far; input[read] is the one in hand
          asked,    \* the filter's answers so far
          out,      \* packets handed to the muxer
          cc,       \* the muxer's continuity counters
          exc,      \* the exception pending in the interpreter
          faults,   \* exceptions raised so far
          pc, res, outcome

args == <<input, filter, offset, last, mpegts>>
copy == <<count, read, asked, out, cc>>
vars == <<args, copy, exc, faults, pc, res, outcome>>

TypeOK ==
    /\ input \in Seq([st : Streams, pts : Int])
    /\ filter \in FilterType /\ mpegts \in BOOLEAN
    /\ count \in Nat /\ read \in 0 .. Len(input)
    /\ asked \in Seq(Answers)
    /\ out \in Seq([pkt : 1 .. Len(input), pts : Int, cc : Counter])
    /\ cc \in [Streams -> Counter]
    /\ exc \in BOOLEAN
    /\ faults \in SUBSET {"filter", "read", "write"}
    /\ pc \in {"open", "read", "filter", "write", "trailer", "exit", "done"}
    /\ res \in {"ok", "error"}
    /\ outcome \in {"none", "returns", "raises", "marm_error"}

Init ==
    /\ input \in Inputs /\ filter \in Filters /\ offset \in Offsets
    /\ last \in Ccs /\ mpegts \in BOOLEAN
    /\ count = 0 /\ read = 0 /\ asked = <<>> /\ out = <<>> /\ cc = HeaderCcs
    /\ exc = FALSE /\ faults = {}
    /\ pc = "open" /\ res = "ok" /\ outcome = "none"

Raises(who) == exc' = TRUE /\ faults' = faults \cup {who}
NoRaise == UNCHANGED <<exc, faults>>

Fail == res' = "error" /\ pc' = "exit" /\ UNCHANGED outcome
GoTo(l) == pc' = l /\ UNCHANGED <<res, outcome>>

(***************************************************************************)
(* Opening the input, or writing the header, can fail with an exception of *)
(* the file or without.  The counters are set right after the header.      *)
(***************************************************************************)
OpenFails ==
    /\ pc = "open" /\ Fail
    /\ NoRaise \/ Raises("read") \/ Raises("write")
    /\ UNCHANGED <<args, copy>>

\* Slip: the counters are set before the header, which sets its own.
OpenResetsFirst ==
    /\ pc = "open" /\ GoTo("read")
    /\ cc' = HeaderCcs
    /\ UNCHANGED <<args, count, read, asked, out, exc, faults>>

Open ==
    /\ pc = "open" /\ GoTo("read")
    /\ cc' = IF mpegts /\ LoadCcs(last) # <<>> THEN ResetCcs(HeaderCcs, LoadCcs(last))
                                                ELSE HeaderCcs
    /\ UNCHANGED <<args, count, read, asked, out, exc, faults>>

(***************************************************************************)
(* The loop.                                                               *)
(***************************************************************************)
\* KEEP_ALL clears the filter pointer.
Filtering == filter.kind # "none" /\ \A i \in DOMAIN asked : asked[i] # "keep_all"

Read ==
    /\ pc = "read" /\ read < Len(input)
    /\ read' = read + 1
    /\ GoTo(IF Filtering THEN "filter" ELSE "write")
    /\ UNCHANGED <<args, count, asked, out, cc, exc, faults>>

ReadEnds ==
    /\ pc = "read" /\ GoTo("trailer")
    /\ (read = Len(input) /\ NoRaise) \/ Raises("read")
    /\ UNCHANGED <<args, copy>>

\* Slip: the end of the range is left out.
RangeAnswerOpen(st) ==
    IF st = filter.st /\ (count < filter.b \/ filter.e <= count) THEN "drop" ELSE "keep"

\* FrameRange.__call__, for a packet of stream st.
RangeAnswer(st) ==
    IF st = filter.st /\ (count < filter.b \/ filter.e < count) THEN "drop" ELSE "keep"

Filter ==
    /\ pc = "filter"
    /\ \E a \in IF filter.kind = "range" THEN {RangeAnswer(input[read].st)} ELSE Answers :
         /\ asked' = Append(asked, a)
         /\ IF a = "raise" THEN Raises("filter") ELSE NoRaise
         /\ GoTo(CASE a = "drop" -> "read"
                   [] a = "drop_all" -> "trailer"
                   [] OTHER -> "write")
    /\ count' = IF filter.kind = "range" /\ input[read].st = filter.st
                THEN count + 1 ELSE count
    /\ UNCHANGED <<args, read, out, cc>>

\* Slip: ranks counted from one.
OffsetAfter(st) ==
    LET ranked == { s \in DOMAIN offset :
                      Cardinality({ t \in DOMAIN offset : t <= s }) = st }
    IN IF ranked = {} THEN 0 ELSE offset[CHOOSE s \in ranked : TRUE]

\* offset_pts_a: the values in the order of their keys, one per stream index.
OffsetOf(st) ==
    LET ranked == { s \in DOMAIN offset :
                      Cardinality({ t \in DOMAIN offset : t < s }) = st }
    IN IF ranked = {} THEN 0 ELSE offset[CHOOSE s \in ranked : TRUE]

Write ==
    /\ pc = "write"
    /\ LET p == input[read]
           c == CountUp(cc[p.st])
       IN /\ out' = Append(out, [pkt |-> read, pts |-> p.pts + OffsetOf(p.st), cc |-> c])
          /\ cc' = [cc EXCEPT ![p.st] = c]
    /\ GoTo("read")
    /\ UNCHANGED <<args, count, read, asked, exc, faults>>

\* Of the loop's writes, or of the trailer.
WriteFails ==
    /\ pc \in {"write", "trailer"} /\ Fail
    /\ NoRaise \/ Raises("write")
    /\ UNCHANGED <<args, copy>>

WriteTrailer ==
    /\ pc = "trailer" /\ GoTo("exit") /\ NoRaise
    /\ UNCHANGED <<args, copy>>

\* Slip: an exception counts only with an error result, as in marm_error.
ReturnByResult ==
    /\ pc = "exit" /\ pc' = "done"
    /\ outcome' = IF res = "ok" THEN "returns" ELSE IF exc THEN "raises" ELSE "marm_error"
    /\ UNCHANGED <<args, copy, exc, faults, res>>

\* Back in Cython: a pending exception is raised first, then the result counts.
Return ==
    /\ pc = "exit" /\ pc' = "done"
    /\ outcome' = IF exc THEN "raises" ELSE IF res # "ok" THEN "marm_error" ELSE "returns"
    /\ UNCHANGED <<args, copy, exc, faults, res>>

Next == \/ OpenFails \/ Open \/ Read \/ ReadEnds \/ Filter
        \/ Write \/ WriteFails \/ WriteTrailer \/ Return

Spec == Init /\ [][Next]_vars

-----------------------------------------------------------------------------
(***************************************************************************)
(* Properties.                                                             *)
(***************************************************************************)
OutPackets == { out[i].pkt : i \in 1 .. Len(out) }

\* The i-th packet is dropped only when the filter says so; one whose filter
\* raised is kept, like every packet after a KEEP_ALL.
Dropped(i) == i <= Len(asked) /\ asked[i] \in {"drop", "drop_all"}

\* What is copied is what the filter keeps, in order, and the filter is asked about
\* each packet once, until it answers KEEP_ALL or DROP_ALL.  FrameRange keeps exactly
\* the packets b to e of its stream, counted from 0, and all of the other streams.
CopyIsFilteredInput ==
    /\ \A i \in 1 .. Len(out) - 1 : out[i].pkt < out[i + 1].pkt
    /\ OutPackets \subseteq { i \in 1 .. read : ~Dropped(i) }
    /\ \A i \in DOMAIN asked : asked[i] \in {"keep_all", "drop_all"} => i = Len(asked)
    /\ outcome = "returns" =>
         /\ OutPackets = { i \in 1 .. read : ~Dropped(i) }
         /\ read < Len(input) => asked[read] = "drop_all"
    /\ outcome = "returns" /\ filter.kind = "range" =>
         LET Number(i) == Cardinality({ j \in 1 .. i - 1 : input[j].st = filter.st })
         IN OutPackets = { i \in 1 .. Len(input) :
               input[i].st = filter.st => Number(i) \in filter.b .. filter.e }

\* Offsets given for streams 0, 1, ... up to some stream, none left out, go to the
\* packets of their stream and leave the others alone.  (With one left out those after
\* it go to the stream before theirs.)
OffsetsReachTheirStream ==
    (\A s \in DOMAIN offset : \A t \in Streams : t < s => t \in DOMAIN offset) =>
       \A i \in 1 .. Len(out) :
          LET p == input[out[i].pkt]
          IN out[i].pts = p.pts + (IF p.st \in DOMAIN offset THEN offset[p.st] ELSE 0)

\* The counters of the copy run on from the file before it, whatever the filter
\* drops: the two can be concatenated.
CountersContinue ==
    mpegts /\ Cardinality(DOMAIN last) <= MaxCcs =>
       \A i \in 1 .. Len(out) :
          LET st == input[out[i].pkt].st
              before == { j \in 1 .. i - 1 : input[out[j].pkt].st = st }
          IN st \in DOMAIN last =>
                out[i].cc = (last[st] + Cardinality(before) + 1) % CcMod

\* An exception of the filter or of a file reaches the caller, although the C loop
\* never looks for one.
RaisesReachCaller == pc = "done" /\ faults # {} => outcome = "raises"
=============================================================================
