--------------------------------- MODULE Scan ---------------------------------
(***************************************************************************)
(* frame.last_mpegts_ccs, and the copy that goes on from what it returns:  *)
(* the file before is read to its end by marm_scan, its last counters are  *)
(* loaded, and remux() makes the file that is appended to it.              *)
(*                                                                         *)
(* This is how windows are joined: each is remuxed with a range, to follow *)
(* on the one before.                                                      *)
(*                                                                         *)
(* The loop of marm_scan ends at the first read that fails, whatever the   *)
(* reason, and its result is success.  An exception of in_file.read is     *)
(* raised by the binding all the same; an error of libav is not seen.      *)
(*                                                                         *)
(* A stream the tables name that has no packet is reported with -1, which  *)
(* counts up to 0 as the header's counters do: it is left out of last.     *)
(***************************************************************************)
EXTENDS Remux

CONSTANT Befores    \* files a copy is appended to

\* Packets of a stream that follow each other are one apart.
Continuous(f) ==
    \A j \in DOMAIN f : \A i \in 1 .. j - 1 :
       f[i].st = f[j].st /\ (\A k \in i + 1 .. j - 1 : f[k].st # f[j].st) =>
          f[j].cc = CountUp(f[i].cc)

ASSUME BeforesAssumption ==
    Befores \subseteq { f \in Seq([st : Streams, cc : Counter]) : Continuous(f) }

VARIABLES before,   \* the file scanned
          seen,     \* its packets the demuxer has read
          stage     \* "scan", "copy", "raised"

scan == <<before, seen, stage>>
allvars == <<vars, scan>>

InitScan ==
    /\ Init /\ last = <<>>
    /\ before \in Befores /\ seen = 0 /\ stage = "scan"

\* av_read_frame: the demuxer keeps the last counter of each stream.
ScanRead ==
    /\ stage = "scan" /\ seen < Len(before)
    /\ seen' = seen + 1
    /\ LET p == before[seen + 1]
       IN last' = [st \in DOMAIN last \cup {p.st} |-> IF st = p.st THEN p.cc ELSE last[st]]
    /\ UNCHANGED <<input, filter, offset, mpegts, copy, exc, faults, pc, res, outcome>>
    /\ UNCHANGED <<before, stage>>

\* The end of the file, or what the loop takes for it.
ScanReturns == stage = "scan" /\ stage' = "copy" /\ UNCHANGED <<vars, before, seen>>

\* The input cannot be opened, or in_file.read raises: the caller has no counters, and
\* makes no copy.
ScanRaises == stage = "scan" /\ stage' = "raised" /\ UNCHANGED <<vars, before, seen>>

Copy == stage = "copy" /\ Next /\ UNCHANGED scan

SpecScan == InitScan /\ [][ScanRead \/ ScanReturns \/ ScanRaises \/ Copy]_allvars

-----------------------------------------------------------------------------
(***************************************************************************)
(* Properties.                                                             *)
(***************************************************************************)
Appended == before \o [i \in 1 .. Len(out) |-> [st |-> input[out[i].pkt].st, cc |-> out[i].cc]]

\* A file that was scanned to its end and the copy made after it are, one after the
\* other, as continuous as the file was, whatever the filter drops: no receiver takes
\* the cut for a loss.
ConcatenationContinues ==
    stage = "copy" /\ mpegts /\ seen = Len(before) /\ Cardinality(DOMAIN last) <= MaxCcs =>
       Continuous(Appended)
===============================================================================
