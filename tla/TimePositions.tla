--------------------------- MODULE TimePositions ---------------------------
(***************************************************************************)
(* RTPCursor.time_cut and time_slice: from times, in seconds relative to   *)
(* the packet the cursor stands on, to positions of packets.               *)
(*                                                                         *)
(* Over parts that are neither empty nor torn the cursor is the tape of    *)
(* PacketTape (theorem CursorImplementsTape): a position is the number of  *)
(* a packet and steps go to the neighbour, except that a step forward from *)
(* a part that is not open leaves the part.  The packets' times (pkt.secs) *)
(* are those of RTP: equal within a frame, and not always increasing.      *)
(***************************************************************************)
EXTENDS Integers, FiniteSetsExt

CONSTANT None      \* end_secs=None: up to the end

ASSUME NoneAssumption == None \notin Int

Aligns == {"no", "yes", "prev"}     \* align=False, True and "prev"

\* The packets first .. last of an archive: their times, those that start a part
\* of the archive, those that start a frame and, of these, a key frame; frames span
\* packets in video only.
IsArchive(a) ==
    /\ a.first \in Nat /\ a.last \in Nat /\ a.first <= a.last
    /\ a.secs \in [a.first .. a.last -> Int]
    /\ a.bounds \subseteq a.first .. a.last /\ a.first \in a.bounds
    /\ a.keys \subseteq a.starts /\ a.starts \subseteq a.first .. a.last
    /\ a.video \in BOOLEAN

PartOf(a, p) == Max({ q \in a.bounds : q <= p })

\* Slip: ahead by more than asked for.
AheadBeyond(a, p, d) ==
    LET hits == { q \in p + 1 .. a.last : a.secs[q] - a.secs[p] > d }
    IN IF hits = {} THEN a.last ELSE Min(hits)

\* Where a search for a packet d ahead, or behind, of packet p ends: at the first
\* that is, or at the last, or first, packet of the archive.
AheadBy(a, p, d) ==
    LET hits == { q \in p + 1 .. a.last : a.secs[q] - a.secs[p] >= d }
    IN IF hits = {} THEN a.last ELSE Min(hits)

BehindBy(a, p, d) ==
    LET hits == { q \in a.first .. p - 1 : a.secs[p] - a.secs[q] >= d }
    IN IF hits = {} THEN a.first ELSE Max(hits)

\* fastforward(d): the packet reached and what it returns, the time moved beyond d.
\* For a negative d both are rewind's, which measures its time backward.
FastForward(a, p, d) ==
    LET q == IF d = 0 THEN p ELSE IF d > 0 THEN AheadBy(a, p, d) ELSE BehindBy(a, p, -d)
    IN [pos |-> q, dt |-> CASE d = 0 -> 0
                            [] d > 0 -> (a.secs[q] - a.secs[p]) - d
                            [] OTHER -> (a.secs[p] - a.secs[q]) - (-d)]

\* interval(q) at packet p.
Interval(a, p, q) == a.secs[q] - a.secs[p]

\* prev_start_of_frame and next_key_frame: never the packet the cursor stands on.
\* From a part that is not open the way forward starts at the next part, if any.
PrevStart(a, p) ==
    LET hits == { q \in a.starts : q < p }
    IN IF hits = {} THEN a.first ELSE Max(hits)

NextKey(a, p, opened) ==
    LET later == { q \in a.bounds : p < q }
        from == IF opened \/ later = {} THEN p + 1 ELSE Min(later)
        hits == { q \in a.keys : from <= q }
    IN IF hits = {} THEN a.last ELSE Min(hits)

\* prev_to(p): one packet before p, unless p is the first.
PrevTo(a, p) == IF p = a.first THEN p ELSE p - 1

(***************************************************************************)
(* time_cut                                                                *)
(***************************************************************************)
\* Alignment of the begin: "prev" leaves the first packet alone ...
AlignStart(a, p, align) ==
    CASE align = "no" -> p
      [] align = "yes" -> IF a.video THEN PrevStart(a, p) ELSE p
      [] align = "prev" ->
           IF p = a.first THEN p
           ELSE IF a.video THEN PrevStart(a, PrevTo(a, p)) ELSE PrevTo(a, p)

\* Slip: no step back before aligning.
AlignStopHere(a, p, align) == IF align # "no" /\ a.video THEN PrevStart(a, p) ELSE p

\* ... and of the end: it does not move back from the last packet first.
AlignStop(a, p, align) ==
    CASE align = "no" -> p
      [] align = "yes" -> IF a.video THEN PrevStart(a, p) ELSE p
      [] align = "prev" ->
           LET q == IF p = a.last THEN p ELSE PrevTo(a, p)
           IN IF a.video THEN PrevStart(a, q) ELSE q

\* Slip: the time alignment adds is forgotten.
CutUnadjusted(a, org, b, e, align) ==
    LET f == FastForward(a, org, b)
        end == IF e = None THEN Interval(a, org, a.last) ELSE e
        t == IF e = None THEN [pos |-> a.last, dt |-> 0] ELSE FastForward(a, org, e)
        start == AlignStart(a, f.pos, align)
        stop == AlignStop(a, t.pos, align)
    IN [start |-> start, stop |-> stop, start_secs |-> b + f.dt, stop_secs |-> end + t.dt]

Cut(a, org, b, e, align) ==
    LET f == FastForward(a, org, b)
        end == IF e = None THEN Interval(a, org, a.last) ELSE e
        t == IF e = None THEN [pos |-> a.last, dt |-> 0] ELSE FastForward(a, org, e)
        start == AlignStart(a, f.pos, align)
        stop == AlignStop(a, t.pos, align)
    IN [start |-> start, stop |-> stop,
        start_secs |-> b + f.dt + Interval(a, f.pos, start),
        stop_secs |-> end + t.dt + Interval(a, t.pos, stop)]

(***************************************************************************)
(* time_slice: forward to a key frame, and backward at the end.  Only a    *)
(* begin other than 0 opens the part the cursor stands in.                 *)
(***************************************************************************)
\* Slip: the begin is aligned to any frame.
SliceFromFrame(a, org, b, e, align, opened) ==
    LET begin == FastForward(a, org, b).pos
        secs == IF e = None THEN Interval(a, org, a.last) ELSE e
        end == FastForward(a, org, secs).pos
        start == IF align /\ a.video THEN PrevStart(a, begin) ELSE begin
        stop == IF align /\ a.video THEN PrevStart(a, end) ELSE end
    IN [start |-> start, stop |-> stop,
        start_secs |-> b + Interval(a, begin, start),
        stop_secs |-> secs + Interval(a, stop, end)]

Slice(a, org, b, e, align, opened) ==
    LET begin == FastForward(a, org, b).pos
        secs == IF e = None THEN Interval(a, org, a.last) ELSE e
        end == FastForward(a, org, secs).pos
        start == IF align /\ a.video THEN NextKey(a, begin, opened \/ b # 0) ELSE begin
        stop == IF align /\ a.video THEN PrevStart(a, end) ELSE end
    IN [start |-> start, stop |-> stop,
        start_secs |-> b + Interval(a, begin, start),
        stop_secs |-> secs + Interval(a, stop, end)]
=============================================================================
