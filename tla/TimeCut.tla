------------------------------- MODULE TimeCut -------------------------------
(***************************************************************************)
(* A cursor whose caller asks for cuts and slices by time.  A call's       *)
(* result depends on the archive, the position and whether the part there  *)
(* is open, so between two calls the caller goes somewhere else.           *)
(***************************************************************************)
EXTENDS TimePositions

CONSTANTS Archives,    \* archives considered
          Begins,      \* begin_secs and
          Ends         \* end_secs a caller passes

ASSUME ArchivesAssumption == \A a \in Archives : IsArchive(a)
ASSUME TimesAssumption == Begins \subseteq Int /\ Ends \subseteq Int \cup {None}

VARIABLES archive,
          pos,      \* tell()
          opened,   \* the part there is open
          call      \* the last call: its arguments, where it started, its result

vars == <<archive, pos, opened, call>>

Packets == archive.first .. archive.last

NoCall == [op |-> "none", org |-> 0, opened |-> FALSE, b |-> 0, e |-> 0, align |-> "no",
           res |-> [start |-> 0, stop |-> 0, start_secs |-> 0, stop_secs |-> 0]]

Init == archive \in Archives /\ pos = archive.first /\ opened = FALSE /\ call = NoCall

InRange(q) == archive.first <= q /\ q <= archive.last

\* seek(q) closes the part it leaves, also when it stays in it.
Seek(q) ==
    /\ InRange(q)
    /\ pos' = q
    /\ opened' = IF q = pos THEN opened ELSE PartOf(archive, q) # PartOf(archive, pos)
    /\ call' = NoCall
    /\ UNCHANGED archive

Current == opened' = TRUE /\ call' = NoCall /\ UNCHANGED <<archive, pos>>

\* time_cut leaves the cursor at its end.
TimeCut(b, e, align) ==
    LET res == Cut(archive, pos, b, e, align)
    IN /\ call.op = "none"
       /\ call' = [op |-> "cut", org |-> pos, opened |-> opened,
                   b |-> b, e |-> e, align |-> align, res |-> res]
       /\ pos' = res.stop /\ opened' = TRUE
       /\ UNCHANGED archive

\* time_slice leaves it at the end before alignment; the slice handed out seeks
\* when it is used.
SliceEnd(b, e) ==
    FastForward(archive, pos, IF e = None THEN Interval(archive, pos, archive.last) ELSE e).pos

TimeSlice(b, e, align) ==
    LET res == Slice(archive, pos, b, e, align = "yes", opened)
    IN /\ call.op = "none"
       /\ call' = [op |-> "slice", org |-> pos, opened |-> opened,
                   b |-> b, e |-> e, align |-> align, res |-> res]
       /\ pos' = SliceEnd(b, e) /\ opened' = TRUE
       /\ UNCHANGED archive

Next ==
    \/ \E q \in archive.first - 1 .. archive.last + 1 : Seek(q)
    \/ Current
    \/ \E b \in Begins, e \in Ends :
          \/ \E align \in Aligns : TimeCut(b, e, align)
          \/ \E align \in {"no", "yes"} : TimeSlice(b, e, align)

Spec == Init /\ [][Next]_vars

-----------------------------------------------------------------------------
(***************************************************************************)
(* Properties.                                                             *)
(***************************************************************************)
\* The cursor, and every position a call returned, is a packet of the archive:
\* time_cut and time_slice never move off either end.
TypeOK ==
    /\ pos \in Packets /\ opened \in BOOLEAN
    /\ call.op # "none" => call.res.start \in Packets /\ call.res.stop \in Packets

Time(q) == archive.secs[q] - archive.secs[call.org]     \* of a packet, for the caller
Sorted == \A p, q \in Packets : p < q => archive.secs[p] <= archive.secs[q]

\* The offsets an aligned time_cut returns are the times of the positions it returns,
\* after overshooting and alignment, also when the packets' times are out of order: of
\* a begin and of an end that are not before the cursor.
OffsetsAreExact ==
    call.op = "cut" /\ call.align # "no" =>
       /\ call.b >= 0 => call.res.start_secs = Time(call.res.start)
       /\ call.e = None \/ call.e >= 0 => call.res.stop_secs = Time(call.res.stop)

\* What time_cut's documentation says of an unaligned cut (rtp.py:629, 631): its offsets
\* are the ones it was given.
OffsetsAreGiven ==
    call.op = "cut" /\ call.align = "no" =>
       /\ call.res.start_secs = call.b
       /\ call.e # None => call.res.stop_secs = call.e

\* An unaligned time_cut holds exactly the packets in its range of time, except the
\* last packet of the archive.  The ends of an aligned one of video start a frame,
\* unless there is none before: no frame is cut in two.
CutIsTimeRange ==
    call.op = "cut" =>
       /\ call.align = "no" /\ call.b >= 0 /\ Sorted =>
             call.res.start .. call.res.stop - 1 =
                { q \in call.org .. archive.last - 1 :
                    call.b <= Time(q) /\ (call.e = None \/ Time(q) < call.e) }
       /\ call.align # "no" /\ archive.video =>
             \A q \in {call.res.start, call.res.stop} : q \in archive.starts \cup {archive.first}

\* An aligned time_slice of video runs forward from a key frame up to the start of a
\* frame whenever a key frame follows the begin before the end, and the cursor has
\* read from the part it begins in.
SliceIsDecodable ==
    call.op = "slice" /\ call.align = "yes" /\ archive.video /\ (call.opened \/ call.b # 0) =>
       LET begin == FastForward(archive, call.org, call.b).pos
       IN (\E k \in archive.keys : begin < k /\ k < pos) =>
             /\ call.res.start \in archive.keys
             /\ call.res.stop \in archive.starts
             /\ call.res.start <= call.res.stop
=============================================================================
