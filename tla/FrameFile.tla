------------------------------ MODULE FrameFile ------------------------------
(***************************************************************************)
(* Files of frames, as gen.c writes them and frame.py reads them: a header *)
(* of two strings and a profile, then for each frame pts, flags, size and  *)
(* data.  A file is modelled by its fields that are whole, in the order    *)
(* they are written: one that is cut short reads like one that is missing. *)
(***************************************************************************)
EXTENDS Integers, SequencesExt

\* The header's fields have pts -1, those of a frame that frame's.
Header == [i \in 1 .. 5 |-> [is |-> <<"type length", "type", "name length", "name", "profile">>[i],
                             pts |-> -1]]
Frame(pts, raw) ==
    IF raw THEN << [is |-> "data", pts |-> pts] >>
    ELSE [i \in 1 .. 4 |-> [is |-> <<"pts", "flags", "size", "data">>[i], pts |-> pts]]

\* read_header: two strings and a struct, each of which raises when it is not there.
HeaderReads(f) == Len(f) >= Len(Header)

\* Frame.unpack of frame k after `from` fields: pts, flags and size are read together.
Whole(f, from, k) == from + 4 * k <= Len(f)
Message(f, from, k) == IF Whole(f, from, k) THEN "none" ELSE "Failed to read"

IsEof(message) == message = "Failed to read" \/ message # "Failed to seek"

\* read_frames: the frames up to the first error, and whether that error gets out.
NbRead(f, from) == IF Len(f) < from THEN 0 ELSE (Len(f) - from) \div 4
ReadFrames(f, from) == [k \in 1 .. NbRead(f, from) |-> f[from + 4 * k].pts]
ReadRaises(f, from) == ~IsEof(Message(f, from, NbRead(f, from) + 1))

\* Slip: a frame at the time of the one before is taken for a later one.
MonotonicEqual(pts) ==
    FoldLeft(LAMBDA s, p :
                IF s.out = <<>> THEN [s EXCEPT !.out = <<p>>]
                ELSE LET last == s.out[Len(s.out)]
                     IN IF p < last THEN [s EXCEPT !.out = Append(@, last + s.delta)]
                        ELSE [out |-> Append(s.out, p), delta |-> p - last],
             [out |-> <<>>, delta |-> 1], pts).out

\* monotonic(): a frame that does not come after the one before is put after it, as
\* far as the last two were apart that did.
Monotonic(pts) ==
    FoldLeft(LAMBDA s, p :
                IF s.out = <<>> THEN [s EXCEPT !.out = <<p>>]
                ELSE LET last == s.out[Len(s.out)]
                     IN IF p <= last THEN [s EXCEPT !.out = Append(@, last + s.delta)]
                        ELSE [out |-> Append(s.out, p), delta |-> p - last],
             [out |-> <<>>, delta |-> 1], pts).out
=============================================================================
