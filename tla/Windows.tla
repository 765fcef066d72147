------------------------------- MODULE Windows -------------------------------
(***************************************************************************)
(* Windowed, resumable transcoding, as the stitching test drives it: an    *)
(* archive is recorded part by part, and each step transcodes `size' parts *)
(* with a cursor over a window only, `lead' parts before them and `lag'    *)
(* parts after them.  Each window is cut with time_cut(align='prev'); the  *)
(* output is seamless when each cut starts where the one before stopped.   *)
(***************************************************************************)
EXTENDS TimePositions, Sequences, FiniteSets

CONSTANTS Recordings,  \* archives recorded
          Sizings      \* (lead, size, lag) triples

ASSUME RecordingsAssumption == \A a \in Recordings : IsArchive(a)
ASSUME SizingsAssumption ==
    Sizings \subseteq [lead : Nat, size : Nat \ {0}, lag : Nat]

VARIABLES recording, \* all that will ever be recorded
          total,     \* parts of it recorded so far
          sizing,
          i,         \* first part of the next step
          cuts       \* one for each step so far: [start, stop]

windows == <<recording, total, sizing, i, cuts>>

NbParts == Cardinality(recording.bounds)
\* The first packet of part k; one past the archive for the part after the last.
Bound(k) ==
    IF k = NbParts THEN recording.last + 1
    ELSE CHOOSE q \in recording.bounds : Cardinality({ r \in recording.bounds : r < q }) = k

\* The window is parts FromPart .. ToPart - 1.
FromPart == Max({0, i - sizing.lead})
ToPart == Min({total, i + sizing.size + sizing.lag})

Window ==
    LET first == Bound(FromPart)
        last == Bound(ToPart) - 1
    IN [first |-> first, last |-> last,
        secs |-> [q \in first .. last |-> recording.secs[q]],
        bounds |-> recording.bounds \cap (first .. last),
        starts |-> recording.starts \cap (first .. last),
        keys |-> recording.keys \cap (first .. last),
        video |-> recording.video]

InitWindows ==
    /\ recording \in Recordings /\ sizing \in Sizings
    /\ total = 0 /\ i = 0 /\ cuts = <<>>

Record == total < NbParts /\ total' = total + 1 /\ UNCHANGED <<recording, sizing, i, cuts>>

\* The next step has all its parts, or those there will ever be.
Ready == i < total /\ (i + sizing.size <= total \/ total = NbParts)

\* The time from the first packet of the step to the one after it, if that one is in
\* the window.
Delta ==
    LET e == Min({i + sizing.size, ToPart})
    IN IF e = ToPart THEN None ELSE Interval(recording, Bound(i), Bound(e))

CutWindow ==
    /\ Ready
    /\ LET c == Cut(Window, Bound(i), 0, Delta, "prev")
       IN cuts' = Append(cuts, [from |-> i, start |-> c.start, stop |-> c.stop])
    /\ i' = i + sizing.size
    /\ UNCHANGED <<recording, total, sizing>>

NextWindows == Record \/ CutWindow

SpecWindows == InitWindows /\ [][NextWindows]_windows

-----------------------------------------------------------------------------
(***************************************************************************)
(* Properties.                                                             *)
(***************************************************************************)
\* The window of every step is itself an archive, of the step's parts at least.
WindowsOK ==
    /\ total \in 0 .. NbParts /\ i \in Nat
    /\ \A c \in 1 .. Len(cuts) : {cuts[c].start, cuts[c].stop} \subseteq recording.first .. recording.last
    /\ Ready => /\ IsArchive(Window)
                /\ {Bound(k) : k \in i .. Min({i + sizing.size, total}) - 1} \subseteq Window.bounds

\* A frame of video begins before the last packet ahead of packet q, at or after
\* the first packet in reach of the step that begins at part k.
FrameInReach(k, q) ==
    recording.video => \E s \in recording.starts :
                        Bound(Max({0, k - sizing.lead})) <= s /\ s < q - 1

\* Part k starts at a later time than every packet of the parts from j on before it,
\* and holds more than one packet.
StartsAfresh(j, k) ==
    /\ \A q \in Bound(j) .. Bound(k) - 1 : recording.secs[q] < recording.secs[Bound(k)]
    /\ Bound(k + 1) - Bound(k) > 1

\* Every cut starts where the cut before stopped, no packet is transcoded twice and
\* none is left out, however many parts were recorded when either was made: when
\* there is a part of lead with a frame in it, and, if there is a lag, no frame runs
\* on into the next part.
WindowsMeet ==
    \A c \in 1 .. Len(cuts) - 1 :
       LET k == cuts[c + 1].from IN
       sizing.lead > 0 /\ FrameInReach(k, Bound(k))
         /\ (sizing.lag > 0 => StartsAfresh(cuts[c].from, k))
       => cuts[c].stop = cuts[c + 1].start
=============================================================================
