---------------------------- MODULE MCCursorScan -----------------------------
(***************************************************************************)
(* CursorScan on archives of NbParts parts with at most MaxPkts packets.   *)
(***************************************************************************)
EXTENDS CursorScan

CONSTANT MaxPkts

\* Any parts, one of them torn at most; a torn part lists at least the packet that
\* is torn.
SomeArchives ==
    { a \in [npkts : [Parts -> 0 .. MaxPkts],
             torn : {{}} \cup { {p} : p \in Parts }] :
        \A p \in a.torn : a.npkts[p] > 0 }

\* The client's own seeks go to packets that may or may not be there.
SomeTargets == Parts \X (0 .. MaxPkts - 1)
SomeStops == Parts \X (-1 .. MaxPkts - 1)

\* Key frames: none, the first packet of every part, the last slot of some part.
SomeMatchSets == { {}, { <<p, 0>> : p \in Parts } } \cup { { <<p, MaxPkts - 1>> } : p \in Parts }

SomeCounts == {-2, 1, 3}
NoOffsets == {}
=============================================================================
