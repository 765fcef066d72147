----------------------------- MODULE MCRTPCursor -----------------------------
(***************************************************************************)
(* RTPCursor on small archives: every way to fill NbParts parts with at    *)
(* most MaxPkts packets each, with or without empty parts and torn tails.  *)
(***************************************************************************)
EXTENDS RTPCursor

CONSTANTS MaxPkts, MaxOffset

\* Any archive; a torn part lists at least the packet that is torn.
AnyArchives ==
    { a \in [npkts : [Parts -> 0 .. MaxPkts], torn : SUBSET Parts] :
        \A p \in a.torn : a.npkts[p] > 0 }

\* Archives a cursor built with empty=False sees after a clean recording.
CleanArchives == [npkts : [Parts -> 1 .. MaxPkts], torn : {{}}]

\* Absolute positions in and just outside the archive, negative ones included.
AnyTargets == (-1 .. NbParts) \X (-1 .. MaxPkts)
AnyOffsets == -MaxOffset .. MaxOffset
=============================================================================
