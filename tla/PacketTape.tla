----------------------------- MODULE PacketTape -----------------------------
(***************************************************************************)
(* What a cursor over an archive promises its caller: one tape of packets. *)
(* The archive is a list of parts, part p holds npkts[p] packets, and a    *)
(* position is a pair <<part, packet>>.  The tape orders the positions of  *)
(* all parts as if they were one file; the caller reads at the head, steps *)
(* to the neighbouring packet in either direction, or goes anywhere.  No   *)
(* part boundary, file handle or index is visible here.                    *)
(***************************************************************************)
EXTENDS Integers

CONSTANT NbParts
VARIABLES npkts,    \* packets of each part; the archive does not change
          head,     \* the position the caller stands on
          got       \* the packet the last call returned, or NoPacket or EndOfTape

vars == <<npkts, head, got>>

Parts == 0 .. NbParts - 1
NoPacket == <<-1, -1>>       \* the call returned no packet
EndOfTape == <<-2, -2>>      \* the call reported that the tape ends here

IsPosition(p) == p[1] \in Parts /\ p[2] \in 0 .. npkts[p[1]] - 1

Before(p, q) == p[1] < q[1] \/ (p[1] = q[1] /\ p[2] < q[2])

\* p is before q and no packet of the archive lies in between.
Adjacent(p, q) ==
    /\ Before(p, q)
    /\ \A j \in Parts : \A k \in 0 .. npkts[j] - 1 :
          ~(Before(p, <<j, k>>) /\ Before(<<j, k>>, q))

IsLastPacket(p) ==
    \A j \in Parts : \A k \in 0 .. npkts[j] - 1 : ~Before(p, <<j, k>>)
IsFirstPacket(p) ==
    \A j \in Parts : \A k \in 0 .. npkts[j] - 1 : ~Before(<<j, k>>, p)

Init == head = <<0, 0>> /\ got = NoPacket

Read == got' = head /\ UNCHANGED <<npkts, head>>

Forward ==
    /\ \/ IsPosition(head') /\ Adjacent(head, head') /\ got' = head'
       \/ IsLastPacket(head) /\ head' = head /\ got' = EndOfTape
    /\ UNCHANGED npkts

Back ==
    /\ \/ IsPosition(head') /\ Adjacent(head', head) /\ got' = head'
       \/ IsFirstPacket(head) /\ head' = head /\ got' = EndOfTape
    /\ UNCHANGED npkts

GoTo == IsPosition(head') /\ got' = NoPacket /\ UNCHANGED npkts

Next == Read \/ Forward \/ Back \/ GoTo

Spec == Init /\ [][Next]_vars
=============================================================================
