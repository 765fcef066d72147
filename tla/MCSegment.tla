------------------------------ MODULE MCSegment ------------------------------
(***************************************************************************)
(* Segment with every input of at most MaxPackets packets; only packets of *)
(* the reference stream have timestamps that matter.                       *)
(***************************************************************************)
EXTENDS Segment, SequencesExt

CONSTANTS MaxPackets, MaxPts

RefPackets == [st : {0}, key : BOOLEAN, pts : 0 .. MaxPts]
OtherPackets == [st : {1}, key : BOOLEAN, pts : {0}]

AllInputs == [video : {{0}, {1}}, pkts : BoundedSeq(RefPackets \cup OtherPackets, MaxPackets)]

\* No counters given, or those of stream 1 about to wrap.
SomeCcs == {<<>>, [st \in {1} |-> CcMod - 2]}
=============================================================================
