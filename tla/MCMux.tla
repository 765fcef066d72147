-------------------------------- MODULE MCMux --------------------------------
(***************************************************************************)
(* Mux with every pair of sources of at most MaxPackets packets.           *)
(***************************************************************************)
EXTENDS Mux

CONSTANTS MaxPackets, MaxPts

AllInputs == [Streams -> BoundedSeq(0 .. MaxPts, MaxPackets)]

\* Ticks of 3 and 5, in a container that counts in 4s and 8s: two packets of one source
\* can get the same timestamp, and the earlier packet can have the larger one.
MCTick == [st \in Streams |-> IF st = "v" THEN 3 ELSE 5]
MCStreamTick == [st \in Streams |-> IF st = "v" THEN 4 ELSE 8]
=============================================================================
