------------------------------- MODULE MCSplit -------------------------------
(***************************************************************************)
(* Split on archives of up to MaxPackets packets at times out of           *)
(* 0 .. MaxSecs in any order, with and without each of the limits.         *)
(***************************************************************************)
EXTENDS Split

CONSTANTS MaxPackets, MaxSecs

AllInputs == BoundedSeq(0 .. MaxSecs, MaxPackets)

AllLimits == [duration : {0, 1, 2, None}, count : {1, 2, 3, None}]
OneByOne == [duration : {None}, count : {1}]
=============================================================================
