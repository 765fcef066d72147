------------------------------- MODULE MpegTs --------------------------------
(***************************************************************************)
(* MPEG-TS continuity counters (mpegts.c).  The muxer counts the packets   *)
(* of every stream modulo CcMod (16) and advances a counter before it      *)
(* writes a packet.  The last counters of one file, loaded by scan.c, are  *)
(* set in the muxer of the next one, so that the two can be concatenated.  *)
(*                                                                         *)
(* One transport packet per packet of a stream; the tables (PAT, SDT, PMT) *)
(* are treated like one more stream each by the code and left out.         *)
(***************************************************************************)
EXTENDS Integers, FiniteSets

Streams == {0, 1}

CONSTANTS CcMod,    \* 16 in the format
          Ccs,      \* counters a caller passes: functions on some streams
          MaxCcs    \* entries load_mpegts_ccs has room for, 32 in ext.pyx

Counter == 0 .. CcMod - 1

ASSUME CcModAssumption == CcMod \in Nat \ {0}
ASSUME CcsAssumption == Ccs \subseteq UNION { [S -> Counter] : S \in SUBSET Streams }
ASSUME MaxCcsAssumption == MaxCcs \in Nat

\* mpegts_write_header: the first packet of every stream gets counter 0.
HeaderCcs == [st \in Streams |-> CcMod - 1]

\* reset_mpegts_ccs: given counters replace the muxer's, other streams keep theirs.
ResetCcs(cc, given) ==
    [st \in Streams |-> IF st \in DOMAIN given THEN given[st] ELSE cc[st]]

CountUp(c) == (c + 1) % CcMod

\* load_mpegts_ccs: the last counters seen, of the lowest pids when there are more
\* than fit.
LoadCcs(last) ==
    LET Fits(st) == Cardinality({ s \in DOMAIN last : s < st }) < MaxCcs
    IN [st \in { s \in DOMAIN last : Fits(s) } |-> last[st]]
=============================================================================
