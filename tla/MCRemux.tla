------------------------------- MODULE MCRemux -------------------------------
(***************************************************************************)
(* Remux, after a Scan of the file before, with every order of at most     *)
(* MaxPackets packets of two streams.                                      *)
(***************************************************************************)
EXTENDS Scan, SequencesExt

CONSTANT MaxPackets

AllInputs == BoundedSeq([st : Streams, pts : {5}], MaxPackets)

\* Ranges that start at, or after, the first packet and end at it, later or never.
AllFilters ==
    { [kind |-> k, st |-> 0, b |-> 0, e |-> 0] : k \in {"none", "any"} }
      \cup [kind : {"range"}, st : Streams, b : {0, 1}, e : {0, 1, MaxPackets}]

\* None, both streams, one stream only.
SomeOffsets == UNION { [S -> {2, -1}] : S \in {{}, {0}, {1}, {0, 1}} }

\* Files of no packets, of one stream, of both; counters that wrap.
P(s, c) == [st |-> s, cc |-> c]
SomeBefores ==
    { <<>>, <<P(1, 0)>>, <<P(0, 2), P(1, 1), P(0, 0)>> }

NoCcs == {<<>>}
=============================================================================
