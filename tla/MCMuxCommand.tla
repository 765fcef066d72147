---------------------------- MODULE MCMuxCommand ----------------------------
(***************************************************************************)
(* VideoFrames over what is received of NbFrames frames of two packets,    *)
(* any of which may be lost, with any of them key frames; and the mux      *)
(* command on up to MaxArchives archives: without packets, with a key      *)
(* frame and another, that begin inside a frame, that are cut short, that  *)
(* restart their times.                                                    *)
(***************************************************************************)
EXTENDS MuxCommand

CONSTANTS NbFrames, MaxArchives, MaxRaise

Sent(keys) ==
    [i \in 1 .. 2 * NbFrames |->
       LET f == (i + 1) \div 2
       IN [frame |-> f, start |-> i % 2 = 1, key |-> f \in keys]]

Received(sent, lost) ==
    FoldLeft(LAMBDA s, i : IF i \in lost THEN s ELSE Append(s, sent[i]),
             <<>>, [i \in DOMAIN sent |-> i])

AllInputs ==
    { [pkts |-> Received(Sent(keys), lost), raises |-> r] :
        keys \in SUBSET (1 .. NbFrames), lost \in SUBSET (1 .. 2 * NbFrames), r \in 1 .. MaxRaise }

P(f, s, k) == [frame |-> f, start |-> s, key |-> k]
Whole(pkts) == [pkts |-> pkts, cut |-> FALSE]
Cut(pkts) == [pkts |-> pkts, cut |-> TRUE]

SomeArchives ==
    { Whole(<<>>), Cut(<<>>),
      Whole(<<P(1, TRUE, TRUE), P(1, FALSE, FALSE), P(2, TRUE, FALSE)>>),
      Whole(<<P(2, FALSE, FALSE), P(4, TRUE, FALSE), P(5, TRUE, TRUE)>>),
      Cut(<<P(1, TRUE, FALSE), P(7, TRUE, TRUE)>>) }

AllCommands ==
    [types : { <<"video">>, <<"audio">>, <<"video", "audio">>, <<"audio", "video">>,
               <<"video", "video">>, <<"video", "audio", "audio">> },
     order : {"concat", "interleave"},
     archives : { s \in BoundedSeq(SomeArchives, MaxArchives) : IsInjective(s) },
     offset : {-1, 0, 1, 2}, window : 1 .. 3]
=============================================================================
