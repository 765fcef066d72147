------------------------------- MODULE MCTimes -------------------------------
(***************************************************************************)
(* TimeCut and Windows, for the two kinds of caller of time_cut: one goes   *)
(* about an archive with a cursor of its own, the other cuts a recording   *)
(* window by window.  They share no state: a behaviour is of one of them.  *)
(*                                                                         *)
(* TimeCut is on archives of up to MaxCutPackets packets in at most two    *)
(* parts, at times out of 0 .. MaxSecs in any order, with every choice of  *)
(* frame starts, one of them at most of a key frame: a slice looks for the *)
(* next one only.  Only differences of times matter: the first is fixed in *)
(* the middle, at 1.                                                       *)
(*                                                                         *)
(* Windows is over recordings of up to MaxParts parts and MaxPackets       *)
(* packets, at non-decreasing times with at most one second between        *)
(* neighbours, and every choice of frame starts.                           *)
(***************************************************************************)
EXTENDS TimeCut, Windows

CONSTANTS MaxCutPackets, MaxSecs, MaxParts, MaxPackets

VARIABLE caller     \* "cursor" or "windows"

-----------------------------------------------------------------------------
Starts(n) ==
    { sk \in (SUBSET (1 .. n)) \X ({ {q} : q \in 1 .. n } \cup { {} }) : sk[2] \subseteq sk[1] }

AnyTimes(n) == { t \in [1 .. n -> 0 .. MaxSecs] : t[1] = 1 }

CutArchivesOf(n) ==
    { [first |-> 1, last |-> n, secs |-> t, bounds |-> b,
       starts |-> s[1], keys |-> s[2], video |-> TRUE] :
         t \in AnyTimes(n), b \in { {1, q} : q \in 1 .. n }, s \in Starts(n) }
    \cup { [first |-> 1, last |-> n, secs |-> t, bounds |-> {1},
            starts |-> {}, keys |-> {}, video |-> FALSE] : t \in AnyTimes(n) }

AllArchives == UNION { CutArchivesOf(n) : n \in 1 .. MaxCutPackets }

SomeBegins == -1 .. 1
SomeEnds == {-1, 0, 1, 2, None}

-----------------------------------------------------------------------------
\* The times of n packets: s is the set of those that are later than the one before.
RisingTimes(n, s) == [q \in 1 .. n |-> Cardinality(s \cap (1 .. q))]

RecordingsOf(n) ==
    { [first |-> 1, last |-> n, secs |-> RisingTimes(n, s), bounds |-> b,
       starts |-> f, keys |-> {}, video |-> v] :
         s \in SUBSET (2 .. n), f \in SUBSET (1 .. n), v \in BOOLEAN,
         b \in { {1} \cup p : p \in UNION { kSubset(m, 2 .. n) : m \in 0 .. MaxParts - 1 } } }

AllRecordings ==
    { a \in UNION { RecordingsOf(n) : n \in 1 .. MaxPackets } : ~a.video => a.starts = {} }

SomeSizings == [lead : {0, 1, 2}, size : {1, 2}, lag : {0, 1}]

-----------------------------------------------------------------------------
\* The one that is not there stands still, on an archive of one packet.
Single == [first |-> 1, last |-> 1, secs |-> [q \in 1 .. 1 |-> 0], bounds |-> {1},
           starts |-> {}, keys |-> {}, video |-> FALSE]

InitTimes ==
    \/ /\ caller = "cursor" /\ Init
       /\ recording = Single /\ sizing = [lead |-> 0, size |-> 1, lag |-> 0]
       /\ total = 0 /\ i = 0 /\ cuts = <<>>
    \/ /\ caller = "windows" /\ InitWindows
       /\ archive = Single /\ pos = 1 /\ opened = FALSE /\ call = NoCall

NextTimes ==
    /\ \/ caller = "cursor" /\ Next /\ UNCHANGED windows
       \/ caller = "windows" /\ NextWindows /\ UNCHANGED vars
    /\ UNCHANGED caller

SpecTimes == InitTimes /\ [][NextTimes]_<<caller, vars, windows>>
=============================================================================
