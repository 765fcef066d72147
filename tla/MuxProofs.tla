------------------------------ MODULE MuxProofs ------------------------------
(***************************************************************************)
(* Proofs about Mux for sources of any length, any timestamps and any time *)
(* bases.                                                                  *)
(***************************************************************************)
EXTENDS Mux, FiniteSetTheorems, WellFoundedInduction, TLAPS

Written == [st : Streams, pts : Int, at : Int]

LEMMA AppendType ==
    ASSUME NEW S, NEW s \in Seq(S), NEW e \in S
    PROVE  Append(s, e) \in Seq(S)
  OBVIOUS

LEMMA ElementType ==
    ASSUME NEW S, NEW s \in Seq(S)
    PROVE  \A i \in 1 .. Len(s) : s[i] \in S
  OBVIOUS

-----------------------------------------------------------------------------
(***************************************************************************)
(* Operators.                                                              *)
(***************************************************************************)
LEMMA RescaleType ==
    ASSUME NEW st \in Streams, NEW p \in Int
    PROVE  Rescale(st, p) \in Int /\ Time(st, p) \in Int
<1>1. Tick[st] \in Nat \ {0} /\ StreamTick[st] \in Nat \ {0}
  BY TickAssumption
<1>2. p * Tick[st] \in Int
  BY <1>1
<1>3. ASSUME NEW n \in Int, NEW d \in Nat \ {0} PROVE RoundDiv(n, d) \in Int
  <2> DEFINE a == (2 * n + d) \div (2 * d)
             b == (2 * (-n) + d) \div (2 * d)
  <2>1. a \in Int /\ b \in Int
    OBVIOUS
  <2> HIDE DEF a, b
  <2>2. -b \in Int
    BY <2>1
  <2> QED
    BY <2>1, <2>2 DEF RoundDiv, a, b
<1> QED
  BY <1>1, <1>2, <1>3 DEF Rescale, Time

-----------------------------------------------------------------------------
(***************************************************************************)
(* Type correctness.                                                       *)
(***************************************************************************)
LEMMA InitType == Init => TypeOK
  BY InputsAssumption DEF Init, TypeOK, Controls, Exceptions, None, Before

\* A callback for the next packet keeps the types of what it assigns.
LEMMA NextPacketType ==
    ASSUME TypeOK, NEW st \in Streams, NextPacket(st)
    PROVE  /\ src' \in [Streams -> Seq(Int)]
           /\ pend' \in [Streams -> [has : BOOLEAN, pts : Int]]
           /\ exc' \in Exceptions
           /\ faults' \in SUBSET {"source", "file"}
<1> USE DEF TypeOK, Exceptions
<1>1. CASE src[st] # <<>> /\ pend' = [pend EXCEPT ![st] = Packet(Head(src[st]))]
           /\ src' = [src EXCEPT ![st] = Tail(@)] /\ UNCHANGED <<exc, faults>>
  <2>1. Head(src[st]) \in Int /\ Tail(src[st]) \in Seq(Int)
    BY <1>1
  <2> QED
    BY <1>1, <2>1 DEF Packet
<1>2. CASE pend' = [pend EXCEPT ![st] = None] /\ exc' \in {"none", exc} /\ UNCHANGED <<src, faults>>
  BY <1>2 DEF None
<1>3. CASE pend' = [pend EXCEPT ![st] = None] /\ src' = [src EXCEPT ![st] = <<>>]
           /\ exc' = "source" /\ faults' = faults \cup {"source"}
  BY <1>3 DEF None
<1> QED
  BY <1>1, <1>2, <1>3 DEF NextPacket

LEMMA WriteType ==
    ASSUME TypeOK, NEW st \in Streams, Write(st)
    PROVE  /\ last' \in [Streams -> [set : BOOLEAN, pts : Int]]
           /\ file' \in Seq(Written)
           /\ pc' \in Controls /\ res' \in {"ok", "aborted", "write_failed", "error"}
           /\ exc' \in Exceptions /\ faults' \in SUBSET {"source", "file"}
           /\ outcome' = outcome
<1> USE DEF TypeOK
<1> DEFINE pts == Rescale(st, pend[st].pts)
           at == Time(st, pend[st].pts)
<1>1. pts \in Int /\ at \in Int
  BY RescaleType
<1>2. [st |-> st, pts |-> pts, at |-> at] \in Written
  BY <1>1 DEF Written
<1> HIDE DEF pts, at
<1>3. last' = [last EXCEPT ![st] = At(pts)]
  BY DEF Write, pts
<1>4. last' \in [Streams -> [set : BOOLEAN, pts : Int]]
  BY <1>1, <1>3 DEF At
<1>5. file' = Append(file, [st |-> st, pts |-> pts, at |-> at]) \/ file' = file
  BY DEF Write, pts, at
<1>6. file' \in Seq(Written)
  <2> DEFINE w == [st |-> st, pts |-> pts, at |-> at]
  <2>1. w \in Written /\ file \in Seq(Written)
    BY <1>2 DEF Written
  <2> HIDE DEF w
  <2>2. file' = Append(file, w) \/ file' = file
    BY <1>5 DEF w
  <2>3. Append(file, w) \in Seq(Written)
    BY ONLY <2>1, AppendType
  <2> QED
    BY ONLY <2>1, <2>2, <2>3
<1>7. exc' \in Exceptions /\ faults' \in SUBSET {"source", "file"}
  BY DEF Write, FileFails, Exceptions
<1>8. /\ pc' \in Controls /\ res' \in {"ok", "aborted", "write_failed", "error"}
      /\ outcome' = outcome
  BY DEF Write, Exit, ReadPc, Controls
<1> QED
  BY <1>4, <1>6, <1>7, <1>8

LEMMA StepType == TypeOK /\ [Next]_vars => TypeOK'
<1> SUFFICES ASSUME TypeOK, [Next]_vars PROVE TypeOK'
  OBVIOUS
<1> USE DEF TypeOK
<1>1. CASE SetupFails \/ Setup \/ WriteHeader \/ Abort \/ LoopEnds \/ WriteTrailer \/ Return
  BY <1>1 DEF SetupFails, Setup, WriteHeader, Abort, LoopEnds, WriteTrailer, Return,
     DataUnchanged, FileFails, Exit, Controls, Exceptions
<1>2. ASSUME NEW st \in Streams, NEW here, NEW there \in Controls,
             ReadFirst(st, here, there) PROVE TypeOK'
  <2>1. CASE st \in has
    BY <1>2, <2>1, NextPacketType DEF ReadFirst
  <2>2. CASE st \notin has
    BY <1>2, <2>2 DEF ReadFirst
  <2> QED
    BY <2>1, <2>2
<1>3. ASSUME NEW st \in Streams, NEW here, ReadNext(st, here) PROVE TypeOK'
  BY <1>3, NextPacketType DEF ReadNext, Controls
<1>4. ASSUME NEW st \in Streams, Drop(st) PROVE TypeOK'
  BY <1>4 DEF Drop, DataUnchanged, ReadPc, Controls
<1>5. ASSUME NEW st \in Streams, Write(st) PROVE TypeOK'
  <2>1. UNCHANGED <<has, input, src, pend>>
    BY <1>5 DEF Write
  <2> QED
    BY <1>5, <2>1, WriteType DEF Written
<1>6. CASE UNCHANGED vars
  BY <1>6 DEF vars
<1> QED
  BY <1>1, <1>2, <1>3, <1>4, <1>5, <1>6
  DEF Next, ReadFirstVideo, ReadFirstAudio, ReadNextVideo, ReadNextAudio, Controls, Streams

\* Every reachable state is well typed.
THEOREM TypeCorrect == Spec => []TypeOK
  BY InitType, StepType, PTL DEF Spec

-----------------------------------------------------------------------------
(***************************************************************************)
(* The timestamps in the container.  Inductive because the loop remembers, *)
(* per stream, the last timestamp it handed over: no packet of the stream  *)
(* that was accepted is later.                                             *)
(***************************************************************************)
LastCovers ==
    \A st \in Streams : \A i \in 1 .. Len(file) :
       file[i].st = st => last[st].set /\ file[i].pts <= last[st].pts

PtsInv == TypeOK /\ LastCovers

LEMMA InitPts == Init => PtsInv
  BY InitType DEF Init, PtsInv, LastCovers

\* With the invariant, a packet that passes the filter is later than all before.
LEMMA FilterSuffices == PtsInv => NeverRefused
<1> SUFFICES ASSUME PtsInv, NEW st \in Streams, ~NotAfterLast(st)
             PROVE  Acceptable(st, Rescale(st, pend[st].pts))
  BY DEF NeverRefused
<1> DEFINE pts == Rescale(st, pend[st].pts)
<1>1. pts \in Int
  BY RescaleType DEF PtsInv, TypeOK
<1>2. last[st].set => ~(pts <= last[st].pts)
  BY DEF NotAfterLast
<1> HIDE DEF pts
<1>3. \A i \in 1 .. Len(file) : file[i] \in Written
  <2>1. file \in Seq(Written)
    BY DEF PtsInv, TypeOK, Written
  <2> QED
    BY ONLY <2>1, ElementType
<1>4. \A i \in 1 .. Len(file) : file[i].pts \in Int
  BY <1>3 DEF Written
<1>5. last[st].pts \in Int
  BY DEF PtsInv, TypeOK
<1>6. \A i \in 1 .. Len(file) : file[i].st = st => file[i].pts < pts
  BY <1>1, <1>2, <1>4, <1>5 DEF PtsInv, LastCovers
<1> QED
  BY <1>6 DEF Acceptable, pts

LEMMA WritePts ==
    ASSUME PtsInv, NEW st \in Streams, Write(st)
    PROVE  LastCovers'
<1> DEFINE pts == Rescale(st, pend[st].pts)
           w == [st |-> st, pts |-> pts, at |-> Time(st, pend[st].pts)]
<1>1. pts \in Int /\ w.st = st /\ w.pts = pts
  BY RescaleType DEF PtsInv, TypeOK
<1>2. last' = [last EXCEPT ![st] = At(pts)]
  BY DEF Write
<1>3. last[st].set => last[st].pts < pts
  BY <1>1 DEF Write, NotAfterLast, PtsInv, TypeOK
<1>4. file' = file \/ (Acceptable(st, pts) /\ file' = Append(file, w))
  BY DEF Write
<1> HIDE DEF pts, w
<1>5. \A s \in Streams : last'[s] = IF s = st THEN At(pts) ELSE last[s]
  BY <1>2 DEF PtsInv, TypeOK
<1>6. /\ file \in Seq(Written)
      /\ \A i \in 1 .. Len(file) : file[i] \in Written /\ file[i].pts \in Int
  <2>1. file \in Seq(Written)
    BY DEF PtsInv, TypeOK, Written
  <2>2. \A i \in 1 .. Len(file) : file[i] \in Written
    BY ONLY <2>1, ElementType
  <2> QED
    BY <2>1, <2>2 DEF Written
<1>7. ASSUME file' = file PROVE LastCovers'
  <2> SUFFICES ASSUME NEW s \in Streams, NEW i \in 1 .. Len(file), file[i].st = s
               PROVE  last'[s].set /\ file[i].pts <= last'[s].pts
    BY <1>7 DEF LastCovers
  <2>1. last[s].set /\ file[i].pts <= last[s].pts
    BY DEF PtsInv, LastCovers
  <2>2. CASE s = st
    <3>1. last[s].pts \in Int
      BY DEF PtsInv, TypeOK
    <3> QED
      BY <1>1, <1>3, <1>5, <1>6, <2>1, <2>2, <3>1 DEF At
  <2> QED
    BY <1>5, <2>1, <2>2
<1>8. ASSUME Acceptable(st, pts), file' = Append(file, w)
      PROVE  LastCovers'
  <2>1. /\ Len(file') = Len(file) + 1 /\ Len(file) \in Nat
        /\ file'[Len(file) + 1] = w
        /\ \A i \in 1 .. Len(file) : file'[i] = file[i]
    BY <1>6, <1>8
  <2>2. \A i \in 1 .. Len(file') : i \in 1 .. Len(file) \/ i = Len(file) + 1
    BY <2>1
  <2>3. \A i \in 1 .. Len(file) : file[i].st = st => file[i].pts < pts
    BY <1>8 DEF Acceptable
  <2> SUFFICES ASSUME NEW s \in Streams, NEW i \in 1 .. Len(file'), file'[i].st = s
               PROVE  last'[s].set /\ file'[i].pts <= last'[s].pts
    BY DEF LastCovers
  <2>4. CASE i = Len(file) + 1
    BY <1>1, <1>5, <2>1, <2>4 DEF At
  <2>5. CASE i \in 1 .. Len(file) /\ s = st
    BY <1>1, <1>5, <1>6, <2>1, <2>3, <2>5 DEF At, Written
  <2>6. CASE i \in 1 .. Len(file) /\ s # st
    BY <1>5, <2>1, <2>6 DEF PtsInv, LastCovers
  <2> QED
    BY <2>2, <2>4, <2>5, <2>6
<1> QED
  BY <1>4, <1>7, <1>8

LEMMA StepPts == PtsInv /\ [Next]_vars => PtsInv'
<1> SUFFICES ASSUME PtsInv, [Next]_vars PROVE PtsInv'
  OBVIOUS
<1>1. TypeOK'
  BY StepType DEF PtsInv
<1>2. ASSUME UNCHANGED <<last, file>> PROVE LastCovers'
  BY <1>2 DEF PtsInv, LastCovers
<1>3. CASE \E st \in Streams : Write(st)
  BY <1>1, <1>3, WritePts DEF PtsInv
<1>4. CASE [Next]_vars /\ ~\E st \in Streams : Write(st)
  <2>1. UNCHANGED <<last, file>>
    BY <1>4 DEF Next, SetupFails, Setup, WriteHeader, ReadFirstVideo, ReadFirstAudio,
       ReadNextVideo, ReadNextAudio, ReadFirst, ReadNext, Drop, Abort, LoopEnds,
       WriteTrailer, Return, DataUnchanged, vars
  <2> QED
    BY <1>1, <1>2, <2>1 DEF PtsInv
<1> QED
  BY <1>3, <1>4

\* The monotonic filter leaves the muxer no timestamp to refuse, although it judges
\* rounded timestamps and remembers ones the muxer did not accept.
THEOREM FilterIsEnough == Spec => []NeverRefused
  BY FilterSuffices, InitPts, StepPts, PTL DEF Spec

\* Nothing is written once an exception is pending.
THEOREM NoWriteAfterRaise == Spec => NothingWrittenAfterRaise
<1>1. [Next]_vars => [exc # "none" => file' = file]_vars
  BY DEF Next, SetupFails, Setup, WriteHeader, ReadFirstVideo, ReadFirstAudio,
     ReadNextVideo, ReadNextAudio, ReadFirst, ReadNext, Drop, Write, Turn, Abort,
     LoopEnds, WriteTrailer, Return, DataUnchanged, vars
<1> QED
  BY <1>1, PTL DEF Spec, NothingWrittenAfterRaise

-----------------------------------------------------------------------------
(***************************************************************************)
(* A normal return.  Inductive because a source without a packet read      *)
(* ahead has ended, from its first packet on, and because a file that      *)
(* raised always makes the result an error.                                *)
(***************************************************************************)
Drained(st) == ~pend[st].has => src[st] = <<>>

Finished == pc = "trailer" \/ (pc \in {"returned", "done"} /\ res = "ok")

ReturnInv ==
    /\ TypeOK
    /\ pc \notin {"returned", "done"} => res = "ok"
    /\ "file" \in faults => res # "ok"
    /\ pc \in {"first_a", "loop", "read_v", "read_a"} \/ Finished =>
          ("v" \in has => Drained("v"))
    /\ pc \in {"loop", "read_v", "read_a"} \/ Finished =>
          ("a" \in has => Drained("a"))
    /\ Finished => \A st \in Streams : ~pend[st].has
    /\ outcome = "returns" => pc = "done" /\ res = "ok"

LEMMA InitReturn == Init => ReturnInv
  BY InitType DEF Init, ReturnInv, Finished, None

LEMMA NextPacketDrains ==
    ASSUME TypeOK, NEW st \in Streams, NextPacket(st)
    PROVE  /\ Drained(st)'
           /\ \A s \in Streams \ {st} : pend'[s] = pend[s] /\ src'[s] = src[s]
           /\ "file" \in faults' => "file" \in faults
<1> USE DEF TypeOK, Drained
<1>1. CASE src[st] # <<>> /\ pend' = [pend EXCEPT ![st] = Packet(Head(src[st]))]
           /\ src' = [src EXCEPT ![st] = Tail(@)] /\ UNCHANGED <<exc, faults>>
  BY <1>1 DEF Packet
<1>2. CASE src[st] = <<>> /\ pend' = [pend EXCEPT ![st] = None] /\ exc' \in {"none", exc}
           /\ UNCHANGED <<src, faults>>
  BY <1>2 DEF None
<1>3. CASE pend' = [pend EXCEPT ![st] = None] /\ src' = [src EXCEPT ![st] = <<>>]
           /\ exc' = "source" /\ faults' = faults \cup {"source"}
  BY <1>3 DEF None
<1> QED
  BY <1>1, <1>2, <1>3 DEF NextPacket

LEMMA StepReturn == ReturnInv /\ [Next]_vars => ReturnInv'
<1> SUFFICES ASSUME ReturnInv, [Next]_vars PROVE ReturnInv'
  OBVIOUS
<1>1. TypeOK /\ TypeOK'
  BY StepType DEF ReturnInv
<1> USE <1>1 DEF ReturnInv, Finished
<1>2. CASE SetupFails \/ Setup \/ WriteHeader
  BY <1>2 DEF SetupFails, Setup, WriteHeader, DataUnchanged, FileFails, Exit, Drained
<1>3. CASE ReadFirstVideo
  <2>1. "v" \in has' => Drained("v")'
    BY <1>3, NextPacketDrains DEF ReadFirstVideo, ReadFirst, Streams
  <2>2. "file" \in faults' => "file" \in faults
    BY <1>3, NextPacketDrains DEF ReadFirstVideo, ReadFirst, Streams
  <2> QED
    BY <1>3, <2>1, <2>2 DEF ReadFirstVideo, ReadFirst
<1>4. CASE ReadFirstAudio
  <2>1. "a" \in has' => Drained("a")'
    BY <1>4, NextPacketDrains DEF ReadFirstAudio, ReadFirst, Streams
  <2>2. "v" \in has' => Drained("v")'
    BY <1>4, NextPacketDrains DEF ReadFirstAudio, ReadFirst, Streams, Drained
  <2>3. "file" \in faults' => "file" \in faults
    BY <1>4, NextPacketDrains DEF ReadFirstAudio, ReadFirst, Streams
  <2> QED
    BY <1>4, <2>1, <2>2, <2>3 DEF ReadFirstAudio, ReadFirst
<1>5. ASSUME NEW st \in Streams, NEW here \in {"read_v", "read_a"}, ReadNext(st, here)
      PROVE  ReturnInv'
  <2>1. \A s \in Streams : s \in has' => Drained(s)'
    BY <1>5, NextPacketDrains DEF ReadNext, Streams, Drained
  <2>2. "file" \in faults' => "file" \in faults
    BY <1>5, NextPacketDrains DEF ReadNext
  <2> QED
    BY <1>5, <2>1, <2>2 DEF ReadNext, Streams
<1>6. ASSUME NEW st \in Streams, Drop(st) PROVE ReturnInv'
  BY <1>6 DEF Drop, Turn, ReadPc, DataUnchanged, Drained
<1>7. ASSUME NEW st \in Streams, Write(st) PROVE ReturnInv'
  <2>1. pc = "loop" /\ UNCHANGED <<has, src, pend>>
    BY <1>7 DEF Write, Turn
  <2>2. \/ pc' \in {"read_v", "read_a"} /\ UNCHANGED <<faults, res, outcome>>
        \/ pc' = "returned" /\ res' \in {"error", "write_failed"} /\ UNCHANGED outcome
    BY <1>7 DEF Write, ReadPc, Exit
  <2> QED
    BY <2>1, <2>2 DEF Drained
<1>8. CASE Abort \/ WriteTrailer \/ Return
  BY <1>8 DEF Abort, WriteTrailer, Return, DataUnchanged, FileFails, Exit, Drained
<1>9. CASE LoopEnds
  BY <1>9 DEF LoopEnds, DataUnchanged, Drained, Streams
<1>10. CASE UNCHANGED vars
  BY <1>10 DEF vars, Drained
<1> QED
  BY <1>2, <1>3, <1>4, <1>5, <1>6, <1>7, <1>8, <1>9, <1>10
  DEF Next, ReadNextVideo, ReadNextAudio, Streams

\* mux() returns normally only when both sources are at their end, every packet has
\* been handed over and the file never raised.
THEOREM ReturnMeansComplete == Spec => []ReturnsWhenComplete
<1>1. ReturnInv => ReturnsWhenComplete
  BY DEF ReturnInv, ReturnsWhenComplete, Finished, Drained, TypeOK, Streams
<1> QED
  BY <1>1, InitReturn, StepReturn, PTL DEF Spec

-----------------------------------------------------------------------------
(***************************************************************************)
(* Exceptions.  A callback can forget a pending exception only where the   *)
(* loop does not ask for one before it: at the first audio packet.  There  *)
(* the video source is over, and it takes an audio source without packets. *)
(***************************************************************************)
Unread(st) == src[st] = input[st] /\ ~pend[st].has

RaiseInv ==
    /\ TypeOK
    /\ pc \in {"setup", "open", "first_v"} => faults = {} /\ Unread("v")
    /\ pc \in {"setup", "open", "first_v", "first_a"} => file = <<>> /\ Unread("a")
    /\ pc = "first_a" /\ faults # {} => exc # "none" /\ ~pend["v"].has
    /\ pc \in {"read_v", "read_a"} => exc = "none" /\ faults = {}
    /\ pc # "done" /\ faults # {} =>
          \/ exc # "none"
          \/ file = <<>> /\ input["a"] = <<>> /\ \A st \in Streams : ~pend[st].has
    /\ RaisesReachCaller

LEMMA InitRaise == Init => RaiseInv
  BY InitType DEF Init, RaiseInv, RaisesReachCaller, Unread, None, Streams, TypeOK

\* What a callback does to the exceptions: only one whose source is at its end can
\* forget one.
LEMMA NextPacketRaises ==
    ASSUME TypeOK, NEW st \in Streams, NextPacket(st)
    PROVE  /\ \A s \in Streams \ {st} : pend'[s] = pend[s] /\ src'[s] = src[s]
           /\ \/ UNCHANGED <<exc, faults>>
              \/ exc' = "none" /\ UNCHANGED faults /\ src[st] = <<>> /\ ~pend'[st].has
              \/ exc' = "source" /\ ~pend'[st].has
           /\ faults' # {} /\ faults = {} => exc' = "source" /\ ~pend'[st].has
<1> USE DEF TypeOK
<1>1. CASE src[st] # <<>> /\ pend' = [pend EXCEPT ![st] = Packet(Head(src[st]))]
           /\ src' = [src EXCEPT ![st] = Tail(@)] /\ UNCHANGED <<exc, faults>>
  BY <1>1
<1>2. CASE src[st] = <<>> /\ pend' = [pend EXCEPT ![st] = None] /\ exc' \in {"none", exc}
           /\ UNCHANGED <<src, faults>>
  BY <1>2 DEF None
<1>3. CASE pend' = [pend EXCEPT ![st] = None] /\ src' = [src EXCEPT ![st] = <<>>]
           /\ exc' = "source" /\ faults' = faults \cup {"source"}
  BY <1>3 DEF None
<1> QED
  BY <1>1, <1>2, <1>3 DEF NextPacket

LEMMA StepRaise == RaiseInv /\ [Next]_vars => RaiseInv'
<1> SUFFICES ASSUME RaiseInv, [Next]_vars PROVE RaiseInv'
  OBVIOUS
<1>1. TypeOK /\ TypeOK'
  BY StepType DEF RaiseInv
<1> USE <1>1 DEF RaiseInv, RaisesReachCaller, Unread
<1>2. CASE SetupFails \/ Setup \/ WriteHeader
  BY <1>2 DEF SetupFails, Setup, WriteHeader, DataUnchanged, FileFails, Exit
<1>3. CASE ReadFirstVideo
  <2>1. /\ pc = "first_v" /\ pc' = "first_a" /\ UNCHANGED <<has, input, file, outcome>>
        /\ faults = {}
    BY <1>3 DEF ReadFirstVideo, ReadFirst
  <2>2. pend'["a"] = pend["a"] /\ src'["a"] = src["a"]
    BY <1>3, NextPacketRaises DEF ReadFirstVideo, ReadFirst, Streams
  <2>3. faults' # {} => exc' = "source" /\ ~pend'["v"].has
    BY <1>3, <2>1, NextPacketRaises DEF ReadFirstVideo, ReadFirst, Streams
  <2> QED
    BY <2>1, <2>2, <2>3
<1>4. CASE ReadFirstAudio
  <2>1. /\ pc = "first_a" /\ pc' = "loop" /\ UNCHANGED <<has, input, file, outcome>>
        /\ file = <<>> /\ Unread("a")
    BY <1>4 DEF ReadFirstAudio, ReadFirst
  <2>2. CASE "a" \notin has
    <3>1. UNCHANGED <<src, pend, exc, faults>>
      BY <1>4, <2>2 DEF ReadFirstAudio, ReadFirst
    <3> QED
      BY <2>1, <3>1
  <2>3. CASE "a" \in has
    <3>1. NextPacket("a") /\ pend'["v"] = pend["v"]
      BY <1>4, <2>3, NextPacketRaises DEF ReadFirstAudio, ReadFirst, Streams
    <3>2. ASSUME faults' # {}, exc' = "none"
          PROVE  input["a"] = <<>> /\ ~pend'["v"].has /\ ~pend'["a"].has
      BY <2>1, <3>1, <3>2, NextPacketRaises DEF Streams
    <3> QED
      BY <2>1, <3>2 DEF Streams
  <2> QED
    BY <2>2, <2>3
<1>5. ASSUME NEW st \in Streams, NEW here \in {"read_v", "read_a"}, ReadNext(st, here)
      PROVE  RaiseInv'
  <2>1. /\ pc' = "loop" /\ UNCHANGED <<has, input, file, outcome>>
        /\ exc = "none" /\ faults = {}
    BY <1>5 DEF ReadNext
  <2>2. faults' # {} => exc' # "none"
    BY <1>5, <2>1, NextPacketRaises DEF ReadNext
  <2> QED
    BY <2>1, <2>2
<1>6. ASSUME NEW st \in Streams, Drop(st) \/ Write(st) PROVE RaiseInv'
  <2>1. pc = "loop" /\ exc = "none" /\ pend[st].has /\ UNCHANGED <<has, input, src, pend, outcome>>
    <3>1. Turn(st)
      BY <1>6 DEF Drop, Write
    <3>2. UNCHANGED <<has, input, src, pend, outcome>>
      BY <1>6 DEF Drop, Write, DataUnchanged, Exit
    <3> QED
      BY <3>1, <3>2 DEF Turn, VideoIsNext, Streams
  <2>2. faults = {}
    BY <2>1
  <2>3. \/ pc' \in {"read_v", "read_a"} /\ UNCHANGED <<exc, faults>>
        \/ pc' = "returned" /\ (UNCHANGED <<exc, faults>> \/ exc' = "file")
    BY <1>6 DEF Drop, Write, ReadPc, Exit, FileFails
  <2> QED
    BY <2>1, <2>2, <2>3
<1>7. CASE Abort \/ LoopEnds \/ WriteTrailer
  BY <1>7 DEF Abort, LoopEnds, WriteTrailer, DataUnchanged, FileFails, Exit
<1>8. CASE Return
  BY <1>8 DEF Return, DataUnchanged
<1>9. CASE UNCHANGED vars
  BY <1>9 DEF vars
<1> QED
  BY <1>2, <1>3, <1>4, <1>5, <1>6, <1>7, <1>8, <1>9
  DEF Next, ReadNextVideo, ReadNextAudio, Streams

\* An exception of a source or of the file reaches the caller of mux(), whatever the C
\* code did after it; only one of the very first video packet can be forgotten, and only
\* when there is no audio packet at all.
THEOREM RaisesAlwaysReachCaller == Spec => []RaisesReachCaller
<1>1. RaiseInv => RaisesReachCaller
  BY DEF RaiseInv
<1> QED
  BY <1>1, InitRaise, StepRaise, PTL DEF Spec

-----------------------------------------------------------------------------
(***************************************************************************)
(* The order of the merge.  Inductive with what is still to come of each   *)
(* source: it is in order, and none of it is before a packet in the file.  *)
(***************************************************************************)
Ahead(st) ==
    /\ Sorted(src[st])
    /\ pend[st].has => st \in has /\ \A j \in 1 .. Len(src[st]) : pend[st].pts <= src[st][j]

\* What is still to come of stream st is not before time t.
NotBefore(st, t) ==
    /\ pend[st].has => t <= Time(st, pend[st].pts)
    /\ st \in has => \A j \in 1 .. Len(src[st]) : t <= Time(st, src[st][j])

FileBehind == \A st \in Streams : \A i \in 1 .. Len(file) : NotBefore(st, file[i].at)
FileInOrder == \A i, j \in 1 .. Len(file) : i < j => file[i].at <= file[j].at
ReadsAsked == (pc = "read_v" => "v" \in has) /\ (pc = "read_a" => "a" \in has)

MergeOK == (\A st \in Streams : Ahead(st)) /\ FileBehind /\ FileInOrder /\ ReadsAsked

InputSorted == \A st \in Streams : Sorted(input[st])

MergeInv == ReturnInv /\ (InputSorted => MergeOK)

LEMMA TimeMonotone ==
    ASSUME NEW st \in Streams, NEW p \in Int, NEW q \in Int, p <= q
    PROVE  Time(st, p) <= Time(st, q) /\ Time(st, p) \in Int /\ Time(st, q) \in Int
<1>1. Tick[st] \in Nat
  BY TickAssumption
<1>2. \A d \in Nat : p * d <= q * d /\ p * d \in Int /\ q * d \in Int
  OBVIOUS
<1> QED
  BY <1>1, <1>2 DEF Time

LEMMA InitMerge == Init => MergeInv
<1> SUFFICES ASSUME Init, InputSorted PROVE MergeOK
  BY InitReturn DEF MergeInv
<1>1. src = input /\ (\A st \in Streams : ~pend[st].has) /\ file = <<>> /\ pc = "setup"
  BY DEF Init, None
<1>2. \A st \in Streams : Ahead(st)
  BY <1>1 DEF Ahead, InputSorted
<1> QED
  BY <1>1, <1>2 DEF MergeOK, FileBehind, FileInOrder, ReadsAsked

LEMMA TurnHas == ASSUME NEW st \in Streams, Turn(st) PROVE pc = "loop" /\ pend[st].has
  BY DEF Turn, VideoIsNext, Streams

\* The packet whose turn it is comes before all that is still to come.
LEMMA TurnIsFirst ==
    ASSUME ReturnInv, MergeOK, NEW st \in Streams, Turn(st), NEW s \in Streams
    PROVE  NotBefore(s, Time(st, pend[st].pts))
<1>1. /\ TypeOK /\ pc = "loop" /\ pend[st].has /\ Ahead(s)
      /\ pend[st].pts \in Int /\ pend[s].pts \in Int /\ src[s] \in Seq(Int)
  BY TurnHas DEF ReturnInv, MergeOK, TypeOK
<1>2. pend[s].has => Time(st, pend[st].pts) <= Time(s, pend[s].pts)
  <2>1. \A r \in Streams : Time(r, pend[r].pts) \in Int
    BY <1>1, RescaleType DEF TypeOK
  <2>2. s = st \/ (s = "v" /\ st = "a") \/ (s = "a" /\ st = "v")
    BY DEF Streams
  <2>3. CASE s = st
    BY <2>1, <2>3
  <2>4. CASE s = "v" /\ st = "a"
    BY <2>1, <2>4 DEF Turn, VideoIsNext
  <2>5. CASE s = "a" /\ st = "v"
    BY <2>1, <2>5 DEF Turn, VideoIsNext
  <2> QED
    BY <2>2, <2>3, <2>4, <2>5
<1>3. ASSUME s \in has, NEW j \in 1 .. Len(src[s])
      PROVE  Time(st, pend[st].pts) <= Time(s, src[s][j])
  <2>1. pend[s].has
    BY <1>1, <1>3 DEF ReturnInv, Drained, Streams
  <2>2. src[s][j] \in Int /\ pend[s].pts <= src[s][j]
    BY <1>1, <1>3, <2>1 DEF Ahead
  <2>3. Time(s, pend[s].pts) <= Time(s, src[s][j])
    BY <1>1, <2>2, TimeMonotone
  <2>4. Time(st, pend[st].pts) \in Int /\ Time(s, pend[s].pts) \in Int /\ Time(s, src[s][j]) \in Int
    BY <1>1, <2>2, RescaleType
  <2> QED
    BY <1>2, <2>1, <2>3, <2>4
<1> QED
  BY <1>2, <1>3 DEF NotBefore

LEMMA WriteMerges == ASSUME ReturnInv, MergeOK, NEW st \in Streams, Write(st) PROVE MergeOK'
<1> DEFINE at == Time(st, pend[st].pts)
           w == [st |-> st, pts |-> Rescale(st, pend[st].pts), at |-> at]
<1>1. /\ Turn(st) /\ UNCHANGED <<has, input, src, pend>>
      /\ file' = file \/ file' = Append(file, w)
  BY DEF Write
<1>2. pc' \in {"read_v", "read_a", "returned"} /\ (pc' \in {"read_v", "read_a"} => pc' = ReadPc(st))
  BY DEF Write, Exit, ReadPc
<1>3. \A s \in Streams : Ahead(s)' /\ \A t : (NotBefore(s, t)' <=> NotBefore(s, t))
  BY <1>1 DEF MergeOK, Ahead, NotBefore
<1>4. \A s \in Streams : NotBefore(s, at)
  BY <1>1, TurnIsFirst
<1>5. st \in has
  BY <1>1, TurnHas DEF MergeOK, Ahead
<1>6. ReadsAsked'
  BY <1>1, <1>2, <1>5 DEF ReadsAsked, ReadPc, Streams
<1>7. CASE file' = file
  BY <1>3, <1>6, <1>7 DEF MergeOK, FileBehind, FileInOrder
<1>8. CASE file' = Append(file, w)
  <2>1. pend[st].has /\ NotBefore(st, at)
    BY <1>1, <1>4, TurnHas
  <2>2. file \in Seq(Written) /\ Len(file) \in Nat /\ at \in Int
    <3>1. TypeOK /\ pend[st].pts \in Int
      BY DEF ReturnInv, TypeOK
    <3>2. file \in Seq(Written)
      BY <3>1 DEF TypeOK, Written
    <3>3. Len(file) \in Nat
      BY ONLY <3>2
    <3>4. at \in Int
      BY <3>1, RescaleType
    <3> QED
      BY <3>2, <3>3, <3>4
  <2>3. w.at = at
    OBVIOUS
  <2>4. \A i \in 1 .. Len(file) : file[i].at <= at
    BY <2>1 DEF MergeOK, FileBehind, NotBefore
  <2> HIDE DEF w
  <2>5. /\ Len(file') = Len(file) + 1 /\ file'[Len(file) + 1] = w
        /\ \A i \in 1 .. Len(file) : file'[i] = file[i]
    BY <1>8, <2>2
  <2> HIDE DEF at
  <2>6. FileBehind'
    <3>1. \A s \in Streams : \A i \in 1 .. Len(file') : NotBefore(s, file'[i].at)
      <4> SUFFICES ASSUME NEW s \in Streams, NEW i \in 1 .. Len(file') PROVE NotBefore(s, file'[i].at)
        OBVIOUS
      <4>1. CASE i \in 1 .. Len(file)
        BY <2>5, <4>1 DEF MergeOK, FileBehind
      <4>2. CASE i = Len(file) + 1
        BY <1>4, <2>3, <2>5, <4>2
      <4> QED
        BY <2>2, <2>5, <4>1, <4>2
    <3> QED
      BY <1>3, <3>1 DEF FileBehind
  <2>7. FileInOrder'
    <3> SUFFICES ASSUME NEW i \in 1 .. Len(file'), NEW j \in 1 .. Len(file'), i < j
                 PROVE  file'[i].at <= file'[j].at
      BY DEF FileInOrder
    <3>1. i \in 1 .. Len(file)
      BY <2>2, <2>5
    <3>2. CASE j \in 1 .. Len(file)
      BY <2>5, <3>1, <3>2 DEF MergeOK, FileInOrder
    <3>3. CASE j = Len(file) + 1
      BY <2>3, <2>4, <2>5, <3>1, <3>3
    <3> QED
      BY <2>2, <2>5, <3>2, <3>3
  <2> QED
    BY <1>3, <1>6, <2>6, <2>7 DEF MergeOK
<1> QED
  BY <1>1, <1>7, <1>8

\* A packet that is read was the first still to come.
LEMMA NextPacketMerges ==
    ASSUME TypeOK, MergeOK, NEW st \in has, NextPacket(st), UNCHANGED <<has, file>>, ReadsAsked'
    PROVE  MergeOK'
<1>1. /\ st \in Streams /\ src[st] \in Seq(Int) /\ Ahead(st)
      /\ \A s \in Streams \ {st} : pend'[s] = pend[s] /\ src'[s] = src[s]
  BY NextPacketDrains DEF TypeOK, MergeOK
<1>2. /\ Ahead(st)'
      /\ \A t : NotBefore(st, t) => NotBefore(st, t)'
  <2>1. CASE src[st] # <<>> /\ pend' = [pend EXCEPT ![st] = Packet(Head(src[st]))]
           /\ src' = [src EXCEPT ![st] = Tail(@)]
    <3> DEFINE s == src[st]
    <3>1. /\ pend'[st].has /\ pend'[st].pts = s[1] /\ src'[st] = Tail(s)
      BY <1>1, <2>1 DEF TypeOK, Packet
    <3>2. /\ Len(Tail(s)) = Len(s) - 1 /\ Len(s) \in Nat /\ 1 \in 1 .. Len(s) /\ DOMAIN s = 1 .. Len(s)
          /\ \A j \in 1 .. Len(Tail(s)) : Tail(s)[j] = s[j + 1] /\ j + 1 \in 1 .. Len(s) /\ 1 < j + 1
          /\ DOMAIN Tail(s) = 1 .. Len(Tail(s)) /\ \A j \in 1 .. Len(s) : s[j] \in Int
      BY <1>1, <2>1
    <3>3. \A i, j \in 1 .. Len(s) : i < j => s[i] <= s[j]
      BY <1>1, <3>2 DEF Ahead, Sorted
    <3> HIDE DEF s
    <3>4. Sorted(Tail(s))
      BY <3>2, <3>3 DEF Sorted
    <3>5. \A j \in 1 .. Len(Tail(s)) : s[1] <= Tail(s)[j]
      BY <3>2, <3>3
    <3>6. Ahead(st)'
      BY <3>1, <3>4, <3>5 DEF Ahead
    <3>7. ASSUME NEW t, NotBefore(st, t) PROVE NotBefore(st, t)'
      <4>1. \A j \in 1 .. Len(s) : t <= Time(st, s[j])
        BY <3>7 DEF NotBefore, s
      <4> QED
        BY <3>1, <3>2, <4>1 DEF NotBefore, Time
    <3> QED
      BY <3>6, <3>7
  <2>2. CASE pend' = [pend EXCEPT ![st] = None] /\ src'[st] = <<>>
    <3>1. ~pend'[st].has /\ Len(src'[st]) = 0
      BY <1>1, <2>2 DEF TypeOK, None
    <3>2. Sorted(<<>>)
      BY DEF Sorted
    <3> QED
      BY <2>2, <3>1, <3>2 DEF Ahead, NotBefore
  <2>3. src' = [src EXCEPT ![st] = <<>>] => src'[st] = <<>>
    BY <1>1 DEF TypeOK
  <2> QED
    BY <2>1, <2>2, <2>3 DEF NextPacket
<1>3. \A s \in Streams \ {st} : Ahead(s)' /\ \A t : (NotBefore(s, t)' <=> NotBefore(s, t))
  BY <1>1 DEF MergeOK, Ahead, NotBefore
<1>4. FileBehind'
  BY <1>2, <1>3 DEF MergeOK, FileBehind
<1>5. FileInOrder'
  BY DEF MergeOK, FileInOrder
<1> QED
  BY <1>2, <1>3, <1>4, <1>5 DEF MergeOK

LEMMA StepMerge == MergeInv /\ [Next]_vars => MergeInv'
<1> SUFFICES ASSUME MergeInv, [Next]_vars PROVE MergeInv'
  OBVIOUS
<1>1. ReturnInv /\ ReturnInv'
  BY StepReturn DEF MergeInv
<1>2. input' = input
  BY DEF Next, SetupFails, Setup, WriteHeader, Abort, LoopEnds, WriteTrailer, Return, DataUnchanged,
     ReadFirstVideo, ReadFirstAudio, ReadNextVideo, ReadNextAudio, ReadFirst, ReadNext, Drop, Write, vars
<1> SUFFICES ASSUME MergeOK PROVE MergeOK'
  BY <1>1, <1>2 DEF MergeInv, InputSorted
<1>3. ASSUME UNCHANGED <<has, src, pend, file>>, ReadsAsked' PROVE MergeOK'
  BY <1>3 DEF MergeOK, Ahead, FileBehind, NotBefore, FileInOrder
<1>4. CASE SetupFails \/ Setup \/ WriteHeader \/ Abort \/ LoopEnds \/ WriteTrailer \/ Return
           \/ UNCHANGED vars
  <2>1. UNCHANGED <<has, src, pend, file>> /\ (pc' \notin {"read_v", "read_a"} \/ pc' = pc)
    BY <1>4 DEF SetupFails, Setup, WriteHeader, Abort, LoopEnds, WriteTrailer, Return, DataUnchanged,
       Exit, vars
  <2> QED
    BY <1>3, <2>1 DEF MergeOK, ReadsAsked
<1>5. ASSUME NEW st \in Streams, NEW here, NEW there \in {"first_a", "loop"}, ReadFirst(st, here, there)
      PROVE  MergeOK'
  <2>1. UNCHANGED <<has, file>> /\ ReadsAsked'
    BY <1>5 DEF ReadFirst, ReadsAsked
  <2>2. CASE st \in has
    BY <1>1, <1>5, <2>1, <2>2, NextPacketMerges DEF ReadFirst, ReturnInv
  <2>3. CASE st \notin has
    BY <1>3, <1>5, <2>1, <2>3 DEF ReadFirst
  <2> QED
    BY <2>2, <2>3
<1>6. ASSUME NEW st \in Streams, ReadNext(st, ReadPc(st)) PROVE MergeOK'
  <2>1. UNCHANGED <<has, file>> /\ ReadsAsked' /\ NextPacket(st) /\ pc = ReadPc(st)
    BY <1>6 DEF ReadNext, ReadsAsked
  <2>2. st \in has
    BY <2>1 DEF MergeOK, ReadsAsked, ReadPc, Streams
  <2> QED
    BY <1>1, <2>1, <2>2, NextPacketMerges DEF ReturnInv
<1>7. ASSUME NEW st \in Streams, Drop(st) PROVE MergeOK'
  <2>1. UNCHANGED <<has, src, pend, file>> /\ pc' = ReadPc(st) /\ pend[st].has
    BY <1>7, TurnHas DEF Drop, DataUnchanged
  <2>2. st \in has
    BY <2>1 DEF MergeOK, Ahead
  <2> QED
    BY <1>3, <2>1, <2>2 DEF ReadsAsked, ReadPc, Streams
<1>8. ASSUME NEW st \in Streams, Write(st) PROVE MergeOK'
  BY <1>1, <1>8, WriteMerges
<1> QED
  BY <1>4, <1>5, <1>6, <1>7, <1>8
  DEF Next, ReadFirstVideo, ReadFirstAudio, ReadNextVideo, ReadNextAudio, ReadPc, Streams

\* marm_mux: whatever sources in order are given, however they end, no packet is
\* handed to the container after a later one of the other stream.
THEOREM MergesInOrder == Spec => []MergedInOrder
<1>1. MergeInv => MergedInOrder
  BY DEF MergeInv, InputSorted, MergeOK, FileInOrder, MergedInOrder
<1> QED
  BY <1>1, InitMerge, StepMerge, PTL DEF Spec
-----------------------------------------------------------------------------
(***************************************************************************)
(* What the filter keeps of a source.  The library's fold is over subsets  *)
(* of the indices, from the greatest one down; it is followed here along   *)
(* the subsets 1 .. k.                                                     *)
(***************************************************************************)
LEMMA LeastExists ==
    ASSUME NEW S, S \subseteq Nat, S # {} PROVE \E x \in S : \A y \in S : x <= y
<1>1. \E x \in S : \A y \in S : ~(<<y, x>> \in OpToRel(<, Nat))
  BY WFMin, NatLessThanWellFounded, Zenon
<1>2. PICK x \in S : \A y \in S : ~(<<y, x>> \in OpToRel(<, Nat))
  BY <1>1
<1>3. \A y \in S : x <= y
  <2> TAKE y \in S
  <2>1. <<y, x>> \in Nat \X Nat /\ ~(y < x)
    BY <1>2 DEF OpToRel
  <2> QED
    BY <2>1
<1> QED
  BY <1>3

LEMMA MaxIsGreatest ==
    ASSUME NEW n \in Nat, NEW s \in SUBSET (1 .. n), s # {}
    PROVE  Max(s) \in s /\ \A x \in s : x <= Max(s)
<1> DEFINE below == { n - x : x \in s }
<1>0. \A x \in s : x \in 1 .. n
  OBVIOUS
<1>1. below \subseteq Nat /\ below # {}
  <2>1. \A x \in s : n - x \in Nat
    BY <1>0
  <2> QED
    BY <2>1
<1> HIDE DEF below
<1>2. PICK y \in below : \A z \in below : y <= z
  BY <1>1, LeastExists
<1>3. \A x \in s : x \in Int /\ n - x \in below
  BY <1>0 DEF below
<1>4. PICK m \in s : y = n - m
  BY <1>2 DEF below
<1>5. \A x \in s : m >= x
  BY <1>2, <1>3, <1>4
<1>6. Max(s) \in s /\ \A x \in s : Max(s) >= x
  <2>1. \E x \in s : \A z \in s : x >= z
    BY <1>5
  <2> QED
    BY <2>1, Zenon DEF Max
<1> QED
  BY <1>3, <1>6

\* One more packet.
Judge(st, kept, p) ==
    LET t == Rescale(st, p)
    IN IF kept # <<>> /\ t <= kept[Len(kept)] THEN kept ELSE Append(kept, t)

KeptFold(f, st, source, S) ==
    f = [s \in SUBSET S |-> IF s = {} THEN <<>> ELSE Judge(st, f[s \ {Max(s)}], source[Max(s)])]

\* Those kept of the first k.
KeptOf(st, source, k) == (CHOOSE f : KeptFold(f, st, source, DOMAIN source))[1 .. k]

LEMMA KeptFolds ==
    ASSUME NEW st, NEW source
    PROVE  Kept(st, source) = (CHOOSE f : KeptFold(f, st, source, DOMAIN source))[DOMAIN source]
  BY Zenon DEF Kept, FoldLeft, MapThenFoldSet, KeptFold, Judge

LEMMA KeptExists == ASSUME NEW st, NEW source, NEW n \in Nat PROVE \E f : KeptFold(f, st, source, 1 .. n)
<1> DEFINE B == { m \in Nat : ~ \E f : KeptFold(f, st, source, 1 .. m) }
<1> SUFFICES ASSUME B # {} PROVE FALSE
  OBVIOUS
<1>1. B \subseteq Nat
  OBVIOUS
<1> HIDE DEF B
<1>2. PICK m \in B : \A k \in B : m <= k
  BY <1>1, LeastExists
<1> USE DEF B
<1>3. m \in Nat /\ ~ \E f : KeptFold(f, st, source, 1 .. m)
  OBVIOUS
<1>4. CASE m = 0
  <2> DEFINE h == [s \in SUBSET (1 .. 0) |-> <<>>]
  <2>1. \A s \in SUBSET (1 .. 0) : s = {}
    OBVIOUS
  <2>2. h = [s \in SUBSET (1 .. 0) |->
               IF s = {} THEN <<>> ELSE Judge(st, h[s \ {Max(s)}], source[Max(s)])]
    BY <2>1
  <2> HIDE DEF h
  <2> QED
    BY <1>3, <1>4, <2>2 DEF KeptFold
<1>5. CASE m > 0
  <2>1. m - 1 \in Nat /\ ~(m <= m - 1)
    BY <1>3, <1>5
  <2>2. PICK f : KeptFold(f, st, source, 1 .. m - 1)
    BY <1>2, <2>1
  <2> DEFINE h == [s \in SUBSET (1 .. m) |->
                     IF m \in s THEN Judge(st, f[s \ {m}], source[m]) ELSE f[s]]
  <2>3. ASSUME NEW s \in SUBSET (1 .. m)
        PROVE  h[s] = IF s = {} THEN <<>> ELSE Judge(st, h[s \ {Max(s)}], source[Max(s)])
    <3>1. \A t \in SUBSET (1 .. m) : m \notin t => t \in SUBSET (1 .. m - 1)
      BY <2>1
    <3>2. CASE m \in s
      <4>1. Max(s) = m
        <5>0. s # {}
          BY <3>2
        <5>1. Max(s) \in s /\ m <= Max(s)
          BY ONLY <1>3, <3>2, <5>0, MaxIsGreatest, s \in SUBSET (1 .. m)
        <5>2. Max(s) \in 1 .. m
          BY ONLY <5>1, s \in SUBSET (1 .. m)
        <5> QED
          BY ONLY <1>3, <5>1, <5>2
      <4>2. s \ {m} \in SUBSET (1 .. m) /\ m \notin s \ {m}
        OBVIOUS
      <4>3. h[s \ {m}] = f[s \ {m}] /\ h[s] = Judge(st, f[s \ {m}], source[m])
        BY <3>2, <4>2
      <4> QED
        BY <3>2, <4>1, <4>3
    <3>3. CASE m \notin s
      <4>1. s \in SUBSET (1 .. m - 1)
        BY <3>1, <3>3
      <4>2. f[s] = IF s = {} THEN <<>> ELSE Judge(st, f[s \ {Max(s)}], source[Max(s)])
        BY <2>2, <4>1 DEF KeptFold
      <4>3. s \ {Max(s)} \in SUBSET (1 .. m) /\ m \notin s \ {Max(s)}
        BY <3>3
      <4>4. h[s] = f[s] /\ h[s \ {Max(s)}] = f[s \ {Max(s)}]
        BY <3>3, <4>3
      <4> QED
        BY <4>2, <4>4
    <3> QED
      BY <3>2, <3>3
  <2>4. h = [s \in SUBSET (1 .. m) |-> h[s]]
    OBVIOUS
  <2> HIDE DEF h
  <2>5. KeptFold(h, st, source, 1 .. m)
    BY <2>3, <2>4 DEF KeptFold
  <2> QED
    BY <1>3, <2>5
<1> QED
  BY <1>3, <1>4, <1>5

LEMMA KeptSteps ==
    ASSUME NEW st, NEW source \in Seq(Int)
    PROVE  /\ Kept(st, source) = KeptOf(st, source, Len(source))
           /\ KeptOf(st, source, 0) = <<>>
           /\ \A k \in 1 .. Len(source) :
                 KeptOf(st, source, k) = Judge(st, KeptOf(st, source, k - 1), source[k])
<1>1. DOMAIN source = 1 .. Len(source) /\ Len(source) \in Nat
  OBVIOUS
<1> DEFINE f == CHOOSE g : KeptFold(g, st, source, DOMAIN source)
<1>2. KeptFold(f, st, source, 1 .. Len(source))
  BY <1>1, KeptExists, Zenon
<1>3. Kept(st, source) = f[1 .. Len(source)] /\ \A k : KeptOf(st, source, k) = f[1 .. k]
  BY <1>1, KeptFolds DEF KeptOf
<1> HIDE DEF f
<1>4. ASSUME NEW k \in 0 .. Len(source)
      PROVE  f[1 .. k] = IF 1 .. k = {} THEN <<>>
                         ELSE Judge(st, f[(1 .. k) \ {Max(1 .. k)}], source[Max(1 .. k)])
  <2>1. 1 .. k \in SUBSET (1 .. Len(source))
    BY <1>1
  <2> QED
    BY <1>2, <2>1 DEF KeptFold
<1>5. f[1 .. 0] = <<>>
  <2>1. 0 \in 0 .. Len(source) /\ 1 .. 0 = {}
    BY <1>1
  <2> QED
    BY <1>4, <2>1
<1>6. ASSUME NEW k \in 1 .. Len(source) PROVE f[1 .. k] = Judge(st, f[1 .. k - 1], source[k])
  <2>1. k \in 0 .. Len(source) /\ k \in Nat /\ k \in 1 .. k /\ 1 .. k \in SUBSET (1 .. k) /\ 1 .. k # {}
    <3>1. k \in 0 .. Len(source) /\ k \in Nat /\ k \in 1 .. k
      BY <1>1
    <3>2. 1 .. k \in SUBSET (1 .. k) /\ 1 .. k # {}
      BY <3>1, Zenon
    <3> QED
      BY <3>1, <3>2
  <2>2. Max(1 .. k) = k
    <3>1. Max(1 .. k) \in 1 .. k /\ k <= Max(1 .. k)
      BY ONLY <2>1, MaxIsGreatest
    <3> QED
      BY <2>1, <3>1
  <2>3. (1 .. k) \ {k} = 1 .. k - 1
    BY <2>1
  <2> QED
    BY <1>4, <2>1, <2>2, <2>3
<1> QED
  BY <1>3, <1>5, <1>6

LEMMA KeptType ==
    ASSUME NEW st \in Streams, NEW source \in Seq(Int), NEW k \in 0 .. Len(source)
    PROVE  KeptOf(st, source, k) \in Seq(Int)
<1> DEFINE B == { m \in 0 .. Len(source) : KeptOf(st, source, m) \notin Seq(Int) }
<1> SUFFICES ASSUME B # {} PROVE FALSE
  OBVIOUS
<1>1. B \subseteq Nat /\ Len(source) \in Nat
  OBVIOUS
<1> HIDE DEF B
<1>2. PICK m \in B : \A j \in B : m <= j
  BY <1>1, LeastExists
<1> USE DEF B
<1>3. m \in 0 .. Len(source) /\ KeptOf(st, source, m) \notin Seq(Int)
  OBVIOUS
<1>4. m # 0
  <2>1. KeptOf(st, source, 0) = <<>> /\ <<>> \in Seq(Int)
    BY KeptSteps
  <2> QED
    BY <1>3, <2>1, Zenon
<1>5. m \in 1 .. Len(source) /\ m - 1 \in 0 .. Len(source) /\ ~(m <= m - 1)
  BY <1>1, <1>3, <1>4
<1> DEFINE q == KeptOf(st, source, m - 1)
           t == Rescale(st, source[m])
<1>6. q \in Seq(Int)
  BY <1>2, <1>5
<1>7. t \in Int
  <2>1. source[m] \in Int
    BY <1>5, ElementType
  <2> QED
    BY <2>1, RescaleType
<1>8. KeptOf(st, source, m) = IF q # <<>> /\ t <= q[Len(q)] THEN q ELSE Append(q, t)
  BY <1>5, KeptSteps DEF Judge
<1> HIDE DEF q, t, B
<1>9. Append(q, t) \in Seq(Int)
  BY <1>6, <1>7
<1> QED
  BY <1>3, <1>6, <1>8, <1>9

\* A packet kept is kept, in its place.
LEMMA KeptStays ==
    ASSUME NEW st \in Streams, NEW source \in Seq(Int), NEW k \in 0 .. Len(source)
    PROVE  LET q == KeptOf(st, source, k)
               all == Kept(st, source)
           IN Len(q) <= Len(all) /\ \A i \in 1 .. Len(q) : all[i] = q[i]
<1> DEFINE q(n) == KeptOf(st, source, n)
           Stays(n) == Len(q(k)) <= Len(q(n)) /\ \A i \in 1 .. Len(q(k)) : q(n)[i] = q(k)[i]
           B == { m \in k .. Len(source) : ~Stays(m) }
<1>1. Len(source) \in Nat /\ k \in Nat /\ B \subseteq Nat
  OBVIOUS
<1>2. \A n \in 0 .. Len(source) : q(n) \in Seq(Int)
  BY KeptType
<1>3. ASSUME B # {} PROVE FALSE
  <2> HIDE DEF B
  <2>1. PICK m \in B : \A j \in B : m <= j
    BY <1>1, <1>3, LeastExists
  <2> USE DEF B
  <2>2. m \in k .. Len(source) /\ ~Stays(m)
    OBVIOUS
  <2>3. m # k
    <3>1. q(k) \in Seq(Int)
      BY <1>2
    <3>2. Len(q(k)) \in Nat
      BY <3>1
    <3>3. Stays(k)
      BY <3>2
    <3> QED
      BY <2>2, <3>3
  <2>4. m \in 1 .. Len(source) /\ m - 1 \in k .. Len(source) /\ m - 1 \in 0 .. Len(source) /\ ~(m <= m - 1)
    BY <1>1, <2>2, <2>3
  <2>5. Stays(m - 1)
    <3> HIDE DEF Stays
    <3> QED
      BY <2>1, <2>4
  <2> DEFINE o == q(m - 1)
             t == Rescale(st, source[m])
             a == q(k)
             b == q(m)
  <2>6. o \in Seq(Int) /\ t \in Int /\ a \in Seq(Int)
    <3>1. source[m] \in Int
      BY <2>4, ElementType
    <3>2. k \in 0 .. Len(source)
      OBVIOUS
    <3> QED
      BY <1>2, <2>4, <3>1, <3>2, RescaleType
  <2>7. b = o \/ b = Append(o, t)
    BY <2>4, KeptSteps DEF Judge
  <2>8. Len(a) <= Len(o) /\ \A i \in 1 .. Len(a) : o[i] = a[i]
    BY <2>5
  <2>9. ~(Len(a) <= Len(b) /\ \A i \in 1 .. Len(a) : b[i] = a[i])
    BY <2>2
  <2> HIDE DEF o, t, a, b, q, B, Stays
  <2>10. Len(Append(o, t)) = Len(o) + 1 /\ Len(o) \in Nat /\ Len(a) \in Nat
         /\ \A i \in 1 .. Len(o) : Append(o, t)[i] = o[i]
    BY <2>6
  <2>11. CASE b = o
    BY <2>8, <2>9, <2>11
  <2>12. CASE b = Append(o, t)
    <3>1. \A i \in 1 .. Len(a) : i \in 1 .. Len(o)
      BY <2>8, <2>10
    <3>2. Len(a) <= Len(o) + 1
      BY <2>8, <2>10
    <3> QED
      BY <2>8, <2>9, <2>10, <2>12, <3>1, <3>2
  <2> QED
    BY <2>7, <2>11, <2>12
<1>4. Stays(Len(source))
  <2>1. Len(source) \in k .. Len(source)
    BY <1>1
  <2> HIDE DEF Stays
  <2> QED
    BY <1>3, <2>1
<1> QED
  BY <1>4, KeptSteps
-----------------------------------------------------------------------------
(***************************************************************************)
(* What the file has of a source.  Inductive with how many packets of it   *)
(* the filter has judged: the ones it kept of them are in the file, the    *)
(* last one is what the next will be compared to, and what is in hand and  *)
(* to come goes on from there.                                             *)
(***************************************************************************)
InHand(st) == pend[st].has /\ pc # ReadPc(st)

\* All but the first m packets of the source are to come.
Rest(st, m) ==
    /\ Len(src[st]) = Len(input[st]) - m
    /\ \A j \in 1 .. Len(src[st]) : src[st][j] = input[st][m + j]

Count(st) == Cardinality(InFile(st, Len(file)))
Going == pc \notin {"returned", "done"}

\* n packets of the source have been judged.
LastKept(st, kept) ==
    (last[st].set <=> kept # <<>>) /\ (kept # <<>> => last[st].pts = kept[Len(kept)])

ToCome(st, n) ==
    /\ InHand(st) => n < Len(input[st]) /\ pend[st].pts = input[st][n + 1]
    /\ (src[st] = <<>> /\ "source" \in faults) \/ Rest(st, IF InHand(st) THEN n + 1 ELSE n)

Sent(st, n) ==
    /\ Count(st) = Len(KeptOf(st, input[st], n))
    /\ Going => LastKept(st, KeptOf(st, input[st], n)) /\ ToCome(st, n)
    /\ Finished /\ "source" \notin faults /\ st \in has => n = Len(input[st])

Judged == \A st \in Streams : \E n \in 0 .. Len(input[st]) : Sent(st, n)

Placed(i) ==
    LET kept == Kept(file[i].st, input[file[i].st])
    IN Place(i) <= Len(kept) /\ kept[Place(i)] = file[i].pts

NotYetRead ==
    /\ pc \in {"setup", "open", "first_v"} => \A st \in Streams : ~pend[st].has
    /\ pc = "first_a" => ~pend["a"].has

KeepInv == ReturnInv /\ Judged /\ (\A i \in 1 .. Len(file) : Placed(i)) /\ NotYetRead

LEMMA InitKeep == Init => KeepInv
<1> SUFFICES ASSUME Init PROVE KeepInv
  OBVIOUS
<1>1. /\ src = input /\ (\A st \in Streams : ~pend[st].has /\ ~last[st].set) /\ file = <<>>
      /\ pc = "setup" /\ TypeOK
  BY InitType DEF Init, None, Before
<1>2. ASSUME NEW st \in Streams PROVE Sent(st, 0) /\ 0 \in 0 .. Len(input[st])
  <2>1. input[st] \in Seq(Int) /\ Len(input[st]) \in Nat
    BY <1>1 DEF TypeOK
  <2>2. KeptOf(st, input[st], 0) = <<>>
    BY <2>1, KeptSteps
  <2>3. Count(st) = 0
    <3>1. InFile(st, Len(file)) = {}
      BY <1>1 DEF InFile
    <3> QED
      BY <3>1, FS_EmptySet DEF Count
  <2>4. ~InHand(st)
    BY <1>1 DEF InHand
  <2>5. Rest(st, 0)
    BY <1>1, <2>1 DEF Rest
  <2>6. ToCome(st, 0)
    BY <2>4, <2>5 DEF ToCome
  <2> QED
    BY <1>1, <2>1, <2>2, <2>3, <2>6 DEF Sent, LastKept, Going, Finished
<1>3. Judged
  BY <1>2 DEF Judged
<1> QED
  BY <1>1, <1>3, InitReturn DEF KeepInv, NotYetRead

\* Counting one more packet of the file.
LEMMA FileGrows ==
    ASSUME TypeOK, NEW w \in Written, file' = Append(file, w), NEW s \in Streams, NEW n \in Nat,
           n = Len(file)
    PROVE  /\ Count(s) \in Nat
           /\ Count(s)' = IF s = w.st THEN Count(s) + 1 ELSE Count(s)
           /\ Len(file') = n + 1 /\ file'[n + 1] = w
           /\ \A i \in 1 .. n : file'[i] = file[i] /\ Place(i)' = Place(i)
           /\ Place(n + 1)' = Count(w.st)'
<1>1. /\ file \in Seq(Written) /\ Len(file') = n + 1 /\ file'[n + 1] = w
      /\ \A i \in 1 .. n : file'[i] = file[i]
  BY DEF TypeOK, Written
<1>2. IsFiniteSet(InFile(s, n)) /\ Cardinality(InFile(s, n)) \in Nat /\ n + 1 \notin InFile(s, n)
  <2>1. InFile(s, n) \subseteq 1 .. n /\ n + 1 \notin InFile(s, n)
    BY DEF InFile
  <2>2. IsFiniteSet(1 .. n)
    BY FS_Interval
  <2>3. IsFiniteSet(InFile(s, n))
    BY <2>1, <2>2, FS_Subset
  <2> QED
    BY <2>1, <2>3, FS_CardinalityType
<1>3. \A t : \A i \in 1 .. n : InFile(t, i)' = InFile(t, i)
  <2> SUFFICES ASSUME NEW t, NEW i \in 1 .. n PROVE InFile(t, i)' = InFile(t, i)
    OBVIOUS
  <2>1. \A j \in 1 .. i : file'[j] = file[j]
    BY <1>1
  <2> QED
    BY <2>1 DEF InFile
<1>4. InFile(s, n + 1)' = IF s = w.st THEN InFile(s, n) \cup {n + 1} ELSE InFile(s, n)
  <2>1. InFile(s, n + 1)' = { i \in 1 .. n + 1 : file'[i].st = s }
    BY DEF InFile
  <2>2. \A i : i \in 1 .. n + 1 <=> i \in 1 .. n \/ i = n + 1
    OBVIOUS
  <2>3. \A i : i \in InFile(s, n + 1)' <=> i \in InFile(s, n) \/ (i = n + 1 /\ s = w.st)
    BY <1>1, <2>1, <2>2 DEF InFile
  <2> QED
    BY <2>3
<1>5. Cardinality(InFile(s, n) \cup {n + 1}) = Cardinality(InFile(s, n)) + 1
  BY <1>2, FS_AddElement
<1>6. Count(s) = Cardinality(InFile(s, n)) /\ \A t : Count(t)' = Cardinality(InFile(t, n + 1)')
  BY <1>1 DEF Count
<1>7. Count(s)' = IF s = w.st THEN Count(s) + 1 ELSE Count(s)
  BY <1>4, <1>5, <1>6
<1>8. \A i \in 1 .. n : Place(i)' = Place(i)
  BY <1>1, <1>3 DEF Place
<1>9. Place(n + 1)' = Count(w.st)'
  BY <1>1, <1>6 DEF Place
<1> QED
  BY <1>1, <1>2, <1>6, <1>7, <1>8, <1>9

\* A step that neither reads, judges nor writes a packet.
LEMMA QuietKeeps ==
    ASSUME KeepInv, ReturnInv', NotYetRead', UNCHANGED <<has, input, src, pend, last, file>>,
           pc \notin {"read_v", "read_a"}, pc' \notin {"read_v", "read_a"},
           Going' => Going, faults \subseteq faults',
           \A st \in Streams : \A n \in 0 .. Len(input[st]) :
              Sent(st, n) /\ Finished' /\ "source" \notin faults' /\ st \in has => n = Len(input[st])
    PROVE  KeepInv'
<1>1. ASSUME NEW st \in Streams, NEW n \in 0 .. Len(input[st]), Sent(st, n) PROVE Sent(st, n)'
  <2>1. InHand(st)' <=> InHand(st)
    BY DEF InHand, ReadPc
  <2>2. Count(st)' = Count(st) /\ \A m : Rest(st, m)' <=> Rest(st, m)
    BY DEF Count, InFile, Rest
  <2>3. LastKept(st, KeptOf(st, input[st], n)) => LastKept(st, KeptOf(st, input[st], n))'
    BY DEF LastKept
  <2>4. ToCome(st, n) => ToCome(st, n)'
    BY <2>1, <2>2 DEF ToCome
  <2> QED
    BY <1>1, <2>2, <2>3, <2>4 DEF Sent
<1>2. Judged'
  BY <1>1 DEF KeepInv, Judged
<1>3. \A i \in 1 .. Len(file') : Placed(i)'
  BY DEF KeepInv, Placed, Place, InFile
<1> QED
  BY <1>2, <1>3 DEF KeepInv

\* A stream a step leaves alone.
LEMMA OtherKeeps ==
    ASSUME NEW s \in Streams, NEW n \in Nat, Sent(s, n), Going, ~Finished',
           UNCHANGED input, src'[s] = src[s], pend'[s] = pend[s], last'[s] = last[s],
           Count(s)' = Count(s), InHand(s)' <=> InHand(s), faults \subseteq faults'
    PROVE  Sent(s, n)'
<1>1. LastKept(s, KeptOf(s, input[s], n))'
  BY DEF Sent, LastKept
<1>2. \A m : Rest(s, m)' <=> Rest(s, m)
  BY DEF Rest
<1>3. ToCome(s, n)'
  BY <1>2 DEF Sent, ToCome
<1> QED
  BY <1>1, <1>3 DEF Sent

\* The next packet of a source is the next one to judge.
LEMMA NextPacketKeeps ==
    ASSUME TypeOK, NEW st \in Streams, NextPacket(st), UNCHANGED <<has, input, last, file>>,
           Going, ~InHand(st), \A s \in Streams \ {st} : pc # ReadPc(s),
           pc' \in {"first_a", "loop"},
           NEW s \in Streams, NEW n \in 0 .. Len(input[s]), Sent(s, n)
    PROVE  Sent(s, n)'
<1>1. /\ \A t \in Streams \ {st} : pend'[t] = pend[t] /\ src'[t] = src[t]
      /\ faults \subseteq faults'
  BY NextPacketDrains DEF NextPacket
<1>2. Count(s)' = Count(s) /\ ~Finished'
  BY DEF Count, InFile, Finished
<1>3. CASE s # st
  <2>1. InHand(s)' <=> InHand(s)
    BY <1>1, <1>3 DEF InHand, ReadPc, Streams
  <2>2. n \in Nat /\ pend'[s] = pend[s] /\ src'[s] = src[s]
    BY <1>1, <1>3
  <2> QED
    BY <1>1, <1>2, <2>1, <2>2, OtherKeeps
<1>4. CASE s = st
  <2>1. LastKept(st, KeptOf(st, input[st], n))'
    BY <1>4 DEF Sent, LastKept
  <2>2. (src[st] = <<>> /\ "source" \in faults) \/ Rest(st, n)
    BY <1>4 DEF Sent, ToCome
  <2>3. /\ src[st] \in Seq(Int) /\ input[st] \in Seq(Int) /\ Len(input[st]) \in Nat /\ n \in Nat
        /\ pc' # ReadPc(st)
    BY <1>4 DEF TypeOK, ReadPc
  <2>4. CASE src[st] # <<>> /\ pend' = [pend EXCEPT ![st] = Packet(Head(src[st]))]
             /\ src' = [src EXCEPT ![st] = Tail(@)]
    <3> DEFINE q == src[st]
               all == input[st]
    <3>1. pend'[st].has /\ pend'[st].pts = q[1] /\ src'[st] = Tail(q) /\ InHand(st)'
      BY <2>3, <2>4 DEF TypeOK, Packet, InHand, ReadPc
    <3>2. /\ Len(Tail(q)) = Len(q) - 1 /\ Len(q) \in Nat /\ 1 \in 1 .. Len(q)
          /\ \A j \in 1 .. Len(Tail(q)) : Tail(q)[j] = q[j + 1] /\ j + 1 \in 1 .. Len(q)
      BY <2>3, <2>4
    <3>3. Len(q) = Len(all) - n /\ \A j \in 1 .. Len(q) : q[j] = all[n + j]
      BY <2>2, <2>4 DEF Rest
    <3> HIDE DEF q, all
    <3>4. n < Len(all) /\ q[1] = all[n + 1]
      BY <2>3, <3>2, <3>3 DEF all
    <3>5. Len(Tail(q)) = Len(all) - (n + 1) /\ \A j \in 1 .. Len(Tail(q)) : Tail(q)[j] = all[(n + 1) + j]
      <4>1. \A j \in 1 .. Len(Tail(q)) : n + (j + 1) = (n + 1) + j
        BY <2>3, <3>2
      <4> QED
        BY <2>3, <3>2, <3>3, <4>1 DEF all
    <3>6. Rest(st, n + 1)'
      BY <3>1, <3>5 DEF Rest, all
    <3> QED
      BY <1>2, <1>4, <2>1, <3>1, <3>4, <3>6 DEF Sent, ToCome, all
  <2>5. CASE pend' = [pend EXCEPT ![st] = None]
             /\ (src' = src \/ (src' = [src EXCEPT ![st] = <<>>] /\ "source" \in faults'))
    <3>1. ~InHand(st)'
      BY <2>5 DEF TypeOK, None, InHand
    <3>2. src'[st] = src[st] \/ (src'[st] = <<>> /\ "source" \in faults')
      BY <2>5 DEF TypeOK
    <3>3. (src'[st] = <<>> /\ "source" \in faults') \/ Rest(st, n)'
      BY <1>1, <2>2, <3>2 DEF Rest
    <3> QED
      BY <1>2, <1>4, <2>1, <3>1, <3>3 DEF Sent, ToCome
  <2> QED
    BY <2>4, <2>5 DEF NextPacket
<1> QED
  BY <1>3, <1>4

\* A packet in hand that is not later than the last one is one the filter drops.
LEMMA DropKeeps ==
    ASSUME KeepInv, ReturnInv', NEW st \in Streams, Drop(st)
    PROVE  KeepInv'
<1>1. /\ TypeOK /\ Turn(st) /\ NotAfterLast(st) /\ pc = "loop" /\ pend[st].has
      /\ pc' = ReadPc(st) /\ UNCHANGED <<has, input, src, pend, last, file, faults>>
  BY TurnHas DEF KeepInv, ReturnInv, Drop, DataUnchanged
<1>2. Going /\ Going' /\ ~Finished' /\ InHand(st) /\ ~InHand(st)'
  BY <1>1 DEF Going, Finished, InHand, ReadPc
<1>3. \A s \in Streams : Count(s)' = Count(s) /\ \A m : Rest(s, m)' <=> Rest(s, m)
  BY <1>1 DEF Count, InFile, Rest
<1>4. PICK n \in 0 .. Len(input[st]) : Sent(st, n)
  BY DEF KeepInv, Judged
<1>5. input[st] \in Seq(Int) /\ Len(input[st]) \in Nat /\ n \in Nat
  BY <1>1 DEF TypeOK
<1>6. n + 1 \in 1 .. Len(input[st]) /\ (n + 1) - 1 = n /\ pend[st].pts = input[st][n + 1]
  BY <1>2, <1>4, <1>5 DEF Sent, ToCome
<1>7. KeptOf(st, input[st], n + 1) = KeptOf(st, input[st], n)
  <2>1. KeptOf(st, input[st], n + 1) = Judge(st, KeptOf(st, input[st], n), input[st][n + 1])
    BY <1>5, <1>6, KeptSteps
  <2>2. LastKept(st, KeptOf(st, input[st], n))
    BY <1>2, <1>4 DEF Sent
  <2> QED
    BY <1>1, <1>6, <2>1, <2>2 DEF Judge, LastKept, NotAfterLast
<1>8. Sent(st, n + 1)'
  <2>1. LastKept(st, KeptOf(st, input[st], n + 1))'
    BY <1>1, <1>2, <1>4, <1>7 DEF Sent, LastKept
  <2>2. ToCome(st, n + 1)'
    BY <1>1, <1>2, <1>3, <1>4 DEF Sent, ToCome
  <2> QED
    BY <1>1, <1>2, <1>3, <1>4, <1>7, <2>1, <2>2 DEF Sent
<1>9. ASSUME NEW s \in Streams \ {st}, NEW m \in 0 .. Len(input[s]), Sent(s, m) PROVE Sent(s, m)'
  <2>1. InHand(s)' <=> InHand(s)
    BY <1>1, <1>9 DEF InHand, ReadPc, Streams
  <2>2. m \in Nat
    OBVIOUS
  <2> QED
    BY <1>1, <1>2, <1>3, <1>9, <2>1, <2>2, OtherKeeps
<1>10. Judged'
  <2>1. \E m \in 0 .. Len(input'[st]) : Sent(st, m)'
    BY <1>1, <1>5, <1>6, <1>8
  <2>2. ASSUME NEW s \in Streams \ {st} PROVE \E m \in 0 .. Len(input'[s]) : Sent(s, m)'
    BY <1>1, <1>9 DEF KeepInv, Judged
  <2> QED
    BY <2>1, <2>2 DEF Judged
<1>11. \A i \in 1 .. Len(file') : Placed(i)'
  BY <1>1 DEF KeepInv, Placed, Place, InFile
<1>12. NotYetRead'
  BY <1>1 DEF NotYetRead, ReadPc
<1> QED
  BY <1>10, <1>11, <1>12 DEF KeepInv

\* A packet in hand that is later than the last one is one the filter keeps.
LEMMA WriteKeeps ==
    ASSUME KeepInv, ReturnInv', NEW st \in Streams, Write(st)
    PROVE  KeepInv'
<1>1. /\ TypeOK /\ Turn(st) /\ ~NotAfterLast(st) /\ pc = "loop" /\ pend[st].has
      /\ UNCHANGED <<has, input, src, pend>>
  BY TurnHas DEF KeepInv, ReturnInv, Write
<1>2. PICK pts \in Int : pts = Rescale(st, pend[st].pts)
  <2>1. pend[st].pts \in Int
    BY <1>1 DEF TypeOK
  <2> QED
    BY <2>1, RescaleType
<1>3. PICK at \in Int : at = Time(st, pend[st].pts)
  <2>1. pend[st].pts \in Int
    BY <1>1 DEF TypeOK
  <2> QED
    BY <2>1, RescaleType
<1> DEFINE w == [st |-> st, pts |-> pts, at |-> at]
<1>4. /\ last' = [last EXCEPT ![st] = At(pts)]
      /\ faults \subseteq faults'
      /\ \/ /\ file' = Append(file, w)
            /\ pc' = ReadPc(st) \/ (pc' = "returned" /\ res' = "error")
         \/ file' = file /\ pc' = "returned" /\ res' = "write_failed"
  BY <1>2, <1>3 DEF Write, Exit, FileFails
<1>5. Going /\ ~Finished' /\ InHand(st) /\ (Going' => ~InHand(st)')
  BY <1>1, <1>4 DEF Going, Finished, InHand, ReadPc
<1>6. PICK n \in 0 .. Len(input[st]) : Sent(st, n)
  BY DEF KeepInv, Judged
<1>7. input[st] \in Seq(Int) /\ Len(input[st]) \in Nat /\ n \in Nat
  BY <1>1 DEF TypeOK
<1>8. n + 1 \in 1 .. Len(input[st]) /\ (n + 1) - 1 = n /\ pend[st].pts = input[st][n + 1]
  BY <1>5, <1>6, <1>7 DEF Sent, ToCome
<1> DEFINE q == KeptOf(st, input[st], n)
<1>9. KeptOf(st, input[st], n + 1) = Append(q, pts) /\ q \in Seq(Int)
  <2>1. KeptOf(st, input[st], n + 1) = Judge(st, q, input[st][n + 1])
    BY <1>7, <1>8, KeptSteps
  <2>2. LastKept(st, q)
    BY <1>5, <1>6 DEF Sent
  <2>3. q \in Seq(Int)
    BY <1>7, KeptType
  <2> HIDE DEF q
  <2> QED
    BY <1>1, <1>2, <1>8, <2>1, <2>2, <2>3 DEF Judge, LastKept, NotAfterLast
<1>10. /\ Len(Append(q, pts)) = Len(q) + 1 /\ Len(q) \in Nat /\ Append(q, pts) # <<>>
       /\ Append(q, pts)[Len(q) + 1] = pts
  <2> HIDE DEF q
  <2> QED
    BY <1>9
<1>11. NotYetRead'
  BY <1>4 DEF NotYetRead, ReadPc
<1>12. CASE file' = Append(file, w)
  <2>1. w \in Written /\ w.st = st /\ w.pts = pts
    BY <1>2, <1>3 DEF Written
  <2> HIDE DEF w, q
  <2>2. PICK k \in Nat : k = Len(file)
    <3>1. file \in Seq(Written)
      BY <1>1 DEF TypeOK, Written
    <3> QED
      BY <3>1
  <2>3. \A s \in Streams : Count(s) \in Nat /\ Count(s)' = IF s = st THEN Count(s) + 1 ELSE Count(s)
    BY <1>1, <1>12, <2>1, <2>2, FileGrows
  <2>4. /\ Len(file') = k + 1 /\ file'[k + 1] = w /\ Place(k + 1)' = Count(st)'
        /\ \A i \in 1 .. k : file'[i] = file[i] /\ Place(i)' = Place(i)
    BY <1>1, <1>12, <2>1, <2>2, FileGrows
  <2>5. Count(st)' = Len(q) + 1
    BY <1>6, <2>3 DEF Sent, q
  <2>6. \A m : Rest(st, m)' <=> Rest(st, m)
    BY <1>1 DEF Rest
  <2>7. Sent(st, n + 1)'
    <3>1. LastKept(st, KeptOf(st, input[st], n + 1))'
      <4>1. last'[st] = At(pts)
        BY <1>1, <1>4 DEF TypeOK
      <4> QED
        BY <1>1, <1>9, <1>10, <4>1 DEF LastKept, At
    <3>2. Going' => ToCome(st, n + 1)'
      BY <1>1, <1>4, <1>5, <1>6, <2>6 DEF Sent, ToCome
    <3> QED
      BY <1>1, <1>5, <1>9, <1>10, <2>5, <3>1, <3>2 DEF Sent
  <2>8. ASSUME NEW s \in Streams \ {st}, NEW m \in 0 .. Len(input[s]), Sent(s, m) PROVE Sent(s, m)'
    <3>1. InHand(s)' <=> InHand(s)
      BY <1>1, <1>4, <2>8 DEF InHand, ReadPc, Streams
    <3>2. m \in Nat /\ last'[s] = last[s] /\ Count(s)' = Count(s)
      BY <1>1, <1>4, <2>3 DEF TypeOK
    <3> QED
      BY <1>1, <1>4, <1>5, <2>8, <3>1, <3>2, OtherKeeps
  <2>9. Judged'
    <3>1. \E m \in 0 .. Len(input'[st]) : Sent(st, m)'
      BY <1>1, <1>7, <1>8, <2>7
    <3>2. ASSUME NEW s \in Streams \ {st} PROVE \E m \in 0 .. Len(input'[s]) : Sent(s, m)'
      BY <1>1, <2>8 DEF KeepInv, Judged
    <3> QED
      BY <3>1, <3>2 DEF Judged
  <2>10. Placed(k + 1)'
    <3> DEFINE all == Kept(st, input[st])
    <3>1. Len(q) + 1 <= Len(all) /\ all[Len(q) + 1] = pts
      <4>1. n + 1 \in 0 .. Len(input[st])
        BY <1>7, <1>8
      <4>2. Len(Append(q, pts)) <= Len(all) /\ \A i \in 1 .. Len(Append(q, pts)) : all[i] = Append(q, pts)[i]
        BY <1>7, <1>9, <4>1, KeptStays
      <4> HIDE DEF all
      <4> QED
        BY <1>10, <4>2
    <3>2. all = Kept(st, input'[st])
      BY <1>1
    <3> HIDE DEF all
    <3> QED
      BY <2>1, <2>4, <2>5, <3>1, <3>2 DEF Placed
  <2>11. \A i \in 1 .. k : Placed(i)'
    BY <1>1, <2>2, <2>4 DEF KeepInv, Placed
  <2>12. \A i \in 1 .. Len(file') : Placed(i)'
    <3>1. \A i \in 1 .. k + 1 : i \in 1 .. k \/ i = k + 1
      OBVIOUS
    <3> QED
      BY <2>4, <2>10, <2>11, <3>1
  <2> QED
    BY <1>11, <2>9, <2>12 DEF KeepInv
<1>13. CASE file' = file /\ pc' = "returned" /\ res' = "write_failed"
  <2>1. \A s \in Streams : Count(s)' = Count(s)
    BY <1>13 DEF Count, InFile
  <2>2. ~Going' /\ ~Finished'
    BY <1>13 DEF Going, Finished
  <2>3. \A s \in Streams : \A m \in 0 .. Len(input[s]) : Sent(s, m) => Sent(s, m)'
    BY <1>1, <2>1, <2>2 DEF Sent
  <2>4. Judged'
    BY <1>1, <2>3 DEF KeepInv, Judged
  <2>5. \A i \in 1 .. Len(file') : Placed(i)'
    BY <1>1, <1>13 DEF KeepInv, Placed, Place, InFile
  <2> QED
    BY <1>11, <2>4, <2>5 DEF KeepInv
<1> QED
  BY <1>4, <1>12, <1>13

LEMMA StepKeep == KeepInv /\ [Next]_vars => KeepInv'
<1> SUFFICES ASSUME KeepInv, [Next]_vars PROVE KeepInv'
  OBVIOUS
<1>1. TypeOK /\ ReturnInv /\ ReturnInv' /\ NotYetRead
  BY StepReturn DEF KeepInv, ReturnInv
<1>2. ASSUME SetupFails \/ Setup \/ WriteHeader \/ Abort \/ WriteTrailer \/ Return PROVE KeepInv'
  <2>1. UNCHANGED <<has, input, src, pend, last, file>> /\ faults \subseteq faults'
    BY <1>2 DEF SetupFails, Setup, WriteHeader, Abort, WriteTrailer, Return, DataUnchanged, FileFails
  <2>2. /\ pc \notin {"read_v", "read_a"} /\ pc' \notin {"read_v", "read_a"} /\ (Going' => Going)
        /\ (Finished' => Finished) /\ NotYetRead'
    BY <1>1, <1>2, <2>1 DEF SetupFails, Setup, WriteHeader, Abort, WriteTrailer, Return, FileFails, Exit,
       Going, Finished, NotYetRead, ReturnInv
  <2>3. \A st \in Streams : \A n \in 0 .. Len(input[st]) :
           Sent(st, n) /\ Finished' /\ "source" \notin faults' /\ st \in has => n = Len(input[st])
    BY <2>1, <2>2 DEF Sent
  <2> QED
    BY <1>1, <2>1, <2>2, <2>3, QuietKeeps
<1>3. ASSUME LoopEnds PROVE KeepInv'
  <2>1. /\ UNCHANGED <<has, input, src, pend, last, file, faults>>
        /\ pc = "loop" /\ pc' = "trailer" /\ \A st \in Streams : ~pend[st].has
    BY <1>3 DEF LoopEnds, DataUnchanged, Streams
  <2>2. ASSUME NEW st \in Streams, NEW n \in 0 .. Len(input[st]), Sent(st, n), "source" \notin faults,
               st \in has
        PROVE  n = Len(input[st])
    <3>1. ToCome(st, n) /\ ~InHand(st)
      BY <2>1, <2>2 DEF Sent, Going, InHand
    <3>2. Rest(st, n)
      BY <2>2, <3>1 DEF ToCome
    <3>3. src[st] = <<>>
      BY <1>1, <2>1, <2>2 DEF ReturnInv, Drained, Streams
    <3>4. Len(input[st]) \in Nat
      BY <1>1 DEF TypeOK
    <3> QED
      BY <3>2, <3>3, <3>4 DEF Rest
  <2>3. /\ pc \notin {"read_v", "read_a"} /\ pc' \notin {"read_v", "read_a"} /\ (Going' => Going)
        /\ NotYetRead' /\ faults \subseteq faults'
    BY <2>1 DEF Going, NotYetRead
  <2> QED
    BY <1>1, <2>1, <2>2, <2>3, QuietKeeps
<1>4. ASSUME NEW st \in Streams, NEW here, NEW there, ReadFirst(st, here, there),
             <<st, here, there>> \in {<<"v", "first_v", "first_a">>, <<"a", "first_a", "loop">>}
      PROVE  KeepInv'
  <2>1. /\ pc = here /\ pc' = there /\ pc' \in {"first_a", "loop"} /\ UNCHANGED <<has, input, last, file>>
        /\ pc \in {"first_v", "first_a"}
    BY <1>4 DEF ReadFirst
  <2>2. Going /\ ~Finished' /\ (\A s \in Streams : pc # ReadPc(s)) /\ ~InHand(st)
    BY <1>1, <1>4, <2>1 DEF Going, Finished, ReadPc, InHand, NotYetRead
  <2>3. ASSUME NEW s \in Streams, NEW n \in 0 .. Len(input[s]), Sent(s, n) PROVE Sent(s, n)'
    <3>1. CASE st \in has
      BY <1>1, <1>4, <2>1, <2>2, <2>3, <3>1, NextPacketKeeps DEF ReadFirst
    <3>2. CASE st \notin has
      <4>1. UNCHANGED <<src, pend, faults>>
        BY <1>4, <3>2 DEF ReadFirst
      <4>2. InHand(s)' <=> InHand(s)
        BY <2>1, <2>2, <4>1 DEF InHand, ReadPc
      <4>3. Count(s)' = Count(s) /\ n \in Nat
        BY <2>1 DEF Count, InFile
      <4> QED
        BY <2>1, <2>2, <2>3, <4>1, <4>2, <4>3, OtherKeeps
    <3> QED
      BY <3>1, <3>2
  <2>4. Judged'
    BY <2>1, <2>3 DEF KeepInv, Judged
  <2>5. \A i \in 1 .. Len(file') : Placed(i)'
    BY <2>1 DEF KeepInv, Placed, Place, InFile
  <2>6. NotYetRead'
    <3>1. CASE st = "v"
      <4>1. pend'["a"] = pend["a"]
        BY <1>1, <1>4, <3>1, NextPacketDrains DEF ReadFirst, Streams
      <4>2. pc = "first_v" /\ pc' = "first_a"
        BY <1>4, <2>1, <3>1
      <4> QED
        BY <1>1, <4>1, <4>2 DEF NotYetRead, Streams
    <3>2. CASE st = "a"
      BY <1>4, <2>1, <3>2 DEF NotYetRead
    <3> QED
      BY <3>1, <3>2 DEF Streams
  <2> QED
    BY <1>1, <2>4, <2>5, <2>6 DEF KeepInv
<1>5. ASSUME NEW st \in Streams, ReadNext(st, ReadPc(st)) PROVE KeepInv'
  <2>1. pc = ReadPc(st) /\ pc' = "loop" /\ NextPacket(st) /\ UNCHANGED <<has, input, last, file>>
    BY <1>5 DEF ReadNext
  <2>2. Going /\ ~InHand(st) /\ \A s \in Streams \ {st} : pc # ReadPc(s)
    BY <2>1 DEF Going, InHand, ReadPc, Streams
  <2>3. \A s \in Streams : \A n \in 0 .. Len(input[s]) : Sent(s, n) => Sent(s, n)'
    BY <1>1, <2>1, <2>2, NextPacketKeeps
  <2>4. Judged'
    BY <2>1, <2>3 DEF KeepInv, Judged
  <2>5. \A i \in 1 .. Len(file') : Placed(i)'
    BY <2>1 DEF KeepInv, Placed, Place, InFile
  <2>6. NotYetRead'
    BY <2>1 DEF NotYetRead
  <2> QED
    BY <1>1, <2>4, <2>5, <2>6 DEF KeepInv
<1>6. ASSUME NEW st \in Streams, Drop(st) \/ Write(st) PROVE KeepInv'
  BY <1>1, <1>6, DropKeeps, WriteKeeps
<1>7. CASE UNCHANGED vars
  <2>1. \A st \in Streams : \A n \in 0 .. Len(input[st]) : Sent(st, n) => Sent(st, n)'
    <3>1. \A st \in Streams : /\ (InHand(st)' <=> InHand(st)) /\ Count(st)' = Count(st)
                              /\ \A m : Rest(st, m)' <=> Rest(st, m)
      BY <1>7 DEF vars, InHand, Count, InFile, Rest
    <3>2. \A st \in Streams, n \in Nat : ToCome(st, n)' <=> ToCome(st, n)
      BY <1>7, <3>1 DEF vars, ToCome
    <3>3. \A st \in Streams : \A kept : LastKept(st, kept)' <=> LastKept(st, kept)
      BY <1>7 DEF vars, LastKept
    <3> QED
      BY <1>7, <3>1, <3>2, <3>3 DEF vars, Sent, Going, Finished
  <2>2. Judged'
    BY <1>7, <2>1 DEF vars, KeepInv, Judged
  <2>3. \A i \in 1 .. Len(file') : Placed(i)'
    BY <1>7 DEF vars, KeepInv, Placed, Place, InFile
  <2>4. NotYetRead'
    BY <1>1, <1>7 DEF vars, NotYetRead
  <2> QED
    BY <1>1, <2>2, <2>3, <2>4 DEF KeepInv
<1> QED
  BY <1>2, <1>3, <1>4, <1>5, <1>6, <1>7
  DEF Next, ReadFirstVideo, ReadFirstAudio, ReadNextVideo, ReadNextAudio, ReadPc, Streams

\* marm_mux: whatever the sources yield, however they and the file fail, what is in
\* the container is what the filter keeps of each source, in order and without a
\* gap, and all of it after a normal return of sources that did not fail.
THEOREM FileIsAlwaysMerged == Spec => []FileIsMergedInput
<1>1. ASSUME KeepInv, MergeInv PROVE FileIsMergedInput
  <2>1. file \in Seq(Written)
    BY <1>1 DEF KeepInv, ReturnInv, TypeOK, Written
  <2>2. DOMAIN file = 1 .. Len(file)
    BY <2>1
  <2>3. \A i \in DOMAIN file : Placed(i)
    BY <1>1, <2>2 DEF KeepInv
  <2>4. ASSUME outcome = "returns", faults = {}, NEW st \in has
        PROVE  Cardinality(InFile(st, Len(file))) = Len(Kept(st, input[st]))
    <3>1. Finished /\ st \in Streams
      BY <1>1, <2>4 DEF KeepInv, ReturnInv, Finished, TypeOK
    <3>2. PICK n \in 0 .. Len(input[st]) : Sent(st, n)
      BY <1>1, <3>1 DEF KeepInv, Judged
    <3>3. n = Len(input[st]) /\ Count(st) = Len(KeptOf(st, input[st], n))
      BY <2>4, <3>1, <3>2 DEF Sent
    <3>4. input[st] \in Seq(Int)
      BY <1>1, <3>1 DEF KeepInv, ReturnInv, TypeOK
    <3> QED
      BY <3>3, <3>4, KeptSteps DEF Count
  <2>5. MergedInOrder
    BY <1>1 DEF MergeInv, InputSorted, MergeOK, FileInOrder, MergedInOrder
  <2> QED
    BY <2>3, <2>4, <2>5 DEF FileIsMergedInput, Placed
<1> QED
  BY <1>1, InitKeep, StepKeep, InitMerge, StepMerge, PTL DEF Spec
=============================================================================
