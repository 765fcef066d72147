----------------------------- MODULE SegmentProofs -----------------------------
(***************************************************************************)
(* Proofs about Segment, for inputs of any length and any interval, with a *)
(* muxer that holds back as much as it likes and calls that fail anywhere. *)
(***************************************************************************)
EXTENDS Segment, FiniteSetTheorems, TLAPS

-----------------------------------------------------------------------------
(***************************************************************************)
(* Counters, modulo any CcMod; the lemmas on counting are RemuxProofs'.    *)
(***************************************************************************)
LEMMA ElementOfSeq == ASSUME NEW S, NEW s \in Seq(S), NEW i \in 1 .. Len(s) PROVE s[i] \in S
  OBVIOUS

LEMMA HeaderType == HeaderCcs \in [Streams -> Counter] /\ 0 \in Counter
  BY CcModAssumption DEF HeaderCcs, Counter

LEMMA CountUpType == ASSUME NEW c \in Counter PROVE CountUp(c) \in Counter
  BY CcModAssumption DEF CountUp, Counter

-----------------------------------------------------------------------------
(***************************************************************************)
(* Counting.                                                               *)
(***************************************************************************)
\* One more element: how the packets of a stream among the first n + 1 compare with
\* those among the first n.
LEMMA CountOfFirst ==
    ASSUME NEW n \in Nat, NEW A \in SUBSET (1 .. n), NEW B \in SUBSET (1 .. n + 1),
           \A j \in 1 .. n : j \in A <=> j \in B
    PROVE  /\ Cardinality(A) \in Nat
           /\ Cardinality(B) = IF n + 1 \in B THEN Cardinality(A) + 1 ELSE Cardinality(A)
<1>1. IsFiniteSet(1 .. n)
  BY FS_Interval
<1>2. IsFiniteSet(A) /\ Cardinality(A) \in Nat
  BY <1>1, FS_Subset, FS_CardinalityType
<1>3. /\ n + 1 \notin A /\ \A j \in 1 .. n + 1 : j \in 1 .. n \/ j = n + 1
      /\ \A j \in A : j \in 1 .. n
  OBVIOUS
<1>4. CASE n + 1 \in B
  <2>1. \A j : j \in B <=> j \in A \/ j = n + 1
    BY <1>3, <1>4
  <2>2. B = A \cup {n + 1}
    BY <2>1
  <2>3. Cardinality(A \cup {n + 1}) = Cardinality(A) + 1
    BY <1>2, <1>3, FS_AddElement
  <2> QED
    BY <1>2, <1>4, <2>2, <2>3
<1>5. CASE n + 1 \notin B
  <2>1. \A j : j \in B <=> j \in A
    BY <1>3, <1>5
  <2>2. B = A
    BY <2>1
  <2> QED
    BY <1>2, <1>5, <2>2
<1> QED
  BY <1>4, <1>5

\* Counting modulo m one at a time, or all at once.
LEMMA ModUnique ==
    ASSUME NEW m \in Nat \ {0}, NEW q \in Int, NEW r \in 0 .. m - 1
    PROVE  (m * q + r) % m = r
  OBVIOUS

LEMMA ModSmall == ASSUME NEW m \in Nat \ {0}, NEW r \in 0 .. m - 1 PROVE r % m = r
<1>1. (m * 0 + r) % m = r
  BY ModUnique
<1> QED
  BY <1>1

LEMMA ModDef ==
    ASSUME NEW m \in Nat \ {0}, NEW x \in Int
    PROVE  \E q \in Int : (x % m) \in 0 .. (m - 1) /\ x = (m * q) + (x % m)
<1>1. (x % m) \in 0 .. (m - 1) /\ x = (m * (x \div m)) + (x % m) /\ (x \div m) \in Int
  OBVIOUS
<1> QED
  BY <1>1

LEMMA ModNext ==
    ASSUME NEW m \in Nat \ {0}, NEW x \in Int
    PROVE  ((x % m) + 1) % m = (x + 1) % m
<1>1. PICK q \in Int : (x % m) \in 0 .. (m - 1) /\ x = (m * q) + (x % m)
  BY ModDef
<1> DEFINE r == x % m
<1>2. r \in 0 .. (m - 1) /\ x = m * q + r
  BY <1>1
<1> HIDE DEF r
<1>3. CASE r + 1 < m
  <2>1. (r + 1) \in 0 .. (m - 1)
    BY <1>2, <1>3
  <2>2. (m * q + (r + 1)) % m = r + 1
    BY <2>1, ModUnique
  <2>3. (m * 0 + (r + 1)) % m = r + 1
    BY <2>1, ModUnique
  <2>4. x + 1 = m * q + (r + 1) /\ m * 0 + (r + 1) = r + 1
    BY <1>2
  <2> QED
    BY <2>2, <2>3, <2>4 DEF r
<1>4. CASE r + 1 = m
  <2>1. (m * (q + 1) + 0) % m = 0 /\ (m * 1 + 0) % m = 0
    BY ModUnique
  <2>2. x + 1 = m * (q + 1) + 0 /\ r + 1 = m * 1 + 0
    BY <1>2, <1>4
  <2> QED
    BY <2>1, <2>2 DEF r
<1> QED
  BY <1>2, <1>3, <1>4

-----------------------------------------------------------------------------
(***************************************************************************)
(* Types.                                                                  *)
(***************************************************************************)
DiskType == [file : Nat, pkt : 1 .. Len(input.pkts), cc : Counter]

InHand == pc \in {"write", "flush"} => read \in 1 .. Len(input.pkts)

Running == pc \in {"read", "write", "muxing", "flush", "finish"}

Types == TypeOK /\ InHand /\ (Running => handles > 0)

LEMMA InitTypes == Init => Types
<1> SUFFICES ASSUME Init PROVE Types
  OBVIOUS
<1>1. input \in [video : SUBSET Streams, pkts : Seq(InputPacket)]
  BY InputsAssumption, Zenon DEF Init
<1>2. given \in UNION { [S -> Counter] : S \in SUBSET Streams }
  BY CcsAssumption, Zenon DEF Init
<1>3. /\ read = 0 /\ prev = Unset /\ nb = 0 /\ handles = 0 /\ queue = <<>> /\ disk = <<>>
      /\ cc = HeaderCcs /\ pc = "open" /\ res = "ok" /\ faults = {} /\ outcome = "none"
  BY Zenon DEF Init
<1>4. pb \in BOOLEAN
  BY Zenon DEF Init
<1>5. Len(input.pkts) \in Nat
  BY <1>1
<1>6. prev \in [set : BOOLEAN, pts : Int]
  BY <1>3 DEF Unset
<1> QED
  BY <1>1, <1>2, <1>3, <1>4, <1>5, <1>6, HeaderType DEF Types, TypeOK, InHand, Running

\* The packets still on disk are some of those that were.
LEMMA TruncatedType ==
    ASSUME NEW S, disk \in Seq(S)
    PROVE  Truncated \in Seq(S)
<1> DEFINE kept == { i \in DOMAIN disk : disk[i].file # nb }
           n == Cardinality(kept)
<1>1. DOMAIN disk = 1 .. Len(disk) /\ Len(disk) \in Nat
  OBVIOUS
<1>2. IsFiniteSet(1 .. Len(disk)) /\ Cardinality(1 .. Len(disk)) = Len(disk)
  BY <1>1, FS_Interval
<1>3. kept \in SUBSET (1 .. Len(disk))
  BY <1>1
<1> HIDE DEF kept
<1>4. n \in Nat /\ n <= Len(disk)
  BY <1>2, <1>3, FS_Subset, FS_CardinalityType
<1>5. Truncated = SubSeq(disk, 1, n)
  BY DEF Truncated, kept
<1> HIDE DEF n
<1> QED
  BY <1>1, <1>4, <1>5

\* A file that is not on disk yet truncates nothing.
LEMMA TruncatesNothing ==
    ASSUME NEW S, disk \in Seq(S), \A i \in 1 .. Len(disk) : disk[i].file # nb
    PROVE  Truncated = disk
<1>1. DOMAIN disk = 1 .. Len(disk) /\ Len(disk) \in Nat
  OBVIOUS
<1>2. { i \in DOMAIN disk : disk[i].file # nb } = 1 .. Len(disk)
  BY <1>1
<1>3. Cardinality(1 .. Len(disk)) = Len(disk)
  BY <1>1, FS_Interval
<1>4. Truncated = SubSeq(disk, 1, Len(disk))
  BY <1>2, <1>3 DEF Truncated
<1> QED
  BY <1>1, <1>4

LEMMA GivenType == ASSUME TypeOK PROVE ResetCcs(HeaderCcs, given) \in [Streams -> Counter]
<1>1. PICK S \in SUBSET Streams : given \in [S -> Counter]
  BY DEF TypeOK
<1> QED
  BY <1>1, HeaderType DEF ResetCcs

LEMMA NextTypes == ASSUME Types, [Next]_vars PROVE Types'
<1>0. /\ TypeOK /\ Len(input.pkts) \in Nat /\ InHand /\ handles \in Nat
      /\ disk \in Seq(DiskType) /\ queue \in Seq(1 .. Len(input.pkts))
      /\ input.pkts \in Seq(InputPacket)
  BY DEF Types, TypeOK, DiskType
<1> USE DEF io
<1>1. CASE OpenFails \/ DupFails \/ WriteDone \/ WriteFails
  <2>1. /\ UNCHANGED <<input, given, prev, io, faults, outcome>> /\ read' \in 0 .. Len(input.pkts)
        /\ \/ pc' = "exit" /\ res' = "error"
           \/ pc = "muxing" /\ pc' = "read" /\ res' = res
    <3>1. CASE OpenFails
      BY <1>0, <3>1 DEF OpenFails, Fail, TypeOK
    <3>2. CASE DupFails
      BY <1>0, <3>2 DEF DupFails, Fail, TypeOK
    <3>3. CASE WriteDone
      BY <1>0, <3>3 DEF WriteDone, GoTo, TypeOK
    <3>4. CASE WriteFails
      BY <1>0, <3>4 DEF WriteFails, Fail, TypeOK
    <3> QED
      BY <1>1, <3>1, <3>2, <3>3, <3>4
  <2> QED
    BY <1>0, <2>1 DEF Types, TypeOK, InHand, Running
<1>2. CASE HeaderFails
  <2>1. disk' \in Seq(DiskType)
    BY <1>0, <1>2, TruncatedType DEF HeaderFails
  <2>2. pb' \in BOOLEAN
    BY <1>2 DEF HeaderFails
  <2> QED
    BY <1>0, <1>2, <2>1, <2>2 DEF HeaderFails, Fail, Types, TypeOK, InHand, Running, DiskType
<1>3. CASE Open
  <2>1. disk' \in Seq(DiskType) /\ cc' \in [Streams -> Counter]
    <3>1. disk' \in Seq(DiskType)
      BY <1>0, <1>3, TruncatedType DEF Open
    <3>2. cc' \in [Streams -> Counter]
      BY <1>0, <1>3, GivenType DEF Open, TypeOK
    <3> QED
      BY <3>1, <3>2
  <2>2. /\ prev' \in [set : BOOLEAN, pts : Int]
        /\ pc' = "read" \/ (pc' = "write" /\ read \in 1 .. Len(input.pkts))
    <3>1. CASE read = 0
      <4>1. Unset \in [set : BOOLEAN, pts : Int]
        BY DEF Unset
      <4> QED
        BY <1>3, <3>1, <4>1, Zenon DEF Open, GoTo
    <3>2. CASE read # 0
      <4>1. read \in 1 .. Len(input.pkts)
        BY <1>0, <3>2 DEF TypeOK
      <4>2. Pkt(read) \in InputPacket
        BY <1>0, <4>1, ElementOfSeq DEF Pkt
      <4>3. Pkt(read).pts \in Int
        BY <4>2 DEF InputPacket
      <4>4. At(Pkt(read).pts) \in [set : BOOLEAN, pts : Int]
        BY <4>3 DEF At
      <4> QED
        BY <1>3, <3>2, <4>1, <4>4, Zenon DEF Open, GoTo
    <3> QED
      BY <3>1, <3>2
  <2>3. /\ UNCHANGED <<input, given, read, nb, queue, res, faults, outcome>>
        /\ pb' \in BOOLEAN /\ handles' = handles + 1
    BY <1>3 DEF Open, GoTo
  <2> QED
    BY <1>0, <2>1, <2>2, <2>3 DEF Types, TypeOK, InHand, Running, DiskType
<1>4. CASE Read
  <2>1. /\ read' = read + 1 /\ read + 1 \in 1 .. Len(input.pkts)
        /\ UNCHANGED <<input, given, nb, pb, handles, queue, disk, cc, res, faults, outcome>>
        /\ pc = "read" /\ pc' \in {"flush", "write"}
    BY <1>0, <1>4 DEF Read, GoTo, TypeOK
  <2>2. Pkt(read + 1).pts \in Int
    <3>1. Pkt(read + 1) \in InputPacket
      BY <1>0, <2>1, ElementOfSeq DEF Pkt
    <3> QED
      BY <3>1 DEF InputPacket
  <2>3. prev' \in [set : BOOLEAN, pts : Int]
    BY <1>0, <1>4, <2>2 DEF Read, At, TypeOK
  <2> QED
    BY <1>0, <2>1, <2>3 DEF Types, TypeOK, InHand, Running
<1>5. CASE ReadEnds \/ TrailerFails
  <2>1. /\ (pc = "read" /\ pc' = "finish") \/ pc' = "exit"
        /\ faults' \in SUBSET {"read", "input", "flush", "last_close"}
        /\ UNCHANGED <<input, given, read, prev, io, res, outcome>>
    BY <1>0, <1>5 DEF ReadEnds, TrailerFails, TypeOK
  <2> QED
    BY <1>0, <2>1 DEF Types, TypeOK, InHand, Running
<1>6. CASE Write
  <2>1. read \in 1 .. Len(input.pkts)
    BY <1>0, <1>6 DEF Write, InHand
  <2>2. queue' \in Seq(1 .. Len(input.pkts))
    BY <1>0, <1>6, <2>1 DEF Write
  <2> QED
    BY <1>0, <1>6, <2>2 DEF Write, GoTo, Types, TypeOK, InHand, Running
<1>7. CASE MuxerWrites
  <2> DEFINE st == Pkt(Head(queue)).st
             c == CountUp(cc[st])
             w == [file |-> nb, pkt |-> Head(queue), cc |-> c]
  <2>1. /\ disk' = Append(disk, w) /\ cc' = [cc EXCEPT ![st] = c] /\ queue' = Tail(queue)
        /\ queue # <<>>
        /\ UNCHANGED <<input, given, read, prev, nb, pb, handles, pc, res, faults, outcome>>
    BY <1>7 DEF MuxerWrites
  <2>2. Head(queue) \in 1 .. Len(input.pkts) /\ queue' \in Seq(1 .. Len(input.pkts))
    BY <1>0, <2>1
  <2>3. st \in Streams
    <3>1. Pkt(Head(queue)) \in InputPacket
      BY <1>0, <2>2, ElementOfSeq DEF Pkt
    <3> QED
      BY <3>1 DEF InputPacket
  <2>4. c \in Counter
    BY <1>0, <2>3, CountUpType DEF TypeOK
  <2> HIDE DEF c, st
  <2>5. w \in DiskType
    BY <1>0, <2>2, <2>4 DEF DiskType, TypeOK
  <2> HIDE DEF w
  <2>6. disk' \in Seq(DiskType) /\ cc' \in [Streams -> Counter]
    <3>1. disk' \in Seq(DiskType)
      BY <1>0, <2>1, <2>5
    <3>2. cc' \in [Streams -> Counter]
      BY <1>0, <2>1, <2>4 DEF TypeOK
    <3> QED
      BY <3>1, <3>2
  <2> QED
    BY <1>0, <2>1, <2>2, <2>6 DEF Types, TypeOK, InHand, Running, DiskType
<1>8. CASE FlushFails
  <2>1. queue' \in Seq(1 .. Len(input.pkts))
    BY <1>0, <1>8 DEF FlushFails
  <2>2. faults' \in SUBSET {"read", "input", "flush", "last_close"}
    BY <1>0, <1>8 DEF FlushFails, TypeOK
  <2> QED
    BY <1>0, <1>8, <2>1, <2>2 DEF FlushFails, Types, TypeOK, InHand, Running
<1>9. CASE Return
  <2>1. /\ UNCHANGED <<input, given, read, prev, io, res, faults>> /\ pc' = "done"
        /\ outcome' \in {"returns", "raises", "marm_error"}
    BY <1>9, Zenon DEF Return
  <2> QED
    BY <1>0, <2>1 DEF Types, TypeOK, InHand, Running
<1>11. CASE Close \/ LastClose
  <2>1. /\ UNCHANGED <<input, given, read, prev, queue, disk, cc, outcome>>
        /\ pb' \in BOOLEAN /\ handles' = handles - 1 /\ handles > 0 /\ nb' \in {nb, nb + 1}
        /\ pc' \in {"open", "exit"} /\ res' \in {"ok", "error"}
        /\ faults' \in SUBSET {"read", "input", "flush", "last_close"}
    <3>1. CASE Close
      BY <1>0, <3>1 DEF Close, CloseFile, Fail, GoTo, Types, TypeOK, Running
    <3>2. CASE LastClose
      BY <1>0, <3>2 DEF LastClose, CloseFile, GoTo, Types, TypeOK, Running
    <3> QED
      BY <1>11, <3>1, <3>2
  <2> QED
    BY <1>0, <2>1 DEF Types, TypeOK, InHand, Running
<1>10. CASE UNCHANGED vars
  BY <1>0, <1>10 DEF vars, Types, TypeOK, InHand, Running
<1> QED
  BY <1>1, <1>2, <1>3, <1>4, <1>5, <1>6, <1>7, <1>8, <1>9, <1>10, <1>11 DEF Next

-----------------------------------------------------------------------------
(***************************************************************************)
(* Where the packets are, as long as no flush has failed: on disk or in    *)
(* the muxer, in the order of the input.                                   *)
(***************************************************************************)
Sound == "flush" \notin faults

InMuxer == Len(disk) + Len(queue)

Layout ==
    Sound => /\ \A i \in 1 .. Len(disk) : disk[i].pkt = i
             /\ \A j \in 1 .. Len(queue) : queue[j] = Len(disk) + j

Flow ==
    /\ pc \notin {"exit", "done"} => res = "ok"
    /\ Sound /\ res = "ok" =>
         InMuxer = IF pc \in {"flush", "open", "write"} /\ read > 0 THEN read - 1 ELSE read
    /\ Sound /\ pc = "open" => queue = <<>> /\ (nb = 0 <=> read = 0)

Ending ==
    /\ Sound /\ pc = "open" => handles = 0
    /\ Sound /\ Running => handles = 1
    /\ pc = "finish" => faults # {} \/ read = Len(input.pkts)
    /\ pc \in {"exit", "done"} /\ res = "ok" /\ faults = {} =>
         handles = 0 /\ queue = <<>> /\ read = Len(input.pkts)
    /\ outcome = "returns" => pc = "done" /\ res = "ok"
    /\ pc # "done" => outcome = "none"

LEMMA InitPlaces == Init => Layout /\ Flow /\ Ending
  BY DEF Init, Layout, Flow, Ending, InMuxer, Running

\* A first file, or one after a flush, is new on disk as long as no flush has failed.
NewFile == Sound /\ pc = "open" => \A i \in 1 .. Len(disk) : disk[i].file < nb

LEMMA OpenKeepsDisk ==
    ASSUME Types, NewFile, Sound, pc = "open" PROVE Truncated = disk
<1>1. /\ disk \in Seq(DiskType) /\ nb \in Nat
  BY DEF Types, TypeOK, DiskType
<1>2. \A i \in 1 .. Len(disk) : disk[i].file # nb
  BY <1>1 DEF NewFile
<1> QED
  BY <1>1, <1>2, TruncatesNothing

LEMMA SoundBefore == ASSUME [Next]_vars, Sound' PROVE Sound
  BY DEF Next, OpenFails, HeaderFails, Open, Read, ReadEnds, DupFails, Write, MuxerWrites,
         WriteDone, WriteFails, FlushFails, Close, LastClose, TrailerFails, Return, Fail, GoTo,
         vars, Sound

\* A packet that the muxer writes keeps its place, and its file.
LEMMA MuxerWritesKeeps ==
    ASSUME Types, Layout, Sound, MuxerWrites
    PROVE  /\ Len(queue) > 0 /\ Len(queue') = Len(queue) - 1 /\ Len(disk') = Len(disk) + 1
           /\ \A i \in 1 .. Len(disk) : disk'[i] = disk[i]
           /\ disk'[Len(disk) + 1].pkt = Len(disk) + 1
           /\ disk'[Len(disk) + 1].file = nb
           /\ disk'[Len(disk) + 1].cc = CountUp(cc[Pkt(Len(disk) + 1).st])
           /\ cc' = [cc EXCEPT ![Pkt(Len(disk) + 1).st] = CountUp(cc[Pkt(Len(disk) + 1).st])]
           /\ \A j \in 1 .. Len(queue') : queue'[j] = queue[j + 1]
<1>0. /\ disk \in Seq(DiskType) /\ queue \in Seq(1 .. Len(input.pkts))
      /\ Len(disk) \in Nat /\ Len(queue) \in Nat
  BY DEF Types, TypeOK, DiskType
<1>1. queue # <<>> /\ queue' = Tail(queue)
  BY DEF MuxerWrites
<1>2. Len(queue) > 0 /\ Head(queue) = queue[1] /\ 1 \in 1 .. Len(queue)
  BY <1>0, <1>1
<1>3. Head(queue) = Len(disk) + 1
  BY <1>2 DEF Layout
<1>4. PICK w : /\ disk' = Append(disk, w) /\ w.file = nb /\ w.pkt = Len(disk) + 1
               /\ w.cc = CountUp(cc[Pkt(Len(disk) + 1).st])
               /\ cc' = [cc EXCEPT ![Pkt(Len(disk) + 1).st] =
                                      CountUp(cc[Pkt(Len(disk) + 1).st])]
  BY <1>3 DEF MuxerWrites
<1>5. /\ Len(disk') = Len(disk) + 1 /\ disk'[Len(disk) + 1] = w
      /\ \A i \in 1 .. Len(disk) : disk'[i] = disk[i]
  BY <1>0, <1>4
<1>6. Len(queue') = Len(queue) - 1 /\ \A j \in 1 .. Len(queue') : queue'[j] = queue[j + 1]
  BY <1>0, <1>1, <1>2
<1> QED
  BY <1>2, <1>4, <1>5, <1>6

LEMMA NextLayout ==
    ASSUME Types, NewFile, Layout, Flow, [Next]_vars PROVE Layout'
<1> SUFFICES ASSUME Sound' PROVE /\ \A i \in 1 .. Len(disk') : disk'[i].pkt = i
                                 /\ \A j \in 1 .. Len(queue') : queue'[j] = Len(disk') + j
  BY DEF Layout
<1>0. /\ disk \in Seq(DiskType) /\ queue \in Seq(1 .. Len(input.pkts)) /\ Sound
      /\ Len(disk) \in Nat /\ Len(queue) \in Nat
  BY SoundBefore DEF Types, TypeOK, DiskType
<1>1. CASE MuxerWrites
  <2>1. /\ Len(queue) > 0 /\ Len(queue') = Len(queue) - 1 /\ Len(disk') = Len(disk) + 1
        /\ \A i \in 1 .. Len(disk) : disk'[i] = disk[i]
        /\ disk'[Len(disk) + 1].pkt = Len(disk) + 1
        /\ \A j \in 1 .. Len(queue') : queue'[j] = queue[j + 1]
    BY <1>0, <1>1, MuxerWritesKeeps
  <2>2. ASSUME NEW i \in 1 .. Len(disk') PROVE disk'[i].pkt = i
    <3>1. i \in 1 .. Len(disk) \/ i = Len(disk) + 1
      BY <1>0, <2>1
    <3>2. \A h \in 1 .. Len(disk) : disk[h].pkt = h
      BY <1>0 DEF Layout
    <3> QED
      BY <2>1, <3>1, <3>2
  <2>3. ASSUME NEW j \in 1 .. Len(queue') PROVE queue'[j] = Len(disk') + j
    <3>1. j + 1 \in 1 .. Len(queue)
      BY <1>0, <2>1
    <3>2. queue[j + 1] = Len(disk) + (j + 1)
      BY <1>0, <3>1 DEF Layout
    <3> QED
      BY <1>0, <2>1, <3>2
  <2> QED
    BY <2>2, <2>3
<1>2. CASE Write
  <2>1. queue' = Append(queue, read) /\ disk' = disk /\ pc = "write" /\ read \in 1 .. Len(input.pkts)
    BY <1>2 DEF Write, Types, InHand
  <2>2. InMuxer = read - 1
    BY <1>0, <2>1 DEF Flow
  <2>3. read = Len(disk) + Len(queue) + 1
    BY <1>0, <2>1, <2>2 DEF InMuxer
  <2>4. ASSUME NEW j \in 1 .. Len(queue') PROVE queue'[j] = Len(disk') + j
    <3>1. \/ j \in 1 .. Len(queue) /\ queue'[j] = queue[j]
          \/ j = Len(queue) + 1 /\ queue'[j] = read
      BY <1>0, <2>1
    <3>2. \A h \in 1 .. Len(queue) : queue[h] = Len(disk) + h
      BY <1>0 DEF Layout
    <3>3. Len(disk') = Len(disk) /\ Len(disk) + (Len(queue) + 1) = read
      BY <1>0, <2>1, <2>3
    <3> QED
      BY <3>1, <3>2, <3>3
  <2> QED
    BY <1>0, <2>1, <2>4 DEF Layout
<1>3. CASE HeaderFails \/ Open
  <2>1. Truncated = disk
    BY <1>0, <1>3, OpenKeepsDisk DEF HeaderFails, Open
  <2>2. disk' = disk /\ queue' = queue
    BY <1>3, <2>1 DEF HeaderFails, Open
  <2> QED
    BY <1>0, <2>2 DEF Layout
<1>4. CASE FlushFails
  BY <1>4 DEF FlushFails, Sound
<1>5. CASE [Next /\ ~MuxerWrites /\ ~Write /\ ~HeaderFails /\ ~Open /\ ~FlushFails]_vars
  <2>1. disk' = disk /\ queue' = queue
    BY <1>5 DEF Next, OpenFails, Read, ReadEnds, DupFails, WriteDone, WriteFails, Close, LastClose,
                TrailerFails, Return, vars, io
  <2> QED
    BY <1>0, <2>1 DEF Layout
<1> QED
  BY <1>1, <1>2, <1>3, <1>4, <1>5

LEMMA NextFlow ==
    ASSUME Types, NewFile, Layout, Flow, [Next]_vars PROVE Flow'
<1>0. /\ disk \in Seq(DiskType) /\ queue \in Seq(1 .. Len(input.pkts))
      /\ Len(disk) \in Nat /\ Len(queue) \in Nat /\ read \in Nat /\ nb \in Nat
      /\ (Sound' => Sound)
  BY SoundBefore DEF Types, TypeOK, DiskType
<1>1. CASE MuxerWrites
  <2>1. UNCHANGED <<pc, res, read, faults, nb>> /\ pc # "open"
    BY <1>1 DEF MuxerWrites
  <2>2. ASSUME Sound PROVE InMuxer' = InMuxer
    <3>1. Len(queue') = Len(queue) - 1 /\ Len(disk') = Len(disk) + 1
      BY <1>1, <2>2, MuxerWritesKeeps
    <3> QED
      BY <1>0, <3>1 DEF InMuxer
  <2>3. Sound' <=> Sound
    BY <2>1 DEF Sound
  <2> QED
    BY <2>1, <2>2, <2>3 DEF Flow
<1>2. CASE Write
  <2>1. /\ queue' = Append(queue, read) /\ disk' = disk /\ pc = "write" /\ pc' = "muxing"
        /\ UNCHANGED <<read, res, faults>> /\ read > 0
    BY <1>0, <1>2 DEF Write, GoTo, Types, InHand
  <2>2. InMuxer' = InMuxer + 1
    BY <1>0, <2>1 DEF InMuxer
  <2> QED
    BY <1>0, <2>1, <2>2 DEF Flow
<1>3. CASE HeaderFails \/ Open
  <2>1. Sound => disk' = disk
    BY <1>3, OpenKeepsDisk DEF HeaderFails, Open
  <2>2. /\ queue' = queue /\ read' = read /\ pc = "open"
        /\ \/ res' = "error" /\ pc' = "exit"
           \/ res' = res /\ pc' = (IF read = 0 THEN "read" ELSE "write")
    BY <1>3 DEF HeaderFails, Open, Fail, GoTo
  <2>3. Sound => InMuxer' = InMuxer
    BY <2>1, <2>2 DEF InMuxer
  <2> QED
    BY <1>0, <2>2, <2>3 DEF Flow
<1>4. CASE FlushFails
  BY <1>4 DEF FlushFails, Sound, Flow
<1>5. CASE Read
  <2>1. /\ pc = "read" /\ pc' \in {"flush", "write"} /\ read' = read + 1 /\ res' = res
        /\ disk' = disk /\ queue' = queue
    BY <1>5 DEF Read, GoTo, io
  <2>2. InMuxer' = InMuxer
    BY <2>1 DEF InMuxer
  <2> QED
    BY <1>0, <2>1, <2>2 DEF Flow
<1>6. CASE Close
  <2>1. /\ pc = "flush" /\ read' = read /\ read > 0 /\ disk' = disk /\ queue' = queue /\ queue = <<>>
        /\ \/ pc' = "open" /\ nb' = nb + 1 /\ res' = res
           \/ pc' = "exit" /\ res' = "error"
    BY <1>0, <1>6 DEF Close, GoTo, Fail, Types, InHand
  <2>2. InMuxer' = InMuxer
    BY <2>1 DEF InMuxer
  <2> QED
    BY <1>0, <2>1, <2>2 DEF Flow
<1>7. CASE [Next /\ ~MuxerWrites /\ ~Write /\ ~HeaderFails /\ ~Open /\ ~FlushFails /\ ~Read
            /\ ~Close]_vars
  <2>1. /\ disk' = disk /\ queue' = queue
        /\ \/ UNCHANGED <<pc, read, nb, res>>
           \/ res' = "error" /\ pc' = "exit"
           \/ UNCHANGED <<read, res>> /\ pc \notin {"open", "flush", "write"}
              /\ pc' \notin {"open", "flush", "write"} /\ (pc \in {"exit"} \/ res = "ok")
    BY <1>7 DEF Next, OpenFails, ReadEnds, DupFails, WriteDone, WriteFails, LastClose,
                TrailerFails, Return, vars, io, GoTo, Fail, Flow
  <2>2. InMuxer' = InMuxer
    BY <2>1 DEF InMuxer
  <2>3. pc' \notin {"exit", "done"} => res' = "ok"
    BY <1>7, <2>1 DEF Next, OpenFails, ReadEnds, DupFails, WriteDone, WriteFails, LastClose,
                TrailerFails, Return, vars, GoTo, Fail, Flow
  <2> QED
    BY <1>0, <2>1, <2>2, <2>3 DEF Flow
<1> QED
  BY <1>1, <1>2, <1>3, <1>4, <1>5, <1>6, <1>7

LEMMA NextEnding ==
    ASSUME Types, Flow, Ending, [Next]_vars PROVE Ending'
<1>0. handles \in Nat /\ (Sound' => Sound)
  BY SoundBefore DEF Types, TypeOK
<1>1. CASE OpenFails \/ HeaderFails \/ Open \/ FlushFails
  BY <1>0, <1>1 DEF OpenFails, HeaderFails, Open, FlushFails, Fail, GoTo, Ending, Running, Sound, io
<1>2. CASE Read \/ ReadEnds \/ DupFails
  BY <1>0, <1>2 DEF Read, ReadEnds, DupFails, Fail, GoTo, Ending, Running, io
<1>3. CASE Write \/ MuxerWrites \/ WriteDone \/ WriteFails
  BY <1>0, <1>3 DEF Write, MuxerWrites, WriteDone, WriteFails, Fail, GoTo, Ending, Running, Sound, io
<1>4. CASE Close
  BY <1>0, <1>4 DEF Close, CloseFile, Fail, GoTo, Ending, Running
<1>5. CASE LastClose
  <2>1. handles' = handles - 1 /\ pc = "finish" /\ queue = <<>> /\ pc' = "exit"
        /\ UNCHANGED <<read, input, queue, res, outcome>> /\ (faults' = faults \/ faults' # {})
    BY <1>5 DEF LastClose, CloseFile, GoTo
  <2>2. faults' = {} => Sound /\ handles = 1 /\ "read" \notin faults
    BY <1>5, <2>1 DEF LastClose, GoTo, Sound, Ending, Running
  <2> QED
    BY <1>0, <2>1, <2>2 DEF Ending, Running
<1>6. CASE TrailerFails
  BY <1>0, <1>6 DEF TrailerFails, Ending, Running, io
<1>7. CASE Return
  <2>1. /\ pc = "exit" /\ pc' = "done"
        /\ UNCHANGED <<handles, queue, read, input, res, faults>>
        /\ outcome' = "returns" => res = "ok"
    BY <1>7, Zenon DEF Return, io
  <2> QED
    BY <2>1 DEF Ending, Running
<1>8. CASE UNCHANGED vars
  BY <1>0, <1>8 DEF vars, Ending, Running, Sound
<1> QED
  BY <1>1, <1>2, <1>3, <1>4, <1>5, <1>6, <1>7, <1>8 DEF Next

-----------------------------------------------------------------------------
(***************************************************************************)
(* Which file the packets go to, as long as no flush has failed.           *)
(***************************************************************************)
FileOf(i) == IF i <= Len(disk) THEN disk[i].file ELSE nb

\* Packets whose file is settled: the one in hand, too, once it is to be written.
Placed == IF pc = "write" THEN InMuxer + 1 ELSE InMuxer

\* The first packet of the reference stream in its file.
Lead(j) ==
    /\ Pkt(j).st = RefStream
    /\ \A k \in 1 .. j - 1 : FileOf(k) = FileOf(j) => Pkt(k).st # RefStream

Files ==
    /\ \A i \in 1 .. Placed : FileOf(i) \in 0 .. nb
    /\ \A i, j \in 1 .. Placed : j <= i => FileOf(j) <= FileOf(i)
    /\ Placed > 0 => \A v \in 0 .. nb - 1 : \E i \in 1 .. Placed : FileOf(i) = v
    /\ Running /\ Placed > 0 => FileOf(Placed) = nb
    /\ pc = "flush" \/ (Running /\ nb > 0) => Placed > 0
    /\ pc = "open" => (\A i \in 1 .. Placed : FileOf(i) < nb) /\ (nb > 0 => Placed > 0)

MaySplit(p) == p.st = RefStream /\ (RefIsVideo => p.key)

Splits ==
    /\ \A i \in 2 .. Placed : FileOf(i) # FileOf(i - 1) =>
         /\ MaySplit(Pkt(i))
         /\ \A j \in 1 .. i - 1 : FileOf(j) = FileOf(i) - 1 /\ Lead(j) =>
              Pkt(i).pts - Pkt(j).pts >= Interval
    /\ \A i, j \in 1 .. Placed :
         j < i /\ FileOf(i) = FileOf(j) /\ Lead(j) /\ MaySplit(Pkt(i)) =>
           Pkt(i).pts - Pkt(j).pts < Interval

\* prev is the timestamp of the first packet of the reference stream in this file.
Begun ==
    pc \in {"read", "write", "muxing", "flush"} =>
      IF prev.set THEN \E j \in 1 .. Placed : FileOf(j) = nb /\ Lead(j) /\ prev.pts = Pkt(j).pts
                  ELSE \A j \in 1 .. Placed : FileOf(j) = nb => Pkt(j).st # RefStream

\* The packet in hand during a split.
Pending ==
    pc = "flush" \/ (pc = "open" /\ read > 0) =>
      /\ MaySplit(Pkt(read))
      /\ \A j \in 1 .. Placed :
           FileOf(j) = (IF pc = "flush" THEN nb ELSE nb - 1) /\ Lead(j) =>
             Pkt(read).pts - Pkt(j).pts >= Interval

Divided == Sound => Files /\ Splits /\ Begun /\ Pending

LEMMA InitDivided == Init => Divided
<1> SUFFICES ASSUME Init PROVE Files /\ Splits /\ Begun /\ Pending
  BY DEF Divided
<1>1. Placed = 0 /\ pc = "open" /\ read = 0 /\ nb = 0
  BY DEF Init, Placed, InMuxer
<1>2. Files
  BY <1>1 DEF Files, Running
<1>3. Splits
  BY <1>1 DEF Splits
<1>4. Begun /\ Pending
  BY <1>1 DEF Begun, Pending
<1> QED
  BY <1>2, <1>3, <1>4

LEMMA PlacedType == ASSUME Types PROVE Placed \in Nat /\ nb \in Nat
<1>1. disk \in Seq(DiskType) /\ queue \in Seq(1 .. Len(input.pkts)) /\ nb \in Nat
  BY DEF Types, TypeOK, DiskType
<1> QED
  BY <1>1 DEF Placed, InMuxer

\* In an opened file nothing was written before.
LEMMA FilesAreNew == ASSUME Types, Flow, Sound => Files PROVE NewFile
<1> SUFFICES ASSUME Sound, pc = "open", NEW i \in 1 .. Len(disk) PROVE disk[i].file < nb
  BY DEF NewFile
<1>1. Placed = Len(disk)
  <2>1. queue = <<>> /\ disk \in Seq(DiskType)
    BY DEF Flow, Types, TypeOK, DiskType
  <2> QED
    BY <2>1 DEF Placed, InMuxer
<1>2. FileOf(i) < nb
  BY <1>1 DEF Files
<1> QED
  BY <1>2 DEF FileOf

\* What a step does to files and places, with n packets placed before.
Kept(n) == /\ input' = input
           /\ \A i \in 1 .. n : FileOf(i)' = FileOf(i)

Stands(n) ==
    /\ Placed' = n /\ nb' = nb /\ prev' = prev /\ read' = read
    /\ \/ pc' = pc
       \/ pc = "write" /\ pc' = "muxing"
       \/ pc = "muxing" /\ pc' = "read"
       \/ pc = "read" /\ pc' = "finish"

Stops(n) ==
    /\ Placed' = n /\ pc' \in {"exit", "done"}
    /\ nb' = nb \/ (pc = "finish" /\ nb' = nb + 1)

StartsInput(n) ==
    /\ pc = "open" /\ pc' = "read" /\ n = 0 /\ Placed' = 0 /\ nb = 0 /\ nb' = 0
    /\ prev' = Unset

Takes(n) == Placed' = n + 1 /\ FileOf(n + 1)' = nb /\ nb' = nb /\ read' = n + 1 /\ pc' = "write"

TakesNext(n) ==
    /\ pc = "read" /\ Takes(n) /\ ~AtSplit(Pkt(n + 1))
    /\ prev' = IF Pkt(n + 1).st = RefStream /\ ~prev.set THEN At(Pkt(n + 1).pts) ELSE prev

Splitting(n) ==
    /\ pc = "read" /\ pc' = "flush" /\ Placed' = n /\ nb' = nb /\ read' = n + 1
    /\ AtSplit(Pkt(n + 1)) /\ prev' = prev

Closes(n) ==
    /\ pc = "flush" /\ pc' = "open" /\ Placed' = n /\ nb' = nb + 1 /\ read' = read /\ read > 0

TakesFirst(n) ==
    /\ pc = "open" /\ Takes(n) /\ read = n + 1 /\ nb > 0
    /\ prev' = At(Pkt(n + 1).pts)

LEMMA Steps ==
    ASSUME Types, Layout, Flow, Sound => Files, [Next]_vars, Sound',
           NEW n \in Nat, n = Placed
    PROVE  /\ Kept(n)
           /\ \/ Stands(n) \/ Stops(n) \/ StartsInput(n)
              \/ TakesNext(n) \/ Splitting(n) \/ Closes(n) \/ TakesFirst(n)
<1>0. /\ disk \in Seq(DiskType) /\ queue \in Seq(1 .. Len(input.pkts)) /\ Sound /\ NewFile
      /\ Len(disk) \in Nat /\ Len(queue) \in Nat /\ read \in Nat /\ nb \in Nat /\ Flow'
      /\ n = Placed
  BY SoundBefore, NextFlow, FilesAreNew DEF Types, TypeOK, DiskType
<1>1. CASE MuxerWrites
  <2>1. UNCHANGED <<pc, read, prev, nb, input>> /\ pc # "write"
    BY <1>1 DEF MuxerWrites
  <2>2. /\ Len(queue) > 0 /\ Len(queue') = Len(queue) - 1 /\ Len(disk') = Len(disk) + 1
        /\ \A i \in 1 .. Len(disk) : disk'[i] = disk[i]
        /\ disk'[Len(disk) + 1].file = nb
    BY <1>0, <1>1, MuxerWritesKeeps
  <2>3. Placed' = n
    BY <1>0, <2>1, <2>2 DEF Placed, InMuxer
  <2>4. ASSUME NEW i \in 1 .. n PROVE FileOf(i)' = FileOf(i)
    <3>1. CASE i <= Len(disk)
      BY <1>0, <2>2, <3>1 DEF FileOf
    <3>2. CASE i = Len(disk) + 1
      BY <1>0, <2>2, <3>2 DEF FileOf
    <3>3. CASE i > Len(disk) + 1
      BY <1>0, <2>1, <2>2, <3>3 DEF FileOf
    <3>4. i <= Len(disk) \/ i = Len(disk) + 1 \/ i > Len(disk) + 1
      BY <1>0
    <3> QED
      BY <3>1, <3>2, <3>3, <3>4, Zenon
  <2> QED
    BY <2>1, <2>3, <2>4 DEF Kept, Stands
<1>2. CASE Write
  <2>1. /\ queue' = Append(queue, read) /\ pc = "write" /\ pc' = "muxing"
        /\ UNCHANGED <<disk, nb, read, prev, input>>
    BY <1>2 DEF Write, GoTo
  <2>2. Placed' = n
    BY <1>0, <2>1 DEF Placed, InMuxer
  <2> QED
    BY <2>1, <2>2 DEF Kept, Stands, FileOf
<1>3. CASE HeaderFails \/ Open
  <2>1. /\ disk' = disk /\ UNCHANGED <<queue, nb, read, input>> /\ pc = "open"
        /\ \/ pc' = "exit"
           \/ read = 0 /\ pc' = "read" /\ prev' = Unset
           \/ read # 0 /\ pc' = "write" /\ prev' = At(Pkt(read).pts)
    <3>1. disk' = disk
      BY <1>0, <1>3, OpenKeepsDisk DEF HeaderFails, Open
    <3>2. CASE HeaderFails
      BY <3>1, <3>2 DEF HeaderFails, Fail
    <3>3. CASE Open
      BY <3>1, <3>3, Zenon DEF Open, GoTo
    <3> QED
      BY <1>3, <3>2, <3>3
  <2>2. Kept(n)
    BY <2>1 DEF Kept, FileOf
  <2>3. queue = <<>> /\ Len(queue) = 0 /\ (nb = 0 <=> read = 0) /\ InMuxer = Len(disk)
        /\ InMuxer = (IF read > 0 THEN read - 1 ELSE read) /\ n = InMuxer
    BY <1>0, <2>1 DEF Flow, InMuxer, Placed
  <2>4. InMuxer' = InMuxer /\ Placed' = IF pc' = "write" THEN n + 1 ELSE n
    BY <2>1, <2>3 DEF InMuxer, Placed
  <2>5. CASE pc' = "exit"
    BY <2>1, <2>2, <2>4, <2>5 DEF Stops
  <2>6. CASE read = 0 /\ pc' = "read" /\ prev' = Unset
    BY <1>0, <2>1, <2>2, <2>3, <2>4, <2>6 DEF StartsInput
  <2>7. CASE read # 0 /\ pc' = "write" /\ prev' = At(Pkt(read).pts)
    <3>1. read = n + 1 /\ nb > 0
      BY <1>0, <2>3, <2>7
    <3>2. FileOf(n + 1)' = nb
      BY <1>0, <2>1, <2>3 DEF FileOf
    <3>3. Takes(n)
      BY <2>1, <2>4, <2>7, <3>1, <3>2 DEF Takes
    <3> QED
      BY <2>1, <2>2, <2>7, <3>1, <3>3 DEF TakesFirst
  <2> QED
    BY <2>1, <2>5, <2>6, <2>7
<1>4. CASE FlushFails
  BY <1>4 DEF FlushFails, Sound
<1>5. CASE Read
  <2>1. /\ pc = "read" /\ read' = read + 1 /\ UNCHANGED <<disk, queue, nb, input>>
        /\ pc' = (IF AtSplit(Pkt(read + 1)) THEN "flush" ELSE "write")
        /\ prev' = IF Pkt(read + 1).st = RefStream /\ ~prev.set THEN At(Pkt(read + 1).pts) ELSE prev
    BY <1>5, Zenon DEF Read, GoTo, io
  <2>2. Kept(n)
    BY <2>1 DEF Kept, FileOf
  <2>3. n = InMuxer /\ n = read /\ InMuxer' = InMuxer
    BY <1>0, <2>1 DEF Flow, InMuxer, Placed
  <2>4. CASE AtSplit(Pkt(read + 1))
    <3>1. pc' = "flush" /\ prev' = prev
      BY <2>1, <2>4, Zenon DEF AtSplit
    <3>2. Placed' = n
      BY <2>3, <3>1 DEF Placed
    <3> QED
      BY <2>1, <2>2, <2>3, <2>4, <3>1, <3>2 DEF Splitting
  <2>5. CASE ~AtSplit(Pkt(read + 1))
    <3>1. pc' = "write"
      BY <2>1, <2>5
    <3>2. Placed' = n + 1
      BY <2>3, <3>1 DEF Placed
    <3>3. FileOf(n + 1)' = nb
      BY <1>0, <2>1, <2>3 DEF FileOf, InMuxer
    <3>4. Takes(n)
      BY <2>1, <2>3, <3>1, <3>2, <3>3 DEF Takes
    <3> QED
      BY <2>1, <2>2, <2>3, <2>5, <3>4, Zenon DEF TakesNext
  <2> QED
    BY <2>4, <2>5
<1>6. CASE Close \/ LastClose
  <2>1. /\ pc \in {"flush", "finish"} /\ queue = <<>> /\ UNCHANGED <<disk, queue, read, prev, input>>
        /\ \/ pc = "flush" /\ pc' = "open" /\ nb' = nb + 1
           \/ pc' = "exit" /\ nb' = nb
           \/ pc' = "exit" /\ pc = "finish" /\ nb' = nb + 1
    BY <1>6 DEF Close, LastClose, GoTo, Fail
  <2>2. n = Len(disk) /\ Placed' = n
    BY <1>0, <2>1 DEF Placed, InMuxer
  <2>3. Kept(n)
    BY <1>0, <2>1, <2>2 DEF Kept, FileOf
  <2>4. pc = "flush" => read > 0
    BY <1>0 DEF Types, InHand
  <2> QED
    BY <2>1, <2>2, <2>3, <2>4 DEF Closes, Stops
<1>7. CASE [Next /\ ~MuxerWrites /\ ~Write /\ ~HeaderFails /\ ~Open /\ ~FlushFails /\ ~Read
            /\ ~Close /\ ~LastClose]_vars
  <2>1. /\ UNCHANGED <<disk, queue, nb, prev, input>>
        /\ \/ pc' \in {"exit", "done"} /\ pc # "write"
           \/ UNCHANGED <<pc, read>>
           \/ read' = read /\ pc = "muxing" /\ pc' = "read"
           \/ read' = read /\ pc = "read" /\ pc' = "finish"
    BY <1>7 DEF Next, OpenFails, ReadEnds, DupFails, WriteDone, WriteFails,
                TrailerFails, Return, vars, io, GoTo, Fail
  <2>2. Placed' = n
    BY <1>0, <2>1 DEF InMuxer, Placed
  <2> QED
    BY <2>1, <2>2 DEF Kept, FileOf, Stands, Stops
<1> QED
  BY <1>1, <1>2, <1>3, <1>4, <1>5, <1>6, <1>7

LEMMA LeadKept ==
    ASSUME NEW n \in Nat, Kept(n), NEW j \in 1 .. n
    PROVE  Pkt(j)' = Pkt(j) /\ (Lead(j)' <=> Lead(j)) /\ (MaySplit(Pkt(j))' <=> MaySplit(Pkt(j)))
<1>1. \A k \in 1 .. j - 1 : k \in 1 .. n
  OBVIOUS
<1>2. \A k \in 1 .. n : FileOf(k)' = FileOf(k) /\ Pkt(k)' = Pkt(k)
  BY DEF Kept, Pkt
<1>3. Lead(j)' <=> Lead(j)
  BY <1>1, <1>2 DEF Lead, RefStream
<1>4. MaySplit(Pkt(j))' <=> MaySplit(Pkt(j))
  BY <1>2 DEF MaySplit, RefStream, RefIsVideo, Kept
<1> QED
  BY <1>2, <1>3, <1>4

LEMMA OneLead ==
    ASSUME NEW n \in Nat, NEW j \in 1 .. n, NEW k \in 1 .. n,
           Lead(j), Lead(k), FileOf(j) = FileOf(k)
    PROVE  j = k
<1>1. CASE j < k
  <2>1. j \in 1 .. k - 1
    BY <1>1
  <2> QED
    BY <2>1 DEF Lead
<1>2. CASE k < j
  <2>1. k \in 1 .. j - 1
    BY <1>2
  <2> QED
    BY <2>1 DEF Lead
<1> QED
  BY <1>1, <1>2

LEMMA NextFiles ==
    ASSUME Types, Flow, Files, Begun, NEW n \in Nat, n = Placed, Kept(n), Sound,
           \/ Stands(n) \/ Stops(n) \/ StartsInput(n)
           \/ TakesNext(n) \/ Splitting(n) \/ Closes(n) \/ TakesFirst(n)
    PROVE  Files'
<1>0. /\ nb \in Nat
      /\ \A i \in 1 .. n : FileOf(i)' = FileOf(i) /\ FileOf(i) \in 0 .. nb
      /\ \A i, j \in 1 .. n : j <= i => FileOf(j) <= FileOf(i)
      /\ n > 0 => \A v \in 0 .. nb - 1 : \E i \in 1 .. n : FileOf(i) = v
      /\ Running /\ n > 0 => FileOf(n) = nb
      /\ pc = "flush" \/ (Running /\ nb > 0) => n > 0
      /\ pc = "open" => (\A i \in 1 .. n : FileOf(i) < nb) /\ (nb > 0 => n > 0)
  BY PlacedType DEF Files, Kept
<1>1. CASE Stands(n) \/ Splitting(n)
  <2>1. Placed' = n /\ nb' = nb /\ (pc' = pc \/ (Running /\ Running' /\ pc' # "open"))
    BY <1>1 DEF Stands, Splitting, Running
  <2>2. (Running' => Running) /\ (pc' = "open" => pc = "open")
    BY <2>1 DEF Running
  <2>3. pc' = "flush" => n > 0
    <3>1. CASE Stands(n)
      BY <1>0, <3>1 DEF Stands
    <3>2. CASE Splitting(n)
      <4>1. prev.set /\ pc = "read"
        BY <3>2 DEF Splitting, AtSplit
      <4>2. \E j \in 1 .. n : FileOf(j) = nb
        BY <4>1 DEF Begun
      <4> QED
        BY <4>2
    <3> QED
      BY <1>1, <3>1, <3>2
  <2> QED
    BY <1>0, <2>1, <2>2, <2>3 DEF Files
<1>2. CASE Stops(n)
  <2>1. /\ Placed' = n /\ ~Running' /\ pc' \notin {"open", "flush"}
        /\ nb' = nb \/ nb' = nb + 1
        /\ nb' = nb + 1 /\ n > 0 => FileOf(n) = nb
    BY <1>0, <1>2 DEF Stops, Running
  <2>2. ASSUME n > 0, NEW v \in 0 .. nb' - 1 PROVE \E i \in 1 .. n : FileOf(i) = v
    <3>1. v \in 0 .. nb - 1 \/ (v = nb /\ nb' = nb + 1)
      BY <1>0, <2>1
    <3> QED
      BY <1>0, <2>1, <2>2, <3>1
  <2> QED
    BY <1>0, <2>1, <2>2 DEF Files
<1>3. CASE Closes(n)
  <2>1. /\ Placed' = n /\ ~Running' /\ pc' = "open" /\ nb' = nb + 1 /\ Running
    BY <1>3 DEF Closes, Running
  <2>2. n > 0 /\ FileOf(n) = nb
    <3>1. pc = "flush"
      BY <1>3 DEF Closes
    <3> QED
      BY <1>0, <2>1, <3>1
  <2>3. ASSUME NEW v \in 0 .. nb' - 1 PROVE \E i \in 1 .. n : FileOf(i) = v
    <3>1. v \in 0 .. nb - 1 \/ v = nb
      BY <1>0, <2>1
    <3> QED
      BY <1>0, <2>2, <3>1
  <2> QED
    BY <1>0, <2>1, <2>2, <2>3 DEF Files
<1>4. CASE StartsInput(n)
  <2>1. Placed' = 0 /\ nb' = 0 /\ pc' = "read"
    BY <1>4 DEF StartsInput
  <2> QED
    BY <2>1 DEF Files
<1>5. CASE TakesNext(n) \/ TakesFirst(n)
  <2>1. /\ Placed' = n + 1 /\ FileOf(n + 1)' = nb /\ nb' = nb /\ pc' = "write"
        /\ Running \/ pc = "open"
    BY <1>5 DEF TakesNext, TakesFirst, Takes, Running
  <2>2. \A i \in 1 .. n + 1 : i \in 1 .. n \/ i = n + 1
    OBVIOUS
  <2>3. \A i \in 1 .. n + 1 : FileOf(i)' \in 0 .. nb
    BY <1>0, <2>1, <2>2
  <2>4. \A i, j \in 1 .. n + 1 : j <= i => FileOf(j)' <= FileOf(i)'
    BY <1>0, <2>1, <2>2
  <2>5. \A v \in 0 .. nb - 1 : \E i \in 1 .. n + 1 : FileOf(i)' = v
    <3>1. nb > 0 => n > 0
      BY <1>0, <2>1
    <3>2. ASSUME NEW v \in 0 .. nb - 1 PROVE \E i \in 1 .. n + 1 : FileOf(i)' = v
      <4>1. PICK i \in 1 .. n : FileOf(i) = v
        BY <1>0, <3>1
      <4> QED
        BY <1>0, <4>1
    <3> QED
      BY <3>2
  <2> QED
    BY <1>0, <2>1, <2>3, <2>4, <2>5 DEF Files
<1> QED
  BY <1>1, <1>2, <1>3, <1>4, <1>5

LEMMA NextSplits ==
    ASSUME Types, Types', Files, Splits, Begun, Pending,
           NEW n \in Nat, n = Placed, Kept(n),
           \/ Stands(n) \/ Stops(n) \/ StartsInput(n)
           \/ TakesNext(n) \/ Splitting(n) \/ Closes(n) \/ TakesFirst(n)
    PROVE  Splits'
<1>0. /\ nb \in Nat
      /\ \A i \in 1 .. n : /\ FileOf(i)' = FileOf(i) /\ FileOf(i) \in 0 .. nb /\ Pkt(i)' = Pkt(i)
                           /\ (Lead(i)' <=> Lead(i))
                           /\ (MaySplit(Pkt(i))' <=> MaySplit(Pkt(i)))
  BY PlacedType, LeadKept DEF Files, Kept
<1>1. ASSUME NEW i \in 2 .. n, FileOf(i)' # FileOf(i - 1)'
      PROVE  /\ MaySplit(Pkt(i))'
             /\ \A j \in 1 .. i - 1 : FileOf(j)' = FileOf(i)' - 1 /\ Lead(j)' =>
                  Pkt(i)'.pts - Pkt(j)'.pts >= Interval
  <2>1. i \in 1 .. n /\ i - 1 \in 1 .. n /\ \A j \in 1 .. i - 1 : j \in 1 .. n
    OBVIOUS
  <2>2. FileOf(i) # FileOf(i - 1)
    BY <1>0, <1>1, <2>1
  <2>3. /\ MaySplit(Pkt(i))
        /\ \A j \in 1 .. i - 1 : FileOf(j) = FileOf(i) - 1 /\ Lead(j) =>
             Pkt(i).pts - Pkt(j).pts >= Interval
    BY <2>2 DEF Splits
  <2> QED
    BY <1>0, <2>1, <2>3
<1>2. ASSUME NEW i \in 1 .. n, NEW j \in 1 .. n, j < i, FileOf(i)' = FileOf(j)', Lead(j)',
             MaySplit(Pkt(i))'
      PROVE  Pkt(i)'.pts - Pkt(j)'.pts < Interval
  BY <1>0, <1>2 DEF Splits
<1>3. CASE Placed' = n
  BY <1>1, <1>2, <1>3 DEF Splits
<1>4. CASE StartsInput(n)
  BY <1>4 DEF Splits, StartsInput
<1>5. CASE TakesNext(n) \/ TakesFirst(n)
  <2>1. /\ Placed' = n + 1 /\ FileOf(n + 1)' = nb /\ nb' = nb
        /\ pc = "read" \/ pc = "open"
        /\ \A i \in 1 .. n + 1 : i \in 1 .. n \/ i = n + 1
    BY <1>5 DEF TakesNext, TakesFirst, Takes
  <2>2. Pkt(n + 1)' = Pkt(n + 1) /\ (MaySplit(Pkt(n + 1))' <=> MaySplit(Pkt(n + 1)))
    BY DEF Kept, Pkt, MaySplit, RefIsVideo, RefStream
  <2>3. ASSUME n + 1 \in 2 .. n + 1, FileOf(n + 1)' # FileOf(n)'
        PROVE  /\ MaySplit(Pkt(n + 1))'
               /\ \A j \in 1 .. n : FileOf(j)' = FileOf(n + 1)' - 1 /\ Lead(j)' =>
                    Pkt(n + 1)'.pts - Pkt(j)'.pts >= Interval
    <3>1. n \in 1 .. n /\ FileOf(n) # nb
      BY <1>0, <2>1, <2>3
    <3>2. TakesFirst(n)
      <4>1. ~TakesNext(n)
        BY <3>1 DEF TakesNext, Files, Running
      <4> QED
        BY <1>5, <4>1
    <3>3. pc = "open" /\ read = n + 1
      BY <3>2 DEF TakesFirst
    <3>4. /\ MaySplit(Pkt(n + 1))
          /\ \A j \in 1 .. n : FileOf(j) = nb - 1 /\ Lead(j) =>
               Pkt(n + 1).pts - Pkt(j).pts >= Interval
      BY <3>3 DEF Pending
    <3> QED
      BY <1>0, <2>1, <2>2, <3>4
  <2>4. ASSUME NEW j \in 1 .. n, FileOf(n + 1)' = FileOf(j)', Lead(j)', MaySplit(Pkt(n + 1))'
        PROVE  Pkt(n + 1)'.pts - Pkt(j)'.pts < Interval
    <3>1. FileOf(j) = nb /\ Lead(j) /\ MaySplit(Pkt(n + 1))
      BY <1>0, <2>1, <2>2, <2>4
    <3>2. TakesNext(n)
      <4>1. ~TakesFirst(n)
        BY <3>1 DEF TakesFirst, Files
      <4> QED
        BY <1>5, <4>1
    <3>3. pc = "read" /\ ~AtSplit(Pkt(n + 1)) /\ read' = n + 1 /\ input' = input
      BY <3>2 DEF TakesNext, Takes, Kept
    <3>4. prev.set /\ prev.pts = Pkt(j).pts
      <4>1. prev.set
        BY <3>1, <3>3 DEF Begun, Lead
      <4>2. PICK k \in 1 .. n : FileOf(k) = nb /\ Lead(k) /\ prev.pts = Pkt(k).pts
        BY <3>3, <4>1 DEF Begun
      <4>3. k = j
        BY <3>1, <4>2, OneLead
      <4> QED
        BY <4>1, <4>2, <4>3
    <3>5. ~(Pkt(n + 1).pts - Pkt(j).pts >= Interval)
      BY <3>1, <3>3, <3>4 DEF AtSplit, MaySplit
    <3>6. Pkt(n + 1).pts \in Int /\ Pkt(j).pts \in Int
      <4>1. n + 1 \in 1 .. Len(input.pkts) /\ input.pkts \in Seq(InputPacket)
        BY <3>3 DEF Types, TypeOK
      <4>2. Pkt(n + 1) \in InputPacket /\ Pkt(j) \in InputPacket
        <5>1. j \in 1 .. Len(input.pkts)
          BY <4>1
        <5> QED
          BY <4>1, <5>1, ElementOfSeq DEF Pkt
      <4> QED
        BY <4>2 DEF InputPacket
    <3> QED
      BY <1>0, <2>2, <3>5, <3>6, IntervalAssumption
  <2>5. ASSUME NEW i \in 2 .. n + 1, FileOf(i)' # FileOf(i - 1)'
        PROVE  /\ MaySplit(Pkt(i))'
               /\ \A j \in 1 .. i - 1 : FileOf(j)' = FileOf(i)' - 1 /\ Lead(j)' =>
                    Pkt(i)'.pts - Pkt(j)'.pts >= Interval
    <3>1. CASE i \in 2 .. n
      BY <1>1, <2>5, <3>1
    <3>2. CASE i = n + 1
      <4>1. i - 1 = n
        BY <3>2
      <4> QED
        BY <2>3, <2>5, <3>2, <4>1
    <3> QED
      BY <3>1, <3>2
  <2>6. ASSUME NEW i \in 1 .. n + 1, NEW j \in 1 .. n + 1, j < i, FileOf(i)' = FileOf(j)',
               Lead(j)', MaySplit(Pkt(i))'
        PROVE  Pkt(i)'.pts - Pkt(j)'.pts < Interval
    <3>1. j \in 1 .. n
      BY <2>6
    <3>2. CASE i \in 1 .. n
      BY <1>2, <2>6, <3>1, <3>2
    <3>3. CASE i = n + 1
      BY <2>4, <2>6, <3>1, <3>3
    <3> QED
      BY <3>2, <3>3
  <2> QED
    BY <2>1, <2>5, <2>6 DEF Splits
<1> QED
  BY <1>3, <1>4, <1>5 DEF Stands, Stops, Splitting, Closes

LEMMA NextBegun ==
    ASSUME Files, Begun, Pending, Types,
           NEW n \in Nat, n = Placed, Kept(n),
           \/ Stands(n) \/ Stops(n) \/ StartsInput(n)
           \/ TakesNext(n) \/ Splitting(n) \/ Closes(n) \/ TakesFirst(n)
    PROVE  Begun'
<1>0. /\ nb \in Nat
      /\ \A i \in 1 .. n : /\ FileOf(i)' = FileOf(i) /\ FileOf(i) \in 0 .. nb /\ Pkt(i)' = Pkt(i)
                           /\ (Lead(i)' <=> Lead(i))
  BY PlacedType, LeadKept DEF Files, Kept
<1>1. CASE Stands(n) \/ Splitting(n)
  <2>1. /\ Placed' = n /\ nb' = nb /\ prev' = prev
        /\ pc' \in {"read", "write", "muxing", "flush"} => pc \in {"read", "write", "muxing", "flush"}
    BY <1>1 DEF Stands, Splitting
  <2> QED
    BY <1>0, <2>1 DEF Begun
<1>2. CASE Stops(n) \/ Closes(n)
  BY <1>2 DEF Stops, Closes, Begun
<1>3. CASE StartsInput(n)
  BY <1>3 DEF StartsInput, Begun, Unset
<1>4. CASE TakesNext(n) \/ TakesFirst(n)
  <2>1. /\ Placed' = n + 1 /\ FileOf(n + 1)' = nb /\ nb' = nb
        /\ \A i \in 1 .. n + 1 : i \in 1 .. n \/ i = n + 1
    BY <1>4 DEF TakesNext, TakesFirst, Takes
  <2>2. Pkt(n + 1)' = Pkt(n + 1)
    BY DEF Kept, Pkt
  <2>3. ASSUME Pkt(n + 1).st = RefStream,
               \A k \in 1 .. n : FileOf(k) = nb => Pkt(k).st # RefStream
        PROVE  Lead(n + 1)'
    <3>1. \A k \in 1 .. (n + 1) - 1 : FileOf(k)' = FileOf(n + 1)' => Pkt(k)'.st # RefStream
      BY <1>0, <2>1, <2>3
    <3> QED
      BY <2>2, <2>3, <3>1 DEF Lead, RefStream
  <2>4. CASE TakesNext(n)
    <3>1. /\ pc = "read"
          /\ prev' = IF Pkt(n + 1).st = RefStream /\ ~prev.set THEN At(Pkt(n + 1).pts) ELSE prev
      BY <2>4, Zenon DEF TakesNext
    <3>2. CASE prev.set
      <4>1. prev' = prev
        BY <3>1, <3>2
      <4>2. PICK j \in 1 .. n : FileOf(j) = nb /\ Lead(j) /\ prev.pts = Pkt(j).pts
        BY <3>1, <3>2 DEF Begun
      <4>3. j \in 1 .. n + 1 /\ FileOf(j)' = nb' /\ Lead(j)' /\ prev'.pts = Pkt(j)'.pts
        BY <1>0, <2>1, <4>1, <4>2
      <4> QED
        BY <2>1, <3>2, <4>1, <4>3 DEF Begun
    <3>3. CASE ~prev.set
      <4>1. \A k \in 1 .. n : FileOf(k) = nb => Pkt(k).st # RefStream
        BY <3>1, <3>3 DEF Begun
      <4>2. CASE Pkt(n + 1).st = RefStream
        <5>1. prev' = At(Pkt(n + 1).pts)
          BY <3>1, <3>3, <4>2
        <5>2. prev'.set /\ prev'.pts = Pkt(n + 1)'.pts /\ FileOf(n + 1)' = nb' /\ Lead(n + 1)'
          BY <2>1, <2>2, <2>3, <4>1, <4>2, <5>1 DEF At
        <5>3. n + 1 \in 1 .. Placed'
          BY <2>1
        <5> QED
          BY <5>2, <5>3 DEF Begun
      <4>3. CASE Pkt(n + 1).st # RefStream
        <5>1. prev' = prev
          BY <3>1, <4>3
        <5>2. \A k \in 1 .. n + 1 : FileOf(k)' = nb' => Pkt(k)'.st # RefStream
          BY <1>0, <2>1, <2>2, <4>1, <4>3
        <5> QED
          BY <2>1, <3>3, <5>1, <5>2 DEF Begun, RefStream
      <4> QED
        BY <4>2, <4>3
    <3> QED
      BY <3>2, <3>3
  <2>5. CASE TakesFirst(n)
    <3>1. pc = "open" /\ read = n + 1 /\ prev' = At(Pkt(n + 1).pts)
      BY <2>5 DEF TakesFirst
    <3>2. Pkt(n + 1).st = RefStream
      BY <3>1 DEF Pending, MaySplit
    <3>3. \A k \in 1 .. n : FileOf(k) # nb
      BY <1>0, <3>1 DEF Files
    <3>4. prev'.set /\ prev'.pts = Pkt(n + 1)'.pts /\ FileOf(n + 1)' = nb' /\ Lead(n + 1)'
      BY <2>1, <2>2, <2>3, <3>1, <3>2, <3>3 DEF At
    <3>5. n + 1 \in 1 .. Placed'
      BY <2>1
    <3> QED
      BY <3>4, <3>5 DEF Begun
  <2> QED
    BY <1>4, <2>4, <2>5
<1> QED
  BY <1>1, <1>2, <1>3, <1>4

LEMMA NextPending ==
    ASSUME Files, Begun, Pending, Types,
           NEW n \in Nat, n = Placed, Kept(n),
           \/ Stands(n) \/ Stops(n) \/ StartsInput(n)
           \/ TakesNext(n) \/ Splitting(n) \/ Closes(n) \/ TakesFirst(n)
    PROVE  Pending'
<1>0. /\ nb \in Nat
      /\ \A i \in 1 .. n : /\ FileOf(i)' = FileOf(i) /\ Pkt(i)' = Pkt(i)
                           /\ (Lead(i)' <=> Lead(i))
      /\ \A i : Pkt(i)' = Pkt(i) /\ (MaySplit(Pkt(i))' <=> MaySplit(Pkt(i)))
  BY PlacedType, LeadKept DEF Kept, Pkt, MaySplit, RefIsVideo, RefStream
<1>1. CASE Stands(n) \/ Closes(n)
  <2>1. /\ Placed' = n /\ read' = read
        /\ pc' = "flush" => pc = "flush" /\ nb' = nb
        /\ pc' = "open" => (pc = "open" /\ nb' = nb) \/ (pc = "flush" /\ nb' = nb + 1)
    BY <1>1 DEF Stands, Closes
  <2>2. (MaySplit(Pkt(read)))' <=> MaySplit(Pkt(read))
    BY <2>1 DEF Kept, Pkt, MaySplit, RefIsVideo, RefStream
  <2>3. (Pkt(read))' = Pkt(read)
    BY <2>1 DEF Kept, Pkt
  <2>4. CASE pc' = "flush"
    BY <1>0, <2>1, <2>2, <2>3, <2>4 DEF Pending
  <2>5. CASE pc' = "open" /\ pc = "open"
    BY <1>0, <2>1, <2>2, <2>3, <2>5 DEF Pending
  <2>6. CASE pc' = "open" /\ pc = "flush"
    <3>1. nb' - 1 = nb
      BY <1>0, <2>1, <2>6
    <3> QED
      BY <1>0, <2>1, <2>2, <2>3, <2>6, <3>1 DEF Pending
  <2> QED
    BY <2>1, <2>4, <2>5, <2>6 DEF Pending
<1>2. CASE Stops(n) \/ StartsInput(n) \/ TakesNext(n) \/ TakesFirst(n)
  BY <1>2 DEF Stops, StartsInput, TakesNext, TakesFirst, Takes, Pending
<1>3. CASE Splitting(n)
  <2>1. /\ pc = "read" /\ pc' = "flush" /\ Placed' = n /\ nb' = nb /\ read' = n + 1
        /\ AtSplit(Pkt(n + 1))
    BY <1>3 DEF Splitting
  <2>2. (Pkt(read))' = Pkt(n + 1)
    BY <2>1 DEF Kept, Pkt
  <2>3. MaySplit(Pkt(n + 1)) /\ prev.set /\ Pkt(n + 1).pts - prev.pts >= Interval
    BY <2>1 DEF AtSplit, MaySplit
  <2>4. (MaySplit(Pkt(read)))'
    BY <2>1, <2>2, <2>3 DEF Kept, MaySplit, RefIsVideo, RefStream
  <2>5. ASSUME NEW j \in 1 .. n, FileOf(j)' = nb, Lead(j)'
        PROVE  Pkt(n + 1).pts - Pkt(j)'.pts >= Interval
    <3>1. FileOf(j) = nb /\ Lead(j)
      BY <1>0, <2>5
    <3>2. PICK k \in 1 .. n : FileOf(k) = nb /\ Lead(k) /\ prev.pts = Pkt(k).pts
      BY <2>1, <2>3 DEF Begun
    <3>3. k = j
      BY <3>1, <3>2, OneLead
    <3> QED
      BY <1>0, <2>3, <3>2, <3>3
  <2> QED
    BY <2>1, <2>2, <2>4, <2>5 DEF Pending
<1> QED
  BY <1>1, <1>2, <1>3

LEMMA NextDivided ==
    ASSUME Types, Layout, Flow, Divided, [Next]_vars PROVE Divided'
<1> SUFFICES ASSUME Sound' PROVE Files' /\ Splits' /\ Begun' /\ Pending'
  BY DEF Divided
<1>1. Sound /\ Files /\ Splits /\ Begun /\ Pending
  BY SoundBefore DEF Divided
<1>2. PICK n \in Nat : n = Placed
  BY PlacedType
<1>3. /\ Kept(n)
      /\ \/ Stands(n) \/ Stops(n) \/ StartsInput(n)
         \/ TakesNext(n) \/ Splitting(n) \/ Closes(n) \/ TakesFirst(n)
  BY <1>1, <1>2, Steps
<1>4. Types'
  BY NextTypes
<1>5. Files'
  BY <1>1, <1>2, <1>3, NextFiles
<1>6. Splits'
  BY <1>1, <1>2, <1>3, <1>4, NextSplits
<1>7. Begun'
  BY <1>1, <1>2, <1>3, NextBegun
<1>8. Pending'
  BY <1>1, <1>2, <1>3, NextPending
<1> QED
  BY <1>5, <1>6, <1>7, <1>8

\* When nothing failed, the number of the last file is used up in the end.
AllClosed ==
    pc \in {"exit", "done"} /\ res = "ok" /\ faults = {} =>
      \A i \in 1 .. Len(disk) : disk[i].file < nb

LEMMA NextAllClosed ==
    ASSUME Types, Flow, Divided, AllClosed, [Next]_vars PROVE AllClosed'
<1>1. CASE LastClose
  <2>1. /\ disk' = disk /\ queue = <<>> /\ pc = "finish"
        /\ faults' = {} => nb' = nb + 1 /\ faults = {}
    BY <1>1 DEF LastClose, GoTo
  <2>2. ASSUME faults' = {}, NEW i \in 1 .. Len(disk) PROVE disk[i].file < nb'
    <3>1. Files /\ nb' = nb + 1
      BY <2>1, <2>2 DEF Divided, Sound
    <3>2. Placed = Len(disk) /\ nb \in Nat
      <4>1. disk \in Seq(DiskType)
        BY DEF Types, TypeOK, DiskType
      <4> QED
        BY <2>1, <4>1, PlacedType DEF Placed, InMuxer
    <3>3. FileOf(i) \in 0 .. nb /\ FileOf(i) = disk[i].file
      BY <3>1, <3>2 DEF Files, FileOf
    <3> QED
      BY <3>1, <3>2, <3>3
  <2> QED
    BY <2>1, <2>2 DEF AllClosed
<1>2. CASE [Next /\ ~LastClose]_vars
  <2>1. \/ pc' \notin {"exit", "done"} \/ res' = "error" \/ faults' # {}
        \/ pc \in {"exit", "done"} /\ UNCHANGED <<res, faults, disk, nb>>
    <3>1. CASE OpenFails \/ HeaderFails \/ DupFails \/ WriteFails
      BY <3>1 DEF OpenFails, HeaderFails, DupFails, WriteFails, Fail
    <3>2. CASE Open \/ Read \/ Write \/ WriteDone
      BY <3>2 DEF Open, Read, Write, WriteDone, GoTo
    <3>3. CASE ReadEnds \/ MuxerWrites \/ FlushFails \/ TrailerFails
      BY <3>3 DEF ReadEnds, MuxerWrites, FlushFails, TrailerFails
    <3>4. CASE Close
      BY <3>4 DEF Close, GoTo, Fail
    <3>5. CASE Return
      BY <3>5, Zenon DEF Return, io
    <3>6. CASE UNCHANGED vars
      BY <3>6 DEF vars
    <3> QED
      BY <1>2, <3>1, <3>2, <3>3, <3>4, <3>5, <3>6 DEF Next
  <2> QED
    BY <2>1 DEF AllClosed
<1> QED
  BY <1>1, <1>2

-----------------------------------------------------------------------------
(***************************************************************************)
(* The counters run on from file to file.                                  *)
(***************************************************************************)
\* Counting the packets on disk.
Stream(i) == Pkt(disk[i].pkt).st
Before(st, i) == Cardinality({ j \in 1 .. i - 1 : Stream(j) = st })

From(st) == ResetCcs(HeaderCcs, given)[st]

HeaderWritten == Running \/ (pc = "open" /\ nb > 0)

CountersOK ==
    Sound =>
      /\ nb = 0 /\ pc = "open" => disk = <<>>
      /\ \A st \in Streams :
           /\ HeaderWritten => cc[st] = (From(st) + Before(st, Len(disk) + 1)) % CcMod
           /\ \A i \in 1 .. Len(disk) : Stream(i) = st =>
                disk[i].cc = (From(st) + Before(st, i) + 1) % CcMod

LEMMA InitCounters == Init => CountersOK
<1> SUFFICES ASSUME Init PROVE CountersOK
  OBVIOUS
<1>1. disk = <<>> /\ pc = "open" /\ nb = 0
  BY DEF Init
<1> QED
  BY <1>1 DEF CountersOK, HeaderWritten, Running

LEMMA NextCounters ==
    ASSUME Types, Layout, Flow, NewFile, CountersOK, [Next]_vars PROVE CountersOK'
<1> SUFFICES ASSUME Sound'
             PROVE  /\ nb' = 0 /\ pc' = "open" => disk' = <<>>
                    /\ \A st \in Streams :
                         /\ HeaderWritten' =>
                              cc'[st] = (From(st)' + Before(st, Len(disk) + 1)') % CcMod
                         /\ \A i \in 1 .. Len(disk') : Stream(i)' = st =>
                              disk'[i].cc = (From(st)' + Before(st, i)' + 1) % CcMod
  BY DEF CountersOK
<1>0. /\ disk \in Seq(DiskType) /\ Len(disk) \in Nat /\ nb \in Nat /\ read \in Nat
      /\ queue \in Seq(1 .. Len(input.pkts)) /\ Len(queue) \in Nat
      /\ cc \in [Streams -> Counter] /\ input.pkts \in Seq(InputPacket)
      /\ CcMod \in Nat \ {0} /\ Counter = 0 .. CcMod - 1
      /\ \A st \in Streams : From(st) \in Counter
      /\ Sound
  <2>1. Sound
    BY SoundBefore
  <2>2. \A st \in Streams : From(st) \in Counter
    BY GivenType DEF Types, From
  <2> QED
    BY <2>1, <2>2, CcModAssumption DEF Types, TypeOK, DiskType, Counter
<1>1. input' = input /\ \A st : From(st)' = From(st)
  <2>1. input' = input /\ given' = given
    BY DEF Next, OpenFails, HeaderFails, Open, Read, ReadEnds, DupFails, Write, MuxerWrites,
           WriteDone, WriteFails, FlushFails, Close, LastClose, TrailerFails, Return, vars
  <2> QED
    BY <2>1 DEF From
<1>2. CASE Open
  <2>1. /\ pc = "open" /\ pc' \in {"read", "write"} /\ nb' = nb
        /\ cc' = IF nb = 0 THEN ResetCcs(HeaderCcs, given) ELSE cc
    BY <1>2 DEF Open, GoTo
  <2>2. disk' = disk
    BY <1>0, <1>2, OpenKeepsDisk DEF Open
  <2>3. \A st, i : Before(st, i)' = Before(st, i) /\ Stream(i)' = Stream(i)
    BY <1>1, <2>2 DEF Before, Stream, Pkt
  <2>4. \A st : Before(st, Len(disk) + 1)' = Before(st, Len(disk) + 1)
    BY <1>1, <2>2 DEF Before, Stream, Pkt
  <2>5. ASSUME NEW st \in Streams
        PROVE  cc'[st] = (From(st) + Before(st, Len(disk) + 1)) % CcMod
    <3>1. CASE nb = 0
      <4>1. disk = <<>> /\ cc'[st] = From(st)
        BY <1>0, <2>1, <3>1 DEF CountersOK, From
      <4>2. { j \in 1 .. (Len(disk) + 1) - 1 : Stream(j) = st } = {}
        BY <4>1
      <4>3. Before(st, Len(disk) + 1) = 0
        BY <4>2, FS_EmptySet DEF Before
      <4>4. From(st) % CcMod = From(st)
        BY <1>0, ModSmall
      <4>5. From(st) + Before(st, Len(disk) + 1) = From(st)
        BY <1>0, <4>3
      <4> QED
        BY <4>1, <4>4, <4>5
    <3>2. CASE nb # 0
      <4>1. HeaderWritten /\ cc' = cc
        BY <1>0, <2>1, <3>2 DEF HeaderWritten
      <4> QED
        BY <1>0, <4>1 DEF CountersOK
    <3> QED
      BY <3>1, <3>2
  <2> QED
    BY <1>0, <1>1, <2>1, <2>2, <2>3, <2>4, <2>5 DEF CountersOK
<1>3. CASE MuxerWrites
  <2> PICK n \in Nat : n = Len(disk)
    BY <1>0
  <2> DEFINE s == Pkt(n + 1).st
             c == CountUp(cc[s])
  <2>1. /\ Len(disk') = n + 1 /\ disk'[n + 1].pkt = n + 1 /\ disk'[n + 1].cc = c
        /\ \A i \in 1 .. n : disk'[i] = disk[i]
        /\ cc' = [cc EXCEPT ![s] = c]
        /\ Len(queue) > 0
    BY <1>0, <1>3, MuxerWritesKeeps
  <2>2. UNCHANGED <<pc, nb>> /\ Running
    BY <1>3 DEF MuxerWrites, Running
  <2>3. s \in Streams
    <3>1. 1 \in 1 .. Len(queue) /\ queue[1] = n + 1
      BY <1>0, <2>1 DEF Layout
    <3>2. n + 1 \in 1 .. Len(input.pkts)
      BY <1>0, <3>1
    <3>3. Pkt(n + 1) \in InputPacket
      BY <1>0, <3>2, ElementOfSeq DEF Pkt
    <3> QED
      BY <3>3 DEF InputPacket
  <2>4. /\ (Stream(n + 1))' = s /\ \A i \in 1 .. n : Stream(i)' = Stream(i)
    BY <1>1, <2>1 DEF Stream, Pkt
  <2>5. ASSUME NEW st, NEW i \in 1 .. n + 1 PROVE Before(st, i)' = Before(st, i)
    <3>1. { j \in 1 .. i - 1 : Stream(j)' = st } = { j \in 1 .. i - 1 : Stream(j) = st }
      BY <1>0, <2>4
    <3> QED
      BY <3>1 DEF Before
  <2>6. ASSUME NEW st
        PROVE  /\ Before(st, n + 1) \in Nat
               /\ Before(st, n + 2)' = IF s = st THEN Before(st, n + 1) + 1 ELSE Before(st, n + 1)
    <3> DEFINE A == { j \in 1 .. (n + 1) - 1 : Stream(j) = st }
               B == { j \in 1 .. (n + 2) - 1 : Stream(j)' = st }
    <3>1. A \in SUBSET (1 .. n) /\ B \in SUBSET (1 .. n + 1)
      OBVIOUS
    <3>2. \A j \in 1 .. n : j \in A <=> j \in B
      BY <2>4
    <3>3. n + 1 \in B <=> s = st
      BY <2>4
    <3>4. Before(st, n + 1) = Cardinality(A) /\ Before(st, n + 2)' = Cardinality(B)
      BY DEF Before
    <3> HIDE DEF A, B
    <3>5. /\ Cardinality(A) \in Nat
          /\ Cardinality(B) = IF n + 1 \in B THEN Cardinality(A) + 1 ELSE Cardinality(A)
      BY <3>1, <3>2, CountOfFirst
    <3> QED
      BY <3>3, <3>4, <3>5
  <2>7. c = (From(s) + Before(s, n + 1) + 1) % CcMod
    <3>1. cc[s] = (From(s) + Before(s, n + 1)) % CcMod
      BY <1>0, <2>2, <2>3 DEF CountersOK, HeaderWritten
    <3>2. From(s) \in Int /\ Before(s, n + 1) \in Nat
      BY <1>0, <2>3, <2>6
    <3> DEFINE x == From(s) + Before(s, n + 1)
    <3>3. x \in Int
      BY <3>2
    <3>4. c = (cc[s] + 1) % CcMod /\ cc[s] = x % CcMod
      BY <3>1 DEF CountUp
    <3> HIDE DEF x, c, s
    <3>5. ((x % CcMod) + 1) % CcMod = (x + 1) % CcMod
      BY <1>0, <3>3, ModNext
    <3>6. c = (x + 1) % CcMod
      BY <3>4, <3>5
    <3> QED
      BY <3>6 DEF x
  <2> HIDE DEF s, c
  <2>8. ASSUME NEW st \in Streams
        PROVE  cc'[st] = (From(st) + Before(st, n + 2)') % CcMod
    <3>1. From(st) \in Int /\ Before(st, n + 1) \in Nat
      BY <1>0, <2>6
    <3>2. CASE s = st
      <4>1. cc'[st] = (From(st) + Before(st, n + 1) + 1) % CcMod
        BY <1>0, <2>1, <2>3, <2>7, <3>2
      <4>2. From(st) + Before(st, n + 2)' = From(st) + Before(st, n + 1) + 1
        BY <2>6, <3>1, <3>2
      <4> QED
        BY <4>1, <4>2
    <3>3. CASE s # st
      <4>1. cc'[st] = cc[st] /\ Before(st, n + 2)' = Before(st, n + 1)
        BY <1>0, <2>1, <2>6, <3>3
      <4> QED
        BY <1>0, <2>2, <4>1 DEF CountersOK, HeaderWritten
    <3> QED
      BY <3>2, <3>3
  <2>9. ASSUME NEW st \in Streams, NEW i \in 1 .. n + 1, Stream(i)' = st
        PROVE  disk'[i].cc = (From(st) + Before(st, i)' + 1) % CcMod
    <3>1. Before(st, i)' = Before(st, i)
      BY <2>5
    <3>2. CASE i \in 1 .. n
      BY <1>0, <2>1, <2>4, <2>9, <3>1, <3>2 DEF CountersOK
    <3>3. CASE i = n + 1
      BY <2>1, <2>4, <2>7, <2>9, <3>1, <3>3
    <3> QED
      BY <3>2, <3>3
  <2>10. Len(disk') + 1 = n + 2 /\ pc' # "open"
    BY <1>0, <2>1, <2>2 DEF Running
  <2> QED
    BY <1>1, <2>1, <2>8, <2>9, <2>10
<1>4. CASE HeaderFails
  <2>1. disk' = disk
    BY <1>0, <1>4, OpenKeepsDisk DEF HeaderFails
  <2>2. ~HeaderWritten' /\ pc' # "open"
    BY <1>4 DEF HeaderFails, Fail, HeaderWritten, Running
  <2>3. \A st, i : Before(st, i)' = Before(st, i) /\ Stream(i)' = Stream(i)
    BY <1>1, <2>1 DEF Before, Stream, Pkt
  <2> QED
    BY <1>0, <1>1, <2>1, <2>2, <2>3 DEF CountersOK
<1>5. CASE FlushFails
  BY <1>5 DEF FlushFails, Sound
<1>6. CASE [Next /\ ~Open /\ ~MuxerWrites /\ ~HeaderFails /\ ~FlushFails]_vars
  <2>1. /\ disk' = disk /\ cc' = cc
        /\ HeaderWritten' => HeaderWritten
        /\ nb' = 0 /\ pc' = "open" => nb = 0 /\ pc = "open"
    BY <1>0, <1>6 DEF Next, OpenFails, Read, ReadEnds, DupFails, Write, WriteDone, WriteFails,
                Close, LastClose, TrailerFails, Return, Fail, GoTo, vars, io, HeaderWritten,
                Running
  <2>2. \A st, i : Before(st, i)' = Before(st, i) /\ Stream(i)' = Stream(i)
    BY <1>1, <2>1 DEF Before, Stream, Pkt
  <2>3. \A st : Before(st, Len(disk) + 1)' = Before(st, Len(disk) + 1)
    BY <1>1, <2>1 DEF Before, Stream, Pkt
  <2> QED
    BY <1>0, <1>1, <2>1, <2>2, <2>3 DEF CountersOK
<1> QED
  BY <1>2, <1>3, <1>4, <1>5, <1>6

-----------------------------------------------------------------------------
(***************************************************************************)
(* The theorems.                                                           *)
(***************************************************************************)
Inv == Types /\ Layout /\ Flow /\ Ending /\ Divided /\ AllClosed /\ CountersOK

LEMMA InitInv == Init => Inv
<1>1. Init => AllClosed
  BY DEF Init, AllClosed
<1> QED
  BY <1>1, InitTypes, InitPlaces, InitDivided, InitCounters DEF Inv

LEMMA NextInv == ASSUME Inv, [Next]_vars PROVE Inv'
<1>1. NewFile
  BY FilesAreNew DEF Inv, Divided
<1> QED
  BY <1>1, NextTypes, NextLayout, NextFlow, NextEnding, NextDivided, NextAllClosed, NextCounters
  DEF Inv

\* Every state that can be reached satisfies the invariant.
THEOREM Invariant == Spec => []Inv
  BY InitInv, NextInv, PTL DEF Spec

\* The variables keep their types: what is on disk and in the muxer are packets of the
\* input, with counters of the format, and no file is closed twice.
THEOREM TypeCorrect == Spec => []TypeOK
<1>1. Inv => TypeOK
  BY DEF Inv, Types
<1> QED
  BY <1>1, Invariant, PTL

\* On disk in front of what the muxer holds back: the input, up to InMuxer.
LEMMA InOrder ==
    ASSUME Types, Layout, Sound
    PROVE  OnDisk \o queue = [i \in 1 .. InMuxer |-> i]
<1>0. /\ disk \in Seq(DiskType) /\ queue \in Seq(1 .. Len(input.pkts))
      /\ Len(disk) \in Nat /\ Len(queue) \in Nat
  BY DEF Types, TypeOK, DiskType
<1>1. OnDisk = [i \in 1 .. Len(disk) |-> i]
  BY DEF OnDisk, Layout
<1>2. OnDisk \in Seq(Nat) /\ Len(OnDisk) = Len(disk)
  BY <1>0, <1>1
<1>3. queue \in Seq(Nat)
  BY <1>0
<1>4. OnDisk \o queue \in Seq(Nat) /\ Len(OnDisk \o queue) = InMuxer
  BY <1>2, <1>3 DEF InMuxer
<1>5. ASSUME NEW i \in 1 .. InMuxer PROVE (OnDisk \o queue)[i] = i
  <2>1. CASE i \in 1 .. Len(disk)
    BY <1>1, <1>2, <1>3, <2>1
  <2>2. CASE i \in Len(disk) + 1 .. Len(disk) + Len(queue)
    <3>1. (OnDisk \o queue)[i] = queue[i - Len(disk)]
      BY <1>0, <1>2, <1>3, <2>2
    <3>2. i - Len(disk) \in 1 .. Len(queue)
      BY <1>0, <2>2
    <3>3. queue[i - Len(disk)] = Len(disk) + (i - Len(disk))
      BY <3>2 DEF Layout
    <3> QED
      BY <1>0, <2>2, <3>1, <3>3
  <2>3. i \in 1 .. Len(disk) \/ i \in Len(disk) + 1 .. Len(disk) + Len(queue)
    BY <1>0 DEF InMuxer
  <2> QED
    BY <2>1, <2>2, <2>3
<1> DEFINE s == OnDisk \o queue
<1>6. s \in Seq(Nat) /\ Len(s) = InMuxer /\ \A i \in 1 .. InMuxer : s[i] = i
  BY <1>4, <1>5
<1> HIDE DEF s
<1>7. s = [i \in 1 .. InMuxer |-> i]
  <2>1. s \in [1 .. Len(s) -> Nat]
    BY <1>6
  <2> QED
    BY <1>6, <2>1
<1> QED
  BY <1>7 DEF s

\* Without a failed flush the segments, one after the other, are the input: nothing
\* lost, repeated or moved; and with nothing failed they are all of it, in files that
\* are closed and numbered without a gap.
THEOREM SegmentsAlwaysConcatenate == Spec => []SegmentsConcatenate
<1>1. ASSUME Inv PROVE SegmentsConcatenate
  <2>1. ASSUME "flush" \notin faults, res = "ok"
        PROVE  OnDisk \o queue = [i \in 1 .. (IF pc \in {"flush", "open", "write"} /\ read > 0
                                              THEN read - 1 ELSE read) |-> i]
    <3>1. InMuxer = IF pc \in {"flush", "open", "write"} /\ read > 0 THEN read - 1 ELSE read
      BY <1>1, <2>1 DEF Inv, Flow, Sound
    <3>2. OnDisk \o queue = [i \in 1 .. InMuxer |-> i]
      BY <1>1, <2>1, InOrder DEF Inv, Sound
    <3> QED
      BY <3>1, <3>2
  <2>2. ASSUME outcome = "returns", faults = {}
        PROVE  /\ OnDisk = [i \in 1 .. Len(input.pkts) |-> i]
               /\ handles = 0
               /\ input.pkts # <<>> => { disk[i].file : i \in 1 .. Len(disk) } = 0 .. nb - 1
    <3>1. /\ pc = "done" /\ res = "ok" /\ handles = 0 /\ queue = <<>> /\ read = Len(input.pkts)
          /\ Sound
      BY <1>1, <2>2 DEF Inv, Ending, Sound
    <3>2. /\ disk \in Seq(DiskType) /\ Len(disk) \in Nat /\ nb \in Nat
          /\ input.pkts \in Seq(InputPacket)
      BY <1>1 DEF Inv, Types, TypeOK, DiskType
    <3>3. Len(disk) = Len(input.pkts)
      BY <1>1, <3>1, <3>2 DEF Inv, Flow, InMuxer
    <3>4. OnDisk = [i \in 1 .. Len(input.pkts) |-> i]
      BY <1>1, <3>1, <3>3 DEF Inv, Layout, OnDisk
    <3>5. Placed = Len(disk) /\ \A i \in 1 .. Len(disk) : FileOf(i) = disk[i].file
      BY <3>1, <3>2 DEF Placed, InMuxer, FileOf
    <3>6. \A i \in 1 .. Len(disk) : disk[i].file \in 0 .. nb - 1
      <4>1. \A i \in 1 .. Len(disk) : disk[i].file < nb
        BY <1>1, <2>2, <3>1 DEF Inv, AllClosed
      <4>2. \A i \in 1 .. Len(disk) : disk[i].file \in 0 .. nb
        BY <1>1, <3>1, <3>5 DEF Inv, Divided, Files
      <4> QED
        BY <3>2, <4>1, <4>2
    <3>7. ASSUME input.pkts # <<>>, NEW v \in 0 .. nb - 1
          PROVE  \E i \in 1 .. Len(disk) : disk[i].file = v
      <4>1. Placed > 0
        BY <3>2, <3>3, <3>5, <3>7
      <4>2. \E i \in 1 .. Placed : FileOf(i) = v
        BY <1>1, <3>1, <4>1 DEF Inv, Divided, Files
      <4> QED
        BY <3>5, <4>2
    <3>8. input.pkts # <<>> => { disk[i].file : i \in 1 .. Len(disk) } = 0 .. nb - 1
      BY <3>6, <3>7
    <3> QED
      BY <3>1, <3>4, <3>8
  <2> QED
    BY <2>1, <2>2 DEF SegmentsConcatenate
<1> QED
  BY <1>1, Invariant, PTL

\* On disk, the first packets of the reference stream in a file, and where files start.
LEMMA OnDiskIs ==
    ASSUME Types, Layout, Sound, NEW i \in 1 .. Len(disk)
    PROVE  /\ i \in 1 .. Placed /\ FileOf(i) = disk[i].file /\ Pkt(disk[i].pkt) = Pkt(i)
           /\ (Leads(i, RefStream) <=> Lead(i))
<1>0. disk \in Seq(DiskType) /\ queue \in Seq(1 .. Len(input.pkts)) /\ Len(disk) \in Nat
      /\ Len(queue) \in Nat
  BY DEF Types, TypeOK, DiskType
<1>1. i \in 1 .. Placed
  BY <1>0 DEF Placed, InMuxer
<1>2. \A k \in 1 .. Len(disk) : FileOf(k) = disk[k].file /\ Pkt(disk[k].pkt) = Pkt(k)
  BY <1>0 DEF FileOf, Layout
<1>3. \A k \in 1 .. i - 1 : k \in 1 .. Len(disk)
  BY <1>0
<1>4. Leads(i, RefStream) <=> Lead(i)
  BY <1>2, <1>3 DEF Leads, Lead
<1> QED
  BY <1>1, <1>2, <1>4

\* Without a failed flush the input is split at packets of the reference stream (key
\* frames, when that is video) that come at least Interval after the first of the
\* segment before, and at every one of them.
THEOREM SegmentsAlwaysSplitExactly == Spec => []SegmentsSplitExactly
<1>1. ASSUME Inv, Sound PROVE
       /\ \A i \in 2 .. Len(disk) : Starts(i) =>
             /\ Leads(i, RefStream)
             /\ RefIsVideo => Pkt(disk[i].pkt).key
             /\ \A j \in 1 .. i - 1 :
                   disk[j].file = disk[i].file - 1 /\ Leads(j, RefStream) =>
                      Pkt(disk[i].pkt).pts - Pkt(disk[j].pkt).pts >= Interval
       /\ \A i, j \in 1 .. Len(disk) :
             j < i /\ disk[i].file = disk[j].file /\ Leads(j, RefStream)
                /\ Pkt(disk[i].pkt).st = RefStream /\ (RefIsVideo => Pkt(disk[i].pkt).key)
                => Pkt(disk[i].pkt).pts - Pkt(disk[j].pkt).pts < Interval
  <2>1. \A i \in 1 .. Len(disk) :
           /\ i \in 1 .. Placed /\ FileOf(i) = disk[i].file /\ Pkt(disk[i].pkt) = Pkt(i)
           /\ (Leads(i, RefStream) <=> Lead(i))
    BY <1>1, OnDiskIs DEF Inv
  <2>2. Files /\ Splits /\ nb \in Nat /\ Len(disk) \in Nat
    BY <1>1 DEF Inv, Divided, Types, TypeOK
  <2>3. ASSUME NEW i \in 2 .. Len(disk), Starts(i) PROVE
             /\ Leads(i, RefStream)
             /\ RefIsVideo => Pkt(disk[i].pkt).key
             /\ \A j \in 1 .. i - 1 :
                   disk[j].file = disk[i].file - 1 /\ Leads(j, RefStream) =>
                      Pkt(disk[i].pkt).pts - Pkt(disk[j].pkt).pts >= Interval
    <3>1. i \in 1 .. Len(disk) /\ i - 1 \in 1 .. Len(disk) /\ i \in 2 .. Placed
          /\ \A j \in 1 .. i - 1 : j \in 1 .. Len(disk)
      BY <2>1, <2>2
    <3>2. FileOf(i) # FileOf(i - 1)
      BY <2>1, <2>3, <3>1 DEF Starts
    <3>3. /\ MaySplit(Pkt(i))
          /\ \A j \in 1 .. i - 1 : FileOf(j) = FileOf(i) - 1 /\ Lead(j) =>
               Pkt(i).pts - Pkt(j).pts >= Interval
      BY <2>2, <3>1, <3>2 DEF Splits
    <3>4. ASSUME NEW k \in 1 .. i - 1 PROVE FileOf(k) # FileOf(i)
      <4>1. k \in 1 .. Placed /\ i - 1 \in 1 .. Placed /\ i \in 1 .. Placed
        BY <2>1, <3>1
      <4>2. FileOf(k) <= FileOf(i - 1) /\ FileOf(i - 1) <= FileOf(i)
        BY <2>2, <4>1 DEF Files
      <4>3. FileOf(k) \in Int /\ FileOf(i - 1) \in Int /\ FileOf(i) \in Int
        BY <2>2, <4>1 DEF Files
      <4> QED
        BY <3>2, <4>2, <4>3
    <3>5. Lead(i)
      BY <3>3, <3>4 DEF Lead, MaySplit
    <3> QED
      BY <2>1, <3>1, <3>3, <3>5 DEF MaySplit
  <2>4. ASSUME NEW i \in 1 .. Len(disk), NEW j \in 1 .. Len(disk), j < i,
               disk[i].file = disk[j].file, Leads(j, RefStream),
               Pkt(disk[i].pkt).st = RefStream, RefIsVideo => Pkt(disk[i].pkt).key
        PROVE  Pkt(disk[i].pkt).pts - Pkt(disk[j].pkt).pts < Interval
    <3>1. FileOf(i) = FileOf(j) /\ Lead(j) /\ MaySplit(Pkt(i)) /\ i \in 1 .. Placed /\ j \in 1 .. Placed
      BY <2>1, <2>4 DEF MaySplit
    <3> QED
      BY <2>1, <2>2, <2>4, <3>1 DEF Splits
  <2> QED
    BY <2>3, <2>4
<1>2. Inv => SegmentsSplitExactly
  BY <1>1 DEF SegmentsSplitExactly, Sound
<1> QED
  BY <1>2, Invariant, PTL

\* The counters of every stream run on from the ones given, across all segments, as
\* long as no flush failed.
THEOREM CountersAlwaysContinue == Spec => []CountersContinue
<1>1. ASSUME Inv, Sound, NEW st \in Streams, NEW i \in 1 .. Len(disk), Pkt(disk[i].pkt).st = st
      PROVE  disk[i].cc = (ResetCcs(HeaderCcs, given)[st]
                  + Cardinality({ j \in 1 .. i - 1 : Pkt(disk[j].pkt).st = st }) + 1) % CcMod
  BY <1>1 DEF Inv, CountersOK, From, Before, Stream
<1>2. Inv => CountersContinue
  BY <1>1 DEF CountersContinue, Sound
<1> QED
  BY <1>2, Invariant, PTL
=============================================================================
