--------------------------- MODULE VideoFramesProofs ---------------------------
(***************************************************************************)
(* Proofs about VideoFrames for sources of any length, with any packets    *)
(* lost, that raise anywhere or not at all.                                *)
(***************************************************************************)
EXTENDS MuxCommand, FiniteSetTheorems, WellFoundedInduction, TLAPS

LEMMA LeastIsLeast ==
    ASSUME NEW S, S \subseteq Nat, S # {}
    PROVE  Least(S) \in S /\ \A i \in S : Least(S) <= i
<1>1. \E x \in S : \A y \in S : ~(<<y, x>> \in OpToRel(<, Nat))
  BY WFMin, NatLessThanWellFounded, Zenon
<1>2. PICK x \in S : \A y \in S : ~(<<y, x>> \in OpToRel(<, Nat))
  BY <1>1
<1>3. \A y \in S : x <= y
  <2> TAKE y \in S
  <2>1. <<y, x>> \in Nat \X Nat /\ ~(y < x)
    BY <1>2 DEF OpToRel
  <2> QED
    BY <2>1
<1> QED
  BY <1>3 DEF Least

LEMMA LeastIsFirst ==
    ASSUME NEW S, S \subseteq Nat, NEW k \in S, \A i \in S : k <= i
    PROVE  Least(S) = k
<1> DEFINE m == Least(S)
<1>1. m \in S /\ m <= k
  BY LeastIsLeast
<1> HIDE DEF m
<1>2. m \in Nat /\ k \in Nat /\ k <= m
  BY <1>1
<1>3. m = k
  BY <1>1, <1>2
<1> QED
  BY <1>3 DEF m

-----------------------------------------------------------------------------
(***************************************************************************)
(* The source: where a search ends, and what it takes.                     *)
(***************************************************************************)
\* The source's generator can be asked, or is finished.
Open == ended = FALSE
Closed == ended = TRUE

LEMMA OpenOrClosed ==
    /\ ended \in BOOLEAN => Open \/ Closed
    /\ Open' \/ Closed' => ended' \in BOOLEAN
    /\ ~(Open /\ Closed) /\ ~(Open' /\ Closed')
  BY Zenon DEF Open, Closed

LEMMA RaisedIsClosed ==
    /\ ended \in BOOLEAN => (SourceRaised <=> Closed /\ taken = input.raises - 1)
    /\ ended' \in BOOLEAN => (SourceRaised' <=> Closed' /\ taken' = input'.raises - 1)
  BY Zenon DEF SourceRaised, Closed

InputOK == /\ input.pkts \in Seq(PacketType) /\ Len(input.pkts) \in Nat
           /\ input.raises \in Nat /\ input.raises >= 1
           /\ ended \in BOOLEAN

ReadOK == Open => taken < input.raises

Within(from) == from \in 1 .. Len(input.pkts) + 1 /\ (Open => from <= input.raises)

\* A search that ends at e has found the first packet wanted, or none up to the end, or
\* none up to where the source raises.
Finds(e, from, W) ==
    \/ /\ e \in from .. Len(input.pkts) /\ e \in W /\ Open
       /\ e < input.raises
       /\ \A j \in from .. e - 1 : j \notin W
    \/ /\ e = 0
       /\ Open => \A j \in from .. Len(input.pkts) : j \notin W
    \/ /\ e = -1 /\ Open
       /\ input.raises <= Len(input.pkts) + 1
       /\ \A j \in from .. input.raises - 1 : j \notin W

Takes(e) ==
    /\ e > 0 => taken' = e /\ (Open => Open') /\ (Closed => Closed')
    /\ e = -1 => taken' = input.raises - 1 /\ Closed'
    /\ e = 0 => Closed' /\ (Open => taken' = Len(input.pkts)) /\ (Closed => taken' = taken)

LEMMA InputType == TypeOK => InputOK
  BY DEF TypeOK, SourceType, InputOK

LEMMA SearchFinds ==
    ASSUME InputOK, NEW from, NEW W, Within(from)
    PROVE  Finds(Search(from, W), from, W)
<1> DEFINE e == Search(from, W)
           found == { i \in from .. Len(input.pkts) : i \in W }
           at == IF found = {} THEN Len(input.pkts) + 1 ELSE Least(found)
<1>0. /\ Len(input.pkts) \in Nat /\ input.raises \in Nat
      /\ from \in 1 .. Len(input.pkts) + 1 /\ (Open => from <= input.raises)
  BY DEF InputOK, Within
<1>1. Open \/ Closed
  BY OpenOrClosed DEF InputOK
<1>2. CASE Closed
  <2>1. e = 0
    BY <1>2 DEF Search, Closed
  <2>2. Finds(0, from, W)
    BY <1>2, OpenOrClosed DEF Finds
  <2> QED
    BY <2>1, <2>2
<1>3. CASE Open
  <2>1. e = IF from <= input.raises /\ input.raises <= at THEN -1
            ELSE IF found = {} THEN 0 ELSE at
    BY <1>3 DEF Search, Open
  <2> HIDE DEF e
  <2>2. CASE found = {}
    <3>1. at = Len(input.pkts) + 1
      BY <2>2
    <3>2. \A j \in from .. Len(input.pkts) : j \notin W
      BY <2>2
    <3> HIDE DEF found, at
    <3>3. Finds(e, from, W)
      BY <1>0, <1>3, <2>1, <2>2, <3>1, <3>2 DEF Finds
    <3> QED
      BY <3>3 DEF e
  <2>3. CASE found # {}
    <3>0. found \subseteq Nat
      BY <1>0
    <3> HIDE DEF found
    <3>1. at \in found /\ \A i \in found : at <= i
      BY <2>3, <3>0, LeastIsLeast
    <3> USE DEF found
    <3>2. \A j \in from .. at - 1 : j \notin W
      BY <1>0, <3>1
    <3>3. at \in from .. Len(input.pkts) /\ at \in W
      BY <3>1
    <3> HIDE DEF found, at
    <3>4. Finds(e, from, W)
      BY <1>0, <1>3, <2>1, <2>3, <3>2, <3>3 DEF Finds
    <3> QED
      BY <3>4 DEF e
  <2> QED
    BY <2>2, <2>3
<1> QED
  BY <1>1, <1>2, <1>3

LEMMA TakeEnds == ASSUME NEW e \in Int, Take(e) PROVE Takes(e)
<1>0. ended' = (ended \/ e <= 0)
  BY DEF Take
<1>1. CASE e > 0
  <2>1. taken' = e
    BY <1>1 DEF Take
  <2>2. ~(e <= 0) /\ e # 0 /\ e # -1
    BY <1>1
  <2>3. (Open => Open') /\ (Closed => Closed')
    BY <1>0, <2>2, Zenon DEF Open, Closed
  <2> QED
    BY <2>1, <2>2, <2>3 DEF Takes
<1>2. CASE e <= 0
  <2>1. Closed'
    BY <1>0, <1>2, Zenon DEF Closed
  <2>2. e = -1 => taken' = input.raises - 1
    BY DEF Take
  <2>3. e = 0 => taken' = IF ended THEN taken ELSE Len(input.pkts)
    BY DEF Take
  <2>4. e = 0 => (Open => taken' = Len(input.pkts)) /\ (Closed => taken' = taken)
    BY <2>3, Zenon DEF Open, Closed
  <2> QED
    BY <1>2, <2>1, <2>2, <2>4 DEF Takes
<1> QED
  BY <1>1, <1>2

\* A search and what it takes, with types.
LEMMA SearchTakes ==
    ASSUME TypeOK, ReadOK, NEW W, NEW from, Within(from), taken < from,
           Take(Search(from, W)), UNCHANGED input
    PROVE  /\ Search(from, W) \in -1 .. Len(input.pkts)
           /\ taken' \in taken .. Len(input.pkts) /\ ended' \in BOOLEAN
           /\ ReadOK' /\ (SourceRaised => SourceRaised')
           /\ Takes(Search(from, W)) /\ Finds(Search(from, W), from, W)
<1> DEFINE e == Search(from, W)
<1>1. /\ InputOK /\ Len(input.pkts) \in Nat /\ ended \in BOOLEAN
      /\ taken \in 0 .. Len(input.pkts) /\ input.raises \in Nat
  BY InputType DEF TypeOK, InputOK
<1>2. Finds(e, from, W)
  BY <1>1, SearchFinds
<1> HIDE DEF e
<1>3. e \in -1 .. Len(input.pkts)
  BY <1>1, <1>2 DEF Finds, Within
<1>4. Takes(e)
  BY <1>3, TakeEnds DEF e
<1>5. (Open \/ Closed) /\ ~(Open /\ Closed) /\ ~(Open' /\ Closed')
  BY <1>1, OpenOrClosed
<1>6. taken' \in taken .. Len(input.pkts) /\ (Open' \/ Closed')
  BY <1>1, <1>2, <1>3, <1>4, <1>5 DEF Finds, Within, ReadOK, Takes
<1>7. ReadOK'
  BY <1>1, <1>2, <1>3, <1>4, <1>5 DEF Finds, Takes, ReadOK
<1>8. ended' \in BOOLEAN
  BY <1>6, OpenOrClosed
<1>9. SourceRaised => SourceRaised'
  <2> SUFFICES ASSUME Closed, taken = input.raises - 1 PROVE Closed' /\ taken' = input'.raises - 1
    BY <1>1, <1>8, RaisedIsClosed
  <2>1. e = 0
    BY <1>2, <1>5 DEF Finds
  <2> QED
    BY <1>4, <2>1 DEF Takes
<1> QED
  BY <1>2, <1>3, <1>4, <1>6, <1>7, <1>8, <1>9 DEF e

-----------------------------------------------------------------------------
(***************************************************************************)
(* The invariant: how far the iterator reads ahead, and what its frames    *)
(* are.                                                                    *)
(***************************************************************************)
FirstKey(p) == p \in Keys /\ \A k \in Keys : p <= k

LastTo == frames[Len(frames)].to

Fresh == pc = "new" => packet = 0 /\ taken = 0 /\ Open /\ frames = <<>>

\* self.packet is the last packet taken.  Only a source that raised leaves one that
\* starts no frame, or one to be read after the generator is finished.
Ahead ==
    pc # "new" /\ packet # 0 =>
       /\ packet = taken
       /\ Closed \/ ~IsStart(packet) => SourceRaised
       /\ IsStart(packet) /\ frames = <<>> => FirstKey(packet)
       /\ frames # <<>> => SourceRaised \/ packet = LastTo + 1

\* Without self.packet the source is finished and all of it is in the frames.
AtEnd ==
    pc # "new" /\ packet = 0 =>
       /\ Closed
       /\ frames = <<>> => SourceRaised \/ Keys = {}
       /\ frames # <<>> => SourceRaised \/ LastTo = Len(input.pkts)

Stopped ==
    /\ pc = "stop" => packet = 0
    /\ pc = "type_error" => packet # 0 /\ ~IsStart(packet)

FrameOK(f) ==
    /\ f.from \in Packets /\ f.to \in Packets /\ f.from <= f.to
    /\ IsStart(f.from)
    /\ \A i \in f.from + 1 .. f.to : ~IsStart(i)

FramesOK ==
    /\ frames # <<>> => FirstKey(frames[1].from)
    /\ \A f \in 1 .. Len(frames) : FrameOK(frames[f])
    /\ \A f \in 2 .. Len(frames) : SourceRaised \/ frames[f].from = frames[f - 1].to + 1

Inv == TypeOK /\ ReadOK /\ Fresh /\ Ahead /\ AtEnd /\ Stopped /\ FramesOK

LEMMA InitInv == Init => Inv
<1> SUFFICES ASSUME Init PROVE Inv
  OBVIOUS
<1>1. /\ input \in Inputs /\ packet = 0 /\ taken = 0 /\ ended = FALSE
      /\ frames = <<>> /\ pc = "new"
  BY DEF Init
<1>2. input \in SourceType /\ Len(input.pkts) \in Nat
  BY <1>1, InputsAssumption DEF SourceType
<1>3. input.raises \in Nat \ {0}
  BY <1>2 DEF SourceType
<1>4. ended \in BOOLEAN
  BY <1>1
<1>5. TypeOK
  BY <1>1, <1>2, <1>4 DEF TypeOK, Packets
<1>6. Open
  BY <1>1 DEF Open
<1>7. ReadOK /\ Fresh
  BY <1>1, <1>3, <1>6 DEF ReadOK, Fresh
<1>8. Ahead /\ AtEnd /\ Stopped /\ FramesOK
  BY <1>1 DEF Ahead, AtEnd, Stopped, FramesOK
<1> QED
  BY <1>5, <1>7, <1>8 DEF Inv

-----------------------------------------------------------------------------
(***************************************************************************)
(* Construct: at most two searches, for a start and for a key frame start. *)
(***************************************************************************)
\* Where the constructor stops, whichever of its searches ended there.
LEMMA ConstructStops ==
    ASSUME Inv, Construct
    PROVE  \E k \in -1 .. Len(input.pkts) :
             /\ packet' = (IF k > 0 THEN k ELSE 0)
             /\ pc' = IF k = -1 THEN "failed" ELSE "ready"
             /\ input' = input /\ frames' = frames /\ frames = <<>>
             /\ taken' \in 0 .. Len(input.pkts) /\ ended' \in BOOLEAN /\ ReadOK'
             /\ k > 0 => FirstKey(k) /\ Open' /\ taken' = k
             /\ k = 0 => Closed' /\ Keys = {}
             /\ k = -1 => Closed' /\ taken' = input.raises - 1
<1> DEFINE s == Search(taken + 1, Starts)
           t == Search(s + 1, Keys)
           k == IF s <= 0 \/ s \in Keys THEN s ELSE t
<1>1. /\ TypeOK /\ ReadOK /\ taken = 0 /\ Open /\ frames = <<>>
      /\ input' = input /\ frames' = frames
      /\ Take(k) /\ packet' = (IF k > 0 THEN k ELSE 0)
      /\ pc' = IF k = -1 THEN "failed" ELSE "ready"
  BY DEF Inv, Fresh, Construct
<1>2. Len(input.pkts) \in Nat /\ InputOK /\ input.raises \in Nat /\ input.raises >= 1
  BY <1>1, InputType DEF InputOK
<1>3. /\ Keys \subseteq Starts /\ Starts \subseteq Packets /\ Keys \subseteq Packets
  BY DEF Keys, Starts, IsKey, IsStart
<1>4. Within(taken + 1)
  BY <1>1, <1>2 DEF Within, ReadOK
<1>5. Finds(s, taken + 1, Starts)
  BY <1>2, <1>4, SearchFinds
<1>6. ~(Open /\ Closed)
  BY OpenOrClosed
<1> HIDE DEF s
<1>7. CASE s <= 0 \/ s \in Keys
  <2>1. k = s
    BY <1>7
  <2>2. /\ s \in -1 .. Len(input.pkts) /\ Takes(s)
        /\ taken' \in taken .. Len(input.pkts) /\ ended' \in BOOLEAN /\ ReadOK'
    BY <1>1, <1>4, <2>1, SearchTakes DEF s
  <2>3. s > 0 => FirstKey(s) /\ Open' /\ taken' = s
    BY <1>1, <1>2, <1>3, <1>5, <1>7, <2>2 DEF Finds, Takes, FirstKey, Packets
  <2>4. s = 0 => Closed' /\ Keys = {}
    BY <1>1, <1>2, <1>3, <1>5, <2>2 DEF Finds, Takes, Packets
  <2>5. s = -1 => Closed' /\ taken' = input.raises - 1
    BY <2>2 DEF Takes
  <2>6. taken' \in 0 .. Len(input.pkts)
    BY <1>1, <2>2
  <2> HIDE DEF k
  <2> QED
    BY <1>1, <2>1, <2>2, <2>3, <2>4, <2>5, <2>6
<1>8. CASE ~(s <= 0 \/ s \in Keys)
  <2>1. k = t
    BY <1>8
  <2>2. /\ s \in 1 .. Len(input.pkts) /\ s < input.raises /\ s \notin Keys
        /\ \A j \in 1 .. s - 1 : j \notin Keys
    BY <1>1, <1>2, <1>3, <1>5, <1>8 DEF Finds
  <2>3. Within(s + 1) /\ taken < s + 1
    BY <1>1, <1>2, <2>2 DEF Within
  <2>4. Finds(t, s + 1, Keys)
    BY <1>2, <2>3, SearchFinds
  <2>5. /\ t \in -1 .. Len(input.pkts) /\ Takes(t)
        /\ taken' \in taken .. Len(input.pkts) /\ ended' \in BOOLEAN /\ ReadOK'
    BY <1>1, <2>1, <2>3, SearchTakes
  <2> HIDE DEF t
  <2>6. t > 0 => FirstKey(t) /\ Open' /\ taken' = t
    BY <1>1, <1>2, <1>3, <2>2, <2>4, <2>5 DEF Finds, Takes, FirstKey, Packets
  <2>7. t = 0 => Closed' /\ Keys = {}
    BY <1>1, <1>2, <1>3, <2>2, <2>4, <2>5 DEF Finds, Takes, Packets
  <2>8. t = -1 => Closed' /\ taken' = input.raises - 1
    BY <2>5 DEF Takes
  <2>9. taken' \in 0 .. Len(input.pkts)
    BY <1>1, <2>5
  <2> HIDE DEF k
  <2> QED
    BY <1>1, <2>1, <2>5, <2>6, <2>7, <2>8, <2>9
<1> QED
  BY <1>7, <1>8

LEMMA ConstructInv == ASSUME Inv, Construct PROVE Inv'
<1>1. PICK k \in -1 .. Len(input.pkts) :
         /\ packet' = (IF k > 0 THEN k ELSE 0)
         /\ pc' = IF k = -1 THEN "failed" ELSE "ready"
         /\ input' = input /\ frames' = frames /\ frames = <<>>
         /\ taken' \in 0 .. Len(input.pkts) /\ ended' \in BOOLEAN /\ ReadOK'
         /\ k > 0 => FirstKey(k) /\ Open' /\ taken' = k
         /\ k = 0 => Closed' /\ Keys = {}
         /\ k = -1 => Closed' /\ taken' = input.raises - 1
  BY ConstructStops
<1>2. input' \in SourceType /\ Len(input.pkts) \in Nat
  BY <1>1 DEF Inv, TypeOK, SourceType
<1>3. packet' \in 0 .. Len(input.pkts) /\ pc' \in {"ready", "failed"}
  BY <1>1, <1>2
<1>4. TypeOK'
  BY <1>1, <1>2, <1>3 DEF TypeOK, Packets
<1>5. Fresh' /\ Stopped' /\ FramesOK'
  BY <1>1, <1>3 DEF Fresh, Stopped, FramesOK
<1>6. k = -1 => SourceRaised'
  BY <1>1, RaisedIsClosed
<1>7. Ahead'
  <2> SUFFICES ASSUME packet' # 0
               PROVE  /\ packet' = taken' /\ (Closed' \/ ~IsStart(packet)' => SourceRaised')
                      /\ (IsStart(packet)' => FirstKey(packet)')
    BY <1>1 DEF Ahead
  <2>1. k > 0 /\ packet' = k
    BY <1>1
  <2>2. IsStart(packet)' /\ FirstKey(packet)'
    BY <1>1, <2>1 DEF FirstKey, Keys, IsKey, IsStart, Packets
  <2> QED
    BY <1>1, <2>1, <2>2, OpenOrClosed
<1>8. AtEnd'
  <2> SUFFICES ASSUME packet' = 0 PROVE Closed' /\ (SourceRaised' \/ Keys' = {})
    BY <1>1 DEF AtEnd
  <2>1. k = 0 \/ k = -1
    BY <1>1
  <2>2. Keys' = Keys
    BY <1>1 DEF Keys, IsKey, Packets
  <2> QED
    BY <1>1, <1>6, <2>1, <2>2
<1> QED
  BY <1>1, <1>4, <1>5, <1>7, <1>8 DEF Inv

-----------------------------------------------------------------------------
(***************************************************************************)
(* next(): a frame, or the source raises in the middle of it.              *)
(***************************************************************************)
\* The frames of a state that appends one.
LEMMA AppendFrame ==
    ASSUME Inv, input' = input, ended' \in BOOLEAN, NEW f, FrameOK(f),
           f.from = packet, f \in [from : Packets, to : Packets],
           pc # "new", packet # 0, IsStart(packet), frames' = Append(frames, f),
           SourceRaised => SourceRaised'
    PROVE  FramesOK' /\ LastTo' = f.to /\ frames' # <<>>
           /\ frames' \in Seq([from : Packets, to : Packets])
<1>1. frames \in Seq([from : Packets, to : Packets]) /\ FramesOK
  BY DEF Inv, TypeOK
<1>2. /\ Len(frames) \in Nat /\ Len(frames') = Len(frames) + 1
      /\ \A i \in 1 .. Len(frames) : frames'[i] = frames[i]
      /\ frames'[Len(frames) + 1] = f
      /\ frames' \in Seq([from : Packets, to : Packets])
  BY <1>1
<1>3. LastTo' = f.to /\ frames' # <<>>
  BY <1>2 DEF LastTo
<1>4. \A g : FrameOK(g)' <=> FrameOK(g)
  BY DEF FrameOK, IsStart, Packets
<1>5. \A g : FirstKey(g)' <=> FirstKey(g)
  BY DEF FirstKey, Keys, IsKey, Packets
<1>6. FirstKey(frames'[1].from)
  <2>1. CASE frames = <<>>
    <3>1. FirstKey(packet)
      BY <2>1 DEF Inv, Ahead
    <3>2. frames'[1] = f
      BY <1>2, <2>1
    <3> QED
      BY <3>1, <3>2
  <2>2. CASE frames # <<>>
    <3>1. 1 \in 1 .. Len(frames)
      BY <1>1, <2>2
    <3> QED
      BY <1>1, <1>2, <2>2, <3>1 DEF FramesOK
  <2> QED
    BY <2>1, <2>2
<1>7. ASSUME NEW i \in 1 .. Len(frames') PROVE FrameOK(frames'[i])
  <2>1. i \in 1 .. Len(frames) \/ i = Len(frames) + 1
    BY <1>2
  <2> QED
    BY <1>1, <1>2, <2>1 DEF FramesOK
<1>8. ASSUME NEW i \in 2 .. Len(frames')
      PROVE  SourceRaised' \/ frames'[i].from = frames'[i - 1].to + 1
  <2>1. CASE i \in 2 .. Len(frames)
    <3>1. i - 1 \in 1 .. Len(frames) /\ i \in 1 .. Len(frames)
      BY <1>2, <2>1
    <3> QED
      BY <1>1, <1>2, <2>1, <3>1 DEF FramesOK
  <2>2. CASE i = Len(frames) + 1
    <3>1. i - 1 = Len(frames) /\ Len(frames) \in 1 .. Len(frames) /\ frames # <<>>
      BY <1>2, <2>2
    <3>2. SourceRaised \/ packet = LastTo + 1
      BY <3>1 DEF Inv, Ahead
    <3> QED
      BY <1>2, <2>2, <3>1, <3>2 DEF LastTo
  <2> QED
    BY <1>2, <2>1, <2>2
<1>9. FramesOK'
  BY <1>2, <1>4, <1>5, <1>6, <1>7, <1>8 DEF FramesOK
<1> QED
  BY <1>2, <1>3, <1>9

LEMMA NextFrameInv == ASSUME Inv, NextFrame PROVE Inv'
<1> DEFINE e == Search(taken + 1, Starts)
           f == [from |-> packet, to |-> IF e = 0 THEN taken' ELSE e - 1]
<1>1. /\ TypeOK /\ ReadOK /\ Ahead /\ pc # "new" /\ packet # 0 /\ IsStart(packet)
      /\ input' = input /\ Take(e)
  BY DEF Inv, NextFrame
<1>2. IF e = -1
      THEN packet' = (IF taken' > taken THEN taken' ELSE packet)
           /\ pc' = "raised" /\ frames' = frames
      ELSE packet' = e /\ pc' = "ready" /\ frames' = Append(frames, f)
  BY DEF NextFrame
<1>3. /\ input \in SourceType /\ Len(input.pkts) \in Nat
      /\ frames \in Seq([from : Packets, to : Packets])
      /\ InputOK /\ input.raises \in Nat /\ packet = taken /\ packet \in Packets
      /\ taken \in Nat
  BY <1>1, InputType DEF TypeOK, InputOK, Ahead, Packets
<1>4. (Open \/ Closed) /\ ~(Open /\ Closed) /\ ~(Open' /\ Closed')
  BY <1>3, OpenOrClosed DEF InputOK
<1>5. Within(taken + 1) /\ taken < taken + 1
  BY <1>1, <1>3 DEF Within, ReadOK, Packets
<1>6. /\ e \in -1 .. Len(input.pkts)
      /\ taken' \in taken .. Len(input.pkts) /\ ended' \in BOOLEAN
      /\ ReadOK' /\ (SourceRaised => SourceRaised')
      /\ Takes(e) /\ Finds(e, taken + 1, Starts)
  BY <1>1, <1>5, SearchTakes
<1> HIDE DEF e
<1>7. Closed => SourceRaised
  BY <1>1 DEF Ahead
<1>8. \A i \in Packets : i \in Starts <=> IsStart(i)
  BY DEF Starts
<1>9. CASE e = -1
  <2>1. /\ Closed' /\ taken' = input.raises - 1 /\ packet' = taken'
        /\ pc' = "raised" /\ frames' = frames
    BY <1>2, <1>3, <1>6, <1>9 DEF Takes
  <2>2. SourceRaised'
    BY <1>1, <1>6, <2>1, RaisedIsClosed
  <2>3. TypeOK' /\ packet' \in Packets
    <3>1. packet' \in Packets
      BY <1>3, <1>6, <2>1 DEF Packets
    <3> QED
      BY <1>1, <1>3, <1>6, <2>1, <3>1 DEF TypeOK, Packets
  <2>4. Fresh' /\ Stopped' /\ AtEnd'
    BY <1>3, <2>1, <2>3 DEF Fresh, Stopped, AtEnd, Packets
  <2>5. IsStart(packet') /\ frames = <<>> => FirstKey(packet')
    <3>1. IsStart(packet') => packet' = packet
      BY <1>3, <1>6, <1>8, <1>9, <2>1, <2>3 DEF Finds
    <3> QED
      BY <1>1, <3>1 DEF Ahead
  <2>6. Ahead'
    <3>1. IsStart(packet)' /\ frames' = <<>> => FirstKey(packet)'
      BY <1>1, <2>1, <2>5 DEF IsStart, FirstKey, Keys, IsKey, Packets
    <3> QED
      BY <2>1, <2>2, <3>1 DEF Ahead
  <2>7. FramesOK'
    <3>1. /\ FramesOK /\ \A g : FrameOK(g)' <=> FrameOK(g)
          /\ \A g : FirstKey(g)' <=> FirstKey(g)
      BY <1>1 DEF Inv, FrameOK, FirstKey, Keys, IsKey, IsStart, Packets
    <3> QED
      BY <2>1, <2>2, <3>1 DEF FramesOK
  <2> QED
    BY <1>6, <2>3, <2>4, <2>6, <2>7 DEF Inv
<1>10. CASE e # -1
  <2>1. packet' = e /\ pc' = "ready" /\ frames' = Append(frames, f)
    BY <1>2, <1>10
  <2>2. /\ f.to \in Packets /\ packet <= f.to
        /\ \A i \in packet + 1 .. f.to : ~IsStart(i)
        /\ e > 0 => f.to = e - 1 /\ e = taken' /\ Open' /\ IsStart(e)
        /\ e = 0 => Closed' /\ (Open => f.to = Len(input.pkts))
    <3>1. CASE e > 0
      BY <1>3, <1>4, <1>6, <1>8, <3>1 DEF Finds, Takes, Packets, SourceType
    <3>2. CASE e = 0
      <4>1. f.to = taken' /\ Closed'
        BY <1>6, <3>2 DEF Takes
      <4>2. CASE Open
        <5>1. f.to = Len(input.pkts)
          BY <1>6, <3>2, <4>1, <4>2 DEF Takes
        <5>2. \A i \in taken + 1 .. Len(input.pkts) : i \notin Starts
          BY <1>3, <1>6, <3>2, <4>2 DEF Finds
        <5>3. \A i \in packet + 1 .. Len(input.pkts) : ~IsStart(i)
          BY <1>3, <1>8, <5>2 DEF Packets
        <5> HIDE DEF f
        <5> QED
          BY <1>3, <3>2, <4>1, <5>1, <5>3 DEF Packets
      <4>3. CASE Closed
        BY <1>3, <1>4, <1>6, <3>2, <4>1, <4>3 DEF Takes, Packets
      <4> QED
        BY <1>4, <3>2, <4>1, <4>2, <4>3
    <3> QED
      BY <1>6, <1>10, <3>1, <3>2
  <2>3. f.from = packet /\ f \in [from : Packets, to : Packets]
    BY <1>3, <2>2
  <2> HIDE DEF f
  <2>4. FrameOK(f)
    BY <1>1, <1>3, <2>2, <2>3 DEF FrameOK
  <2>5. /\ FramesOK' /\ LastTo' = f.to /\ frames' # <<>>
        /\ frames' \in Seq([from : Packets, to : Packets])
    BY <1>1, <1>6, <2>1, <2>3, <2>4, AppendFrame
  <2>6. TypeOK'
    BY <1>1, <1>3, <1>6, <1>10, <2>1, <2>5 DEF TypeOK, Packets
  <2>7. Fresh' /\ Stopped'
    BY <2>1 DEF Fresh, Stopped
  <2>8. Ahead'
    <3> SUFFICES ASSUME e # 0
                 PROVE  /\ packet' = taken' /\ (Closed' \/ ~IsStart(packet)' => SourceRaised')
                        /\ packet' = LastTo' + 1
      BY <2>1, <2>5 DEF Ahead
    <3>1. e > 0
      BY <1>6, <1>10
    <3>2. IsStart(packet)'
      BY <1>1, <2>1, <2>2, <3>1 DEF IsStart
    <3>3. f.to = e - 1 /\ e \in Int
      BY <1>6, <2>2, <3>1
    <3> QED
      BY <1>4, <2>1, <2>2, <2>5, <3>1, <3>2, <3>3
  <2>9. AtEnd'
    <3> SUFFICES ASSUME e = 0
                 PROVE  Closed' /\ (SourceRaised' \/ LastTo' = Len(input'.pkts))
      BY <2>1, <2>5 DEF AtEnd
    <3> QED
      BY <1>1, <1>4, <1>6, <1>7, <2>2, <2>5
  <2> QED
    BY <1>6, <2>5, <2>6, <2>7, <2>8, <2>9 DEF Inv
<1> QED
  BY <1>9, <1>10

-----------------------------------------------------------------------------
(***************************************************************************)
(* The theorems.                                                           *)
(***************************************************************************)
LEMMA EndsInv ==
    ASSUME Inv, UNCHANGED <<input, packet, taken, ended, frames>>, pc # "new",
           pc' \in {pc, "stop", "type_error"},
           pc' = "stop" => packet = 0, pc' = "type_error" => packet # 0 /\ ~IsStart(packet)
    PROVE  Inv'
<1>1. TypeOK'
  BY DEF Inv, TypeOK, Packets
<1>2. (Open' <=> Open) /\ (Closed' <=> Closed) /\ (SourceRaised' <=> SourceRaised)
  BY Zenon DEF Open, Closed, SourceRaised
<1>3. /\ Keys' = Keys /\ (IsStart(packet)' <=> IsStart(packet)) /\ LastTo' = LastTo
      /\ \A g : (FrameOK(g)' <=> FrameOK(g)) /\ (FirstKey(g)' <=> FirstKey(g))
  BY DEF FrameOK, FirstKey, Keys, IsKey, IsStart, Packets, LastTo
<1>4. ReadOK'
  BY <1>2 DEF Inv, ReadOK
<1>5. Fresh' /\ Stopped'
  BY <1>3 DEF Inv, Fresh, Stopped
<1>6. Ahead'
  BY <1>2, <1>3 DEF Inv, Ahead
<1>7. AtEnd'
  BY <1>2, <1>3 DEF Inv, AtEnd
<1>8. FramesOK'
  BY <1>2, <1>3 DEF Inv, FramesOK
<1> QED
  BY <1>1, <1>4, <1>5, <1>6, <1>7, <1>8 DEF Inv

LEMMA NextInv == ASSUME Inv, [Next]_vars PROVE Inv'
<1>1. CASE Construct
  BY <1>1, ConstructInv
<1>2. CASE NextFrame
  BY <1>2, NextFrameInv
<1>3. CASE NextInsideFrame
  BY <1>3, EndsInv DEF NextInsideFrame
<1>4. CASE NextStops
  BY <1>4, EndsInv DEF NextStops
<1>5. CASE UNCHANGED vars
  <2>1. CASE pc = "new"
    <3>1. /\ input' = input /\ packet' = packet /\ taken' = taken /\ ended' = ended
          /\ frames' = frames /\ pc' = pc
      BY <1>5 DEF vars
    <3>2. (Open' <=> Open) /\ TypeOK'
      BY <3>1 DEF Open, Inv, TypeOK, Packets
    <3>3. ReadOK' /\ Fresh' /\ Ahead' /\ AtEnd' /\ Stopped'
      BY <2>1, <3>1, <3>2 DEF Inv, ReadOK, Fresh, Ahead, AtEnd, Stopped
    <3>4. FramesOK'
      BY <2>1, <3>1 DEF Inv, Fresh, FramesOK
    <3> QED
      BY <3>2, <3>3, <3>4 DEF Inv
  <2>2. CASE pc # "new"
    <3>1. UNCHANGED <<input, packet, taken, ended, frames>> /\ pc' = pc
      BY <1>5 DEF vars
    <3>2. (pc' = "stop" => packet = 0)
          /\ (pc' = "type_error" => packet # 0 /\ ~IsStart(packet))
      BY <3>1 DEF Inv, Stopped
    <3> QED
      BY <2>2, <3>1, <3>2, EndsInv
  <2> QED
    BY <2>1, <2>2
<1> QED
  BY <1>1, <1>2, <1>3, <1>4, <1>5 DEF Next

\* Every state that can be reached satisfies the invariant.
THEOREM Invariant == Spec => []Inv
  BY InitInv, NextInv, PTL DEF Spec

\* The variables keep their types: the iterator never points outside its source, and
\* the packets of a frame are packets of the source.
THEOREM TypeCorrect == Spec => []TypeOK
  BY Invariant, PTL DEF Inv

LEMMA InvTiles == ASSUME Inv PROVE FramesTile
<1>1. TypeOK /\ FramesOK /\ AtEnd /\ Ahead /\ Stopped /\ Len(frames) \in Nat
  BY DEF Inv, TypeOK
<1>2. frames # <<>> => frames[1].from = Least(Keys)
  <2> SUFFICES ASSUME frames # <<>> PROVE frames[1].from = Least(Keys)
    OBVIOUS
  <2>1. Keys \subseteq Nat /\ FirstKey(frames[1].from)
    BY <1>1 DEF FramesOK, Keys, Packets
  <2> QED
    BY <2>1, LeastIsFirst DEF FirstKey
<1>3. ASSUME NEW f \in 1 .. Len(frames)
      PROVE  /\ IsStart(frames[f].from)
             /\ \A i \in frames[f].from + 1 .. frames[f].to : ~IsStart(i)
             /\ f > 1 /\ ~SourceRaised => frames[f].from = frames[f - 1].to + 1
  <2>1. f > 1 => f \in 2 .. Len(frames)
    BY <1>1
  <2> QED
    BY <1>1, <2>1 DEF FramesOK, FrameOK
<1>4. pc = "stop" /\ Keys # {} /\ ~SourceRaised =>
         frames # <<>> /\ frames[Len(frames)].to = Len(input.pkts)
  BY <1>1 DEF AtEnd, Stopped, LastTo
<1>5. pc = "type_error" => SourceRaised
  BY <1>1 DEF Ahead, Stopped
<1> QED
  BY <1>2, <1>3, <1>4, <1>5 DEF FramesTile

\* VideoFrames yields frames that tile the source from its first key frame to its
\* end, whichever packets were lost, and fails only after the source raised.
THEOREM FramesTileAll == Spec => []FramesTile
  BY Invariant, InvTiles, PTL

\* The source yields the packets of a frame together, in the order of the frames.
InOrder == \A i, j \in Packets : i <= j => input.pkts[i].frame <= input.pkts[j].frame

LEMMA InvMixes == ASSUME Inv PROVE InOrder => MixedOnlyWhenStartLost
<1> SUFFICES ASSUME InOrder, NEW f \in 1 .. Len(frames),
                    NEW i \in frames[f].from .. frames[f].to,
                    input.pkts[i].frame # input.pkts[frames[f].from].frame,
                    NEW j \in 1 .. i, input.pkts[j].frame = input.pkts[i].frame
             PROVE  ~IsStart(j)
  BY DEF MixedOnlyWhenStartLost
<1> DEFINE from == frames[f].from
           to == frames[f].to
<1>1. /\ input.pkts \in Seq(PacketType) /\ Len(input.pkts) \in Nat
      /\ from \in Packets /\ to \in Packets /\ \A p \in from + 1 .. to : ~IsStart(p)
  <2>1. input.pkts \in Seq(PacketType) /\ Len(input.pkts) \in Nat
    BY InputType DEF Inv, InputOK
  <2>2. FrameOK(frames[f])
    BY DEF Inv, FramesOK
  <2> QED
    BY <2>1, <2>2 DEF FrameOK
<1> HIDE DEF from, to
<1>2. i \in from .. to /\ i \in Packets /\ j \in Packets
  BY <1>1 DEF from, to, Packets
<1>3. \A p \in Packets : input.pkts[p].frame \in Int
  <2> TAKE p \in Packets
  <2>1. input.pkts[p] \in PacketType
    BY <1>1 DEF Packets
  <2> QED
    BY <2>1, Zenon DEF PacketType
<1>4. j > from
  <2> SUFFICES ASSUME ~(j > from) PROVE FALSE
    OBVIOUS
  <2>1. j <= from /\ from <= i
    BY <1>1, <1>2 DEF Packets
  <2>2. /\ input.pkts[j].frame <= input.pkts[from].frame
        /\ input.pkts[from].frame <= input.pkts[i].frame
    BY <1>1, <1>2, <2>1 DEF InOrder
  <2>3. input.pkts[i].frame # input.pkts[from].frame
    BY DEF from
  <2>4. input.pkts[i].frame = input.pkts[from].frame
    <3>1. /\ input.pkts[j].frame \in Int /\ input.pkts[from].frame \in Int
          /\ input.pkts[i].frame \in Int /\ input.pkts[j].frame = input.pkts[i].frame
      BY <1>1, <1>2, <1>3
    <3> QED
      BY ONLY <2>2, <3>1
  <2> QED
    BY <2>3, <2>4
<1>5. j \in from + 1 .. to
  BY <1>1, <1>2, <1>4 DEF Packets
<1> QED
  BY <1>1, <1>5

\* As long as packets come in order, a frame holds packets of another frame only when
\* the packet that starts that other frame was lost.
THEOREM MixesAreLosses == Spec => [](InOrder => MixedOnlyWhenStartLost)
  BY Invariant, InvMixes, PTL
-----------------------------------------------------------------------------
(***************************************************************************)
(* Sequences that are put together.                                        *)
(***************************************************************************)
\* FlattenSeq's recursive function exists, and its values are sequences over T.
FlatOn(f, s, n) == f = [i \in 1 .. n |-> IF i = 1 THEN s[i] ELSE f[i - 1] \o s[i]]

LEMMA FlatExists == ASSUME NEW s, NEW n \in Nat PROVE \E f : FlatOn(f, s, n)
<1> DEFINE B == { m \in Nat : ~ \E f : FlatOn(f, s, m) }
<1> SUFFICES ASSUME B # {} PROVE FALSE
  OBVIOUS
<1>1. B \subseteq Nat
  OBVIOUS
<1> HIDE DEF B
<1>2. PICK m \in B : \A k \in B : m <= k
  BY <1>1, LeastIsLeast
<1> USE DEF B
<1>3. m \in Nat /\ ~ \E f : FlatOn(f, s, m)
  OBVIOUS
<1>4. CASE m = 0
  <2>1. FlatOn(<<>>, s, 0)
    BY DEF FlatOn
  <2> QED
    BY <1>3, <1>4, <2>1
<1>5. CASE m > 0
  <2>1. m - 1 \in Nat /\ ~(m <= m - 1)
    BY <1>3, <1>5
  <2>2. PICK f : FlatOn(f, s, m - 1)
    BY <1>2, <2>1
  <2> DEFINE h == [i \in 1 .. m |-> IF i = m THEN (IF m = 1 THEN s[m] ELSE f[m - 1] \o s[m]) ELSE f[i]]
  <2>3. \A i \in 1 .. m : h[i] = IF i = 1 THEN s[i] ELSE h[i - 1] \o s[i]
    <3> TAKE i \in 1 .. m
    <3>1. CASE i = m
      <4>1. i # 1 => i - 1 \in 1 .. m /\ i - 1 # m
        BY <1>3, <3>1
      <4> QED
        BY <3>1, <4>1
    <3>2. CASE i # m
      <4>1. i \in 1 .. m - 1 /\ (i # 1 => i - 1 \in 1 .. m /\ i - 1 # m)
        BY <1>3, <3>2
      <4>2. f[i] = IF i = 1 THEN s[i] ELSE f[i - 1] \o s[i]
        BY <2>2, <4>1 DEF FlatOn
      <4> QED
        BY <3>2, <4>1, <4>2
    <3> QED
      BY <3>1, <3>2
  <2>4. h = [i \in 1 .. m |-> h[i]]
    OBVIOUS
  <2> HIDE DEF h
  <2>5. FlatOn(h, s, m)
    BY <2>3, <2>4 DEF FlatOn
  <2> QED
    BY <1>3, <2>5
<1> QED
  BY <1>3, <1>4, <1>5

LEMMA FlatType ==
    ASSUME NEW T, NEW s \in Seq(Seq(T))
    PROVE  FlattenSeq(s) \in Seq(T)
<1>0. Len(s) \in Nat /\ \A i \in 1 .. Len(s) : s[i] \in Seq(T)
  OBVIOUS
<1>1. CASE Len(s) = 0
  <2>1. s = <<>>
    BY <1>1
  <2>2. FlattenSeq(s) = s
    BY <1>1, Zenon DEF FlattenSeq
  <2>3. <<>> \in Seq(T)
    OBVIOUS
  <2> QED
    BY <2>1, <2>2, <2>3, Zenon
<1>2. CASE Len(s) > 0
  <2> DEFINE f == CHOOSE g : g = [i \in 1 .. Len(s) |-> IF i = 1 THEN s[i] ELSE g[i - 1] \o s[i]]
             B == { m \in Nat : m \in 1 .. Len(s) /\ f[m] \notin Seq(T) }
  <2>0. Len(s) # 0 /\ Len(s) \in 1 .. Len(s)
    BY <1>0, <1>2
  <2>1. f = [i \in 1 .. Len(s) |-> IF i = 1 THEN s[i] ELSE f[i - 1] \o s[i]]
    BY <1>0, FlatExists, Zenon DEF FlatOn
  <2>2. FlattenSeq(s) = f[Len(s)]
    BY <2>0, Zenon DEF FlattenSeq
  <2> HIDE DEF f
  <2>3. \A i \in 1 .. Len(s) : f[i] = IF i = 1 THEN s[i] ELSE f[i - 1] \o s[i]
    BY <2>1
  <2>4. ASSUME B # {} PROVE FALSE
    <3>1. B \subseteq Nat
      OBVIOUS
    <3> HIDE DEF B
    <3>2. PICK m \in B : \A k \in B : m <= k
      BY <2>4, <3>1, LeastIsLeast
    <3> USE DEF B
    <3>3. m \in 1 .. Len(s) /\ f[m] \notin Seq(T) /\ s[m] \in Seq(T)
      BY <1>0
    <3>4. m # 1
      BY <2>3, <3>3
    <3>5. m - 1 \in 1 .. Len(s) /\ ~(m <= m - 1)
      BY <1>0, <3>3, <3>4
    <3>6. f[m - 1] \in Seq(T)
      BY <3>2, <3>5
    <3>7. f[m] = f[m - 1] \o s[m]
      BY <2>3, <3>3, <3>4
    <3> HIDE DEF B
    <3>8. f[m - 1] \o s[m] \in Seq(T)
      BY ONLY <3>3, <3>6
    <3> QED
      BY <3>3, <3>7, <3>8
  <2> QED
    BY <2>0, <2>2, <2>4
<1> QED
  BY <1>0, <1>1, <1>2
-----------------------------------------------------------------------------
(***************************************************************************)
(* The command's streams: bucket() deals out archives only, and what a     *)
(* cursor over them yields are packets.                                    *)
(***************************************************************************)
LEMMA CommandType ==
    ASSUME NEW c \in Commands
    PROVE  /\ c.archives \in Seq(Archive) /\ Len(c.archives) \in Nat
           /\ Len(c.types) \in Nat \ {0} /\ DOMAIN c.types = 1 .. Len(c.types)
           /\ c.offset \in Int
  BY CommandsAssumption

\* Stream i's n archives of s * n, whether consecutive or every s-th.
LEMMA InBucket ==
    ASSUME NEW s \in Nat, NEW n \in Nat, NEW i \in 1 .. s, NEW k \in 1 .. n
    PROVE  /\ i + (k - 1) * s \in 1 .. s * n
           /\ (i - 1) * n + 1 \in Nat \ {0} /\ i * n \in 0 .. s * n
<1>1. \A a, b, d \in Nat : a <= b => a * d <= b * d
  OBVIOUS
<1>2. (k - 1) * s <= (n - 1) * s /\ i * n <= s * n /\ (i - 1) * n <= i * n
  BY <1>1
<1>3. (n - 1) * s + s = s * n
  OBVIOUS
<1>4. (k - 1) * s \in Nat /\ i * n \in Nat /\ s * n \in Nat /\ (i - 1) * n \in Nat
  OBVIOUS
<1>5. i + (k - 1) * s <= s * n
  BY <1>2, <1>3, <1>4
<1> QED
  BY <1>2, <1>4, <1>5

LEMMA Divides ==
    ASSUME NEW a \in Nat, NEW s \in Nat, s # 0, a % s = 0
    PROVE  a \div s \in Nat /\ a = s * (a \div s)
<1>1. a = s * (a \div s) + (a % s)
  OBVIOUS
<1> QED
  BY <1>1

LEMMA BucketsType ==
    ASSUME NEW c \in Commands, Len(c.archives) % Len(c.types) = 0
    PROVE  Buckets(c) \in [DOMAIN c.types -> Seq(Archive)]
<1> DEFINE s == Len(c.types)
           n == Len(c.archives) \div s
<1>1. /\ c.archives \in Seq(Archive) /\ Len(c.archives) \in Nat
      /\ s \in Nat \ {0} /\ DOMAIN c.types = 1 .. s
  BY CommandType
<1>2. n \in Nat /\ Len(c.archives) = s * n
  BY <1>1, Divides
<1>3. Buckets(c) = [i \in 1 .. s |-> IF c.order = "interleave"
                         THEN [k \in 1 .. n |-> c.archives[i + (k - 1) * s]]
                         ELSE SubSeq(c.archives, (i - 1) * n + 1, i * n)]
  BY DEF Buckets
<1> HIDE DEF s, n
<1>4. ASSUME NEW i \in 1 .. s
      PROVE  /\ [k \in 1 .. n |-> c.archives[i + (k - 1) * s]] \in Seq(Archive)
             /\ SubSeq(c.archives, (i - 1) * n + 1, i * n) \in Seq(Archive)
  <2>1. \A k \in 1 .. n : c.archives[i + (k - 1) * s] \in Archive
    <3> TAKE k \in 1 .. n
    <3>1. i + (k - 1) * s \in 1 .. Len(c.archives)
      BY <1>1, <1>2, InBucket
    <3> QED
      BY <1>1, <3>1
  <2>2. [k \in 1 .. n |-> c.archives[i + (k - 1) * s]] \in Seq(Archive)
    BY <1>2, <2>1
  <2>3. (i - 1) * n + 1 \in Nat \ {0} /\ i * n \in 0 .. Len(c.archives)
    BY <1>1, <1>2, InBucket
  <2>4. SubSeq(c.archives, (i - 1) * n + 1, i * n) \in Seq(Archive)
    <3> DEFINE a == (i - 1) * n + 1
               b == i * n
    <3>1. a \in Nat \ {0} /\ b \in Nat /\ b <= Len(c.archives)
      BY <2>3
    <3> HIDE DEF a, b
    <3>2. SubSeq(c.archives, a, b) \in Seq(Archive)
      BY <1>1, <3>1
    <3> QED
      BY <3>2 DEF a, b
  <2> QED
    BY <2>2, <2>4
<1> QED
  BY <1>1, <1>3, <1>4

LEMMA YieldsType ==
    ASSUME NEW parts \in Seq(Archive), NEW p \in Nat \ {0}, p <= Len(parts) + 1
    PROVE  Yields(parts, p) \in Seq(PacketType)
<1> DEFINE stops == { k \in p .. Len(parts) : parts[k].pkts = <<>> \/ parts[k].cut }
           end == IF stops = {} THEN Len(parts) ELSE Least(stops)
<1>1. Len(parts) \in Nat /\ stops \subseteq Nat /\ \A k \in stops : k \in p .. Len(parts)
  OBVIOUS
<1>2. end \in p - 1 .. Len(parts)
  <2>1. CASE stops = {}
    <3>1. end = Len(parts)
      BY <2>1
    <3> HIDE DEF end
    <3> QED
      BY <1>1, <3>1
  <2>2. CASE stops # {}
    <3> HIDE DEF stops
    <3>1. end = Least(stops) /\ Least(stops) \in stops
      BY <1>1, <2>2, LeastIsLeast
    <3>2. Least(stops) \in p .. Len(parts)
      BY <1>1, <3>1, Zenon
    <3> HIDE DEF end
    <3> QED
      BY <3>1, <3>2
  <2> QED
    BY <2>1, <2>2
<1>3. Yields(parts, p) = FlattenSeq([k \in 1 .. end - p + 1 |-> parts[p + k - 1].pkts])
  BY DEF Yields
<1> HIDE DEF stops, end
<1>4. end - p + 1 \in Nat
  BY <1>1, <1>2
<1>5. \A k \in 1 .. end - p + 1 : parts[p + k - 1].pkts \in Seq(PacketType)
  <2> TAKE k \in 1 .. end - p + 1
  <2>1. p + k - 1 \in 1 .. Len(parts)
    BY <1>1, <1>2
  <2>2. parts[p + k - 1] \in Archive
    BY <2>1
  <2> QED
    BY <2>2, Zenon DEF Archive
<1> DEFINE n == end - p + 1
           s == [k \in 1 .. n |-> parts[p + k - 1].pkts]
<1>6. s \in Seq(Seq(PacketType))
  <2>1. s \in [1 .. n -> Seq(PacketType)]
    BY <1>5
  <2>2. n \in Nat
    BY <1>4
  <2> HIDE DEF s, n
  <2> QED
    BY <2>1, <2>2
<1> HIDE DEF s
<1>7. FlattenSeq(s) \in Seq(PacketType)
  BY <1>6, FlatType
<1> QED
  BY <1>3, <1>7 DEF s

-----------------------------------------------------------------------------
(***************************************************************************)
(* The frame rate: as many starts as were sampled need as much time.       *)
(***************************************************************************)
LEMMA GreatestIsGreatest ==
    ASSUME NEW S, S # {}, S \subseteq Nat, NEW n \in Nat, \A i \in S : i <= n
    PROVE  Greatest(S) \in S /\ \A i \in S : i <= Greatest(S)
<1> DEFINE U == { m \in Nat : \A i \in S : i <= m }
<1>1. n \in U /\ U \subseteq Nat
  OBVIOUS
<1> HIDE DEF U
<1>2. PICK m \in U : \A k \in U : m <= k
  BY <1>1, LeastIsLeast
<1> USE DEF U
<1>3. m \in S
  <2> SUFFICES ASSUME m \notin S PROVE FALSE
    OBVIOUS
  <2>1. \A i \in S : i \in Nat /\ i < m
    OBVIOUS
  <2> PICK x \in S : TRUE
    OBVIOUS
  <2>2. m - 1 \in Nat /\ \A i \in S : i <= m - 1
    <3>1. m \in Nat /\ x < m /\ x \in Nat
      BY <2>1
    <3> HIDE DEF U
    <3> QED
      BY <2>1, <3>1
  <2>3. m <= m - 1
    BY <1>2, <2>2
  <2> QED
    BY <2>3
<1>4. m \in S /\ \A i \in S : i <= m
  BY <1>3
<1> QED
  BY <1>4 DEF Greatest

Increasing == \A i, j \in Starts : i < j => input.pkts[i].frame < input.pkts[j].frame

LEMMA FrameType ==
    ASSUME TypeOK
    PROVE  Len(input.pkts) \in Nat /\ \A i \in Starts : i \in Packets /\ input.pkts[i].frame \in Int
<1>1. input.pkts \in Seq(PacketType) /\ Len(input.pkts) \in Nat
  BY DEF TypeOK, SourceType
<1>2. ASSUME NEW i \in Starts PROVE i \in Packets /\ input.pkts[i].frame \in Int
  <2>1. i \in Packets /\ input.pkts[i] \in PacketType
    BY <1>1 DEF Starts, Packets
  <2> QED
    BY <2>1, Zenon DEF PacketType
<1> QED
  BY <1>1, <1>2

LEMMA RateOfSample ==
    ASSUME TypeOK, ~CannotEstimate
    PROVE  /\ Cardinality(Sampled) - 1 \in Nat \ {0} /\ Elapsed \in Int
           /\ Increasing => Cardinality(Sampled) - 1 <= Elapsed
<1> DEFINE S == Sampled
           t == [i \in S |-> input.pkts[i].frame]
           lo == Least(S)
           hi == Greatest(S)
<1>1. Len(input.pkts) \in Nat /\ \A i \in Starts : i \in Packets /\ input.pkts[i].frame \in Int
  BY FrameType
<1>2. S \subseteq Starts
  BY DEF Sampled
<1>3. S \subseteq Nat /\ \A i \in S : i <= Len(input.pkts)
  BY <1>1, <1>2 DEF Packets
<1>4. IsFiniteSet(S) /\ Cardinality(S) \in Nat /\ (Cardinality(S) = 0 <=> S = {})
  <2>1. IsFiniteSet(1 .. Len(input.pkts)) /\ S \in SUBSET (1 .. Len(input.pkts))
    BY <1>1, <1>2, FS_Interval DEF Packets
  <2>2. IsFiniteSet(S)
    BY <2>1, FS_Subset
  <2> QED
    BY <2>2, FS_CardinalityType, FS_EmptySet
<1>5. Cardinality(S) >= 2 /\ Elapsed = input.pkts[hi].frame - input.pkts[lo].frame
  BY <1>4, BoundsAssumption DEF CannotEstimate, Elapsed
<1> HIDE DEF S
<1>6. S # {}
  BY <1>4, <1>5
<1>7. lo \in S /\ hi \in S /\ \A i \in S : lo <= i /\ i <= hi
  BY <1>1, <1>3, <1>6, LeastIsLeast, GreatestIsGreatest
<1> HIDE DEF lo, hi
<1>8. input.pkts[lo].frame \in Int /\ input.pkts[hi].frame \in Int
  BY <1>1, <1>2, <1>7
<1>9. ASSUME Increasing PROVE Cardinality(S) - 1 <= Elapsed
  <2> DEFINE a == input.pkts[lo].frame
             b == input.pkts[hi].frame
  <2>1. \A i, j \in S : t[i] \in Int /\ i \in Nat /\ j \in Nat /\ (i < j => t[i] < t[j])
    BY <1>1, <1>2, <1>3, <1>9 DEF Increasing
  <2>2. a = t[lo] /\ b = t[hi] /\ t \in [S -> Int]
    BY <1>7, <2>1
  <2> HIDE DEF t
  <2>3. \A i \in S : t[i] \in a .. b
    BY <1>7, <2>1, <2>2
  <2>4. \A i, j \in S : t[i] = t[j] => i = j
    BY <2>1
  <2>5. t \in Injection(S, a .. b)
    BY <2>2, <2>3, <2>4 DEF Injection, IsInjective
  <2> HIDE DEF a, b
  <2>6. a \in Int /\ b \in Int /\ a <= b
    BY <1>7, <1>8, <2>3 DEF a, b
  <2>7. IsFiniteSet(a .. b) /\ Cardinality(a .. b) = b - a + 1
    BY <2>6, FS_Interval
  <2>8. Cardinality(S) <= Cardinality(a .. b)
    BY <2>5, <2>7, FS_Injection
  <2>9. Elapsed = b - a
    BY <1>5 DEF a, b
  <2> QED
    BY <1>4, <2>6, <2>7, <2>8, <2>9
<1>10. Cardinality(S) - 1 \in Nat \ {0} /\ Elapsed \in Int
  BY <1>4, <1>5, <1>8
<1> QED
  BY <1>9, <1>10 DEF S
-----------------------------------------------------------------------------
(***************************************************************************)
(* The command: VideoFrames' invariant is kept by all its steps, and what  *)
(* the probes found is where the frames will begin.                        *)
(***************************************************************************)
Early == {"bucket", "offset", "video", "width", "height", "rate", "frames"}

\* A scan for a key frame found the first; or the source raises before any.
Probe(w) == FirstKey(w) \/ \A k \in Keys : k >= input.raises

RateOK == Increasing => 0 < profile.frames /\ profile.frames <= profile.time

Described == FirstKey(profile.width) /\ FirstKey(profile.height) /\ RateOK

CommandOK ==
    /\ profile \in [width : Int, height : Int, frames : Int, time : Int]
    /\ stage # "api" => cmd \in Commands
    /\ stage = "offset" => streams \in [DOMAIN cmd.types -> Seq(Archive)]
    /\ stage \in Early => pc = "new"

ProbesOK ==
    /\ stage \in {"height", "rate", "frames"} => Probe(profile.width)
    /\ stage \in {"rate", "frames"} => Probe(profile.height)
    /\ stage = "frames" => RateOK
    /\ stage # "api" /\ pc # "new" =>
          Described \/ Keys = {} \/ (pc = "failed" /\ frames = <<>>)

AllInv == Inv /\ CommandOK /\ ProbesOK

\* A source from which nothing was read and that does not raise.
Unread ==
    /\ \E p \in Seq(PacketType) : input = Source(p)
    /\ packet = 0 /\ taken = 0 /\ ended = FALSE /\ frames = <<>> /\ pc = "new"

LEMMA UnreadInv == Unread => Inv
<1> SUFFICES ASSUME Unread PROVE Inv
  OBVIOUS
<1> USE DEF Unread
<1>1. input.raises \in Nat \ {0} /\ Len(input.pkts) \in Nat /\ input.pkts \in Seq(PacketType)
  BY DEF Source
<1>2. input \in SourceType
  BY DEF Source, SourceType
<1>3. TypeOK
  <2>1. packet \in 0 .. Len(input.pkts) /\ taken \in 0 .. Len(input.pkts)
    BY <1>1
  <2>2. ended \in BOOLEAN
    BY Zenon
  <2>3. frames \in Seq([from : Packets, to : Packets])
    OBVIOUS
  <2> QED
    BY <1>2, <2>1, <2>2, <2>3 DEF TypeOK
<1>4. ReadOK
  BY <1>1 DEF ReadOK
<1>5. Fresh /\ Ahead /\ AtEnd /\ Stopped /\ FramesOK
  BY DEF Fresh, Open, Ahead, AtEnd, Stopped, FramesOK
<1> QED
  BY <1>3, <1>4, <1>5 DEF Inv

LEMMA InitAllInv == InitAll => AllInv
<1> SUFFICES ASSUME InitAll PROVE AllInv
  OBVIOUS
<1>0. profile \in [width : Int, height : Int, frames : Int, time : Int]
  BY DEF InitAll, NoProfile
<1>1. CASE InitCommand
  <2>1. /\ cmd \in Commands /\ stage = "bucket" /\ input = Source(<<>>) /\ pc = "new"
        /\ packet = 0 /\ taken = 0 /\ ended = FALSE /\ frames = <<>>
    BY <1>1 DEF InitCommand
  <2>2. Unread
    <3>1. <<>> \in Seq(PacketType)
      OBVIOUS
    <3> QED
      BY <2>1, <3>1 DEF Unread
  <2>3. Inv
    BY <2>2, UnreadInv
  <2>4. CommandOK /\ ProbesOK
    BY <1>0, <2>1 DEF CommandOK, ProbesOK
  <2> QED
    BY <2>3, <2>4 DEF AllInv
<1>2. CASE Init /\ stage = "api"
  <2>1. CommandOK /\ ProbesOK
    BY <1>0, <1>2 DEF CommandOK, ProbesOK, Early
  <2> QED
    BY <1>2, <2>1, InitInv DEF AllInv
<1> QED
  BY <1>1, <1>2 DEF InitAll

LEMMA SameInput ==
    ASSUME UNCHANGED input
    PROVE  /\ Keys' = Keys /\ Starts' = Starts /\ (Increasing' <=> Increasing)
           /\ \A w : (FirstKey(w)' <=> FirstKey(w)) /\ (Probe(w)' <=> Probe(w))
<1>1. Keys' = Keys /\ Starts' = Starts
  BY DEF Keys, Starts, IsKey, IsStart, Packets
<1>2. Increasing' <=> Increasing
  BY <1>1 DEF Increasing
<1>3. \A w : FirstKey(w)' <=> FirstKey(w)
  BY <1>1 DEF FirstKey
<1>4. \A w : Probe(w)' <=> Probe(w)
  BY <1>1, <1>3 DEF Probe
<1> QED
  BY <1>1, <1>2, <1>3, <1>4

LEMMA DimensionFinds ==
    ASSUME AllInv, stage \in Early, Dimension # 0
    PROVE  Probe(Dimension) /\ Dimension \in Int
<1>1. TypeOK /\ ReadOK /\ Open /\ taken = 0
  BY DEF AllInv, CommandOK, Inv, Fresh
<1>2. InputOK /\ Len(input.pkts) \in Nat /\ input.raises \in Nat
  BY <1>1, InputType DEF InputOK
<1>3. Within(1) /\ Dimension = Search(1, Keys)
  BY <1>1, <1>2 DEF Within, ReadOK, Dimension
<1> PICK w : w = Dimension
  OBVIOUS
<1>4. Finds(w, 1, Keys)
  BY <1>2, <1>3, SearchFinds
<1>5. Keys \subseteq 1 .. Len(input.pkts)
  BY DEF Keys, Packets
<1>6. CASE w \in 1 .. Len(input.pkts) /\ w \in Keys /\ \A j \in 1 .. w - 1 : j \notin Keys
  <2>1. FirstKey(w)
    BY <1>2, <1>5, <1>6 DEF FirstKey
  <2> QED
    BY <1>6, <2>1 DEF Probe
<1>7. CASE w = -1 /\ \A j \in 1 .. input.raises - 1 : j \notin Keys
  <2>1. \A k \in Keys : k >= input.raises
    BY <1>2, <1>5, <1>7
  <2> QED
    BY <1>7, <2>1 DEF Probe
<1> QED
  BY <1>4, <1>6, <1>7 DEF Finds

\* Steps that change none of VideoFrames' variables.
LEMMA ApartInv ==
    ASSUME AllInv, UNCHANGED vars
    PROVE  /\ Inv' /\ pc' = pc /\ frames' = frames
           /\ Keys' = Keys /\ (Increasing' <=> Increasing)
           /\ \A w : (FirstKey(w)' <=> FirstKey(w)) /\ (Probe(w)' <=> Probe(w))
<1>1. Inv'
  BY NextInv DEF AllInv
<1> QED
  BY <1>1, SameInput DEF vars

LEMMA RaiseInv == ASSUME AllInv, NEW s, s \in Early \cup {"audio", "mux"}, Raise(s) PROVE AllInv'
<1>1. /\ UNCHANGED <<vars, cmd, profile>> /\ stage # "api" /\ stage' = "raised"
  BY DEF Raise, Early
<1>2. CommandOK'
  BY <1>1, ApartInv DEF AllInv, CommandOK, Early
<1>3. ProbesOK'
  BY <1>1, ApartInv DEF AllInv, ProbesOK, Described, RateOK
<1> QED
  BY <1>1, <1>2, <1>3, ApartInv DEF AllInv

LEMMA BucketInv == ASSUME AllInv, Bucket PROVE AllInv'
<1>1. /\ UNCHANGED <<vars, cmd, profile>> /\ stage = "bucket" /\ stage' = "offset"
      /\ streams' = Buckets(cmd) /\ cmd \in Commands /\ ~CannotBucket
  BY DEF Bucket, Goto, AllInv, CommandOK
<1>2. Len(cmd.archives) % Len(cmd.types) = 0
  BY <1>1 DEF CannotBucket
<1>3. streams' \in [DOMAIN cmd.types -> Seq(Archive)]
  BY <1>1, <1>2, BucketsType
<1>4. CommandOK'
  BY <1>1, <1>3, ApartInv DEF AllInv, CommandOK, Early
<1>5. ProbesOK'
  BY <1>1, ApartInv DEF AllInv, CommandOK, ProbesOK, Early
<1> QED
  BY <1>1, <1>4, <1>5, ApartInv DEF AllInv

LEMMA TargetType ==
    ASSUME NEW v \in DOMAIN streams, cmd \in Commands, 
           streams \in [DOMAIN cmd.types -> Seq(Archive)], cmd.offset # 0 => Seekable
    PROVE  Target \in Nat \ {0} /\ Target <= Len(streams[v]) + 1
<1>1. cmd.offset \in Int /\ streams[v] \in Seq(Archive) /\ Len(streams[v]) \in Nat
  BY CommandType
<1>2. CASE cmd.offset = 0
  <2>1. Target = 1
    BY <1>2 DEF Target
  <2> QED
    BY <1>1, <2>1
<1>3. CASE cmd.offset # 0
  <2>1. Target \in DOMAIN streams[v]
    BY <1>3 DEF Seekable
  <2>2. Target \in 1 .. Len(streams[v])
    BY <1>1, <2>1
  <2> QED
    BY <1>1, <2>2
<1> QED
  BY <1>2, <1>3

LEMMA OffsetInv == ASSUME AllInv, Offset PROVE AllInv'
<1>1. /\ UNCHANGED <<packet, taken, ended, frames, pc, cmd, profile>>
      /\ stage = "offset" /\ stage' = "video"
      /\ cmd \in Commands /\ (cmd.offset # 0 => Seekable) /\ pc = "new"
      /\ streams \in [DOMAIN cmd.types -> Seq(Archive)]
      /\ input' = Source(IF Of("video") = {} THEN <<>> ELSE Yields(streams[Stream("video")], Target))
  BY DEF Offset, Goto, AllInv, CommandOK, Early
<1>2. packet = 0 /\ taken = 0 /\ Open /\ frames = <<>>
  BY <1>1 DEF AllInv, Inv, Fresh
<1>3. \E p \in Seq(PacketType) : input' = Source(p)
  <2>1. CASE Of("video") = {}
    <3>1. <<>> \in Seq(PacketType)
      OBVIOUS
    <3> QED
      BY <1>1, <2>1, <3>1
  <2>2. CASE Of("video") # {}
    <3> DEFINE v == Stream("video")
    <3>1. v \in Of("video")
      BY <2>2 DEF Stream
    <3> HIDE DEF v
    <3>2. v \in DOMAIN streams /\ streams[v] \in Seq(Archive)
      BY <1>1, <3>1 DEF Of
    <3>3. Target \in Nat \ {0} /\ Target <= Len(streams[v]) + 1
      BY <1>1, <3>2, TargetType
    <3>4. Yields(streams[v], Target) \in Seq(PacketType)
      BY <3>2, <3>3, YieldsType
    <3>5. input' = Source(Yields(streams[v], Target))
      BY <1>1, <2>2 DEF v
    <3> QED
      BY <3>4, <3>5
  <2> QED
    BY <2>1, <2>2
<1>4. Inv'
  <2>1. Unread'
    BY <1>1, <1>2, <1>3 DEF Unread, Open
  <2> QED
    BY <2>1, UnreadInv, PTL
<1>5. CommandOK'
  BY <1>1 DEF AllInv, CommandOK, Early
<1>6. ProbesOK'
  BY <1>1 DEF ProbesOK
<1> QED
  BY <1>4, <1>5, <1>6 DEF AllInv

LEMMA ResolveInv ==
    ASSUME AllInv, ResolveVideo \/ ResolveAudio \/ StopBeforeMux \/ OpenContainer \/ MuxAudio
                   \/ MuxReturns
    PROVE  AllInv'
<1>1. /\ UNCHANGED <<vars, cmd, profile>> /\ stage # "api"
      /\ \/ stage = "video" /\ stage' \in {"audio", "width"}
         \/ stage \notin Early /\ stage' \in {"container", "dry", "raised", "mux", "muxed"}
  BY DEF ResolveVideo, ResolveAudio, StopBeforeMux, OpenContainer, MuxAudio, MuxReturns, Goto, Early
<1>2. CommandOK'
  BY <1>1, ApartInv DEF AllInv, CommandOK, Early
<1>3. ProbesOK'
  BY <1>1, ApartInv DEF AllInv, ProbesOK, Described, RateOK, Early
<1> QED
  BY <1>1, <1>2, <1>3, ApartInv DEF AllInv

LEMMA ProbeWidthInv == ASSUME AllInv, ProbeWidth PROVE AllInv'
<1>1. /\ UNCHANGED <<vars, cmd>> /\ stage = "width" /\ stage' = "height" /\ Dimension # 0
      /\ profile' = [profile EXCEPT !.width = Dimension]
      /\ profile \in [width : Int, height : Int, frames : Int, time : Int] /\ pc = "new"
  BY DEF ProbeWidth, Goto, AllInv, CommandOK, Early
<1>2. Probe(Dimension) /\ Dimension \in Int
  BY <1>1, DimensionFinds DEF Early
<1>3. profile'.width = Dimension /\ profile' \in [width : Int, height : Int, frames : Int, time : Int]
  BY <1>1, <1>2
<1>4. CommandOK'
  BY <1>1, <1>3, ApartInv DEF AllInv, CommandOK, Early
<1>5. Probe(profile.width)'
  BY <1>1, <1>2, <1>3, ApartInv
<1>6. ProbesOK'
  BY <1>1, <1>5, ApartInv DEF ProbesOK
<1> QED
  BY <1>1, <1>4, <1>6, ApartInv DEF AllInv

LEMMA ProbeHeightInv == ASSUME AllInv, ProbeHeight PROVE AllInv'
<1>1. /\ UNCHANGED <<vars, cmd>> /\ stage = "height" /\ stage' = "rate" /\ Dimension # 0
      /\ profile' = [profile EXCEPT !.height = Dimension]
      /\ profile \in [width : Int, height : Int, frames : Int, time : Int] /\ pc = "new"
      /\ Probe(profile.width)
  BY DEF ProbeHeight, Goto, AllInv, CommandOK, ProbesOK, Early
<1>2. Probe(Dimension) /\ Dimension \in Int
  BY <1>1, DimensionFinds DEF Early
<1>3. /\ profile'.width = profile.width /\ profile'.height = Dimension
      /\ profile' \in [width : Int, height : Int, frames : Int, time : Int]
  BY <1>1, <1>2
<1>4. CommandOK'
  BY <1>1, <1>3, ApartInv DEF AllInv, CommandOK, Early
<1>5. Probe(profile.width)' /\ Probe(profile.height)'
  BY <1>1, <1>2, <1>3, ApartInv
<1>6. ProbesOK'
  BY <1>1, <1>5, ApartInv DEF ProbesOK
<1> QED
  BY <1>1, <1>4, <1>6, ApartInv DEF AllInv

LEMMA EstimateInv == ASSUME AllInv, Estimate PROVE AllInv'
<1> DEFINE n == Cardinality(Sampled) - 1
<1>1. /\ UNCHANGED <<vars, cmd>> /\ stage = "rate" /\ stage' = "frames" /\ ~CannotEstimate
      /\ profile' = [profile EXCEPT !.frames = n, !.time = Elapsed]
      /\ profile \in [width : Int, height : Int, frames : Int, time : Int] /\ pc = "new"
      /\ Probe(profile.width) /\ Probe(profile.height) /\ TypeOK
  BY DEF Estimate, Goto, AllInv, CommandOK, ProbesOK, Early, Inv
<1>2. n \in Nat \ {0} /\ Elapsed \in Int /\ (Increasing => n <= Elapsed)
  BY <1>1, RateOfSample
<1> HIDE DEF n
<1>3. /\ profile'.width = profile.width /\ profile'.height = profile.height
      /\ profile'.frames = n /\ profile'.time = Elapsed
      /\ profile' \in [width : Int, height : Int, frames : Int, time : Int]
  <2>1. n \in Int /\ Elapsed \in Int
    BY <1>2
  <2>2. profile' = [width |-> profile.width, height |-> profile.height, frames |-> n, time |-> Elapsed]
    BY <1>1
  <2>3. profile.width \in Int /\ profile.height \in Int
    BY <1>1
  <2> QED
    BY <2>1, <2>2, <2>3
<1>4. CommandOK'
  BY <1>1, <1>3, ApartInv DEF AllInv, CommandOK, Early
<1>5. Probe(profile.width)' /\ Probe(profile.height)'
  BY <1>1, <1>3, ApartInv
<1>6. RateOK'
  <2>1. Increasing => 0 < n /\ n <= Elapsed
    BY <1>2
  <2> QED
    BY <1>1, <1>3, <2>1, ApartInv DEF RateOK
<1>7. ProbesOK'
  BY <1>1, <1>5, <1>6, ApartInv DEF ProbesOK
<1> QED
  BY <1>1, <1>4, <1>7, ApartInv DEF AllInv

\* The frames begin where the probes stopped: at the first key frame.
LEMMA MakeVideoFramesInv == ASSUME AllInv, MakeVideoFrames PROVE AllInv'
<1>1. /\ Construct /\ UNCHANGED <<cmd, profile>> /\ stage = "frames" /\ stage' = "audio"
      /\ Inv /\ CommandOK /\ Probe(profile.width) /\ Probe(profile.height) /\ RateOK
  BY DEF MakeVideoFrames, Goto, AllInv, CommandOK, ProbesOK, Early
<1>2. Inv'
  BY <1>1, ConstructInv
<1>3. CommandOK'
  BY <1>1 DEF CommandOK, Early
<1>4. PICK k \in -1 .. Len(input.pkts) :
             /\ pc' = IF k = -1 THEN "failed" ELSE "ready"
             /\ input' = input /\ frames' = <<>> /\ ReadOK'
             /\ k > 0 => FirstKey(k) /\ Open' /\ taken' = k
             /\ k = 0 => Keys = {}
  BY <1>1, ConstructStops, Zenon
<1>5. Len(input.pkts) \in Nat /\ input.raises \in Nat
  BY <1>1, InputType DEF Inv, InputOK
<1>6. UNCHANGED input /\ Keys' = Keys /\ (Increasing' <=> Increasing)
      /\ \A w : FirstKey(w)' <=> FirstKey(w)
  BY <1>4, SameInput
<1>7. ASSUME k > 0 PROVE FirstKey(profile.width) /\ FirstKey(profile.height)
  <2>1. k \in Keys /\ k < input.raises /\ k \in Nat
    BY <1>4, <1>5, <1>7 DEF FirstKey, ReadOK
  <2>2. ~(k >= input.raises)
    BY <1>5, <2>1
  <2> QED
    BY <1>1, <2>1, <2>2 DEF Probe
<1>8. Described' \/ Keys' = {} \/ (pc' = "failed" /\ frames' = <<>>)
  <2>1. CASE k > 0
    BY <1>1, <1>6, <1>7, <2>1 DEF Described, RateOK
  <2>2. CASE k = 0
    BY <1>4, <1>6, <2>2
  <2>3. CASE k = -1
    BY <1>4, <2>3
  <2> QED
    BY <1>4, <1>5, <2>1, <2>2, <2>3
<1>9. ProbesOK'
  BY <1>1, <1>8 DEF ProbesOK
<1> QED
  BY <1>2, <1>3, <1>9 DEF AllInv

LEMMA MuxVideoInv == ASSUME AllInv, MuxVideo PROVE AllInv'
<1>1. /\ NextFrame \/ NextStops
      /\ UNCHANGED <<cmd, profile>> /\ stage = "mux" /\ stage' = "mux"
      /\ Inv /\ CommandOK /\ ProbesOK /\ [Next]_vars
  BY DEF MuxVideo, command, AllInv, Next
<1>2. Inv'
  BY <1>1, NextInv
<1>3. UNCHANGED input /\ pc # "new" /\ pc # "failed"
  BY <1>1 DEF NextFrame, NextStops
<1>4. Keys' = Keys /\ (Increasing' <=> Increasing) /\ \A w : FirstKey(w)' <=> FirstKey(w)
  BY <1>3, SameInput
<1>5. Described \/ Keys = {}
  BY <1>1, <1>3 DEF ProbesOK
<1>6. Described' \/ Keys' = {}
  BY <1>1, <1>4, <1>5 DEF Described, RateOK
<1>7. CommandOK' /\ ProbesOK'
  BY <1>1, <1>6 DEF CommandOK, ProbesOK, Early
<1> QED
  BY <1>2, <1>7 DEF AllInv

LEMMA NextAllInv == AllInv /\ [CommandNext \/ ApiNext]_allvars => AllInv'
<1> SUFFICES ASSUME AllInv, [CommandNext \/ ApiNext]_allvars PROVE AllInv'
  OBVIOUS
<1>1. CASE BucketFails \/ OffsetFails \/ VideoFails \/ ProbeFails \/ EstimateFails \/ AudioFails \/ MuxFails
  <2>1. \E s \in Early \cup {"audio", "mux"} : Raise(s)
    BY <1>1, Zenon DEF BucketFails, OffsetFails, VideoFails, ProbeFails, EstimateFails, AudioFails,
                MuxFails, Early
  <2> QED
    BY <2>1, RaiseInv
<1>2. CASE ApiNext
  <2>1. [Next]_vars /\ UNCHANGED <<cmd, profile>> /\ stage = "api" /\ stage' = "api"
    BY <1>2 DEF ApiNext, command
  <2>2. Inv'
    BY <2>1, NextInv DEF AllInv
  <2>3. CommandOK' /\ ProbesOK'
    BY <2>1 DEF AllInv, CommandOK, ProbesOK, Early
  <2> QED
    BY <2>2, <2>3 DEF AllInv
<1>3. CASE UNCHANGED allvars
  <2>1. UNCHANGED vars /\ UNCHANGED command
    BY <1>3 DEF allvars
  <2>2. CommandOK' /\ ProbesOK'
    BY <2>1, ApartInv DEF AllInv, CommandOK, ProbesOK, Described, RateOK, command
  <2> QED
    BY <2>1, <2>2, ApartInv DEF AllInv
<1> QED
  BY <1>1, <1>2, <1>3, BucketInv, OffsetInv, ResolveInv, ProbeWidthInv, ProbeHeightInv, EstimateInv,
     MakeVideoFramesInv, MuxVideoInv DEF CommandNext

THEOREM CommandInvariant == SpecAll => []AllInv
<1> QED
  BY InitAllInv, NextAllInv, PTL DEF SpecAll

\* cli.mux_cmd: the frames assembled for a command tile its source, and hold packets of
\* another frame only when that frame's start was lost, whatever was probed before.
THEOREM CommandFramesTile == SpecAll => [](FramesTile /\ (InOrder => MixedOnlyWhenStartLost))
<1>1. AllInv => FramesTile /\ (InOrder => MixedOnlyWhenStartLost)
  BY InvTiles, InvMixes DEF AllInv
<1> QED
  BY <1>1, CommandInvariant, PTL

\* cli.mux_cmd: the header that was written before the first frame describes the
\* frames: width and height are the first frame's, and the rate is not above theirs.
THEOREM ProfileAlwaysDescribes == SpecAll => []ProfileDescribesFrames
<1>1. ASSUME AllInv PROVE ProfileDescribesFrames
  <2> SUFFICES ASSUME stage # "api", frames # <<>>
               PROVE  /\ profile.width = frames[1].from /\ profile.height = frames[1].from
                      /\ Increasing => 0 < profile.frames /\ profile.frames <= profile.time
    BY DEF ProfileDescribesFrames, Increasing
  <2>1. pc # "new" /\ FirstKey(frames[1].from)
    BY <1>1 DEF AllInv, Inv, Fresh, FramesOK
  <2>2. Described
    BY <1>1, <2>1 DEF AllInv, ProbesOK, FirstKey
  <2>3. \A v, w : FirstKey(v) /\ FirstKey(w) => v = w
    <3>1. \A k \in Keys : k \in Nat
      BY DEF Keys, Packets
    <3> QED
      BY <3>1 DEF FirstKey
  <2> QED
    BY <2>1, <2>2, <2>3 DEF Described, RateOK
<1> QED
  BY <1>1, CommandInvariant, PTL

-----------------------------------------------------------------------------
(***************************************************************************)
(* All that the cursors reach: the archives of a stream are those with its *)
(* numbers on the command line, and a cursor over them stops where the     *)
(* first cannot be read to its end.                                        *)
(***************************************************************************)
\* The elements of a set in increasing order are found by their ranks.
LEMMA Ranks ==
    ASSUME NEW n \in Nat, NEW f, \A m \in 1 .. n : f[m] \in Int,
           \A a, b \in 1 .. n : a < b => f[a] < f[b]
    PROVE  /\ Cardinality({ f[m] : m \in 1 .. n }) = n
           /\ \A m \in 1 .. n :
                 (CHOOSE k \in { f[x] : x \in 1 .. n } :
                     Cardinality({ j \in { f[x] : x \in 1 .. n } : j < k }) = m - 1) = f[m]
<1> DEFINE Upto(k) == { f[m] : m \in 1 .. k }
           S == Upto(n)
           Rank(k) == Cardinality({ j \in S : j < k })
<1>1. ASSUME NEW k \in 0 .. n PROVE Cardinality(Upto(k)) = k
  <2> DEFINE g == [m \in 1 .. k |-> f[m]]
  <2>1. \A m \in 1 .. k : m \in 1 .. n
    OBVIOUS
  <2>2. \A a, b \in 1 .. k : g[a] = g[b] => a = b
    <3> TAKE a, b \in 1 .. k
    <3>1. a \in 1 .. n /\ b \in 1 .. n /\ f[a] \in Int /\ f[b] \in Int
      BY <2>1
    <3>2. (a < b => f[a] < f[b]) /\ (b < a => f[b] < f[a])
      BY <3>1
    <3> QED
      BY <3>1, <3>2
  <2>3. g \in Bijection(1 .. k, Upto(k))
    <3>1. g \in [1 .. k -> Upto(k)] /\ \A t \in Upto(k) : \E m \in 1 .. k : g[m] = t
      OBVIOUS
    <3> HIDE DEF g
    <3> QED
      BY <2>2, <3>1 DEF Bijection, Injection, Surjection, IsInjective
  <2>4. ExistsBijection(1 .. k, Upto(k))
    BY <2>3 DEF ExistsBijection
  <2>5. IsFiniteSet(1 .. k) /\ Cardinality(1 .. k) = k
    BY FS_Interval
  <2> HIDE DEF Upto
  <2> QED
    BY <2>4, <2>5, FS_Bijection
<1>2. ASSUME NEW m \in 1 .. n PROVE Rank(f[m]) = m - 1
  <2>1. \A x \in 1 .. n : f[x] < f[m] <=> x \in 1 .. m - 1
    <3> TAKE x \in 1 .. n
    <3>1. f[x] \in Int /\ f[m] \in Int /\ (x < m => f[x] < f[m]) /\ (m < x => f[m] < f[x])
      OBVIOUS
    <3> QED
      BY <3>1
  <2>2. { j \in S : j < f[m] } = Upto(m - 1)
    <3>1. \A x \in 1 .. m - 1 : x \in 1 .. n
      OBVIOUS
    <3> QED
      BY <2>1, <3>1
  <2>3. m - 1 \in 0 .. n
    OBVIOUS
  <2> HIDE DEF Upto, S
  <2> QED
    BY <1>1, <2>2, <2>3
<1>3. ASSUME NEW m \in 1 .. n PROVE (CHOOSE k \in S : Rank(k) = m - 1) = f[m]
  <2>1. f[m] \in S /\ \A k \in S : \E x \in 1 .. n : k = f[x]
    OBVIOUS
  <2> HIDE DEF S, Rank
  <2>2. \A k \in S : Rank(k) = m - 1 => k = f[m]
    <3> TAKE k \in S
    <3> PICK x \in 1 .. n : k = f[x]
      BY <2>1
    <3>1. Rank(k) = x - 1
      BY <1>2
    <3>2. x - 1 = m - 1 => x = m
      OBVIOUS
    <3> QED
      BY <3>1, <3>2
  <2>3. Rank(f[m]) = m - 1
    BY <1>2
  <2> QED
    BY <2>1, <2>2, <2>3
<1>4. n \in 0 .. n
  OBVIOUS
<1> QED
  BY <1>1, <1>3, <1>4

\* Division by a number that is not 0 has one result.
LEMMA Quotient ==
    ASSUME NEW s \in Nat, s > 0, NEW q \in Nat, NEW r \in 0 .. s - 1
    PROVE  (q * s + r) \div s = q /\ (q * s + r) % s = r
<1> DEFINE x == q * s + r
           d == x \div s
<1>1. x \in Nat
  <2>1. q * s \in Nat
    OBVIOUS
  <2> QED
    BY <2>1
<1>2. d \in Nat /\ x = s * d + (x % s) /\ x % s \in 0 .. s - 1
  <2> HIDE DEF x
  <2> QED
    BY <1>1
<1>3. \A a, b \in Nat : a < b => a * s + s <= b * s
  <2> TAKE a, b \in Nat
  <2>1. \A u, v, w \in Nat : u <= v => u * w <= v * w
    OBVIOUS
  <2>2. a < b => (a + 1) * s <= b * s
    BY <2>1
  <2>3. (a + 1) * s = a * s + s
    OBVIOUS
  <2> QED
    BY <2>2, <2>3
<1>4. q * s \in Nat /\ d * s \in Nat /\ s * d = d * s /\ x = q * s + r
  BY <1>2
<1> HIDE DEF x, d
<1>5. d = q
  BY <1>2, <1>3, <1>4
<1>6. x % s = r
  BY <1>2, <1>4, <1>5
<1> QED
  BY <1>5, <1>6 DEF x, d

\* The numbers bucket() deals to stream i of s, whether every s-th or n in a row.
Dealt(i, s, n) ==
    [m \in 1 .. n |-> IF cmd.order = "interleave" THEN i + (m - 1) * s ELSE (i - 1) * n + m]

LEMMA DealtRises ==
    ASSUME NEW s \in Nat, s > 0, NEW n \in Nat, NEW i \in 1 .. s
    PROVE  /\ \A m \in 1 .. n : Dealt(i, s, n)[m] \in 1 .. s * n
           /\ \A a, b \in 1 .. n : a < b => Dealt(i, s, n)[a] < Dealt(i, s, n)[b]
<1>1. ASSUME NEW m \in 1 .. n PROVE Dealt(i, s, n)[m] \in 1 .. s * n
  <2>1. i + (m - 1) * s \in 1 .. s * n
    BY InBucket
  <2>2. (i - 1) * n \in Nat /\ i * n = (i - 1) * n + n /\ i * n \in 0 .. s * n /\ s * n \in Nat
    <3>1. i * n \in 0 .. s * n
      BY InBucket
    <3> QED
      BY <3>1
  <2>3. (i - 1) * n + m \in 1 .. s * n
    <3> DEFINE b == (i - 1) * n
    <3>1. b \in Nat /\ b + n <= s * n
      BY <2>2
    <3> HIDE DEF b
    <3> QED
      BY <2>2, <3>1 DEF b
  <2> QED
    BY <2>1, <2>3 DEF Dealt
<1>2. ASSUME NEW a \in 1 .. n, NEW b \in 1 .. n, a < b
      PROVE  Dealt(i, s, n)[a] < Dealt(i, s, n)[b]
  <2>1. (a - 1) * s < (b - 1) * s /\ (a - 1) * s \in Nat /\ (b - 1) * s \in Nat
    <3>1. \A u, v, w \in Nat : u <= v => u * w <= v * w
      OBVIOUS
    <3>2. a * s <= (b - 1) * s
      BY <1>2, <3>1
    <3>3. a * s = (a - 1) * s + s
      OBVIOUS
    <3> QED
      BY <3>2, <3>3
  <2>2. i + (a - 1) * s < i + (b - 1) * s
    BY <2>1
  <2>3. (i - 1) * n + a < (i - 1) * n + b
    <3>1. (i - 1) * n \in Nat
      OBVIOUS
    <3> QED
      BY <1>2, <3>1
  <2> QED
    BY <2>2, <2>3 DEF Dealt
<1> QED
  BY <1>1, <1>2

LEMMA DealtStreams ==
    ASSUME NEW s \in Nat, s > 0, NEW n \in Nat, NEW i \in 1 .. s,
           Len(cmd.types) = s, Len(cmd.archives) = s * n,
           cmd.order \in {"concat", "interleave"}
    PROVE  { k \in 1 .. s * n : StreamOf(k) = i } = { Dealt(i, s, n)[m] : m \in 1 .. n }
<1>1. (s * n) \div s = n
  <2>1. (n * s + 0) \div s = n
    BY Quotient
  <2> QED
    BY <2>1
<1>2. ASSUME NEW m \in 1 .. n PROVE StreamOf(Dealt(i, s, n)[m]) = i
  <2>1. CASE cmd.order = "interleave"
    <3>1. ((m - 1) * s + (i - 1)) % s = i - 1
      BY Quotient
    <3>2. (i + (m - 1) * s) - 1 = (m - 1) * s + (i - 1)
      OBVIOUS
    <3> QED
      BY <2>1, <3>1, <3>2 DEF StreamOf, Dealt
  <2>2. CASE cmd.order = "concat"
    <3>1. ((i - 1) * n + (m - 1)) \div n = i - 1
      BY Quotient
    <3>2. ((i - 1) * n + m) - 1 = (i - 1) * n + (m - 1)
      OBVIOUS
    <3> QED
      BY <1>1, <2>2, <3>1, <3>2 DEF StreamOf, Dealt
  <2> QED
    BY <2>1, <2>2
<1>3. ASSUME NEW k \in 1 .. s * n, StreamOf(k) = i
      PROVE  \E m \in 1 .. n : k = Dealt(i, s, n)[m]
  <2>1. s * n \in Nat /\ k - 1 \in Nat /\ k - 1 < s * n
    OBVIOUS
  <2>2. CASE cmd.order = "interleave"
    <3> DEFINE q == (k - 1) \div s
    <3>1. (k - 1) % s = i - 1
      <4>1. ((k - 1) % s) + 1 = i /\ (k - 1) % s \in Int
        BY <1>3, <2>1, <2>2 DEF StreamOf
      <4> QED
        BY <4>1
    <3>2. q \in Nat /\ k - 1 = s * q + (i - 1)
      <4>1. q \in Nat /\ k - 1 = s * q + ((k - 1) % s)
        BY <2>1
      <4> QED
        BY <3>1, <4>1
    <3> HIDE DEF q
    <3>3. q < n
      <4> SUFFICES ASSUME n <= q PROVE FALSE
        BY <3>2
      <4>1. s * n <= s * q /\ s * q \in Nat
        <5>1. \A u, v, w \in Nat : u <= v => w * u <= w * v
          OBVIOUS
        <5> QED
          BY <3>2, <5>1
      <4> QED
        BY <2>1, <3>2, <4>1
    <3>4. q + 1 \in 1 .. n /\ k = i + ((q + 1) - 1) * s
      BY <3>2, <3>3
    <3> QED
      BY <2>2, <3>4 DEF Dealt
  <2>3. CASE cmd.order = "concat"
    <3> DEFINE r == (k - 1) % n
    <3>0. n > 0
      <4> SUFFICES ASSUME n = 0 PROVE FALSE
        OBVIOUS
      <4> QED
        BY <2>1
    <3>1. (k - 1) \div n = i - 1
      <4>1. (k - 1) \div n + 1 = i /\ (k - 1) \div n \in Int
        BY <1>1, <1>3, <2>1, <2>3, <3>0 DEF StreamOf
      <4> QED
        BY <4>1
    <3>2. r \in 0 .. n - 1 /\ k - 1 = n * (i - 1) + r
      <4>1. r \in 0 .. n - 1 /\ k - 1 = n * ((k - 1) \div n) + r
        BY <2>1, <3>0
      <4> QED
        BY <3>1, <4>1
    <3> HIDE DEF r
    <3>3. r + 1 \in 1 .. n /\ k = (i - 1) * n + (r + 1)
      BY <3>2
    <3> QED
      BY <2>3, <3>3 DEF Dealt
  <2> QED
    BY <2>2, <2>3
<1>4. \A m \in 1 .. n : Dealt(i, s, n)[m] \in 1 .. s * n
  BY DealtRises
<1> QED
  BY <1>2, <1>3, <1>4

\* What bucket() deals to a stream are the archives that belong to it, in their order.
LEMMA BucketIsStream ==
    ASSUME cmd \in Commands, ~CannotBucket, NEW i \in DOMAIN cmd.types
    PROVE  /\ Len(ArchivesOf(i)) = Len(Buckets(cmd)[i])
           /\ ArchivesOf(i) \in Seq(DOMAIN cmd.archives)
           /\ \A k \in 1 .. Len(Buckets(cmd)[i]) : Buckets(cmd)[i][k] = cmd.archives[ArchivesOf(i)[k]]
<1> DEFINE s == Len(cmd.types)
           n == Len(cmd.archives) \div s
           d == Dealt(i, s, n)
<1>1. /\ cmd.archives \in Seq(Archive) /\ Len(cmd.archives) \in Nat
      /\ s \in Nat \ {0} /\ i \in 1 .. s /\ cmd.order \in {"concat", "interleave"}
  BY CommandType, CommandsAssumption
<1>2. Len(cmd.archives) % s = 0
  BY DEF CannotBucket
<1>3. n \in Nat /\ Len(cmd.archives) = s * n
  BY <1>1, <1>2, Divides
<1>4. Buckets(cmd)[i] = IF cmd.order = "interleave"
                        THEN [k \in 1 .. n |-> cmd.archives[i + (k - 1) * s]]
                        ELSE SubSeq(cmd.archives, (i - 1) * n + 1, i * n)
  BY <1>1 DEF Buckets
<1> HIDE DEF s, n
<1>5. /\ Len(Buckets(cmd)[i]) = n
      /\ \A k \in 1 .. n : Buckets(cmd)[i][k] = cmd.archives[d[k]]
  <2>1. CASE cmd.order = "interleave"
    BY <1>3, <1>4, <2>1 DEF Dealt
  <2>2. CASE cmd.order = "concat"
    <3> DEFINE a == (i - 1) * n + 1
               b == i * n
    <3>1. a \in Nat \ {0} /\ b \in 0 .. s * n /\ b = a + n - 1
      <4>1. (i - 1) * n + 1 \in Nat \ {0} /\ i * n \in 0 .. s * n
        BY <1>1, <1>3, InBucket
      <4>2. i * n = (i - 1) * n + n
        BY <1>1, <1>3
      <4> QED
        BY <1>1, <1>3, <4>1, <4>2
    <3>2. Buckets(cmd)[i] = SubSeq(cmd.archives, a, b)
      BY <1>4, <2>2
    <3>3. \A k \in 1 .. n : d[k] = a + k - 1
      <4>1. (i - 1) * n \in Nat
        BY <1>1, <1>3
      <4> QED
        BY <1>3, <2>2, <4>1 DEF Dealt
    <3> HIDE DEF a, b, d
    <3>4. /\ Len(SubSeq(cmd.archives, a, b)) = n
          /\ \A k \in 1 .. n : SubSeq(cmd.archives, a, b)[k] = cmd.archives[a + k - 1]
      BY <1>1, <1>3, <3>1
    <3> QED
      BY <3>2, <3>3, <3>4
  <2> QED
    BY <1>1, <2>1, <2>2
<1>6. /\ \A m \in 1 .. n : d[m] \in 1 .. s * n
      /\ \A a, b \in 1 .. n : a < b => d[a] < d[b]
  <2>1. s \in Nat /\ s > 0 /\ n \in Nat /\ i \in 1 .. s
    BY <1>1, <1>3
  <2> QED
    BY <2>1, DealtRises, Zenon
<1>7. s * n \in Nat /\ \A m \in 1 .. n : d[m] \in Int
  BY <1>1, <1>3, <1>6
<1> DEFINE mine == { k \in DOMAIN cmd.archives : StreamOf(k) = i }
<1>8. mine = { d[m] : m \in 1 .. n } /\ DOMAIN cmd.archives = 1 .. s * n
  <2>1. DOMAIN cmd.archives = 1 .. s * n
    BY <1>1, <1>3
  <2>2. s \in Nat /\ s > 0 /\ n \in Nat /\ i \in 1 .. s /\ Len(cmd.types) = s
    BY <1>1, <1>3 DEF s
  <2>3. { k \in 1 .. s * n : StreamOf(k) = i } = { d[m] : m \in 1 .. n }
    BY <1>1, <1>3, <2>2, DealtStreams, ZenonT(30)
  <2> QED
    BY <2>1, <2>3, Zenon
<1> HIDE DEF d, mine
<1>9. ArchivesOf(i) = [m \in 1 .. n |-> d[m]]
  <2>1. ArchivesOf(i) = [m \in 1 .. Cardinality(mine) |->
                            CHOOSE k \in mine : Cardinality({ j \in mine : j < k }) = m - 1]
    BY DEF ArchivesOf, mine
  <2>2. /\ Cardinality(mine) = n
        /\ \A m \in 1 .. n : (CHOOSE k \in mine : Cardinality({ j \in mine : j < k }) = m - 1) = d[m]
    <3> DEFINE S == { d[m] : m \in 1 .. n }
    <3>1. /\ Cardinality(S) = n
          /\ \A m \in 1 .. n : (CHOOSE k \in S : Cardinality({ j \in S : j < k }) = m - 1) = d[m]
      BY <1>3, <1>6, <1>7, Ranks, Zenon
    <3>2. mine = S
      BY <1>8
    <3> HIDE DEF S
    <3> QED
      BY <3>1, <3>2
  <2> QED
    BY <2>1, <2>2
<1>10. ArchivesOf(i) \in Seq(1 .. s * n) /\ Len(ArchivesOf(i)) = n
  BY <1>3, <1>6, <1>9
<1> QED
  BY <1>3, <1>5, <1>8, <1>9, <1>10

\* Empty sequences at the end add nothing to sequences that are put together.
LEMMA FlatPadded ==
    ASSUME NEW T, NEW a \in Seq(Seq(T)), NEW b \in Seq(Seq(T)), Len(a) <= Len(b), Len(a) > 0,
           \A k \in 1 .. Len(a) : b[k] = a[k],
           \A k \in Len(a) + 1 .. Len(b) : b[k] = <<>>
    PROVE  FlattenSeq(a) = FlattenSeq(b)
<1>0. Len(a) \in Nat /\ Len(b) \in Nat
  OBVIOUS
<1> PICK n \in Nat, m \in Nat : n = Len(a) /\ m = Len(b)
  BY <1>0
<1> DEFINE f == CHOOSE g : g = [i \in 1 .. n |-> IF i = 1 THEN a[i] ELSE g[i - 1] \o a[i]]
           h == CHOOSE g : g = [i \in 1 .. m |-> IF i = 1 THEN b[i] ELSE g[i - 1] \o b[i]]
<1>1. /\ f = [i \in 1 .. n |-> IF i = 1 THEN a[i] ELSE f[i - 1] \o a[i]]
      /\ h = [i \in 1 .. m |-> IF i = 1 THEN b[i] ELSE h[i - 1] \o b[i]]
  BY FlatExists, Zenon DEF FlatOn
<1>2. n > 0 /\ n <= m
  OBVIOUS
<1>3. FlattenSeq(a) = f[n] /\ FlattenSeq(b) = h[m]
  <2>1. Len(a) # 0 /\ Len(b) # 0
    BY <1>2
  <2>2. FlattenSeq(a) = f[n]
    BY <2>1, Zenon DEF FlattenSeq
  <2>3. FlattenSeq(b) = h[m]
    BY <2>1, Zenon DEF FlattenSeq
  <2> QED
    BY <2>2, <2>3
<1> HIDE DEF f, h
<1>4. /\ \A i \in 1 .. n : f[i] = IF i = 1 THEN a[i] ELSE f[i - 1] \o a[i]
      /\ \A i \in 1 .. m : h[i] = IF i = 1 THEN b[i] ELSE h[i - 1] \o b[i]
  BY <1>1
<1>5. \A i \in 1 .. m : h[i] \in Seq(T) /\ h[i] = f[IF i <= n THEN i ELSE n]
  <2> DEFINE B == { i \in Nat : i \in 1 .. m /\ ~(h[i] \in Seq(T) /\ h[i] = f[IF i <= n THEN i ELSE n]) }
  <2> SUFFICES ASSUME B # {} PROVE FALSE
    <3>1. \A i \in 1 .. m : i \in Nat
      OBVIOUS
    <3> QED
      BY <3>1, Zenon
  <2>1. B \subseteq Nat
    OBVIOUS
  <2> HIDE DEF B
  <2>2. PICK k \in B : \A i \in B : k <= i
    BY <2>1, LeastIsLeast
  <2> USE DEF B
  <2>3. k \in 1 .. m /\ ~(h[k] \in Seq(T) /\ h[k] = f[IF k <= n THEN k ELSE n])
    OBVIOUS
  <2>4. b[k] \in Seq(T) /\ (k <= n => b[k] = a[k]) /\ (k > n => b[k] = <<>>)
    BY <1>2, <2>3
  <2>5. k # 1
    BY <1>2, <1>4, <2>3, <2>4
  <2>6. k - 1 \in 1 .. m /\ ~(k <= k - 1)
    BY <2>3, <2>5
  <2>7. h[k - 1] \in Seq(T) /\ h[k - 1] = f[IF k - 1 <= n THEN k - 1 ELSE n]
    BY <2>2, <2>6
  <2>8. h[k] = h[k - 1] \o b[k]
    BY <1>4, <2>3, <2>5
  <2> HIDE DEF B
  <2>9. h[k] \in Seq(T)
    BY ONLY <2>4, <2>7, <2>8
  <2>10. CASE k <= n
    <3>1. k - 1 <= n /\ k \in 1 .. n
      BY <2>3, <2>10
    <3>2. f[k] = f[k - 1] \o a[k]
      BY <1>4, <2>5, <3>1
    <3> QED
      BY <2>3, <2>4, <2>7, <2>8, <2>9, <2>10, <3>1, <3>2
  <2>11. CASE k > n
    <3>1. h[k - 1] = f[n]
      BY <2>3, <2>7, <2>11
    <3>2. h[k] = h[k - 1]
      <4>1. h[k - 1] \o <<>> = h[k - 1]
        BY ONLY <2>7
      <4> QED
        BY <2>4, <2>8, <2>11, <4>1
    <3> QED
      BY <2>3, <2>9, <2>11, <3>1, <3>2
  <2> QED
    BY <2>3, <2>10, <2>11
<1>6. m \in 1 .. m /\ (m <= n => m = n)
  BY <1>2
<1>7. h[m] = f[n]
  BY <1>5, <1>6
<1> QED
  BY <1>3, <1>7

LEMMA YieldsReachable ==
    ASSUME cmd \in Commands, ~CannotBucket, NEW i \in DOMAIN cmd.types,
           streams = Buckets(cmd), cmd.offset # 0 => Seekable
    PROVE  Yields(streams[i], Target) = Reachable(i)
<1> DEFINE parts == streams[i]
           p == Target
           len == Len(parts)
           mine == ArchivesOf(i)
           stops == { k \in p .. len : parts[k].pkts = <<>> \/ parts[k].cut }
           end == IF stops = {} THEN len ELSE Least(stops)
           rest == SubSeq(mine, p, Len(mine))
           open(n) == \A k \in 1 .. n : cmd.archives[rest[k]].pkts # <<>> /\ ~cmd.archives[rest[k]].cut
           a == [k \in 1 .. end - p + 1 |-> parts[p + k - 1].pkts]
           b == [n \in DOMAIN rest |-> IF open(n - 1) THEN cmd.archives[rest[n]].pkts ELSE <<>>]
<1>1. /\ streams \in [DOMAIN cmd.types -> Seq(Archive)]
      /\ len \in Nat /\ i \in DOMAIN streams /\ \A k \in 1 .. len : parts[k] \in Archive
  <2>1. Len(cmd.archives) % Len(cmd.types) = 0
    BY DEF CannotBucket
  <2>2. streams \in [DOMAIN cmd.types -> Seq(Archive)]
    BY <2>1, BucketsType
  <2>3. parts \in Seq(Archive) /\ i \in DOMAIN streams
    BY <2>2
  <2> HIDE DEF parts
  <2> QED
    BY <2>2, <2>3
<1>2. p \in Nat \ {0} /\ p <= len + 1
  BY <1>1, TargetType
<1>3. /\ Len(mine) = len /\ mine \in Seq(DOMAIN cmd.archives)
      /\ \A k \in 1 .. len : parts[k] = cmd.archives[mine[k]]
  BY BucketIsStream
<1>4. Yields(parts, p) = FlattenSeq(a) /\ Reachable(i) = FlattenSeq(b)
  BY DEF Yields, Reachable
<1> HIDE DEF parts, p, len, mine
<1>5. /\ Len(rest) = len - p + 1 /\ DOMAIN rest = 1 .. len - p + 1
      /\ \A n \in 1 .. len - p + 1 : p + n - 1 \in 1 .. len /\ rest[n] = mine[p + n - 1]
  BY <1>1, <1>2, <1>3
<1>6. \A n \in 1 .. len - p + 1 : cmd.archives[rest[n]] = parts[p + n - 1] /\ parts[p + n - 1] \in Archive
  <2> TAKE n \in 1 .. len - p + 1
  <2>1. p + n - 1 \in 1 .. len /\ rest[n] = mine[p + n - 1]
    BY <1>5
  <2> HIDE DEF rest
  <2> QED
    BY <1>1, <1>3, <2>1, Zenon
<1> HIDE DEF rest
<1>7. /\ end \in p - 1 .. len /\ \A k \in p .. end - 1 : ~(parts[k].pkts = <<>> \/ parts[k].cut)
      /\ end < len => end \in p .. len /\ (parts[end].pkts = <<>> \/ parts[end].cut)
      /\ end = p - 1 => len = p - 1
  <2>1. CASE stops = {}
    <3>1. end = len
      BY <2>1
    <3>2. \A k \in p .. len : ~(parts[k].pkts = <<>> \/ parts[k].cut)
      BY <2>1
    <3> HIDE DEF end, stops
    <3> QED
      BY <1>1, <1>2, <3>1, <3>2
  <2>2. CASE stops # {}
    <3>1. stops \subseteq Nat /\ \A k \in stops : k \in p .. len
      BY <1>1, <1>2
    <3>2. \A k \in p .. len : k \in stops <=> (parts[k].pkts = <<>> \/ parts[k].cut)
      OBVIOUS
    <3> HIDE DEF stops
    <3>3. end = Least(stops) /\ Least(stops) \in stops /\ \A k \in stops : Least(stops) <= k
      BY <2>2, <3>1, LeastIsLeast
    <3> HIDE DEF end
    <3>4. end \in p .. len /\ end \in stops /\ \A k \in stops : end <= k
      BY <3>1, <3>3
    <3> QED
      BY <1>1, <1>2, <3>1, <3>2, <3>4
  <2> QED
    BY <2>1, <2>2
<1> HIDE DEF end, stops
<1> DEFINE n1 == end - p + 1
           n2 == len - p + 1
<1>8. n1 \in Nat /\ n2 \in Nat /\ n1 <= n2 /\ (n1 = 0 => n2 = 0)
  BY <1>1, <1>2, <1>7
<1>9. ASSUME NEW n \in 1 .. n2
      PROVE  b[n] = IF n <= n1 THEN parts[p + n - 1].pkts ELSE <<>>
  <2>1. b[n] = IF open(n - 1) THEN parts[p + n - 1].pkts ELSE <<>>
    BY <1>5, <1>6
  <2>2. open(n - 1) <=> \A k \in 1 .. n - 1 : ~(parts[p + k - 1].pkts = <<>> \/ parts[p + k - 1].cut)
    <3>1. \A k \in 1 .. n - 1 : cmd.archives[rest[k]] = parts[p + k - 1]
      BY <1>6, <1>8
    <3> QED
      BY <3>1, Zenon
  <2> HIDE DEF open, b
  <2>3. ASSUME n <= n1 PROVE open(n - 1)
    <3>1. \A k \in 1 .. n - 1 : p + k - 1 \in p .. end - 1
      BY <1>1, <1>2, <1>7, <2>3
    <3> QED
      BY <1>7, <2>2, <3>1, Zenon
  <2>4. ASSUME n > n1 PROVE ~open(n - 1)
    <3>1. end < len /\ end - p + 1 \in 1 .. n - 1 /\ p + (end - p + 1) - 1 = end
      BY <1>1, <1>2, <1>7, <1>8, <2>4
    <3>2. parts[end].pkts = <<>> \/ parts[end].cut
      BY <1>7, <3>1
    <3> QED
      BY <2>2, <3>1, <3>2
  <2>5. n <= n1 \/ n > n1
    BY <1>8
  <2>6. n > n1 => ~(n <= n1)
    BY <1>8
  <2> QED
    BY <2>1, <2>3, <2>4, <2>5, <2>6
<1>10. b = [n \in 1 .. n2 |-> b[n]]
  BY <1>5
<1>11. ASSUME NEW n \in 1 .. n2 PROVE parts[p + n - 1].pkts \in Seq(PacketType)
  BY <1>6, Zenon DEF Archive
<1>12. a = [n \in 1 .. n1 |-> parts[p + n - 1].pkts]
  OBVIOUS
<1> HIDE DEF a, b, n1, n2
<1>13. a \in Seq(Seq(PacketType)) /\ Len(a) = n1
  <2>1. \A n \in 1 .. n1 : n \in 1 .. n2
    BY <1>8
  <2> QED
    BY <1>8, <1>11, <1>12, <2>1
<1>14. b \in Seq(Seq(PacketType)) /\ Len(b) = n2
  <2>1. <<>> \in Seq(PacketType)
    OBVIOUS
  <2>2. \A n \in 1 .. n2 : b[n] \in Seq(PacketType)
    BY <1>9, <1>11, <2>1
  <2> QED
    BY <1>8, <1>10, <2>2
<1>15. FlattenSeq(a) = FlattenSeq(b)
  <2>1. CASE n1 = 0
    <3>1. Len(a) = 0 /\ Len(b) = 0
      BY <1>8, <1>13, <1>14, <2>1
    <3>2. a = <<>> /\ b = <<>>
      BY <1>13, <1>14, <3>1
    <3> QED
      BY <3>2
  <2>2. CASE n1 > 0
    <3>1. \A k \in 1 .. Len(a) : b[k] = a[k]
      <4> TAKE k \in 1 .. Len(a)
      <4>1. k \in 1 .. n2 /\ k \in 1 .. n1 /\ k <= n1
        BY <1>8, <1>13
      <4> QED
        BY <1>9, <1>12, <4>1
    <3>2. \A k \in Len(a) + 1 .. Len(b) : b[k] = <<>>
      <4> TAKE k \in Len(a) + 1 .. Len(b)
      <4>1. k \in 1 .. n2 /\ ~(k <= n1)
        BY <1>8, <1>13, <1>14
      <4> QED
        BY <1>9, <4>1
    <3>3. Len(a) <= Len(b) /\ Len(a) > 0
      BY <1>8, <1>13, <1>14, <2>2
    <3> QED
      BY <1>13, <1>14, <3>1, <3>2, <3>3, FlatPadded, Zenon
  <2> QED
    BY <1>8, <2>1, <2>2
<1> QED
  BY <1>4, <1>15 DEF parts, p

-----------------------------------------------------------------------------
(***************************************************************************)
(* The command from the archives to the end of the mux.                    *)
(***************************************************************************)
AfterVideo == {"audio", "container", "dry", "mux", "muxed"}
AfterOffset == {"video", "width", "height", "rate", "frames"} \cup AfterVideo

ToMux == IF Of("video") = {} THEN <<>> ELSE Yields(streams[Stream("video")], Target)

\* What is muxed from is what the cursors reach, of which there is a key frame once
\* one was probed, and the mux is over when both streams have ended.
Delivers ==
    /\ stage # "api" => input.raises = Len(input.pkts) + 2
    /\ stage \in {"offset"} \cup AfterOffset => streams = Buckets(cmd) /\ ~CannotBucket
    /\ stage \in AfterOffset =>
          first = Target /\ (cmd.offset # 0 => Seekable) /\ input.pkts = ToMux
    /\ stage \in {"height", "rate", "frames"} => Keys # {}
    /\ stage \in AfterVideo /\ Of("video") # {} => Keys # {} /\ pc # "new"
    /\ stage = "muxed" => /\ Of("video") # {} => pc = "stop"
                          /\ Of("audio") # {} => heard = Len(AudioPackets)

LEMMA InitDelivers == InitAll => Delivers
<1> SUFFICES ASSUME InitAll, InitCommand PROVE Delivers
  <2>1. stage = "api" => Delivers
    BY DEF Delivers, AfterVideo, AfterOffset
  <2> QED
    BY <2>1 DEF InitAll
<1>1. stage = "bucket" /\ input = Source(<<>>)
  BY DEF InitCommand
<1>2. input.raises = Len(input.pkts) + 2
  BY <1>1 DEF Source
<1> QED
  BY <1>1, <1>2 DEF Delivers, AfterVideo, AfterOffset

\* A probe that does not raise has found a key frame.
LEMMA ProbeFindsKey ==
    ASSUME AllInv, Delivers, stage \in Early, Dimension # 0 PROVE Keys # {}
<1>1. TypeOK /\ ReadOK /\ Open /\ taken = 0 /\ stage # "api" /\ input.raises = Len(input.pkts) + 2
  BY DEF AllInv, CommandOK, Inv, Fresh, Early, Delivers
<1>2. InputOK /\ Len(input.pkts) \in Nat
  BY <1>1, InputType DEF InputOK
<1>3. Within(1) /\ Dimension = Search(1, Keys)
  BY <1>1, <1>2 DEF Within, ReadOK, Dimension
<1> PICK w : w = Dimension
  OBVIOUS
<1>4. Finds(w, 1, Keys)
  BY <1>2, <1>3, SearchFinds
<1> QED
  BY <1>1, <1>2, <1>4 DEF Finds

\* What the steps before a mux and beside it have in common.
LEMMA ApartDelivers ==
    ASSUME Delivers, UNCHANGED <<input, cmd, streams, first>>, stage # "api", stage' # "api",
           stage' \in {"offset"} \cup AfterOffset => stage \in {"offset"} \cup AfterOffset,
           stage' \in AfterOffset => stage \in AfterOffset
    PROVE  /\ input'.raises = Len(input'.pkts) + 2
           /\ stage' \in {"offset"} \cup AfterOffset => (streams = Buckets(cmd) /\ ~CannotBucket)'
           /\ stage' \in AfterOffset =>
                 (first = Target /\ (cmd.offset # 0 => Seekable) /\ input.pkts = ToMux)'
           /\ Keys' = Keys /\ Of("video")' = Of("video")
           /\ Of("audio")' = Of("audio") /\ AudioPackets' = AudioPackets
<1>1. /\ Target' = Target /\ (CannotBucket' <=> CannotBucket) /\ Buckets(cmd)' = Buckets(cmd)
  BY DEF Target, CannotBucket, Buckets
<1>2. Seekable' <=> Seekable
  BY <1>1 DEF Seekable
<1>3. /\ \A t : Of(t)' = Of(t) /\ Stream(t)' = Stream(t)
  BY DEF Of, Stream
<1>4. /\ \A p, q : Yields(p, q)' = Yields(p, q)
  BY DEF Yields
<1>5. ToMux' = ToMux /\ AudioPackets' = AudioPackets
  BY <1>1, <1>3, <1>4 DEF ToMux, AudioPackets
<1>6. Keys' = Keys
  BY SameInput
<1> QED
  BY <1>1, <1>2, <1>3, <1>5, <1>6 DEF Delivers

LEMMA BucketDelivers == ASSUME Delivers, Bucket PROVE Delivers'
<1>1. /\ stage = "bucket" /\ stage' = "offset" /\ ~CannotBucket /\ cmd' = cmd
      /\ streams' = Buckets(cmd) /\ input' = input
  BY DEF Bucket, Goto, vars
<1>2. (CannotBucket' <=> CannotBucket) /\ Buckets(cmd)' = Buckets(cmd)
  BY <1>1 DEF CannotBucket, Buckets
<1> QED
  BY <1>1, <1>2 DEF Delivers, AfterOffset, AfterVideo

LEMMA OffsetDelivers == ASSUME Delivers, Offset PROVE Delivers'
<1>1. /\ stage = "offset" /\ stage' = "video" /\ cmd' = cmd /\ streams' = streams
      /\ first' = Target /\ (cmd.offset # 0 => Seekable) /\ input' = Source(ToMux)
      /\ streams = Buckets(cmd) /\ ~CannotBucket
  BY DEF Offset, Goto, ToMux, Delivers
<1>2. /\ Target' = Target /\ (CannotBucket' <=> CannotBucket) /\ Buckets(cmd)' = Buckets(cmd)
  BY <1>1 DEF Target, CannotBucket, Buckets
<1>3. Seekable' <=> Seekable
  BY <1>1, <1>2 DEF Seekable
<1>4. ToMux' = ToMux
  <2>1. \A t : Of(t)' = Of(t) /\ Stream(t)' = Stream(t)
    BY <1>1 DEF Of, Stream
  <2>2. \A q, r : Yields(q, r)' = Yields(q, r)
    BY DEF Yields
  <2> QED
    BY <1>1, <1>2, <2>1, <2>2 DEF ToMux
<1>5. input'.pkts = ToMux /\ input'.raises = Len(input'.pkts) + 2
  BY <1>1 DEF Source
<1> QED
  BY <1>1, <1>2, <1>3, <1>4, <1>5 DEF Delivers, AfterOffset, AfterVideo

LEMMA StepDelivers ==
    ASSUME AllInv, Delivers,
           \/ ResolveVideo \/ ProbeWidth \/ ProbeHeight \/ Estimate
           \/ MakeVideoFrames \/ ResolveAudio \/ StopBeforeMux \/ OpenContainer
           \/ MuxVideo \/ MuxAudio \/ MuxReturns
           \/ \E s \in Early \cup {"audio", "mux"} : Raise(s)
    PROVE  Delivers'
<1>1. /\ UNCHANGED <<input, cmd, streams, first>> /\ stage # "api" /\ stage' # "api"
      /\ stage' \in {"offset"} \cup AfterOffset => stage \in {"offset"} \cup AfterOffset
      /\ stage' \in AfterOffset => stage \in AfterOffset
  BY DEF ResolveVideo, ProbeWidth, ProbeHeight, Estimate, MakeVideoFrames, ResolveAudio, StopBeforeMux,
         OpenContainer, MuxVideo, MuxAudio, MuxReturns, Raise, Goto, vars, command, Construct,
         NextFrame, NextStops, Early, AfterOffset, AfterVideo
<1>2. stage' \in {"height", "rate", "frames"} => Keys # {}
  <2>1. CASE ProbeWidth
    BY <2>1, ProbeFindsKey DEF ProbeWidth, Early
  <2>2. CASE stage \in {"height", "rate"}
    BY <2>2 DEF Delivers
  <2>3. stage' \in {"height", "rate", "frames"} => ProbeWidth \/ stage \in {"height", "rate"}
    BY DEF ResolveVideo, ProbeHeight, Estimate, MakeVideoFrames, ResolveAudio, StopBeforeMux,
           OpenContainer, MuxVideo, MuxAudio, MuxReturns, Raise, Goto, command
  <2> QED
    BY <2>1, <2>2, <2>3
<1>3. stage' \in AfterVideo /\ Of("video") # {} => Keys # {} /\ pc' # "new"
  <2>1. CASE MakeVideoFrames
    BY <2>1 DEF MakeVideoFrames, Construct, Delivers
  <2>2. CASE MuxVideo
    BY <2>2 DEF MuxVideo, NextFrame, NextStops, Delivers, AfterVideo
  <2>3. CASE stage \in AfterVideo /\ pc' = pc
    BY <2>3 DEF Delivers
  <2>4. stage' \in AfterVideo /\ Of("video") # {} =>
           MakeVideoFrames \/ MuxVideo \/ (stage \in AfterVideo /\ pc' = pc)
    BY DEF ResolveVideo, ProbeWidth, ProbeHeight, Estimate, ResolveAudio, StopBeforeMux,
           OpenContainer, MuxAudio, MuxReturns, Raise, Goto, vars, AfterVideo
  <2> QED
    BY <2>1, <2>2, <2>3, <2>4
<1>4. stage' = "muxed" => /\ Of("video") # {} => pc' = "stop"
                          /\ Of("audio") # {} => heard' = Len(AudioPackets)
  <2>1. stage' = "muxed" => MuxReturns
    BY DEF ResolveVideo, ProbeWidth, ProbeHeight, Estimate, MakeVideoFrames, ResolveAudio, StopBeforeMux,
           OpenContainer, MuxVideo, MuxAudio, Raise, Goto, command
  <2> QED
    BY <2>1 DEF MuxReturns, vars
<1> QED
  BY <1>1, <1>2, <1>3, <1>4, ApartDelivers DEF Delivers

LEMMA NextDelivers == AllInv /\ Delivers /\ [CommandNext \/ ApiNext]_allvars => Delivers'
<1> SUFFICES ASSUME AllInv, Delivers, [CommandNext \/ ApiNext]_allvars PROVE Delivers'
  OBVIOUS
<1>1. CASE BucketFails \/ OffsetFails \/ VideoFails \/ ProbeFails \/ EstimateFails \/ AudioFails \/ MuxFails
  <2>1. \E s \in Early \cup {"audio", "mux"} : Raise(s)
    BY <1>1, Zenon DEF BucketFails, OffsetFails, VideoFails, ProbeFails, EstimateFails, AudioFails,
                MuxFails, Early
  <2> QED
    BY <2>1, StepDelivers
<1>2. CASE stage = "api" /\ stage' = "api"
  BY <1>2 DEF Delivers, AfterOffset, AfterVideo
<1>3. CASE ApiNext
  BY <1>2, <1>3 DEF ApiNext, command
<1>4. CASE UNCHANGED allvars
  <2>1. UNCHANGED <<input, cmd, streams, first, stage, pc, heard>>
    BY <1>4 DEF allvars, vars, command
  <2>2. CASE stage # "api"
    BY <2>1, <2>2, ApartDelivers DEF Delivers
  <2> QED
    BY <1>2, <2>1, <2>2
<1> QED
  BY <1>1, <1>3, <1>4, BucketDelivers, OffsetDelivers, StepDelivers DEF CommandNext

-----------------------------------------------------------------------------
(***************************************************************************)
(* The container: the muxer is handed what is ever further on, and writes  *)
(* what has a later time than all before.                                  *)
(***************************************************************************)
\* What was written of the packets S that were handed over.
Track(t, pkts, S) ==
    /\ t.kept = Later(pkts, S)
    /\ t.last = 0 => S = {}
    /\ t.last # 0 => t.last \in S /\ \A j \in S : pkts[j].frame <= pkts[t.last].frame

LEMMA NothingTracked == ASSUME NEW pkts PROVE Track(NoTrack, pkts, {})
<1>1. NoTrack.last = 0 /\ NoTrack.kept = {}
  BY DEF NoTrack
<1>2. Later(pkts, {}) = {}
  BY DEF Later
<1> QED
  BY <1>1, <1>2 DEF Track

LEMMA WriteTracks ==
    ASSUME NEW pkts \in Seq(PacketType), NEW S, S \subseteq DOMAIN pkts, NEW i \in DOMAIN pkts,
           \A j \in S : j < i, NEW t, Track(t, pkts, S)
    PROVE  Track(Write(t, pkts, i), pkts, S \cup {i})
<1> DEFINE w == Write(t, pkts, i)
           late == t.last # 0 /\ pkts[i].frame <= pkts[t.last].frame
<1>1. S \subseteq Int /\ i \in Int /\ \A j \in S \cup {i} : pkts[j].frame \in Int
  <2>1. \A j \in DOMAIN pkts : j \in Int /\ pkts[j] \in PacketType
    OBVIOUS
  <2>2. \A x \in PacketType : x.frame \in Int
    BY DEF PacketType
  <2> QED
    BY <2>1, <2>2
<1>2. i \notin S /\ i # 0
  BY <1>1
<1>3. \A j \in S : j < i /\ ~(i < j)
  BY <1>1
<1>4. ASSUME late PROVE Track(w, pkts, S \cup {i})
  <2>1. w = t /\ t.last \in S /\ \A j \in S : pkts[j].frame <= pkts[t.last].frame
    BY <1>4 DEF Write, Track
  <2>2. ~(pkts[t.last].frame < pkts[i].frame)
    BY <1>1, <1>4, <2>1
  <2>3. Later(pkts, S \cup {i}) = Later(pkts, S)
    BY <1>3, <2>1, <2>2 DEF Later
  <2> QED
    BY <1>4, <2>1, <2>3 DEF Track
<1>5. ASSUME ~late PROVE Track(w, pkts, S \cup {i})
  <2>1. w = [last |-> i, kept |-> t.kept \cup {i}]
    BY <1>5 DEF Write
  <2>2. \A j \in S : pkts[j].frame < pkts[i].frame
    <3> TAKE j \in S
    <3>1. /\ t.last # 0 /\ t.last \in S /\ pkts[j].frame <= pkts[t.last].frame
      BY DEF Track
    <3>2. ~(pkts[i].frame <= pkts[t.last].frame)
      BY <1>5, <3>1
    <3> QED
      BY <1>1, <3>1, <3>2
  <2>3. Later(pkts, S \cup {i}) = Later(pkts, S) \cup {i}
    <3>1. i \in Later(pkts, S \cup {i})
      BY <1>1, <2>2 DEF Later
    <3>2. \A k \in S : k \in Later(pkts, S \cup {i}) <=> k \in Later(pkts, S)
      BY <1>3 DEF Later
    <3> QED
      BY <3>1, <3>2 DEF Later
  <2>4. w.last = i /\ w.kept = Later(pkts, S \cup {i})
    <3>1. t.kept = Later(pkts, S)
      BY DEF Track
    <3>2. w.last = i /\ w.kept = t.kept \cup {i}
      BY <2>1
    <3> HIDE DEF w
    <3> QED
      BY <2>3, <3>1, <3>2
  <2>5. \A j \in S \cup {i} : pkts[j].frame <= pkts[i].frame
    BY <1>1, <2>2
  <2> HIDE DEF w
  <2> QED
    BY <1>2, <2>4, <2>5 DEF Track
<1> QED
  BY <1>4, <1>5

BeforeMux == Early \cup {"audio", "container"}

Froms == { frames[f].from : f \in DOMAIN frames }

\* Frames and packets are handed over in their order, and written or dropped.
Written ==
    /\ stage \in BeforeMux =>
          frames = <<>> /\ heard = 0 /\ container = [video |-> NoTrack, audio |-> NoTrack]
    /\ stage \in {"mux", "muxed"} =>
          /\ container = [video |-> container.video, audio |-> container.audio]
          /\ Track(container.video, input.pkts, Froms)
          /\ packet # 0 => \A i \in Froms : i < packet
          /\ heard \in Nat /\ Track(container.audio, AudioPackets, 1 .. heard)

LEMMA InitWritten == InitAll => Written
<1> SUFFICES ASSUME InitAll PROVE Written
  OBVIOUS
<1>1. /\ stage = "api" \/ (stage = "bucket" /\ frames = <<>>)
      /\ heard = 0 /\ container = [video |-> NoTrack, audio |-> NoTrack]
  BY DEF InitAll, InitCommand
<1> QED
  BY <1>1 DEF Written, BeforeMux, Early

\* A cursor over the audio yields packets.
LEMMA AudioType ==
    ASSUME AllInv, Delivers, stage \in {"mux", "muxed"}, Of("audio") # {}
    PROVE  AudioPackets \in Seq(PacketType)
<1> DEFINE v == Stream("audio")
<1>1. v \in Of("audio")
  BY DEF Stream
<1> HIDE DEF v
<1>2. /\ cmd \in Commands /\ streams = Buckets(cmd) /\ ~CannotBucket
      /\ first = Target /\ (cmd.offset # 0 => Seekable)
  BY DEF AllInv, CommandOK, Delivers, AfterOffset, AfterVideo
<1>3. streams \in [DOMAIN cmd.types -> Seq(Archive)]
  BY <1>2, BucketsType DEF CannotBucket
<1>4. v \in DOMAIN streams /\ streams[v] \in Seq(Archive)
  BY <1>1, <1>3 DEF Of
<1>5. Target \in Nat \ {0} /\ Target <= Len(streams[v]) + 1
  BY <1>2, <1>3, <1>4, TargetType
<1>6. Yields(streams[v], Target) \in Seq(PacketType)
  BY <1>4, <1>5, YieldsType
<1> QED
  BY <1>2, <1>6 DEF AudioPackets, v

LEMMA MuxAudioWritten == ASSUME AllInv, Delivers, Written, MuxAudio PROVE Written'
<1>1. /\ stage = "mux" /\ stage' = "mux" /\ Of("audio") # {} /\ heard < Len(AudioPackets)
      /\ heard' = heard + 1 /\ UNCHANGED <<vars, cmd, streams, first>>
      /\ container' = [container EXCEPT !.audio = Write(@, AudioPackets, heard')]
  BY DEF MuxAudio
<1>2. /\ container = [video |-> container.video, audio |-> container.audio]
      /\ Track(container.video, input.pkts, Froms)
      /\ packet # 0 => \A i \in Froms : i < packet
      /\ heard \in Nat /\ Track(container.audio, AudioPackets, 1 .. heard)
  BY <1>1 DEF Written
<1>3. AudioPackets' = AudioPackets
  BY <1>1 DEF AudioPackets, Yields, Stream, Of
<1>4. Froms' = Froms /\ input' = input /\ packet' = packet
  BY <1>1 DEF Froms, vars
<1> DEFINE a == AudioPackets
           w == Write(container.audio, a, heard + 1)
<1>5. a \in Seq(PacketType)
  BY <1>1, AudioType
<1>6. /\ container'.video = container.video /\ container'.audio = w
      /\ container' = [video |-> container'.video, audio |-> container'.audio]
  BY <1>1, <1>2
<1>7. Track(w, a, (1 .. heard) \cup {heard + 1})
  <2> HIDE DEF a
  <2>1. Len(a) \in Nat /\ DOMAIN a = 1 .. Len(a) /\ heard < Len(a)
    BY <1>1, <1>5 DEF a
  <2>2. 1 .. heard \subseteq DOMAIN a /\ heard + 1 \in DOMAIN a /\ \A j \in 1 .. heard : j < heard + 1
    BY <1>2, <2>1
  <2>3. Track(container.audio, a, 1 .. heard)
    BY <1>2 DEF a
  <2> QED
    BY <1>5, <2>2, <2>3, WriteTracks
<1>8. (1 .. heard) \cup {heard + 1} = 1 .. heard' /\ heard' \in Nat
  BY <1>1, <1>2
<1> HIDE DEF w
<1>9. Track(container'.audio, AudioPackets', 1 .. heard')
  BY <1>3, <1>6, <1>7, <1>8
<1>10. Track(container'.video, input'.pkts, Froms')
  BY <1>2, <1>4, <1>6
<1> QED
  BY <1>1, <1>2, <1>4, <1>6, <1>8, <1>9, <1>10 DEF Written, BeforeMux, Early, Track, Later

LEMMA FrameSequence ==
    ASSUME frames \in Seq([from : Packets, to : Packets])
    PROVE  \A f \in DOMAIN frames : frames[f].from \in Packets
<1>1. \A f \in DOMAIN frames : frames[f] \in [from : Packets, to : Packets]
  <2> DEFINE T == [from : Packets, to : Packets]
  <2>1. frames \in Seq(T)
    OBVIOUS
  <2> HIDE DEF T
  <2>2. \A f \in DOMAIN frames : frames[f] \in T
    BY <2>1
  <2> QED
    BY <2>2 DEF T
<1>2. \A x \in [from : Packets, to : Packets] : x.from \in Packets
  OBVIOUS
<1> QED
  BY <1>1, <1>2

\* A frame begins at self.packet, beyond all the frames before it.
LEMMA MuxVideoWritten == ASSUME AllInv, Delivers, Written, MuxVideo PROVE Written'
<1>1. /\ stage = "mux" /\ stage' = "mux" /\ UNCHANGED <<cmd, streams, first, heard>>
  BY DEF MuxVideo
<1>2. /\ container = [video |-> container.video, audio |-> container.audio]
      /\ Track(container.video, input.pkts, Froms)
      /\ packet # 0 => \A i \in Froms : i < packet
      /\ heard \in Nat /\ Track(container.audio, AudioPackets, 1 .. heard)
  BY <1>1 DEF Written
<1>3. AudioPackets' = AudioPackets
  BY <1>1 DEF AudioPackets, Yields, Stream, Of
<1>4. input' = input
  BY DEF MuxVideo, NextFrame, NextStops
<1>5. TypeOK /\ ReadOK /\ Ahead
  BY DEF AllInv, Inv
<1>6. InputOK /\ Len(input.pkts) \in Nat /\ input.pkts \in Seq(PacketType)
  BY <1>5, InputType DEF InputOK
<1>7. CASE UNCHANGED <<container, frames>> /\ (packet' = 0 \/ packet' >= packet) /\ packet # 0
  <2>1. Froms' = Froms
    BY <1>7 DEF Froms
  <2>2. packet' # 0 => \A i \in Froms : i < packet'
    <3> SUFFICES ASSUME packet' # 0, NEW i \in Froms PROVE i < packet'
      OBVIOUS
    <3>1. frames \in Seq([from : Packets, to : Packets])
      BY <1>5 DEF TypeOK
    <3>2. i \in Int /\ packet \in Int /\ packet' \in Int
      <4>1. i \in Packets
        BY <3>1, FrameSequence DEF Froms
      <4>2. TypeOK'
        BY MuxVideoInv DEF AllInv, Inv
      <4> QED
        BY <1>5, <4>1, <4>2 DEF TypeOK, Packets
    <3> QED
      BY <1>2, <1>7, <3>2
  <2> QED
    BY <1>1, <1>2, <1>3, <1>4, <1>7, <2>1, <2>2 DEF Written, BeforeMux, Early, Track, Later
<1>8. CASE UNCHANGED <<container, frames, packet>>
  <2>1. Froms' = Froms
    BY <1>8 DEF Froms
  <2> QED
    BY <1>1, <1>2, <1>3, <1>4, <1>8, <2>1 DEF Written, BeforeMux, Early, Track, Later
<1>9. CASE /\ NextFrame /\ frames' # frames
           /\ container' = [container EXCEPT !.video = Write(@, input.pkts, packet)]
  <2> DEFINE e == Search(taken + 1, Starts)
  <2>1. packet # 0 /\ pc # "new" /\ packet' = e
        /\ frames' = Append(frames, [from |-> packet, to |-> IF e = 0 THEN taken' ELSE e - 1])
    BY <1>9 DEF NextFrame
  <2>2. packet = taken
    BY <1>5, <2>1 DEF Ahead
  <2>3. packet \in 1 .. Len(input.pkts)
    BY <1>5, <1>6, <2>1 DEF TypeOK
  <2>4. Within(taken + 1)
    BY <1>5, <1>6, <2>2, <2>3 DEF Within, ReadOK, InputOK
  <2>5. Finds(e, taken + 1, Starts)
    <3> PICK x : x = e
      OBVIOUS
    <3>1. Finds(x, taken + 1, Starts)
      BY <1>6, <2>4, SearchFinds
    <3> QED
      BY <3>1
  <2>6. packet' = 0 \/ packet' = -1 \/ (packet' \in Int /\ packet' > packet)
    <3> HIDE DEF e
    <3> QED
      BY <1>6, <2>1, <2>2, <2>3, <2>5 DEF Finds
  <2>7. packet' # -1
    <3>1. TypeOK'
      BY MuxVideoInv DEF AllInv, Inv
    <3> QED
      BY <1>4, <1>6, <3>1 DEF TypeOK
  <2>8. frames \in Seq([from : Packets, to : Packets])
    BY <1>5 DEF TypeOK
  <2>9. Froms' = Froms \cup {packet}
    <3> DEFINE x == [from |-> packet, to |-> IF e = 0 THEN taken' ELSE e - 1]
    <3>1. x.from = packet /\ frames' = Append(frames, x)
      BY <2>1
    <3> HIDE DEF x
    <3>2. /\ Len(frames) \in Nat /\ DOMAIN frames = 1 .. Len(frames)
          /\ DOMAIN frames' = 1 .. Len(frames) + 1 /\ frames'[Len(frames) + 1] = x
          /\ \A f \in 1 .. Len(frames) : frames'[f] = frames[f]
      BY <2>8, <3>1
    <3>3. 1 .. Len(frames) + 1 = (1 .. Len(frames)) \cup {Len(frames) + 1}
      BY <3>2
    <3> QED
      BY <3>1, <3>2, <3>3 DEF Froms
  <2>10. Froms \subseteq 1 .. Len(input.pkts) /\ DOMAIN input.pkts = 1 .. Len(input.pkts)
    <3>1. \A f \in DOMAIN frames : frames[f].from \in Packets
      BY <2>8, FrameSequence
    <3> QED
      BY <1>6, <3>1 DEF Froms, Packets
  <2>11. \A i \in Froms : i < packet
    BY <1>2, <2>1
  <2> DEFINE w == Write(container.video, input.pkts, packet)
  <2>12. Track(w, input.pkts, Froms \cup {packet})
    BY <1>2, <1>6, <2>3, <2>10, <2>11, WriteTracks
  <2>13. /\ container'.video = w /\ container'.audio = container.audio
         /\ container' = [video |-> container'.video, audio |-> container'.audio]
    BY <1>2, <1>9
  <2> HIDE DEF w
  <2>14. Track(container'.video, input'.pkts, Froms')
    BY <1>4, <2>9, <2>12, <2>13
  <2>15. packet' # 0 => \A i \in Froms' : i < packet'
    BY <2>3, <2>6, <2>7, <2>9, <2>10, <2>11
  <2> QED
    BY <1>1, <1>2, <1>3, <2>13, <2>14, <2>15 DEF Written, BeforeMux, Early, Track, Later
<1>10. NextStops \/ frames' = frames =>
          UNCHANGED <<container, frames>> /\ (packet' = packet \/ (packet # 0 /\ packet' >= packet))
  <2>1. CASE NextStops
    BY <2>1 DEF MuxVideo, NextFrame, NextStops
  <2>2. CASE NextFrame /\ frames' = frames
    <3>1. UNCHANGED container
      BY <2>2 DEF MuxVideo, NextStops, NextFrame
    <3> DEFINE e == Search(taken + 1, Starts)
    <3>2. CASE e = -1
      <4>1. packet # 0 /\ (packet' = IF taken' > taken THEN taken' ELSE packet) /\ pc # "new"
        BY <2>2, <3>2 DEF NextFrame
      <4>2. packet = taken
        BY <1>5, <4>1 DEF Ahead
      <4>3. TypeOK'
        BY MuxVideoInv DEF AllInv, Inv
      <4>4. taken \in Int /\ taken' \in Int
        BY <1>4, <1>5, <1>6, <4>3 DEF TypeOK
      <4> QED
        BY <2>2, <3>1, <4>1, <4>2, <4>4
    <3>3. CASE e # -1
      <4>1. \E x : frames' = Append(frames, x)
        BY <2>2, <3>3 DEF NextFrame
      <4>2. frames \in Seq([from : Packets, to : Packets]) /\ Len(frames) \in Nat
        BY <1>5 DEF TypeOK
      <4>3. Len(frames') = Len(frames) + 1
        BY <4>1, <4>2
      <4> QED
        BY <2>2, <4>2, <4>3
    <3> QED
      BY <3>2, <3>3
  <2> QED
    BY <2>1, <2>2 DEF MuxVideo
<1>11. NextStops \/ frames' = frames \/ (NextFrame /\ frames' # frames
          /\ container' = [container EXCEPT !.video = Write(@, input.pkts, packet)])
  BY DEF MuxVideo
<1> QED
  BY <1>7, <1>8, <1>9, <1>10, <1>11

LEMMA StepWritten ==
    ASSUME Written,
           \/ Bucket \/ Offset \/ ResolveVideo \/ ProbeWidth \/ ProbeHeight \/ Estimate
           \/ MakeVideoFrames \/ ResolveAudio \/ StopBeforeMux \/ OpenContainer \/ MuxReturns
           \/ \E s \in Early \cup {"audio", "mux"} : Raise(s)
    PROVE  Written'
<1>1. /\ UNCHANGED <<frames, heard, container>>
      /\ stage' \in BeforeMux => stage \in BeforeMux
      /\ stage' \in {"mux", "muxed"} => OpenContainer \/ MuxReturns
  BY DEF Bucket, Offset, ResolveVideo, ProbeWidth, ProbeHeight, Estimate, MakeVideoFrames, ResolveAudio,
         StopBeforeMux, OpenContainer, MuxReturns, Raise, Goto, vars, Construct, BeforeMux, Early
<1>2. CASE stage' \in BeforeMux
  BY <1>1, <1>2 DEF Written, BeforeMux, Early
<1>3. CASE OpenContainer
  <2>1. /\ frames' = <<>> /\ heard' = 0 /\ stage' = "mux"
        /\ container' = [video |-> NoTrack, audio |-> NoTrack]
    BY <1>1, <1>3 DEF OpenContainer, Goto, Written, BeforeMux
  <2>2. Froms' = {} /\ 1 .. heard' = {}
    BY <2>1 DEF Froms
  <2>3. Track(container'.video, input'.pkts, Froms') /\ Track(container'.audio, AudioPackets', 1 .. heard')
    BY <2>1, <2>2, NothingTracked
  <2> QED
    BY <2>1, <2>2, <2>3 DEF Written, BeforeMux, Early, Track, Later
<1>4. CASE MuxReturns
  <2>1. /\ stage = "mux" /\ stage' = "muxed" /\ UNCHANGED <<vars, cmd, streams, first, heard, container>>
    BY <1>4 DEF MuxReturns, Goto
  <2>2. AudioPackets' = AudioPackets /\ Froms' = Froms /\ input' = input /\ packet' = packet
    BY <2>1 DEF AudioPackets, Yields, Stream, Of, Froms, vars
  <2> QED
    BY <2>1, <2>2 DEF Written, BeforeMux, Early, Track, Later
<1> QED
  BY <1>1, <1>2, <1>3, <1>4 DEF Written

LEMMA NextWritten ==
    AllInv /\ Delivers /\ Written /\ [CommandNext \/ ApiNext]_allvars => Written'
<1> SUFFICES ASSUME AllInv, Delivers, Written, [CommandNext \/ ApiNext]_allvars PROVE Written'
  OBVIOUS
<1>1. CASE BucketFails \/ OffsetFails \/ VideoFails \/ ProbeFails \/ EstimateFails \/ AudioFails \/ MuxFails
  <2>1. \E s \in Early \cup {"audio", "mux"} : Raise(s)
    BY <1>1, Zenon DEF BucketFails, OffsetFails, VideoFails, ProbeFails, EstimateFails, AudioFails,
                MuxFails, Early
  <2> QED
    BY <2>1, StepWritten
<1>2. CASE ApiNext
  <2>1. stage' = "api"
    BY <1>2 DEF ApiNext, command
  <2> QED
    BY <2>1 DEF Written, BeforeMux, Early
<1>3. CASE UNCHANGED allvars
  <2>1. UNCHANGED <<vars, command>>
    BY <1>3 DEF allvars
  <2>2. /\ AudioPackets' = AudioPackets /\ Froms' = Froms /\ input' = input /\ packet' = packet
        /\ UNCHANGED <<stage, frames, heard, container>>
    BY <2>1 DEF AudioPackets, Yields, Stream, Of, Froms, vars, command
  <2> QED
    BY <2>2 DEF Written, BeforeMux, Early, Track, Later
<1> QED
  BY <1>1, <1>2, <1>3, StepWritten, MuxVideoWritten, MuxAudioWritten DEF CommandNext

\* cli.mux_cmd and marm_mux: a command that returns has handed the muxer all its
\* cursors reach of the archives that the description gives each stream, the video from
\* its first key frame to its end and all of the audio, whatever was probed before; and
\* what has a later time than all before it in its stream is what the container holds.
THEOREM MuxedIsAlwaysComplete == SpecAll => []MuxedIsComplete
<1>1. ASSUME AllInv, Delivers, Written PROVE MuxedIsComplete
  <2> SUFFICES ASSUME stage = "muxed"
               PROVE  /\ Of("video") # {} =>
                           /\ input.pkts = Reachable(Stream("video"))
                           /\ frames # <<>> /\ frames[1].from = Least(Keys)
                           /\ frames[Len(frames)].to = Len(input.pkts)
                           /\ container.video.kept = Later(input.pkts, Froms)
                      /\ Of("audio") # {} =>
                           container.audio.kept = Later(Reachable(Stream("audio")),
                                                        DOMAIN Reachable(Stream("audio")))
    BY DEF MuxedIsComplete, Froms
  <2>1. /\ cmd \in Commands /\ streams = Buckets(cmd) /\ ~CannotBucket
        /\ first = Target /\ (cmd.offset # 0 => Seekable) /\ input.pkts = ToMux
        /\ input.raises = Len(input.pkts) + 2
    BY <1>1 DEF AllInv, CommandOK, Delivers, AfterOffset, AfterVideo
  <2>2. ASSUME NEW t, Of(t) # {} PROVE Yields(streams[Stream(t)], Target) = Reachable(Stream(t))
    <3>1. Stream(t) \in Of(t)
      BY <2>2 DEF Stream
    <3>2. Stream(t) \in DOMAIN cmd.types
      BY <3>1 DEF Of
    <3> QED
      BY <2>1, <3>2, YieldsReachable
  <2>3. ASSUME Of("video") # {}
        PROVE  /\ input.pkts = Reachable(Stream("video"))
               /\ frames # <<>> /\ frames[1].from = Least(Keys)
               /\ frames[Len(frames)].to = Len(input.pkts)
               /\ container.video.kept = Later(input.pkts, Froms)
    <3>1. input.pkts = Reachable(Stream("video"))
      BY <2>1, <2>2, <2>3 DEF ToMux
    <3>2. Keys # {} /\ pc = "stop"
      BY <1>1, <2>3 DEF Delivers, AfterVideo
    <3>3. ~SourceRaised
      <4>1. taken \in 0 .. Len(input.pkts) /\ Len(input.pkts) \in Nat
        BY <1>1, InputType DEF AllInv, Inv, TypeOK, InputOK
      <4> QED
        BY <2>1, <4>1 DEF SourceRaised
    <3>4. FramesTile
      BY <1>1, InvTiles DEF AllInv
    <3>5. container.video.kept = Later(input.pkts, Froms)
      BY <1>1 DEF Written, Track
    <3> QED
      BY <3>1, <3>2, <3>3, <3>4, <3>5 DEF FramesTile
  <2>4. ASSUME Of("audio") # {}
        PROVE  container.audio.kept = Later(Reachable(Stream("audio")), DOMAIN Reachable(Stream("audio")))
    <3>1. heard = Len(AudioPackets) /\ container.audio.kept = Later(AudioPackets, 1 .. heard)
      BY <1>1, <2>4 DEF Delivers, Written, Track
    <3>2. AudioPackets = Reachable(Stream("audio"))
      BY <2>1, <2>2, <2>4 DEF AudioPackets
    <3>3. AudioPackets \in Seq(PacketType)
      BY <1>1, <2>4, AudioType
    <3>4. DOMAIN AudioPackets = 1 .. heard
      BY <3>1, <3>3
    <3> QED
      BY <3>1, <3>2, <3>4
  <2> QED
    BY <2>3, <2>4
<1> QED
  BY <1>1, InitAllInv, InitDelivers, InitWritten, NextAllInv, NextDelivers, NextWritten, PTL DEF SpecAll
=============================================================================
