--------------------------- MODULE RTPCursorProofs ---------------------------
(***************************************************************************)
(* Proofs about RTPCursor for any number of parts, any part lengths and    *)
(* any sequence of calls, and about the loops of CursorScan over it.       *)
(***************************************************************************)
EXTENDS CursorScan, WellFoundedInduction, TLAPS

Readers == {"closed", "open", "spent"}

-----------------------------------------------------------------------------
(***************************************************************************)
(* Type correctness.                                                       *)
(***************************************************************************)

\* Reading a packet leaves well-typed readers and a well-typed result.
LEMMA ReadPacketType ==
    ASSUME npkts \in [Parts -> Nat], torn \subseteq Parts,
           NEW r \in [Parts -> Readers], NEW p \in Parts, NEW i \in Int,
           ReadPacket(r, p, i)
    PROVE  /\ reader' \in [Parts -> Readers]
           /\ out' \in [res : {"packet", "stop", "index_error", "done"},
                        pkt : Int \X Int]
<1> DEFINE k == Wrap(i, npkts[p])
<1>1. k \in Int
  BY DEF Wrap
<1>2. p \in Int
  BY NbPartsAssumption DEF Parts
<1>3. CASE reader' = r /\ out' = IndexError
  BY <1>3 DEF IndexError, NoPacket
<1>4. CASE reader' = [r EXCEPT ![p] = "spent"] /\ out' = Stop
  BY <1>4 DEF Stop, NoPacket, Readers
<1>5. CASE reader' = r /\ out' = Got(<<p, k>>)
  BY <1>1, <1>2, <1>5 DEF Got
<1> QED
  BY <1>3, <1>4, <1>5 DEF ReadPacket

LEMMA OpenedType ==
    ASSUME NEW r \in [Parts -> Readers], NEW p \in Parts
    PROVE  /\ Opened(r, p) \in [Parts -> Readers]
           /\ Close(r, p) \in [Parts -> Readers]
  BY DEF Opened, Close, Readers

\* Type correctness holds at the start and is kept by every step.
LEMMA InitType == Init => TypeOK
  BY NbPartsAssumption, ArchivesAssumption
  DEF Init, TypeOK, Parts, Done, NoPacket

\* A seek to any pair of numbers, one that is no packet too, keeps the types.
LEMMA SeekType ==
    ASSUME TypeOK, NEW t \in Int \X Int, SeekTo(t)
    PROVE  TypeOK'
<1> USE NbPartsAssumption DEF TypeOK, archive
<1> DEFINE p == Wrap(t[1], NbParts)
           k == Wrap(t[2], npkts[p])
<1>1. CASE UNCHANGED <<pos_part, pos_pkt, part, reader>> /\ out' \in {Done, IndexError}
  BY <1>1 DEF SeekTo, Done, IndexError, NoPacket
<1>2. CASE /\ p \in Parts /\ out' = IndexError /\ reader' = Opened(reader, p)
           /\ UNCHANGED <<pos_part, pos_pkt, part>>
  BY <1>2, OpenedType DEF SeekTo, IndexError, NoPacket, Readers
<1>3. CASE /\ p \in Parts /\ k \in 0 .. npkts[p] - 1 /\ out' = Done
           /\ pos_part' = p /\ pos_pkt' = k /\ part' = p
           /\ reader' \in {Close(Opened(reader, p), part), Opened(reader, p)}
  <2>1. Opened(reader, p) \in [Parts -> Readers]
    BY <1>3, OpenedType DEF Readers
  <2>2. reader' \in [Parts -> Readers]
    BY <1>3, <2>1, OpenedType
  <2>3. k \in Int
    BY <1>3
  <2> HIDE DEF p, k
  <2> QED
    BY <1>3, <2>2, <2>3 DEF SeekTo, Done, NoPacket, Readers
<1> QED
  BY <1>1, <1>2, <1>3 DEF SeekTo

LEMMA StepType == TypeOK /\ [Next]_vars => TypeOK'
<1> USE NbPartsAssumption
<1> SUFFICES ASSUME TypeOK, [Next]_vars PROVE TypeOK'
  OBVIOUS
<1> USE DEF TypeOK, archive
<1>1. CASE Current
  <2>1. Opened(reader, part) \in [Parts -> Readers]
    BY OpenedType DEF Readers
  <2> QED
    BY <1>1, <2>1, ReadPacketType DEF Current, Readers
<1>2. CASE Advance
  <2> DEFINE q == IF Crosses THEN pos_part + 1 ELSE part
             k == IF Crosses THEN 0 ELSE pos_pkt + 1
  <2>1. q \in Parts /\ k \in Int
    BY DEF Crosses, Parts
  <2>2. Opened(reader, q) \in [Parts -> Readers]
    BY <2>1, OpenedType DEF Readers
  <2>3. CASE k < npkts[q] /\ ReadPacket(Opened(reader, q), q, k)
    <3>1. reader' \in [Parts -> Readers] /\ out' \in [res : {"packet", "stop", "index_error", "done"}, pkt : Int \X Int]
      BY <2>1, <2>2, <2>3, ReadPacketType
    <3> QED
      BY <1>2, <2>1, <2>3, <3>1 DEF Advance, Readers
  <2>4. CASE ~(k < npkts[q])
    BY <1>2, <2>1, <2>2, <2>4 DEF Advance, Readers, Stop, NoPacket
  <2> QED
    BY <1>2, <2>3, <2>4 DEF Advance
<1>3. CASE RetreatInPart
  <2>1. Opened(reader, part) \in [Parts -> Readers]
    BY OpenedType DEF Readers
  <2> QED
    BY <1>3, <2>1, ReadPacketType DEF RetreatInPart, Readers
<1>4. ASSUME NEW q \in Parts, RetreatToPart(q) PROVE TypeOK'
  <2>1. OpenedFrom(q) \in [Parts -> Readers]
    BY DEF OpenedFrom, Readers
  <2> QED
    BY SMTT(20), <1>4, <2>1, ReadPacketType DEF RetreatToPart, Readers, Parts
<1>5. CASE RetreatFails
  BY <1>5 DEF RetreatFails, OpenedFrom, Stop, NoPacket, Parts
<1>6. ASSUME NEW t \in Targets, SeekTo(t) PROVE TypeOK'
  BY <1>6, SeekType, TargetsAssumption
<1>7. ASSUME NEW n \in Offsets, SeekBy(n) PROVE TypeOK'
  BY <1>7, OffsetsAssumption DEF SeekBy, Done, NoPacket
<1>8. CASE SeekStep
  <2>1. CASE BackInPart
    BY <2>1 DEF BackInPart, MinOf
  <2>2. CASE BackAcross
    <3>1. pos_part - 1 \in Parts
      BY <2>2 DEF BackAcross, Parts
    <3> QED
      BY <2>2, <3>1, OpenedType DEF BackAcross, Readers
  <2>3. CASE BackEnds
    BY <2>3 DEF BackEnds
  <2>4. CASE AheadInPart
    <3>1. Length(reader, part) \in Int
      BY DEF Length
    <3> QED
      BY <2>4, <3>1 DEF AheadInPart, MinOf
  <2>5. CASE AheadAcross
    <3>1. pos_part + 1 \in Parts
      BY <2>5 DEF AheadAcross, Parts
    <3> QED
      BY <2>5, <3>1, OpenedType DEF AheadAcross, Readers
  <2>6. CASE AheadEnds
    BY <2>6 DEF AheadEnds
  <2> QED
    BY <1>8, <2>1, <2>2, <2>3, <2>4, <2>5, <2>6 DEF SeekStep
<1>9. CASE UNCHANGED vars
  BY <1>9 DEF vars
<1> QED
  BY <1>1, <1>2, <1>3, <1>4, <1>5, <1>6, <1>7, <1>8, <1>9 DEF Next, Retreat

\* The state is well typed whatever calls are made, in whatever order.
THEOREM TypeCorrect == Spec => []TypeOK
  BY InitType, StepType, PTL DEF Spec

-----------------------------------------------------------------------------
(***************************************************************************)
(* The position stays in the archive and self.part only strays to parts    *)
(* without packets.  Each of the two facts needs the other: a part that    *)
(* has strayed is empty, so _next and seek see no packets in it and leave  *)
(* it, and that they leave it at a valid position is what InBounds says.   *)
(***************************************************************************)
LEMMA InitBounds == Init => PositionIsSound
  BY DEF Init, PositionIsSound, InBounds, StalePartIsEmpty

LEMMA SeekBounds ==
    ASSUME TypeOK, PositionIsSound, NEW t \in Int \X Int, SeekTo(t)
    PROVE  PositionIsSound'
  BY NbPartsAssumption
  DEF SeekTo, TypeOK, PositionIsSound, InBounds, StalePartIsEmpty, archive

LEMMA StepBounds == TypeOK /\ PositionIsSound /\ [Next]_vars => PositionIsSound'
<1> SUFFICES ASSUME TypeOK, PositionIsSound, [Next]_vars PROVE PositionIsSound'
  OBVIOUS
<1> USE NbPartsAssumption DEF TypeOK, PositionIsSound, InBounds, StalePartIsEmpty, archive
<1>1. CASE Current
  BY <1>1 DEF Current
<1>2. CASE Advance
  <2> DEFINE q == IF Crosses THEN pos_part + 1 ELSE part
             k == IF Crosses THEN 0 ELSE pos_pkt + 1
  <2>1. CASE Crosses
    <3>1. pos_part + 1 \in Parts
      BY <2>1 DEF Crosses, Parts
    <3> QED
      BY <1>2, <2>1, <3>1 DEF Advance
  <2>2. CASE ~Crosses
    BY <1>2, <2>2 DEF Advance
  <2> QED
    BY <2>1, <2>2
<1>3. CASE RetreatInPart
  BY <1>3 DEF RetreatInPart
<1>4. ASSUME NEW q \in Parts, RetreatToPart(q) PROVE PositionIsSound'
  BY <1>4 DEF RetreatToPart
<1>5. CASE RetreatFails
  <2>1. 0 # pos_part => npkts[0] = 0
    BY <1>5 DEF RetreatFails, Parts
  <2> QED
    BY <1>5, <2>1 DEF RetreatFails
<1>6. ASSUME NEW t \in Targets, SeekTo(t) PROVE PositionIsSound'
  BY <1>6, SeekBounds, TargetsAssumption
<1>7. ASSUME NEW n \in Offsets, SeekBy(n) PROVE PositionIsSound'
  BY <1>7 DEF SeekBy
<1>8. CASE SeekStep
  <2>1. CASE BackInPart
    BY <2>1 DEF BackInPart, MinOf
  <2>2. CASE BackAcross
    <3>1. pos_part - 1 \in Parts
      BY <2>2 DEF BackAcross, Parts
    <3> QED
      BY <2>2, <3>1 DEF BackAcross
  <2>3. CASE BackEnds
    BY <2>3 DEF BackEnds
  <2>4. CASE AheadInPart
    <3>1. Length(reader, part) \in Int /\ 0 <= Length(reader, part) /\ Length(reader, part) <= npkts[part]
      BY DEF Length
    <3>2. -1 <= pos_pkt' /\ pos_pkt' <= Length(reader, part) - 1
      BY <2>4, <3>1 DEF AheadInPart, MinOf
    <3>3. npkts[part] <= npkts[pos_part]
      OBVIOUS
    <3> QED
      BY <2>4, <3>1, <3>2, <3>3 DEF AheadInPart
  <2>5. CASE AheadAcross
    BY <2>5 DEF AheadAcross
  <2>6. CASE AheadEnds
    BY <2>6 DEF AheadEnds
  <2> QED
    BY <1>8, <2>1, <2>2, <2>3, <2>4, <2>5, <2>6 DEF SeekStep
<1>9. CASE UNCHANGED vars
  BY <1>9 DEF vars
<1> QED
  BY <1>1, <1>2, <1>3, <1>4, <1>5, <1>6, <1>7, <1>8, <1>9 DEF Next, Retreat

\* The position never points past the packets of its part, and self.part differs from
\* the part of the position only while it has no packets, in whatever order current,
\* _next, _prev and seek are called.
THEOREM PositionStaysSound == Spec => []PositionIsSound
<1>1. TypeOK /\ PositionIsSound /\ [Next]_vars => (TypeOK /\ PositionIsSound)'
  BY StepType, StepBounds
<1> QED
  BY <1>1, InitType, InitBounds, PTL DEF Spec
-----------------------------------------------------------------------------
(***************************************************************************)
(* What a call returns.                                                    *)
(***************************************************************************)

\* The packet a part hands out for index i is packet Wrap(i, ...) of that part.
LEMMA ReadPacketReturns ==
    ASSUME npkts \in [Parts -> Nat], NEW r, NEW p \in Parts, NEW i \in Int,
           ReadPacket(r, p, i), out'.res = "packet"
    PROVE  /\ out'.pkt = <<p, Wrap(i, npkts[p])>>
           /\ Wrap(i, npkts[p]) \in 0 .. npkts[p] - 1
  BY DEF ReadPacket, IndexError, Stop, Got

\* A relative seek in progress has returned nothing yet.
SeekingIsSilent == togo # 0 => out = Done

Results == SeekingIsSilent /\ PacketIsFromPosition

LEMMA SeekResults == ASSUME NEW t, SeekTo(t) PROVE Results'
  BY DEF SeekTo, Done, IndexError, Idle, Results, SeekingIsSilent, PacketIsFromPosition

LEMMA StepResults == TypeOK /\ PositionIsSound /\ Results /\ [Next]_vars => Results'
<1> SUFFICES ASSUME TypeOK, PositionIsSound, Results, [Next]_vars PROVE Results'
  OBVIOUS
<1> USE NbPartsAssumption
    DEF TypeOK, Results, SeekingIsSilent, PacketIsFromPosition, archive
<1>1. CASE Current
  <2> SUFFICES ASSUME out'.res = "packet" PROVE PacketIsFromPosition'
    BY <1>1 DEF Current, Idle
  <2>1. out'.pkt = <<part, Wrap(pos_pkt, npkts[part])>> /\ Wrap(pos_pkt, npkts[part]) \in 0 .. npkts[part] - 1
    BY <1>1, ReadPacketReturns DEF Current
  <2>2. part = pos_part /\ -1 <= pos_pkt
    BY <2>1 DEF PositionIsSound, StalePartIsEmpty, InBounds
  <2> QED
    BY <1>1, <2>1, <2>2 DEF Current, Tell, Wrap
<1>2. CASE Advance
  <2> DEFINE q == IF Crosses THEN pos_part + 1 ELSE part
             k == IF Crosses THEN 0 ELSE pos_pkt + 1
  <2> SUFFICES ASSUME out'.res = "packet" PROVE PacketIsFromPosition'
    BY <1>2 DEF Advance, Idle
  <2>1. /\ k < npkts[q] /\ ReadPacket(Opened(reader, q), q, k)
        /\ pos_part' = (IF Crosses THEN q ELSE pos_part) /\ pos_pkt' = k
    BY <1>2 DEF Advance, Stop
  <2>2. q \in Parts /\ k \in Nat
    BY DEF Crosses, Parts, PositionIsSound, InBounds
  <2>3. out'.pkt = <<q, k>>
    <3> HIDE DEF q, k
    <3>1. Wrap(k, npkts[q]) = k
      BY <2>2 DEF Wrap
    <3>2. out'.pkt = <<q, Wrap(k, npkts[q])>>
      BY ONLY <2>1, <2>2, TypeOK, out'.res = "packet", ReadPacketReturns DEF TypeOK
    <3> QED
      BY <3>1, <3>2
  <2>4. pos_part' = q
    BY <2>1, <2>2 DEF PositionIsSound, StalePartIsEmpty
  <2> QED
    BY <2>1, <2>3, <2>4 DEF Tell
<1>3. CASE RetreatInPart
  <2> SUFFICES ASSUME out'.res = "packet" PROVE PacketIsFromPosition'
    BY <1>3 DEF RetreatInPart, Idle
  <2>1. out'.pkt = <<part, pos_pkt - 1>> /\ pos_pkt - 1 \in 0 .. npkts[part] - 1
    <3>1. ReadPacket(Opened(reader, part), part, pos_pkt - 1) /\ pos_pkt - 1 \in Nat
      BY <1>3 DEF RetreatInPart
    <3>2. Wrap(pos_pkt - 1, npkts[part]) = pos_pkt - 1
      BY <3>1 DEF Wrap
    <3>3. /\ out'.pkt = <<part, Wrap(pos_pkt - 1, npkts[part])>>
          /\ Wrap(pos_pkt - 1, npkts[part]) \in 0 .. npkts[part] - 1
      BY ONLY <3>1, TypeOK, out'.res = "packet", ReadPacketReturns DEF TypeOK
    <3> QED
      BY <3>2, <3>3
  <2>2. part = pos_part
    BY <2>1 DEF PositionIsSound, StalePartIsEmpty
  <2> QED
    BY <1>3, <2>1, <2>2 DEF RetreatInPart, Tell
<1>4. ASSUME NEW q \in Parts, RetreatToPart(q) PROVE Results'
  <2> SUFFICES ASSUME out'.res = "packet" PROVE PacketIsFromPosition'
    BY <1>4 DEF RetreatToPart, Idle
  <2>1. out'.pkt = <<q, npkts[q] - 1>>
    <3>1. ReadPacket(OpenedFrom(q), q, npkts[q] - 1) /\ npkts[q] - 1 \in Nat
      BY <1>4 DEF RetreatToPart
    <3>2. Wrap(npkts[q] - 1, npkts[q]) = npkts[q] - 1
      BY <3>1 DEF Wrap
    <3>3. out'.pkt = <<q, Wrap(npkts[q] - 1, npkts[q])>>
      BY ONLY <3>1, TypeOK, out'.res = "packet", ReadPacketReturns, q \in Parts DEF TypeOK
    <3> QED
      BY <3>2, <3>3
  <2> QED
    BY <1>4, <2>1 DEF RetreatToPart, Tell
<1>5. CASE RetreatFails
  BY <1>5 DEF RetreatFails, Stop, Idle
<1>6. ASSUME NEW t \in Targets, SeekTo(t) PROVE Results'
  BY <1>6, SeekResults
<1>7. ASSUME NEW n \in Offsets, SeekBy(n) PROVE Results'
  BY <1>7 DEF SeekBy, Done
<1>8. CASE SeekStep
  <2>1. togo # 0 /\ out' = out
    BY <1>8 DEF SeekStep, BackInPart, BackAcross, BackEnds, AheadInPart,
       AheadAcross, AheadEnds
  <2> QED
    BY <2>1 DEF Done
<1>9. CASE UNCHANGED vars
  BY <1>9 DEF vars, Tell
<1> QED
  BY <1>1, <1>2, <1>3, <1>4, <1>5, <1>6, <1>7, <1>8, <1>9 DEF Next, Retreat

\* A packet handed out by current, _next or _prev is the one tell() reports.
THEOREM PacketsComeFromPosition == Spec => []PacketIsFromPosition
<1>1. Init => Results
  BY DEF Init, Results, SeekingIsSilent, PacketIsFromPosition, Done
<1>2. TypeOK /\ PositionIsSound /\ Results /\ [Next]_vars => (TypeOK /\ PositionIsSound /\ Results)'
  BY StepType, StepBounds, StepResults
<1>3. Results => PacketIsFromPosition
  BY DEF Results
<1> QED
  BY <1>1, <1>2, <1>3, InitType, InitBounds, PTL DEF Spec

-----------------------------------------------------------------------------
(***************************************************************************)
(* The single steps reach the neighbouring packet.                         *)
(***************************************************************************)
LEMMA RetreatReachesPredecessor ==
    ASSUME TypeOK, PositionIsSound, Retreat
    PROVE  \/ Tape!IsPosition(Tell') /\ Tape!Adjacent(Tell', Tell)
           \/ Tape!IsFirstPacket(Tell) /\ Tell' = Tell /\ out' = Stop
<1> USE DEF TypeOK, PositionIsSound, InBounds, Tell, Tape!IsPosition, Tape!Adjacent,
            Tape!Before, Tape!IsFirstPacket, Parts, Tape!Parts
<1>1. CASE RetreatInPart
  BY <1>1 DEF RetreatInPart
<1>2. ASSUME NEW q \in Parts, RetreatToPart(q) PROVE Tape!IsPosition(Tell') /\ Tape!Adjacent(Tell', Tell)
  BY <1>2 DEF RetreatToPart
<1>3. CASE RetreatFails
  BY <1>3 DEF RetreatFails
<1> QED
  BY <1>1, <1>2, <1>3 DEF Retreat

\* _prev goes to the packet right before the position, whatever the parts hold.
THEOREM PrevReachesPredecessor == Spec => PrevIsPredecessor
<1> DEFINE Reaches ==
             Retreat => \/ Tape!IsPosition(Tell') /\ Tape!Adjacent(Tell', Tell)
                        \/ Tape!IsFirstPacket(Tell) /\ Tell' = Tell /\ out' = Stop
<1>1. TypeOK /\ PositionIsSound /\ [Next]_vars => (TypeOK /\ PositionIsSound)'
  BY StepType, StepBounds
<1>2. TypeOK /\ PositionIsSound => Reaches
  BY RetreatReachesPredecessor
<1>3. TypeOK /\ PositionIsSound /\ [Next]_vars => [Reaches]_vars
  BY <1>2
<1> HIDE DEF Reaches
<1>4. Spec => [][Reaches]_vars
  BY <1>1, <1>3, InitType, InitBounds, PTL DEF Spec
<1> QED
  BY <1>4 DEF Reaches, PrevIsPredecessor

LEMMA AdvanceReachesSuccessor ==
    ASSUME TypeOK, PositionIsSound, Advance, HasRead, part = pos_part,
           pos_part + 1 \in Parts => npkts[pos_part + 1] > 0
    PROVE  \/ Tape!IsPosition(Tell') /\ Tape!Adjacent(Tell, Tell')
           \/ Tape!IsLastPacket(Tell) /\ Tell' = Tell /\ out' = Stop
<1> USE NbPartsAssumption
    DEF TypeOK, PositionIsSound, InBounds, Tell, Tape!IsPosition, Tape!Adjacent,
        Tape!Before, Tape!IsLastPacket, Parts, Tape!Parts
<1>1. Length(reader, part) = npkts[pos_part]
  BY DEF Length, HasRead
<1>2. CASE Crosses
  <2>1. /\ pos_part + 1 \in Parts /\ 0 < npkts[pos_part + 1] /\ ~(pos_pkt + 1 < npkts[pos_part])
    BY <1>1, <1>2 DEF Crosses
  <2>2. pos_part' = pos_part + 1 /\ pos_pkt' = 0 /\ UNCHANGED npkts
    BY <1>2, <2>1 DEF Advance, archive
  <2> QED
    BY <2>1, <2>2
<1>3. CASE ~Crosses /\ pos_pkt + 1 < npkts[pos_part]
  <2>1. pos_part' = pos_part /\ pos_pkt' = pos_pkt + 1 /\ UNCHANGED npkts
    BY <1>3 DEF Advance, archive
  <2> QED
    BY <1>3, <2>1
<1>4. CASE ~Crosses /\ ~(pos_pkt + 1 < npkts[pos_part])
  BY <1>1, <1>4 DEF Advance, Crosses
<1> QED
  BY <1>2, <1>3, <1>4

\* _next from a part that has been read goes to the packet right after.
THEOREM NextReachesSuccessor == Spec => NextIsSuccessor
<1> DEFINE Reaches ==
             /\ Advance /\ HasRead /\ part = pos_part
             /\ pos_part + 1 \in Parts => npkts[pos_part + 1] > 0
             => \/ Tape!IsPosition(Tell') /\ Tape!Adjacent(Tell, Tell')
                \/ Tape!IsLastPacket(Tell) /\ Tell' = Tell /\ out' = Stop
<1>1. TypeOK /\ PositionIsSound /\ [Next]_vars => (TypeOK /\ PositionIsSound)'
  BY StepType, StepBounds
<1>2. TypeOK /\ PositionIsSound => Reaches
  BY AdvanceReachesSuccessor
<1>3. TypeOK /\ PositionIsSound /\ [Next]_vars => [Reaches]_vars
  BY <1>2
<1> HIDE DEF Reaches
<1>4. Spec => [][Reaches]_vars
  BY <1>1, <1>3, InitType, InitBounds, PTL DEF Spec
<1> QED
  BY <1>4 DEF Reaches, NextIsSuccessor
-----------------------------------------------------------------------------
(***************************************************************************)
(* A relative seek backward.                                               *)
(***************************************************************************)
LEMMA LeastExists ==
    ASSUME NEW S, S \subseteq Nat, S # {} PROVE \E x \in S : \A y \in S : x <= y
<1>1. \E x \in S : \A y \in S : ~(<<y, x>> \in OpToRel(<, Nat))
  BY WFMin, NatLessThanWellFounded, Zenon
<1>2. PICK x \in S : \A y \in S : ~(<<y, x>> \in OpToRel(<, Nat))
  BY <1>1
<1>3. \A y \in S : x <= y
  <2> TAKE y \in S
  <2>1. <<y, x>> \in Nat \X Nat /\ ~(y < x)
    BY <1>2 DEF OpToRel
  <2> QED
    BY <2>1
<1> QED
  BY <1>3

\* f counts the packets of the parts up to part m.
CountsTo(f, m) == f = [p \in 0 .. m |-> IF p = 0 THEN 0 ELSE f[p - 1] + npkts[p - 1]]

LEMMA CountExists == ASSUME NEW n \in Nat PROVE \E f : CountsTo(f, n)
<1> DEFINE B == { m \in Nat : ~ \E f : CountsTo(f, m) }
<1> SUFFICES ASSUME B # {} PROVE FALSE
  OBVIOUS
<1>1. B \subseteq Nat
  OBVIOUS
<1> HIDE DEF B
<1>2. PICK m \in B : \A j \in B : m <= j
  BY <1>1, LeastExists
<1> USE DEF B
<1>3. m \in Nat /\ ~ \E f : CountsTo(f, m)
  OBVIOUS
<1>4. m # 0
  <2> DEFINE f == [p \in 0 .. 0 |-> 0]
  <2>1. \A p \in 0 .. 0 : p = 0
    OBVIOUS
  <2>2. f = [p \in 0 .. 0 |-> IF p = 0 THEN 0 ELSE f[p - 1] + npkts[p - 1]]
    BY <2>1
  <2>3. \E g : CountsTo(g, 0)
    BY <2>2 DEF CountsTo
  <2> QED
    BY <1>3, <2>3
<1>5. m - 1 \in Nat /\ ~(m <= m - 1)
  BY <1>3, <1>4
<1>6. PICK f : CountsTo(f, m - 1)
  BY <1>2, <1>5
<1> DEFINE h == [p \in 0 .. m |-> IF p = m THEN f[m - 1] + npkts[m - 1] ELSE f[p]]
<1>7. ASSUME NEW p \in 0 .. m PROVE h[p] = IF p = 0 THEN 0 ELSE h[p - 1] + npkts[p - 1]
  <2>1. CASE p = m
    <3>1. m - 1 \in 0 .. m /\ m - 1 # m
      BY <1>3, <1>5
    <3> QED
      BY <1>4, <2>1, <3>1
  <2>2. CASE p # m
    <3>1. p \in 0 .. m - 1 /\ (p # 0 => p - 1 \in 0 .. m /\ p - 1 # m)
      BY <1>3, <2>2
    <3>2. f[p] = IF p = 0 THEN 0 ELSE f[p - 1] + npkts[p - 1]
      BY <1>6, <3>1 DEF CountsTo
    <3> QED
      BY <2>2, <3>1, <3>2
  <2> QED
    BY <2>1, <2>2
<1>8. h = [p \in 0 .. m |-> h[p]]
  OBVIOUS
<1> HIDE DEF h
<1>9. CountsTo(h, m)
  BY <1>7, <1>8 DEF CountsTo
<1> QED
  BY <1>3, <1>9

\* The count is 0 before the first part and grows by the packets of a part.
LEMMA CountIs ==
    /\ InPartsBefore[0] = 0
    /\ \A p \in Parts : p # 0 => InPartsBefore[p] = InPartsBefore[p - 1] + npkts[p - 1]
<1>1. NbParts - 1 \in Nat /\ 0 \in Parts
  BY NbPartsAssumption DEF Parts
<1>2. \E f : CountsTo(f, NbParts - 1)
  BY <1>1, CountExists
<1>3. InPartsBefore = [p \in Parts |-> IF p = 0 THEN 0 ELSE InPartsBefore[p - 1] + npkts[p - 1]]
  BY <1>2, Zenon DEF InPartsBefore, CountsTo, Parts
<1> HIDE DEF InPartsBefore
<1> QED
  BY <1>1, <1>3

LEMMA CountType == ASSUME TypeOK, NEW p \in Parts PROVE InPartsBefore[p] \in Nat
<1> DEFINE B == { m \in Parts : InPartsBefore[m] \notin Nat }
<1> SUFFICES ASSUME B # {} PROVE FALSE
  OBVIOUS
<1>1. B \subseteq Nat
  BY NbPartsAssumption DEF Parts
<1> HIDE DEF B
<1>2. PICK m \in B : \A j \in B : m <= j
  BY <1>1, LeastExists
<1>3. m \in Parts /\ InPartsBefore[m] \notin Nat
  BY DEF B
<1>4. m # 0
  BY <1>3, CountIs
<1>5. m - 1 \in Parts /\ ~(m <= m - 1)
  BY <1>3, <1>4, NbPartsAssumption DEF Parts
<1>6. InPartsBefore[m - 1] \in Nat
  BY <1>2, <1>5 DEF B
<1>7. npkts[m - 1] \in Nat
  BY <1>5 DEF TypeOK
<1> QED
  BY <1>3, <1>4, <1>6, <1>7, CountIs

LEMMA BackStepsAreExact ==
    ASSUME TypeOK, PositionIsSound, togo < 0, [Next]_vars
    PROVE  \/ /\ Rank(Tell') + Owing' = Rank(Tell) + Owing
              /\ togo' = 0 => \/ Tape!IsPosition(Tell')
                              \/ npkts[pos_part'] = 0 /\ pos_pkt' = -1
           \/ Tell = <<0, 0>> /\ Tell' = Tell /\ togo' = 0
<1> USE DEF TypeOK
<1>1. /\ Rank(Tell) = InPartsBefore[pos_part] + IF pos_pkt < 0 THEN 0 ELSE pos_pkt
      /\ Rank(Tell') = InPartsBefore[pos_part'] + IF pos_pkt' < 0 THEN 0 ELSE pos_pkt'
      /\ Owing = togo - IF pos_pkt < 0 THEN 1 ELSE 0
      /\ Owing' = togo' - IF pos_pkt' < 0 THEN 1 ELSE 0
  BY DEF Rank, Tell, Owing
<1>2. /\ InPartsBefore[pos_part] \in Nat /\ npkts[pos_part] \in Nat
      /\ -1 <= pos_pkt /\ (pos_pkt < npkts[pos_part] \/ pos_pkt = 0)
  BY CountType DEF PositionIsSound, InBounds
<1>3. CASE UNCHANGED vars
  BY <1>1, <1>3 DEF vars
<1>4. CASE BackInPart
  <2>1. /\ pos_pkt # 0 /\ pos_part' = pos_part /\ npkts' = npkts
        /\ pos_pkt' = pos_pkt - MinOf(pos_pkt, -togo) /\ togo' = togo + MinOf(pos_pkt, -togo)
    BY <1>4 DEF BackInPart, archive
  <2>2. CASE pos_pkt = -1
    <3>1. MinOf(pos_pkt, -togo) = -1
      BY <2>2 DEF MinOf
    <3>2. pos_pkt' = 0 /\ togo' = togo - 1
      BY <2>1, <2>2, <3>1
    <3> QED
      BY <1>1, <1>2, <2>1, <2>2, <3>2
  <2>3. CASE pos_pkt > 0
    <3> DEFINE s == MinOf(pos_pkt, -togo)
    <3>1. s \in Int /\ s > 0 /\ s <= pos_pkt
      BY <2>3 DEF MinOf
    <3> HIDE DEF s
    <3>2. pos_pkt' = pos_pkt - s /\ togo' = togo + s
      BY <2>1 DEF s
    <3>3. pos_pkt' \in 0 .. npkts[pos_part] - 1
      BY <1>2, <2>3, <3>1, <3>2
    <3>4. Tape!IsPosition(Tell')
      BY <2>1, <3>3 DEF Tape!IsPosition, Tape!Parts, Parts, Tell
    <3>5. Rank(Tell') + Owing' = Rank(Tell) + Owing
      BY <1>1, <1>2, <2>1, <2>3, <3>1, <3>2
    <3> QED
      BY <3>4, <3>5
  <2> QED
    BY <1>2, <2>1, <2>2, <2>3
<1>5. CASE BackAcross
  <2>1. pos_part \in Parts /\ pos_part # 0 /\ pos_part - 1 \in Parts
    BY <1>5, NbPartsAssumption DEF BackAcross, Parts
  <2>2. /\ InPartsBefore[pos_part] = InPartsBefore[pos_part - 1] + npkts[pos_part - 1]
        /\ InPartsBefore[pos_part - 1] \in Nat /\ npkts[pos_part - 1] \in Nat
    BY <2>1, CountIs, CountType
  <2>3. /\ pos_part' = pos_part - 1 /\ pos_pkt' = npkts[pos_part - 1] - 1 /\ pos_pkt = 0
        /\ togo' = togo + 1 /\ npkts' = npkts
    BY <1>5 DEF BackAcross, archive
  <2>4. Rank(Tell') + Owing' = Rank(Tell) + Owing
    BY <1>1, <2>2, <2>3
  <2>5. CASE npkts[pos_part - 1] = 0
    BY <2>3, <2>4, <2>5
  <2>6. CASE npkts[pos_part - 1] > 0
    <3>1. Tape!IsPosition(Tell')
      BY <2>1, <2>2, <2>3, <2>6 DEF Tape!IsPosition, Tape!Parts, Parts, Tell
    <3> QED
      BY <2>4, <3>1
  <2> QED
    BY <2>2, <2>5, <2>6
<1>6. CASE BackEnds
  BY <1>6 DEF BackEnds, Tell
<1>7. ~Idle /\ ~(togo > 0)
  BY DEF Idle
<1> QED
  BY <1>3, <1>4, <1>5, <1>6, <1>7
  DEF Next, Current, Advance, Retreat, RetreatInPart, RetreatToPart, RetreatFails, SeekTo, SeekBy,
      SeekStep, AheadInPart, AheadAcross, AheadEnds

\* seek(-n) from any position, whatever parts it crosses: every step of it moves as
\* many packets back as it takes off what is left, and its last one ends on a packet,
\* or at -1 of a part without packets, unless the archive starts there.
THEOREM BackSeekIsAlwaysExact == Spec => BackSeekIsExact
<1> DEFINE Exact ==
      togo < 0 =>
         \/ /\ Rank(Tell') + Owing' = Rank(Tell) + Owing
            /\ togo' = 0 => \/ Tape!IsPosition(Tell')
                            \/ npkts[pos_part'] = 0 /\ pos_pkt' = -1
         \/ Tell = <<0, 0>> /\ Tell' = Tell /\ togo' = 0
<1>1. TypeOK /\ PositionIsSound /\ [Next]_vars => [Exact]_vars
  BY BackStepsAreExact
<1> HIDE DEF Exact
<1>2. Spec => [][Exact]_vars
  BY <1>1, TypeCorrect, PositionStaysSound, PTL DEF Spec
<1> QED
  BY <1>2 DEF Exact, BackSeekIsExact
-----------------------------------------------------------------------------
(***************************************************************************)
(* Refinement: for a caller that reads before it steps forward, over parts *)
(* that are neither empty nor torn, the cursor implements PacketTape.      *)
(***************************************************************************)
CleanOnly == \A a \in Archives : a.torn = {} /\ \A p \in Parts : a.npkts[p] > 0

Clean ==
    /\ torn = {}
    /\ \A p \in Parts : npkts[p] > 0 /\ reader[p] # "spent"
    /\ 0 <= pos_pkt /\ pos_pkt < npkts[pos_part]
    /\ part = pos_part
    /\ togo > 0 => HasRead

TapeInv == TypeOK /\ PositionIsSound /\ Results /\ Clean

LEMMA InitTape == CleanOnly /\ Init => TapeInv /\ Tape!Init
<1> SUFFICES ASSUME CleanOnly, Init PROVE TapeInv /\ Tape!Init
  OBVIOUS
<1>1. TypeOK /\ PositionIsSound
  BY InitType, InitBounds
<1>2. Results
  BY DEF Init, Results, SeekingIsSilent, PacketIsFromPosition, Done
<1>3. Clean
  BY NbPartsAssumption DEF Init, Clean, CleanOnly, Parts
<1>4. Tape!Init
  BY DEF Init, Tape!Init, Tell, Returned, Done, NoPacket, Tape!NoPacket
<1> QED
  BY <1>1, <1>2, <1>3, <1>4 DEF TapeInv

\* In a clean archive no reader is ever spent ...
LiveReaders == [Parts -> {"closed", "open"}]

\* ... so a packet in range can always be read.
LEMMA CleanRead ==
    ASSUME TypeOK, Clean, NEW r \in LiveReaders,
           NEW p \in Parts, NEW i \in 0 .. npkts[p] - 1, ReadPacket(r, p, i)
    PROVE  reader' = r /\ out' = Got(<<p, i>>)
  BY DEF TypeOK, Clean, ReadPacket, Ends, Wrap, LiveReaders

LEMMA CleanReader == TypeOK /\ Clean => reader \in LiveReaders
  BY DEF TypeOK, Clean, LiveReaders

LEMMA CleanOpened ==
    ASSUME NEW r \in LiveReaders, NEW p \in Parts
    PROVE  Opened(r, p) \in LiveReaders /\ Opened(r, p)[p] # "closed"
  BY DEF Opened, LiveReaders

LEMMA CleanClosed ==
    ASSUME NEW r \in LiveReaders, NEW p \in Parts
    PROVE  Close(r, p) \in LiveReaders
  BY DEF Close, LiveReaders

LEMMA CleanOpenedFrom ==
    ASSUME reader \in LiveReaders, NEW p \in Parts
    PROVE  OpenedFrom(p) \in LiveReaders
  BY DEF OpenedFrom, LiveReaders

LEMMA CleanKept ==
    ASSUME TypeOK, Clean, UNCHANGED archive, reader' \in LiveReaders,
           0 <= pos_pkt', pos_pkt' < npkts[pos_part'], part' = pos_part',
           togo' > 0 => reader'[part'] # "closed"
    PROVE  Clean'
  BY DEF Clean, archive, LiveReaders, HasRead

LEMMA TapeCurrent ==
    ASSUME TapeInv, Current PROVE Clean' /\ Tape!Next
<1> USE DEF TapeInv
<1>1. pos_pkt \in 0 .. npkts[part] - 1 /\ part \in Parts
  BY DEF TypeOK, Clean
<1>2. reader' = Opened(reader, part) /\ out' = Got(<<part, pos_pkt>>) /\ reader' \in LiveReaders
  BY <1>1, CleanReader, CleanOpened, CleanRead DEF Current
<1>3. Clean'
  BY <1>1, <1>2, CleanKept DEF Current, Clean, Idle
<1>4. Tape!Read
  BY <1>2 DEF Current, Clean, Tape!Read, Tell, Returned, Got, archive
<1> QED
  BY <1>3, <1>4 DEF Tape!Next

LEMMA TapeAdvance ==
    ASSUME TapeInv, Advance, HasRead PROVE Clean' /\ Tape!Next
<1> USE DEF TapeInv
<1> DEFINE q == IF Crosses THEN pos_part + 1 ELSE part
           k == IF Crosses THEN 0 ELSE pos_pkt + 1
<1>1. q \in Parts /\ k \in Nat
  BY NbPartsAssumption DEF TypeOK, Clean, Crosses, Parts
<1>2. CASE k < npkts[q]
  <2>1. ReadPacket(Opened(reader, q), q, k) /\ k \in 0 .. npkts[q] - 1
    BY <1>1, <1>2 DEF Advance, TypeOK
  <2>2. reader' = Opened(reader, q) /\ out' = Got(<<q, k>>) /\ reader' \in LiveReaders
    BY <1>1, <2>1, CleanReader, CleanOpened, CleanRead
  <2>3. pos_part' = q /\ part' = q /\ pos_pkt' = k
    BY <1>2 DEF Advance, Clean
  <2>4. Clean'
    BY <1>1, <1>2, <2>2, <2>3, CleanKept DEF Advance, Idle
  <2>5. Tell' # Tell
    BY <1>1, <2>3, NbPartsAssumption DEF Tell, TypeOK, Parts, Clean, Crosses
  <2>6. Tape!IsPosition(Tell') /\ Tape!Adjacent(Tell, Tell')
    BY <2>5, AdvanceReachesSuccessor DEF Clean, TypeOK
  <2> QED
    BY <2>2, <2>3, <2>4, <2>6 DEF Advance, Tape!Next, Tape!Forward, Tell, Returned, Got, archive
<1>3. CASE ~(k < npkts[q])
  <2>1. reader' = Opened(reader, q) /\ out' = Stop /\ Tell' = Tell /\ part' = q
    BY <1>3 DEF Advance, Tell
  <2>2. ~Crosses
    BY <1>1, <1>3 DEF Clean
  <2>3. Clean'
    <3>1. reader' \in LiveReaders
      BY <1>1, <2>1, CleanReader, CleanOpened
    <3> QED
      BY <1>1, <2>1, <2>2, <3>1, CleanKept DEF Advance, Clean, Idle, Tell
  <2>4. Tape!IsLastPacket(Tell)
    <3>1. ~Tape!Adjacent(Tell, Tell)
      BY <2>1, <1>3, <2>2, NbPartsAssumption
      DEF Tape!Adjacent, Tape!Before, Tell, TypeOK, Parts
    <3> QED
      BY <2>1, <3>1, AdvanceReachesSuccessor DEF Clean, TypeOK
  <2> QED
    BY <2>1, <2>3, <2>4 DEF Advance, Tape!Next, Tape!Forward, Returned, Stop, Tape!EndOfTape, archive
<1> QED
  BY <1>2, <1>3

LEMMA TapeRetreat ==
    ASSUME TapeInv, Retreat PROVE Clean' /\ Tape!Next
<1> USE DEF TapeInv
<1>1. ASSUME Clean', out' = Got(Tell'), Tape!IsPosition(Tell'), Tape!Adjacent(Tell', Tell), npkts' = npkts
      PROVE  Clean' /\ Tape!Next
  BY <1>1 DEF Tape!Next, Tape!Back, Returned, Got
<1>2. CASE RetreatInPart
  <2>1. part \in Parts /\ pos_pkt - 1 \in 0 .. npkts[part] - 1
    BY <1>2 DEF RetreatInPart, TypeOK, Clean
  <2>2. reader' = Opened(reader, part) /\ out' = Got(<<part, pos_pkt - 1>>) /\ reader' \in LiveReaders
    BY <1>2, <2>1, CleanReader, CleanOpened, CleanRead DEF RetreatInPart
  <2>3. Clean'
    BY <1>2, <2>1, <2>2, CleanKept DEF RetreatInPart, Clean, Idle, TypeOK
  <2>4. Tell' # Tell
    BY <1>2 DEF RetreatInPart, Tell, TypeOK
  <2> QED
    BY <1>1, <1>2, <2>2, <2>3, <2>4, RetreatReachesPredecessor DEF RetreatInPart, Clean, Tell, archive
<1>3. ASSUME NEW q \in Parts, RetreatToPart(q) PROVE Clean' /\ Tape!Next
  <2>1. npkts[q] - 1 \in 0 .. npkts[q] - 1
    BY <1>3 DEF RetreatToPart, TypeOK
  <2>2. reader' = OpenedFrom(q) /\ out' = Got(<<q, npkts[q] - 1>>) /\ reader' \in LiveReaders
    <3>1. OpenedFrom(q) \in LiveReaders
      BY CleanReader, CleanOpenedFrom
    <3> QED
      BY <1>3, <2>1, <3>1, CleanRead DEF RetreatToPart
  <2>3. Clean'
    BY <1>3, <2>1, <2>2, CleanKept DEF RetreatToPart, Idle, TypeOK
  <2>4. Tell' # Tell
    BY <1>3 DEF RetreatToPart, Tell, TypeOK, Parts
  <2> QED
    BY <1>1, <1>3, <2>2, <2>3, <2>4, RetreatReachesPredecessor DEF RetreatToPart, Tell, archive
<1>4. CASE RetreatFails
  <2>1. pos_part = 0
    BY <1>4, NbPartsAssumption DEF RetreatFails, Clean, TypeOK, Parts
  <2>2. Clean'
    <3>1. reader' \in LiveReaders
      BY <1>4, <2>1, CleanReader, CleanOpenedFrom DEF RetreatFails, TypeOK
    <3> QED
      BY <1>4, <2>1, <3>1, CleanKept DEF RetreatFails, Clean, Idle, TypeOK
  <2>3. Tape!IsFirstPacket(Tell)
    BY <1>4 DEF RetreatFails, Tape!IsFirstPacket, Tape!Before, Tape!Parts, Parts, Tell, TypeOK, Clean
  <2> QED
    BY <1>4, <2>2, <2>3 DEF RetreatFails, Tape!Next, Tape!Back, Tell, Returned, Stop, Tape!EndOfTape, archive
<1> QED
  BY <1>2, <1>3, <1>4 DEF Retreat

LEMMA TapeGoTo ==
    ASSUME TapeInv, TypeOK', Clean', npkts' = npkts, out' \in {Done, IndexError}
    PROVE  Clean' /\ Tape!Next
  BY DEF Tape!Next, Tape!GoTo, Tape!IsPosition, Tape!Parts, Parts, Tell, Clean,
     TypeOK, Returned, Done, IndexError, NoPacket, Tape!NoPacket

LEMMA TapeSeek ==
    ASSUME TapeInv, NEW t \in Int \X Int, SeekTo(t)
    PROVE  Clean'
<1> DEFINE p == Wrap(t[1], NbParts)
           k == Wrap(t[2], npkts[p])
<1>1. npkts' = npkts /\ torn' = torn /\ togo' = togo /\ togo = 0 /\ out' \in {Done, IndexError}
  BY DEF SeekTo, archive, Idle
<1>2. ASSUME UNCHANGED <<pos_part, pos_pkt, part, reader>> PROVE Clean'
  BY <1>1, <1>2 DEF TapeInv, Clean, HasRead
<1>3. ASSUME p \in Parts, reader' = Opened(reader, p), UNCHANGED <<pos_part, pos_pkt, part>>
      PROVE  Clean'
  <2>1. reader' \in LiveReaders
    BY <1>3, CleanReader, CleanOpened DEF TapeInv
  <2> QED
    BY <1>1, <1>3, <2>1, CleanKept DEF TapeInv, Clean, archive
<1>4. ASSUME p \in Parts, k \in 0 .. npkts[p] - 1,
             pos_part' = p, pos_pkt' = k, part' = p,
             reader' \in {Close(Opened(reader, p), part), Opened(reader, p)}
      PROVE  Clean'
  <2>1. Opened(reader, p) \in LiveReaders
    BY <1>4, CleanReader, CleanOpened DEF TapeInv
  <2>2. reader' \in LiveReaders
    BY <1>4, <2>1, CleanClosed DEF TapeInv, TypeOK
  <2>3. 0 <= k /\ k < npkts[p]
    BY <1>4 DEF TapeInv, TypeOK
  <2> HIDE DEF p, k
  <2> QED
    BY <1>1, <1>4, <2>2, <2>3, CleanKept DEF TapeInv, archive
<1> QED
  BY <1>2, <1>3, <1>4 DEF SeekTo

LEMMA TapeStep == TapeInv /\ [ReadingNext]_vars => TapeInv' /\ [Tape!Next]_(Tape!vars)
<1> SUFFICES ASSUME TapeInv, [ReadingNext]_vars PROVE TapeInv' /\ [Tape!Next]_(Tape!vars)
  OBVIOUS
<1>1. [Next]_vars
  BY DEF ReadingNext, Next
<1>2. (TypeOK /\ PositionIsSound /\ Results)'
  BY <1>1, StepType, StepBounds, StepResults DEF TapeInv
<1> SUFFICES Clean' /\ [Tape!Next]_(Tape!vars)
  BY <1>2 DEF TapeInv
<1>3. CASE Current
  BY <1>3, TapeCurrent
<1>4. CASE HasRead /\ Advance
  BY <1>4, TapeAdvance
<1>5. CASE Retreat
  BY <1>5, TapeRetreat
<1>6. ASSUME NEW t \in Targets, SeekTo(t) PROVE Clean' /\ Tape!Next
  <2>1. Clean'
    BY <1>6, TapeSeek, TargetsAssumption
  <2> QED
    BY <1>2, <1>6, <2>1, TapeGoTo DEF SeekTo, archive
<1>7. ASSUME NEW n \in Offsets, HasRead /\ SeekBy(n) PROVE Clean' /\ Tape!Next
  <2>1. Clean'
    BY <1>7 DEF SeekBy, TapeInv, Clean, HasRead, archive
  <2> QED
    BY <1>2, <1>7, <2>1, TapeGoTo DEF SeekBy, archive
<1>8. CASE SeekStep
  <2> USE DEF TapeInv, TypeOK, Clean, archive
  <2>1. npkts' = npkts /\ out' = out /\ togo # 0
    BY <1>8 DEF SeekStep, BackInPart, BackAcross, BackEnds, AheadInPart, AheadAcross, AheadEnds
  <2>2. out' = Done
    BY <2>1 DEF Results, SeekingIsSilent
  <2>3. Clean'
    <3>0. reader \in LiveReaders
      BY CleanReader
    <3>1. CASE BackInPart
      BY <3>1 DEF BackInPart, MinOf, HasRead
    <3>2. CASE BackAcross
      <4>1. pos_part - 1 \in Parts
        BY <3>2, NbPartsAssumption DEF BackAcross, Parts
      <4> QED
        BY <3>0, <3>2, <4>1, CleanOpened, CleanKept DEF BackAcross
    <3>3. CASE BackEnds
      BY <3>3 DEF BackEnds, HasRead
    <3>4. CASE AheadInPart
      BY <3>4 DEF AheadInPart, MinOf, HasRead, Length
    <3>5. CASE AheadAcross
      <4>1. pos_part + 1 \in Parts
        BY <3>5, NbPartsAssumption DEF AheadAcross, Parts
      <4> QED
        BY <3>0, <3>5, <4>1, CleanOpened, CleanKept DEF AheadAcross
    <3>6. CASE AheadEnds
      BY <3>6 DEF AheadEnds, HasRead
    <3> QED
      BY <1>8, <3>1, <3>2, <3>3, <3>4, <3>5, <3>6 DEF SeekStep
  <2> QED
    BY <1>2, <2>1, <2>2, <2>3, TapeGoTo
<1>9. CASE UNCHANGED vars
  BY <1>9 DEF vars, TapeInv, Clean, HasRead, Tape!vars, Tell, Returned
<1> QED
  BY <1>3, <1>4, <1>5, <1>6, <1>7, <1>8, <1>9 DEF ReadingNext

\* Over parts that are neither empty nor torn, a caller that reads the current
\* packet before it steps forward cannot tell the parts from one tape.
THEOREM CursorImplementsTape == CleanOnly => (ReadingSpec => ImplementsTape)
<1>1. CleanOnly /\ Init => TapeInv /\ Tape!Init
  BY InitTape
<1>2. TapeInv /\ [ReadingNext]_vars => TapeInv' /\ [Tape!Next]_(Tape!vars)
  BY TapeStep
<1> SUFFICES ASSUME CleanOnly PROVE ReadingSpec => ImplementsTape
  OBVIOUS
<1>3. Init => TapeInv /\ Tape!Init
  BY <1>1
<1> QED
  BY <1>2, <1>3, PTL DEF ReadingSpec, ImplementsTape, Tape!Spec

-----------------------------------------------------------------------------
(***************************************************************************)
(* Loops over a cursor (CursorScan).  What a loop may rely on in the       *)
(* cursor: no relative seek is under way, so the position is never -1, and *)
(* where no part is torn no reader has ended.                              *)
(***************************************************************************)
NoneSpent == torn = {} => \A p \in Parts : reader[p] # "spent"

Cursor == TypeOK /\ PositionIsSound /\ Results /\ togo = 0 /\ 0 <= pos_pkt /\ NoneSpent

\* Where a cursor can stand, and so where a loop starts from.
Places == Parts \X Nat

LEMMA CursorPlace == (Cursor => Tell \in Places) /\ (Cursor' => Tell' \in Places)
  BY DEF Cursor, TypeOK, Tell, Places

LEMMA PlacesArePairs == Places \subseteq Int \X Int
  BY DEF Places, Parts

LEMMA ReadPacketSpends ==
    ASSUME torn = {}, NEW r, \A p \in Parts : r[p] # "spent", NEW p \in Parts, NEW i,
           ReadPacket(r, p, i)
    PROVE  reader' = r
  BY DEF ReadPacket, Ends

LEMMA OpenedSpends ==
    ASSUME NEW r \in [Parts -> Readers], \A p \in Parts : r[p] # "spent", NEW p \in Parts
    PROVE  /\ \A q \in Parts : Opened(r, p)[q] # "spent"
           /\ \A q \in Parts : Close(r, p)[q] # "spent"
  BY DEF Opened, Close, Readers

LEMMA InitCursor == Init => Cursor
<1>1. Init => TypeOK /\ PositionIsSound
  BY InitType, InitBounds
<1> QED
  BY <1>1 DEF Init, Cursor, Results, SeekingIsSilent, PacketIsFromPosition, Done, NoneSpent

LEMMA ReadKeeps == ASSUME Cursor, Current \/ Advance \/ Retreat PROVE Cursor'
<1> USE NbPartsAssumption DEF Cursor
<1>1. (TypeOK /\ PositionIsSound /\ Results)'
  BY StepType, StepBounds, StepResults DEF Next
<1>2. togo' = 0 /\ npkts' = npkts /\ torn' = torn
  BY DEF Current, Advance, Retreat, RetreatInPart, RetreatToPart, RetreatFails, archive
<1>3. 0 <= pos_pkt'
  <2> USE DEF TypeOK
  <2>1. CASE Current
    BY <2>1 DEF Current
  <2>2. CASE Advance
    BY <2>2 DEF Advance
  <2>3. CASE Retreat
    BY <2>3 DEF Retreat, RetreatInPart, RetreatToPart, RetreatFails
  <2> QED
    BY <2>1, <2>2, <2>3
<1>4. ASSUME torn = {} PROVE \A p \in Parts : reader'[p] # "spent"
  <2>0. reader \in [Parts -> Readers] /\ part \in Parts /\ \A p \in Parts : reader[p] # "spent"
    BY <1>4 DEF TypeOK, Readers, NoneSpent
  <2>1. CASE Current
    BY <1>4, <2>0, <2>1, OpenedSpends, ReadPacketSpends DEF Current
  <2>2. CASE Advance
    <3> DEFINE q == IF Crosses THEN pos_part + 1 ELSE part
               k == IF Crosses THEN 0 ELSE pos_pkt + 1
    <3>1. q \in Parts
      BY DEF TypeOK, Crosses, Parts
    <3>2. \A p \in Parts : Opened(reader, q)[p] # "spent"
      BY <2>0, <3>1, OpenedSpends
    <3>3. reader' = Opened(reader, q) \/ ReadPacket(Opened(reader, q), q, k)
      BY <2>2 DEF Advance
    <3> HIDE DEF q, k
    <3> QED
      BY <1>4, <3>1, <3>2, <3>3, ReadPacketSpends
  <2>3. CASE RetreatInPart
    BY <1>4, <2>0, <2>3, OpenedSpends, ReadPacketSpends DEF RetreatInPart
  <2>4. ASSUME NEW q \in Parts PROVE \A p \in Parts : OpenedFrom(q)[p] # "spent"
    BY <2>0 DEF OpenedFrom
  <2>5. ASSUME NEW q \in Parts, RetreatToPart(q) PROVE \A p \in Parts : reader'[p] # "spent"
    BY <1>4, <2>4, <2>5, ReadPacketSpends DEF RetreatToPart
  <2>6. CASE RetreatFails
    <3>1. 0 \in Parts
      BY DEF Parts
    <3> QED
      BY <2>4, <2>6, <3>1 DEF RetreatFails
  <2> QED
    BY <2>1, <2>2, <2>3, <2>5, <2>6 DEF Retreat
<1> QED
  BY <1>1, <1>2, <1>3, <1>4 DEF NoneSpent

LEMMA SeekKeeps == ASSUME Cursor, NEW t \in Int \X Int, SeekTo(t) PROVE Cursor'
<1> USE DEF Cursor
<1>1. (TypeOK /\ PositionIsSound /\ Results)'
  BY SeekType, SeekBounds, SeekResults
<1>2. togo' = 0 /\ npkts' = npkts /\ torn' = torn
  BY DEF SeekTo, archive
<1>3. 0 <= pos_pkt'
  BY DEF SeekTo, TypeOK
<1>4. ASSUME torn = {} PROVE \A p \in Parts : reader'[p] # "spent"
  <2> DEFINE q == Wrap(t[1], NbParts)
  <2>0. reader \in [Parts -> Readers] /\ part \in Parts /\ \A p \in Parts : reader[p] # "spent"
    BY <1>4 DEF TypeOK, Readers, NoneSpent
  <2>1. CASE q \in Parts
    <3>1. \A p \in Parts : Opened(reader, q)[p] # "spent"
      BY <2>0, <2>1, OpenedSpends
    <3>2. \A p \in Parts : Close(Opened(reader, q), part)[p] # "spent"
      BY <2>0, <2>1, <3>1, OpenedType, OpenedSpends
    <3>3. reader' \in {reader, Opened(reader, q), Close(Opened(reader, q), part)}
      BY DEF SeekTo
    <3> QED
      BY <2>0, <3>1, <3>2, <3>3
  <2>2. CASE q \notin Parts
    BY <2>0, <2>2 DEF SeekTo
  <2> QED
    BY <2>1, <2>2
<1> QED
  BY <1>1, <1>2, <1>3, <1>4 DEF NoneSpent

LEMMA StayKeeps == ASSUME Cursor, UNCHANGED vars PROVE Cursor'
<1>1. (TypeOK /\ PositionIsSound /\ Results)'
  BY StepType, StepBounds, StepResults DEF Cursor
<1> QED
  BY <1>1 DEF Cursor, NoneSpent, vars

\* A seek that does not raise to somewhere a cursor can stand goes there.
LEMMA SeekReaches ==
    ASSUME TypeOK, NEW t \in Places, SeekTo(t), out'.res = "done"
    PROVE  Tell' = t
<1>1. Wrap(t[1], NbParts) = t[1] /\ Wrap(t[2], npkts[t[1]]) = t[2] /\ t = <<t[1], t[2]>>
  BY NbPartsAssumption DEF Places, Parts, Wrap
<1>2. CASE t = Tell
  BY <1>2 DEF SeekTo, Tell
<1>3. CASE t # Tell
  BY <1>1, <1>3 DEF SeekTo, Tell, IndexError, Done
<1> QED
  BY <1>2, <1>3

-----------------------------------------------------------------------------
(***************************************************************************)
(* What the steps return to a loop.                                        *)
(***************************************************************************)
\* A packet is read from an open part, and leaves it open.
LEMMA ReadPacketOpen ==
    ASSUME NEW r, NEW p \in Parts, NEW i, ReadPacket(r, p, i), out'.res = "packet",
           r[p] # "closed"
    PROVE  reader'[p] # "closed"
  BY DEF ReadPacket, IndexError, Stop

LEMMA OpenedIsOpen ==
    ASSUME NEW r \in [Parts -> Readers], NEW p \in Parts
    PROVE  Opened(r, p)[p] # "closed"
  BY DEF Opened, Readers

\* A loop reads the packet at the position, and has then read from its part.
AtHand == part = pos_part /\ HasRead

LEMMA CurrentReads ==
    ASSUME Cursor, Current, out'.res = "packet"
    PROVE  out'.pkt = Tell /\ Tell' = Tell /\ AtHand'
<1> USE DEF Cursor, TypeOK
<1>1. out'.pkt = <<part, Wrap(pos_pkt, npkts[part])>> /\ Wrap(pos_pkt, npkts[part]) \in 0 .. npkts[part] - 1
  BY ReadPacketReturns DEF Current
<1>2. part = pos_part /\ Wrap(pos_pkt, npkts[part]) = pos_pkt
  BY <1>1 DEF PositionIsSound, StalePartIsEmpty, Wrap
<1>3. reader'[part] # "closed"
  BY OpenedIsOpen, ReadPacketOpen DEF Current, Readers
<1> QED
  BY <1>1, <1>2, <1>3 DEF Current, Tell, AtHand, HasRead

LEMMA AdvanceReads ==
    ASSUME Cursor, Advance, out'.res = "packet"
    PROVE  /\ out'.pkt = Tell' /\ AtHand'
           /\ AtHand => Tape!Adjacent(Tell, Tell')
<1> USE NbPartsAssumption DEF Cursor, TypeOK
<1> DEFINE q == IF Crosses THEN pos_part + 1 ELSE part
           k == IF Crosses THEN 0 ELSE pos_pkt + 1
<1>1. /\ k < npkts[q] /\ ReadPacket(Opened(reader, q), q, k)
      /\ pos_part' = (IF Crosses THEN q ELSE pos_part) /\ pos_pkt' = k /\ part' = q
      /\ npkts' = npkts
  BY DEF Advance, Stop, archive
<1>2. q \in Parts /\ k \in Nat
  BY DEF Crosses, Parts
<1>3. pos_part' = q
  BY <1>1, <1>2 DEF PositionIsSound, StalePartIsEmpty
<1>4. out'.pkt = Tell'
  <2>1. Cursor'
    BY ReadKeeps
  <2> QED
    BY <1>1, <1>2, <2>1 DEF Results, PacketIsFromPosition
<1>5. reader'[q] # "closed"
  <2> HIDE DEF q, k
  <2>1. Opened(reader, q)[q] # "closed"
    BY <1>2, OpenedIsOpen DEF Readers
  <2> QED
    BY <1>1, <1>2, <2>1, ReadPacketOpen
<1>6. ASSUME AtHand PROVE Tape!Adjacent(Tell, Tell')
  <2>1. Length(reader, part) = npkts[pos_part] /\ part = pos_part
    BY <1>6 DEF AtHand, HasRead, Length
  <2>2. CASE Crosses
    BY <1>1, <1>3, <2>1, <2>2
    DEF Crosses, Tell, Tape!Adjacent, Tape!Before, Tape!Parts, Parts
  <2>3. CASE ~Crosses
    BY <1>1, <1>3, <2>1, <2>3
    DEF Crosses, Tell, Tape!Adjacent, Tape!Before, Tape!Parts, Parts
  <2> QED
    BY <2>2, <2>3
<1> QED
  BY <1>1, <1>3, <1>4, <1>5, <1>6 DEF AtHand, HasRead

LEMMA RetreatReads ==
    ASSUME Cursor, Retreat, out'.res = "packet"
    PROVE  out'.pkt = Tell' /\ AtHand' /\ Tape!Adjacent(Tell', Tell)
<1> USE DEF Cursor, TypeOK
<1>1. Tape!Adjacent(Tell', Tell)
  BY RetreatReachesPredecessor DEF Stop
<1>2. out'.pkt = Tell'
  <2>1. Cursor'
    BY ReadKeeps
  <2> QED
    BY <2>1 DEF Results, PacketIsFromPosition
<1>3. CASE RetreatInPart
  <2>1. pos_pkt - 1 \in 0 .. npkts[part] - 1 /\ part = pos_part
    <3>1. ReadPacket(Opened(reader, part), part, pos_pkt - 1) /\ pos_pkt - 1 \in Nat
      BY <1>3 DEF RetreatInPart
    <3>2. Wrap(pos_pkt - 1, npkts[part]) = pos_pkt - 1
      BY <3>1 DEF Wrap
    <3>3. /\ out'.pkt = <<part, Wrap(pos_pkt - 1, npkts[part])>>
          /\ Wrap(pos_pkt - 1, npkts[part]) \in 0 .. npkts[part] - 1
      BY ONLY <3>1, TypeOK, out'.res = "packet", ReadPacketReturns DEF TypeOK
    <3> QED
      BY <3>2, <3>3 DEF PositionIsSound, StalePartIsEmpty
  <2>2. reader'[part] # "closed"
    BY <1>3, OpenedIsOpen, ReadPacketOpen DEF RetreatInPart, Readers
  <2> QED
    BY <1>1, <1>2, <1>3, <2>1, <2>2 DEF RetreatInPart, AtHand, HasRead
<1>4. ASSUME NEW q \in Parts, RetreatToPart(q) PROVE AtHand'
  <2>1. OpenedFrom(q)[q] # "closed"
    BY <1>4 DEF RetreatToPart, OpenedFrom, Parts
  <2>2. reader'[q] # "closed"
    BY <1>4, <2>1, ReadPacketOpen DEF RetreatToPart
  <2> QED
    BY <1>4, <2>2 DEF RetreatToPart, AtHand, HasRead
<1>5. CASE RetreatFails
  BY <1>5 DEF RetreatFails, Stop
<1> QED
  BY <1>1, <1>2, <1>3, <1>4, <1>5 DEF Retreat

\* A step reads: it never just returns, as a seek does.
LEMMA StepsRead == Current \/ Advance \/ Retreat => out' \in {IndexError, Stop} \/ out'.res = "packet"
  BY DEF Current, Advance, Retreat, RetreatInPart, RetreatToPart, RetreatFails, ReadPacket, Got

-----------------------------------------------------------------------------
(***************************************************************************)
(* The loops as programs: types of a job, and what each of its steps does. *)
(***************************************************************************)
Kinds == {"none", "iter", "search", "slice", "slice_by", "compute", "raised"}
Phases == {"ended", "restore", "resolve", "resolved", "unresolved", "compare",
           "first", "step", "span", "close"}

JobType ==
    [kind : Kinds, phase : Phases, dir : {"forward", "backward"}, from : Places,
     warm : BOOLEAN, stop : Int \X Int, incl : BOOLEAN, count : Int, left : Int,
     back : Places \cup {NoPacket}, saved : Places \cup {NoPacket},
     match : SUBSET (Int \X Int), found : BOOLEAN, spans : Seq(Int \X Int)]

\* A loop seeks to what it has remembered, and compute to spans it has.
LoopOK ==
    /\ Cursor
    /\ job \in JobType /\ seen \in Seq(Int \X Int)
    /\ job.phase = "span" => job.spans # <<>>
    /\ job.phase \in {"resolved", "unresolved"} => job.back \in Places
    /\ job.phase = "restore" => job.saved \in Places

LEMMA NoPlace == NoPacket \notin Places /\ NoPacket \in Int \X Int
  BY DEF NoPacket, Places

LEMMA NewJobType == ASSUME Cursor, NEW kind \in Kinds PROVE NewJob(kind) \in JobType
<1>1. Tell \in Places /\ NoPacket \in Int \X Int
  BY CursorPlace, NoPlace
<1>2. HasRead \in BOOLEAN
  BY DEF HasRead
<1>3. <<>> \in Seq(Int \X Int) /\ {} \in SUBSET (Int \X Int)
  OBVIOUS
<1> QED
  BY <1>1, <1>2, <1>3 DEF NewJob, JobType, Phases

\* All of a job but what says how far it is.
SameLoop(o, j) ==
    /\ o.dir = j.dir /\ o.from = j.from /\ o.warm = j.warm /\ o.stop = j.stop
    /\ o.incl = j.incl /\ o.count = j.count /\ o.left = j.left /\ o.back = j.back
    /\ o.saved = j.saved /\ o.match = j.match /\ o.found = j.found /\ o.spans = j.spans

Left(j) == IF j.saved = NoPacket THEN "ended" ELSE "restore"

LEMMA FinishDoes ==
    ASSUME NEW j \in JobType, NEW how \in {"raised", "returned"}
    PROVE  /\ Finish(j, how) \in JobType /\ SameLoop(Finish(j, how), j)
           /\ Finish(j, how).phase = Left(j)
           /\ Finish(j, how).kind = IF how = "raised" THEN "raised" ELSE j.kind
<1>1. "raised" \in Kinds /\ {"ended", "restore"} \subseteq Phases
  BY DEF Kinds, Phases
<1> QED
  BY <1>1 DEF Finish, JobType, SameLoop, Left

LEMMA SliceOverDoes ==
    ASSUME NEW j \in JobType
    PROVE  /\ SliceOver(j) \in JobType /\ SameLoop(SliceOver(j), j) /\ SliceOver(j).kind = j.kind
           /\ SliceOver(j).phase = IF j.kind # "compute" THEN Left(j)
                                   ELSE IF j.spans = <<>> THEN "close" ELSE "span"
<1>1. {"close", "span"} \subseteq Phases
  BY DEF Phases
<1>2. CASE j.kind = "compute"
  BY <1>1, <1>2 DEF SliceOver, JobType, SameLoop
<1>3. CASE j.kind # "compute"
  BY <1>3, FinishDoes DEF SliceOver
<1> QED
  BY <1>2, <1>3

\* A first packet is the one the loop stands on ...
LEMMA FirstDoes ==
    ASSUME LoopOK, First
    PROVE  \/ /\ out'.res = "packet" /\ Tell' = Tell /\ AtHand'
              /\ job' = [job EXCEPT !.phase = "step"] /\ seen' = Append(seen, Tell)
           \/ /\ out'.res # "packet"
              /\ job' \in {Finish(job, "raised"), SliceOver(job)} /\ seen' = seen
<1>1. CASE out'.res = "packet"
  <2>1. out'.pkt = Tell /\ Tell' = Tell /\ AtHand'
    BY <1>1, CurrentReads DEF First, LoopOK
  <2> QED
    BY <1>1, <2>1 DEF First
<1>2. CASE out'.res # "packet"
  BY <1>2 DEF First
<1> QED
  BY <1>1, <1>2

\* ... and a step of the loop reaches the packet next to it in its direction.
Reached ==
    /\ out'.res = "packet" /\ out'.pkt = Tell' /\ AtHand'
    /\ job.dir = "backward" => Tape!Adjacent(Tell', Tell)
    /\ job.dir = "forward" /\ AtHand => Tape!Adjacent(Tell, Tell')

LEMMA StepDoes ==
    ASSUME LoopOK, Step
    PROVE  \/ out' = Stop /\ job' = SliceOver(job) /\ seen' = seen
           \/ out' = IndexError /\ job' = Finish(job, "raised") /\ seen' = seen
           \/ /\ Reached /\ AtEnd
              /\ job' = SliceOver([job EXCEPT !.found = TRUE])
              /\ seen' = IF job.incl THEN Append(seen, Tell') ELSE seen
           \/ /\ Reached /\ ~AtEnd
              /\ job' = [job EXCEPT !.left = IF job.kind = "slice_by" THEN @ - 1 ELSE @]
              /\ seen' = IF job.kind = "search" THEN seen ELSE Append(seen, Tell')
<1>1. CASE out'.res = "packet"
  <2>1. job.dir \in {"forward", "backward"}
    BY DEF LoopOK, JobType
  <2>2. Reached
    BY <1>1, <2>1, AdvanceReads, RetreatReads DEF Step, Move, Reached, LoopOK
  <2>3. CASE AtEnd
    BY <1>1, <2>2, <2>3 DEF Step, Reached
  <2>4. CASE ~AtEnd
    BY <1>1, <2>2, <2>4 DEF Step, Reached
  <2> QED
    BY <2>3, <2>4
<1>2. CASE out' \in {IndexError, Stop}
  BY <1>2 DEF Step, IndexError, Stop
<1> QED
  BY <1>1, <1>2, StepsRead DEF Step, Move

\* The cursor of a loop is one: whatever a loop does, it is a step or a seek.
LEMMA StartKeeps ==
    ASSUME LoopOK, NEW j \in JobType, Start(j), j.phase \notin {"resolved", "unresolved", "restore"},
           j.phase = "span" => j.spans # <<>>
    PROVE  LoopOK'
<1>1. PICK saved \in {NoPacket, Tell} : job' = [j EXCEPT !.saved = saved]
  BY DEF Start
<1>2. saved \in Places \cup {NoPacket}
  BY <1>1, CursorPlace DEF LoopOK
<1>3. job' \in JobType /\ job'.phase = j.phase /\ job'.spans = j.spans
  BY <1>1, <1>2 DEF JobType
<1> QED
  BY <1>3, StayKeeps DEF Start, LoopOK

LEMMA InitLoop == ScanInit => LoopOK
<1> SUFFICES ASSUME ScanInit PROVE LoopOK
  OBVIOUS
<1>1. Cursor
  BY InitCursor DEF ScanInit
<1>2. NewJob("none") \in JobType /\ "ended" \in Phases
  BY <1>1, NewJobType DEF Kinds, Phases
<1>3. job \in JobType /\ job.phase = "ended"
  BY <1>2 DEF ScanInit, JobType
<1> QED
  BY <1>1, <1>3 DEF ScanInit, LoopOK

\* A job that is started: what the caller chose of it.
StartsLoop ==
    \/ StartIter
    \/ \E dir \in {"forward", "backward"}, m \in MatchSets : StartSearch(dir, m)
    \/ \E stop \in Stops, incl \in BOOLEAN : StartSliceTo(stop, incl)
    \/ \E n \in Counts, incl \in BOOLEAN : StartSliceBy(n, incl)
    \/ StartCompute

LEMMA StartsKeep == ASSUME LoopOK, StartsLoop PROVE LoopOK'
<1> USE DEF Kinds, Phases
<1>0. Cursor
  BY DEF LoopOK
<1>1. CASE StartIter
  <2> DEFINE j == [NewJob("iter") EXCEPT !.phase = "first"]
  <2>1. NewJob("iter") \in JobType
    BY <1>0, NewJobType
  <2>2. j \in JobType /\ j.phase = "first"
    BY <2>1 DEF JobType
  <2> HIDE DEF j
  <2>3. Start(j)
    BY <1>1 DEF StartIter, j
  <2> QED
    BY <2>2, <2>3, StartKeeps
<1>2. ASSUME NEW dir \in {"forward", "backward"}, NEW m \in MatchSets, StartSearch(dir, m)
      PROVE  LoopOK'
  <2> DEFINE j == [NewJob("search") EXCEPT !.dir = dir, !.match = m]
  <2>1. NewJob("search") \in JobType /\ NewJob("search").phase = "step"
    BY <1>0, NewJobType DEF NewJob
  <2>2. m \in SUBSET (Int \X Int)
    BY ScanAssumption
  <2>3. j \in JobType /\ j.phase = "step"
    BY <2>1, <2>2 DEF JobType
  <2> HIDE DEF j
  <2>4. Start(j)
    BY <1>2 DEF StartSearch, j
  <2> QED
    BY <2>3, <2>4, StartKeeps
<1>3. ASSUME NEW stop \in Stops, NEW incl \in BOOLEAN, StartSliceTo(stop, incl) PROVE LoopOK'
  <2> DEFINE ph == IF stop[2] = -1 THEN "resolve" ELSE "compare"
             j == [NewJob("slice") EXCEPT !.phase = ph, !.stop = stop, !.incl = incl]
  <2>1. NewJob("slice") \in JobType /\ stop \in Int \X Int
    BY <1>0, NewJobType, ScanAssumption
  <2>2. ph \in {"resolve", "compare"}
    OBVIOUS
  <2>3. Start(j)
    BY <1>3 DEF StartSliceTo
  <2> HIDE DEF ph
  <2>4. j \in JobType /\ j.phase = ph
    BY ZenonT(30), <2>1, <2>2 DEF JobType
  <2> HIDE DEF j
  <2> QED
    BY <2>2, <2>3, <2>4, StartKeeps
<1>4. ASSUME NEW n \in Counts, NEW incl \in BOOLEAN, StartSliceBy(n, incl) PROVE LoopOK'
  <2> DEFINE d == IF n < 0 THEN "backward" ELSE "forward"
             c == IF n < 0 THEN -n ELSE n
             j == [NewJob("slice_by") EXCEPT !.phase = "first", !.dir = d,
                     !.count = c, !.left = c, !.incl = incl]
  <2>1. NewJob("slice_by") \in JobType
    BY <1>0, NewJobType
  <2>2. d \in {"forward", "backward"} /\ c \in Int
    BY ScanAssumption
  <2>3. Start(j)
    BY <1>4 DEF StartSliceBy
  <2> HIDE DEF d, c
  <2>4. j \in JobType /\ j.phase = "first"
    BY ZenonT(30), <2>1, <2>2 DEF JobType
  <2> HIDE DEF j
  <2> QED
    BY <2>3, <2>4, StartKeeps
<1>5. CASE StartCompute
  <2> DEFINE sp == [i \in 1 .. NbParts - pos_part |->
                      <<pos_part + i - 1, IF i = 1 THEN pos_pkt ELSE 0>>]
             j == [NewJob("compute") EXCEPT !.phase = "span", !.spans = sp]
  <2>1. NewJob("compute") \in JobType
    BY <1>0, NewJobType
  <2>2. pos_part \in Parts /\ pos_pkt \in Int /\ NbParts - pos_part \in Nat \ {0}
    BY <1>0, NbPartsAssumption DEF Cursor, TypeOK, Parts
  <2>3. sp \in Seq(Int \X Int) /\ Len(sp) = NbParts - pos_part
    BY <2>2 DEF Parts
  <2>4. sp # <<>>
    BY <2>2, <2>3
  <2>5. Start(j)
    BY <1>5 DEF StartCompute
  <2> HIDE DEF sp
  <2>6. j \in JobType /\ j.phase = "span" /\ j.spans = sp
    BY <2>1, <2>3 DEF JobType
  <2> HIDE DEF j
  <2> QED
    BY <2>4, <2>5, <2>6, StartKeeps
<1> QED
  BY <1>1, <1>2, <1>3, <1>4, <1>5 DEF StartsLoop

\* The job that goes on is one whose position to restore, if any, is known.
LEMMA GoesOn ==
    ASSUME LoopOK, Cursor', seen' \in Seq(Int \X Int), NEW j \in JobType,
           j.saved = job.saved,
           job' = SliceOver(j) \/ job' = Finish(j, "raised") \/ job' = Finish(j, "returned")
    PROVE  LoopOK'
<1>1. /\ job' \in JobType /\ SameLoop(job', j)
      /\ job'.phase \in {Left(j), IF j.spans = <<>> THEN "close" ELSE "span"}
  BY SliceOverDoes, FinishDoes
<1>2. job'.saved = j.saved /\ job'.spans = j.spans /\ j.saved \in Places \cup {NoPacket}
  BY <1>1 DEF SameLoop, JobType
<1> QED
  BY <1>1, <1>2 DEF LoopOK, Left

\* A loop that its body's exception leaves stands where that was raised.
LEMMA BodyRaisesDoes ==
    ASSUME LoopOK, BodyRaises
    PROVE  /\ LoopOK' /\ UNCHANGED <<vars, seen>>
           /\ job'.kind = "raised" /\ job'.saved = job.saved
           /\ job'.phase = "ended" => job.saved = NoPacket
<1>1. job \in JobType /\ job' = Finish(job, "raised") /\ UNCHANGED <<vars, seen>>
  BY DEF BodyRaises, LoopOK
<1>2. SameLoop(job', job) /\ job'.kind = "raised" /\ job'.phase = Left(job)
  BY <1>1, FinishDoes
<1>3. Cursor' /\ seen' \in Seq(Int \X Int)
  BY <1>1, StayKeeps DEF LoopOK
<1>4. LoopOK'
  BY <1>1, <1>3, GoesOn
<1> QED
  BY <1>1, <1>2, <1>4 DEF SameLoop, Left

LEMMA JobKeeps == ASSUME LoopOK, JobStep PROVE LoopOK'
<1> USE DEF LoopOK
<1>0. job \in JobType
  OBVIOUS
<1>1. CASE Restore
  <2>1. Cursor'
    BY <1>1, SeekKeeps, PlacesArePairs DEF Restore
  <2>2. job' \in JobType /\ job'.phase = "ended"
    BY ZenonT(30), <1>1 DEF Restore, JobType, Kinds, Phases
  <2> QED
    BY <1>1, <2>1, <2>2 DEF Restore
<1>2. CASE Resolve
  <2>1. Cursor' /\ Tell \in Places /\ Tell' \in Places
    <3>1. job.stop \in Int \X Int
      BY DEF JobType
    <3> QED
      BY <1>2, <3>1, SeekKeeps, CursorPlace DEF Resolve
  <2>2. Tell' \in Int \X Int
    BY <2>1, PlacesArePairs
  <2>3. job' \in JobType /\ job'.back = Tell /\ job'.phase \in {"resolved", "unresolved"}
    BY <1>2, <2>1, <2>2 DEF Resolve, JobType, Phases
  <2> QED
    BY <1>2, <2>1, <2>3 DEF Resolve
<1>3. CASE Resolved
  <2>1. Cursor'
    BY <1>3, SeekKeeps, PlacesArePairs DEF Resolved
  <2>2. CASE job' = [job EXCEPT !.phase = "compare"]
    <3>1. job' \in JobType /\ job'.phase = "compare"
      BY <2>2 DEF JobType, Phases
    <3> QED
      BY <1>3, <2>1, <3>1 DEF Resolved
  <2>3. CASE job' = Finish(job, "raised")
    BY <1>3, <2>1, <2>3, GoesOn DEF Resolved
  <2> QED
    BY <1>3, <2>2, <2>3 DEF Resolved
<1>4. CASE Compare
  <2>1. Cursor'
    BY <1>4, StayKeeps DEF Compare
  <2>2. CASE job.stop = Tell
    BY <1>4, <2>1, <2>2, GoesOn DEF Compare
  <2>3. CASE job.stop # Tell
    <3>1. job' \in JobType /\ job'.phase = "first"
      BY ZenonT(30), <1>4, <2>3 DEF Compare, JobType, Phases
    <3> QED
      BY <1>4, <2>1, <3>1 DEF Compare
  <2> QED
    BY <2>2, <2>3
<1>5. CASE Span
  <2>1. job.spans # <<>> /\ job.spans \in Seq(Int \X Int)
    BY <1>5 DEF Span, JobType
  <2>2. Head(job.spans) \in Int \X Int /\ Tail(job.spans) \in Seq(Int \X Int)
    BY <2>1
  <2>3. Cursor'
    BY <1>5, <2>2, SeekKeeps DEF Span
  <2>4. CASE out'.res = "done"
    <3>1. <<Head(job.spans)[1], -1>> \in Int \X Int
      BY <2>2
    <3>2. job' = [job EXCEPT !.spans = Tail(job.spans), !.phase = "resolve",
                             !.stop = <<Head(job.spans)[1], -1>>]
      BY <1>5, <2>4 DEF Span
    <3>3. job' \in JobType /\ job'.phase = "resolve"
      BY <2>2, <3>1, <3>2 DEF JobType, Phases
    <3> QED
      BY <1>5, <2>3, <3>3 DEF Span
  <2>5. CASE out'.res # "done"
    BY <1>5, <2>3, <2>5, GoesOn DEF Span
  <2> QED
    BY <2>4, <2>5
<1>6. CASE CloseCompute
  <2>1. Cursor'
    <3>1. <<-1, -1>> \in Int \X Int
      OBVIOUS
    <3> QED
      BY <1>6, <3>1, SeekKeeps DEF CloseCompute
  <2> QED
    BY <1>6, <2>1, GoesOn DEF CloseCompute
<1>7. CASE First
  <2>1. Cursor' /\ Tell \in Int \X Int
    BY <1>7, ReadKeeps, CursorPlace, PlacesArePairs DEF First
  <2>2. CASE job' = [job EXCEPT !.phase = "step"] /\ seen' = Append(seen, Tell)
    <3>1. job' \in JobType /\ job'.phase = "step"
      BY <2>2 DEF JobType, Phases
    <3> QED
      BY <2>1, <2>2, <3>1
  <2>3. CASE job' \in {Finish(job, "raised"), SliceOver(job)} /\ seen' = seen
    BY <2>1, <2>3, GoesOn
  <2> QED
    BY <1>7, <2>2, <2>3, FirstDoes
<1>8. CASE Step
  <2>1. Cursor'
    BY <1>8, ReadKeeps DEF Step, Move
  <2>2. Tell' \in Int \X Int
    BY <2>1, CursorPlace, PlacesArePairs
  <2> DEFINE f == [job EXCEPT !.found = TRUE]
             l == [job EXCEPT !.left = IF job.kind = "slice_by" THEN @ - 1 ELSE @]
  <2>3. f \in JobType /\ f.saved = job.saved
    BY DEF JobType
  <2>4. l \in JobType /\ l.phase = job.phase
    <3>1. (IF job.kind = "slice_by" THEN job.left - 1 ELSE job.left) \in Int
      BY DEF JobType
    <3> QED
      BY <3>1 DEF JobType
  <2>5. CASE job' \in {SliceOver(job), Finish(job, "raised")} /\ seen' = seen
    BY <2>1, <2>5, GoesOn
  <2>6. CASE job' = SliceOver(f) /\ seen' = IF job.incl THEN Append(seen, Tell') ELSE seen
    <3>1. seen' \in Seq(Int \X Int)
      BY <2>2, <2>6
    <3> HIDE DEF f
    <3> QED
      BY <2>1, <2>3, <2>6, <3>1, GoesOn
  <2>7. CASE job' = l /\ seen' = IF job.kind = "search" THEN seen ELSE Append(seen, Tell')
    <3>1. seen' \in Seq(Int \X Int)
      BY <2>2, <2>7
    <3> HIDE DEF l
    <3> QED
      BY <1>8, <2>1, <2>7, <2>4, <3>1 DEF Step
  <2> QED
    BY <1>8, <2>5, <2>6, <2>7, StepDoes
<1> QED
  BY <1>1, <1>2, <1>3, <1>4, <1>5, <1>6, <1>7, <1>8 DEF JobStep

LEMMA BetweenKeeps == ASSUME LoopOK, Between PROVE LoopOK'
<1> USE DEF LoopOK
<1>1. Cursor'
  BY ReadKeeps, SeekKeeps, TargetsAssumption DEF Between
<1>2. NewJob("none") \in JobType /\ "ended" \in Phases
  BY NewJobType DEF Kinds, Phases
<1>3. job' \in JobType /\ job'.phase = "ended"
  BY <1>2 DEF Between, JobType
<1> QED
  BY <1>1, <1>3 DEF Between

LEMMA LoopStep == LoopOK /\ [ScanNext]_scanVars => LoopOK'
<1> SUFFICES ASSUME LoopOK, [ScanNext]_scanVars PROVE LoopOK'
  OBVIOUS
<1>1. CASE UNCHANGED scanVars
  <2>1. Cursor'
    BY <1>1, StayKeeps DEF LoopOK, scanVars, vars
  <2> QED
    BY <1>1, <2>1 DEF LoopOK, scanVars
<1>2. CASE StartsLoop
  BY <1>2, StartsKeep
<1>3. CASE JobStep
  BY <1>3, JobKeeps
<1>4. CASE Between
  BY <1>4, BetweenKeeps
<1>5. CASE BodyRaises
  BY <1>5, BodyRaisesDoes
<1> QED
  BY <1>1, <1>2, <1>3, <1>4, <1>5 DEF ScanNext, StartsLoop

\* A loop keeps its variables well typed, and the position in the archive: it seeks
\* only to where it has been, or to what it was given.
THEOREM ScanTypeCorrect == ScanSpec => [](ScanTypeOK /\ PositionIsSound)
<1>1. LoopOK => ScanTypeOK /\ PositionIsSound
  BY DEF LoopOK, Cursor, ScanTypeOK, JobType, Kinds, Phases
<1> QED
  BY <1>1, InitLoop, LoopStep, PTL DEF ScanSpec

\* How each loop starts.
LEMMA StartsDo ==
    ASSUME LoopOK, StartsLoop
    PROVE  /\ UNCHANGED vars /\ seen' = <<>>
           /\ job'.from = Tell /\ job'.warm = HasRead /\ job'.found = FALSE
           /\ job'.saved \in {NoPacket, Tell}
           /\ \/ job'.kind = "iter" /\ job'.phase = "first" /\ job'.dir = "forward"
              \/ job'.kind = "search" /\ job'.phase = "step"
              \/ job'.kind = "slice" /\ job'.phase \in {"resolve", "compare"}
              \/ job'.kind = "slice_by" /\ job'.phase = "first" /\ job'.left = job'.count
              \/ /\ job'.kind = "compute" /\ job'.phase = "span" /\ job'.dir = "forward"
                 /\ job'.spans = [i \in 1 .. NbParts - pos_part |->
                                    <<pos_part + i - 1, IF i = 1 THEN pos_pkt ELSE 0>>]
<1>1. CASE StartIter
  BY <1>1 DEF StartIter, Start, NewJob
<1>2. ASSUME NEW dir, NEW m, StartSearch(dir, m)
      PROVE  /\ UNCHANGED vars /\ seen' = <<>>
             /\ job'.from = Tell /\ job'.warm = HasRead /\ job'.found = FALSE
             /\ job'.saved \in {NoPacket, Tell}
             /\ job'.kind = "search" /\ job'.phase = "step"
  BY <1>2 DEF StartSearch, Start, NewJob
<1>3. ASSUME NEW stop, NEW incl, StartSliceTo(stop, incl)
      PROVE  /\ UNCHANGED vars /\ seen' = <<>>
             /\ job'.from = Tell /\ job'.warm = HasRead /\ job'.found = FALSE
             /\ job'.saved \in {NoPacket, Tell}
             /\ job'.kind = "slice" /\ job'.phase \in {"resolve", "compare"}
  BY <1>3 DEF StartSliceTo, Start, NewJob
<1>4. ASSUME NEW n, NEW incl, StartSliceBy(n, incl)
      PROVE  /\ UNCHANGED vars /\ seen' = <<>>
             /\ job'.from = Tell /\ job'.warm = HasRead /\ job'.found = FALSE
             /\ job'.saved \in {NoPacket, Tell}
             /\ job'.kind = "slice_by" /\ job'.phase = "first" /\ job'.left = job'.count
  BY <1>4 DEF StartSliceBy, Start, NewJob
<1>5. CASE StartCompute
  BY <1>5 DEF StartCompute, Start, NewJob
<1> QED
  BY <1>1, <1>2, <1>3, <1>4, <1>5 DEF StartsLoop

-----------------------------------------------------------------------------
(***************************************************************************)
(* Walks: iterations and slices.  They stand on the last packet handed     *)
(* out, in a part that is open, so that a step goes to the packet next to  *)
(* it; until they hand one out they stand where they started.              *)
(***************************************************************************)
Walks == {"iter", "slice", "slice_by"}

Walking ==
    job.kind \in Walks =>
       /\ job.phase \notin {"span", "close"}
       /\ job.phase \in {"resolve", "compare", "first"} => seen = <<>> /\ Tell = job.from
       /\ job.phase \in {"resolved", "unresolved"} => seen = <<>> /\ job.back = job.from
       /\ job.phase = "step" => seen # <<>> /\ seen[Len(seen)] = Tell /\ AtHand
       /\ WalkIsContiguous

LEMMA TapeStays == [ScanNext]_scanVars => npkts' = npkts /\ torn' = torn
<1> SUFFICES ASSUME [ScanNext]_scanVars PROVE npkts' = npkts /\ torn' = torn
  OBVIOUS
<1> USE DEF archive
<1>1. CASE UNCHANGED scanVars
  BY <1>1 DEF scanVars
<1>2. ASSUME Current \/ Advance \/ Retreat \/ \E t : SeekTo(t) PROVE npkts' = npkts /\ torn' = torn
  BY <1>2 DEF Current, Advance, Retreat, RetreatInPart, RetreatToPart, RetreatFails, SeekTo
<1>3. CASE StartsLoop
  BY <1>3 DEF StartsLoop, StartIter, StartSearch, StartSliceTo, StartSliceBy, StartCompute,
              Start, vars
<1>4. CASE JobStep
  BY <1>2, <1>4 DEF JobStep, Restore, Resolve, Resolved, Compare, Span, CloseCompute, First,
                    Step, Move, vars
<1>5. CASE Between
  BY <1>2, <1>5 DEF Between
<1>6. CASE BodyRaises
  BY <1>6 DEF BodyRaises, vars
<1> QED
  BY <1>1, <1>3, <1>4, <1>5, <1>6 DEF ScanNext, StartsLoop

LEMMA WalkStays ==
    ASSUME WalkIsContiguous, npkts' = npkts, seen' = seen, job'.kind = job.kind,
           job'.dir = job.dir, job'.from = job.from
    PROVE  WalkIsContiguous'
  BY DEF WalkIsContiguous, Tape!Adjacent, Tape!Before, Tape!Parts

\* The packet next to the last one handed out goes on with the walk.
LEMMA WalkGrows ==
    ASSUME WalkIsContiguous, job.kind \in Walks, seen \in Seq(Int \X Int), seen # <<>>,
           NEW p \in Int \X Int, seen' = Append(seen, p), npkts' = npkts,
           job'.dir = job.dir, job'.from = job.from,
           IF job.dir = "forward" THEN Tape!Adjacent(seen[Len(seen)], p)
                                  ELSE Tape!Adjacent(p, seen[Len(seen)])
    PROVE  WalkIsContiguous'
<1> SUFFICES /\ seen'[1] = job.from
             /\ \A i \in 1 .. Len(seen') - 1 :
                   IF job.dir = "forward" THEN Tape!Adjacent(seen'[i], seen'[i + 1])
                                          ELSE Tape!Adjacent(seen'[i + 1], seen'[i])
  BY Zenon DEF WalkIsContiguous, Tape!Adjacent, Tape!Parts
<1>1. Len(seen) \in Nat \ {0} /\ Len(seen') = Len(seen) + 1 /\ seen'[Len(seen) + 1] = p
      /\ \A i \in 1 .. Len(seen) : seen'[i] = seen[i]
  OBVIOUS
<1>2. seen'[1] = job.from
  BY <1>1 DEF WalkIsContiguous, Walks
<1>3. ASSUME NEW i \in 1 .. Len(seen') - 1
      PROVE  IF job.dir = "forward" THEN Tape!Adjacent(seen'[i], seen'[i + 1])
                                    ELSE Tape!Adjacent(seen'[i + 1], seen'[i])
  <2>1. CASE i = Len(seen)
    <3>1. seen'[i] = seen[Len(seen)] /\ seen'[i + 1] = p
      BY <1>1, <2>1
    <3> QED
      BY <3>1
  <2>2. CASE i # Len(seen)
    <3>1. i \in 1 .. Len(seen) - 1 /\ seen'[i] = seen[i] /\ seen'[i + 1] = seen[i + 1]
      BY <1>1, <1>3, <2>2
    <3> QED
      BY <3>1 DEF WalkIsContiguous, Walks
  <2> QED
    BY <2>1, <2>2
<1> QED
  BY <1>2, <1>3

LEMMA WalkBegins ==
    ASSUME seen = <<>>, seen' = Append(seen, job.from), job'.from = job.from
    PROVE  WalkIsContiguous'
<1>1. Len(seen') = 1 /\ seen'[1] = job.from
  OBVIOUS
<1>2. 1 .. Len(seen') - 1 = {}
  BY <1>1
<1> QED
  BY <1>1, <1>2 DEF WalkIsContiguous

LEMMA EmptyWalk == ASSUME seen' = <<>> PROVE WalkIsContiguous'
  BY DEF WalkIsContiguous

\* A job that leaves its loop, or its slice, hands out nothing more.
LEMMA WalkEnds ==
    ASSUME LoopOK, Walking, npkts' = npkts, seen' = seen, NEW j \in JobType,
           j.kind = job.kind, j.dir = job.dir, j.from = job.from,
           job' = SliceOver(j) \/ job' = Finish(j, "raised") \/ job' = Finish(j, "returned")
    PROVE  Walking'
<1>1. SameLoop(job', j) /\ job'.kind \in {"raised", j.kind}
  BY SliceOverDoes, FinishDoes
<1>2. j.kind # "compute" => job'.phase \in {"ended", "restore"}
  <2>1. Left(j) \in {"ended", "restore"}
    BY DEF Left
  <2> QED
    BY <2>1, SliceOverDoes, FinishDoes
<1>3. CASE job'.kind \in Walks
  <2>1. job'.kind = job.kind /\ job.kind \in Walks /\ job.kind # "compute"
    BY <1>1, <1>3 DEF Walks
  <2>2. WalkIsContiguous'
    BY <1>1, <2>1, WalkStays DEF Walking, SameLoop
  <2> QED
    BY <1>2, <2>1, <2>2 DEF Walking
<1> QED
  BY <1>3 DEF Walking

LEMMA WalkStep == LoopOK /\ Walking /\ [ScanNext]_scanVars => Walking'
<1> SUFFICES ASSUME LoopOK, Walking, [ScanNext]_scanVars PROVE Walking'
  OBVIOUS
<1>0. npkts' = npkts /\ LoopOK' /\ job \in JobType /\ job' \in JobType
  BY TapeStays, LoopStep DEF LoopOK
<1>1. CASE UNCHANGED scanVars
  <2>1. WalkIsContiguous => WalkIsContiguous'
    BY <1>1, WalkStays DEF scanVars
  <2> QED
    BY <1>1, <2>1 DEF scanVars, Walking, Tell, AtHand, HasRead
<1>2. CASE StartsLoop
  <2>1. Tell' = Tell
    BY <1>2, StartsDo DEF vars, Tell
  <2> QED
    BY <1>2, <2>1, StartsDo, EmptyWalk DEF Walking, Walks
<1>3. CASE Between
  BY <1>3 DEF Between, NewJob, Walking, Walks
<1>4. CASE Restore
  <2>1. /\ job'.kind \in {job.kind, "raised"} /\ job'.phase = "ended" /\ seen' = seen
        /\ job'.dir = job.dir /\ job'.from = job.from
    BY <1>0, <1>4 DEF Restore, JobType
  <2>2. CASE job'.kind \in Walks
    <3>1. job'.kind = job.kind
      BY <2>1, <2>2 DEF Walks
    <3> QED
      BY <1>0, <2>1, <2>2, <3>1, WalkStays DEF Walking
  <2> QED
    BY <2>2 DEF Walking
<1>5. CASE Resolve
  <2>1. /\ job'.kind = job.kind /\ job'.phase \in {"resolved", "unresolved"} /\ seen' = seen
        /\ job'.dir = job.dir /\ job'.from = job.from /\ job'.back = Tell
    BY <1>0, <1>5 DEF Resolve, JobType
  <2> QED
    BY <1>0, <1>5, <2>1, WalkStays DEF Walking, Resolve
<1>6. CASE Resolved
  <2>1. CASE job' = Finish(job, "raised")
    BY <1>0, <1>6, <2>1, WalkEnds DEF Resolved
  <2>2. CASE job' # Finish(job, "raised")
    <3>1. job' = [job EXCEPT !.phase = "compare"] /\ out'.res = "done" /\ SeekTo(job.back)
          /\ job.phase = "resolved"
      BY <1>6, <2>2 DEF Resolved
    <3>2. Tell' = job.back
      BY <3>1, SeekReaches DEF LoopOK, Cursor
    <3>3. /\ job'.kind = job.kind /\ job'.phase = "compare" /\ seen' = seen
          /\ job'.dir = job.dir /\ job'.from = job.from
      BY <1>0, <1>6, <3>1 DEF Resolved, JobType
    <3> QED
      BY <1>0, <3>1, <3>2, <3>3, WalkStays DEF Walking
  <2> QED
    BY <2>1, <2>2
<1>7. CASE Compare
  <2>1. CASE job' = SliceOver(job)
    BY <1>0, <1>7, <2>1, WalkEnds DEF Compare
  <2>2. CASE job' # SliceOver(job)
    <3>1. /\ job'.kind = job.kind /\ job'.phase = "first" /\ seen' = seen
          /\ job'.from = job.from /\ Tell' = Tell
      BY <1>0, <1>7, <2>2 DEF Compare, JobType, vars, Tell
    <3>2. job.kind \in Walks => seen = <<>> /\ Tell = job.from
      BY <1>7 DEF Walking, Compare
    <3> QED
      BY <3>1, <3>2, EmptyWalk DEF Walking
  <2> QED
    BY <2>1, <2>2
<1>8. CASE Span \/ CloseCompute
  <2>1. job.kind \notin Walks
    BY <1>8 DEF Walking, Span, CloseCompute
  <2>2. job'.kind \in {job.kind, "raised"}
    <3>1. CASE job' = Finish(job, "raised") \/ job' = Finish(job, "returned")
      BY <1>0, <3>1, FinishDoes
    <3>2. CASE job' = [job EXCEPT !.spans = Tail(@), !.phase = "resolve",
                                  !.stop = <<Head(job.spans)[1], -1>>]
      BY <1>0, <3>2 DEF JobType
    <3> QED
      BY <1>8, <3>1, <3>2 DEF Span, CloseCompute
  <2> QED
    BY <2>1, <2>2 DEF Walking, Walks
<1>9. CASE First
  <2>1. CASE job' \in {Finish(job, "raised"), SliceOver(job)} /\ seen' = seen
    BY <1>0, <2>1, WalkEnds
  <2>2. CASE /\ Tell' = Tell /\ AtHand'
             /\ job' = [job EXCEPT !.phase = "step"] /\ seen' = Append(seen, Tell)
    <3>1. /\ job'.kind = job.kind /\ job'.phase = "step" /\ job'.from = job.from
      BY <1>0, <2>2 DEF JobType
    <3>2. CASE job.kind \in Walks
      <4>1. seen = <<>> /\ Tell = job.from
        BY <1>9, <3>2 DEF Walking, First
      <4>2. seen' # <<>> /\ seen'[Len(seen')] = Tell
        BY <2>2, <4>1
      <4>3. WalkIsContiguous'
        BY <2>2, <3>1, <4>1, WalkBegins
      <4> QED
        BY <2>2, <3>1, <4>2, <4>3 DEF Walking
    <3> QED
      BY <3>1, <3>2 DEF Walking
  <2> QED
    BY <1>9, <2>1, <2>2, FirstDoes
<1>10. CASE Step
  <2> DEFINE f == [job EXCEPT !.found = TRUE]
  <2>1. f \in JobType /\ f.kind = job.kind /\ f.dir = job.dir /\ f.from = job.from
    BY <1>0 DEF JobType
  <2>2. CASE job' \in {SliceOver(job), Finish(job, "raised")} /\ seen' = seen
    BY <1>0, <2>2, WalkEnds
  <2>3. CASE job' = SliceOver(f) /\ seen' = seen
    <3> HIDE DEF f
    <3> QED
      BY <1>0, <2>1, <2>3, WalkEnds
  <2>4. ASSUME job.kind \in Walks, Reached, seen' = Append(seen, Tell'),
               job'.dir = job.dir, job'.from = job.from
        PROVE  WalkIsContiguous' /\ seen' # <<>> /\ seen'[Len(seen')] = Tell'
    <3>1. seen # <<>> /\ seen[Len(seen)] = Tell /\ AtHand /\ WalkIsContiguous
      BY <1>10, <2>4 DEF Walking, Step
    <3>2. seen \in Seq(Int \X Int) /\ Tell' \in Int \X Int /\ job.dir \in {"forward", "backward"}
      BY <1>0, CursorPlace, PlacesArePairs DEF LoopOK, JobType
    <3>3. IF job.dir = "forward" THEN Tape!Adjacent(seen[Len(seen)], Tell')
                                 ELSE Tape!Adjacent(Tell', seen[Len(seen)])
      BY <2>4, <3>1, <3>2 DEF Reached
    <3>4. WalkIsContiguous'
      BY <1>0, <2>4, <3>1, <3>2, <3>3, WalkGrows
    <3>5. seen' # <<>> /\ seen'[Len(seen')] = Tell'
      BY <2>4, <3>2
    <3> QED
      BY <3>4, <3>5
  <2>5. CASE Reached /\ job' = SliceOver(f) /\ seen' = Append(seen, Tell')
    <3>1. job'.kind = job.kind /\ job'.dir = job.dir /\ job'.from = job.from
      BY <2>1, <2>5, SliceOverDoes DEF SameLoop
    <3>2. job.kind # "compute" => job'.phase \in {"ended", "restore"}
      BY <2>1, <2>5, SliceOverDoes DEF Left
    <3> QED
      BY <2>4, <2>5, <3>1, <3>2 DEF Walking, Walks
  <2>6. CASE Reached /\ job' = [job EXCEPT !.left = IF job.kind = "slice_by" THEN @ - 1 ELSE @]
             /\ seen' = IF job.kind = "search" THEN seen ELSE Append(seen, Tell')
    <3>1. job'.kind = job.kind /\ job'.dir = job.dir /\ job'.from = job.from
          /\ job'.phase = "step"
      BY <1>0, <1>10, <2>6 DEF JobType, Step
    <3> QED
      BY <2>4, <2>6, <3>1 DEF Walking, Walks, Reached
  <2> QED
    BY <1>10, <2>2, <2>3, <2>5, <2>6, StepDoes
<1>11. CASE BodyRaises
  BY <1>11, BodyRaisesDoes DEF Walking, Walks
<1> QED
  BY <1>1, <1>2, <1>3, <1>4, <1>5, <1>6, <1>7, <1>8, <1>9, <1>10, <1>11
  DEF ScanNext, StartsLoop, JobStep

\* An iteration or a slice hands out neighbouring packets from the current one on: it
\* never skips or repeats one, at no part boundary, over empty and torn parts too.
THEOREM WalksAreContiguous == ScanSpec => []WalkIsContiguous
<1>1. ScanInit => Walking
  BY DEF ScanInit, NewJob, Walking, Walks
<1>2. Walking => WalkIsContiguous
  BY DEF Walking, WalkIsContiguous, Walks
<1> QED
  BY <1>1, <1>2, InitLoop, LoopStep, WalkStep, PTL DEF ScanSpec

-----------------------------------------------------------------------------
(***************************************************************************)
(* Over parts that all have packets and are not torn every place of the    *)
(* cursor is a packet, steps do not raise and a seek back arrives.         *)
(***************************************************************************)
LEMMA CleanCursor ==
    ASSUME Cursor, CleanArchive
    PROVE  Clean /\ TapeInv /\ Tell \in Packets /\ Tape!IsPosition(Tell)
<1>1. \A p \in Parts : npkts[p] \in Nat \ {0}
  BY DEF Cursor, TypeOK, CleanArchive
<1>2. part = pos_part
  BY <1>1 DEF Cursor, TypeOK, PositionIsSound, StalePartIsEmpty
<1>3. pos_part \in Parts /\ pos_pkt \in 0 .. npkts[pos_part] - 1
  BY <1>1 DEF Cursor, TypeOK, PositionIsSound, InBounds
<1> QED
  BY <1>1, <1>2, <1>3
  DEF Cursor, Clean, TapeInv, NoneSpent, CleanArchive, Packets, Tell, Tape!IsPosition, Tape!Parts, Parts

LEMMA PacketsArePlaces == TypeOK => Packets \subseteq Places
  BY DEF TypeOK, Packets, Places

\* The same as a step of the loops' state.
LEMMA CleanStays ==
    ASSUME npkts' = npkts, torn' = torn
    PROVE  (CleanArchive' <=> CleanArchive) /\ Packets' = Packets
  BY DEF CleanArchive, Packets

LEMMA SeekToPacket ==
    ASSUME TypeOK, NEW t \in Packets, SeekTo(t)
    PROVE  Tell' = t /\ out'.res = "done"
<1>1. t = <<t[1], t[2]>> /\ t[1] \in Parts /\ t[2] \in 0 .. npkts[t[1]] - 1 /\ t \in Places
  BY PacketsArePlaces DEF Packets
<1>2. Wrap(t[1], NbParts) = t[1] /\ Wrap(t[2], npkts[t[1]]) = t[2]
  BY <1>1, NbPartsAssumption DEF Parts, Wrap
<1>3. out'.res = "done"
  BY <1>1, <1>2 DEF SeekTo, Done
<1> QED
  BY <1>1, <1>3, SeekReaches

\* What a job is about stays to its end, and its end is in restoring(), if it began there.
LEMMA StepsKeepJob ==
    ASSUME LoopOK, JobStep
    PROVE  /\ job'.from = job.from /\ job'.saved = job.saved /\ job'.warm = job.warm
           /\ job'.match = job.match /\ job'.count = job.count
           /\ job'.kind \in {job.kind, "raised"}
           /\ job'.phase = "ended" => job.phase = "restore" \/ job.saved = NoPacket
<1>0. job \in JobType
  BY DEF LoopOK
<1>1. ASSUME NEW j \in JobType, SameLoop([j EXCEPT !.found = job.found], job), j.kind = job.kind,
             job' = SliceOver(j) \/ job' = Finish(j, "raised") \/ job' = Finish(j, "returned")
      PROVE  /\ job'.from = job.from /\ job'.saved = job.saved /\ job'.warm = job.warm
             /\ job'.match = job.match /\ job'.count = job.count
             /\ job'.kind \in {job.kind, "raised"}
             /\ job'.phase = "ended" => job.saved = NoPacket
  <2>1. SameLoop(job', j) /\ job'.kind \in {"raised", j.kind}
    BY <1>1, SliceOverDoes, FinishDoes
  <2>2. job'.phase = "ended" => Left(j) = "ended"
    BY <1>1, SliceOverDoes, FinishDoes
  <2>3. j.from = job.from /\ j.saved = job.saved /\ j.warm = job.warm /\ j.match = job.match
        /\ j.count = job.count
    BY <1>0, <1>1 DEF SameLoop, JobType
  <2> QED
    BY <1>1, <2>1, <2>2, <2>3 DEF SameLoop, Left
<1> DEFINE f == [job EXCEPT !.found = TRUE]
<1>2. f \in JobType /\ SameLoop([f EXCEPT !.found = job.found], job) /\ f.kind = job.kind
  BY <1>0 DEF JobType, SameLoop
<1>3. SameLoop([job EXCEPT !.found = job.found], job)
  BY <1>0 DEF JobType, SameLoop
<1>4. CASE job' \in {SliceOver(job), Finish(job, "raised"), Finish(job, "returned"), SliceOver(f)}
  <2>1. CASE job' = SliceOver(f)
    <3> HIDE DEF f
    <3> QED
      BY <1>1, <1>2, <2>1
  <2>2. CASE job' # SliceOver(f)
    BY <1>0, <1>1, <1>3, <1>4, <2>2
  <2> QED
    BY <2>1, <2>2
<1>5. CASE Restore
  BY <1>0, <1>5 DEF Restore, JobType
<1>6. CASE Resolve
  BY <1>0, <1>6 DEF Resolve, JobType
<1>7. CASE job' = [job EXCEPT !.phase = "compare"] \/ job' = [job EXCEPT !.phase = "step"]
  BY <1>0, <1>7 DEF JobType
<1>8. CASE Resolved
  BY <1>4, <1>7, <1>8 DEF Resolved
<1>9. CASE Compare
  BY <1>0, <1>4, <1>9 DEF Compare, JobType
<1>10. CASE Span
  BY <1>0, <1>4, <1>10 DEF Span, JobType
<1>11. CASE CloseCompute
  BY <1>4, <1>11 DEF CloseCompute
<1>12. CASE First
  BY <1>4, <1>7, <1>12, FirstDoes
<1>13. CASE Step
  <2>1. CASE job' = [job EXCEPT !.left = IF job.kind = "slice_by" THEN @ - 1 ELSE @]
    BY <1>0, <1>13, <2>1 DEF JobType, Step
  <2> QED
    BY <1>4, <1>13, <2>1, StepDoes
<1> QED
  BY <1>5, <1>6, <1>8, <1>9, <1>10, <1>11, <1>12, <1>13 DEF JobStep

\* The loops proper change neither their direction nor their end, and go on or are over.
LEMMA LoopLeads ==
    ASSUME LoopOK, First \/ Step
    PROVE  /\ job'.dir = job.dir /\ job'.stop = job.stop /\ job'.spans = job.spans
           /\ job'.phase \in {"step", Left(job), "close", "span"}
           /\ job.kind # "compute" => job'.phase \in {"step", "ended", "restore"}
<1> DEFINE f == [job EXCEPT !.found = TRUE]
<1>0. Left(job) \in {"ended", "restore"} /\ job \in JobType
  BY DEF Left, LoopOK
<1>1. f \in JobType /\ f.kind = job.kind /\ f.dir = job.dir /\ f.stop = job.stop
      /\ f.spans = job.spans /\ Left(f) = Left(job)
  BY <1>0 DEF JobType, Left
<1>2. CASE job' = SliceOver(job)
  BY <1>0, <1>2, SliceOverDoes DEF SameLoop
<1>3. CASE job' = Finish(job, "raised")
  BY <1>0, <1>3, FinishDoes DEF SameLoop
<1>4. CASE job' = SliceOver(f)
  <2> HIDE DEF f
  <2> QED
    BY <1>0, <1>1, <1>4, SliceOverDoes DEF SameLoop
<1>5. CASE job' = [job EXCEPT !.phase = "step"]
  BY <1>0, <1>5 DEF JobType
<1>6. CASE Step /\ job' = [job EXCEPT !.left = IF job.kind = "slice_by" THEN @ - 1 ELSE @]
  BY <1>0, <1>6 DEF JobType, Step
<1> QED
  BY <1>2, <1>3, <1>4, <1>5, <1>6, FirstDoes, StepDoes

-----------------------------------------------------------------------------
\* restoring(): a loop that is over has sought the packet it began on.
Restoring == Ended /\ job.saved \in Packets => Tell = job.saved

LEMMA RestoringStep == LoopOK /\ Restoring /\ [ScanNext]_scanVars => Restoring'
<1> SUFFICES ASSUME LoopOK, Restoring, [ScanNext]_scanVars, Ended', job'.saved \in Packets
             PROVE  Tell' = job'.saved
  BY TapeStays, CleanStays DEF Restoring
<1>0. NoPacket \notin Packets /\ job'.saved # NoPacket
  BY NoPlace, PacketsArePlaces DEF LoopOK, Cursor
<1>1. CASE UNCHANGED scanVars
  BY <1>1 DEF scanVars, Restoring, Ended, Tell
<1>2. CASE StartsLoop
  BY <1>2, StartsDo DEF Ended
<1>3. CASE JobStep /\ job.phase # "restore"
  BY <1>0, <1>3, StepsKeepJob DEF Ended
<1>4. CASE JobStep /\ job.phase = "restore"
  <2>1. Restore
    BY <1>4 DEF JobStep, Resolve, Resolved, Compare, Span, CloseCompute, First, Step
  <2>2. job'.saved = job.saved
    BY <1>4, StepsKeepJob
  <2> QED
    BY <2>1, <2>2, SeekToPacket DEF Restore, LoopOK, Cursor
<1>5. CASE Between
  BY <1>0, <1>5 DEF Between, NewJob
<1>6. CASE BodyRaises
  BY <1>0, <1>6, BodyRaisesDoes DEF Ended
<1> QED
  BY <1>1, <1>2, <1>3, <1>4, <1>5, <1>6 DEF ScanNext, StartsLoop

\* A loop in restoring() that began on a packet leaves the cursor on it, over empty and
\* torn parts too: however the loop is left, by an exception of its own or of the code it
\* runs, wherever that is, the seek back is the last thing to happen, and it arrives.
THEOREM RestoringAlwaysRestores == ScanSpec => []RestoringRestores
<1>1. ScanInit => Restoring
  <2> SUFFICES ASSUME ScanInit PROVE Restoring
    OBVIOUS
  <2>1. job.saved = NoPacket
    BY DEF ScanInit, NewJob
  <2>2. NoPacket \notin Packets
    BY InitLoop, NoPlace, PacketsArePlaces DEF LoopOK, Cursor
  <2> QED
    BY <2>1, <2>2 DEF Restoring
<1>2. Restoring => RestoringRestores
  BY DEF Restoring, RestoringRestores
<1> QED
  BY <1>1, <1>2, InitLoop, LoopStep, RestoringStep, PTL DEF ScanSpec

-----------------------------------------------------------------------------
(***************************************************************************)
(* Steps over such parts, in either direction: q is past p in direction d. *)
(***************************************************************************)
Past(d, p, q) == IF d = "forward" THEN Before(p, q) ELSE Before(q, p)

LEMMA PastOrders ==
    ASSUME NEW d, NEW p \in Int \X Int, NEW q \in Int \X Int, NEW r \in Int \X Int
    PROVE  /\ ~Past(d, p, p)
           /\ Past(d, p, q) => ~Past(d, q, p)
           /\ Past(d, p, q) /\ Past(d, q, r) => Past(d, p, r)
           /\ Past(d, p, q) \/ Past(d, q, p) \/ p = q
  BY DEF Past, Before, Tape!Before

LEMMA PastIsTotal ==
    ASSUME NEW d, NEW p \in Int \X Int, NEW q \in Int \X Int
    PROVE  ~Past(d, p, q) <=> p = q \/ Past(d, q, p)
  BY DEF Past, Before, Tape!Before

LEMMA CleanCurrent == ASSUME Cursor, CleanArchive, Current PROVE out'.res = "packet"
<1>1. TypeOK /\ Clean /\ part \in Parts /\ pos_pkt \in 0 .. npkts[part] - 1
  BY CleanCursor DEF Cursor, TypeOK, Clean
<1>2. Opened(reader, part) \in LiveReaders
  BY <1>1, CleanReader, CleanOpened
<1> QED
  BY <1>1, <1>2, CleanRead DEF Current, Got

LEMMA CleanFirst ==
    ASSUME LoopOK, CleanArchive, First
    PROVE  /\ Tell' = Tell /\ AtHand' /\ Tell \in Packets
           /\ job' = [job EXCEPT !.phase = "step"] /\ seen' = Append(seen, Tell)
<1>1. out'.res = "packet"
  BY CleanCurrent DEF First, LoopOK
<1> QED
  BY <1>1, FirstDoes, CleanCursor DEF LoopOK

LEMMA CleanAdvance ==
    ASSUME Cursor, CleanArchive, Advance, HasRead
    PROVE  \/ out'.res = "packet"
           \/ out' = Stop /\ Tell' = Tell /\ Tape!IsLastPacket(Tell)
<1>1. TypeOK /\ PositionIsSound /\ Clean /\ part = pos_part
  BY CleanCursor DEF Cursor, Clean
<1> DEFINE q == IF Crosses THEN pos_part + 1 ELSE part
           k == IF Crosses THEN 0 ELSE pos_pkt + 1
<1>2. q \in Parts /\ k \in Nat
  BY <1>1, NbPartsAssumption DEF TypeOK, Clean, Crosses, Parts
<1>3. CASE k < npkts[q]
  <2>1. ReadPacket(Opened(reader, q), q, k) /\ k \in 0 .. npkts[q] - 1
    BY <1>1, <1>2, <1>3 DEF Advance, TypeOK
  <2>2. Opened(reader, q) \in LiveReaders
    BY <1>1, <1>2, CleanReader, CleanOpened
  <2> HIDE DEF q, k
  <2> QED
    BY <1>1, <1>2, <2>1, <2>2, CleanRead DEF Got
<1>4. CASE ~(k < npkts[q])
  <2>1. out' = Stop /\ Tell' = Tell
    BY <1>4 DEF Advance, Tell
  <2>2. ~Tape!Adjacent(Tell, Tell)
    BY <1>1 DEF Tape!Adjacent, Tape!Before, Tell, TypeOK, Parts
  <2>3. pos_part + 1 \in Parts => npkts[pos_part + 1] > 0
    BY DEF CleanArchive
  <2> QED
    BY <1>1, <2>1, <2>2, <2>3, AdvanceReachesSuccessor
<1> QED
  BY <1>3, <1>4

LEMMA CleanRetreat ==
    ASSUME Cursor, CleanArchive, Retreat
    PROVE  \/ out'.res = "packet"
           \/ out' = Stop /\ Tell' = Tell /\ Tape!IsFirstPacket(Tell)
<1>1. TypeOK /\ PositionIsSound /\ Clean /\ part = pos_part /\ reader \in LiveReaders
  BY CleanCursor, CleanReader DEF Cursor, Clean
<1>2. CASE RetreatInPart
  <2>1. Opened(reader, part) \in LiveReaders
    BY <1>1, CleanOpened DEF TypeOK
  <2>2. part \in Parts /\ pos_pkt - 1 \in 0 .. npkts[part] - 1
    BY <1>1, <1>2 DEF RetreatInPart, TypeOK, Clean
  <2> QED
    BY <1>1, <1>2, <2>1, <2>2, CleanRead DEF RetreatInPart, Got
<1>3. ASSUME NEW q \in Parts, RetreatToPart(q) PROVE out'.res = "packet"
  <2>1. OpenedFrom(q) \in LiveReaders
    BY <1>1, CleanOpenedFrom
  <2>2. npkts[q] - 1 \in 0 .. npkts[q] - 1
    BY <1>1, <1>3 DEF RetreatToPart, TypeOK
  <2> QED
    BY <1>1, <1>3, <2>1, <2>2, CleanRead DEF RetreatToPart, Got
<1>4. CASE RetreatFails
  <2>1. Tape!IsFirstPacket(Tell) \/ Tape!Adjacent(Tell', Tell)
    BY <1>1, <1>4, RetreatReachesPredecessor DEF Retreat
  <2>2. out' = Stop /\ Tell' = Tell
    BY <1>4 DEF RetreatFails, Tell
  <2>3. ~Tape!Adjacent(Tell, Tell)
    BY <1>1 DEF Tape!Adjacent, Tape!Before, Tell, TypeOK, Parts
  <2> QED
    BY <2>1, <2>2, <2>3
<1> QED
  BY <1>2, <1>3, <1>4 DEF Retreat

\* The next packet in the direction of the loop.
Arrives ==
    /\ AtHand' /\ Tell' \in Packets /\ out'.pkt = Tell'
    /\ Past(job.dir, Tell, Tell')
    /\ \A m \in Packets : Past(job.dir, Tell, m) => m = Tell' \/ Past(job.dir, Tell', m)

LEMMA AdjacentIs ==
    ASSUME TypeOK, NEW p, NEW q, Tape!Adjacent(p, q)
    PROVE  Before(p, q) /\ \A m \in Packets : ~(Before(p, m) /\ Before(m, q))
  BY DEF TypeOK, Tape!Adjacent, Tape!Parts, Parts, Before, Packets

LEMMA OutmostIs ==
    ASSUME TypeOK, NEW p
    PROVE  /\ Tape!IsLastPacket(p) => \A m \in Packets : ~Before(p, m)
           /\ Tape!IsFirstPacket(p) => \A m \in Packets : ~Before(m, p)
  BY DEF TypeOK, Tape!IsLastPacket, Tape!IsFirstPacket, Tape!Parts, Parts, Before, Packets

LEMMA CleanStep ==
    ASSUME LoopOK, npkts' = npkts, torn' = torn, CleanArchive, Step, job.dir = "forward" => HasRead
    PROVE  \/ /\ Tell' = Tell /\ job' = SliceOver(job) /\ seen' = seen
              /\ \A m \in Packets : ~Past(job.dir, Tell, m)
           \/ /\ Arrives /\ AtEnd
              /\ job' = SliceOver([job EXCEPT !.found = TRUE])
              /\ seen' = IF job.incl THEN Append(seen, Tell') ELSE seen
           \/ /\ Arrives /\ ~AtEnd
              /\ job' = [job EXCEPT !.left = IF job.kind = "slice_by" THEN @ - 1 ELSE @]
              /\ seen' = IF job.kind = "search" THEN seen ELSE Append(seen, Tell')
<1>1. Cursor /\ TypeOK /\ job.dir \in {"forward", "backward"}
  BY DEF LoopOK, Cursor, JobType
<1>2. AtHand <=> HasRead
  BY <1>1, CleanCursor DEF AtHand, Clean
<1>3. CASE out'.res = "packet"
  <2>1. Reached
    BY <1>1, <1>3, AdvanceReads, RetreatReads DEF Step, Move, Reached
  <2>2. Tell' \in Packets
    <3>1. Cursor'
      BY <1>1, ReadKeeps DEF Step, Move
    <3>2. \A p \in Parts : npkts'[p] \in Nat \ {0}
      BY <3>1 DEF Cursor, TypeOK, CleanArchive
    <3> QED
      BY <3>1, <3>2 DEF Cursor, TypeOK, PositionIsSound, InBounds, Packets, Tell
  <2>3. Tell \in Int \X Int /\ Tell' \in Int \X Int /\ Packets \subseteq Int \X Int
    BY <1>1, <2>2, CursorPlace, PlacesArePairs, PacketsArePlaces
  <2>4. Past(job.dir, Tell, Tell') /\ \A m \in Packets : ~(Past(job.dir, Tell, m) /\ Past(job.dir, m, Tell'))
    BY <1>1, <1>2, <2>1, AdjacentIs DEF Reached, Past
  <2>5. Arrives
    BY <2>1, <2>2, <2>3, <2>4, PastOrders DEF Arrives, Reached
  <2> QED
    BY <1>3, <2>5, StepDoes DEF Stop, IndexError
<1>4. CASE out'.res # "packet"
  <2>1. out' = Stop /\ Tell' = Tell /\ \A m \in Packets : ~Past(job.dir, Tell, m)
    BY <1>1, <1>4, CleanAdvance, CleanRetreat, OutmostIs DEF Step, Move, Past
  <2> QED
    BY <1>4, <2>1, StepDoes DEF Stop, IndexError, Reached
<1> QED
  BY <1>3, <1>4

-----------------------------------------------------------------------------
(***************************************************************************)
(* search: no match lies between where it started and where it is.         *)
(***************************************************************************)
Matches == job.match \cap Packets

SearchGoes ==
    /\ job.phase = "step" =>
          /\ ~job.found /\ (job.dir = "forward" => HasRead)
          /\ Tell = job.from \/ Past(job.dir, job.from, Tell)
          /\ \A m \in Matches : Past(job.dir, job.from, m) => Past(job.dir, Tell, m)
    /\ job.phase # "step" /\ ~job.found =>
          \A m \in Matches : ~Past(job.dir, job.from, m)
    /\ Ended /\ job.found /\ job.saved = NoPacket =>
          /\ Tell \in Matches /\ Past(job.dir, job.from, Tell)
          /\ \A m \in Matches : ~(Past(job.dir, job.from, m) /\ Past(job.dir, m, Tell))

Searching ==
    job.kind = "search" =>
       /\ job.phase \in {"step", "ended", "restore"}
       /\ CleanArchive /\ (job.dir = "backward" \/ job.warm) => SearchGoes

LEMMA SearchSteps ==
    ASSUME LoopOK, LoopOK', npkts' = npkts, torn' = torn, Step, job.kind = "search",
           CleanArchive, job.dir = "backward" \/ job.warm, SearchGoes
    PROVE  SearchGoes'
<1>0. /\ job \in JobType /\ Packets' = Packets /\ Matches \subseteq Int \X Int
      /\ Tell \in Int \X Int /\ Tell' \in Int \X Int /\ job.from \in Int \X Int
  BY CleanStays, CursorPlace, PlacesArePairs DEF LoopOK, JobType, Matches
<1>1. /\ job.phase = "step" /\ ~job.found /\ (job.dir = "forward" => HasRead)
      /\ Tell = job.from \/ Past(job.dir, job.from, Tell)
      /\ \A m \in Matches : Past(job.dir, job.from, m) => Past(job.dir, Tell, m)
  BY DEF SearchGoes, Step
<1> DEFINE f == [job EXCEPT !.found = TRUE]
<1>2. f \in JobType /\ f.found = TRUE /\ f.saved = job.saved /\ f.dir = job.dir /\ f.from = job.from
      /\ f.match = job.match /\ f.kind = "search"
  BY <1>0 DEF JobType
<1>3. ASSUME Arrives
      PROVE  /\ Past(job.dir, job.from, Tell')
             /\ \A m \in Matches : Past(job.dir, job.from, m) => m = Tell' \/ Past(job.dir, Tell', m)
  BY <1>0, <1>1, <1>3, PastOrders DEF Arrives, Matches
<1>4. CASE job' = SliceOver(job) /\ \A m \in Packets : ~Past(job.dir, Tell, m)
  <2>1. SameLoop(job', job) /\ job'.phase \in {"ended", "restore"}
    BY <1>0, <1>4, SliceOverDoes DEF Left
  <2> QED
    BY <1>0, <1>1, <1>4, <2>1 DEF SearchGoes, SameLoop, Matches
<1>5. CASE Arrives /\ AtEnd /\ job' = SliceOver(f)
  <2>1. SameLoop(job', f) /\ job'.phase = Left(f)
    BY <1>2, <1>5, SliceOverDoes
  <2>2. job'.phase # "step" /\ job'.found /\ job'.match = job.match /\ job'.dir = job.dir
        /\ job'.from = job.from
    BY <1>2, <2>1 DEF SameLoop, Left
  <2>3. Tell' \in Matches
    BY <1>5 DEF Arrives, AtEnd, Matches
  <2>4. ASSUME NEW m \in Matches, Past(job.dir, job.from, m), Past(job.dir, m, Tell')
        PROVE  FALSE
    <3>1. m \in Int \X Int /\ (m = Tell' \/ Past(job.dir, Tell', m))
      BY <1>0, <1>3, <1>5, <2>4
    <3>2. ~Past(job.dir, Tell', Tell') /\ (Past(job.dir, m, Tell') => ~Past(job.dir, Tell', m))
      BY ONLY <1>0, <3>1, PastOrders
    <3> QED
      BY <2>4, <3>1, <3>2
  <2> QED
    BY <1>0, <1>3, <1>5, <2>2, <2>3, <2>4 DEF SearchGoes, Matches
<1>6. CASE Arrives /\ ~AtEnd /\ job' = [job EXCEPT !.left = IF job.kind = "slice_by" THEN @ - 1 ELSE @]
  <2>1. job'.phase = "step" /\ job'.found = job.found /\ job'.dir = job.dir /\ job'.from = job.from
        /\ job'.match = job.match
    BY <1>0, <1>1, <1>6 DEF JobType
  <2>2. Tell' \notin Matches
    BY <1>6 DEF Arrives, AtEnd, Matches
  <2>3. HasRead'
    BY <1>6 DEF Arrives, AtHand
  <2> QED
    BY <1>0, <1>1, <1>3, <1>6, <2>1, <2>2, <2>3 DEF SearchGoes, Matches, Ended
<1> QED
  BY <1>1, <1>4, <1>5, <1>6, CleanStep

LEMMA SearchStep == LoopOK /\ Searching /\ [ScanNext]_scanVars => Searching'
<1> SUFFICES ASSUME LoopOK, Searching, [ScanNext]_scanVars PROVE Searching'
  OBVIOUS
<1>0. /\ npkts' = npkts /\ torn' = torn /\ (CleanArchive' <=> CleanArchive) /\ Packets' = Packets
      /\ job \in JobType /\ LoopOK'
  BY TapeStays, CleanStays, LoopStep DEF LoopOK
<1>1. CASE UNCHANGED scanVars
  BY <1>0, <1>1 DEF scanVars, Searching, SearchGoes, Ended, Tell, Matches, HasRead
<1>2. CASE StartsLoop
  <2>1. Tell' = Tell /\ HasRead' = HasRead
    BY <1>2, StartsDo DEF vars, Tell, HasRead
  <2>2. LoopOK' => job'.dir \in {"forward", "backward"}
    BY DEF LoopOK, JobType
  <2>3. CASE job'.kind = "search"
    <3>1. job'.phase = "step" /\ ~job'.found /\ job'.from = Tell /\ job'.warm = HasRead
      BY <1>2, <2>3, StartsDo
    <3> QED
      BY <1>0, <2>1, <2>2, <3>1 DEF Searching, SearchGoes, Ended
  <2> QED
    BY <2>3 DEF Searching
<1>3. CASE Between
  BY <1>3 DEF Between, NewJob, Searching
<1>4. CASE JobStep /\ job'.kind = "search"
  <2>1. job.kind = "search"
    BY <1>4, StepsKeepJob
  <2>2. CASE Restore
    <3>1. job'.phase = "ended" /\ job'.dir = job.dir /\ job'.from = job.from /\ job'.found = job.found
          /\ job'.warm = job.warm /\ job'.match = job.match /\ job'.saved = job.saved
      BY <1>0, <2>2 DEF Restore, JobType
    <3>2. job.saved # NoPacket /\ job.phase = "restore"
      BY <2>2, NoPlace DEF Restore, LoopOK
    <3> QED
      BY <1>0, <2>1, <3>1, <3>2 DEF Searching, SearchGoes, Matches
  <2>3. CASE Step
    <3>1. job'.phase \in {"step", "ended", "restore"} /\ job'.dir = job.dir /\ job'.warm = job.warm
      BY <2>1, <2>3, LoopLeads, StepsKeepJob, <1>4
    <3> QED
      BY <1>0, <2>1, <2>3, <3>1, SearchSteps DEF Searching
  <2> QED
    BY <1>4, <2>1, <2>2, <2>3
    DEF JobStep, Searching, Resolve, Resolved, Compare, Span, CloseCompute, First
<1>5. CASE BodyRaises
  BY <1>5, BodyRaisesDoes DEF Searching
<1> QED
  BY <1>1, <1>2, <1>3, <1>4, <1>5 DEF ScanNext, StartsLoop, Searching

LEMMA SearchEnds == LoopOK /\ Searching => SearchFindsNearest
<1> SUFFICES ASSUME LoopOK, Searching, Over("search"), CleanArchive,
                    job.dir = "backward" \/ job.warm
             PROVE  IF job.found THEN job.saved = NoPacket => Nearest(Tell)
                                 ELSE \A m \in Packets : ~Nearest(m)
  BY DEF SearchFindsNearest
<1>1. SearchGoes /\ Ended /\ job.phase # "step"
  BY DEF Over, Searching, Ended
<1>2. /\ job.dir \in {"forward", "backward"} /\ job.from \in Int \X Int
      /\ Matches \subseteq Int \X Int
  BY PlacesArePairs DEF LoopOK, JobType, Matches
<1>3. ASSUME NEW p \in Matches, Past(job.dir, job.from, p),
             \A m \in Matches : ~(Past(job.dir, job.from, m) /\ Past(job.dir, m, p))
      PROVE  Nearest(p)
  <2>1. \A m \in Matches : ~(Past(job.dir, p, m) /\ Past(job.dir, m, job.from))
    BY <1>2, <1>3, PastOrders
  <2> QED
    BY <1>2, <1>3, <2>1 DEF Nearest, Past, Matches
<1>4. ASSUME NEW m \in Packets, Nearest(m) PROVE m \in Matches /\ Past(job.dir, job.from, m)
  BY <1>2, <1>4 DEF Nearest, Past, Matches
<1> QED
  BY <1>1, <1>3, <1>4 DEF SearchGoes

\* A search over parts that all have packets returns the nearest match in its direction, and
\* none only when there is none: backward always, forward from a part it had read from.
THEOREM SearchAlwaysFindsNearest == ScanSpec => []SearchFindsNearest
<1>1. ScanInit => Searching
  BY DEF ScanInit, NewJob, Searching
<1> QED
  BY <1>1, InitLoop, LoopStep, SearchStep, SearchEnds, PTL DEF ScanSpec

-----------------------------------------------------------------------------
(***************************************************************************)
(* What a walk has handed out: all packets from where it started to where  *)
(* it is.  A slice stands before its end until it is over.                 *)
(***************************************************************************)
Passed == { p \in Packets : ~Past(job.dir, p, job.from) /\ ~Past(job.dir, Tell, p) }

WalkGoes ==
    /\ job.from \in Packets
    /\ job.kind = "slice" /\ job.phase \in {"first", "step"} => Past(job.dir, Tell, job.stop)
    /\ job.kind = "slice_by" /\ job.phase = "first" => job.left = job.count
    /\ job.phase = "step" =>
          /\ Seen = Passed /\ ~Past(job.dir, Tell, job.from)
          /\ job.kind = "slice_by" => Len(seen) = job.count - job.left + 1
    /\ job.phase \notin {"ended", "restore"} => ~job.found

WalkDone ==
    /\ job.kind = "slice" /\ job.stop \in Packets \ {job.from} => Seen = SliceRange
    /\ job.kind = "slice_by" =>
          IF job.found THEN Len(seen) = job.count + (IF job.incl THEN 1 ELSE 0)
                       ELSE Seen = Ahead
    /\ job.kind = "iter" => Seen = Ahead

WalkedAll ==
    job.kind \in Walks =>
       /\ job.phase \in {"resolve", "resolved", "unresolved", "compare"} => job.kind = "slice"
       /\ CleanArchive => WalkGoes /\ (job.phase \in {"ended", "restore"} => WalkDone)

LEMMA SeenGrows ==
    ASSUME NEW p, seen' = Append(seen, p), seen \in Seq(Int \X Int), p \in Int \X Int
    PROVE  Seen' = Seen \cup {p} /\ Len(seen') = Len(seen) + 1
<1>1. /\ Len(seen) \in Nat /\ Len(seen') = Len(seen) + 1 /\ seen'[Len(seen) + 1] = p
      /\ DOMAIN seen = 1 .. Len(seen) /\ DOMAIN seen' = 1 .. Len(seen) + 1
      /\ \A i \in 1 .. Len(seen) : seen'[i] = seen[i]
  OBVIOUS
<1>2. DOMAIN seen' = DOMAIN seen \cup {Len(seen) + 1}
  BY <1>1
<1> QED
  BY <1>1, <1>2 DEF Seen

LEMMA WalkDoneStays ==
    ASSUME WalkDone, npkts' = npkts, seen' = seen, SameLoop(job', job), job'.kind = job.kind
    PROVE  WalkDone'
<1>1. Packets' = Packets /\ Seen' = Seen
  BY DEF Packets, Seen
<1>2. SliceRange' = SliceRange /\ Ahead' = Ahead
  BY <1>1 DEF SliceRange, Ahead, SameLoop, Before, Tape!Before
<1> QED
  BY <1>1, <1>2 DEF WalkDone, SameLoop

LEMMA AtEndIs ==
    /\ job.kind = "iter" => ~AtEnd
    /\ job.kind = "slice_by" => (AtEnd <=> job.left = 1)
    /\ job.kind \in {"slice", "compute"} => (AtEnd <=> ~Past(job.dir, Tell', job.stop))
  BY DEF AtEnd, Past

LEMMA WalkFirst ==
    ASSUME LoopOK, npkts' = npkts, torn' = torn, CleanArchive, Walking, job.kind \in Walks,
           WalkGoes, First
    PROVE  WalkGoes' /\ job'.phase = "step"
<1>1. /\ job \in JobType /\ Packets' = Packets /\ seen = <<>> /\ Tell = job.from
      /\ job.phase = "first" /\ Tell \in Int \X Int /\ Packets \subseteq Int \X Int
  BY CleanStays, CursorPlace, PlacesArePairs, PacketsArePlaces
  DEF LoopOK, Cursor, Walking, First
<1>2. Tell' = Tell /\ job' = [job EXCEPT !.phase = "step"] /\ seen' = Append(seen, Tell)
      /\ Tell \in Packets
  BY CleanFirst
<1>3. SameLoop(job', job) /\ job'.kind = job.kind /\ job'.phase = "step"
  BY <1>1, <1>2 DEF JobType, SameLoop
<1>4. Seen' = {Tell} /\ Len(seen') = 1
  <2>1. Seen = {} /\ Len(seen) = 0
    BY <1>1 DEF Seen
  <2> QED
    BY <1>1, <1>2, <2>1, SeenGrows
<1>5. { p \in Packets : ~Past(job.dir, p, Tell) /\ ~Past(job.dir, Tell, p) } = {Tell}
  <2>1. ASSUME NEW p \in Packets
        PROVE  ~Past(job.dir, p, Tell) /\ ~Past(job.dir, Tell, p) <=> p = Tell
    <3>1. p \in Int \X Int /\ Tell \in Int \X Int
      BY <1>1
    <3> QED
      BY ONLY <3>1, PastIsTotal, PastOrders
  <2> QED
    BY <1>2, <2>1
<1>6. Passed' = {Tell}
  <2>1. Passed' = { p \in Packets : ~Past(job.dir, p, Tell) /\ ~Past(job.dir, Tell, p) }
    BY <1>1, <1>2, <1>3 DEF Passed, SameLoop, Past, Before, Tape!Before
  <2> QED
    BY <1>5, <2>1
<1>7. ~Past(job.dir, Tell, Tell)
  BY <1>1, PastOrders
<1>8. (job.kind = "slice" => Past(job.dir, Tell, job.stop)) /\ ~job.found
      /\ (job.kind = "slice_by" => job.left = job.count) /\ job.count \in Int
  BY <1>1 DEF WalkGoes, JobType
<1> QED
  BY <1>1, <1>2, <1>3, <1>4, <1>6, <1>7, <1>8
  DEF WalkGoes, SameLoop, Past, Before, Tape!Before

LEMMA WalkSteps ==
    ASSUME LoopOK, LoopOK', npkts' = npkts, torn' = torn, CleanArchive, Walking, job.kind \in Walks,
           WalkGoes, Step
    PROVE  /\ WalkGoes' /\ job'.phase \in {"step", "ended", "restore"}
           /\ job'.phase \in {"ended", "restore"} => WalkDone'
<1> DEFINE d == job.dir
           f == [job EXCEPT !.found = TRUE]
<1>1. /\ job \in JobType /\ Packets' = Packets /\ Packets \subseteq Int \X Int
      /\ Tell \in Int \X Int /\ Tell' \in Int \X Int /\ job.from \in Int \X Int
      /\ job.from \in Packets /\ job.stop \in Int \X Int /\ seen \in Seq(Int \X Int)
  BY CleanStays, CursorPlace, PlacesArePairs, PacketsArePlaces DEF LoopOK, Cursor, WalkGoes, JobType
<1>2. /\ job.phase = "step" /\ Seen = Passed /\ ~Past(d, Tell, job.from) /\ ~job.found /\ HasRead
      /\ job.kind = "slice" => Past(d, Tell, job.stop)
      /\ job.kind = "slice_by" => Len(seen) = job.count - job.left + 1
  BY DEF WalkGoes, Step, Walking, AtHand
<1>3. f \in JobType /\ SameLoop([f EXCEPT !.found = job.found], job) /\ f.kind = job.kind /\ f.found
      /\ f.from = job.from /\ f.dir = job.dir /\ f.stop = job.stop /\ f.incl = job.incl
      /\ f.count = job.count
  BY <1>1 DEF JobType, SameLoop
<1>4. job.kind # "compute"
  BY DEF Walks
<1>5. ASSUME job' = SliceOver(job), seen' = seen, \A m \in Packets : ~Past(d, Tell, m)
      PROVE  WalkGoes' /\ job'.phase \in {"ended", "restore"} /\ WalkDone'
  <2>1. SameLoop(job', job) /\ job'.kind = job.kind /\ job'.phase \in {"ended", "restore"}
    BY <1>1, <1>4, <1>5, SliceOverDoes DEF Left
  <2>2. Passed = Ahead
    BY <1>5 DEF Passed, Ahead, Past
  <2>3. Seen' = Ahead'
    <3>1. Seen' = Seen
      BY <1>5 DEF Seen
    <3>2. Ahead' = Ahead
      BY <1>1, <2>1 DEF Ahead, SameLoop, Before, Tape!Before
    <3> QED
      BY <1>2, <2>2, <3>1, <3>2
  <2>4. job.kind = "slice" => job.stop \notin Packets
    BY <1>2, <1>5
  <2> QED
    BY <1>1, <1>2, <2>1, <2>3, <2>4 DEF WalkGoes, WalkDone, SameLoop
<1>6. ASSUME Arrives, AtEnd, job' = SliceOver(f), seen' = IF job.incl THEN Append(seen, Tell') ELSE seen
      PROVE  WalkGoes' /\ job'.phase \in {"ended", "restore"} /\ WalkDone'
  <2>1. SameLoop(job', f) /\ job'.kind = job.kind /\ job'.phase = Left(f)
    BY <1>3, <1>4, <1>6, SliceOverDoes
  <2>2. /\ job'.phase \in {"ended", "restore"} /\ job'.found /\ job'.from = job.from
        /\ job'.dir = job.dir /\ job'.stop = job.stop /\ job'.incl = job.incl /\ job'.count = job.count
    BY <1>3, <2>1 DEF SameLoop, Left
  <2> HIDE DEF f
  <2>3. Seen' = (IF job.incl THEN Seen \cup {Tell'} ELSE Seen)
        /\ Len(seen') = Len(seen) + (IF job.incl THEN 1 ELSE 0)
    <3>1. CASE job.incl
      BY <1>1, <1>6, <3>1, SeenGrows
    <3>2. CASE ~job.incl
      BY <1>1, <1>6, <3>2 DEF Seen
    <3> QED
      BY <3>1, <3>2
  <2>4. job.kind # "iter"
    BY <1>6, AtEndIs
  <2>5. CASE job.kind = "slice_by"
    <3>1. job.left = 1 /\ job.count \in Int
      BY <1>1, <1>6, <2>5, AtEndIs DEF JobType
    <3>2. Len(seen) = job.count
      BY <1>2, <2>5, <3>1
    <3>3. Len(seen') = job'.count + (IF job'.incl THEN 1 ELSE 0)
      BY <2>2, <2>3, <3>2
    <3> QED
      BY <1>1, <2>1, <2>2, <2>5, <3>3 DEF WalkGoes, WalkDone
  <2>6. CASE job.kind = "slice"
    <3>1. ASSUME job.stop \in Packets, job.stop # job.from PROVE Seen' = SliceRange'
      <4>1. Tell' = job.stop
        BY <1>2, <1>6, <2>6, <3>1, AtEndIs DEF Arrives
      <4>2. ASSUME NEW p \in Packets
            PROVE  p \in Passed <=> p = job.from \/ (Past(d, job.from, p) /\ Past(d, p, job.stop))
        <5>1. p \in Int \X Int
          BY <1>1
        <5>2. Past(d, Tell, p) => p = job.stop \/ Past(d, job.stop, p)
          BY <1>6, <4>1 DEF Arrives
        <5>3. Past(d, job.stop, p) => ~Past(d, p, job.stop)
          BY <1>1, <5>1, PastOrders
        <5>4. ~Past(d, job.stop, job.stop)
          BY <1>1, PastOrders
        <5>5. ~Past(d, Tell, p) => Past(d, p, job.stop)
          BY <1>1, <1>2, <2>6, <5>1, PastOrders
        <5>6. ~Past(d, Tell, p) <=> Past(d, p, job.stop)
          BY <5>2, <5>3, <5>4, <5>5
        <5>7. ~Past(d, p, job.from) <=> p = job.from \/ Past(d, job.from, p)
          BY ONLY <1>1, <5>1, PastIsTotal
        <5>8. Past(d, job.from, job.stop)
          BY <1>1, <1>2, <2>6, PastOrders
        <5> QED
          BY <5>6, <5>7, <5>8 DEF Passed
      <4>3. ASSUME NEW p \in Packets
            PROVE  p \in SliceRange <=>
                      \/ p = job.from \/ (p = job.stop /\ job.incl)
                      \/ Past(d, job.from, p) /\ Past(d, p, job.stop)
        <5>1. p \in Int \X Int /\ Past(d, job.from, job.stop)
          BY <1>1, <1>2, <2>6, PastOrders
        <5>2. ~(Past(d, job.stop, p) /\ Past(d, p, job.from))
          BY <1>1, <5>1, PastOrders
        <5> QED
          BY <5>2 DEF SliceRange, Past
      <4>4. SliceRange' = SliceRange
        BY <1>1, <2>2 DEF SliceRange, Before, Tape!Before
      <4>5. Seen' = (IF job.incl THEN Passed \cup {job.stop} ELSE Passed)
        BY <1>2, <2>3, <4>1
      <4>6. SliceRange = (IF job.incl THEN Passed \cup {job.stop} ELSE Passed)
        <5>1. SliceRange \subseteq Packets /\ Passed \subseteq Packets
          BY DEF SliceRange, Passed
        <5> QED
          BY <3>1, <4>2, <4>3, <5>1
      <4> QED
        BY <4>4, <4>5, <4>6
    <3> QED
      BY <1>1, <2>1, <2>2, <2>6, <3>1 DEF WalkGoes, WalkDone
  <2> QED
    BY <2>4, <2>5, <2>6 DEF Walks
<1>7. ASSUME Arrives, ~AtEnd,
             job' = [job EXCEPT !.left = IF job.kind = "slice_by" THEN @ - 1 ELSE @],
             seen' = IF job.kind = "search" THEN seen ELSE Append(seen, Tell')
      PROVE  WalkGoes' /\ job'.phase = "step"
  <2>1. /\ job'.kind = job.kind /\ job'.phase = "step" /\ job'.from = job.from /\ job'.dir = job.dir
        /\ job'.stop = job.stop /\ job'.count = job.count /\ job'.found = job.found
        /\ job'.left = (IF job.kind = "slice_by" THEN job.left - 1 ELSE job.left)
        /\ job.left \in Int /\ job.count \in Int
    BY <1>1, <1>2, <1>7 DEF JobType
  <2>2. Seen' = Seen \cup {Tell'} /\ Len(seen') = Len(seen) + 1
    BY <1>1, <1>7, SeenGrows DEF Walks
  <2>3. ~Past(d, Tell', job.from)
    BY <1>1, <1>2, <1>7, PastOrders DEF Arrives
  <2>4. Passed' = { p \in Packets : ~Past(d, p, job.from) /\ ~Past(d, Tell', p) }
    BY <1>1, <2>1 DEF Passed, Past, Before, Tape!Before
  <2>5. ASSUME NEW p \in Packets
        PROVE  ~Past(d, p, job.from) /\ ~Past(d, Tell', p) <=> p \in Passed \cup {Tell'}
    <3>1. p \in Int \X Int /\ Past(d, Tell, Tell')
      BY <1>1, <1>7 DEF Arrives
    <3>2. Past(d, Tell', p) => Past(d, Tell, p)
      BY <1>1, <3>1, PastOrders
    <3>3. Past(d, Tell, p) => p = Tell' \/ Past(d, Tell', p)
      BY <1>7 DEF Arrives
    <3>4. ~Past(d, Tell', Tell')
      BY <1>1, PastOrders
    <3>5. ~Past(d, Tell', p) <=> ~Past(d, Tell, p) \/ p = Tell'
      BY <3>2, <3>3, <3>4
    <3> QED
      BY <2>3, <3>5 DEF Passed
  <2>6. Passed' = Passed \cup {Tell'}
    <3>1. Passed \subseteq Packets /\ Tell' \in Packets
      BY <1>7 DEF Passed, Arrives
    <3> QED
      BY <2>4, <2>5, <3>1
  <2>7. job.kind = "slice" => Past(d, Tell', job.stop)
    BY <1>7, AtEndIs
  <2>8. job.kind = "slice_by" => Len(seen') = job.count - (job.left - 1) + 1
    BY SMTT(20), <1>1, <1>2, <2>1, <2>2
  <2> QED
    BY <1>1, <1>2, <2>1, <2>2, <2>3, <2>6, <2>7, <2>8 DEF WalkGoes, Past, Before, Tape!Before
<1> HIDE DEF f, d
<1> QED
  BY <1>2, <1>5, <1>6, <1>7, CleanStep DEF f, d

LEMMA CompleteStep == LoopOK /\ Walking /\ WalkedAll /\ [ScanNext]_scanVars => WalkedAll'
<1> SUFFICES ASSUME LoopOK, Walking, WalkedAll, [ScanNext]_scanVars PROVE WalkedAll'
  OBVIOUS
<1>0. /\ npkts' = npkts /\ torn' = torn /\ (CleanArchive' <=> CleanArchive) /\ Packets' = Packets
      /\ job \in JobType /\ LoopOK'
  BY TapeStays, CleanStays, LoopStep DEF LoopOK
<1>1. CASE UNCHANGED scanVars
  <2>1. SameLoop(job', job) /\ job'.kind = job.kind /\ Seen' = Seen
    BY <1>1 DEF scanVars, SameLoop, Seen
  <2>2. WalkDone => WalkDone'
    BY <1>0, <1>1, <2>1, WalkDoneStays DEF scanVars
  <2>3. Passed' = Passed
    BY <1>0, <1>1 DEF scanVars, Passed, Past, Before, Tape!Before, Tell
  <2>4. WalkGoes => WalkGoes'
    BY <1>0, <1>1, <2>1, <2>3 DEF scanVars, WalkGoes, Tell, Past, Before, Tape!Before
  <2> QED
    BY <1>0, <1>1, <2>2, <2>4 DEF scanVars, WalkedAll
<1>2. CASE StartsLoop
  <2>1. CleanArchive => Tell \in Packets
    BY CleanCursor DEF LoopOK
  <2> QED
    BY <1>0, <1>2, <2>1, StartsDo DEF WalkedAll, WalkGoes, Walks
<1>3. CASE Between
  BY <1>3 DEF Between, NewJob, WalkedAll, Walks
<1>4. ASSUME JobStep, job'.kind \in Walks PROVE WalkedAll'
  <2>1. job.kind = job'.kind /\ job.kind \in Walks /\ job'.from = job.from
    BY <1>4, StepsKeepJob DEF Walks
  <2>2. ASSUME SameLoop([job' EXCEPT !.dir = job.dir, !.stop = job.stop, !.incl = job.incl, !.back = job.back], job),
               job'.phase \in {"resolved", "unresolved", "compare"},
               job.phase \in {"resolve", "resolved", "unresolved"}
        PROVE  WalkedAll'
    <3>1. job'.found = job.found
      BY <1>0, <2>2 DEF SameLoop, LoopOK, JobType
    <3>2. job.kind = "slice"
      BY <2>1, <2>2 DEF WalkedAll
    <3> QED
      BY <1>0, <2>1, <2>2, <3>1, <3>2 DEF WalkedAll, WalkGoes
  <2>3. CASE Restore
    <3>1. SameLoop(job', job) /\ job'.phase = "ended" /\ seen' = seen /\ job.phase = "restore"
      BY <1>0, <2>3 DEF Restore, JobType, SameLoop
    <3>2. WalkDone => WalkDone'
      BY <1>0, <2>1, <3>1, WalkDoneStays
    <3> QED
      BY <1>0, <2>1, <3>1, <3>2 DEF WalkedAll, WalkGoes
  <2>4. CASE Resolve
    <3>1. SameLoop([job' EXCEPT !.dir = job.dir, !.stop = job.stop, !.incl = job.incl, !.back = job.back], job)
      BY <1>0, <2>4 DEF Resolve, JobType, SameLoop
    <3>2. job.phase = "resolve" /\ job'.phase \in {"resolved", "unresolved"}
      BY <1>0, <2>4 DEF Resolve, JobType
    <3> QED
      BY <2>2, <3>1, <3>2
  <2>5. CASE Resolved
    <3>1. job' = [job EXCEPT !.phase = "compare"]
      <4>1. job' # Finish(job, "raised")
        BY <1>0, <2>1, <1>4, FinishDoes DEF Walks
      <4> QED
        BY <2>5, <4>1 DEF Resolved
    <3>2. SameLoop([job' EXCEPT !.dir = job.dir, !.stop = job.stop, !.incl = job.incl, !.back = job.back], job)
          /\ job'.phase = "compare"
      BY <1>0, <3>1 DEF JobType, SameLoop
    <3> QED
      BY <2>2, <2>5, <3>2 DEF Resolved
  <2>6. CASE Compare
    <3>0. job.kind = "slice" /\ job.phase = "compare" /\ Tell' = Tell /\ seen' = seen /\ Tell = job.from
      BY <2>1, <2>6 DEF Compare, WalkedAll, Walking, vars, Tell
    <3>1. CASE job.stop = Tell
      <4>1. SameLoop(job', job) /\ job'.phase \in {"ended", "restore"}
        BY <1>0, <2>6, <3>0, <3>1, SliceOverDoes DEF Compare, Left
      <4> QED
        BY <1>0, <2>1, <3>0, <3>1, <4>1 DEF WalkedAll, WalkGoes, WalkDone, SameLoop
    <3>2. CASE job.stop # Tell
      <4>1. /\ job'.phase = "first" /\ job'.stop = job.stop /\ job'.found = job.found
            /\ job'.dir = IF Before(job.stop, Tell) THEN "backward" ELSE "forward"
        BY <1>0, <2>6, <3>2 DEF Compare, JobType
      <4>2. job.stop \in Int \X Int /\ Tell \in Int \X Int
        BY <1>0, CursorPlace, PlacesArePairs DEF LoopOK, JobType
      <4>3. Past(job'.dir, Tell, job.stop)
        BY <3>2, <4>1, <4>2 DEF Past, Before, Tape!Before
      <4>4. Past(job.dir, Tell, job.stop)' <=> Past(job'.dir, Tell, job.stop)
        BY <3>0, <4>1 DEF Past, Before, Tape!Before
      <4> QED
        BY <1>0, <2>1, <3>0, <4>1, <4>3, <4>4 DEF WalkedAll, WalkGoes
    <3> QED
      BY <3>1, <3>2
  <2>7. CASE Span \/ CloseCompute
    BY <2>1, <2>7 DEF Walking, Span, CloseCompute
  <2>8. CASE First
    <3>1. CASE CleanArchive
      <4>1. WalkGoes' /\ job'.phase = "step"
        BY <1>0, <2>1, <2>8, <3>1, WalkFirst DEF WalkedAll
      <4> QED
        BY <4>1 DEF WalkedAll
    <3>2. CASE ~CleanArchive
      BY <1>0, <2>1, <2>8, <3>2, LoopLeads DEF WalkedAll, Walks
    <3> QED
      BY <3>1, <3>2
  <2>9. CASE Step
    <3>1. CASE CleanArchive
      BY <1>0, <2>1, <2>9, <3>1, WalkSteps DEF WalkedAll, Step
    <3>2. CASE ~CleanArchive
      <4>1. job'.phase \in {"step", "ended", "restore"}
        BY <2>1, <2>9, LoopLeads DEF Walks
      <4> QED
        BY <1>0, <3>2, <4>1 DEF WalkedAll
    <3> QED
      BY <3>1, <3>2
  <2> QED
    BY <1>4, <2>3, <2>4, <2>5, <2>6, <2>7, <2>8, <2>9 DEF JobStep
<1>5. CASE BodyRaises
  BY <1>5, BodyRaisesDoes DEF WalkedAll, Walks
<1> QED
  BY <1>1, <1>2, <1>3, <1>4, <1>5 DEF ScanNext, StartsLoop, WalkedAll

\* Over parts that all have packets a slice to a position holds all packets up to it, with
\* it only when asked, a slice by a number as many as asked or as there are, and an
\* iteration all from the current one, whichever parts a seek had closed before.
THEOREM WalksAreComplete == ScanSpec => []WalkIsComplete
<1>1. ScanInit => Walking /\ WalkedAll
  BY DEF ScanInit, NewJob, Walking, WalkedAll, Walks
<1>2. WalkedAll => WalkIsComplete
  BY DEF WalkedAll, WalkDone, WalkIsComplete, Over, Ended, Walks
<1> QED
  BY <1>1, <1>2, InitLoop, LoopStep, WalkStep, CompleteStep, PTL DEF ScanSpec

-----------------------------------------------------------------------------
(***************************************************************************)
(* compute: the packets s folded so far, of a start f and parts of n       *)
(* packets, are those before t but for packets that are alone.             *)
(***************************************************************************)
Lone(f, n, p) == p[2] = n[p[1]] - 1 /\ (p = f \/ p[2] = 0)

Folded(s, f, n, t) ==
    /\ \A i \in 1 .. Len(s) - 1 : Before(s[i], s[i + 1])
    /\ \A i \in 1 .. Len(s) : ~Before(s[i], f) /\ Before(s[i], t)
    /\ \A k \in Parts : \A j \in 0 .. n[k] - 1 :
          ~Before(<<k, j>>, f) /\ Before(<<k, j>>, t) =>
             Lone(f, n, <<k, j>>) \/ \E i \in 1 .. Len(s) : s[i] = <<k, j>>

After(p) == <<p[1], p[2] + 1>>

LEMMA FoldGrows ==
    ASSUME NEW s \in Seq(Int \X Int), NEW f \in Int \X Int, NEW n \in [Parts -> Nat],
           NEW t \in Int \X Int, Folded(s, f, n, t), ~Before(t, f)
    PROVE  Folded(Append(s, t), f, n, After(t))
<1> DEFINE z == Append(s, t)
<1>1. Len(s) \in Nat /\ Len(z) = Len(s) + 1 /\ z[Len(s) + 1] = t /\ \A i \in 1 .. Len(s) : z[i] = s[i]
  OBVIOUS
<1>2. \A p \in Int \X Int : Before(p, After(t)) <=> Before(p, t) \/ p = t
  BY DEF Before, Tape!Before, After
<1>3. \A i \in 1 .. Len(s) : s[i] \in Int \X Int
  OBVIOUS
<1> HIDE DEF z
<1>4. ASSUME NEW i \in 1 .. Len(z) - 1 PROVE Before(z[i], z[i + 1])
  <2>0. i \in Int /\ 1 <= i /\ i <= Len(s)
    BY <1>1
  <2>1. CASE i = Len(s)
    <3>1. z[i] = s[i] /\ z[i + 1] = t /\ i \in 1 .. Len(s)
      BY <1>1, <2>0, <2>1
    <3> QED
      BY <3>1 DEF Folded
  <2>2. CASE i # Len(s)
    <3>1. i \in 1 .. Len(s) - 1 /\ i \in 1 .. Len(s) /\ i + 1 \in 1 .. Len(s)
      BY <1>1, <2>0, <2>2
    <3>2. z[i] = s[i] /\ z[i + 1] = s[i + 1]
      BY <1>1, <3>1
    <3> QED
      BY <3>1, <3>2 DEF Folded
  <2> QED
    BY <2>1, <2>2
<1>5. ASSUME NEW i \in 1 .. Len(z) PROVE ~Before(z[i], f) /\ Before(z[i], After(t))
  <2>1. CASE i = Len(s) + 1
    BY <1>1, <1>2, <2>1
  <2>2. CASE i # Len(s) + 1
    <3>1. i \in 1 .. Len(s) /\ z[i] = s[i]
      BY <1>1, <1>5, <2>2
    <3> QED
      BY <1>2, <1>3, <3>1 DEF Folded
  <2> QED
    BY <2>1, <2>2
<1>6. ASSUME NEW k \in Parts, NEW j \in 0 .. n[k] - 1, ~Before(<<k, j>>, f), Before(<<k, j>>, After(t))
      PROVE  Lone(f, n, <<k, j>>) \/ \E i \in 1 .. Len(z) : z[i] = <<k, j>>
  <2>1. <<k, j>> \in Int \X Int
    BY DEF Parts
  <2>2. CASE <<k, j>> = t
    <3>1. Len(s) + 1 \in 1 .. Len(z) /\ z[Len(s) + 1] = <<k, j>>
      BY <1>1, <2>2
    <3> QED
      BY <3>1
  <2>3. CASE <<k, j>> # t
    <3>1. Before(<<k, j>>, t)
      BY <1>2, <1>6, <2>1, <2>3
    <3>2. CASE Lone(f, n, <<k, j>>)
      BY <3>2
    <3>3. ASSUME NEW i \in 1 .. Len(s), s[i] = <<k, j>> PROVE i \in 1 .. Len(z) /\ z[i] = <<k, j>>
      BY <1>1, <3>3
    <3> QED
      BY <1>6, <3>1, <3>2, <3>3 DEF Folded
  <2> QED
    BY <2>2, <2>3
<1> QED
  BY <1>4, <1>5, <1>6 DEF Folded, z

LEMMA FoldSkips ==
    ASSUME NEW s \in Seq(Int \X Int), NEW f \in Int \X Int, NEW n \in [Parts -> Nat],
           NEW t \in Int \X Int, Folded(s, f, n, t), Lone(f, n, t)
    PROVE  Folded(s, f, n, After(t))
<1>1. \A p \in Int \X Int : Before(p, After(t)) <=> Before(p, t) \/ p = t
  BY DEF Before, Tape!Before, After
<1>2. \A i \in 1 .. Len(s) : s[i] \in Int \X Int
  OBVIOUS
<1>3. \A k \in Parts : \A j \in 0 .. n[k] - 1 : <<k, j>> \in Int \X Int
  BY DEF Parts
<1> QED
  BY <1>1, <1>2, <1>3 DEF Folded

\* Behind the last packet of a part comes the next part ...
LEMMA FoldLeavesPart ==
    ASSUME NEW s \in Seq(Int \X Int), NEW f \in Int \X Int, NEW n \in [Parts -> Nat],
           NEW k \in Parts, Folded(s, f, n, <<k, n[k]>>)
    PROVE  Folded(s, f, n, <<k + 1, 0>>)
<1>1. ASSUME NEW p \in Int \X Int, Before(p, <<k, n[k]>>) PROVE Before(p, <<k + 1, 0>>)
  <2>1. k \in Int /\ p[1] \in Int
    BY DEF Parts
  <2>2. p[1] <= k
    BY <1>1, <2>1 DEF Before, Tape!Before
  <2>3. p[1] < k + 1
    BY <2>1, <2>2
  <2> QED
    BY <2>3 DEF Before, Tape!Before
<1>2. \A i \in 1 .. Len(s) : s[i] \in Int \X Int
  OBVIOUS
<1>3. ASSUME NEW h \in Parts, NEW j \in 0 .. n[h] - 1, Before(<<h, j>>, <<k + 1, 0>>)
      PROVE  Before(<<h, j>>, <<k, n[k]>>)
  <2>0. n[h] \in Nat /\ j \in Int /\ 0 <= j /\ j < n[h]
    OBVIOUS
  <2>1. h \in Int /\ k \in Int /\ n[h] \in Nat /\ j \in Int /\ 0 <= j /\ j < n[h]
    BY <2>0, NbPartsAssumption DEF Parts
  <2>2. h < k + 1
    BY <1>3, <2>1 DEF Before, Tape!Before
  <2>3. h < k \/ h = k
    BY <2>1, <2>2
  <2> QED
    BY <2>1, <2>3 DEF Before, Tape!Before
<1> QED
  BY <1>1, <1>2, <1>3 DEF Folded

\* ... which is folded from its first packet on, or from where compute started.
SpanStart(f, k) == <<k, IF k = f[1] THEN f[2] ELSE 0>>

LEMMA FoldEntersPart ==
    ASSUME NEW s \in Seq(Int \X Int), NEW f \in Places, NEW n \in [Parts -> Nat],
           NEW k \in Int, Folded(s, f, n, <<k, 0>>)
    PROVE  Folded(s, f, n, SpanStart(f, k))
<1>0. f \in Int \X Int /\ 0 <= f[2] /\ f = <<f[1], f[2]>>
  BY DEF Places, Parts
<1>1. CASE k # f[1]
  BY <1>1 DEF SpanStart
<1>2. CASE k = f[1]
  <2>1. SpanStart(f, k) = f
    BY <1>0, <1>2 DEF SpanStart
  <2>2. \A p \in Int \X Int : Before(p, <<k, 0>>) => Before(p, f)
    BY <1>0, <1>2 DEF Before, Tape!Before
  <2>3. \A i \in 1 .. Len(s) : s[i] \in Int \X Int
    OBVIOUS
  <2> QED
    BY <2>1, <2>2, <2>3 DEF Folded
<1> QED
  BY <1>1, <1>2

LEMMA FoldBegins ==
    ASSUME NEW f \in Places, NEW n \in [Parts -> Nat]
    PROVE  Folded(<<>>, f, n, <<f[1], 0>>)
<1>1. f[1] \in Int /\ f[2] \in Int /\ 0 <= f[2]
  BY DEF Places, Parts
<1>2. \A k \in Parts : \A j \in 0 .. n[k] - 1 : ~(~Before(<<k, j>>, f) /\ Before(<<k, j>>, <<f[1], 0>>))
  BY <1>1 DEF Before, Tape!Before, Parts
<1>3. 1 .. Len(<<>>) = {} /\ 1 .. Len(<<>>) - 1 = {}
  OBVIOUS
<1> QED
  BY <1>2, <1>3 DEF Folded

\* compute folds span after span; all it has left to fold begin with part k.
Spans(f, k) == [i \in 1 .. NbParts - k |-> SpanStart(f, k + i - 1)]

\* The last packet of a part, where its span ends.
LastIn(n, k) == <<k, n[k] - 1>>

\* In a loop j at t, part k is the next one: from the seek to its first packet on a span
\* is of part k - 1, and has its end from when that is resolved on.
FoldGoes(j, s, t, n, k) ==
    /\ j.phase = "span" => Folded(s, j.from, n, <<k, 0>>)
    /\ j.phase \in {"close", "restore", "ended"} => Folded(s, j.from, n, <<NbParts, 0>>)
    /\ j.phase \in {"resolve", "resolved", "compare", "first", "step"} => j.from[1] < k
    /\ j.phase \in {"resolve", "resolved", "compare", "first"} =>
          Folded(s, j.from, n, SpanStart(j.from, k - 1))
    /\ j.phase \in {"resolve", "compare", "first"} => t = SpanStart(j.from, k - 1)
    /\ j.phase = "resolve" => j.stop = <<k - 1, -1>>
    /\ j.phase = "resolved" => j.back = SpanStart(j.from, k - 1)
    /\ j.phase \in {"resolved", "compare", "first", "step"} => j.incl /\ j.stop = LastIn(n, k - 1)
    /\ j.phase \in {"first", "step"} => j.dir = "forward" /\ t # j.stop
    /\ j.phase = "step" => t[1] = k - 1 /\ ~Before(t, j.from) /\ Folded(s, j.from, n, After(t))
    /\ j.phase # "unresolved"

Folding ==
    job.kind = "compute" /\ CleanArchive =>
       /\ job.from \in Packets
       /\ job.phase = "step" => AtHand
       /\ \E k \in job.from[1] .. NbParts :
             job.spans = Spans(job.from, k) /\ FoldGoes(job, seen, Tell, npkts, k)

LEMMA SeqIsFunction == ASSUME NEW S, NEW s \in Seq(S) PROVE s \in [1 .. Len(s) -> S]
  OBVIOUS

LEMMA SpansAre ==
    ASSUME NEW f \in Places, NEW k \in f[1] .. NbParts
    PROVE  /\ Spans(f, k) = <<>> <=> k = NbParts
           /\ k < NbParts => Head(Spans(f, k)) = SpanStart(f, k) /\ Tail(Spans(f, k)) = Spans(f, k + 1)
<1>1. f[1] \in Parts /\ f[2] \in Int /\ NbParts \in Nat /\ k \in Int /\ NbParts - k \in Nat
  BY NbPartsAssumption DEF Places, Parts
<1>2. Spans(f, k) \in Seq(Int \X Int) /\ Len(Spans(f, k)) = NbParts - k
  BY <1>1 DEF Spans, SpanStart
<1>3. ASSUME k < NbParts
      PROVE  Head(Spans(f, k)) = SpanStart(f, k) /\ Tail(Spans(f, k)) = Spans(f, k + 1)
  <2>1. Spans(f, k) # <<>> /\ 1 \in 1 .. NbParts - k
    BY <1>1, <1>2, <1>3
  <2>2. Spans(f, k)[1] = SpanStart(f, k)
    BY <1>1, <2>1 DEF Spans
  <2>3. /\ Tail(Spans(f, k)) \in Seq(Int \X Int) /\ Len(Tail(Spans(f, k))) = NbParts - k - 1
        /\ \A i \in 1 .. NbParts - k - 1 : Tail(Spans(f, k))[i] = Spans(f, k)[i + 1]
    BY <1>1, <1>2, <2>1
  <2>4. ASSUME NEW i \in 1 .. NbParts - k - 1
        PROVE  Spans(f, k)[i + 1] = SpanStart(f, (k + 1) + i - 1)
    <3>1. i + 1 \in 1 .. NbParts - k /\ k + (i + 1) - 1 = (k + 1) + i - 1
      BY <1>1
    <3> QED
      BY <3>1 DEF Spans
  <2>5. Tail(Spans(f, k)) = [i \in 1 .. NbParts - k - 1 |-> Tail(Spans(f, k))[i]]
    <3>1. Tail(Spans(f, k)) \in [1 .. NbParts - k - 1 -> Int \X Int]
      BY <2>3, SeqIsFunction
    <3> QED
      BY <3>1
  <2>6. Tail(Spans(f, k)) = [i \in 1 .. NbParts - k - 1 |-> SpanStart(f, (k + 1) + i - 1)]
    BY <2>3, <2>4, <2>5
  <2>7. NbParts - k - 1 = NbParts - (k + 1)
    BY <1>1
  <2>8. Tail(Spans(f, k)) = Spans(f, k + 1)
    BY <2>6, <2>7 DEF Spans
  <2> QED
    BY <1>2, <2>1, <2>2, <2>8
<1> QED
  BY <1>1, <1>2, <1>3

\* The packets a span begins and ends with.
LEMMA SpanIsOfPackets ==
    ASSUME TypeOK, CleanArchive, NEW f \in Packets, NEW k \in Int, f[1] <= k, k < NbParts
    PROVE  /\ SpanStart(f, k) \in Packets /\ LastIn(npkts, k) \in Packets
           /\ SpanStart(f, k)[2] <= LastIn(npkts, k)[2] /\ ~Before(SpanStart(f, k), f)
<1>1. f = <<f[1], f[2]>> /\ f[1] \in Parts /\ f[2] \in 0 .. npkts[f[1]] - 1
  BY DEF Packets
<1>2. k \in Parts /\ npkts[k] \in Nat /\ npkts[k] > 0
  BY <1>1, NbPartsAssumption DEF TypeOK, CleanArchive, Parts
<1>3. \A p \in Parts : \A i \in 0 .. npkts[p] - 1 : <<p, i>> \in Packets
  BY DEF Packets
<1>4. CASE k = f[1]
  BY <1>1, <1>2, <1>3, <1>4 DEF SpanStart, LastIn, Before, Tape!Before, Parts
<1>5. CASE k # f[1]
  BY <1>1, <1>2, <1>3, <1>5 DEF SpanStart, LastIn, Before, Tape!Before, Parts
<1> QED
  BY <1>4, <1>5

LEMMA SpanOver ==
    ASSUME npkts' = npkts, torn' = torn, TypeOK, CleanArchive, NEW j \in JobType,
           j.kind = "compute", j.from \in Packets, NEW k \in j.from[1] .. NbParts,
           j.spans = Spans(j.from, k), Folded(seen', j.from, npkts, <<k, 0>>),
           job' = SliceOver(j)
    PROVE  Folding'
<1>1. Packets' = Packets /\ j.from \in Places
  BY CleanStays, PacketsArePlaces
<1>2. SameLoop(job', j) /\ job'.phase = IF k = NbParts THEN "close" ELSE "span"
  BY <1>1, SliceOverDoes, SpansAre
<1>3. job'.from = j.from /\ job'.spans = j.spans
  BY <1>2 DEF SameLoop
<1>4. FoldGoes(job', seen', Tell', npkts', k)
  BY <1>2, <1>3 DEF FoldGoes
<1> QED
  BY <1>1, <1>2, <1>3, <1>4 DEF Folding

\* What is known of a loop that folds, and of a step of it that does not raise.
FoldsFrom(k) ==
    /\ LoopOK /\ npkts' = npkts /\ torn' = torn /\ CleanArchive
    /\ job.kind = "compute" /\ job.from \in Packets /\ k \in job.from[1] .. NbParts
    /\ job.spans = Spans(job.from, k) /\ FoldGoes(job, seen, Tell, npkts, k)

LEMMA FoldsFromIs ==
    ASSUME NEW k, FoldsFrom(k)
    PROVE  /\ job \in JobType /\ seen \in Seq(Int \X Int) /\ Cursor /\ TypeOK /\ npkts \in [Parts -> Nat]
           /\ job.from \in Places /\ job.from \in Int \X Int /\ k \in Int /\ Packets' = Packets
           /\ Tell \in Packets /\ Packets \subseteq Int \X Int /\ Packets \subseteq Places
<1>1. Cursor /\ TypeOK
  BY DEF FoldsFrom, LoopOK, Cursor
<1>2. Packets \subseteq Places /\ Packets \subseteq Int \X Int /\ Tell \in Packets
  BY <1>1, PacketsArePlaces, PlacesArePairs, CleanCursor DEF FoldsFrom
<1>3. npkts \in [Parts -> Nat]
  BY <1>1 DEF TypeOK
<1> QED
  BY <1>1, <1>2, <1>3, CleanStays, NbPartsAssumption DEF FoldsFrom, LoopOK, Places, Parts

LEMMA FoldSpan == ASSUME NEW k, FoldsFrom(k), Span PROVE Folding'
<1> DEFINE f == job.from
<1>1. /\ job \in JobType /\ seen \in Seq(Int \X Int) /\ TypeOK /\ npkts \in [Parts -> Nat] /\ f \in Places
      /\ k \in f[1] .. NbParts /\ k \in Int /\ f[1] \in Int /\ f \in Packets /\ job.phase = "span" /\ seen' = seen
      /\ job.spans = Spans(f, k) /\ Packets' = Packets /\ Packets \subseteq Places
  BY FoldsFromIs DEF FoldsFrom, Span, Places, Parts
<1>2. k < NbParts
  BY <1>1, SpansAre, NbPartsAssumption DEF FoldsFrom, LoopOK
<1>3. Head(job.spans) = SpanStart(f, k) /\ Tail(job.spans) = Spans(f, k + 1)
  BY <1>1, <1>2, SpansAre
<1>4. SpanStart(f, k) \in Packets /\ SpanStart(f, k)[1] = k
  BY <1>1, <1>2, SpanIsOfPackets DEF FoldsFrom, SpanStart
<1>5. Tell' = SpanStart(f, k) /\ out'.res = "done"
  BY <1>1, <1>3, <1>4, SeekToPacket DEF Span
<1>6. job' = [job EXCEPT !.spans = Spans(f, k + 1), !.phase = "resolve", !.stop = <<k, -1>>]
  BY <1>3, <1>4, <1>5 DEF Span
<1>7. /\ job'.kind = "compute" /\ job'.from = f /\ job'.phase = "resolve" /\ job'.stop = <<k, -1>>
      /\ job'.spans = Spans(f, k + 1)
  BY <1>1, <1>6 DEF JobType, FoldsFrom
<1>8. Folded(seen, f, npkts, SpanStart(f, k))
  BY <1>1, FoldEntersPart DEF FoldsFrom, FoldGoes
<1>9. k + 1 \in f[1] .. NbParts /\ f[1] < k + 1 /\ (k + 1) - 1 = k
  BY <1>1, <1>2, NbPartsAssumption
<1>10. FoldGoes(job', seen', Tell', npkts', k + 1)
  BY <1>1, <1>5, <1>7, <1>8, <1>9 DEF FoldGoes, FoldsFrom
<1> HIDE DEF f
<1> QED
  BY <1>1, <1>7, <1>9, <1>10 DEF Folding

LEMMA FoldResolve == ASSUME NEW k, FoldsFrom(k), Resolve PROVE Folding'
<1> DEFINE f == job.from
<1>1. /\ job \in JobType /\ TypeOK /\ npkts \in [Parts -> Nat] /\ f[1] \in Int /\ k \in Int /\ f \in Places
      /\ k \in f[1] .. NbParts /\ job.phase = "resolve" /\ seen' = seen /\ Packets' = Packets /\ f \in Packets
      /\ Tell = SpanStart(f, k - 1) /\ job.stop = <<k - 1, -1>> /\ f[1] < k
      /\ Folded(seen, f, npkts, SpanStart(f, k - 1))
  BY FoldsFromIs DEF FoldsFrom, FoldGoes, Resolve, Places, Parts
<1>2. k - 1 \in Parts /\ npkts[k - 1] \in Nat /\ npkts[k - 1] > 0 /\ LastIn(npkts, k - 1) \in Places
  BY <1>1, NbPartsAssumption DEF FoldsFrom, CleanArchive, Places, Parts, LastIn
<1>3. Tell' = LastIn(npkts, k - 1) /\ out'.res = "done"
  <2>1. Wrap(k - 1, NbParts) = k - 1 /\ Wrap(-1, npkts[k - 1]) = npkts[k - 1] - 1
    BY <1>2, NbPartsAssumption DEF Wrap, Parts
  <2>2. job.stop # Tell /\ job.stop[1] = k - 1 /\ job.stop[2] = -1
    BY <1>1 DEF SpanStart, Places
  <2> QED
    BY <1>1, <1>2, <2>1, <2>2 DEF Resolve, SeekTo, Tell, LastIn, Done
<1>4. job' = [job EXCEPT !.phase = "resolved", !.stop = LastIn(npkts, k - 1), !.incl = TRUE,
                         !.back = SpanStart(f, k - 1)]
  BY <1>1, <1>3 DEF Resolve
<1>5. /\ job'.kind = "compute" /\ job'.from = f /\ job'.phase = "resolved" /\ job'.incl
      /\ job'.stop = LastIn(npkts, k - 1) /\ job'.back = SpanStart(f, k - 1)
      /\ job'.spans = Spans(f, k)
  BY <1>1, <1>4 DEF JobType, FoldsFrom
<1>6. FoldGoes(job', seen', Tell', npkts', k)
  BY <1>1, <1>5 DEF FoldGoes, FoldsFrom
<1> HIDE DEF f
<1> QED
  BY <1>1, <1>5, <1>6 DEF Folding

LEMMA FoldResolved == ASSUME NEW k, FoldsFrom(k), Resolved PROVE Folding'
<1> DEFINE f == job.from
<1>1. /\ job \in JobType /\ TypeOK /\ f[1] \in Int /\ k \in Int /\ f \in Packets
      /\ k \in f[1] .. NbParts /\ job.phase = "resolved" /\ seen' = seen /\ Packets' = Packets
      /\ job.back = SpanStart(f, k - 1) /\ job.stop = LastIn(npkts, k - 1) /\ job.incl /\ f[1] < k
      /\ Folded(seen, f, npkts, SpanStart(f, k - 1))
  BY FoldsFromIs DEF FoldsFrom, FoldGoes, Resolved, Places, Parts
<1>2. job.back \in Packets
  BY <1>1, SpanIsOfPackets, NbPartsAssumption DEF FoldsFrom
<1>3. Tell' = SpanStart(f, k - 1) /\ out'.res = "done"
  BY <1>1, <1>2, SeekToPacket DEF Resolved
<1>4. job' = [job EXCEPT !.phase = "compare"]
  BY <1>1, <1>3 DEF Resolved
<1>5. /\ job'.kind = "compute" /\ job'.from = f /\ job'.phase = "compare" /\ job'.incl
      /\ job'.stop = LastIn(npkts, k - 1) /\ job'.spans = Spans(f, k)
  BY <1>1, <1>4 DEF JobType, FoldsFrom
<1>6. FoldGoes(job', seen', Tell', npkts', k)
  BY <1>1, <1>3, <1>5 DEF FoldGoes, FoldsFrom
<1> HIDE DEF f
<1> QED
  BY <1>1, <1>5, <1>6 DEF Folding

LEMMA FoldCompare == ASSUME NEW k, FoldsFrom(k), Compare PROVE Folding'
<1> DEFINE f == job.from
<1>1. /\ job \in JobType /\ TypeOK /\ npkts \in [Parts -> Nat] /\ f[1] \in Int /\ k \in Int /\ f \in Packets
      /\ k \in f[1] .. NbParts /\ job.phase = "compare" /\ seen' = seen /\ Packets' = Packets
      /\ Tell = SpanStart(f, k - 1) /\ job.stop = LastIn(npkts, k - 1) /\ job.incl /\ f[1] < k
      /\ Folded(seen, f, npkts, Tell) /\ seen \in Seq(Int \X Int) /\ f \in Int \X Int
      /\ Tell' = Tell /\ Tell \in Int \X Int /\ job.kind = "compute" /\ job.spans = Spans(f, k)
  BY FoldsFromIs DEF FoldsFrom, FoldGoes, Compare, Places, Parts, vars, Tell
<1>2. k - 1 \in Parts /\ Tell[1] = k - 1 /\ Tell[2] <= npkts[k - 1] - 1 /\ npkts[k - 1] \in Nat
      /\ Tell = <<Tell[1], Tell[2]>>
  <2>1. k - 1 \in Int /\ f[1] <= k - 1 /\ k - 1 < NbParts /\ k - 1 \in Parts
    BY <1>1, NbPartsAssumption DEF FoldsFrom, Parts, Packets
  <2>2. Tell[2] <= LastIn(npkts, k - 1)[2]
    BY <1>1, <2>1, SpanIsOfPackets DEF FoldsFrom
  <2>3. Tell = <<k - 1, Tell[2]>>
    BY <1>1 DEF SpanStart
  <2> QED
    BY <1>1, <2>1, <2>2, <2>3 DEF LastIn
<1>3. CASE job.stop = Tell
  <2>1. Tell[2] = npkts[k - 1] - 1 /\ After(Tell) = <<k - 1, npkts[k - 1]>>
    BY <1>1, <1>2, <1>3 DEF LastIn, After
  <2>2. Tell = f \/ Tell[2] = 0
    BY <1>1 DEF SpanStart
  <2>3. Folded(seen, f, npkts, After(Tell))
    BY <1>1, <1>2, <2>1, <2>2, FoldSkips DEF Lone
  <2>4. Folded(seen, f, npkts, <<(k - 1) + 1, 0>>)
    BY <1>1, <1>2, <2>1, <2>3, FoldLeavesPart
  <2>5. (k - 1) + 1 = k /\ job' = SliceOver(job)
    BY <1>1, <1>3 DEF Compare
  <2> QED
    BY <1>1, <2>4, <2>5, SpanOver DEF FoldsFrom
<1>4. CASE job.stop # Tell
  <2>1. ~Before(job.stop, Tell)
    BY <1>1, <1>2 DEF LastIn, Before, Tape!Before
  <2>2. job' = [job EXCEPT !.phase = "first", !.dir = "forward"]
    BY <1>4, <2>1 DEF Compare
  <2>3. /\ job'.kind = "compute" /\ job'.from = f /\ job'.phase = "first" /\ job'.dir = "forward"
        /\ job'.stop = job.stop /\ job'.incl /\ job'.spans = Spans(f, k)
    BY <1>1, <2>2 DEF JobType
  <2>4. FoldGoes(job', seen', Tell', npkts', k)
    BY <1>1, <1>4, <2>3 DEF FoldGoes, FoldsFrom
  <2> HIDE DEF f
  <2> QED
    BY <1>1, <2>3, <2>4 DEF Folding
<1> QED
  BY <1>3, <1>4

\* The packet at hand is folded, and is not the last of its part.
LEMMA FoldStays ==
    ASSUME NEW k, FoldsFrom(k), job.from[1] < k, job.incl, job.stop = LastIn(npkts, k - 1),
           job'.kind = "compute", job'.phase = "step", job'.from = job.from, job'.dir = "forward",
           job'.incl = job.incl, job'.stop = job.stop, job'.spans = job.spans,
           AtHand', Tell'[1] = k - 1, ~Before(Tell', job.from), Tell' # job.stop,
           Folded(seen', job.from, npkts, After(Tell'))
    PROVE  Folding'
<1>1. FoldGoes(job', seen', Tell', npkts', k)
  BY DEF FoldGoes, FoldsFrom
<1>2. Packets' = Packets
  BY FoldsFromIs
<1> QED
  BY <1>1, <1>2 DEF Folding, FoldsFrom

LEMMA FoldFirst == ASSUME NEW k, FoldsFrom(k), First PROVE Folding'
<1> DEFINE f == job.from
<1>1. /\ job \in JobType /\ TypeOK /\ npkts \in [Parts -> Nat] /\ f \in Packets /\ f[1] \in Int /\ k \in Int
      /\ k \in f[1] .. NbParts /\ job.phase = "first" /\ job.dir = "forward"
      /\ Tell = SpanStart(f, k - 1) /\ job.stop = LastIn(npkts, k - 1) /\ job.incl /\ f[1] < k
      /\ Folded(seen, f, npkts, Tell) /\ seen \in Seq(Int \X Int) /\ f \in Int \X Int
      /\ Tell \in Int \X Int /\ Tell # job.stop
  BY FoldsFromIs DEF FoldsFrom, FoldGoes, First, Places, Parts
<1>2. /\ Tell' = Tell /\ AtHand' /\ job' = [job EXCEPT !.phase = "step"]
      /\ seen' = Append(seen, Tell)
  BY CleanFirst DEF FoldsFrom
<1>3. /\ job'.kind = job.kind /\ job'.from = f /\ job'.phase = "step" /\ job'.dir = job.dir
      /\ job'.incl = job.incl /\ job'.stop = job.stop /\ job'.spans = job.spans
  BY <1>1, <1>2 DEF JobType
<1>4. ~Before(Tell, f)
  <2>1. k - 1 \in Int /\ f[1] <= k - 1 /\ k - 1 < NbParts
    BY <1>1, NbPartsAssumption
  <2> QED
    BY <1>1, <2>1, SpanIsOfPackets DEF FoldsFrom
<1>5. Folded(seen', f, npkts, After(Tell))
  BY <1>1, <1>2, <1>4, FoldGrows
<1>6. Tell[1] = k - 1
  BY <1>1 DEF SpanStart
<1> QED
  BY <1>1, <1>2, <1>3, <1>4, <1>5, <1>6, FoldStays DEF FoldsFrom

LEMMA FoldSteps == ASSUME NEW k, FoldsFrom(k), AtHand, Step PROVE Folding'
<1> DEFINE f == job.from
           j == [job EXCEPT !.found = TRUE]
<1>1. /\ job \in JobType /\ TypeOK /\ npkts \in [Parts -> Nat] /\ f \in Packets /\ k \in Int
      /\ k \in f[1] .. NbParts /\ job.phase = "step" /\ job.dir = "forward"
      /\ job.stop = LastIn(npkts, k - 1) /\ job.incl /\ f[1] < k /\ ~Before(Tell, f)
      /\ Folded(seen, f, npkts, After(Tell)) /\ seen \in Seq(Int \X Int) /\ f \in Int \X Int
      /\ Tell \in Packets /\ Packets \subseteq Int \X Int /\ Tell[1] = k - 1 /\ Tell # job.stop
      /\ f[1] \in Int
  BY FoldsFromIs DEF FoldsFrom, FoldGoes, Step, Places, Parts
<1>2. /\ Tell = <<k - 1, Tell[2]>> /\ k - 1 \in Parts /\ npkts[k - 1] \in Nat
      /\ Tell[2] \in 0 .. npkts[k - 1] - 1 /\ Tell[2] # npkts[k - 1] - 1
  BY <1>1 DEF Packets, LastIn
<1>3. After(Tell) \in Packets /\ Before(Tell, After(Tell)) /\ After(Tell) \in Int \X Int
  <2>1. Tell[2] + 1 \in 0 .. npkts[k - 1] - 1
    BY <1>2
  <2> QED
    BY <1>1, <1>2, <2>1 DEF After, Packets, Before, Tape!Before
<1>4. ASSUME Arrives PROVE Tell' = After(Tell)
  <2>1. Before(Tell, Tell') /\ Tell' \in Int \X Int
        /\ (After(Tell) = Tell' \/ Before(Tell', After(Tell)))
    BY <1>1, <1>3, <1>4 DEF Arrives, Past
  <2>2. ~(Before(Tell, Tell') /\ Before(Tell', After(Tell)))
    BY <1>1, <2>1 DEF Before, Tape!Before, After
  <2> QED
    BY <2>1, <2>2
<1>5. ~Before(After(Tell), f)
  BY <1>1 DEF Before, Tape!Before, After
<1>6. ASSUME Arrives, seen' = Append(seen, Tell')
      PROVE  Folded(seen', f, npkts, After(Tell'))
  BY <1>1, <1>3, <1>4, <1>5, <1>6, FoldGrows
<1>7. AtEnd <=> ~Before(Tell', job.stop)
  BY <1>1, AtEndIs DEF FoldsFrom, Past
<1>8. CASE Arrives /\ AtEnd /\ job' = SliceOver(j) /\ seen' = Append(seen, Tell')
  <2>2. Tell' = LastIn(npkts, k - 1)
    BY <1>1, <1>2, <1>4, <1>7, <1>8 DEF After, LastIn, Before, Tape!Before
  <2>3. After(Tell') = <<k - 1, npkts[k - 1]>>
    BY <1>2, <2>2 DEF After, LastIn
  <2>4. seen' \in Seq(Int \X Int)
    BY <1>1, <1>3, <1>4, <1>8
  <2>5. Folded(seen', f, npkts, <<(k - 1) + 1, 0>>)
    BY <1>1, <1>2, <1>6, <1>8, <2>3, <2>4, FoldLeavesPart
  <2>6. (k - 1) + 1 = k
    BY <1>1
  <2>7. j \in JobType /\ j.kind = "compute" /\ j.from = f /\ j.spans = Spans(f, k)
    BY <1>1 DEF JobType, FoldsFrom
  <2> HIDE DEF j
  <2> QED
    BY <1>1, <1>8, <2>5, <2>6, <2>7, SpanOver DEF FoldsFrom
<1>9. CASE /\ Arrives /\ ~AtEnd /\ seen' = Append(seen, Tell')
           /\ job' = [job EXCEPT !.left = IF job.kind = "slice_by" THEN @ - 1 ELSE @]
  <2>1. /\ job'.kind = job.kind /\ job'.from = f /\ job'.phase = "step" /\ job'.dir = job.dir
        /\ job'.incl = job.incl /\ job'.stop = job.stop /\ job'.spans = job.spans
    BY <1>1, <1>9 DEF JobType
  <2>2. Tell'[1] = k - 1
    BY <1>1, <1>4, <1>9 DEF After
  <2>3. Tell' # job.stop
    BY <1>2, <1>1, <1>4, <1>7, <1>9 DEF Before, Tape!Before, LastIn
  <2> QED
    BY <1>1, <1>4, <1>5, <1>6, <1>9, <2>1, <2>2, <2>3, FoldStays DEF FoldsFrom, Arrives
<1>10. \E m \in Packets : Past(job.dir, Tell, m)
  BY <1>1, <1>3 DEF Past
<1> HIDE DEF j
<1> QED
  BY <1>1, <1>8, <1>9, <1>10, CleanStep DEF FoldsFrom, j, AtHand

LEMMA FoldEnds == ASSUME NEW k, FoldsFrom(k), CloseCompute \/ Restore PROVE Folding'
<1> DEFINE f == job.from
<1>1. /\ job \in JobType /\ k \in f[1] .. NbParts /\ f \in Packets /\ seen' = seen
      /\ job.phase \in {"close", "restore"} /\ Folded(seen, f, npkts, <<NbParts, 0>>)
      /\ Packets' = Packets
  BY FoldsFromIs DEF FoldsFrom, FoldGoes, CloseCompute, Restore
<1>2. /\ job'.phase \in {"ended", "restore"} /\ job'.from = f /\ job'.spans = job.spans
  <2>1. CASE CloseCompute
    BY <1>1, <2>1, FinishDoes DEF CloseCompute, SameLoop, Left
  <2>2. CASE Restore
    BY <1>1, <2>2 DEF Restore, JobType
  <2> QED
    BY <2>1, <2>2
<1>3. FoldGoes(job', seen', Tell', npkts', k)
  BY <1>1, <1>2 DEF FoldGoes, FoldsFrom
<1> QED
  BY <1>1, <1>2, <1>3 DEF Folding, FoldsFrom

LEMMA FoldStarts == ASSUME LoopOK, npkts' = npkts, StartsLoop, job'.kind = "compute", CleanArchive PROVE Folding'
<1>1. /\ UNCHANGED vars /\ seen' = <<>> /\ job'.from = Tell /\ job'.phase = "span"
      /\ job'.spans = [i \in 1 .. NbParts - pos_part |->
                         <<pos_part + i - 1, IF i = 1 THEN pos_pkt ELSE 0>>]
  BY StartsDo
<1>2. Tell \in Packets /\ Tell \in Places /\ npkts \in [Parts -> Nat] /\ pos_part \in Parts
  BY CleanCursor, CursorPlace DEF LoopOK, Cursor, TypeOK
<1>3. Packets' = Packets /\ pos_part \in Int /\ Tell[1] = pos_part /\ Tell[2] = pos_pkt
      /\ pos_part \in pos_part .. NbParts
  BY <1>2, NbPartsAssumption DEF Packets, Tell, Parts
<1>4. job'.spans = Spans(Tell, pos_part)
  <2>1. ASSUME NEW i \in 1 .. NbParts - pos_part
        PROVE  <<pos_part + i - 1, IF i = 1 THEN pos_pkt ELSE 0>> = SpanStart(Tell, pos_part + i - 1)
    BY <1>3 DEF SpanStart
  <2> QED
    BY <1>1, <2>1 DEF Spans
<1>5. Folded(seen', job'.from, npkts', <<pos_part, 0>>)
  BY <1>1, <1>2, <1>3, FoldBegins
<1>6. FoldGoes(job', seen', Tell', npkts', pos_part)
  BY <1>1, <1>5 DEF FoldGoes
<1> QED
  BY <1>1, <1>2, <1>3, <1>4, <1>6 DEF Folding

LEMMA FoldStep == LoopOK /\ Folding /\ [ScanNext]_scanVars => Folding'
<1> SUFFICES ASSUME LoopOK, Folding, [ScanNext]_scanVars, job'.kind = "compute", CleanArchive'
             PROVE  Folding'
  BY DEF Folding
<1>0. npkts' = npkts /\ torn' = torn /\ CleanArchive
  BY TapeStays, CleanStays
<1>1. CASE UNCHANGED scanVars
  BY <1>0, <1>1 DEF scanVars, Folding, AtHand, HasRead, Tell, Packets, CleanArchive
<1>2. CASE StartsLoop
  BY <1>0, <1>2, FoldStarts
<1>3. CASE Between
  BY <1>3 DEF Between, NewJob
<1>4. CASE JobStep
  <2>1. job.kind = "compute"
    BY <1>4, StepsKeepJob
  <2>2. PICK k \in job.from[1] .. NbParts : FoldsFrom(k)
    BY <1>0, <2>1 DEF Folding, FoldsFrom
  <2>3. job.phase = "step" => AtHand
    BY <1>0, <2>1 DEF Folding
  <2> QED
    BY <1>4, <2>2, <2>3, FoldSpan, FoldResolve, FoldResolved, FoldCompare, FoldFirst, FoldSteps,
       FoldEnds DEF JobStep, Step
<1>5. CASE BodyRaises
  BY <1>5, BodyRaisesDoes
<1> QED
  BY <1>1, <1>2, <1>3, <1>4, <1>5 DEF ScanNext, StartsLoop

LEMMA FoldedAll == LoopOK /\ Folding => ComputeFoldsAtMostOnce
<1> SUFFICES ASSUME LoopOK, Folding, Over("compute"), CleanArchive
             PROVE  /\ \A i \in 1 .. Len(seen) - 1 : Before(seen[i], seen[i + 1])
                    /\ \A p \in Seen : ~Before(p, job.from)
                    /\ \A p \in Packets : ~Before(p, job.from) =>
                          \/ p \in Seen
                          \/ p[2] = npkts[p[1]] - 1 /\ (p = job.from \/ p[2] = 0)
  BY DEF ComputeFoldsAtMostOnce
<1>1. Folded(seen, job.from, npkts, <<NbParts, 0>>)
  BY DEF Folding, FoldGoes, Over, Ended
<1>2. DOMAIN seen = 1 .. Len(seen)
  BY DEF LoopOK
<1>3. \A p \in Seen : ~Before(p, job.from)
  BY <1>1, <1>2 DEF Folded, Seen
<1>4. ASSUME NEW p \in Packets, ~Before(p, job.from)
      PROVE  p \in Seen \/ (p[2] = npkts[p[1]] - 1 /\ (p = job.from \/ p[2] = 0))
  <2>1. PICK q \in Parts : \E i \in 0 .. npkts[q] - 1 : p = <<q, i>>
    BY DEF Packets
  <2>2. Before(p, <<NbParts, 0>>)
    BY <2>1, NbPartsAssumption DEF Before, Tape!Before, Parts
  <2>3. Lone(job.from, npkts, p) \/ \E h \in 1 .. Len(seen) : seen[h] = p
    BY <1>1, <1>4, <2>1, <2>2 DEF Folded
  <2> QED
    BY <1>2, <2>3 DEF Lone, Seen
<1> QED
  BY <1>1, <1>3, <1>4 DEF Folded

\* Over parts that all have packets compute folds no packet twice and none from before
\* its start, and leaves out only packets that are alone in what is left of their part:
\* a slice that ends where it starts hands nothing out.
THEOREM ComputeAlwaysFoldsAtMostOnce == ScanSpec => []ComputeFoldsAtMostOnce
<1>1. ScanInit => Folding
  BY DEF ScanInit, NewJob, Folding
<1> QED
  BY <1>1, InitLoop, LoopStep, FoldStep, FoldedAll, PTL DEF ScanSpec
=============================================================================
