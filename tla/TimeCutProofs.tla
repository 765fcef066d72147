---------------------------- MODULE TimeCutProofs ----------------------------
(***************************************************************************)
(* Proofs about TimeCut and about Windows, which cuts a growing recording:  *)
(* for archives of any length with their packets at any times, any begin,  *)
(* end and alignment, and windows of any size.                             *)
(***************************************************************************)
EXTENDS TimeCut, Windows, FiniteSetTheorems, WellFoundedInduction, TLAPS

-----------------------------------------------------------------------------
(***************************************************************************)
(* Least and greatest positions.                                           *)
(***************************************************************************)
LEMMA MinOfPositions ==
    ASSUME NEW S \in SUBSET Nat, S # {}
    PROVE  Min(S) \in S /\ \A y \in S : Min(S) <= y
<1>1. PICK m \in S : \A y \in S : ~(<<y, m>> \in OpToRel(<, Nat))
  BY WFMin, NatLessThanWellFounded, Zenon
<1>2. \A y \in S : m <= y
  <2> TAKE y \in S
  <2>1. <<y, m>> \in Nat \X Nat /\ ~(y < m)
    BY <1>1 DEF OpToRel
  <2> QED
    BY <2>1
<1> QED
  BY <1>2 DEF Min

LEMMA MaxOfPositions ==
    ASSUME NEW n \in Nat, NEW S \in SUBSET (0 .. n), S # {}
    PROVE  Max(S) \in S /\ \A y \in S : y <= Max(S)
<1> DEFINE T == { n - x : x \in S }
<1>1. T \in SUBSET Nat /\ T # {}
  <2>1. \A x \in S : x \in 0 .. n
    OBVIOUS
  <2>2. \A x \in S : n - x \in Nat
    BY <2>1
  <2> QED
    BY <2>2
<1>2. Min(T) \in T /\ \A y \in T : Min(T) <= y
  BY <1>1, MinOfPositions
<1>3. PICK x \in S : Min(T) = n - x
  BY <1>2
<1>4. \A y \in S : n - x <= n - y
  BY <1>2, <1>3
<1>5. \A y \in S : x >= y
  BY <1>4
<1> QED
  BY <1>5 DEF Max

-----------------------------------------------------------------------------
(***************************************************************************)
(* Where the searches of an archive a end.                                 *)
(***************************************************************************)
Of(a) == a.first .. a.last

LEMMA Ahead ==
    ASSUME NEW a, IsArchive(a), NEW p \in Of(a), NEW d \in Int
    PROVE  LET q == AheadBy(a, p, d) IN
           /\ q \in Of(a) /\ p <= q
           /\ \A x \in p + 1 .. q - 1 : a.secs[x] - a.secs[p] < d
           /\ q # a.last => p < q /\ a.secs[q] - a.secs[p] >= d
<1> DEFINE hits == { q \in p + 1 .. a.last : a.secs[q] - a.secs[p] >= d }
           m == AheadBy(a, p, d)
<1>1. a.first \in Nat /\ a.last \in Nat /\ a.secs \in [Of(a) -> Int] /\ p \in Nat
      /\ a.first <= p /\ p <= a.last
  BY DEF IsArchive, Of
<1>2. hits \in SUBSET Nat
  BY <1>1
<1>3. m = IF hits = {} THEN a.last ELSE Min(hits)
  BY DEF AheadBy
<1>4. hits # {} => m \in hits /\ \A y \in hits : m <= y
  BY <1>2, <1>3, MinOfPositions
<1>5. m \in Of(a) /\ p <= m /\ (m # a.last => p < m /\ a.secs[m] - a.secs[p] >= d)
  BY SMTT(20), <1>1, <1>3, <1>4 DEF Of
<1>6. ASSUME NEW x \in p + 1 .. m - 1 PROVE a.secs[x] - a.secs[p] < d
  <2>1. x \in p + 1 .. a.last /\ x < m /\ x \in Of(a)
    BY <1>1, <1>5 DEF Of
  <2>2. x \notin hits
    BY <1>1, <1>3, <1>4, <2>1
  <2>3. a.secs[x] \in Int /\ a.secs[p] \in Int
    BY <1>1, <2>1
  <2> QED
    BY <2>1, <2>2, <2>3
<1> QED
  BY <1>5, <1>6

LEMMA Behind ==
    ASSUME NEW a, IsArchive(a), NEW p \in Of(a), NEW d \in Int
    PROVE  BehindBy(a, p, d) \in Of(a) /\ BehindBy(a, p, d) <= p
<1> DEFINE hits == { q \in a.first .. p - 1 : a.secs[p] - a.secs[q] >= d }
<1>1. a.first \in Nat /\ a.last \in Nat /\ p \in Nat /\ a.first <= p /\ p <= a.last
  BY DEF IsArchive, Of
<1>2. hits \in SUBSET (0 .. a.last)
  BY <1>1
<1>3. hits # {} => Max(hits) \in hits
  BY <1>1, <1>2, MaxOfPositions
<1> QED
  BY <1>1, <1>3 DEF BehindBy, Of

LEMMA Forward ==
    ASSUME NEW a, IsArchive(a), NEW p \in Of(a), NEW d \in Int
    PROVE  LET f == FastForward(a, p, d) IN
           /\ f.pos \in Of(a)
           /\ d >= 0 => p <= f.pos /\ d + f.dt = Interval(a, p, f.pos)
           /\ d <= 0 => f.pos <= p
           /\ d < 0 => d - f.dt = Interval(a, p, f.pos)
           /\ f.dt \in Int
<1> DEFINE q == IF d = 0 THEN p ELSE IF d > 0 THEN AheadBy(a, p, d) ELSE BehindBy(a, p, -d)
           f == FastForward(a, p, d)
<1>1. f.pos = q /\ f.dt = CASE d = 0 -> 0
                            [] d > 0 -> (a.secs[q] - a.secs[p]) - d
                            [] OTHER -> (a.secs[p] - a.secs[q]) - (-d)
  BY DEF FastForward
<1>2. a.first \in Nat /\ a.last \in Nat /\ a.secs \in [Of(a) -> Int] /\ p \in Nat /\ -d \in Int
  BY DEF IsArchive, Of
<1>3. CASE d = 0
  BY <1>1, <1>2, <1>3 DEF Interval
<1>4. CASE d > 0
  <2>1. q \in Of(a) /\ p <= q
    BY <1>4, Ahead
  <2>2. a.secs[q] \in Int /\ a.secs[p] \in Int
    BY <1>2, <2>1
  <2>3. f.pos = q /\ f.dt = (a.secs[q] - a.secs[p]) - d
    BY <1>1, <1>4
  <2> QED
    BY <1>4, <2>1, <2>2, <2>3 DEF Interval
<1>5. CASE d < 0
  <2>1. q \in Of(a) /\ q <= p
    BY <1>2, <1>5, Behind
  <2>2. a.secs[q] \in Int /\ a.secs[p] \in Int
    BY <1>2, <2>1
  <2>3. f.pos = q /\ f.dt = (a.secs[p] - a.secs[q]) - (-d)
    BY <1>1, <1>5
  <2> QED
    BY <1>5, <2>1, <2>2, <2>3 DEF Interval
<1> QED
  BY <1>3, <1>4, <1>5

LEMMA StartBefore ==
    ASSUME NEW a, IsArchive(a), NEW p \in Of(a)
    PROVE  LET q == PrevStart(a, p) IN
           /\ q \in Of(a) /\ q \in a.starts \cup {a.first}
           /\ \A x \in a.starts : x < p => x <= q /\ q \in a.starts /\ q < p
<1> DEFINE hits == { q \in a.starts : q < p }
<1>1. a.first \in Nat /\ a.last \in Nat /\ a.first <= p /\ p <= a.last /\ a.starts \subseteq Of(a)
  BY DEF IsArchive, Of
<1>2. hits \in SUBSET (0 .. a.last)
  BY <1>1 DEF Of
<1>3. hits # {} => Max(hits) \in hits /\ \A y \in hits : y <= Max(hits)
  BY <1>1, <1>2, MaxOfPositions
<1>4. PrevStart(a, p) = IF hits = {} THEN a.first ELSE Max(hits)
  BY DEF PrevStart
<1>5. a.first \in Of(a)
  BY <1>1 DEF Of
<1> HIDE DEF hits
<1>6. CASE hits = {}
  <2>1. \A x \in a.starts : ~(x < p)
    BY <1>6 DEF hits
  <2> QED
    BY <1>4, <1>5, <1>6, <2>1
<1>7. CASE hits # {}
  BY <1>1, <1>3, <1>4, <1>7 DEF hits
<1> QED
  BY <1>6, <1>7

LEMMA KeyAfter ==
    ASSUME NEW a, IsArchive(a), NEW p \in Of(a), NEW opn \in BOOLEAN
    PROVE  LET q == NextKey(a, p, opn) IN
           /\ q \in Of(a)
           /\ opn => \A x \in a.keys : p < x => q <= x /\ q \in a.keys
<1> DEFINE later == { q \in a.bounds : p < q }
           from == IF opn \/ later = {} THEN p + 1 ELSE Min(later)
           hits == { q \in a.keys : from <= q }
<1>1. /\ a.first \in Nat /\ a.last \in Nat /\ a.first <= p /\ p <= a.last
      /\ a.keys \subseteq Of(a) /\ a.last \in Of(a)
  BY DEF IsArchive, Of
<1>2. NextKey(a, p, opn) = IF hits = {} THEN a.last ELSE Min(hits)
  BY DEF NextKey
<1>3. hits \in SUBSET Nat /\ hits \subseteq a.keys
  BY <1>1 DEF Of
<1>4. hits # {} => Min(hits) \in hits /\ \A y \in hits : Min(hits) <= y
  BY <1>3, MinOfPositions
<1>5. NextKey(a, p, opn) \in Of(a)
  <2> HIDE DEF hits
  <2> QED
    BY <1>1, <1>2, <1>3, <1>4
<1>6. ASSUME opn, NEW x \in a.keys, p < x
      PROVE  NextKey(a, p, opn) <= x /\ NextKey(a, p, opn) \in a.keys
  <2>1. x \in Nat /\ p \in Nat /\ from = p + 1
    BY <1>1, <1>6 DEF Of
  <2>2. x \in hits
    BY <1>6, <2>1
  <2> HIDE DEF hits
  <2> QED
    BY <1>2, <1>3, <1>4, <2>2
<1> QED
  BY <1>5, <1>6

LEMMA Aligned ==
    ASSUME NEW a, IsArchive(a), NEW p \in Of(a), NEW align \in Aligns
    PROVE  /\ AlignStart(a, p, align) \in Of(a) /\ AlignStop(a, p, align) \in Of(a)
           /\ align = "no" => AlignStart(a, p, align) = p /\ AlignStop(a, p, align) = p
           /\ align # "no" /\ a.video =>
                 /\ AlignStart(a, p, align) \in a.starts \cup {a.first}
                 /\ AlignStop(a, p, align) \in a.starts \cup {a.first}
<1> DEFINE q == PrevTo(a, p)
           r == IF p = a.last THEN p ELSE q
<1>1. a.first \in Nat /\ a.last \in Nat /\ p \in Nat /\ a.first <= p /\ p <= a.last
  BY DEF IsArchive, Of
<1>2. q \in Of(a) /\ r \in Of(a)
  BY <1>1 DEF PrevTo, Of
<1>3. \A x \in {p, q, r} : PrevStart(a, x) \in Of(a) /\ PrevStart(a, x) \in a.starts \cup {a.first}
  BY <1>2, StartBefore
<1> HIDE DEF q, r
<1>4. CASE align = "no"
  BY <1>4 DEF AlignStart, AlignStop
<1>5. CASE align = "yes"
  <2>1. /\ AlignStart(a, p, align) = IF a.video THEN PrevStart(a, p) ELSE p
        /\ AlignStop(a, p, align) = IF a.video THEN PrevStart(a, p) ELSE p
    BY <1>5 DEF AlignStart, AlignStop
  <2> QED
    BY <1>3, <1>5, <2>1
<1>6. CASE align = "prev"
  <2>1. /\ AlignStart(a, p, align) =
             IF p = a.first THEN p ELSE IF a.video THEN PrevStart(a, q) ELSE q
        /\ AlignStop(a, p, align) = IF a.video THEN PrevStart(a, r) ELSE r
    BY <1>6 DEF AlignStart, AlignStop, q, r
  <2> QED
    BY <1>2, <1>3, <1>6, <2>1
<1> QED
  BY <1>4, <1>5, <1>6 DEF Aligns

-----------------------------------------------------------------------------
(***************************************************************************)
(* The invariant: what the last call's result was computed from.           *)
(***************************************************************************)
EndSecs == IF call.e = None THEN Interval(archive, call.org, archive.last) ELSE call.e

Called ==
    /\ archive \in Archives /\ pos \in Packets /\ opened \in BOOLEAN
    /\ call.op \in {"none", "cut", "slice"}
    /\ call.op # "none" =>
         call.org \in Packets /\ call.opened \in BOOLEAN /\ call.b \in Begins /\ call.e \in Ends
    /\ call.op = "cut" =>
         /\ call.align \in Aligns
         /\ call.res = Cut(archive, call.org, call.b, call.e, call.align)
    /\ call.op = "slice" =>
         /\ call.res = Slice(archive, call.org, call.b, call.e, call.align = "yes", call.opened)
         /\ pos = FastForward(archive, call.org, EndSecs).pos

LEMMA ArchiveIs == ASSUME archive \in Archives
                   PROVE  IsArchive(archive) /\ Packets = Of(archive)
  BY ArchivesAssumption DEF Packets, Of

LEMMA IntervalType ==
    ASSUME NEW a, IsArchive(a), NEW p \in Of(a), NEW q \in Of(a)
    PROVE  a.secs[p] \in Int /\ Interval(a, p, q) \in Int /\ Interval(a, p, q) = a.secs[q] - a.secs[p]
<1>1. a.secs \in [Of(a) -> Int]
  BY DEF IsArchive, Of
<1> QED
  BY <1>1 DEF Interval

\* Where time_cut finds its begin and its end, before alignment.
LEMMA Found ==
    ASSUME NEW a, IsArchive(a), NEW org \in Of(a), NEW e \in Int \cup {None}
    PROVE  LET s == IF e = None THEN Interval(a, org, a.last) ELSE e
               t == IF e = None THEN [pos |-> a.last, dt |-> 0] ELSE FastForward(a, org, e)
           IN s \in Int /\ t.pos \in Of(a) /\ FastForward(a, org, s).pos \in Of(a)
<1>1. a.last \in Of(a)
  BY DEF IsArchive, Of
<1>2. CASE e = None
  <2>1. Interval(a, org, a.last) \in Int
    BY <1>1, IntervalType
  <2> QED
    BY <1>1, <1>2, <2>1, Forward
<1>3. CASE e # None
  <2>1. e \in Int
    BY <1>3
  <2> QED
    BY <1>3, <2>1, Forward
<1> QED
  BY <1>2, <1>3

LEMMA CutPositions ==
    ASSUME NEW a, IsArchive(a), NEW org \in Of(a), NEW b \in Int, NEW e \in Int \cup {None},
           NEW align \in Aligns
    PROVE  LET res == Cut(a, org, b, e, align) IN res.start \in Of(a) /\ res.stop \in Of(a)
<1> DEFINE f == FastForward(a, org, b)
           t == IF e = None THEN [pos |-> a.last, dt |-> 0] ELSE FastForward(a, org, e)
<1>2. f.pos \in Of(a) /\ t.pos \in Of(a)
  BY Forward, Found
<1>3. /\ Cut(a, org, b, e, align).start = AlignStart(a, f.pos, align)
      /\ Cut(a, org, b, e, align).stop = AlignStop(a, t.pos, align)
  BY DEF Cut
<1> HIDE DEF f, t
<1> QED
  BY <1>2, <1>3, Aligned

LEMMA SlicePositions ==
    ASSUME NEW a, IsArchive(a), NEW org \in Of(a), NEW b \in Int, NEW e \in Int \cup {None},
           NEW align \in BOOLEAN, NEW opn \in BOOLEAN
    PROVE  LET res == Slice(a, org, b, e, align, opn) IN res.start \in Of(a) /\ res.stop \in Of(a)
<1> DEFINE begin == FastForward(a, org, b).pos
           secs == IF e = None THEN Interval(a, org, a.last) ELSE e
           end == FastForward(a, org, secs).pos
<1>2. begin \in Of(a) /\ end \in Of(a)
  BY Forward, Found
<1>3. /\ Slice(a, org, b, e, align, opn).start =
           IF align /\ a.video THEN NextKey(a, begin, opn \/ b # 0) ELSE begin
      /\ Slice(a, org, b, e, align, opn).stop = IF align /\ a.video THEN PrevStart(a, end) ELSE end
  BY DEF Slice
<1> HIDE DEF begin, end
<1>4. NextKey(a, begin, opn \/ b # 0) \in Of(a)
  BY <1>2, KeyAfter
<1>5. PrevStart(a, end) \in Of(a)
  BY <1>2, StartBefore
<1> QED
  BY <1>2, <1>3, <1>4, <1>5

LEMMA InitCalled == Init => Called
<1> SUFFICES ASSUME Init PROVE Called
  OBVIOUS
<1>1. archive \in Archives /\ pos = archive.first /\ opened = FALSE /\ call.op = "none"
  BY DEF Init, NoCall
<1>2. archive.first \in Packets
  BY <1>1, ArchivesAssumption DEF IsArchive, Packets
<1> QED
  BY <1>1, <1>2 DEF Called

LEMMA NextCalled == Called /\ [Next]_vars => Called'
<1> SUFFICES ASSUME Called, [Next]_vars PROVE Called'
  OBVIOUS
<1>0. archive \in Archives /\ IsArchive(archive) /\ Packets = Of(archive) /\ pos \in Packets
  BY ArchiveIs DEF Called
<1>1. ASSUME NEW q \in archive.first - 1 .. archive.last + 1, Seek(q) PROVE Called'
  <2>1. archive' = archive /\ call'.op = "none" /\ pos' = q
    BY <1>1 DEF Seek, NoCall
  <2>2. opened' \in BOOLEAN
    BY <1>1 DEF Seek, Called
  <2>3. q \in Packets
    BY <1>0, <1>1 DEF Seek, InRange, IsArchive, Packets
  <2> QED
    BY <1>0, <2>1, <2>2, <2>3 DEF Called, Packets
<1>2. CASE Current
  <2>1. UNCHANGED <<archive, pos>> /\ call'.op = "none" /\ opened' = TRUE
    BY <1>2 DEF Current, NoCall
  <2> QED
    BY <1>0, <2>1 DEF Called, Packets
<1>3. ASSUME NEW b \in Begins, NEW e \in Ends, NEW align \in Aligns, TimeCut(b, e, align)
      PROVE  Called'
  <2>1. /\ archive' = archive /\ opened' = TRUE
        /\ call' = [op |-> "cut", org |-> pos, opened |-> opened, b |-> b, e |-> e, align |-> align,
                    res |-> Cut(archive, pos, b, e, align)]
        /\ pos' = Cut(archive, pos, b, e, align).stop
    BY <1>3 DEF TimeCut
  <2>2. pos' \in Of(archive)
    BY <1>0, <2>1, CutPositions, TimesAssumption
  <2>3. /\ call'.op = "cut" /\ call'.org = pos /\ call'.opened = opened /\ call'.b = b
        /\ call'.e = e /\ call'.align = align
        /\ call'.res = Cut(archive, pos, b, e, align)
    BY <2>1
  <2>4. Packets' = Packets /\ opened \in BOOLEAN
    BY <2>1 DEF Packets, Called
  <2> QED
    BY <1>0, <2>1, <2>2, <2>3, <2>4 DEF Called
<1>4. ASSUME NEW b \in Begins, NEW e \in Ends, NEW align \in {"no", "yes"}, TimeSlice(b, e, align)
      PROVE  Called'
  <2>1. /\ archive' = archive /\ opened' = TRUE
        /\ call' = [op |-> "slice", org |-> pos, opened |-> opened, b |-> b, e |-> e,
                    align |-> align, res |-> Slice(archive, pos, b, e, align = "yes", opened)]
        /\ pos' = SliceEnd(b, e)
    BY <1>4 DEF TimeSlice
  <2>2. /\ call'.op = "slice" /\ call'.org = pos /\ call'.opened = opened /\ call'.b = b
        /\ call'.e = e /\ call'.align = align
        /\ call'.res = Slice(archive, pos, b, e, align = "yes", opened)
    BY <2>1
  <2>3. SliceEnd(b, e) \in Of(archive)
    BY <1>0, Found, TimesAssumption DEF SliceEnd
  <2>4. SliceEnd(b, e) = FastForward(archive', call'.org, EndSecs').pos
    BY <2>1, <2>2 DEF SliceEnd, EndSecs
  <2>5. Packets' = Packets /\ opened \in BOOLEAN
    BY <2>1 DEF Packets, Called
  <2> QED
    BY <1>0, <2>1, <2>2, <2>3, <2>4, <2>5 DEF Called
<1>5. CASE UNCHANGED vars
  BY <1>5 DEF vars, Called, Packets, EndSecs
<1> QED
  BY <1>1, <1>2, <1>3, <1>4, <1>5 DEF Next

THEOREM Invariant == Spec => []Called
  BY InitCalled, NextCalled, PTL DEF Spec

LEMMA CalledTypes == Called => TypeOK
<1> SUFFICES ASSUME Called PROVE TypeOK
  OBVIOUS
<1>1. IsArchive(archive) /\ Packets = Of(archive) /\ pos \in Packets /\ opened \in BOOLEAN
  BY ArchiveIs DEF Called
<1>2. CASE call.op = "cut"
  <2>1. call.res.start \in Of(archive) /\ call.res.stop \in Of(archive)
    BY <1>1, <1>2, CutPositions, TimesAssumption DEF Called
  <2> QED
    BY <1>1, <2>1 DEF TypeOK
<1>3. CASE call.op = "slice"
  <2> DEFINE aligned == call.align = "yes"
  <2>1. aligned \in BOOLEAN /\ call.res = Slice(archive, call.org, call.b, call.e, aligned, call.opened)
    BY <1>3 DEF Called
  <2>2. call.org \in Of(archive) /\ call.b \in Begins /\ call.e \in Ends /\ call.opened \in BOOLEAN
    BY <1>1, <1>3 DEF Called
  <2> HIDE DEF aligned
  <2>3. call.res.start \in Of(archive) /\ call.res.stop \in Of(archive)
    BY <1>1, <2>1, <2>2, SlicePositions, TimesAssumption
  <2> QED
    BY <1>1, <2>3 DEF TypeOK
<1> QED
  BY <1>1, <1>2, <1>3 DEF TypeOK, Called

\* time_cut and time_slice never leave the archive, and return packets of it.
THEOREM TypeCorrect == Spec => []TypeOK
  BY CalledTypes, Invariant, PTL
-----------------------------------------------------------------------------
(***************************************************************************)
(* Offsets.                                                                *)
(***************************************************************************)
\* Where a call for the time d stops, and what it says it is late by.
LEMMA Late ==
    ASSUME Called, call.op # "none", NEW d \in Int
    PROVE  LET f == FastForward(archive, call.org, d) IN
           /\ f.pos \in Packets /\ f.dt \in Int /\ Time(f.pos) \in Int
           /\ d >= 0 => d + f.dt = Time(f.pos)
<1> DEFINE f == FastForward(archive, call.org, d)
<1>1. IsArchive(archive) /\ Packets = Of(archive) /\ call.org \in Of(archive)
  BY ArchiveIs DEF Called
<1>2. /\ f.pos \in Of(archive) /\ f.dt \in Int
      /\ d >= 0 => d + f.dt = Interval(archive, call.org, f.pos)
  BY <1>1, Forward
<1>3. Time(f.pos) = Interval(archive, call.org, f.pos) /\ Time(f.pos) \in Int
  BY <1>1, <1>2, IntervalType DEF Time
<1> HIDE DEF f
<1> SUFFICES /\ f.pos \in Packets /\ f.dt \in Int /\ Time(f.pos) \in Int
             /\ d >= 0 => d + f.dt = Time(f.pos)
  BY DEF f
<1> QED
  BY <1>1, <1>2, <1>3

\* From a packet to another and on to a third.
LEMMA OnwardTime ==
    ASSUME Called, call.op # "none", NEW p \in Packets, NEW q \in Packets
    PROVE  Time(p) \in Int /\ Time(q) \in Int /\ Time(p) + Interval(archive, p, q) = Time(q)
<1>1. IsArchive(archive) /\ Packets = Of(archive) /\ call.org \in Of(archive)
  BY ArchiveIs DEF Called
<1>2. archive.secs[p] \in Int /\ archive.secs[q] \in Int /\ archive.secs[call.org] \in Int
  BY <1>1, IntervalType
<1> QED
  BY <1>2 DEF Time, Interval

LEMMA CutFacts ==
    ASSUME Called, call.op = "cut"
    PROVE  /\ IsArchive(archive) /\ Packets = Of(archive) /\ call.org \in Packets
           /\ call.b \in Int /\ call.align \in Aligns
           /\ call.e # None => call.e \in Int
           /\ archive.first \in Nat /\ archive.last \in Nat /\ archive.last \in Packets
<1>1. IsArchive(archive) /\ Packets = Of(archive)
  BY ArchiveIs DEF Called
<1>2. archive.first \in Nat /\ archive.last \in Nat /\ archive.last \in Packets
  BY <1>1 DEF IsArchive, Of
<1>3. call.org \in Packets /\ call.b \in Begins /\ call.e \in Ends /\ call.align \in Aligns
  BY DEF Called
<1> QED
  BY <1>1, <1>2, <1>3, TimesAssumption

LEMMA CalledOffsets == Called => OffsetsAreExact
<1> SUFFICES ASSUME Called, call.op = "cut"
             PROVE  /\ call.b >= 0 => call.res.start_secs = Time(call.res.start)
                    /\ call.e = None \/ call.e >= 0 => call.res.stop_secs = Time(call.res.stop)
  BY DEF OffsetsAreExact
<1> DEFINE f == FastForward(archive, call.org, call.b)
           t == IF call.e = None THEN [pos |-> archive.last, dt |-> 0]
                ELSE FastForward(archive, call.org, call.e)
<1>1. /\ IsArchive(archive) /\ Packets = Of(archive) /\ call.org \in Packets
      /\ call.b \in Int /\ call.align \in Aligns
      /\ call.e # None => call.e \in Int
      /\ archive.last \in Packets
  BY CutFacts
<1>2. /\ call.res.start = AlignStart(archive, f.pos, call.align)
      /\ call.res.stop = AlignStop(archive, t.pos, call.align)
      /\ call.res.start_secs = call.b + f.dt + Interval(archive, f.pos, call.res.start)
      /\ call.res.stop_secs = EndSecs + t.dt + Interval(archive, t.pos, call.res.stop)
  BY DEF Called, Cut, EndSecs
<1>3. /\ f.pos \in Packets /\ f.dt \in Int /\ Time(f.pos) \in Int
      /\ call.b >= 0 => call.b + f.dt = Time(f.pos)
  BY <1>1, Late
<1>4. /\ t.pos \in Packets /\ Time(t.pos) \in Int
      /\ call.e = None \/ call.e >= 0 => EndSecs + t.dt = Time(t.pos)
  <2>1. CASE call.e = None
    <3>1. EndSecs = Interval(archive, call.org, archive.last) /\ t.pos = archive.last /\ t.dt = 0
      BY <2>1 DEF EndSecs
    <3>2. EndSecs \in Int /\ EndSecs = Time(archive.last)
      BY <1>1, <3>1, IntervalType DEF Time
    <3> QED
      BY <1>1, <3>1, <3>2
  <2>2. CASE call.e # None
    <3>1. EndSecs = call.e /\ t = FastForward(archive, call.org, call.e)
      BY <2>2 DEF EndSecs
    <3> HIDE DEF t
    <3>2. /\ t.pos \in Packets /\ Time(t.pos) \in Int
          /\ call.e >= 0 => call.e + t.dt = Time(t.pos)
      BY <1>1, <2>2, <3>1, Late
    <3> QED
      BY <2>2, <3>1, <3>2
  <2> QED
    BY <2>1, <2>2
<1> HIDE DEF f, t
<1>5. call.res.start \in Packets /\ call.res.stop \in Packets
  BY <1>1, <1>2, <1>3, <1>4, Aligned
<1>6. /\ Time(f.pos) + Interval(archive, f.pos, call.res.start) = Time(call.res.start)
      /\ Time(t.pos) + Interval(archive, t.pos, call.res.stop) = Time(call.res.stop)
  BY <1>3, <1>4, <1>5, OnwardTime
<1>7. call.b >= 0 => call.res.start_secs = Time(call.res.start)
  BY <1>2, <1>3, <1>6
<1>8. call.e = None \/ call.e >= 0 => call.res.stop_secs = Time(call.res.stop)
  BY <1>2, <1>4, <1>6
<1> QED
  BY <1>7, <1>8

\* The offsets an aligned time_cut returns are the times of the positions it returns,
\* whatever the order of the packets' times and how far the searches overshoot, of a
\* begin and of an end that are not before the cursor.
THEOREM OffsetsAreAlwaysExact == Spec => []OffsetsAreExact
  BY CalledOffsets, Invariant, PTL

-----------------------------------------------------------------------------
(***************************************************************************)
(* Cuts and slices.                                                        *)
(***************************************************************************)
\* With times in order the packets that a search for d skips are those before d.
LEMMA SkippedIsBefore ==
    ASSUME Called, call.op # "none", Sorted, NEW d \in Int,
           NEW q \in call.org .. archive.last - 1
    PROVE  FastForward(archive, call.org, d).pos <= q <=> d <= Time(q)
<1> DEFINE f == FastForward(archive, call.org, d)
<1>1. /\ IsArchive(archive) /\ Packets = Of(archive) /\ call.org \in Packets
      /\ archive.first \in Nat /\ archive.last \in Nat /\ call.org \in Nat
      /\ archive.first <= call.org /\ q \in Packets /\ q \in Nat
      /\ call.org <= q /\ q < archive.last
  BY ArchiveIs DEF Called, IsArchive, Of
<1>2. \A x \in Packets : archive.secs[x] \in Int
  BY <1>1, IntervalType
<1>3. Time(q) \in Int /\ Time(q) >= 0 /\ Time(q) = archive.secs[q] - archive.secs[call.org]
  BY <1>1, <1>2 DEF Sorted, Time
<1>4. CASE d <= 0
  <2>1. f.pos \in Of(archive) /\ f.pos <= call.org
    BY <1>1, <1>4, Forward
  <2> HIDE DEF f
  <2>2. f.pos \in Nat
    BY <1>1, <2>1 DEF Of
  <2>3. f.pos <= q <=> d <= Time(q)
    BY <1>1, <1>3, <1>4, <2>1, <2>2
  <2> QED
    BY <2>3 DEF f
<1>5. CASE d > 0
  <2>1. f.pos = AheadBy(archive, call.org, d)
    BY <1>5 DEF FastForward
  <2> HIDE DEF f
  <2>2. /\ f.pos \in Packets /\ call.org <= f.pos
        /\ \A x \in call.org + 1 .. f.pos - 1 : archive.secs[x] - archive.secs[call.org] < d
        /\ f.pos # archive.last => archive.secs[f.pos] - archive.secs[call.org] >= d
    BY <1>1, <2>1, Ahead
  <2>3. ASSUME f.pos <= q PROVE d <= Time(q)
    <3>1. f.pos # archive.last /\ f.pos \in Nat
      BY <1>1, <2>2, <2>3 DEF Of
    <3>2. archive.secs[f.pos] <= archive.secs[q]
      <4>1. CASE f.pos = q
        BY <1>1, <1>2, <4>1
      <4>2. CASE f.pos # q
        <5>1. f.pos < q
          BY <1>1, <2>3, <3>1, <4>2
        <5> QED
          BY <1>1, <2>2, <5>1 DEF Sorted
      <4> QED
        BY <4>1, <4>2
    <3> QED
      BY <1>1, <1>2, <1>3, <2>2, <3>1, <3>2
  <2>4. ASSUME q < f.pos PROVE Time(q) < d
    <3>1. CASE q = call.org
      BY <1>1, <1>2, <1>3, <1>5, <3>1
    <3>2. CASE q # call.org
      <4>1. q \in call.org + 1 .. f.pos - 1
        BY <1>1, <2>2, <2>4, <3>2 DEF Of
      <4> QED
        BY <1>3, <2>2, <4>1
    <3> QED
      BY <3>1, <3>2
  <2>5. f.pos \in Nat
    BY <1>1, <2>2 DEF Of
  <2> QED
    BY <1>1, <1>3, <2>3, <2>4, <2>5 DEF f
<1> QED
  BY <1>4, <1>5

LEMMA CalledCuts == Called => CutIsTimeRange
<1> SUFFICES ASSUME Called, call.op = "cut" PROVE CutIsTimeRange
  BY DEF CutIsTimeRange
<1> DEFINE f == FastForward(archive, call.org, call.b)
           t == IF call.e = None THEN [pos |-> archive.last, dt |-> 0]
                ELSE FastForward(archive, call.org, call.e)
<1>1. /\ IsArchive(archive) /\ Packets = Of(archive) /\ call.org \in Packets
      /\ call.b \in Int /\ call.align \in Aligns
      /\ call.e # None => call.e \in Int
      /\ archive.first \in Nat /\ archive.last \in Nat /\ archive.last \in Packets
  BY CutFacts
<1>2. /\ call.res.start = AlignStart(archive, f.pos, call.align)
      /\ call.res.stop = AlignStop(archive, t.pos, call.align)
  BY DEF Called, Cut
<1>3. f.pos \in Packets /\ t.pos \in Packets
  BY <1>1, Forward
<1>4. ASSUME call.align # "no", archive.video, NEW q \in {call.res.start, call.res.stop}
      PROVE  q \in archive.starts \cup {archive.first}
  <2> HIDE DEF f, t
  <2> QED
    BY <1>1, <1>2, <1>3, <1>4, Aligned
<1>5. ASSUME call.align = "no", call.b >= 0, Sorted
      PROVE  call.res.start .. call.res.stop - 1 =
                { q \in call.org .. archive.last - 1 :
                    call.b <= Time(q) /\ (call.e = None \/ Time(q) < call.e) }
  <2>1. call.res.start = f.pos /\ call.res.stop = t.pos
    <3> HIDE DEF f, t
    <3> QED
      BY <1>1, <1>2, <1>3, <1>5, Aligned
  <2>2. call.org <= f.pos
    BY <1>1, <1>5, Forward
  <2>3. /\ f.pos \in Nat /\ t.pos \in Nat /\ call.org \in Nat
        /\ f.pos <= archive.last /\ t.pos <= archive.last
    BY <1>1, <1>3 DEF Of
  <2>4. ASSUME NEW q \in call.org .. archive.last - 1
        PROVE  /\ f.pos <= q <=> call.b <= Time(q)
               /\ q < t.pos <=> (call.e = None \/ Time(q) < call.e)
    <3>1. f.pos <= q <=> call.b <= Time(q)
      BY <1>1, <1>5, <2>4, SkippedIsBefore
    <3>2. CASE call.e = None
      BY <1>1, <2>3, <2>4, <3>1, <3>2
    <3>3. CASE call.e # None
      <4>1. t.pos <= q <=> call.e <= Time(q)
        BY <1>1, <1>5, <2>4, <3>3, SkippedIsBefore
      <4>2. q \in Packets /\ Time(q) \in Int
        <5>1. q \in Packets
          BY <1>1, <2>3, <2>4 DEF Of
        <5> QED
          BY <1>1, <5>1, OnwardTime
      <4> QED
        BY <1>1, <2>3, <2>4, <3>1, <3>3, <4>1, <4>2
    <3> QED
      BY <3>2, <3>3
  <2> HIDE DEF f, t
  <2>5. \A q : q \in f.pos .. t.pos - 1 =>
              q \in call.org .. archive.last - 1 /\ f.pos <= q /\ q < t.pos
    BY <1>1, <2>2, <2>3
  <2>6. \A q : q \in call.org .. archive.last - 1 /\ f.pos <= q /\ q < t.pos =>
              q \in f.pos .. t.pos - 1
    BY <1>1, <2>2, <2>3
  <2> QED
    BY <2>1, <2>4, <2>5, <2>6
<1> QED
  BY <1>4, <1>5 DEF CutIsTimeRange

\* An unaligned cut holds the packets in its range of time and no other, for any
\* archive whose times are in order; an aligned one of video begins and ends with frames.
THEOREM CutIsAlwaysTimeRange == Spec => []CutIsTimeRange
  BY CalledCuts, Invariant, PTL

LEMMA CalledSlices == Called => SliceIsDecodable
<1> DEFINE begin == FastForward(archive, call.org, call.b).pos
<1> SUFFICES ASSUME Called, call.op = "slice", call.align = "yes", archive.video,
                    call.opened \/ call.b # 0,
                    NEW k \in archive.keys, begin < k, k < pos
             PROVE  /\ call.res.start \in archive.keys /\ call.res.stop \in archive.starts
                    /\ call.res.start <= call.res.stop
  BY DEF SliceIsDecodable
<1>1. /\ IsArchive(archive) /\ Packets = Of(archive) /\ call.org \in Packets /\ pos \in Packets
      /\ call.b \in Int /\ archive.keys \subseteq archive.starts /\ archive.starts \subseteq Packets
  BY ArchiveIs, TimesAssumption DEF Called, IsArchive, Of
<1>2. begin \in Packets
  BY <1>1, Forward
<1> DEFINE opn == call.opened \/ call.b # 0
<1>3. /\ call.res.start = NextKey(archive, begin, opn)
      /\ call.res.stop = PrevStart(archive, pos)
  <2>1. call.res = Slice(archive, call.org, call.b, call.e, call.align = "yes", call.opened)
        /\ pos = FastForward(archive, call.org, EndSecs).pos
    BY DEF Called
  <2> QED
    BY <2>1 DEF Slice, EndSecs
<1>0. opn \in BOOLEAN /\ opn
  OBVIOUS
<1> HIDE DEF begin, opn
<1>4. call.res.start <= k /\ call.res.start \in archive.keys
  BY <1>0, <1>1, <1>2, <1>3, KeyAfter
<1>5. k <= call.res.stop /\ call.res.stop \in archive.starts
  BY <1>1, <1>3, StartBefore
<1>6. call.res.start \in Int /\ call.res.stop \in Int /\ k \in Int
  BY <1>1, <1>4, <1>5 DEF Of, IsArchive
<1> QED
  BY <1>4, <1>5, <1>6

\* An aligned slice of video with a key frame in it begins with one and ends before a frame.
THEOREM SliceIsAlwaysDecodable == Spec => []SliceIsDecodable
  BY CalledSlices, Invariant, PTL

-----------------------------------------------------------------------------
(***************************************************************************)
(* Windows: the parts of a recording.                                      *)
(***************************************************************************)
LEMMA MaxOfTwo ==
    ASSUME NEW x \in Int, NEW y \in Int
    PROVE  Max({x, y}) \in {x, y} /\ x <= Max({x, y}) /\ y <= Max({x, y})
<1>1. \E m \in {x, y} : \A n \in {x, y} : m >= n
  BY x >= y \/ y >= x
<1> QED
  BY <1>1 DEF Max

LEMMA MinOfTwo ==
    ASSUME NEW x \in Int, NEW y \in Int
    PROVE  Min({x, y}) \in {x, y} /\ Min({x, y}) <= x /\ Min({x, y}) <= y
<1>1. \E m \in {x, y} : \A n \in {x, y} : m <= n
  BY x <= y \/ y <= x
<1> QED
  BY <1>1 DEF Min

\* The bounds before q: as many as the part's number.
Below(B, q) == { r \in B : r < q }

LEMMA BelowCard ==
    ASSUME NEW B, IsFiniteSet(B), NEW q
    PROVE  IsFiniteSet(Below(B, q)) /\ Cardinality(Below(B, q)) \in Nat
<1>1. Below(B, q) \subseteq B
  BY DEF Below
<1> QED
  BY <1>1, FS_Subset, FS_CardinalityType

LEMMA BelowNext ==
    ASSUME NEW B \in SUBSET Nat, IsFiniteSet(B), NEW p \in B, NEW q \in B, p < q
    PROVE  /\ Cardinality(Below(B, p)) + 1 <= Cardinality(Below(B, q))
           /\ (\A r \in B : r < q => r <= p) => Cardinality(Below(B, q)) = Cardinality(Below(B, p)) + 1
<1> DEFINE S == Below(B, p) \cup {p}
<1>1. IsFiniteSet(Below(B, p)) /\ IsFiniteSet(Below(B, q)) /\ Cardinality(Below(B, p)) \in Nat
  BY BelowCard
<1>2. p \notin Below(B, p)
  BY DEF Below
<1>3. IsFiniteSet(S) /\ Cardinality(S) = Cardinality(Below(B, p)) + 1
  BY <1>1, <1>2, FS_AddElement
<1>4. \A r : r \in S => r \in Below(B, q)
  <2> TAKE r
  <2>1. p \in Nat /\ q \in Nat /\ r \in B => r \in Nat
    OBVIOUS
  <2> QED
    BY <2>1 DEF Below
<1>5. Cardinality(S) <= Cardinality(Below(B, q))
  BY <1>1, <1>4, FS_Subset
<1>6. ASSUME \A r \in B : r < q => r <= p PROVE S = Below(B, q)
  <2>1. ASSUME NEW r \in Below(B, q) PROVE r \in S
    <3>1. r \in B /\ r \in Nat /\ p \in Nat /\ r <= p
      BY <1>6 DEF Below
    <3> QED
      BY <3>1 DEF Below
  <2> QED
    BY <1>4, <2>1
<1> QED
  BY <1>3, <1>5, <1>6

\* A finite set of positions has one of every rank.
LEMMA RankExists ==
    ASSUME NEW n \in Nat, NEW B \in SUBSET (0 .. n), NEW k \in Nat, k < Cardinality(B)
    PROVE  \E q \in B : Cardinality(Below(B, q)) = k
<1> DEFINE D == { q \in B : k <= Cardinality(Below(B, q)) }
<1>1. B \in SUBSET Nat /\ IsFiniteSet(B) /\ Cardinality(B) \in Nat /\ B # {}
  <2>1. IsFiniteSet(0 .. n)
    BY FS_Interval
  <2>2. IsFiniteSet(B) /\ Cardinality(B) \in Nat
    BY <2>1, FS_Subset, FS_CardinalityType
  <2>3. B # {}
    BY <2>2, FS_EmptySet
  <2> QED
    BY <2>2, <2>3
<1>2. D # {}
  <2> DEFINE m == Max(B)
  <2>1. m \in B /\ \A y \in B : y <= m
    BY <1>1, MaxOfPositions
  <2> HIDE DEF m
  <2>2. Below(B, m) = B \ {m}
    <3>1. ASSUME NEW r \in B PROVE r < m <=> r # m
      BY <1>1, <2>1
    <3> QED
      BY <3>1 DEF Below
  <2>3. Cardinality(B \ {m}) = Cardinality(B) - 1
    BY <1>1, <2>1, FS_RemoveElement
  <2>4. k <= Cardinality(Below(B, m))
    BY <1>1, <2>2, <2>3
  <2> QED
    BY <2>1, <2>4
<1>3. D \in SUBSET Nat
  BY <1>1
<1> DEFINE q == Min(D)
<1>4. q \in D /\ \A y \in D : q <= y
  BY <1>2, <1>3, MinOfPositions
<1>5. q \in B /\ k <= Cardinality(Below(B, q)) /\ Cardinality(Below(B, q)) \in Nat
  BY <1>1, <1>4, BelowCard
<1> HIDE DEF q
<1>6. ASSUME k < Cardinality(Below(B, q)) PROVE FALSE
  <2> DEFINE p == Max(Below(B, q))
  <2>1. Below(B, q) # {}
    BY <1>5, <1>6, FS_EmptySet
  <2>2. Below(B, q) \in SUBSET (0 .. n)
    BY DEF Below
  <2>3. p \in Below(B, q) /\ \A y \in Below(B, q) : y <= p
    BY <2>1, <2>2, MaxOfPositions
  <2> HIDE DEF p
  <2>4. p \in B /\ p < q /\ \A r \in B : r < q => r <= p
    BY <2>3 DEF Below
  <2>5. Cardinality(Below(B, q)) = Cardinality(Below(B, p)) + 1
    BY <1>1, <1>5, <2>4, BelowNext
  <2>6. Cardinality(Below(B, p)) \in Nat
    BY <1>1, BelowCard
  <2>7. p \in D
    BY <1>6, <2>4, <2>5, <2>6
  <2> HIDE DEF D
  <2> QED
    BY <1>1, <1>4, <1>5, <2>4, <2>7
<1> QED
  BY <1>5, <1>6

LEMMA RecordingIs ==
    ASSUME recording \in Recordings
    PROVE  /\ IsArchive(recording) /\ recording.first \in Nat /\ recording.last \in Nat
           /\ recording.bounds \in SUBSET (0 .. recording.last) /\ recording.bounds \in SUBSET Nat
           /\ \A q \in recording.bounds : recording.first <= q /\ q <= recording.last
           /\ IsFiniteSet(recording.bounds) /\ NbParts \in Nat
<1>1. IsArchive(recording)
  BY RecordingsAssumption
<1>2. /\ recording.first \in Nat /\ recording.last \in Nat
      /\ recording.bounds \subseteq recording.first .. recording.last
  BY <1>1 DEF IsArchive
<1>3. IsFiniteSet(recording.first .. recording.last)
  BY <1>2, FS_Interval
<1>4. IsFiniteSet(recording.bounds) /\ NbParts \in Nat
  BY <1>2, <1>3, FS_Subset, FS_CardinalityType DEF NbParts
<1> QED
  BY <1>1, <1>2, <1>4

LEMMA BoundIs ==
    ASSUME recording \in Recordings, NEW k \in 0 .. NbParts - 1
    PROVE  Bound(k) \in recording.bounds /\ Cardinality(Below(recording.bounds, Bound(k))) = k
<1> DEFINE B == recording.bounds
           q == CHOOSE r \in B : Cardinality(Below(B, r)) = k
<1>0. NbParts \in Nat /\ recording.last \in Nat /\ B \in SUBSET (0 .. recording.last)
  BY RecordingIs
<1>1. k \in Nat /\ k # NbParts /\ k < Cardinality(B)
  BY <1>0 DEF NbParts
<1>2. Bound(k) = q
  BY <1>1 DEF Bound, Below
<1> HIDE DEF B
<1>3. \E r \in B : Cardinality(Below(B, r)) = k
  BY <1>0, <1>1, RankExists
<1>4. q \in B /\ Cardinality(Below(B, q)) = k
  BY <1>3
<1> QED
  BY <1>2, <1>4 DEF B

LEMMA BoundType ==
    ASSUME recording \in Recordings, NEW k \in 0 .. NbParts
    PROVE  /\ Bound(k) \in Nat /\ recording.first <= Bound(k) /\ Bound(k) <= recording.last + 1
           /\ k < NbParts => Bound(k) \in recording.bounds /\ Bound(k) <= recording.last
<1>1. CASE k < NbParts
  BY <1>1, BoundIs, RecordingIs
<1>2. CASE k = NbParts
  <2>1. Bound(k) = recording.last + 1
    BY <1>2 DEF Bound
  <2> QED
    BY <1>2, <2>1, RecordingIs DEF IsArchive
<1> QED
  BY <1>1, <1>2, RecordingIs

\* Later parts begin later.
LEMMA BoundsRise ==
    ASSUME recording \in Recordings, NEW j \in 0 .. NbParts, NEW k \in 0 .. NbParts, j < k
    PROVE  Bound(j) < Bound(k)
<1>1. /\ Bound(j) \in Nat /\ Bound(k) \in Nat /\ j < NbParts
      /\ Bound(j) \in recording.bounds /\ Bound(j) <= recording.last
  BY BoundType, RecordingIs
<1>2. CASE k = NbParts
  BY <1>1, <1>2, RecordingIs DEF Bound
<1>3. CASE k < NbParts
  <2>1. Bound(k) \in recording.bounds /\ Cardinality(Below(recording.bounds, Bound(k))) = k
        /\ Cardinality(Below(recording.bounds, Bound(j))) = j
    BY <1>1, <1>3, BoundIs, RecordingIs
  <2>2. ~(Bound(k) < Bound(j))
    BY <1>1, <2>1, BelowNext, RecordingIs
  <2>3. Bound(k) # Bound(j)
    BY <2>1
  <2> QED
    BY <1>1, <2>2, <2>3
<1> QED
  BY <1>2, <1>3, RecordingIs

-----------------------------------------------------------------------------
(***************************************************************************)
(* The window of the step that begins at part j when t parts are recorded. *)
(***************************************************************************)
From(j) == Max({0, j - sizing.lead})
To(j, t) == Min({t, j + sizing.size + sizing.lag})
ReadyAt(j, t) == j < t /\ (j + sizing.size <= t \/ t = NbParts)

WindowOf(j, t) ==
    LET first == Bound(From(j))
        last == Bound(To(j, t)) - 1
    IN [first |-> first, last |-> last,
        secs |-> [q \in first .. last |-> recording.secs[q]],
        bounds |-> recording.bounds \cap (first .. last),
        starts |-> recording.starts \cap (first .. last),
        keys |-> recording.keys \cap (first .. last),
        video |-> recording.video]

DeltaOf(j, t) ==
    LET e == Min({j + sizing.size, To(j, t)})
    IN IF e = To(j, t) THEN None ELSE Interval(recording, Bound(j), Bound(e))

CutOf(j, t) == Cut(WindowOf(j, t), Bound(j), 0, DeltaOf(j, t), "prev")

LEMMA SizingIs ==
    ASSUME sizing \in Sizings
    PROVE  /\ sizing.lead \in Nat /\ sizing.size \in Nat /\ sizing.lag \in Nat
           /\ sizing.size > 0
  BY SizingsAssumption

LEMMA WindowEnds ==
    ASSUME recording \in Recordings, sizing \in Sizings,
           NEW j \in Nat, NEW t \in 0 .. NbParts, ReadyAt(j, t)
    PROVE  LET w == WindowOf(j, t) IN
           /\ j \in 0 .. NbParts /\ From(j) \in 0 .. NbParts /\ To(j, t) \in 0 .. NbParts
           /\ From(j) <= j /\ j < To(j, t)
           /\ w.first = Bound(From(j)) /\ w.last = Bound(To(j, t)) - 1
           /\ w.first \in Nat /\ w.last \in Nat
           /\ recording.first <= w.first /\ w.first <= Bound(j) /\ Bound(j) <= w.last
           /\ w.last <= recording.last /\ Bound(j) \in Nat
<1>1. /\ NbParts \in Nat /\ sizing.lead \in Nat /\ sizing.size \in Nat /\ sizing.lag \in Nat
      /\ sizing.size > 0 /\ recording.first \in Nat /\ recording.last \in Nat
  BY RecordingIs, SizingIs
<1>2. j \in 0 .. NbParts /\ j < t
  BY <1>1 DEF ReadyAt
<1>3. From(j) \in {0, j - sizing.lead} /\ 0 <= From(j)
  <2> DEFINE b == j - sizing.lead
  <2>1. b \in Int /\ From(j) = Max({0, b})
    BY <1>1 DEF From
  <2> HIDE DEF b
  <2>2. Max({0, b}) \in {0, b} /\ 0 <= Max({0, b})
    <3>1. 0 \in Int
      OBVIOUS
    <3> QED
      BY <2>1, <3>1, MaxOfTwo, Zenon
  <2> QED
    BY <2>1, <2>2 DEF b
<1>4. To(j, t) \in {t, j + sizing.size + sizing.lag} /\ To(j, t) <= t
  <2> DEFINE b == j + sizing.size + sizing.lag
  <2>1. b \in Int /\ t \in Int /\ To(j, t) = Min({t, b})
    BY <1>1 DEF To
  <2> HIDE DEF b
  <2>2. To(j, t) \in {t, b} /\ To(j, t) <= t
    BY <2>1, MinOfTwo
  <2> QED
    BY <2>2 DEF b
<1>5. From(j) \in 0 .. NbParts /\ To(j, t) \in 0 .. NbParts /\ From(j) <= j /\ j < To(j, t)
  BY <1>1, <1>2, <1>3, <1>4
<1>6. WindowOf(j, t).first = Bound(From(j)) /\ WindowOf(j, t).last = Bound(To(j, t)) - 1
  BY DEF WindowOf
<1>7. /\ Bound(From(j)) \in Nat /\ Bound(j) \in Nat /\ Bound(To(j, t)) \in Nat
      /\ recording.first <= Bound(From(j)) /\ Bound(To(j, t)) <= recording.last + 1
  BY <1>2, <1>5, BoundType
<1>8. Bound(j) < Bound(To(j, t))
  BY <1>2, <1>5, BoundsRise
<1>9. Bound(From(j)) <= Bound(j)
  <2>1. CASE From(j) = j
    BY <1>7, <2>1
  <2>2. CASE From(j) # j
    <3>1. Bound(From(j)) < Bound(j)
      BY <1>1, <1>2, <1>5, <2>2, BoundsRise
    <3> QED
      BY <1>7, <3>1
  <2> QED
    BY <2>1, <2>2
<1> QED
  BY <1>1, <1>2, <1>5, <1>6, <1>7, <1>8, <1>9

\* A window is itself an archive.
LEMMA WindowIsArchive ==
    ASSUME recording \in Recordings, sizing \in Sizings,
           NEW j \in Nat, NEW t \in 0 .. NbParts, ReadyAt(j, t)
    PROVE  LET w == WindowOf(j, t) IN
           /\ IsArchive(w) /\ Bound(j) \in Of(w) /\ w.video = recording.video
           /\ w.secs = [q \in Of(w) |-> recording.secs[q]]
           /\ \A q : q \in w.starts <=> q \in recording.starts /\ q \in Of(w)
           /\ \A q \in Of(w) : w.secs[q] = recording.secs[q] /\ recording.secs[q] \in Int
<1> DEFINE w == WindowOf(j, t)
<1>1. /\ w.first \in Nat /\ w.last \in Nat /\ w.first <= w.last
      /\ recording.first <= w.first /\ w.last <= recording.last
      /\ Bound(j) \in Nat /\ w.first <= Bound(j) /\ Bound(j) <= w.last
      /\ w.first = Bound(From(j)) /\ From(j) \in 0 .. NbParts /\ From(j) < NbParts
  <2>1. NbParts \in Nat
    BY RecordingIs
  <2>2. From(j) <= j /\ j < To(j, t) /\ From(j) \in 0 .. NbParts /\ To(j, t) \in 0 .. NbParts
    BY WindowEnds
  <2>3. From(j) < NbParts
    BY <2>1, <2>2
  <2>4. w.first <= w.last
    BY WindowEnds
  <2> HIDE DEF w
  <2> QED
    BY <2>2, <2>3, <2>4, WindowEnds DEF w
<1>2. /\ recording.secs \in [recording.first .. recording.last -> Int]
      /\ recording.keys \subseteq recording.starts /\ recording.video \in BOOLEAN
      /\ recording.first \in Nat /\ recording.last \in Nat
  BY RecordingIs DEF IsArchive
<1>3. Bound(From(j)) \in recording.bounds
  BY <1>1, BoundType
<1>4. /\ w.secs = [q \in w.first .. w.last |-> recording.secs[q]]
      /\ w.bounds = recording.bounds \cap (w.first .. w.last)
      /\ w.starts = recording.starts \cap (w.first .. w.last)
      /\ w.keys = recording.keys \cap (w.first .. w.last)
      /\ w.video = recording.video
  BY DEF WindowOf
<1> HIDE DEF w
<1>5. \A q \in w.first .. w.last : recording.secs[q] \in Int
  BY <1>1, <1>2
<1>6. w.first \in w.bounds
  BY <1>1, <1>3, <1>4
<1>7. IsArchive(w)
  BY <1>1, <1>2, <1>4, <1>5, <1>6 DEF IsArchive
<1> QED
  BY <1>1, <1>4, <1>5, <1>7 DEF Of, w

-----------------------------------------------------------------------------
(***************************************************************************)
(* Two steps: one begins at part j with t parts recorded, the next at part *)
(* k with u.  Both end at the last frame start before the packet ahead of  *)
(* part k, or at that packet.                                              *)
(***************************************************************************)
AlignedAt(w, p) == IF w.video THEN PrevStart(w, p) ELSE p

LEMMA NextStarts ==
    ASSUME recording \in Recordings, sizing \in Sizings, sizing.lead > 0,
           NEW k \in Nat, NEW u \in 0 .. NbParts, ReadyAt(k, u), k > 0
    PROVE  /\ CutOf(k, u).start = AlignedAt(WindowOf(k, u), Bound(k) - 1)
           /\ Bound(k) - 1 \in Of(WindowOf(k, u))
<1> DEFINE w == WindowOf(k, u)
           f == FastForward(w, Bound(k), 0)
<1>1. /\ w.first \in Nat /\ w.last \in Nat /\ w.first <= Bound(k) /\ Bound(k) <= w.last
      /\ Bound(k) \in Nat /\ w.first = Bound(From(k)) /\ From(k) \in 0 .. NbParts
      /\ From(k) <= k /\ k \in 0 .. NbParts
  BY WindowEnds
<1>2. From(k) < k
  <2> DEFINE b == k - sizing.lead
  <2>1. b \in Int /\ From(k) = Max({0, b}) /\ b < k
    BY SizingIs DEF From
  <2> HIDE DEF b
  <2>2. Max({0, b}) \in {0, b}
    <3>1. 0 \in Int
      OBVIOUS
    <3> QED
      BY <2>1, <3>1, MaxOfTwo, Zenon
  <2> QED
    BY <2>1, <2>2
<1>3. w.first < Bound(k)
  BY <1>1, <1>2, BoundsRise
<1>4. f.pos = Bound(k)
  BY DEF FastForward
<1>5. CutOf(k, u).start = AlignStart(w, f.pos, "prev")
  BY DEF CutOf, Cut
<1>6. AlignStart(w, Bound(k), "prev") = AlignedAt(w, Bound(k) - 1)
  <2> HIDE DEF w
  <2> QED
    BY <1>1, <1>3 DEF AlignStart, PrevTo, AlignedAt
<1>7. Bound(k) - 1 \in Of(w)
  <2> HIDE DEF w
  <2> QED
    BY <1>1, <1>3 DEF Of
<1> QED
  BY <1>4, <1>5, <1>6, <1>7

LEMMA StepStops ==
    ASSUME recording \in Recordings, sizing \in Sizings,
           NEW j \in Nat, NEW t \in 0 .. NbParts, ReadyAt(j, t),
           NEW k \in 0 .. NbParts, k = j + sizing.size,
           sizing.lag > 0 => StartsAfresh(j, k)
    PROVE  /\ CutOf(j, t).stop = AlignedAt(WindowOf(j, t), Bound(k) - 1)
           /\ Bound(k) - 1 \in Of(WindowOf(j, t))
<1> DEFINE w == WindowOf(j, t)
           d == DeltaOf(j, t)
           s == IF d = None THEN [pos |-> w.last, dt |-> 0] ELSE FastForward(w, Bound(j), d)
           P == Bound(k) - 1
<1>1. /\ w.first \in Nat /\ w.last \in Nat /\ w.first <= Bound(j) /\ Bound(j) <= w.last
      /\ Bound(j) \in Nat /\ w.last = Bound(To(j, t)) - 1 /\ j \in 0 .. NbParts
      /\ To(j, t) \in 0 .. NbParts
  BY WindowEnds
<1>2. /\ sizing.size \in Nat /\ sizing.size > 0 /\ sizing.lag \in Nat /\ NbParts \in Nat
      /\ k \in Nat /\ j < k /\ k <= t
  BY SizingIs, RecordingIs DEF ReadyAt
<1>3. /\ To(j, t) \in {t, k + sizing.lag} /\ k <= To(j, t)
      /\ sizing.lag = 0 => To(j, t) = k
  <2> DEFINE b == j + sizing.size + sizing.lag
  <2>1. b \in Int /\ t \in Int /\ b = k + sizing.lag /\ To(j, t) = Min({t, b})
    BY <1>2 DEF To
  <2> HIDE DEF b
  <2>2. Min({t, b}) \in {t, b} /\ Min({t, b}) <= t /\ Min({t, b}) <= b
    BY <2>1, MinOfTwo
  <2> QED
    BY <1>2, <2>1, <2>2
<1>4. /\ Bound(k) \in Nat /\ Bound(j) < Bound(k)
  BY <1>1, <1>2, BoundType, BoundsRise
<1>5. Min({j + sizing.size, To(j, t)}) = k
  <2> DEFINE T == To(j, t)
  <2>1. T \in Int /\ k \in Int /\ j + sizing.size = k /\ k <= T
    BY <1>1, <1>2, <1>3
  <2> HIDE DEF T
  <2>2. Min({k, T}) \in {k, T} /\ Min({k, T}) <= k /\ Min({k, T}) <= T
    BY <2>1, MinOfTwo
  <2>3. Min({k, T}) = k
    BY <2>1, <2>2
  <2> QED
    BY <2>1, <2>3 DEF T
<1>6. d = IF k = To(j, t) THEN None ELSE Interval(recording, Bound(j), Bound(k))
  BY <1>5 DEF DeltaOf
<1>7. CutOf(j, t).stop = AlignStop(w, s.pos, "prev")
  BY DEF CutOf, Cut
<1>8. CASE k = To(j, t)
  <2>1. s.pos = w.last /\ w.last = P
    BY <1>1, <1>6, <1>8
  <2>2. AlignStop(w, w.last, "prev") = AlignedAt(w, w.last)
    BY DEF AlignStop, AlignedAt
  <2>3. P \in Of(w)
    <3> HIDE DEF w
    <3> QED
      BY <1>1, <2>1 DEF Of
  <2> QED
    BY <1>7, <2>1, <2>2, <2>3
<1>9. CASE k # To(j, t)
  <2>1. sizing.lag > 0 /\ StartsAfresh(j, k) /\ k + 1 \in 0 .. NbParts /\ k + 1 <= To(j, t)
    BY <1>1, <1>2, <1>3, <1>9
  <2>2. /\ \A q \in Bound(j) .. P : recording.secs[q] < recording.secs[Bound(k)]
        /\ Bound(k + 1) - Bound(k) > 1
    BY <2>1 DEF StartsAfresh
  <2>3. Bound(k) < w.last
    <3>1. Bound(k + 1) \in Nat /\ Bound(To(j, t)) \in Nat
      BY <1>1, <2>1, BoundType
    <3>2. CASE k + 1 = To(j, t)
      BY <1>1, <1>4, <2>2, <3>1, <3>2
    <3>3. CASE k + 1 # To(j, t)
      <4>1. Bound(k + 1) < Bound(To(j, t))
        BY <1>1, <2>1, <3>3, BoundsRise
      <4> QED
        BY <1>1, <1>4, <2>2, <3>1, <4>1
    <3> QED
      BY <3>2, <3>3
  <2>4. /\ IsArchive(w) /\ Bound(j) \in Of(w)
        /\ \A q \in Of(w) : w.secs[q] = recording.secs[q] /\ recording.secs[q] \in Int
    BY WindowIsArchive
  <2> HIDE DEF w
  <2>5. Bound(k) \in Of(w)
    BY <1>1, <1>4, <2>3 DEF Of
  <2>6. /\ d = recording.secs[Bound(k)] - recording.secs[Bound(j)]
        /\ recording.secs[Bound(k)] \in Int /\ recording.secs[Bound(j)] \in Int
        /\ recording.secs[Bound(j)] < recording.secs[Bound(k)]
    <3>1. d = Interval(recording, Bound(j), Bound(k))
      BY <1>6, <1>9
    <3>2. Bound(j) \in Bound(j) .. P
      BY <1>1, <1>4
    <3> QED
      BY <2>2, <2>4, <2>5, <3>1, <3>2 DEF Interval
  <2> HIDE DEF d
  <2>7. d \in Int /\ d > 0 /\ d # None
    BY <2>6, NoneAssumption
  <2>8. s.pos = AheadBy(w, Bound(j), d)
    BY <2>7 DEF FastForward
  <2> DEFINE m == AheadBy(w, Bound(j), d)
  <2>9. /\ m \in Of(w) /\ Bound(j) <= m
        /\ \A x \in Bound(j) + 1 .. m - 1 : w.secs[x] - w.secs[Bound(j)] < d
        /\ m # w.last => w.secs[m] - w.secs[Bound(j)] >= d
    BY <2>4, <2>7, Ahead
  <2> HIDE DEF m
  <2>10. m \in Nat
    BY <1>1, <2>9 DEF Of
  <2>11. ~(Bound(k) < m)
    <3> SUFFICES ASSUME Bound(k) < m PROVE FALSE
      OBVIOUS
    <3>1. Bound(k) \in Bound(j) + 1 .. m - 1
      BY <1>1, <1>4, <2>10
    <3> QED
      BY <2>4, <2>5, <2>6, <2>9, <3>1
  <2>12. ~(m < Bound(k))
    <3> SUFFICES ASSUME m < Bound(k) PROVE FALSE
      OBVIOUS
    <3>1. m # w.last /\ m \in Bound(j) .. P
      BY <1>1, <1>4, <2>3, <2>9, <2>10
    <3>2. recording.secs[m] < recording.secs[Bound(k)]
      BY <2>2, <3>1
    <3>3. /\ w.secs[m] = recording.secs[m] /\ recording.secs[m] \in Int
          /\ w.secs[Bound(j)] = recording.secs[Bound(j)]
      BY <2>4, <2>9
    <3>4. w.secs[m] - w.secs[Bound(j)] >= d
      BY <2>9, <3>1
    <3> QED
      BY <2>6, <3>2, <3>3, <3>4
  <2>13. m = Bound(k)
    BY <1>4, <2>10, <2>11, <2>12
  <2>14. Bound(k) # w.last /\ Bound(k) # w.first
    BY <1>1, <1>4, <2>3
  <2>15. AlignStop(w, Bound(k), "prev") = AlignedAt(w, P)
    BY <2>14 DEF AlignStop, PrevTo, AlignedAt
  <2>16. P \in Of(w)
    BY <1>1, <1>4, <2>3 DEF Of
  <2> QED
    BY <1>7, <2>8, <2>13, <2>15, <2>16 DEF m, w
<1> QED
  BY <1>8, <1>9

LEMMA CutsMeet ==
    ASSUME recording \in Recordings, sizing \in Sizings, sizing.lead > 0,
           NEW j \in Nat, NEW t \in 0 .. NbParts, ReadyAt(j, t),
           NEW k \in Nat, NEW u \in 0 .. NbParts, ReadyAt(k, u), k = j + sizing.size,
           FrameInReach(k, Bound(k)),
           sizing.lag > 0 => StartsAfresh(j, k)
    PROVE  CutOf(j, t).stop = CutOf(k, u).start
<1> DEFINE w == WindowOf(j, t)
           v == WindowOf(k, u)
           P == Bound(k) - 1
<1>1. k \in 0 .. NbParts /\ k > 0 /\ j < k
  BY SizingIs, RecordingIs DEF ReadyAt
<1>2. /\ CutOf(j, t).stop = AlignedAt(w, P) /\ P \in Of(w)
      /\ CutOf(k, u).start = AlignedAt(v, P) /\ P \in Of(v)
  BY <1>1, StepStops, NextStarts
<1>3. /\ IsArchive(w) /\ IsArchive(v) /\ w.video = recording.video /\ v.video = recording.video
      /\ \A q : q \in w.starts <=> q \in recording.starts /\ q \in Of(w)
      /\ \A q : q \in v.starts <=> q \in recording.starts /\ q \in Of(v)
  BY WindowIsArchive
<1>4. /\ w.first \in Nat /\ w.last \in Nat /\ v.first \in Nat /\ v.last \in Nat
      /\ v.first = Bound(From(k)) /\ w.first = Bound(From(j))
      /\ From(j) \in 0 .. NbParts /\ From(k) \in 0 .. NbParts
  BY WindowEnds
<1>5. w.first <= v.first
  <2>1. From(j) <= From(k)
    <3> DEFINE b == j - sizing.lead
               c == k - sizing.lead
    <3>1. b \in Int /\ c \in Int /\ b <= c /\ From(j) = Max({0, b}) /\ From(k) = Max({0, c})
      BY <1>1, SizingIs DEF From
    <3> HIDE DEF b, c
    <3>2. 0 \in Int
      OBVIOUS
    <3>3. /\ Max({0, b}) \in {0, b} /\ 0 <= Max({0, c}) /\ c <= Max({0, c}) /\ Max({0, c}) \in {0, c}
      BY <3>1, <3>2, MaxOfTwo, Zenon
    <3> QED
      BY <3>1, <3>3
  <2>2. CASE From(j) = From(k)
    BY <1>4, <2>2
  <2>3. CASE From(j) # From(k)
    <3>1. From(j) < From(k)
      BY <1>4, <2>1, <2>3
    <3>2. Bound(From(j)) < Bound(From(k))
      BY <1>4, <3>1, BoundsRise
    <3> QED
      BY <1>4, <3>2
  <2> QED
    BY <2>2, <2>3
<1> HIDE DEF w, v
<1>6. CASE ~recording.video
  BY <1>2, <1>3, <1>6 DEF AlignedAt
<1>7. CASE recording.video
  <2>1. PICK s \in recording.starts : v.first <= s /\ s < P
    BY <1>4, <1>7 DEF FrameInReach, From
  <2> DEFINE x == PrevStart(w, P)
             y == PrevStart(v, P)
  <2>2. /\ x \in Of(w) /\ \A q \in w.starts : q < P => q <= x /\ x \in w.starts /\ x < P
        /\ y \in Of(v) /\ \A q \in v.starts : q < P => q <= y /\ y \in v.starts /\ y < P
    BY <1>2, <1>3, StartBefore
  <2> HIDE DEF x, y
  <2>3. recording.starts \subseteq Nat
    BY RecordingIs DEF IsArchive
  <2>4. s \in v.starts /\ s \in w.starts
    <3>1. s \in Nat /\ P \in Int /\ P <= w.last /\ P <= v.last
      BY <1>2, <1>4, <2>3 DEF Of
    <3> QED
      BY <1>3, <1>4, <1>5, <2>1, <3>1 DEF Of
  <2>5. s <= x /\ x \in w.starts /\ x < P /\ s <= y /\ y \in v.starts /\ y < P
    BY <2>1, <2>2, <2>4
  <2>6. x \in recording.starts /\ y \in recording.starts /\ x \in Nat /\ y \in Nat /\ s \in Nat
    BY <1>3, <2>3, <2>5
  <2>7. x \in v.starts /\ y \in w.starts
    <3>1. P \in Int /\ P <= w.last /\ P <= v.last
      BY <1>2, <1>4 DEF Of
    <3>2. x \in Of(v) /\ y \in Of(w)
      BY <1>4, <1>5, <2>1, <2>5, <2>6, <3>1 DEF Of
    <3> QED
      BY <1>3, <2>6, <3>2
  <2>8. x <= y /\ y <= x
    BY <2>2, <2>5, <2>7
  <2>9. x = y
    BY <2>6, <2>8
  <2> QED
    BY <1>2, <1>3, <1>7, <2>9 DEF AlignedAt, x, y
<1> QED
  BY <1>6, <1>7

-----------------------------------------------------------------------------
(***************************************************************************)
(* The invariant of Windows: every cut is that of its part, made when some *)
(* number of parts was recorded, and the next step begins where it ends.   *)
(***************************************************************************)
CutType == [from : Nat, start : Int, stop : Int]

Made(c) ==
    \E t \in 0 .. NbParts :
       /\ ReadyAt(c.from, t)
       /\ c.start = CutOf(c.from, t).start /\ c.stop = CutOf(c.from, t).stop

Stepped ==
    /\ recording \in Recordings /\ sizing \in Sizings
    /\ total \in 0 .. NbParts /\ i \in Nat
    /\ cuts \in Seq(CutType)
    /\ \A c \in 1 .. Len(cuts) : Made(cuts[c])
    /\ \A c \in 1 .. Len(cuts) - 1 : cuts[c + 1].from = cuts[c].from + sizing.size
    /\ cuts # <<>> => i = cuts[Len(cuts)].from + sizing.size

\* The window and the time of the step that is next.
LEMMA NextWindow ==
    /\ Window = WindowOf(i, total) /\ Delta = DeltaOf(i, total)
    /\ Ready <=> ReadyAt(i, total)
<1>1. FromPart = From(i) /\ ToPart = To(i, total)
  BY DEF FromPart, ToPart, From, To
<1>2. Window = WindowOf(i, total)
  BY <1>1 DEF Window, WindowOf
<1>3. Delta = DeltaOf(i, total)
  BY <1>1 DEF Delta, DeltaOf
<1> QED
  BY <1>2, <1>3 DEF Ready, ReadyAt

\* What a step cuts is in its window.
LEMMA CutInWindow ==
    ASSUME recording \in Recordings, sizing \in Sizings,
           NEW j \in Nat, NEW t \in 0 .. NbParts, ReadyAt(j, t)
    PROVE  {CutOf(j, t).start, CutOf(j, t).stop} \subseteq Of(recording)
<1> DEFINE w == WindowOf(j, t)
           d == DeltaOf(j, t)
           k == Min({j + sizing.size, To(j, t)})
<1>1. /\ w.first \in Nat /\ w.last \in Nat
      /\ recording.first \in Nat /\ recording.last \in Nat
      /\ recording.first <= w.first /\ w.last <= recording.last
      /\ j \in 0 .. NbParts /\ To(j, t) \in 0 .. NbParts /\ j < To(j, t)
  BY WindowEnds, RecordingIs
<1>2. IsArchive(w) /\ Bound(j) \in Of(w)
  BY WindowIsArchive
<1>3. d \in Int \cup {None}
  <2> DEFINE a == j + sizing.size
             b == To(j, t)
  <2>1. a \in Int /\ b \in Int
    BY <1>1, SizingIs
  <2>2. k \in {a, b} /\ k <= a /\ k <= b
    <3>1. k = Min({a, b})
      OBVIOUS
    <3> HIDE DEF a, b, k
    <3>2. Min({a, b}) \in {a, b} /\ Min({a, b}) <= a /\ Min({a, b}) <= b
      BY <2>1, MinOfTwo
    <3> QED
      BY <3>1, <3>2
  <2>3. d = IF k = b THEN None ELSE Interval(recording, Bound(j), Bound(k))
    BY DEF DeltaOf
  <2> SUFFICES ASSUME k # b PROVE Interval(recording, Bound(j), Bound(k)) \in Int
    BY <2>3
  <2>4. k = a /\ k < b /\ j < k /\ k \in 0 .. NbParts - 1
    <3>1. k = a /\ k <= b /\ a \in Nat /\ j < a
      BY <1>1, <2>2, SizingIs
    <3> HIDE DEF k, a, b
    <3>2. k < b /\ k \in Nat
      BY <2>1, <3>1
    <3>3. k \in 0 .. NbParts - 1
      BY <1>1, <3>2, RecordingIs DEF b
    <3> QED
      BY <3>1, <3>2, <3>3
  <2> HIDE DEF k
  <2>5. k \in 0 .. NbParts /\ k < NbParts /\ j < NbParts
    BY <1>1, <2>4, RecordingIs
  <2>6. Bound(j) \in Of(recording) /\ Bound(k) \in Of(recording)
    BY <1>1, <2>5, BoundType DEF Of
  <2> QED
    BY <2>6, RecordingIs, IntervalType
<1>4. CutOf(j, t).start \in Of(w) /\ CutOf(j, t).stop \in Of(w)
  <2>1. CutOf(j, t) = Cut(w, Bound(j), 0, d, "prev")
    BY DEF CutOf
  <2>2. 0 \in Int /\ "prev" \in Aligns
    BY DEF Aligns
  <2> HIDE DEF w, d
  <2> QED
    BY <1>2, <1>3, <2>1, <2>2, CutPositions
<1> HIDE DEF w
<1>5. Of(w) \subseteq Of(recording)
  BY <1>1 DEF Of
<1> QED
  BY <1>4, <1>5

LEMMA InitStepped == InitWindows => Stepped
<1> SUFFICES ASSUME InitWindows PROVE Stepped
  OBVIOUS
<1>1. /\ recording \in Recordings /\ sizing \in Sizings /\ total = 0 /\ i = 0
      /\ cuts = <<>> /\ Len(cuts) = 0 /\ cuts \in Seq(CutType)
  BY DEF InitWindows
<1>2. total \in 0 .. NbParts
  BY <1>1, RecordingIs
<1> QED
  BY <1>1, <1>2 DEF Stepped

LEMMA NextStepped == Stepped /\ [NextWindows]_windows => Stepped'
<1> SUFFICES ASSUME Stepped, [NextWindows]_windows PROVE Stepped'
  OBVIOUS
<1>0. /\ recording \in Recordings /\ sizing \in Sizings /\ NbParts \in Nat
      /\ sizing.size \in Nat /\ cuts \in Seq(CutType) /\ Len(cuts) \in Nat /\ i \in Nat
      /\ total \in 0 .. NbParts
  BY RecordingIs, SizingIs DEF Stepped
<1>1. /\ recording' = recording /\ sizing' = sizing /\ NbParts' = NbParts
      /\ \A j, t : ReadyAt(j, t)' <=> ReadyAt(j, t)
      /\ \A j, t : CutOf(j, t)' = CutOf(j, t)
  <2>1. recording' = recording /\ sizing' = sizing
    BY DEF NextWindows, Record, CutWindow, windows
  <2>2. NbParts' = NbParts /\ \A k : Bound(k)' = Bound(k)
    BY <2>1 DEF NbParts, Bound
  <2>3. \A j, t : From(j)' = From(j) /\ To(j, t)' = To(j, t) /\ (ReadyAt(j, t)' <=> ReadyAt(j, t))
    BY <2>1, <2>2 DEF From, To, ReadyAt
  <2>4. \A j, t : WindowOf(j, t)' = WindowOf(j, t) /\ DeltaOf(j, t)' = DeltaOf(j, t)
    BY <2>1, <2>2, <2>3 DEF WindowOf, DeltaOf
  <2>5. \A j, t : CutOf(j, t)' = CutOf(j, t)
    BY <2>2, <2>4 DEF CutOf
  <2> QED
    BY <2>1, <2>2, <2>3, <2>5
<1>2. ASSUME NEW c, Made(c)
      PROVE  \E t \in 0 .. NbParts' : /\ ReadyAt(c.from, t)'
                                      /\ c.start = CutOf(c.from, t)' .start
                                      /\ c.stop = CutOf(c.from, t)' .stop
  BY <1>1, <1>2 DEF Made
<1>3. CASE Record
  BY <1>0, <1>1, <1>2, <1>3 DEF Record, Stepped, Made
<1>4. CASE CutWindow
  <2> DEFINE n == [from |-> i, start |-> CutOf(i, total).start, stop |-> CutOf(i, total).stop]
  <2>1. /\ ReadyAt(i, total) /\ i' = i + sizing.size /\ total' = total
        /\ cuts' = Append(cuts, n)
    BY <1>4, NextWindow DEF CutWindow, CutOf
  <2>2. CutOf(i, total).start \in Int /\ CutOf(i, total).stop \in Int
    <3>1. {CutOf(i, total).start, CutOf(i, total).stop} \subseteq Of(recording)
      BY <1>0, <2>1, CutInWindow
    <3>2. Of(recording) \subseteq Int
      BY <1>0, RecordingIs DEF Of
    <3> QED
      BY <3>1, <3>2
  <2>3. n \in CutType /\ n.from = i /\ Made(n)
    BY <1>0, <2>1, <2>2 DEF CutType, Made
  <2> HIDE DEF n
  <2>4. /\ cuts' \in Seq(CutType) /\ Len(cuts') = Len(cuts) + 1 /\ cuts'[Len(cuts) + 1] = n
        /\ \A c \in 1 .. Len(cuts) : cuts'[c] = cuts[c]
    BY <1>0, <2>1, <2>3
  <2>5. ASSUME NEW c \in 1 .. Len(cuts') PROVE Made(cuts'[c])
    <3>1. CASE c \in 1 .. Len(cuts)
      BY <2>4, <3>1 DEF Stepped
    <3>2. CASE c = Len(cuts) + 1
      BY <2>3, <2>4, <3>2
    <3> QED
      BY <1>0, <2>4, <3>1, <3>2
  <2>6. \A c \in 1 .. Len(cuts') : Made(cuts[c])'
    BY <1>1, <1>2, <2>5 DEF Made
  <2>7. ASSUME NEW c \in 1 .. Len(cuts') - 1
        PROVE  cuts'[c + 1].from = cuts'[c].from + sizing.size
    <3>1. CASE c \in 1 .. Len(cuts) - 1
      <4>1. c \in 1 .. Len(cuts) /\ c + 1 \in 1 .. Len(cuts)
        BY <1>0, <3>1
      <4> QED
        BY <2>4, <3>1, <4>1 DEF Stepped
    <3>2. CASE c = Len(cuts)
      <4>1. cuts # <<>> /\ Len(cuts) \in 1 .. Len(cuts)
        BY <1>0, <2>4, <3>2
      <4> QED
        BY <2>3, <2>4, <3>2, <4>1 DEF Stepped
    <3> QED
      BY <1>0, <2>4, <3>1, <3>2
  <2>8. i' = cuts'[Len(cuts')].from + sizing.size
    BY <2>1, <2>3, <2>4
  <2>9. i' \in Nat
    BY <1>0, <2>1
  <2> QED
    BY <1>0, <1>1, <2>1, <2>4, <2>6, <2>7, <2>8, <2>9 DEF Stepped
<1>5. CASE UNCHANGED windows
  BY <1>0, <1>1, <1>2, <1>5 DEF windows, Stepped, Made
<1> QED
  BY <1>3, <1>4, <1>5 DEF NextWindows

THEOREM WindowsInvariant == SpecWindows => []Stepped
  BY InitStepped, NextStepped, PTL DEF SpecWindows

LEMMA SteppedMeet == Stepped => WindowsMeet
<1> SUFFICES ASSUME Stepped, NEW c \in 1 .. Len(cuts) - 1, sizing.lead > 0,
                    FrameInReach(cuts[c + 1].from, Bound(cuts[c + 1].from)),
                    sizing.lag > 0 => StartsAfresh(cuts[c].from, cuts[c + 1].from)
             PROVE  cuts[c].stop = cuts[c + 1].start
  BY DEF WindowsMeet
<1>1. /\ recording \in Recordings /\ sizing \in Sizings /\ cuts \in Seq(CutType)
      /\ c \in 1 .. Len(cuts) /\ c + 1 \in 1 .. Len(cuts)
  BY DEF Stepped
<1>2. cuts[c] \in CutType /\ cuts[c + 1] \in CutType
  BY <1>1
<1>3. /\ cuts[c].from \in Nat /\ cuts[c + 1].from \in Nat
      /\ cuts[c + 1].from = cuts[c].from + sizing.size
      /\ Made(cuts[c]) /\ Made(cuts[c + 1])
  BY <1>1, <1>2 DEF CutType, Stepped
<1>4. PICK t \in 0 .. NbParts : ReadyAt(cuts[c].from, t) /\ cuts[c].stop = CutOf(cuts[c].from, t).stop
  BY <1>3 DEF Made
<1>5. PICK u \in 0 .. NbParts : /\ ReadyAt(cuts[c + 1].from, u)
                                /\ cuts[c + 1].start = CutOf(cuts[c + 1].from, u).start
  BY <1>3 DEF Made
<1>6. CutOf(cuts[c].from, t).stop = CutOf(cuts[c + 1].from, u).start
  BY <1>1, <1>3, <1>4, <1>5, CutsMeet
<1> QED
  BY <1>4, <1>5, <1>6

\* The cuts of successive windows meet: for a recording of any parts, windows of any
\* size, lead and lag, and whatever was recorded when each of the two was cut.
THEOREM WindowsAlwaysMeet == SpecWindows => []WindowsMeet
  BY SteppedMeet, WindowsInvariant, PTL

LEMMA SteppedTypes == Stepped => WindowsOK
<1> SUFFICES ASSUME Stepped PROVE WindowsOK
  OBVIOUS
<1>1. /\ recording \in Recordings /\ sizing \in Sizings /\ cuts \in Seq(CutType)
      /\ total \in 0 .. NbParts /\ i \in Nat
  BY DEF Stepped
<1>2. ASSUME NEW c \in 1 .. Len(cuts)
      PROVE  {cuts[c].start, cuts[c].stop} \subseteq recording.first .. recording.last
  <2>1. cuts[c] \in CutType /\ Made(cuts[c])
    BY <1>1 DEF Stepped
  <2>2. cuts[c].from \in Nat
    BY <2>1 DEF CutType
  <2>3. PICK t \in 0 .. NbParts : /\ ReadyAt(cuts[c].from, t)
                                  /\ cuts[c].start = CutOf(cuts[c].from, t).start
                                  /\ cuts[c].stop = CutOf(cuts[c].from, t).stop
    BY <2>1 DEF Made
  <2> QED
    BY <1>1, <2>2, <2>3, CutInWindow DEF Of
<1>3. ASSUME Ready PROVE IsArchive(Window)
  BY <1>1, <1>3, NextWindow, WindowIsArchive
<1>4. ASSUME Ready, NEW k \in i .. Min({i + sizing.size, total}) - 1
      PROVE  Bound(k) \in Window.bounds
  <2> DEFINE w == WindowOf(i, total)
             T == To(i, total)
             m == Min({i + sizing.size, total})
  <2>1. ReadyAt(i, total) /\ NbParts \in Nat
    BY <1>1, <1>4, NextWindow, RecordingIs
  <2>2. /\ w.first = Bound(From(i)) /\ w.last = Bound(T) - 1 /\ w.first <= Bound(i)
        /\ T \in 0 .. NbParts /\ i \in 0 .. NbParts /\ w.first \in Nat /\ Bound(i) \in Nat
    BY <1>1, <2>1, WindowEnds
  <2>3. m <= i + sizing.size /\ m <= total /\ m \in Int
    <3> DEFINE a == i + sizing.size
    <3>1. a \in Int /\ total \in Int /\ m = Min({a, total})
      BY <1>1, SizingIs
    <3> HIDE DEF a, m
    <3>2. Min({a, total}) \in {a, total} /\ Min({a, total}) <= a /\ Min({a, total}) <= total
      BY <3>1, MinOfTwo
    <3> QED
      BY <3>1, <3>2 DEF a
  <2>4. m <= T
    <3> DEFINE a == i + sizing.size + sizing.lag
    <3>1. a \in Int /\ total \in Int /\ T = Min({total, a}) /\ i + sizing.size <= a
          /\ i + sizing.size \in Int
      BY <1>1, SizingIs DEF To
    <3> HIDE DEF a, T, m
    <3>2. Min({total, a}) \in {total, a}
      BY <3>1, MinOfTwo
    <3> QED
      BY <2>3, <3>1, <3>2
  <2> HIDE DEF m
  <2>5. k \in i .. m - 1
    BY <1>4 DEF m
  <2> HIDE DEF T
  <2>6. k \in 0 .. NbParts /\ k < NbParts /\ i <= k /\ k < T
    BY <1>1, <2>1, <2>2, <2>3, <2>4, <2>5
  <2>7. Bound(k) \in recording.bounds /\ Bound(k) \in Nat /\ Bound(k) < Bound(T) /\ Bound(T) \in Nat
    BY <1>1, <2>2, <2>6, BoundType, BoundsRise
  <2>8. Bound(i) <= Bound(k)
    <3>1. CASE i = k
      BY <2>7, <3>1
    <3>2. CASE i # k
      <4>1. Bound(i) < Bound(k)
        BY <1>1, <2>2, <2>6, <3>2, BoundsRise
      <4> QED
        BY <2>2, <2>7, <4>1
    <3> QED
      BY <3>1, <3>2
  <2>9. w.bounds = recording.bounds \cap (w.first .. w.last)
    BY DEF WindowOf
  <2> HIDE DEF w
  <2>10. Bound(k) \in w.bounds
    BY <2>2, <2>7, <2>8, <2>9
  <2> QED
    BY <2>10, NextWindow DEF w
<1> QED
  BY <1>1, <1>2, <1>3, <1>4 DEF WindowsOK

\* Every window is itself an archive, with all the parts of its step, and cuts stay
\* inside the recording.
THEOREM WindowsTypeCorrect == SpecWindows => []WindowsOK
  BY SteppedTypes, WindowsInvariant, PTL
===============================================================================
