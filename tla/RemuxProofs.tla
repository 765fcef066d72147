------------------------------ MODULE RemuxProofs ------------------------------
(***************************************************************************)
(* Proofs about Remux, and about Scan that composes it with the file       *)
(* before, for inputs of any length, any filter, any offsets, counters of  *)
(* any size and failures anywhere.                                         *)
(***************************************************************************)
EXTENDS Scan, FiniteSetTheorems, TLAPS

-----------------------------------------------------------------------------
(***************************************************************************)
(* Counters, modulo any CcMod, and the ones passed in.                     *)
(***************************************************************************)
LEMMA ElementOfSeq == ASSUME NEW S, NEW s \in Seq(S), NEW i \in 1 .. Len(s) PROVE s[i] \in S
  OBVIOUS

LEMMA HeaderType == HeaderCcs \in [Streams -> Counter] /\ 0 \in Counter
  BY CcModAssumption DEF HeaderCcs, Counter

LEMMA CountUpType == ASSUME NEW c \in Counter PROVE CountUp(c) \in Counter
  BY CcModAssumption DEF CountUp, Counter

LEMMA LoadType ==
    ASSUME NEW l, DOMAIN l \subseteq Streams, l \in [DOMAIN l -> Counter]
    PROVE  ResetCcs(HeaderCcs, LoadCcs(l)) \in [Streams -> Counter]
<1>1. /\ DOMAIN LoadCcs(l) \subseteq DOMAIN l
      /\ \A s \in DOMAIN LoadCcs(l) : LoadCcs(l)[s] = l[s]
  BY DEF LoadCcs
<1> QED
  BY <1>1, HeaderType DEF ResetCcs

\* With room for all of them, all of the counters given are set.
LEMMA LoadsAll ==
    ASSUME NEW l, DOMAIN l \subseteq Streams, Cardinality(DOMAIN l) <= MaxCcs,
           NEW st \in DOMAIN l
    PROVE  st \in DOMAIN LoadCcs(l) /\ LoadCcs(l)[st] = l[st]
<1> DEFINE below == { s \in DOMAIN l : s < st }
<1>1. IsFiniteSet(DOMAIN l)
  <2>1. IsFiniteSet(0 .. 1)
    <3>1. 0 \in Int /\ 1 \in Int
      OBVIOUS
    <3> QED
      BY <3>1, FS_Interval, Zenon
  <2>2. DOMAIN l \in SUBSET (0 .. 1)
    BY DEF Streams
  <2> QED
    BY <2>1, <2>2, FS_Subset
<1>2. /\ below \in SUBSET (DOMAIN l) /\ st \notin below
  BY DEF Streams
<1> HIDE DEF below
<1>3. /\ IsFiniteSet(below) /\ Cardinality(below) <= Cardinality(DOMAIN l)
      /\ Cardinality(DOMAIN l) = Cardinality(below) => DOMAIN l = below
  BY <1>1, <1>2, FS_Subset
<1>4. Cardinality(below) \in Nat /\ Cardinality(DOMAIN l) \in Nat
  BY <1>1, <1>3, FS_CardinalityType
<1>5. Cardinality(below) < MaxCcs
  BY <1>2, <1>3, <1>4, MaxCcsAssumption
<1>6. Cardinality({ s \in DOMAIN l : s < st }) < MaxCcs
  BY <1>5 DEF below
<1> QED
  BY <1>6 DEF LoadCcs

-----------------------------------------------------------------------------
(***************************************************************************)
(* Counting.                                                               *)
(***************************************************************************)
\* One more element: how the packets of a stream among the first n + 1 compare with
\* those among the first n.
LEMMA CountOfFirst ==
    ASSUME NEW n \in Nat, NEW A \in SUBSET (1 .. n), NEW B \in SUBSET (1 .. n + 1),
           \A j \in 1 .. n : j \in A <=> j \in B
    PROVE  /\ Cardinality(A) \in Nat
           /\ Cardinality(B) = IF n + 1 \in B THEN Cardinality(A) + 1 ELSE Cardinality(A)
<1>1. IsFiniteSet(1 .. n)
  BY FS_Interval
<1>2. IsFiniteSet(A) /\ Cardinality(A) \in Nat
  BY <1>1, FS_Subset, FS_CardinalityType
<1>3. /\ n + 1 \notin A /\ \A j \in 1 .. n + 1 : j \in 1 .. n \/ j = n + 1
      /\ \A j \in A : j \in 1 .. n
  OBVIOUS
<1>4. CASE n + 1 \in B
  <2>1. \A j : j \in B <=> j \in A \/ j = n + 1
    BY <1>3, <1>4
  <2>2. B = A \cup {n + 1}
    BY <2>1
  <2>3. Cardinality(A \cup {n + 1}) = Cardinality(A) + 1
    BY <1>2, <1>3, FS_AddElement
  <2> QED
    BY <1>2, <1>4, <2>2, <2>3
<1>5. CASE n + 1 \notin B
  <2>1. \A j : j \in B <=> j \in A
    BY <1>3, <1>5
  <2>2. B = A
    BY <2>1
  <2> QED
    BY <1>2, <1>5, <2>2
<1> QED
  BY <1>4, <1>5

\* Counting modulo m one at a time, or all at once.
LEMMA ModUnique ==
    ASSUME NEW m \in Nat \ {0}, NEW q \in Int, NEW r \in 0 .. m - 1
    PROVE  (m * q + r) % m = r
  OBVIOUS

LEMMA ModSmall == ASSUME NEW m \in Nat \ {0}, NEW r \in 0 .. m - 1 PROVE r % m = r
<1>1. (m * 0 + r) % m = r
  BY ModUnique
<1> QED
  BY <1>1

LEMMA ModDef ==
    ASSUME NEW m \in Nat \ {0}, NEW x \in Int
    PROVE  \E q \in Int : (x % m) \in 0 .. (m - 1) /\ x = (m * q) + (x % m)
<1>1. (x % m) \in 0 .. (m - 1) /\ x = (m * (x \div m)) + (x % m) /\ (x \div m) \in Int
  OBVIOUS
<1> QED
  BY <1>1

LEMMA ModNext ==
    ASSUME NEW m \in Nat \ {0}, NEW x \in Int
    PROVE  ((x % m) + 1) % m = (x + 1) % m
<1>1. PICK q \in Int : (x % m) \in 0 .. (m - 1) /\ x = (m * q) + (x % m)
  BY ModDef
<1> DEFINE r == x % m
<1>2. r \in 0 .. (m - 1) /\ x = m * q + r
  BY <1>1
<1> HIDE DEF r
<1>3. CASE r + 1 < m
  <2>1. (r + 1) \in 0 .. (m - 1)
    BY <1>2, <1>3
  <2>2. (m * q + (r + 1)) % m = r + 1
    BY <2>1, ModUnique
  <2>3. (m * 0 + (r + 1)) % m = r + 1
    BY <2>1, ModUnique
  <2>4. x + 1 = m * q + (r + 1) /\ m * 0 + (r + 1) = r + 1
    BY <1>2
  <2> QED
    BY <2>2, <2>3, <2>4 DEF r
<1>4. CASE r + 1 = m
  <2>1. (m * (q + 1) + 0) % m = 0 /\ (m * 1 + 0) % m = 0
    BY ModUnique
  <2>2. x + 1 = m * (q + 1) + 0 /\ r + 1 = m * 1 + 0
    BY <1>2, <1>4
  <2> QED
    BY <2>1, <2>2 DEF r
<1> QED
  BY <1>2, <1>3, <1>4

-----------------------------------------------------------------------------
(***************************************************************************)
(* Types.                                                                  *)
(***************************************************************************)
LEMMA OffsetType ==
    ASSUME NEW o, DOMAIN o \subseteq Streams, o \in [DOMAIN o -> Int], offset = o, NEW st
    PROVE  OffsetOf(st) \in Int
<1> DEFINE ranked == { s \in DOMAIN offset : Cardinality({ t \in DOMAIN offset : t < s }) = st }
           s0 == CHOOSE s \in ranked : TRUE
<1>1. OffsetOf(st) = IF ranked = {} THEN 0 ELSE offset[s0]
  BY DEF OffsetOf
<1>2. ranked # {} => s0 \in ranked
  OBVIOUS
<1>3. ranked \subseteq DOMAIN offset
  OBVIOUS
<1> HIDE DEF ranked, s0
<1> QED
  BY <1>1, <1>2, <1>3

ArgsOK ==
    /\ offset \in [DOMAIN offset -> Int] /\ DOMAIN offset \subseteq Streams
    /\ DOMAIN last \subseteq Streams /\ last \in [DOMAIN last -> Counter]

InHand == pc \in {"filter", "write"} => read \in 1 .. Len(input)

Types == TypeOK /\ ArgsOK /\ InHand

LEMMA InitTypes == Init => Types
<1> SUFFICES ASSUME Init PROVE Types
  OBVIOUS
<1>1. input \in Seq([st : Streams, pts : Int]) /\ Len(input) \in Nat
  <2>1. input \in Seq([st : Streams, pts : Int])
    BY InputsAssumption, Zenon DEF Init
  <2> QED
    BY <2>1
<1>2. filter \in FilterType
  BY FiltersAssumption DEF Init
<1>3. ArgsOK
  <2>1. DOMAIN offset \subseteq Streams /\ offset \in [DOMAIN offset -> Int]
    BY OffsetsAssumption DEF Init
  <2>2. PICK S \in SUBSET Streams : last \in [S -> Counter]
    BY CcsAssumption DEF Init
  <2> QED
    BY <2>1, <2>2 DEF ArgsOK
<1>4. TypeOK
  <2>1. mpegts \in BOOLEAN /\ exc \in BOOLEAN
    BY Zenon DEF Init
  <2>2. /\ count = 0 /\ read = 0 /\ asked = <<>> /\ out = <<>> /\ cc = HeaderCcs
        /\ faults = {} /\ pc = "open" /\ res = "ok" /\ outcome = "none"
    BY Zenon DEF Init
  <2> QED
    BY <1>1, <1>2, <2>1, <2>2, HeaderType DEF TypeOK
<1> QED
  BY <1>3, <1>4 DEF Types, InHand, Init

LEMMA NextTypes == ASSUME Types, [Next]_vars PROVE Types'
<1>0. /\ TypeOK /\ ArgsOK /\ Len(input) \in Nat /\ InHand
  BY DEF Types, TypeOK
<1> USE DEF args, copy
<1>1. CASE OpenFails
  <2>1. UNCHANGED <<args, copy>> /\ pc' = "exit" /\ res' = "error" /\ outcome' = outcome
        /\ exc' \in BOOLEAN /\ faults' \in SUBSET {"filter", "read", "write"}
    BY <1>0, <1>1 DEF OpenFails, Fail, NoRaise, Raises, TypeOK
  <2> QED
    BY <1>0, <2>1 DEF Types, TypeOK, ArgsOK, InHand
<1>2. CASE Open
  <2>1. cc' \in [Streams -> Counter]
    BY <1>0, <1>2, LoadType, HeaderType DEF Open, ArgsOK
  <2> QED
    BY <1>0, <1>2, <2>1 DEF Open, GoTo, Types, TypeOK, ArgsOK, InHand
<1>3. CASE Read
  <2>1. pc' \in {"filter", "write"}
    BY <1>3 DEF Read, GoTo
  <2> QED
    BY <1>0, <1>3, <2>1 DEF Read, GoTo, Types, TypeOK, ArgsOK, InHand
<1>4. CASE ReadEnds
  <2>1. UNCHANGED <<args, copy, res, outcome>> /\ pc' = "trailer"
        /\ exc' \in BOOLEAN /\ faults' \in SUBSET {"filter", "read", "write"}
    BY <1>0, <1>4 DEF ReadEnds, GoTo, NoRaise, Raises, TypeOK
  <2> QED
    BY <1>0, <2>1 DEF Types, TypeOK, ArgsOK, InHand
<1>5. CASE Filter
  <2>1. PICK a \in Answers :
           /\ asked' = Append(asked, a)
           /\ IF a = "raise" THEN Raises("filter") ELSE NoRaise
           /\ GoTo(CASE a = "drop" -> "read" [] a = "drop_all" -> "trailer" [] OTHER -> "write")
    <3>1. RangeAnswer(input[read].st) \in Answers
      BY DEF RangeAnswer, Answers
    <3> QED
      BY <1>5, <3>1 DEF Filter
  <2>2. /\ exc' \in BOOLEAN /\ faults' \in SUBSET {"filter", "read", "write"}
        /\ asked' \in Seq(Answers)
    <3>1. asked' \in Seq(Answers)
      BY <1>0, <2>1 DEF TypeOK
    <3>2. CASE a = "raise"
      BY <1>0, <2>1, <3>1, <3>2 DEF Raises, TypeOK
    <3>3. CASE a # "raise"
      BY <1>0, <2>1, <3>1, <3>3 DEF NoRaise, TypeOK
    <3> QED
      BY <3>2, <3>3
  <2>3. pc' \in {"read", "trailer", "write"} /\ res' = res /\ outcome' = outcome
    BY <2>1 DEF GoTo
  <2>4. count' \in Nat /\ UNCHANGED <<args, read, out, cc>>
    BY <1>0, <1>5 DEF Filter, TypeOK
  <2>5. read \in 1 .. Len(input)
    BY <1>0, <1>5 DEF Filter, InHand
  <2> QED
    BY <1>0, <2>2, <2>3, <2>4, <2>5 DEF Types, TypeOK, ArgsOK, InHand
<1>6. CASE Write
  <2>0. read \in 1 .. Len(input) /\ input[read] \in [st : Streams, pts : Int]
    <3>1. pc = "write" /\ input \in Seq([st : Streams, pts : Int])
      BY <1>0, <1>6 DEF Write, TypeOK
    <3>2. read \in 1 .. Len(input)
      BY <1>0, <3>1 DEF InHand
    <3> QED
      BY <3>1, <3>2, ElementOfSeq
  <2> DEFINE p == input[read]
             c == CountUp(cc[p.st])
             w == [pkt |-> read, pts |-> p.pts + OffsetOf(p.st), cc |-> c]
  <2>1. c \in Counter
    BY <1>0, <2>0, CountUpType DEF TypeOK
  <2>2. p.pts + OffsetOf(p.st) \in Int
    BY <1>0, <2>0, OffsetType DEF ArgsOK
  <2> HIDE DEF c
  <2>3. w \in [pkt : 1 .. Len(input), pts : Int, cc : Counter]
    BY <2>0, <2>1, <2>2
  <2>4. out' = Append(out, w) /\ cc' = [cc EXCEPT ![p.st] = c]
    BY <1>6 DEF Write, c
  <2> HIDE DEF w, p
  <2>5. out' \in Seq([pkt : 1 .. Len(input), pts : Int, cc : Counter])
    BY <1>0, <2>3, <2>4 DEF TypeOK
  <2>6. cc' \in [Streams -> Counter]
    BY <1>0, <2>1, <2>4 DEF TypeOK
  <2>7. UNCHANGED <<args, count, read, asked, exc, faults, res, outcome>> /\ pc' = "read"
    BY <1>6 DEF Write, GoTo
  <2> QED
    BY <1>0, <2>5, <2>6, <2>7 DEF Types, TypeOK, ArgsOK, InHand
<1>7. CASE WriteFails
  <2>1. UNCHANGED <<args, copy>> /\ pc' = "exit" /\ res' = "error" /\ outcome' = outcome
        /\ exc' \in BOOLEAN /\ faults' \in SUBSET {"filter", "read", "write"}
    BY <1>0, <1>7 DEF WriteFails, Fail, NoRaise, Raises, TypeOK
  <2> QED
    BY <1>0, <2>1 DEF Types, TypeOK, ArgsOK, InHand
<1>8. CASE WriteTrailer
  BY <1>0, <1>8 DEF WriteTrailer, GoTo, NoRaise, Types, TypeOK, ArgsOK, InHand
<1>9. CASE Return
  <2>1. UNCHANGED <<args, copy, exc, faults, res>> /\ pc' = "done"
        /\ outcome' \in {"raises", "marm_error", "returns"}
    BY <1>9, Zenon DEF Return
  <2> QED
    BY <1>0, <2>1 DEF Types, TypeOK, ArgsOK, InHand
<1>10. CASE UNCHANGED vars
  BY <1>0, <1>10 DEF vars, Types, TypeOK, ArgsOK, InHand
<1> QED
  BY <1>1, <1>2, <1>3, <1>4, <1>5, <1>6, <1>7, <1>8, <1>9, <1>10 DEF Next

-----------------------------------------------------------------------------
(***************************************************************************)
(* Exceptions: one that was raised stays pending until remux() returns.    *)
(***************************************************************************)
Pending == exc = TRUE

Told ==
    /\ faults # {} => Pending
    /\ pc \notin {"exit", "done"} => res = "ok"
    /\ pc # "done" => outcome = "none"
    /\ pc = "done" /\ faults # {} => outcome = "raises"
    /\ outcome = "returns" => res = "ok" /\ ~Pending

LEMMA InitTold == Init => Told
  BY DEF Init, Told

\* What a step does to the pending exception, whether or not it raises one.
LEMMA StillPending ==
    /\ NoRaise => (Pending' <=> Pending) /\ faults' = faults
    /\ \A who : Raises(who) => Pending'
  BY Zenon DEF NoRaise, Raises, Pending

LEMMA NextTold == ASSUME Told, [Next]_vars PROVE Told'
<1>1. CASE Return
  <2>1. /\ pc' = "done" /\ UNCHANGED <<faults, res>> /\ (Pending' <=> Pending)
        /\ (Pending => outcome' = "raises")
        /\ (~Pending => outcome' = IF res # "ok" THEN "marm_error" ELSE "returns")
    BY <1>1, Zenon DEF Return, Pending
  <2> QED
    BY <2>1 DEF Told
<1>2. CASE Next /\ ~Return
  <2>1. /\ pc \notin {"exit", "done"} /\ pc' # "done" /\ outcome' = outcome
        /\ res' = res \/ (res' = "error" /\ pc' = "exit")
    BY <1>2 DEF Next, OpenFails, Open, Read, ReadEnds, Filter, Write, WriteFails, WriteTrailer,
                Fail, GoTo
  <2>2. NoRaise \/ \E who : Raises(who)
    BY <1>2, Zenon DEF Next, OpenFails, Open, Read, ReadEnds, Filter, Write, WriteFails,
                WriteTrailer, NoRaise
  <2>3. faults' # {} => Pending'
    BY <2>2, StillPending DEF Told
  <2> QED
    BY <2>1, <2>3 DEF Told
<1>3. CASE UNCHANGED vars
  <2>1. UNCHANGED <<faults, pc, res, outcome>> /\ (Pending' <=> Pending)
    BY <1>3, Zenon DEF vars, Pending
  <2> QED
    BY <2>1 DEF Told
<1> QED
  BY <1>1, <1>2, <1>3

-----------------------------------------------------------------------------
(***************************************************************************)
(* Offsets.                                                                *)
(***************************************************************************)
LEMMA OffsetOfStream ==
    ASSUME DOMAIN offset \subseteq Streams, NEW st \in Streams,
           \A s \in DOMAIN offset : \A t \in Streams : t < s => t \in DOMAIN offset
    PROVE  OffsetOf(st) = IF st \in DOMAIN offset THEN offset[st] ELSE 0
<1> DEFINE Below(s) == { t \in DOMAIN offset : t < s }
           ranked == { s \in DOMAIN offset : Cardinality(Below(s)) = st }
<1>1. ASSUME NEW s \in DOMAIN offset PROVE Cardinality(Below(s)) = s
  <2>1. CASE s = 0
    <3>1. Below(s) = {}
      BY <2>1 DEF Streams
    <3> QED
      BY <2>1, <3>1, FS_EmptySet
  <2>2. CASE s = 1
    <3>1. Below(s) = {0}
      BY <2>2 DEF Streams
    <3> QED
      BY <2>2, <3>1, FS_Singleton
  <2> QED
    BY <2>1, <2>2 DEF Streams
<1>2. ranked = { s \in DOMAIN offset : s = st }
  BY <1>1
<1>3. OffsetOf(st) = IF ranked = {} THEN 0 ELSE offset[CHOOSE s \in ranked : TRUE]
  BY DEF OffsetOf
<1> HIDE DEF ranked
<1>4. CASE st \in DOMAIN offset
  <2>1. ranked = {st}
    BY <1>2, <1>4
  <2>2. (CHOOSE s \in ranked : TRUE) = st
    BY <2>1
  <2> QED
    BY <1>3, <1>4, <2>1, <2>2
<1>5. CASE st \notin DOMAIN offset
  <2>1. ranked = {}
    BY <1>2, <1>5
  <2> QED
    BY <1>3, <1>5, <2>1
<1> QED
  BY <1>4, <1>5

\* Every packet was written with the offset of its stream's rank.
Offset ==
    \A i \in 1 .. Len(out) :
       out[i].pts = input[out[i].pkt].pts + OffsetOf(input[out[i].pkt].st)

LEMMA NextOffset == ASSUME Types, Offset, [Next]_vars PROVE Offset'
<1>0. out \in Seq([pkt : 1 .. Len(input), pts : Int, cc : Counter])
  BY DEF Types, TypeOK
<1>1. input' = input /\ offset' = offset
  BY DEF Next, OpenFails, Open, Read, ReadEnds, Filter, Write, WriteFails, WriteTrailer,
         Return, vars, args
<1>2. \A st : OffsetOf(st)' = OffsetOf(st)
  BY <1>1 DEF OffsetOf
<1>3. CASE Write
  <2> DEFINE w == [pkt |-> read, pts |-> input[read].pts + OffsetOf(input[read].st),
                   cc |-> CountUp(cc[input[read].st])]
  <2>1. out' = Append(out, w)
    BY <1>3 DEF Write
  <2>2. w.pts = input[w.pkt].pts + OffsetOf(input[w.pkt].st)
    OBVIOUS
  <2> HIDE DEF w
  <2>3. /\ Len(out') = Len(out) + 1 /\ out'[Len(out) + 1] = w
        /\ \A i \in 1 .. Len(out) : out'[i] = out[i]
        /\ Len(out) \in Nat
    BY <1>0, <2>1
  <2>4. ASSUME NEW i \in 1 .. Len(out')
        PROVE  out'[i].pts = input[out'[i].pkt].pts + OffsetOf(input[out'[i].pkt].st)
    <3>1. i \in 1 .. Len(out) \/ i = Len(out) + 1
      BY <2>3
    <3> QED
      BY <2>2, <2>3, <3>1 DEF Offset
  <2> QED
    BY <1>1, <1>2, <2>4 DEF Offset
<1>4. CASE [Next /\ ~Write]_vars
  <2>1. out' = out
    BY <1>4 DEF Next, OpenFails, Open, Read, ReadEnds, Filter, WriteFails, WriteTrailer,
                Return, vars, copy
  <2> QED
    BY <1>1, <1>2, <2>1 DEF Offset
<1> QED
  BY <1>3, <1>4

-----------------------------------------------------------------------------
(***************************************************************************)
(* The copy: what the filter was asked, and what became of the packets.    *)
(***************************************************************************)
\* Packets whose fate is settled: all but the one in hand.
Handled == IF pc \in {"filter", "write"} THEN read - 1 ELSE read

AskedOK ==
    /\ Len(asked) <= read
    /\ pc = "filter" => Filtering /\ Len(asked) = read - 1
    /\ pc # "filter" /\ Filtering => Len(asked) = read
    /\ \A i \in 1 .. Len(asked) : asked[i] \in {"keep_all", "drop_all"} => i = Len(asked)
    /\ \A i \in 1 .. Len(asked) : asked[i] = "drop_all" =>
         i = read /\ pc \in {"trailer", "exit", "done"}
    /\ pc = "write" => ~Dropped(read)

CopiedOK ==
    /\ \A i \in 1 .. Len(out) : out[i].pkt \in 1 .. Handled /\ ~Dropped(out[i].pkt)
    /\ \A i, j \in 1 .. Len(out) : j < i => out[j].pkt < out[i].pkt
    /\ res = "ok" => \A p \in 1 .. Handled : Dropped(p) \/ p \in OutPackets

EndsOK ==
    pc \in {"trailer", "exit", "done"} /\ res = "ok" =>
       Pending \/ read = Len(input) \/ (read \in 1 .. Len(asked) /\ asked[read] = "drop_all")

LEMMA InitCopied == Init => AskedOK /\ CopiedOK /\ EndsOK
  BY DEF Init, AskedOK, CopiedOK, EndsOK, Handled, Filtering, Dropped

\* All but the filter leave its answers alone.
LEMMA NextAsked ==
    ASSUME Types, AskedOK, CopiedOK, [Next]_vars PROVE AskedOK'
<1>0. /\ asked \in Seq(Answers) /\ Len(asked) \in Nat /\ read \in Nat /\ Len(input) \in Nat
  BY DEF Types, TypeOK
<1>1. CASE Filter
  <2>1. PICK a :
           /\ asked' = Append(asked, a)
           /\ pc' = CASE a = "drop" -> "read" [] a = "drop_all" -> "trailer" [] OTHER -> "write"
           /\ read' = read /\ filter' = filter /\ pc = "filter"
    BY <1>1, Zenon DEF Filter, GoTo, args
  <2>2. /\ Len(asked) = read - 1 /\ Filtering /\ Len(asked') = read
        /\ \A i \in 1 .. Len(asked) : asked'[i] = asked[i]
        /\ asked'[read] = a /\ DOMAIN asked = 1 .. Len(asked) /\ DOMAIN asked' = 1 .. read
    BY <1>0, <2>1 DEF AskedOK
  <2>3. \A i \in 1 .. Len(asked) : asked[i] \notin {"keep_all", "drop_all"}
    BY <1>0, <2>1, <2>2 DEF AskedOK, Filtering
  <2>4. \A i \in 1 .. Len(asked') : asked'[i] \in {"keep_all", "drop_all"} => i = Len(asked')
    BY <1>0, <2>2, <2>3
  <2>5. \A i \in 1 .. Len(asked') : asked'[i] = "drop_all" =>
           i = read' /\ pc' \in {"trailer", "exit", "done"}
    BY <1>0, <2>1, <2>2, <2>4
  <2>6. pc' = "write" => ~(Dropped(read))'
    BY <1>0, <2>1, <2>2 DEF Dropped
  <2>7. pc' # "filter" /\ Len(asked') = read'
    BY <2>1, <2>2
  <2> QED
    BY <1>0, <2>1, <2>4, <2>5, <2>6, <2>7 DEF AskedOK
<1>2. CASE Read
  <2>1. /\ asked' = asked /\ read' = read + 1 /\ filter' = filter /\ pc = "read"
        /\ pc' = IF Filtering THEN "filter" ELSE "write"
    BY <1>2 DEF Read, GoTo, args
  <2>2. Filtering' <=> Filtering
    BY <2>1 DEF Filtering
  <2>3. \A i \in 1 .. Len(asked) : asked[i] # "drop_all"
    BY <2>1 DEF AskedOK
  <2>4. pc' = "write" => ~(Dropped(read))'
    BY <1>0, <2>1 DEF Dropped, AskedOK
  <2> QED
    BY <1>0, <2>1, <2>2, <2>3, <2>4 DEF AskedOK
<1>3. CASE [Next /\ ~Filter /\ ~Read]_vars
  <2>1. /\ asked' = asked /\ read' = read /\ filter' = filter
        /\ pc' = pc \/ (pc # "filter" /\ pc' \in {"read", "trailer", "exit", "done"})
        /\ pc \in {"trailer", "exit", "done"} => pc' \in {"trailer", "exit", "done"}
    BY <1>3 DEF Next, OpenFails, Open, ReadEnds, Write, WriteFails, WriteTrailer, Return,
                Fail, GoTo, vars, args, copy
  <2>2. (Filtering' <=> Filtering) /\ \A i : (Dropped(i)' <=> Dropped(i))
    BY <2>1 DEF Filtering, Dropped
  <2> QED
    BY <1>0, <2>1, <2>2 DEF AskedOK
<1> QED
  BY <1>1, <1>2, <1>3

LEMMA NextCopied ==
    ASSUME Types, Told, AskedOK, CopiedOK, [Next]_vars PROVE CopiedOK'
<1>0. /\ asked \in Seq(Answers) /\ Len(asked) \in Nat /\ read \in Nat /\ Len(input) \in Nat
      /\ out \in Seq([pkt : 1 .. Len(input), pts : Int, cc : Counter]) /\ Len(out) \in Nat
  BY DEF Types, TypeOK
<1>1. CASE Filter
  <2>1. PICK a :
           /\ asked' = Append(asked, a) /\ pc = "filter"
           /\ pc' = CASE a = "drop" -> "read" [] a = "drop_all" -> "trailer" [] OTHER -> "write"
           /\ read' = read /\ out' = out /\ res' = res
    BY <1>1, Zenon DEF Filter, GoTo
  <2>2. /\ Len(asked) = read - 1 /\ Len(asked') = read
        /\ \A i \in 1 .. Len(asked) : asked'[i] = asked[i]
        /\ asked'[read] = a /\ Handled = read - 1
    BY <1>0, <2>1 DEF AskedOK, Handled
  <2>3. \A i \in 1 .. read - 1 : Dropped(i)' <=> Dropped(i)
    BY <1>0, <2>2 DEF Dropped
  <2>4. Handled' = read - 1 \/ (Handled' = read /\ (Dropped(read))')
    BY <1>0, <2>1, <2>2 DEF Handled, Dropped
  <2>5. OutPackets' = OutPackets
    BY <2>1 DEF OutPackets
  <2>6. \A i \in 1 .. Len(out) : /\ out[i].pkt \in 1 .. read - 1 /\ out[i].pkt \in 1 .. Handled'
                                /\ ~Dropped(out[i].pkt)'
    <3>1. \A i \in 1 .. Len(out) : out[i].pkt \in 1 .. read - 1 /\ ~Dropped(out[i].pkt)
      BY <2>2 DEF CopiedOK
    <3>2. \A p \in 1 .. read - 1 : p \in 1 .. Handled'
      BY <1>0, <2>4
    <3>3. \A i \in 1 .. Len(out) : \A p \in 1 .. read - 1 :
             out[i].pkt = p /\ ~Dropped(p) => ~Dropped(out[i].pkt)'
      BY <2>1, <2>3
    <3> QED
      BY <3>1, <3>2, <3>3, Zenon
  <2>7. res = "ok" => \A p \in 1 .. Handled' : (Dropped(p) \/ p \in OutPackets)'
    <3> SUFFICES ASSUME res = "ok", NEW p \in 1 .. Handled' PROVE (Dropped(p) \/ p \in OutPackets)'
      OBVIOUS
    <3>1. CASE p \in 1 .. read - 1
      <4>1. Dropped(p) \/ p \in OutPackets
        BY <2>2, <3>1 DEF CopiedOK
      <4> QED
        BY <2>3, <2>5, <3>1, <4>1, Zenon
    <3>2. CASE p \notin 1 .. read - 1
      <4>1. Handled' = read /\ Dropped(read)'
        BY <2>4, <3>2
      <4>2. p = read
        BY <1>0, <3>2, <4>1
      <4> QED
        BY <2>1, <4>1, <4>2 DEF Dropped
    <3> QED
      BY <3>1, <3>2
  <2> QED
    BY <2>1, <2>6, <2>7 DEF CopiedOK
<1>2. CASE Write
  <2>1. PICK w : out' = Append(out, w) /\ w.pkt = read
    BY <1>2 DEF Write
  <2>2. pc = "write" /\ pc' = "read" /\ read' = read /\ asked' = asked /\ res' = res
    BY <1>2 DEF Write, GoTo
  <2>3. /\ Len(out') = Len(out) + 1 /\ out'[Len(out) + 1].pkt = read
        /\ \A i \in 1 .. Len(out) : out'[i] = out[i]
    BY <1>0, <2>1
  <2>4. /\ Handled = read - 1 /\ Handled' = read /\ read \in 1 .. Len(input) /\ ~Dropped(read)
        /\ \A i : Dropped(i)' <=> Dropped(i)
    BY <1>0, <2>2 DEF Handled, Dropped, AskedOK, Types, InHand
  <2>5. \A i \in 1 .. Len(out') : i \in 1 .. Len(out) \/ i = Len(out) + 1
    BY <1>0, <2>3
  <2>6. OutPackets' = OutPackets \cup {read}
    BY <1>0, <2>3, <2>5 DEF OutPackets
  <2>7. \A i \in 1 .. Len(out') : out'[i].pkt \in 1 .. read /\ ~Dropped(out'[i].pkt)
    <3> TAKE i \in 1 .. Len(out')
    <3>1. CASE i \in 1 .. Len(out)
      <4>1. out[i].pkt \in 1 .. Handled /\ ~Dropped(out[i].pkt)
        BY <3>1 DEF CopiedOK
      <4> QED
        BY <1>0, <2>3, <2>4, <3>1, <4>1
    <3>2. CASE i = Len(out) + 1
      BY <1>0, <2>3, <2>4, <3>2
    <3> QED
      BY <2>5, <3>1, <3>2
  <2>8. ASSUME NEW i \in 1 .. Len(out'), NEW j \in 1 .. Len(out'), j < i
        PROVE  out'[j].pkt < out'[i].pkt
    <3>1. j \in 1 .. Len(out) /\ out'[j].pkt = out[j].pkt
      BY <1>0, <2>3, <2>8
    <3>2. CASE i \in 1 .. Len(out)
      BY <2>3, <2>8, <3>1, <3>2 DEF CopiedOK
    <3>3. CASE i = Len(out) + 1
      <4>1. out[j].pkt \in 1 .. Handled
        BY <3>1 DEF CopiedOK
      <4> QED
        BY <1>0, <2>3, <2>4, <3>1, <3>3, <4>1
    <3> QED
      BY <2>5, <3>2, <3>3
  <2>9. res' = "ok" => \A p \in 1 .. read : Dropped(p) \/ p \in OutPackets'
    BY <1>0, <2>2, <2>4, <2>6 DEF CopiedOK
  <2> QED
    BY <2>4, <2>7, <2>8, <2>9 DEF CopiedOK
<1>3. CASE [Next /\ ~Filter /\ ~Write]_vars
  <2>1. /\ asked' = asked /\ out' = out
        /\ \/ Handled' = Handled /\ (res' = "ok" => res = "ok")
           \/ Handled' \in Nat /\ Handled <= Handled' /\ res' = "error"
    BY <1>0, <1>3 DEF Next, OpenFails, Open, Read, ReadEnds, WriteFails, WriteTrailer, Return,
                      Fail, GoTo, vars, copy, Handled
  <2>2. OutPackets' = OutPackets /\ \A i : (Dropped(i)' <=> Dropped(i))
    BY <2>1 DEF OutPackets, Dropped
  <2>3. Handled \in Int
    BY <1>0 DEF Handled
  <2> QED
    BY <1>0, <2>1, <2>2, <2>3 DEF CopiedOK
<1> QED
  BY <1>1, <1>2, <1>3

LEMMA NextEnds ==
    ASSUME Types, Told, AskedOK, EndsOK, [Next]_vars PROVE EndsOK'
<1>0. /\ asked \in Seq(Answers) /\ Len(asked) \in Nat /\ read \in Nat /\ Len(input) \in Nat
  BY DEF Types, TypeOK
<1>1. CASE Filter
  <2>1. PICK a :
           /\ asked' = Append(asked, a) /\ pc = "filter"
           /\ pc' = CASE a = "drop" -> "read" [] a = "drop_all" -> "trailer" [] OTHER -> "write"
           /\ read' = read
    BY <1>1, Zenon DEF Filter, GoTo
  <2>2. pc' = "trailer" => a = "drop_all"
    BY <2>1
  <2>3. pc' \notin {"exit", "done"}
    BY <2>1
  <2>4. Len(asked') = read /\ asked'[read] = a /\ read >= 1
    BY <1>0, <2>1 DEF AskedOK
  <2> QED
    BY <1>0, <2>1, <2>2, <2>3, <2>4 DEF EndsOK
<1>2. CASE ReadEnds
  <2>1. read' = read /\ input' = input /\ (read = Len(input) \/ Pending')
    BY <1>2, StillPending DEF ReadEnds, args, copy
  <2> QED
    BY <2>1 DEF EndsOK
<1>3. CASE [Next /\ ~Filter /\ ~ReadEnds]_vars
  <2>1. pc' \in {"trailer", "exit", "done"} /\ res' = "ok" =>
           /\ pc \in {"trailer", "exit", "done"} /\ res = "ok"
           /\ UNCHANGED <<read, asked, input>>
    BY <1>3 DEF Next, OpenFails, Open, Read, Write, WriteFails, WriteTrailer, Return,
                Fail, GoTo, vars, args, copy
  <2>2. Pending => Pending'
    <3>1. CASE UNCHANGED exc
      BY <3>1, Zenon DEF Pending
    <3>2. CASE \E who : Raises(who)
      BY <3>2, StillPending
    <3>3. UNCHANGED exc \/ \E who : Raises(who)
      BY <1>3, Zenon DEF Next, OpenFails, Open, Read, Write, WriteFails, WriteTrailer, Return,
                         NoRaise, vars
    <3> QED
      BY <3>1, <3>2, <3>3
  <2> QED
    BY <2>1, <2>2 DEF EndsOK
<1> QED
  BY <1>1, <1>2, <1>3

-----------------------------------------------------------------------------
(***************************************************************************)
(* FrameRange: its count is the number of packets of its stream asked of.  *)
(***************************************************************************)
Number(i) == Cardinality({ j \in 1 .. i - 1 : input[j].st = filter.st })

LEMMA NumberNext ==
    ASSUME NEW i \in Nat \ {0}
    PROVE  /\ Number(1) = 0 /\ Number(i) \in Nat
           /\ Number(i + 1) = IF input[i].st = filter.st THEN Number(i) + 1 ELSE Number(i)
<1> DEFINE A == { j \in 1 .. i - 1 : input[j].st = filter.st }
           B == { j \in 1 .. (i + 1) - 1 : input[j].st = filter.st }
           n == i - 1
<1>1. /\ n \in Nat /\ A \in SUBSET (1 .. n) /\ B \in SUBSET (1 .. n + 1)
      /\ n + 1 = i /\ (n + 1 \in B <=> input[i].st = filter.st)
      /\ \A j \in 1 .. n : j \in A <=> j \in B
  OBVIOUS
<1>2. { j \in 1 .. 1 - 1 : input[j].st = filter.st } = {}
  OBVIOUS
<1>3. Number(1) = 0
  BY <1>2, FS_EmptySet DEF Number
<1>4. Number(i) = Cardinality(A) /\ Number(i + 1) = Cardinality(B)
  BY DEF Number
<1> HIDE DEF n, A, B
<1>5. /\ Cardinality(A) \in Nat
      /\ Cardinality(B) = IF n + 1 \in B THEN Cardinality(A) + 1 ELSE Cardinality(A)
  BY <1>1, CountOfFirst
<1> QED
  BY <1>1, <1>3, <1>4, <1>5

RangedOK ==
    filter.kind = "range" =>
       /\ count = Number(Len(asked) + 1)
       /\ \A i \in 1 .. Len(asked) :
            asked[i] = IF input[i].st = filter.st /\ (Number(i) < filter.b \/ filter.e < Number(i))
                       THEN "drop" ELSE "keep"

LEMMA InitRanged == Init => RangedOK
  BY NumberNext DEF Init, RangedOK

LEMMA NextRanged == ASSUME Types, AskedOK, RangedOK, [Next]_vars PROVE RangedOK'
<1>0. /\ asked \in Seq(Answers) /\ Len(asked) \in Nat /\ read \in Nat
  BY DEF Types, TypeOK
<1>1. input' = input /\ filter' = filter
  BY DEF Next, OpenFails, Open, Read, ReadEnds, Filter, Write, WriteFails, WriteTrailer,
         Return, vars, args
<1>2. \A i : Number(i)' = Number(i)
  BY <1>1 DEF Number
<1>3. CASE Filter /\ filter.kind = "range"
  <2> DEFINE a == RangeAnswer(input[read].st)
  <2>1. /\ asked' = Append(asked, a) /\ pc = "filter" /\ read' = read
        /\ count' = IF input[read].st = filter.st THEN count + 1 ELSE count
    BY <1>3 DEF Filter
  <2>2. a = IF input[read].st = filter.st /\ (count < filter.b \/ filter.e < count)
            THEN "drop" ELSE "keep"
    BY DEF RangeAnswer
  <2> HIDE DEF a
  <2>3. Len(asked) = read - 1 /\ count = Number(read) /\ read \in Nat \ {0}
    BY <1>0, <1>3, <2>1 DEF AskedOK, RangedOK
  <2>4. /\ Len(asked') = read /\ asked'[read] = a
        /\ \A i \in 1 .. Len(asked) : asked'[i] = asked[i]
        /\ \A i \in 1 .. read : i \in 1 .. Len(asked) \/ i = read
    BY <1>0, <2>1, <2>3
  <2>5. count' = Number(read + 1)
    BY <2>1, <2>3, NumberNext
  <2>6. \A i \in 1 .. read :
           asked'[i] = IF input[i].st = filter.st /\ (Number(i) < filter.b \/ filter.e < Number(i))
                       THEN "drop" ELSE "keep"
    BY <1>3, <2>2, <2>3, <2>4 DEF RangedOK
  <2> QED
    BY <1>1, <1>2, <2>4, <2>5, <2>6 DEF RangedOK
<1>4. CASE [Next /\ ~Filter]_vars
  <2>1. asked' = asked /\ count' = count
    BY <1>4 DEF Next, OpenFails, Open, Read, ReadEnds, Write, WriteFails, WriteTrailer,
                Return, vars, copy
  <2> QED
    BY <1>1, <1>2, <2>1 DEF RangedOK
<1>5. CASE filter.kind # "range"
  BY <1>1, <1>5 DEF RangedOK
<1> QED
  BY <1>3, <1>4, <1>5

-----------------------------------------------------------------------------
(***************************************************************************)
(* Continuity counters.                                                    *)
(***************************************************************************)
Counting == mpegts /\ Cardinality(DOMAIN last) <= MaxCcs

Stream(i) == input[out[i].pkt].st

Before(st, i) == Cardinality({ j \in 1 .. i - 1 : Stream(j) = st })

\* The counter a stream goes on from.
Start(st) == IF st \in DOMAIN last THEN last[st] ELSE CcMod - 1

LEMMA StartType == ASSUME ArgsOK, NEW st \in Streams PROVE Start(st) \in 0 .. CcMod - 1
  BY CcModAssumption DEF ArgsOK, Counter, Start

CountersOK ==
    /\ pc = "open" => out = <<>>
    /\ Counting => \A st \in Streams :
         /\ pc \in {"read", "filter", "write"} =>
              cc[st] = (Start(st) + Before(st, Len(out) + 1)) % CcMod
         /\ \A i \in 1 .. Len(out) : Stream(i) = st =>
              out[i].cc = (Start(st) + Before(st, i) + 1) % CcMod

LEMMA InitCounters == Init => CountersOK
  BY DEF Init, CountersOK

LEMMA NextCounters == ASSUME Types, CountersOK, [Next]_vars PROVE CountersOK'
<1>0. /\ out \in Seq([pkt : 1 .. Len(input), pts : Int, cc : Counter]) /\ Len(out) \in Nat
      /\ cc \in [Streams -> Counter] /\ ArgsOK
      /\ input \in Seq([st : Streams, pts : Int]) /\ CcMod \in Nat \ {0}
  BY CcModAssumption DEF Types, TypeOK
<1>1. input' = input /\ (Counting' <=> Counting) /\ \A st : Start(st)' = Start(st)
  <2>1. input' = input /\ last' = last /\ mpegts' = mpegts
    BY DEF Next, OpenFails, Open, Read, ReadEnds, Filter, Write, WriteFails, WriteTrailer,
           Return, vars, args
  <2> QED
    BY <2>1, Zenon DEF Counting, Start
<1>2. CASE Open
  <2>1. /\ pc = "open" /\ pc' = "read" /\ out' = out /\ out = <<>>
        /\ cc' = IF mpegts /\ LoadCcs(last) # <<>> THEN ResetCcs(HeaderCcs, LoadCcs(last))
                                                   ELSE HeaderCcs
    BY <1>2 DEF Open, GoTo, CountersOK
  <2>2. ASSUME Counting, NEW st \in Streams
        PROVE  cc'[st] = (Start(st) + Before(st, Len(out) + 1)) % CcMod
    <3>1. mpegts /\ DOMAIN last \subseteq Streams /\ Cardinality(DOMAIN last) <= MaxCcs
      BY <1>0, <2>2 DEF ArgsOK, Counting
    <3>2. ASSUME st \in DOMAIN last PROVE cc'[st] = Start(st)
      <4>1. st \in DOMAIN LoadCcs(last) /\ LoadCcs(last)[st] = last[st]
        BY <3>1, <3>2, LoadsAll
      <4>2. LoadCcs(last) # <<>>
        <5>1. DOMAIN << >> = {}
          OBVIOUS
        <5> QED
          BY <4>1, <5>1
      <4>3. cc' = ResetCcs(HeaderCcs, LoadCcs(last))
        BY <2>1, <3>1, <4>2, Zenon
      <4> QED
        BY <2>2, <3>2, <4>1, <4>3 DEF ResetCcs, Start
    <3>3. ASSUME st \notin DOMAIN last PROVE cc'[st] = Start(st)
      <4>1. st \notin DOMAIN LoadCcs(last)
        BY <3>3 DEF LoadCcs
      <4>2. cc'[st] = HeaderCcs[st]
        BY <2>1, <2>2, <4>1 DEF ResetCcs
      <4> QED
        BY <2>2, <3>3, <4>2 DEF HeaderCcs, Start
    <3>5. cc'[st] = Start(st) /\ Start(st) \in 0 .. CcMod - 1
      BY <1>0, <2>2, <3>2, <3>3, StartType
    <3>6. Before(st, Len(out) + 1) = 0
      <4>1. { j \in 1 .. (Len(out) + 1) - 1 : Stream(j) = st } = {}
        BY <2>1
      <4> QED
        BY <4>1, FS_EmptySet DEF Before
    <3>7. Start(st) % CcMod = Start(st)
      BY <1>0, <3>5, ModSmall
    <3>8. Start(st) + Before(st, Len(out) + 1) = Start(st)
      BY <3>5, <3>6
    <3> QED
      BY <3>5, <3>7, <3>8
  <2>3. \A st : Before(st, Len(out) + 1)' = Before(st, Len(out) + 1)
    BY <1>1, <2>1 DEF Before, Stream
  <2> QED
    BY <1>1, <2>1, <2>2, <2>3 DEF CountersOK
<1>3. CASE Write
  <2> PICK n \in Nat : n = Len(out)
    BY <1>0
  <2> DEFINE s == input[read].st
             c == CountUp(cc[s])
  <2>1. PICK w : out' = Append(out, w) /\ w.pkt = read /\ w.cc = c
    BY <1>3 DEF Write
  <2>2. pc = "write" /\ pc' = "read" /\ cc' = [cc EXCEPT ![s] = c]
    BY <1>3 DEF Write, GoTo
  <2>3. read \in 1 .. Len(input)
    BY <2>2 DEF Types, InHand
  <2>4. s \in Streams
    <3>1. input[read] \in [st : Streams, pts : Int]
      BY <1>0, <2>3, ElementOfSeq
    <3> QED
      BY <3>1
  <2>5. /\ Len(out') = n + 1 /\ out'[n + 1].pkt = read /\ out'[n + 1].cc = c
        /\ \A i \in 1 .. n : out'[i] = out[i]
    BY <1>0, <2>1
  <2>6. /\ (Stream(n + 1))' = s /\ \A i \in 1 .. n : Stream(i)' = Stream(i)
    BY <1>1, <2>5 DEF Stream
  <2>7. ASSUME NEW st, NEW i \in 1 .. n + 1 PROVE Before(st, i)' = Before(st, i)
    <3>1. { j \in 1 .. i - 1 : Stream(j)' = st } = { j \in 1 .. i - 1 : Stream(j) = st }
      BY <1>0, <2>6
    <3> QED
      BY <3>1 DEF Before
  <2>8. ASSUME NEW st
        PROVE  /\ Before(st, n + 1) \in Nat
               /\ Before(st, n + 2)' = IF s = st THEN Before(st, n + 1) + 1 ELSE Before(st, n + 1)
    <3> DEFINE A == { j \in 1 .. (n + 1) - 1 : Stream(j) = st }
               B == { j \in 1 .. (n + 2) - 1 : Stream(j)' = st }
    <3>1. A \in SUBSET (1 .. n) /\ B \in SUBSET (1 .. n + 1)
      OBVIOUS
    <3>2. \A j \in 1 .. n : j \in A <=> j \in B
      BY <2>6
    <3>3. n + 1 \in B <=> s = st
      BY <2>6
    <3>4. Before(st, n + 1) = Cardinality(A) /\ Before(st, n + 2)' = Cardinality(B)
      BY DEF Before
    <3> HIDE DEF A, B
    <3>5. /\ Cardinality(A) \in Nat
          /\ Cardinality(B) = IF n + 1 \in B THEN Cardinality(A) + 1 ELSE Cardinality(A)
      BY <3>1, <3>2, CountOfFirst
    <3> QED
      BY <3>3, <3>4, <3>5
  <2>9. ASSUME Counting, NEW st \in Streams, s = st
        PROVE  c = (Start(st) + Before(st, n + 1) + 1) % CcMod
    <3>1. cc[st] = (Start(st) + Before(st, n + 1)) % CcMod
      BY <2>2, <2>9 DEF CountersOK
    <3>2. Start(st) \in Int /\ Before(st, n + 1) \in Nat
      BY <1>0, <2>8, <2>9, StartType
    <3> DEFINE x == Start(st) + Before(st, n + 1)
    <3>3. x \in Int
      BY <3>2
    <3>4. c = (cc[st] + 1) % CcMod /\ cc[st] = x % CcMod
      BY <2>9, <3>1 DEF CountUp
    <3> HIDE DEF x, c
    <3>5. ((x % CcMod) + 1) % CcMod = (x + 1) % CcMod
      BY <1>0, <3>3, ModNext
    <3>6. c = (x + 1) % CcMod
      BY <3>4, <3>5
    <3> QED
      BY <3>6 DEF x
  <2> HIDE DEF s, c
  <2>10. ASSUME Counting, NEW st \in Streams
         PROVE  cc'[st] = (Start(st) + Before(st, n + 2)') % CcMod
    <3>1. Start(st) \in Int /\ Before(st, n + 1) \in Nat /\ st \in Streams
      BY <1>0, <2>8, <2>10, StartType
    <3>2. CASE s = st
      <4>1. cc'[st] = (Start(st) + Before(st, n + 1) + 1) % CcMod
        BY <1>0, <2>2, <2>4, <2>9, <2>10, <3>2
      <4>2. Start(st) + Before(st, n + 2)' = Start(st) + Before(st, n + 1) + 1
        BY <2>8, <3>1, <3>2
      <4> QED
        BY <4>1, <4>2
    <3>3. CASE s # st
      <4>1. cc'[st] = cc[st] /\ Before(st, n + 2)' = Before(st, n + 1)
        BY <1>0, <2>2, <2>8, <3>1, <3>3
      <4> QED
        BY <2>2, <2>10, <4>1 DEF CountersOK
    <3> QED
      BY <3>2, <3>3
  <2>11. ASSUME Counting, NEW st \in Streams, NEW i \in 1 .. n + 1, Stream(i)' = st
         PROVE  out'[i].cc = (Start(st) + Before(st, i)' + 1) % CcMod
    <3>1. Before(st, i)' = Before(st, i)
      BY <2>7
    <3>2. CASE i \in 1 .. n
      BY <2>5, <2>6, <2>11, <3>1, <3>2 DEF CountersOK
    <3>3. CASE i = n + 1
      BY <2>5, <2>6, <2>9, <2>11, <3>1, <3>3
    <3>4. i \in 1 .. n \/ i = n + 1
      BY <2>11
    <3> QED
      BY <3>2, <3>3, <3>4
  <2>12. Len(out') + 1 = n + 2
    BY <1>0, <2>5
  <2> QED
    BY <1>1, <2>2, <2>5, <2>10, <2>11, <2>12 DEF CountersOK
<1>4. CASE [Next /\ ~Open /\ ~Write]_vars
  <2>1. /\ out' = out /\ cc' = cc /\ (pc' = "open" => pc = "open")
        /\ pc' \in {"read", "filter", "write"} => pc \in {"read", "filter", "write"}
    BY <1>4 DEF Next, OpenFails, Read, ReadEnds, Filter, WriteFails, WriteTrailer, Return,
                Fail, GoTo, vars, copy
  <2>2. \A st, i : Before(st, i)' = Before(st, i) /\ Stream(i)' = Stream(i)
    BY <1>1, <2>1 DEF Before, Stream
  <2> QED
    BY <1>1, <2>1, <2>2 DEF CountersOK
<1> QED
  BY <1>2, <1>3, <1>4

-----------------------------------------------------------------------------
(***************************************************************************)
(* The theorems.                                                           *)
(***************************************************************************)
Inv ==
    /\ Types /\ Told /\ Offset
    /\ AskedOK /\ CopiedOK /\ EndsOK /\ RangedOK /\ CountersOK

LEMMA InitInv == Init => Inv
<1>1. Init => Offset
  BY DEF Init, Offset
<1> QED
  BY <1>1, InitTypes, InitTold, InitCopied, InitRanged, InitCounters DEF Inv

LEMMA NextInv == ASSUME Inv, [Next]_vars PROVE Inv'
  BY NextTypes, NextTold, NextOffset, NextAsked, NextCopied, NextEnds, NextRanged, NextCounters
  DEF Inv

\* Every state that can be reached satisfies the invariant.
THEOREM Invariant == Spec => []Inv
  BY InitInv, NextInv, PTL DEF Spec

\* The variables keep their types: the copy holds packets that were read, with
\* counters of the format, for every input.
THEOREM TypeCorrect == Spec => []TypeOK
<1>1. Inv => TypeOK
  BY DEF Inv, Types
<1> QED
  BY <1>1, Invariant, PTL

LEMMA InvTells == Inv => RaisesReachCaller
  BY DEF Inv, Told, RaisesReachCaller

\* An exception that a filter or a file raised at any point reaches the caller of
\* remux(), although the loop goes on after it.
THEOREM RaisesAlwaysReachCaller == Spec => []RaisesReachCaller
  BY InvTells, Invariant, PTL

LEMMA InvOffsets == Inv => OffsetsReachTheirStream
<1> SUFFICES ASSUME Inv,
                    \A s \in DOMAIN offset : \A t \in Streams : t < s => t \in DOMAIN offset,
                    NEW i \in 1 .. Len(out)
             PROVE  LET p == input[out[i].pkt]
                    IN out[i].pts = p.pts + (IF p.st \in DOMAIN offset THEN offset[p.st] ELSE 0)
  BY DEF OffsetsReachTheirStream
<1> DEFINE p == input[out[i].pkt]
<1>1. out[i].pts = p.pts + OffsetOf(p.st)
  BY DEF Inv, Offset
<1>2. p.st \in Streams /\ DOMAIN offset \subseteq Streams
  <2>1. /\ out \in Seq([pkt : 1 .. Len(input), pts : Int, cc : Counter])
        /\ input \in Seq([st : Streams, pts : Int]) /\ DOMAIN offset \subseteq Streams
    BY DEF Inv, Types, TypeOK, ArgsOK
  <2>2. out[i] \in [pkt : 1 .. Len(input), pts : Int, cc : Counter]
    BY <2>1, ElementOfSeq
  <2>3. out[i].pkt \in 1 .. Len(input)
    BY <2>2
  <2>4. p \in [st : Streams, pts : Int]
    BY <2>1, <2>3, ElementOfSeq
  <2> QED
    BY <2>1, <2>4
<1> HIDE DEF p
<1>3. OffsetOf(p.st) = IF p.st \in DOMAIN offset THEN offset[p.st] ELSE 0
  BY <1>2, OffsetOfStream
<1> QED
  BY <1>1, <1>3 DEF p

\* Offsets given for streams 0, 1, ... up to some stream, none left out, reach the
\* packets of their stream.
THEOREM OffsetsAlwaysReach == Spec => []OffsetsReachTheirStream
  BY InvOffsets, Invariant, PTL

LEMMA InvCopies == ASSUME Inv PROVE CopyIsFilteredInput
<1>0. /\ asked \in Seq(Answers) /\ Len(asked) \in Nat /\ read \in Nat /\ Len(input) \in Nat
      /\ Len(out) \in Nat /\ DOMAIN asked = 1 .. Len(asked) /\ read <= Len(input)
      /\ AskedOK /\ CopiedOK /\ EndsOK /\ RangedOK /\ Told
  BY DEF Inv, Types, TypeOK
<1>1. ASSUME NEW i \in 1 .. Len(out) - 1 PROVE out[i].pkt < out[i + 1].pkt
  <2>1. i \in 1 .. Len(out) /\ i + 1 \in 1 .. Len(out) /\ i < i + 1
    BY <1>0
  <2> QED
    BY <1>0, <2>1 DEF CopiedOK
<1>2. OutPackets \subseteq { i \in 1 .. read : ~Dropped(i) }
  <2>1. \A i \in 1 .. Len(out) : out[i].pkt \in 1 .. read /\ ~Dropped(out[i].pkt)
    BY <1>0 DEF CopiedOK, Handled
  <2> QED
    BY <2>1 DEF OutPackets
<1>3. \A i \in DOMAIN asked : asked[i] \in {"keep_all", "drop_all"} => i = Len(asked)
  BY <1>0 DEF AskedOK
<1>4. outcome = "returns" =>
         /\ OutPackets = { i \in 1 .. read : ~Dropped(i) }
         /\ read = Len(input) \/ (read \in 1 .. Len(asked) /\ asked[read] = "drop_all")
  <2> SUFFICES ASSUME outcome = "returns"
               PROVE  /\ \A i \in 1 .. read : Dropped(i) \/ i \in OutPackets
                      /\ read = Len(input) \/ (read \in 1 .. Len(asked) /\ asked[read] = "drop_all")
    BY <1>2
  <2>1. pc = "done" /\ res = "ok" /\ ~Pending
    BY <1>0 DEF Told
  <2>2. Handled = read
    BY <2>1 DEF Handled
  <2> QED
    BY <1>0, <2>1, <2>2 DEF CopiedOK, EndsOK
<1>5. ASSUME outcome = "returns", filter.kind = "range"
      PROVE  OutPackets = { i \in 1 .. Len(input) :
                input[i].st = filter.st => Number(i) \in filter.b .. filter.e }
  <2>1. \A i \in 1 .. Len(asked) :
           asked[i] = IF input[i].st = filter.st /\ (Number(i) < filter.b \/ filter.e < Number(i))
                      THEN "drop" ELSE "keep"
    BY <1>0, <1>5 DEF RangedOK
  <2>2. read = Len(input) /\ OutPackets = { i \in 1 .. read : ~Dropped(i) }
    BY <1>0, <1>4, <1>5, <2>1
  <2>3. Filtering
    BY <1>0, <1>5, <2>1 DEF Filtering
  <2>4. Len(asked) = read
    BY <1>0, <1>5, <2>3 DEF AskedOK, Told
  <2>5. ASSUME NEW i \in 1 .. Len(input)
        PROVE  ~Dropped(i) <=> (input[i].st = filter.st => Number(i) \in filter.b .. filter.e)
    <3>1. filter.b \in Int /\ filter.e \in Int
      BY DEF Inv, Types, TypeOK, FilterType
    <3>2. Number(i) \in Nat
      BY <1>0, NumberNext
    <3> QED
      BY <1>0, <2>1, <2>2, <2>4, <3>1, <3>2 DEF Dropped
  <2> QED
    BY <2>2, <2>5
<1>6. outcome = "returns" => (read < Len(input) => asked[read] = "drop_all")
  BY <1>0, <1>4
<1>7. outcome = "returns" /\ filter.kind = "range" =>
         OutPackets = { i \in 1 .. Len(input) : input[i].st = filter.st =>
            Cardinality({ j \in 1 .. i - 1 : input[j].st = filter.st }) \in filter.b .. filter.e }
  BY <1>5 DEF Number
<1> QED
  BY <1>1, <1>2, <1>3, <1>4, <1>6, <1>7, Zenon DEF CopyIsFilteredInput

\* What remux() copies is what the filter keeps, in order, and for FrameRange exactly
\* the packets of its range and all of the other streams.
THEOREM CopyIsAlwaysFiltered == Spec => []CopyIsFilteredInput
  BY Invariant, InvCopies, PTL

LEMMA InvCounts == Inv => CountersContinue
<1> SUFFICES ASSUME Inv, mpegts /\ Cardinality(DOMAIN last) <= MaxCcs,
                    NEW i \in 1 .. Len(out), Stream(i) \in DOMAIN last
             PROVE  out[i].cc = (last[Stream(i)] + Before(Stream(i), i) + 1) % CcMod
  BY DEF CountersContinue, Stream, Before
<1>1. Counting
  BY Zenon DEF Counting
<1>2. Stream(i) \in Streams
  BY DEF Inv, Types, ArgsOK
<1>3. out[i].cc = (Start(Stream(i)) + Before(Stream(i), i) + 1) % CcMod
  BY <1>1, <1>2 DEF Inv, CountersOK
<1> QED
  BY <1>3 DEF Start

\* The continuity counters of the copy run on from those passed in.
THEOREM CountersAlwaysContinue == Spec => []CountersContinue
  BY InvCounts, Invariant, PTL

-----------------------------------------------------------------------------
(***************************************************************************)
(* The copy after a scan: what is shown above of a copy is kept by the     *)
(* scan before it, and the file scanned and the copy are continuous        *)
(* together.                                                               *)
(***************************************************************************)
PacketType == [st : Streams, cc : Counter]

\* What the demuxer has seen: the counters of the last packets.
Scanned ==
    /\ before \in Seq(PacketType) /\ Continuous(before)
    /\ seen \in 0 .. Len(before)
    /\ stage = "scan" => pc = "open"
    /\ \A st \in DOMAIN last : \E i \in 1 .. seen : before[i].st = st
    /\ \A i \in 1 .. seen :
         /\ before[i].st \in DOMAIN last
         /\ (\A k \in i + 1 .. seen : before[k].st # before[i].st) =>
               last[before[i].st] = before[i].cc

ScanInv == Inv /\ Scanned

LEMMA InitScanned == InitScan => ScanInv
<1> SUFFICES ASSUME InitScan PROVE Inv /\ Scanned
  BY DEF ScanInv
<1>1. Inv
  BY InitInv DEF InitScan
<1>2. before \in Seq(PacketType) /\ Continuous(before) /\ Len(before) \in Nat
  <2>1. before \in Befores
    BY DEF InitScan
  <2>2. before \in Seq(PacketType) /\ Continuous(before)
    BY <2>1, BeforesAssumption DEF PacketType
  <2> QED
    BY <2>2
<1>3. pc = "open" /\ last = <<>> /\ seen = 0
  BY DEF InitScan, Init
<1>4. DOMAIN last = {}
  BY <1>3
<1> QED
  BY <1>1, <1>2, <1>3, <1>4 DEF Scanned

LEMMA ScanReadInv == ASSUME ScanInv, ScanRead PROVE ScanInv'
<1> PICK p : p = before[seen + 1]
  OBVIOUS
<1>1. /\ stage = "scan" /\ pc = "open" /\ seen < Len(before) /\ seen' = seen + 1
      /\ last' = [st \in DOMAIN last \cup {p.st} |-> IF st = p.st THEN p.cc ELSE last[st]]
      /\ UNCHANGED <<input, filter, offset, mpegts, exc, faults, pc, res, outcome, before, stage>>
      /\ UNCHANGED <<count, read, asked, out, cc>>
  BY DEF ScanInv, Scanned, ScanRead, copy
<1>2. /\ Inv /\ before \in Seq(PacketType) /\ Continuous(before) /\ seen \in Nat /\ Len(before) \in Nat
      /\ seen + 1 \in 1 .. Len(before)
  BY <1>1 DEF ScanInv, Scanned
<1>3. p \in PacketType /\ p.st \in Streams /\ p.cc \in Counter
  <2>1. p \in PacketType
    BY <1>2, ElementOfSeq
  <2> QED
    BY <2>1 DEF PacketType
<1>4. /\ DOMAIN last' = DOMAIN last \cup {p.st} /\ last'[p.st] = p.cc
      /\ \A st \in DOMAIN last : st # p.st => last'[st] = last[st]
  BY <1>1
<1>5. ArgsOK'
  <2>1. DOMAIN last \subseteq Streams /\ last \in [DOMAIN last -> Counter]
        /\ offset \in [DOMAIN offset -> Int] /\ DOMAIN offset \subseteq Streams
    BY <1>2 DEF Inv, Types, ArgsOK
  <2>2. DOMAIN last' \subseteq Streams
    BY <1>3, <1>4, <2>1
  <2>3. last' \in [DOMAIN last' -> Counter]
    BY <1>1, <1>3, <1>4, <2>1
  <2> QED
    BY <1>1, <2>1, <2>2, <2>3 DEF ArgsOK
<1>6. Types'
  BY <1>1, <1>2, <1>5 DEF Inv, Types, TypeOK, InHand
<1>7. CountersOK'
  BY <1>1, <1>2 DEF Inv, CountersOK
<1>8. Told' /\ Offset' /\ AskedOK' /\ CopiedOK' /\ EndsOK' /\ RangedOK'
  <2>1. Told' /\ Offset' /\ EndsOK' /\ RangedOK'
    BY <1>1, <1>2 DEF Inv, Told, Pending, Offset, OffsetOf, EndsOK, RangedOK, Number
  <2>2. AskedOK' /\ CopiedOK'
    BY <1>1, <1>2 DEF Inv, AskedOK, Filtering, CopiedOK, Handled, Dropped, OutPackets
  <2> QED
    BY <2>1, <2>2
<1>9. Scanned'
  <2>1. \A st \in DOMAIN last' : \E i \in 1 .. seen' : before[i].st = st
    <3> SUFFICES ASSUME NEW st \in DOMAIN last' PROVE \E i \in 1 .. seen + 1 : before[i].st = st
      BY <1>1
    <3>1. CASE st = p.st
      BY <1>2, <3>1
    <3>2. CASE st # p.st
      <4>1. PICK i \in 1 .. seen : before[i].st = st
        BY <1>4, <3>2 DEF ScanInv, Scanned
      <4> QED
        BY <1>2, <4>1
    <3> QED
      BY <3>1, <3>2
  <2>2. ASSUME NEW i \in 1 .. seen + 1
        PROVE  /\ before[i].st \in DOMAIN last'
               /\ (\A k \in i + 1 .. seen + 1 : before[k].st # before[i].st) =>
                     last'[before[i].st] = before[i].cc
    <3>1. CASE i = seen + 1
      BY <1>4, <3>1
    <3>2. CASE i <= seen
      <4>1. i \in 1 .. seen /\ before[i].st \in DOMAIN last
        BY <1>2, <3>2 DEF ScanInv, Scanned
      <4>2. ASSUME \A k \in i + 1 .. seen + 1 : before[k].st # before[i].st
            PROVE  last'[before[i].st] = before[i].cc
        <5>1. before[i].st # p.st
          BY <1>2, <3>2, <4>2
        <5>2. \A k \in i + 1 .. seen : before[k].st # before[i].st
          BY <1>2, <4>2
        <5>3. last[before[i].st] = before[i].cc
          BY <4>1, <5>2 DEF ScanInv, Scanned
        <5> QED
          BY <1>4, <4>1, <5>1, <5>3
      <4> QED
        BY <1>4, <4>1, <4>2
    <3> QED
      BY <1>2, <3>1, <3>2
  <2>3. Continuous(before)'
    BY <1>1, <1>2 DEF Continuous
  <2>4. seen' \in 0 .. Len(before)
    BY <1>1, <1>2
  <2> QED
    BY <1>1, <1>2, <2>1, <2>2, <2>3, <2>4 DEF Scanned
<1> QED
  BY <1>5, <1>6, <1>7, <1>8, <1>9 DEF ScanInv, Inv

\* All other steps leave the scan, and what it found, alone.
LEMMA OtherInv ==
    ASSUME ScanInv, [Next]_vars, UNCHANGED <<before, seen, last>>, stage' = "scan" => pc' = "open"
    PROVE  ScanInv'
<1>1. Inv'
  BY NextInv DEF ScanInv
<1>2. Continuous(before)'
  BY DEF ScanInv, Scanned, Continuous
<1>3. Scanned'
  BY <1>2 DEF ScanInv, Scanned
<1> QED
  BY <1>1, <1>3 DEF ScanInv

LEMMA LastKept == ASSUME [Next]_vars PROVE last' = last
  BY DEF Next, OpenFails, Open, Read, ReadEnds, Filter, Write, WriteFails, WriteTrailer,
         Return, vars, args

LEMMA NextScanned ==
    ASSUME ScanInv, [ScanRead \/ ScanReturns \/ ScanRaises \/ Copy]_allvars PROVE ScanInv'
<1>1. CASE ScanRead
  BY <1>1, ScanReadInv
<1>2. CASE ScanReturns \/ ScanRaises
  <2>1. UNCHANGED <<vars, before, seen>> /\ stage' # "scan"
    BY <1>2 DEF ScanReturns, ScanRaises
  <2>2. [Next]_vars /\ UNCHANGED <<before, seen, last>>
    BY <2>1, LastKept
  <2> QED
    BY <2>1, <2>2, OtherInv
<1>3. CASE Copy
  <2>1. [Next]_vars /\ UNCHANGED <<before, seen>> /\ stage' = "copy"
    BY <1>3 DEF Copy, scan
  <2> QED
    BY <2>1, LastKept, OtherInv
<1>4. CASE UNCHANGED allvars
  <2>1. UNCHANGED vars /\ UNCHANGED <<before, seen, stage>>
    BY <1>4 DEF allvars, scan
  <2>2. [Next]_vars /\ last' = last
    BY <2>1, LastKept
  <2>3. stage' = "scan" => pc' = "open"
    BY <2>1 DEF ScanInv, Scanned, vars
  <2> QED
    BY <2>1, <2>2, <2>3, OtherInv
<1> QED
  BY <1>1, <1>2, <1>3, <1>4

\* What is shown of a copy is true of one that follows a scan.
THEOREM ScanInvariant == SpecScan => []ScanInv
  BY InitScanned, NextScanned, PTL DEF SpecScan

\* The copy starts where the scan ended: with no packet of a stream before it, the
\* counter after the last one of the file before.
LEMMA AppendedContinues == ScanInv => ConcatenationContinues
<1> DEFINE L == Len(before)
           n == Len(out)
           f == Appended
<1> SUFFICES ASSUME ScanInv, stage = "copy", seen = L, mpegts, Cardinality(DOMAIN last) <= MaxCcs,
                    NEW j \in 1 .. L + n, NEW i \in 1 .. j - 1, NEW st,
                    f[i].st = st, f[j].st = st, \A k \in i + 1 .. j - 1 : f[k].st # st
             PROVE  f[j].cc = CountUp(f[i].cc)
  <2>1. ScanInv => DOMAIN f = 1 .. L + n
    BY DEF ScanInv, Scanned, Inv, Types, TypeOK, Appended
  <2> HIDE DEF L, n, f
  <2> SUFFICES ASSUME ScanInv, stage = "copy", seen = L, mpegts, Cardinality(DOMAIN last) <= MaxCcs
               PROVE  Continuous(f)
    BY DEF ConcatenationContinues, f, L
  <2> QED
    BY <2>1 DEF Continuous
<1>0. /\ L \in Nat /\ n \in Nat /\ j \in Nat /\ i \in Nat
      /\ Inv /\ Continuous(before) /\ Counting /\ ArgsOK /\ CountersOK
  BY DEF ScanInv, Scanned, Inv, Types, TypeOK, Counting
<1>1. /\ \A k \in 1 .. L : f[k] = before[k]
      /\ \A k \in 1 .. n : f[L + k].st = Stream(k) /\ f[L + k].cc = out[k].cc
  BY <1>0 DEF ScanInv, Scanned, Appended, Stream
<1>2. ASSUME NEW k \in 1 .. n PROVE Stream(k) \in Streams
  <2>1. /\ out \in Seq([pkt : 1 .. Len(input), pts : Int, cc : Counter])
        /\ input \in Seq([st : Streams, pts : Int])
    BY DEF ScanInv, Inv, Types, TypeOK
  <2>2. out[k] \in [pkt : 1 .. Len(input), pts : Int, cc : Counter]
    BY <2>1, ElementOfSeq
  <2>3. out[k].pkt \in 1 .. Len(input)
    BY <2>2
  <2>4. input[out[k].pkt] \in [st : Streams, pts : Int]
    BY <2>1, <2>3, ElementOfSeq
  <2> QED
    BY <2>4 DEF Stream
<1> HIDE DEF L, n, f
<1>3. CASE j <= L
  <2>1. DOMAIN before = 1 .. L
    BY DEF ScanInv, Scanned, L
  <2>2. j \in DOMAIN before /\ \A k \in i .. j : f[k] = before[k]
    BY <1>0, <1>1, <1>3, <2>1
  <2>3. before[i].st = before[j].st /\ \A k \in i + 1 .. j - 1 : before[k].st # before[j].st
    BY <1>0, <2>2
  <2>4. before[j].cc = CountUp(before[i].cc)
    BY <1>0, <2>2, <2>3 DEF Continuous
  <2> QED
    BY <1>0, <2>2, <2>4
<1>4. CASE L < j
  <2> PICK b \in 1 .. n : j = L + b
    <3>1. j - L \in 1 .. n /\ j = L + (j - L)
      BY <1>0, <1>4
    <3> QED
      BY <3>1
  <2>1. st = Stream(b) /\ st \in Streams /\ f[j].cc = out[b].cc
    BY <1>1, <1>2
  <2>2. Start(st) \in 0 .. CcMod - 1 /\ CcMod \in Nat \ {0}
    BY <1>0, <2>1, StartType, CcModAssumption
  <2>3. out[b].cc = (Start(st) + Before(st, b) + 1) % CcMod
    BY <1>0, <2>1 DEF CountersOK, n
  <2>4. CASE i <= L
    <3>1. Before(st, b) = 0
      <4>1. \A k \in 1 .. b - 1 : Stream(k) # st
        <5> TAKE k \in 1 .. b - 1
        <5>1. k \in 1 .. n /\ L + k \in i + 1 .. j - 1
          BY <1>0, <2>4
        <5> QED
          BY <1>1, <5>1
      <4>2. { k \in 1 .. b - 1 : Stream(k) = st } = {}
        BY <4>1
      <4> QED
        BY <4>2, FS_EmptySet DEF Before
    <3>2. i \in 1 .. L /\ before[i].st = st /\ \A k \in i + 1 .. L : before[k].st # st
      BY <1>0, <1>1, <1>4, <2>4
    <3>3. Start(st) = before[i].cc
      <4>0. \A h \in 1 .. L :
               /\ before[h].st \in DOMAIN last
               /\ (\A k \in h + 1 .. L : before[k].st # before[h].st) =>
                     last[before[h].st] = before[h].cc
        BY DEF ScanInv, Scanned
      <4>1. \A k \in i + 1 .. L : before[k].st # before[i].st
        BY <3>2, Zenon
      <4>2. before[i].st \in DOMAIN last /\ last[before[i].st] = before[i].cc
        BY <3>2, <4>0, <4>1, Zenon
      <4>3. st \in DOMAIN last /\ last[st] = before[i].cc
        BY <3>2, <4>2, Zenon
      <4> QED
        BY <4>3 DEF Start
    <3>4. f[i].cc = Start(st)
      BY <1>1, <3>2, <3>3
    <3> QED
      BY <2>1, <2>2, <2>3, <3>1, <3>4 DEF CountUp
  <2>5. CASE L < i
    <3> PICK a \in 1 .. b - 1 : i = L + a
      <4>1. i - L \in 1 .. b - 1 /\ i = L + (i - L)
        BY <1>0, <2>5
      <4> QED
        BY <4>1
    <3>1. a \in 1 .. n /\ Stream(a) = st /\ f[i].cc = out[a].cc
      BY <1>0, <1>1
    <3>2. \A k \in a + 1 .. b - 1 : Stream(k) # st
      <4> TAKE k \in a + 1 .. b - 1
      <4>1. k \in 1 .. n /\ L + k \in i + 1 .. j - 1
        BY <1>0, <3>1
      <4> QED
        BY <1>1, <4>1
    <3>3. Before(st, a) \in Nat /\ Before(st, b) = Before(st, a) + 1
      <4> DEFINE A == { k \in 1 .. a - 1 : Stream(k) = st }
                 B == { k \in 1 .. b - 1 : Stream(k) = st }
      <4>1. B = A \cup {a} /\ a \notin A
        BY <1>0, <3>1, <3>2
      <4>2. A \in SUBSET (1 .. a - 1) /\ a - 1 \in Nat
        OBVIOUS
      <4> HIDE DEF A, B
      <4>3. IsFiniteSet(1 .. a - 1)
        BY <4>2, FS_Interval
      <4>4. IsFiniteSet(A)
        BY <4>2, <4>3, FS_Subset
      <4>5. Cardinality(A) \in Nat /\ Cardinality(B) = Cardinality(A) + 1
        BY <4>1, <4>4, FS_CardinalityType, FS_AddElement
      <4> QED
        BY <4>5 DEF A, B, Before
    <3>4. out[a].cc = (Start(st) + Before(st, a) + 1) % CcMod
      BY <1>0, <2>1, <3>1 DEF CountersOK, n
    <3> DEFINE x == Start(st) + Before(st, a) + 1
    <3>5. x \in Int /\ out[a].cc = x % CcMod /\ out[b].cc = (x + 1) % CcMod
      BY <2>2, <2>3, <3>3, <3>4
    <3> HIDE DEF x
    <3>6. ((x % CcMod) + 1) % CcMod = (x + 1) % CcMod
      BY <2>2, <3>5, ModNext
    <3> QED
      BY <2>1, <3>1, <3>5, <3>6 DEF CountUp
  <2> QED
    BY <1>0, <2>4, <2>5
<1> QED
  BY <1>0, <1>3, <1>4

\* A file that was scanned to its end and the copy appended to it are as continuous as
\* the file was, however long they are and whatever the filter dropped.
THEOREM ConcatenationAlwaysContinues == SpecScan => []ConcatenationContinues
  BY AppendedContinues, ScanInvariant, PTL

\* A copy made after a scan is a copy: what the filter keeps, with the offsets of its
\* streams, and every exception reaches the caller.
THEOREM CopyAfterScan ==
    SpecScan => [](CopyIsFilteredInput /\ OffsetsReachTheirStream /\ RaisesReachCaller)
<1>1. ScanInv => CopyIsFilteredInput /\ OffsetsReachTheirStream /\ RaisesReachCaller
  BY InvCopies, InvOffsets, InvTells DEF ScanInv
<1> QED
  BY <1>1, ScanInvariant, PTL
===============================================================================
