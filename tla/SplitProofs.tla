------------------------------ MODULE SplitProofs ------------------------------
(***************************************************************************)
(* Proofs about Split, for archives of any length, any limits and any      *)
(* number of runs that are killed anywhere.                                *)
(***************************************************************************)
EXTENDS Split, WellFoundedInduction, TLAPS

-----------------------------------------------------------------------------
(***************************************************************************)
(* Part files: a header, and packets b, b + 1, ... as far as they reach.   *)
(***************************************************************************)
Number(b, k) == IF k = 0 THEN 0 ELSE b + k - 1

Holds(f, b) ==
    \A k \in Nat :
       /\ 3 * k + 1 <= Len(f) => f[3 * k + 1] = [is |-> "marker", of |-> Number(b, k)]
       /\ 3 * k + 2 <= Len(f) => f[3 * k + 2] = [is |-> "length", of |-> Number(b, k)]
       /\ 3 * k + 3 <= Len(f) => f[3 * k + 3] = [is |-> "payload", of |-> Number(b, k)]

LEMMA Concatenated ==
    ASSUME NEW S, NEW f \in Seq(S), NEW r \in Seq(S)
    PROVE  /\ f \o r \in Seq(S) /\ Len(f \o r) = Len(f) + Len(r)
           /\ \A x \in 1 .. Len(f) + Len(r) :
                (f \o r)[x] = IF x <= Len(f) THEN f[x] ELSE r[x - Len(f)]
  OBVIOUS

LEMMA RecordType ==
    ASSUME NEW n \in Nat
    PROVE  /\ Record(n) \in Seq(Field) /\ Len(Record(n)) = 3
           /\ Record(n)[1] = [is |-> "marker", of |-> n]
           /\ Record(n)[2] = [is |-> "length", of |-> n]
           /\ Record(n)[3] = [is |-> "payload", of |-> n]
  BY DEF Record, Field

LEMMA HeaderHolds == ASSUME NEW b \in Nat PROVE Holds(Record(0), b)
<1> SUFFICES ASSUME NEW k \in Nat
             PROVE  /\ 3 * k + 1 <= Len(Record(0)) =>
                         Record(0)[3 * k + 1] = [is |-> "marker", of |-> Number(b, k)]
                    /\ 3 * k + 2 <= Len(Record(0)) =>
                         Record(0)[3 * k + 2] = [is |-> "length", of |-> Number(b, k)]
                    /\ 3 * k + 3 <= Len(Record(0)) =>
                         Record(0)[3 * k + 3] = [is |-> "payload", of |-> Number(b, k)]
  BY DEF Holds
<1>0. /\ Len(Record(0)) = 3
      /\ Record(0)[1] = [is |-> "marker", of |-> 0]
      /\ Record(0)[2] = [is |-> "length", of |-> 0]
      /\ Record(0)[3] = [is |-> "payload", of |-> 0]
  <2>1. 0 \in Nat
    OBVIOUS
  <2> QED
    BY <2>1, RecordType
<1>1. CASE k = 0
  BY <1>0, <1>1 DEF Number
<1>2. CASE k > 0
  BY SMTT(20), <1>0, <1>2
<1> QED
  BY <1>1, <1>2

\* The next packet is written behind the last one.
LEMMA AppendHolds ==
    ASSUME NEW f \in Seq(Field), NEW b \in Nat \ {0}, NEW m \in Nat,
           Holds(f, b), Len(f) = 3 * m + 3
    PROVE  /\ f \o Record(b + m) \in Seq(Field)
           /\ Len(f \o Record(b + m)) = 3 * m + 6
           /\ Holds(f \o Record(b + m), b)
<1> DEFINE r == Record(b + m)
           g == f \o r
<1>1. /\ r \in Seq(Field) /\ Len(r) = 3
      /\ r[1] = [is |-> "marker", of |-> b + m]
      /\ r[2] = [is |-> "length", of |-> b + m]
      /\ r[3] = [is |-> "payload", of |-> b + m]
  BY RecordType
<1> HIDE DEF r
<1>2. /\ g \in Seq(Field) /\ Len(g) = 3 * m + 6
      /\ \A x \in 1 .. 3 * m + 3 : g[x] = f[x]
      /\ g[3 * m + 4] = r[1] /\ g[3 * m + 5] = r[2] /\ g[3 * m + 6] = r[3]
  <2>1. g \in Seq(Field) /\ Len(g) = Len(f) + Len(r)
    BY <1>1, Concatenated
  <2>2. \A x \in 1 .. Len(f) + Len(r) : g[x] = IF x <= Len(f) THEN f[x] ELSE r[x - Len(f)]
    BY <1>1, Concatenated
  <2> HIDE DEF g
  <2>3. /\ Len(f) = 3 * m + 3 /\ Len(f) + Len(r) = 3 * m + 6
        /\ \A x \in 1 .. 3 * m + 3 : x \in 1 .. Len(f) + Len(r)
    BY <1>1
  <2>4. g[3 * m + 4] = r[1] /\ g[3 * m + 5] = r[2] /\ g[3 * m + 6] = r[3]
    <3>1. ASSUME NEW y \in 1 .. 3 PROVE g[3 * m + 3 + y] = r[y]
      <4>1. 3 * m + 3 + y \in 1 .. Len(f) + Len(r)
        BY <2>3
      <4>2. ~(3 * m + 3 + y <= Len(f)) /\ (3 * m + 3 + y) - Len(f) = y
        BY <2>3
      <4> QED
        BY <2>2, <4>1, <4>2
    <3>2. 3 * m + 3 + 1 = 3 * m + 4 /\ 3 * m + 3 + 2 = 3 * m + 5 /\ 3 * m + 3 + 3 = 3 * m + 6
      OBVIOUS
    <3>3. g[3 * m + 3 + 1] = r[1] /\ g[3 * m + 3 + 2] = r[2] /\ g[3 * m + 3 + 3] = r[3]
      BY <3>1
    <3> QED
      BY <3>2, <3>3
  <2> QED
    BY <2>1, <2>2, <2>3, <2>4
<1> HIDE DEF g
<1>3. ASSUME NEW k \in Nat
      PROVE  /\ 3 * k + 1 <= Len(g) => g[3 * k + 1] = [is |-> "marker", of |-> Number(b, k)]
             /\ 3 * k + 2 <= Len(g) => g[3 * k + 2] = [is |-> "length", of |-> Number(b, k)]
             /\ 3 * k + 3 <= Len(g) => g[3 * k + 3] = [is |-> "payload", of |-> Number(b, k)]
  <2>1. CASE k <= m
    <3>1. 3 * k + 1 \in 1 .. 3 * m + 3 /\ 3 * k + 2 \in 1 .. 3 * m + 3 /\ 3 * k + 3 \in 1 .. 3 * m + 3
      BY <2>1
    <3>2. /\ f[3 * k + 1] = [is |-> "marker", of |-> Number(b, k)]
          /\ f[3 * k + 2] = [is |-> "length", of |-> Number(b, k)]
          /\ f[3 * k + 3] = [is |-> "payload", of |-> Number(b, k)]
      BY <3>1 DEF Holds
    <3> QED
      BY <1>2, <3>1, <3>2
  <2>2. CASE k = m + 1
    <3>1. /\ 3 * k + 1 = 3 * m + 4 /\ 3 * k + 2 = 3 * m + 5 /\ 3 * k + 3 = 3 * m + 6
          /\ Number(b, k) = b + m
      BY <2>2 DEF Number
    <3> QED
      BY <1>1, <1>2, <3>1
  <2>3. CASE k > m + 1
    BY <1>2, <2>3
  <2> QED
    BY <2>1, <2>2, <2>3
<1>4. Holds(g, b)
  BY <1>3 DEF Holds
<1> QED
  BY <1>2, <1>4 DEF g, r

\* What is left of a file that is cut short.
LEMMA CutHolds ==
    ASSUME NEW f \in Seq(Field), NEW b \in Nat, Holds(f, b), NEW n \in 0 .. Len(f)
    PROVE  SubSeq(f, 1, n) \in Seq(Field) /\ Holds(SubSeq(f, 1, n), b)
           /\ Len(SubSeq(f, 1, n)) = n
<1> PICK g : g = SubSeq(f, 1, n)
  OBVIOUS
<1>1. g \in Seq(Field) /\ Len(g) = n /\ \A x \in 1 .. n : g[x] = f[x]
  OBVIOUS
<1>2. ASSUME NEW k \in Nat
      PROVE  /\ 3 * k + 1 <= Len(g) => g[3 * k + 1] = [is |-> "marker", of |-> Number(b, k)]
             /\ 3 * k + 2 <= Len(g) => g[3 * k + 2] = [is |-> "length", of |-> Number(b, k)]
             /\ 3 * k + 3 <= Len(g) => g[3 * k + 3] = [is |-> "payload", of |-> Number(b, k)]
  <2>1. /\ 3 * k + 1 <= n => 3 * k + 1 \in 1 .. n /\ 3 * k + 1 <= Len(f)
        /\ 3 * k + 2 <= n => 3 * k + 2 \in 1 .. n /\ 3 * k + 2 <= Len(f)
        /\ 3 * k + 3 <= n => 3 * k + 3 \in 1 .. n /\ 3 * k + 3 <= Len(f)
    OBVIOUS
  <2> QED
    BY <1>1, <2>1 DEF Holds
<1> QED
  BY <1>1, <1>2 DEF Holds

\* Reading a record raises only for what is missing.
LEMMA ReadOne ==
    ASSUME NEW f \in Seq(Field), NEW b \in Nat, Holds(f, b), NEW k \in Nat
    PROVE  ReadRaises(f, k) = IF 3 * k + 3 <= Len(f) THEN "none" ELSE "Failed to read"
<1>1. ASSUME NEW j \in 1 .. 3
      PROVE  Message(f, k, j) = IF 3 * k + j <= Len(f) THEN "none" ELSE "Failed to read"
  <2>1. At(k, j) \in DOMAIN f <=> 3 * k + j <= Len(f)
    BY DEF At
  <2>2. ASSUME j = 1, 3 * k + j <= Len(f) PROVE f[At(k, j)].is = "marker"
    <3>1. f[3 * k + 1] = [is |-> "marker", of |-> Number(b, k)]
      BY <2>2 DEF Holds
    <3> QED
      BY <2>2, <3>1 DEF At
  <2> QED
    BY <2>1, <2>2 DEF Message
<1> DEFINE ms == [j \in 1 .. 3 |-> Message(f, k, j)]
           e == { j \in DOMAIN ms : ms[j] # "none" }
<1>2. ReadRaises(f, k) = IF e = {} THEN "none" ELSE ms[CHOOSE j \in e : \A x \in e : j <= x]
  BY DEF ReadRaises, First
<1>3. \A j : j \in e <=> j \in 1 .. 3 /\ ~(3 * k + j <= Len(f))
  BY <1>1
<1>4. \A j \in e : ms[j] = "Failed to read"
  BY <1>1, <1>3
<1> HIDE DEF ms, e
<1>5. CASE 3 * k + 3 <= Len(f)
  <2>1. e = {}
    BY <1>3, <1>5
  <2> QED
    BY <1>2, <1>5, <2>1
<1>6. CASE 3 * k + 3 > Len(f)
  <2>1. 3 \in e /\ e \in SUBSET (1 .. 3)
    BY <1>3, <1>6
  <2>2. \E j \in e : \A x \in e : j <= x
    <3>1. CASE 1 \in e
      BY <2>1, <3>1
    <3>2. CASE 1 \notin e /\ 2 \in e
      BY <2>1, <3>2
    <3>3. CASE 1 \notin e /\ 2 \notin e
      BY <2>1, <3>3
    <3> QED
      BY <3>1, <3>2, <3>3
  <2> DEFINE c == CHOOSE j \in e : \A x \in e : j <= x
  <2>3. c \in e
    BY <2>2
  <2>4. e # {} /\ ~(3 * k + 3 <= Len(f))
    BY <1>6, <2>1
  <2>5. ReadRaises(f, k) = IF e = {} THEN "none" ELSE ms[c]
    BY <1>2
  <2> HIDE DEF c
  <2> QED
    BY <1>4, <2>3, <2>4, <2>5
<1>7. 3 * k + 3 <= Len(f) \/ 3 * k + 3 > Len(f)
  OBVIOUS
<1> QED
  BY <1>5, <1>6, <1>7, Zenon

\* A file with m whole packets reads back as those.
LEMMA ReadsBack ==
    ASSUME NEW f \in Seq(Field), NEW b \in Nat, Holds(f, b), NEW m \in Nat,
           m > 0 => 3 * m + 3 <= Len(f), Len(f) < 3 * m + 6
    PROVE  Iterated(f) = 1 .. m /\ ReadBack(f) = [k \in 1 .. m |-> b + k - 1]
<1>1. ASSUME NEW k \in 1 .. Len(f)
      PROVE  (\A j \in 1 .. k : ReadRaises(f, j) = "none") <=> k <= m
  <2>1. ASSUME NEW j \in 1 .. k PROVE ReadRaises(f, j) = "none" <=> 3 * j + 3 <= Len(f)
    <3>1. j \in Nat
      OBVIOUS
    <3>2. ReadRaises(f, j) = IF 3 * j + 3 <= Len(f) THEN "none" ELSE "Failed to read"
      BY <3>1, ReadOne
    <3> QED
      BY <3>2
  <2>2. ASSUME k <= m, NEW j \in 1 .. k PROVE ReadRaises(f, j) = "none"
    <3>1. 3 * j + 3 <= Len(f)
      BY <2>2
    <3> QED
      BY <2>1, <3>1
  <2>3. ASSUME k > m PROVE ReadRaises(f, k) # "none"
    <3>1. k \in 1 .. k /\ ~(3 * k + 3 <= Len(f))
      BY <2>3
    <3> QED
      BY <2>1, <3>1
  <2>4. k \in 1 .. k /\ (k <= m \/ k > m)
    OBVIOUS
  <2> QED
    BY <2>2, <2>3, <2>4
<1>2. \A k \in 1 .. m : k \in 1 .. Len(f)
  OBVIOUS
<1>3. Iterated(f) = 1 .. m
  BY <1>1, <1>2 DEF Iterated
<1>4. ASSUME NEW k \in 1 .. m PROVE f[At(k, 3)].of = b + k - 1
  <2>1. 3 * k + 3 <= Len(f) /\ k \in Nat /\ k # 0
    OBVIOUS
  <2>2. f[3 * k + 3] = [is |-> "payload", of |-> Number(b, k)]
    BY <2>1 DEF Holds
  <2> QED
    BY <2>1, <2>2 DEF At, Number
<1> QED
  BY <1>3, <1>4 DEF ReadBack

-----------------------------------------------------------------------------
(***************************************************************************)
(* The run: the chunk it is in, and the file it writes.                    *)
(***************************************************************************)
Begin == nxt - cnt + 1

InLimits(b, e) ==
    \A q \in b .. e : /\ limits.duration # None => secs[q] < secs[b] + limits.duration
                      /\ limits.count # None => q - b + 1 <= limits.count - 1

InputOK ==
    /\ secs \in Seq(Int)
    /\ limits \in [duration : Int \cup {None}, count : Int \cup {None}]

Reading ==
    /\ pc \in {"off", "slice", "open", "chunk"}
    /\ nxt \in 0 .. Len(secs) /\ last \in {0, nxt} /\ held \in {0, nxt} /\ i \in Nat /\ cnt \in Nat
    /\ pc = "slice" => held = 0 /\ (i = 0 => nxt = 0 /\ last = 0)
    /\ pc \in {"open", "chunk"} =>
         /\ nxt > 0 /\ held = nxt /\ last = 0 /\ i > 0 /\ cnt \in 1 .. nxt
         /\ epoch = secs[Begin] /\ InLimits(Begin, nxt)
    /\ pc = "open" => cnt = 1

Types == InputOK /\ Reading

FilesOK ==
    /\ \A p \in DOMAIN files : files[p] \in [mjr : Seq(Field), whole : BOOLEAN]
    /\ pc = "chunk" => Path \in DOMAIN files
    /\ pc = "chunk" /\ ~skip =>
         /\ ~files[Path].whole
         /\ Holds(files[Path].mjr, Begin)
         /\ Len(files[Path].mjr) = 3 * cnt

LEMMA InputKept ==
    ASSUME [Next]_vars, InputOK
    PROVE  /\ UNCHANGED <<secs, limits, numbered>> /\ InputOK'
           /\ \A b, e : InLimits(b, e)' <=> InLimits(b, e)
<1>1. UNCHANGED <<secs, limits, numbered>>
  BY DEF Next, Start, NextChunk, NoMoreChunks, OpenPart, Put, PutLast, Dies, vars, input
<1>2. InputOK'
  BY <1>1 DEF InputOK
<1> QED
  BY <1>1, <1>2 DEF InLimits

LEMMA LimitsType ==
    ASSUME InputOK
    PROVE  /\ limits.duration # None => limits.duration \in Int
           /\ limits.count # None => limits.count \in Int
           /\ Len(secs) \in Nat /\ \A q \in Packets : secs[q] \in Int
  BY DEF InputOK, Packets

\* The limits of a chunk are those that are checked packet by packet.
LEMMA FirstWithin ==
    ASSUME InputOK, NEW b \in Packets PROVE Within(b, secs[b], 1) <=> InLimits(b, b)
<1>1. \A q : q \in b .. b <=> q = b
  BY DEF Packets
<1> QED
  BY <1>1, LimitsType DEF Within, InLimits, Packets

LEMMA MoreWithin ==
    ASSUME InputOK, NEW b \in Packets, NEW n \in Nat, b + n \in Packets, n > 0,
           InLimits(b, b + n - 1)
    PROVE  Within(b + n, secs[b], n + 1) <=> InLimits(b, b + n)
<1>0. /\ b \in Nat /\ secs[b] \in Int /\ secs[b + n] \in Int
  BY LimitsType DEF Packets
<1>1. \A q \in b .. b + n : q \in b .. b + n - 1 \/ q = b + n
  BY <1>0
<1>2. b + n \in b .. b + n /\ (b + n) - b + 1 = n + 1 /\ \A q \in b .. b + n - 1 : q \in b .. b + n
  BY <1>0
<1>3. InLimits(b, b + n) <=>
        /\ limits.duration # None => secs[b + n] < secs[b] + limits.duration
        /\ limits.count # None => n + 1 <= limits.count - 1
  BY <1>1, <1>2 DEF InLimits
<1>4. /\ limits.duration # None =>
           (secs[b + n] - secs[b] < limits.duration <=> secs[b + n] < secs[b] + limits.duration)
      /\ limits.count # None => (n + 1 < limits.count <=> n + 1 <= limits.count - 1)
  BY <1>0, LimitsType
<1> QED
  BY <1>3, <1>4 DEF Within

LEMMA InitTypes == Init => Types
<1> SUFFICES ASSUME Init PROVE Types
  OBVIOUS
<1>1. secs \in Seq(Int) /\ limits \in [duration : Int \cup {None}, count : Int \cup {None}]
  BY InputsAssumption, LimitsAssumption DEF Init
<1>2. pc = "off" /\ nxt = 0 /\ last = 0 /\ held = 0 /\ i = 0 /\ cnt = 0
  BY DEF Init
<1>3. Len(secs) \in Nat
  BY <1>1
<1> QED
  BY <1>1, <1>2, <1>3 DEF Types, InputOK, Reading

LEMMA FirstOneType == ASSUME Types, pc = "slice" PROVE FirstOne \in 1 .. Len(secs) + 1
<1>1. Len(secs) \in Nat
  BY LimitsType DEF Types
<1> QED
  BY <1>1 DEF Types, Reading, FirstOne, Kept

LEMMA NextTypes == ASSUME Types, [Next]_vars PROVE Types'
<1>0. /\ InputOK /\ InputOK' /\ UNCHANGED <<secs, limits>> /\ Len(secs) \in Nat
      /\ \A b, e : InLimits(b, e)' <=> InLimits(b, e)
  BY InputKept, LimitsType DEF Types
<1> SUFFICES Reading'
  BY <1>0 DEF Types
<1>1. ASSUME NEW f \in BOOLEAN, Start(f) PROVE Reading'
  BY <1>0, <1>1 DEF Start, Reading
<1>2. CASE NextChunk
  <2>1. /\ FirstOne \in Packets /\ Within(FirstOne, secs[FirstOne], 1) /\ pc' = "open"
        /\ i' = i + 1 /\ held' = FirstOne /\ epoch' = secs[FirstOne] /\ cnt' = 1
        /\ nxt' = FirstOne /\ last' = 0
    BY <1>2 DEF NextChunk
  <2> HIDE DEF FirstOne
  <2>2. InLimits(FirstOne, FirstOne)
    BY <1>0, <2>1, FirstWithin
  <2>3. Begin' = FirstOne
    BY <2>1 DEF Begin, Packets
  <2>4. InLimits(Begin, nxt)'
    BY <1>0, <2>1, <2>2, <2>3 DEF InLimits
  <2>5. FirstOne \in 1 .. Len(secs) /\ i \in Nat
    BY <2>1 DEF Packets, Types, Reading
  <2> QED
    BY <1>0, <2>1, <2>3, <2>4, <2>5 DEF Reading
<1>3. CASE NoMoreChunks
  <2>1. /\ pc = "slice" /\ pc' = "off" /\ UNCHANGED <<i, held>> /\ held = 0
        /\ last' = IF FirstOne \in Packets THEN FirstOne ELSE 0
        /\ nxt' = IF FirstOne \in Packets THEN FirstOne ELSE nxt
        /\ cnt' = IF FirstOne \in Packets THEN 1 ELSE 0
    BY <1>3 DEF NoMoreChunks, Types, Reading
  <2> QED
    BY <1>0, <2>1 DEF Types, Reading, Packets
<1>4. CASE OpenPart
  <2>1. pc = "open" /\ pc' = "chunk" /\ UNCHANGED <<nxt, last, epoch, cnt, i, held>>
    BY <1>4 DEF OpenPart, state
  <2>2. Begin' = Begin /\ (InLimits(Begin, nxt)' <=> InLimits(Begin, nxt))
    BY <1>0, <2>1 DEF Begin, InLimits
  <2> QED
    BY <1>0, <2>1, <2>2 DEF Types, Reading
<1>5. CASE Put
  <2>1. /\ pc = "chunk" /\ nxt + 1 \in Packets /\ Within(nxt + 1, epoch, cnt + 1)
        /\ held' = nxt + 1 /\ nxt' = nxt + 1 /\ cnt' = cnt + 1
        /\ UNCHANGED <<pc, last, epoch, i>>
    BY <1>5 DEF Put
  <2>2. /\ cnt \in 1 .. nxt /\ nxt \in Nat /\ epoch = secs[Begin] /\ InLimits(Begin, nxt)
        /\ last = 0 /\ i > 0 /\ i \in Nat
    BY <2>1 DEF Types, Reading
  <2> PICK b \in Nat : b = Begin
    BY <2>2 DEF Begin
  <2>3. b \in Packets /\ b + cnt = nxt + 1 /\ b + cnt - 1 = nxt
    BY <1>0, <2>1, <2>2 DEF Begin, Packets
  <2>4. InLimits(b, b + cnt)
    <3>1. cnt \in Nat /\ cnt > 0 /\ b + cnt \in Packets /\ InLimits(b, b + cnt - 1)
      BY <2>1, <2>2, <2>3
    <3>2. Within(b + cnt, secs[b], cnt + 1)
      BY <2>1, <2>2, <2>3
    <3> QED
      BY <1>0, <2>3, <3>1, <3>2, MoreWithin
  <2>5. Begin' = b
    BY <2>1, <2>2, <2>3 DEF Begin
  <2>6. InLimits(Begin, nxt)'
    BY <1>0, <2>1, <2>3, <2>4, <2>5 DEF InLimits
  <2> QED
    BY <1>0, <2>1, <2>2, <2>5, <2>6 DEF Reading, Packets
<1>6. CASE PutLast
  <2>1. /\ pc = "chunk" /\ pc' = "slice" /\ held' = 0 /\ UNCHANGED <<cnt, i>>
        /\ last' = IF nxt + 1 \in Packets THEN nxt + 1 ELSE 0
        /\ nxt' = IF nxt + 1 \in Packets THEN nxt + 1 ELSE nxt
    BY <1>6 DEF PutLast
  <2> QED
    BY <1>0, <2>1 DEF Types, Reading, Packets
<1>7. CASE Dies
  <2>1. pc' = "off" /\ UNCHANGED <<nxt, last, epoch, cnt, i, held>>
    BY <1>7 DEF Dies, state
  <2> QED
    BY <1>0, <2>1 DEF Types, Reading
<1>8. CASE UNCHANGED vars
  <2>1. UNCHANGED <<pc, nxt, last, epoch, cnt, i, held>>
    BY <1>8 DEF vars, state
  <2>2. Begin' = Begin /\ (InLimits(Begin, nxt)' <=> InLimits(Begin, nxt))
    BY <1>0, <2>1 DEF Begin, InLimits
  <2> QED
    BY <1>0, <2>1, <2>2 DEF Types, Reading
<1> QED
  BY <1>1, <1>2, <1>3, <1>4, <1>5, <1>6, <1>7, <1>8 DEF Next

\* What a step does to the part files: it leaves them alone, or changes the one of the
\* chunk.
OthersStay == /\ DOMAIN files' = DOMAIN files \cup {Path}
              /\ \A p \in DOMAIN files : p # Path => files'[p] = files[p]

LEMMA OpenPartFiles ==
    ASSUME OpenPart
    PROVE  /\ pc = "open" /\ pc' = "chunk" /\ UNCHANGED <<nxt, cnt, i, numbered, force, Path, Begin>>
           /\ \/ /\ Skips /\ skip' /\ files' = files
              \/ /\ ~Skips /\ ~skip' /\ OthersStay
                 /\ files'[Path] = [mjr |-> Record(0), whole |-> FALSE]
<1>1. /\ pc = "open" /\ pc' = "chunk" /\ UNCHANGED <<nxt, cnt, i, numbered, force>>
      /\ skip' = Skips
      /\ files' = IF Skips THEN files
                  ELSE [p \in DOMAIN files \cup {Path} |->
                          IF p = Path THEN [mjr |-> Record(0), whole |-> FALSE] ELSE files[p]]
  BY DEF OpenPart, state, input
<1>2. UNCHANGED <<Path, Begin>>
  BY <1>1 DEF Path, Begin
<1>3. CASE Skips
  BY <1>1, <1>2, <1>3, Zenon
<1>4. CASE ~Skips
  <2>1. ~skip'
    BY <1>1, <1>4, Zenon
  <2> HIDE DEF Path
  <2>2. OthersStay /\ files'[Path] = [mjr |-> Record(0), whole |-> FALSE]
    BY <1>1, <1>4 DEF OthersStay
  <2> QED
    BY <1>1, <1>2, <1>4, <2>1, <2>2, Zenon
<1> QED
  BY <1>3, <1>4

LEMMA WriteFiles ==
    ASSUME NEW w \in BOOLEAN, files' = Written(w), FilesOK, pc = "chunk"
    PROVE  \/ skip /\ files' = files
           \/ /\ ~skip /\ OthersStay
              /\ files'[Path] = [mjr |-> files[Path].mjr \o Record(held), whole |-> w]
<1>1. Path \in DOMAIN files
  BY DEF FilesOK
<1> HIDE DEF Path
<1>2. CASE skip
  BY <1>2 DEF Written
<1>3. CASE ~skip
  <2>1. files' = [files EXCEPT ![Path] = [mjr |-> files[Path].mjr \o Record(held), whole |-> w]]
    BY <1>3 DEF Written
  <2> QED
    BY <1>1, <1>3, <2>1 DEF OthersStay
<1> QED
  BY <1>2, <1>3

LEMMA DiesFiles ==
    ASSUME Dies, FilesOK
    PROVE  \/ files' = files
           \/ /\ pc = "chunk" /\ ~skip /\ OthersStay
              /\ files'[Path] \in [mjr : Seq(Field), whole : BOOLEAN] \/
                   files[Path].mjr \o Record(held) \notin Seq(Field)
              /\ files'[Path].whole = files[Path].whole
              /\ \E n \in 0 .. Len(files[Path].mjr \o Record(held)) :
                   files'[Path].mjr = SubSeq(files[Path].mjr \o Record(held), 1, n)
<1>1. CASE pc = "chunk" /\ ~skip
  <2>0. Path \in DOMAIN files /\ files[Path] \in [mjr : Seq(Field), whole : BOOLEAN]
    BY <1>1 DEF FilesOK
  <2> DEFINE f == files[Path].mjr \o Record(held)
  <2>1. PICK n \in 0 .. Len(f) : files' = [files EXCEPT ![Path].mjr = SubSeq(f, 1, n)]
    BY <1>1 DEF Dies
  <2> HIDE DEF Path, f
  <2>2. /\ OthersStay
        /\ files'[Path] = [files[Path] EXCEPT !.mjr = SubSeq(f, 1, n)]
    BY <2>0, <2>1 DEF OthersStay
  <2>3. files'[Path].mjr = SubSeq(f, 1, n) /\ files'[Path].whole = files[Path].whole
    BY <2>0, <2>2
  <2>4. f \in Seq(Field) => SubSeq(f, 1, n) \in Seq(Field)
    OBVIOUS
  <2>5. f \in Seq(Field) => files'[Path] \in [mjr : Seq(Field), whole : BOOLEAN]
    BY <2>0, <2>2, <2>4
  <2> QED
    BY <1>1, <2>2, <2>3, <2>5 DEF f
<1>2. CASE ~(pc = "chunk" /\ ~skip)
  BY <1>2 DEF Dies
<1> QED
  BY <1>1, <1>2

\* The packet in hand is the next one of the file that is written.
LEMMA InHandHolds ==
    ASSUME Types, FilesOK, pc = "chunk", ~skip
    PROVE  LET f == files[Path].mjr \o Record(held)
           IN f \in Seq(Field) /\ Len(f) = 3 * cnt + 3 /\ Holds(f, Begin)
<1>1. /\ files[Path].mjr \in Seq(Field) /\ Holds(files[Path].mjr, Begin)
      /\ Len(files[Path].mjr) = 3 * cnt
  BY DEF FilesOK
<1>2. cnt \in 1 .. nxt /\ nxt \in Nat /\ held = nxt
  BY DEF Types, Reading
<1> PICK b \in Nat \ {0} : b = Begin
  BY <1>2 DEF Begin
<1> PICK m \in Nat : m = cnt - 1
  BY <1>2
<1>3. held = b + m /\ 3 * cnt = 3 * m + 3 /\ 3 * cnt + 3 = 3 * m + 6
  BY <1>2 DEF Begin
<1> PICK f : f = files[Path].mjr
  OBVIOUS
<1>4. /\ f \o Record(b + m) \in Seq(Field)
      /\ Len(f \o Record(b + m)) = 3 * m + 6
      /\ Holds(f \o Record(b + m), b)
  BY <1>1, <1>3, AppendHolds
<1> PICK g : g = f \o Record(b + m)
  OBVIOUS
<1>5. g = files[Path].mjr \o Record(held)
  BY <1>3
<1>6. g \in Seq(Field) /\ Len(g) = 3 * cnt + 3 /\ Holds(g, Begin)
  BY <1>3, <1>4
<1> QED
  BY <1>5, <1>6, Zenon

LEMMA InitFiles == Init => FilesOK
  BY DEF Init, FilesOK

LEMMA NextFiles == ASSUME Types, FilesOK, [Next]_vars PROVE FilesOK'
<1>1. CASE OpenPart
  <2>1. /\ pc = "open" /\ pc' = "chunk" /\ Path' = Path /\ Begin' = Begin /\ cnt' = cnt /\ cnt = 1
        /\ nxt > 0 /\ nxt \in Nat
    BY <1>1, OpenPartFiles DEF Types, Reading
  <2>2. CASE Skips /\ skip' /\ files' = files
    <3>1. Path \in DOMAIN files
      BY <2>2 DEF Skips
    <3> QED
      BY <2>1, <2>2, <3>1 DEF FilesOK
  <2>3. CASE ~skip' /\ OthersStay /\ files'[Path] = [mjr |-> Record(0), whole |-> FALSE]
    <3>1. Record(0) \in Seq(Field) /\ Len(Record(0)) = 3 /\ Holds(Record(0), Begin)
      <4>1. Begin \in Nat /\ 0 \in Nat
        BY <2>1 DEF Begin
      <4> QED
        BY <4>1, RecordType, HeaderHolds
    <3>2. /\ files'[Path] \in [mjr : Seq(Field), whole : BOOLEAN] /\ ~files'[Path].whole
          /\ files'[Path].mjr = Record(0)
      BY <2>3, <3>1
    <3>3. \A p \in DOMAIN files' : files'[p] \in [mjr : Seq(Field), whole : BOOLEAN]
      BY <2>3, <3>2 DEF OthersStay, FilesOK
    <3>4. Path' \in DOMAIN files'
      BY <2>1, <2>3 DEF OthersStay
    <3> QED
      BY <2>1, <3>1, <3>2, <3>3, <3>4 DEF FilesOK
  <2> QED
    BY <1>1, <2>2, <2>3, OpenPartFiles
<1>2. CASE Put
  <2>1. /\ pc = "chunk" /\ pc' = "chunk" /\ cnt' = cnt + 1 /\ nxt' = nxt + 1
        /\ UNCHANGED <<skip, i, numbered>> /\ files' = Written(FALSE)
        /\ cnt \in Nat /\ nxt \in Nat
    BY <1>2 DEF Put, input, Types, Reading
  <2>2. Path' = Path /\ Begin' = Begin /\ Path \in DOMAIN files
    BY <2>1 DEF Path, Begin, FilesOK
  <2>3. CASE skip /\ files' = files
    BY <2>1, <2>2, <2>3 DEF FilesOK
  <2>4. CASE /\ ~skip /\ OthersStay
             /\ files'[Path] = [mjr |-> files[Path].mjr \o Record(held), whole |-> FALSE]
    <3> PICK f : f = files[Path].mjr \o Record(held)
      OBVIOUS
    <3>1. f \in Seq(Field) /\ Len(f) = 3 * cnt + 3 /\ Holds(f, Begin)
      BY <2>1, <2>4, InHandHolds
    <3>2. /\ files'[Path] \in [mjr : Seq(Field), whole : BOOLEAN] /\ ~files'[Path].whole
          /\ files'[Path].mjr = f
      BY <2>4, <3>1
    <3>3. \A p \in DOMAIN files' : files'[p] \in [mjr : Seq(Field), whole : BOOLEAN]
      BY <2>4, <3>2 DEF OthersStay, FilesOK
    <3>4. Path' \in DOMAIN files'
      BY <2>2, <2>4, Zenon DEF OthersStay
    <3>6. 3 * cnt' = 3 * cnt + 3
      BY <2>1
    <3>5. Holds(files'[Path'].mjr, Begin')
      BY <2>2, <3>1, <3>2
    <3> QED
      BY <2>1, <2>2, <3>1, <3>2, <3>3, <3>4, <3>5, <3>6 DEF FilesOK
  <2> QED
    BY <2>1, <2>3, <2>4, WriteFiles
<1>3. CASE PutLast
  <2>1. pc = "chunk" /\ pc' = "slice" /\ files' = Written(TRUE)
    BY <1>3 DEF PutLast
  <2>2. CASE skip /\ files' = files
    BY <2>1, <2>2 DEF FilesOK
  <2>3. CASE /\ ~skip /\ OthersStay
             /\ files'[Path] = [mjr |-> files[Path].mjr \o Record(held), whole |-> TRUE]
    <3>1. files'[Path] \in [mjr : Seq(Field), whole : BOOLEAN]
      <4> PICK f : f = files[Path].mjr \o Record(held)
        OBVIOUS
      <4>1. f \in Seq(Field)
        BY <2>1, <2>3, InHandHolds
      <4> QED
        BY <2>3, <4>1
    <3>2. \A p \in DOMAIN files' : files'[p] \in [mjr : Seq(Field), whole : BOOLEAN]
      BY <2>3, <3>1 DEF OthersStay, FilesOK
    <3> QED
      BY <2>1, <3>2 DEF FilesOK
  <2> QED
    BY <2>1, <2>2, <2>3, WriteFiles
<1>4. CASE Dies
  <2>1. pc' = "off"
    BY <1>4 DEF Dies
  <2>2. \A p \in DOMAIN files' : files'[p] \in [mjr : Seq(Field), whole : BOOLEAN]
    <3>1. CASE files' = files
      BY <3>1 DEF FilesOK
    <3>2. CASE pc = "chunk" /\ ~skip /\ OthersStay
               /\ (files'[Path] \in [mjr : Seq(Field), whole : BOOLEAN] \/
                     files[Path].mjr \o Record(held) \notin Seq(Field))
      <4>1. files'[Path] \in [mjr : Seq(Field), whole : BOOLEAN]
        BY <3>2, InHandHolds
      <4> QED
        BY <3>2, <4>1 DEF OthersStay, FilesOK
    <3> QED
      BY <1>4, <3>1, <3>2, DiesFiles
  <2> QED
    BY <2>1, <2>2 DEF FilesOK
<1>5. CASE NextChunk \/ NoMoreChunks \/ \E f \in BOOLEAN : Start(f)
  BY <1>5 DEF NextChunk, NoMoreChunks, Start, FilesOK
<1>6. CASE UNCHANGED vars
  <2>1. UNCHANGED <<files, pc, skip, numbered, i, nxt, cnt>>
    BY <1>6 DEF vars, input, state
  <2> QED
    BY <2>1 DEF FilesOK, Path, Begin
<1> QED
  BY <1>1, <1>2, <1>3, <1>4, <1>5, <1>6 DEF Next

-----------------------------------------------------------------------------
(***************************************************************************)
(* All runs agree on where the chunks begin: g[n] is the first packet of   *)
(* chunk n, for as many chunks as some run has begun.                      *)
(***************************************************************************)
\* A chunk as the predicate makes it: of count - 1 packets at most.
IsChunk(b, e) ==
    /\ \A q \in b .. e : /\ limits.duration # None => secs[q] < secs[b] + limits.duration
                         /\ limits.count # None => q - b + 1 <= limits.count - 1
    /\ e < Len(secs) =>
          \/ limits.duration # None /\ secs[e + 1] >= secs[b] + limits.duration
          \/ limits.count # None /\ e - b + 1 = limits.count - 1

Chunk(b, e) == b \in Packets /\ e \in Packets /\ b <= e /\ IsChunk(b, e)

Plan(g) ==
    /\ g \in Seq(Nat)
    /\ \A n \in 1 .. Len(g) : g[n] \in Packets /\ InLimits(g[n], g[n])
    /\ Len(g) > 0 => g[1] = 1
    /\ \A n \in 1 .. Len(g) - 1 : Chunk(g[n], g[n + 1] - 1)
    /\ Len(g) > 0 => \A q \in 1 .. g[Len(g)] :
         \E n \in 1 .. Len(g) : g[n] <= q /\ (n < Len(g) => q < g[n + 1])

FilesFollow(g) ==
    numbered => \A p \in DOMAIN files :
       /\ p \in 1 .. Len(g) /\ Holds(files[p].mjr, g[p])
       /\ files[p].whole => \E e \in Packets :
            Chunk(g[p], e) /\ Len(files[p].mjr) = 3 * (e - g[p] + 1) + 3

RunFollows(g) ==
    /\ pc # "off" => i <= Len(g) /\ ~done
    /\ pc \in {"open", "chunk"} => Begin = g[i]
    /\ pc = "slice" /\ i > 0 => Chunk(g[i], FirstOne - 1)

\* Chunks the run has done with.
Past == IF pc = "slice" THEN i ELSE i - 1

Leaves(g) ==
    /\ numbered /\ pc # "off" => \A n \in 1 .. Past :
         n \in DOMAIN files /\ (force => files[n].whole)
    /\ pc = "chunk" /\ skip => ~force
    /\ numbered /\ pc = "off" /\ done =>
         /\ \A n \in 1 .. Len(g) : n \in DOMAIN files /\ (force => files[n].whole)
         /\ Satisfiable => IF Len(g) = 0 THEN Packets = {} ELSE Chunk(g[Len(g)], Len(secs))

Follows(g) == Plan(g) /\ FilesFollow(g) /\ RunFollows(g) /\ Leaves(g)

LEMMA PlanKept ==
    ASSUME Types, [Next]_vars
    PROVE  /\ \A b, e : Chunk(b, e)' <=> Chunk(b, e)
           /\ \A g : Plan(g)' <=> Plan(g)
           /\ Packets' = Packets /\ numbered' = numbered /\ (Satisfiable' <=> Satisfiable)
           /\ Len(secs)' = Len(secs)
<1>1. UNCHANGED <<secs, limits, numbered>> /\ \A b, e : InLimits(b, e)' <=> InLimits(b, e)
  BY InputKept DEF Types
<1>2. \A b, e : Chunk(b, e)' <=> Chunk(b, e)
  BY <1>1 DEF Chunk, IsChunk, Packets
<1>3. Packets' = Packets /\ Len(secs)' = Len(secs) /\ (Satisfiable' <=> Satisfiable)
  BY <1>1 DEF Packets, Satisfiable
<1>4. \A g : Plan(g)' <=> Plan(g)
  BY <1>1, <1>2, <1>3 DEF Plan
<1> QED
  BY <1>1, <1>2, <1>3, <1>4

LEMMA ChunkIsPart ==
    ASSUME Types, NEW b, NEW e, Chunk(b, e) PROVE IsPart(b, e)
<1>1. /\ b \in Nat /\ e \in Nat /\ b <= e /\ e \in b .. e /\ IsChunk(b, e)
      /\ limits.count # None => limits.count \in Int
  BY LimitsType DEF Chunk, Packets, Types
<1>2. limits.count # None => e - b + 1 <= limits.count
  BY <1>1 DEF IsChunk
<1>3. limits.duration # None => \A q \in b .. e : secs[q] < secs[b] + limits.duration
  BY <1>1 DEF IsChunk
<1>4. ASSUME e < Len(secs)
      PROVE  \/ limits.duration # None /\ secs[e + 1] >= secs[b] + limits.duration
             \/ limits.count # None /\ e - b + 1 >= limits.count - 1
  <2>1. \/ limits.duration # None /\ secs[e + 1] >= secs[b] + limits.duration
        \/ limits.count # None /\ e - b + 1 = limits.count - 1
    BY <1>1, <1>4 DEF IsChunk
  <2> QED
    BY <1>1, <2>1
<1> QED
  BY <1>2, <1>3, <1>4 DEF IsPart

\* Where a chunk ends is settled by where it begins.
LEMMA OneChunk ==
    ASSUME Types, NEW b, NEW e, NEW d, Chunk(b, e), Chunk(b, d) PROVE e = d
<1>0. /\ b \in Nat /\ e \in Nat /\ d \in Nat /\ Len(secs) \in Nat
      /\ e <= Len(secs) /\ d <= Len(secs) /\ b <= e /\ b <= d
  BY LimitsType DEF Chunk, Packets, Types
<1>1. ASSUME NEW x \in Nat, NEW y \in Nat, b <= x, x < y, y <= Len(secs),
             IsChunk(b, x), IsChunk(b, y)
      PROVE  FALSE
  <2>1. x + 1 \in b .. y /\ x < Len(secs)
    BY <1>0, <1>1
  <2>2. /\ limits.duration # None => secs[x + 1] < secs[b] + limits.duration
        /\ limits.count # None => (x + 1) - b + 1 <= limits.count - 1
    BY <1>1, <2>1 DEF IsChunk
  <2>3. \/ limits.duration # None /\ secs[x + 1] >= secs[b] + limits.duration
        \/ limits.count # None /\ x - b + 1 = limits.count - 1
    BY <1>1, <2>1 DEF IsChunk
  <2>4. /\ limits.duration # None => limits.duration \in Int
        /\ limits.count # None => limits.count \in Int
        /\ secs[x + 1] \in Int /\ secs[b] \in Int
    <3>1. x + 1 \in Packets /\ b \in Packets
      BY <1>0, <1>1, <2>1 DEF Packets, Chunk
    <3> QED
      BY <3>1, LimitsType DEF Types
  <2>5. CASE limits.duration # None /\ secs[x + 1] >= secs[b] + limits.duration
    BY <2>2, <2>4, <2>5
  <2>6. CASE limits.count # None /\ x - b + 1 = limits.count - 1
    BY <1>0, <2>2, <2>4, <2>6
  <2> QED
    BY <2>3, <2>5, <2>6
<1>2. IsChunk(b, e) /\ IsChunk(b, d)
  BY DEF Chunk
<1>3. ~(e < d)
  BY <1>0, <1>1, <1>2
<1>4. ~(d < e)
  BY <1>0, <1>1, <1>2
<1> QED
  BY <1>0, <1>3, <1>4

\* A chunk the plan already has begins where the run is.
LEMMA NextPlanned ==
    ASSUME Types, pc = "slice", NEW g, Plan(g), RunFollows(g), i < Len(g)
    PROVE  FirstOne = g[i + 1] /\ FirstOne \in Packets /\ Within(FirstOne, secs[FirstOne], 1)
<1>0. i \in Nat /\ g \in Seq(Nat) /\ InputOK
  BY DEF Types, Reading, Plan
<1>1. i + 1 \in 1 .. Len(g)
  BY <1>0
<1>2. g[i + 1] \in Packets /\ InLimits(g[i + 1], g[i + 1])
  BY <1>1 DEF Plan
<1>3. FirstOne = g[i + 1]
  <2>1. CASE i = 0
    <3>1. FirstOne = 1
      BY <2>1 DEF Types, Reading, FirstOne, Kept
    <3> QED
      BY <1>1, <2>1, <3>1 DEF Plan
  <2>2. CASE i > 0
    <3>1. Chunk(g[i], FirstOne - 1)
      BY <2>2 DEF RunFollows
    <3>2. i \in 1 .. Len(g) - 1
      BY <1>0, <2>2
    <3>3. Chunk(g[i], g[i + 1] - 1)
      BY <3>2 DEF Plan
    <3>4. FirstOne - 1 = g[i + 1] - 1
      BY <3>1, <3>3, OneChunk
    <3>5. FirstOne \in Int /\ g[i + 1] \in Int
      BY <1>2, FirstOneType DEF Packets
    <3> QED
      BY <3>4, <3>5
  <2> QED
    BY <1>0, <2>1, <2>2
<1>4. Within(g[i + 1], secs[g[i + 1]], 1)
  BY <1>0, <1>2, FirstWithin
<1> QED
  BY <1>2, <1>3, <1>4

LEMMA ExtendPlan ==
    ASSUME Types, NEW g, Plan(g), NEW f \in Packets, InLimits(f, f),
           IF Len(g) = 0 THEN f = 1 ELSE Chunk(g[Len(g)], f - 1)
    PROVE  Plan(Append(g, f))
<1> PICK n \in Nat : n = Len(g)
  BY DEF Plan
<1> PICK h : h = Append(g, f)
  OBVIOUS
<1>0. f \in Nat
  BY DEF Packets
<1>1. /\ h \in Seq(Nat) /\ Len(h) = n + 1 /\ h[n + 1] = f
      /\ \A k \in 1 .. n : h[k] = g[k]
  BY <1>0 DEF Plan
<1>2. \A k \in 1 .. n + 1 : k \in 1 .. n \/ k = n + 1
  OBVIOUS
<1>3. \A k \in 1 .. Len(h) : h[k] \in Packets /\ InLimits(h[k], h[k])
  BY <1>1, <1>2 DEF Plan
<1>4. h[1] = 1
  <2>1. CASE n = 0
    BY <1>1, <2>1
  <2>2. CASE n > 0
    BY <1>1, <2>2 DEF Plan
  <2> QED
    BY <2>1, <2>2
<1>5. ASSUME NEW k \in 1 .. n PROVE Chunk(h[k], h[k + 1] - 1)
  <2>1. CASE k = n
    BY <1>1, <2>1
  <2>2. CASE k < n
    <3>1. k \in 1 .. n - 1 /\ k + 1 \in 1 .. n
      BY <2>2
    <3> QED
      BY <1>1, <3>1 DEF Plan
  <2> QED
    BY <2>1, <2>2
<1>6. ASSUME NEW q \in 1 .. f
      PROVE  \E k \in 1 .. n + 1 : h[k] <= q /\ (k < n + 1 => q < h[k + 1])
  <2>1. CASE q = f
    BY <1>0, <1>1, <2>1
  <2>2. CASE n = 0 /\ q < f
    BY <2>2
  <2>3. CASE n > 0 /\ q < f
    <3>1. n \in 1 .. n /\ n + 1 \in 1 .. n + 1 /\ h[n] = g[n] /\ g[n] \in Nat
      BY <1>1, <2>3 DEF Plan
    <3>2. CASE q <= g[n]
      <4>1. q \in 1 .. g[Len(g)]
        BY <3>1, <3>2
      <4>2. PICK k \in 1 .. n : g[k] <= q /\ (k < n => q < g[k + 1])
        BY <2>3, <4>1 DEF Plan
      <4>3. CASE k < n
        <5>1. k + 1 \in 1 .. n
          BY <4>3
        <5> QED
          BY <1>1, <4>2, <4>3, <5>1
      <4>4. CASE k = n
        BY <1>1, <2>3, <4>2, <4>4
      <4> QED
        BY <4>3, <4>4
    <3>3. CASE q > g[n]
      <4>1. h[n] <= q /\ q < h[n + 1]
        BY <1>1, <2>3, <3>1, <3>3
      <4> QED
        BY <3>1, <4>1
    <3> QED
      BY <3>1, <3>2, <3>3
  <2> QED
    BY <1>0, <2>1, <2>2, <2>3
<1>7. Len(h) = n + 1 /\ Len(h) - 1 = n /\ h[Len(h)] = f
  BY <1>1
<1>8. \A k \in 1 .. Len(h) - 1 : Chunk(h[k], h[k + 1] - 1)
  BY <1>5, <1>7
<1>9. \A q \in 1 .. h[Len(h)] :
         \E k \in 1 .. Len(h) : h[k] <= q /\ (k < Len(h) => q < h[k + 1])
  BY <1>6, <1>7
<1>10. Plan(h)
  BY <1>1, <1>3, <1>4, <1>8, <1>9 DEF Plan
<1> QED
  BY <1>10

LEMMA InitFollows == Init => \E g : Follows(g)
<1> SUFFICES ASSUME Init PROVE Follows(<<>>)
  OBVIOUS
<1>1. pc = "off" /\ files = <<>> /\ ~done /\ <<>> \in Seq(Nat) /\ Len(<<>>) = 0 /\ i = 0
  BY DEF Init
<1>2. Plan(<<>>)
  BY <1>1 DEF Plan
<1>3. FilesFollow(<<>>)
  BY <1>1 DEF FilesFollow
<1>4. RunFollows(<<>>) /\ Leaves(<<>>)
  BY <1>1 DEF RunFollows, Leaves
<1> QED
  BY <1>2, <1>3, <1>4 DEF Follows

LEMMA StartFollows ==
    ASSUME Types, [Next]_vars, NEW f \in BOOLEAN, Start(f), NEW g, Follows(g)
    PROVE  Follows(g)'
<1>0. /\ Plan(g)' /\ Plan(g) /\ FilesFollow(g) /\ g \in Seq(Nat)
      /\ numbered' = numbered /\ Packets' = Packets
      /\ \A b, e : Chunk(b, e)' <=> Chunk(b, e)
  BY PlanKept DEF Follows, Plan
<1>1. files' = files /\ pc' = "slice" /\ i' = 0 /\ ~done'
  BY DEF Start
<1>2. FilesFollow(g)'
  BY <1>0, <1>1 DEF FilesFollow
<1>3. Len(g) \in Nat
  BY <1>0
<1>4. RunFollows(g)'
  BY <1>1, <1>3 DEF RunFollows
<1>5. Leaves(g)'
  BY <1>1 DEF Leaves, Past
<1> QED
  BY <1>0, <1>2, <1>4, <1>5 DEF Follows

LEMMA NextChunkFollows ==
    ASSUME Types, [Next]_vars, NextChunk, NEW g, Follows(g) PROVE \E h : Follows(h)'
<1>0. /\ Plan(g)' /\ Plan(g) /\ FilesFollow(g) /\ RunFollows(g) /\ Leaves(g) /\ g \in Seq(Nat)
      /\ numbered' = numbered /\ Packets' = Packets
      /\ \A b, e : Chunk(b, e)' <=> Chunk(b, e)
      /\ \A h : Plan(h)' <=> Plan(h)
  BY PlanKept DEF Follows, Plan
<1> PICK f : f = FirstOne
  OBVIOUS
<1>1. /\ pc = "slice" /\ pc' = "open" /\ f \in Packets /\ Within(f, secs[f], 1)
      /\ i' = i + 1 /\ cnt' = 1 /\ nxt' = f
      /\ UNCHANGED <<files, force, done, skip>>
  BY DEF NextChunk
<1>2. i \in Nat /\ i <= Len(g) /\ Len(g) \in Nat /\ f \in Nat /\ InputOK
  BY <1>0, <1>1 DEF Types, Reading, RunFollows, Packets
<1>3. Begin' = f
  BY <1>1, <1>2 DEF Begin
<1>4. ASSUME NEW h, Plan(h), h \in Seq(Nat), Len(g) <= Len(h), i + 1 <= Len(h), h[i + 1] = f,
             \A p \in 1 .. Len(g) : h[p] = g[p]
      PROVE  Follows(h)'
  <2>1. FilesFollow(h)'
    <3> SUFFICES ASSUME numbered, NEW p \in DOMAIN files
                 PROVE  /\ p \in 1 .. Len(h) /\ Holds(files[p].mjr, h[p])
                        /\ files[p].whole => \E e \in Packets :
                             Chunk(h[p], e) /\ Len(files[p].mjr) = 3 * (e - h[p] + 1) + 3
      BY <1>0, <1>1 DEF FilesFollow
    <3>1. /\ p \in 1 .. Len(g) /\ Holds(files[p].mjr, g[p])
          /\ files[p].whole => \E e \in Packets :
               Chunk(g[p], e) /\ Len(files[p].mjr) = 3 * (e - g[p] + 1) + 3
      BY <1>0 DEF FilesFollow
    <3>2. h[p] = g[p] /\ p \in 1 .. Len(h)
      BY <1>2, <1>4, <3>1
    <3> QED
      BY <3>1, <3>2
  <2>2. RunFollows(h)'
    BY <1>0, <1>1, <1>3, <1>4 DEF RunFollows
  <2>3. Leaves(h)'
    <3>1. Past' = Past
      BY <1>1, <1>2 DEF Past
    <3> QED
      BY <1>0, <1>1, <3>1 DEF Leaves
  <2> QED
    BY <1>0, <1>4, <2>1, <2>2, <2>3 DEF Follows
<1>5. CASE i < Len(g)
  <2>1. f = g[i + 1]
    BY <1>0, <1>1, <1>5, NextPlanned
  <2>2. Follows(g)'
    BY <1>0, <1>2, <1>4, <1>5, <2>1
  <2> QED
    BY <2>2
<1>6. CASE i = Len(g)
  <2> PICK h : h = Append(g, f)
    OBVIOUS
  <2>1. /\ h \in Seq(Nat) /\ Len(h) = Len(g) + 1 /\ h[i + 1] = f
        /\ \A p \in 1 .. Len(g) : h[p] = g[p]
    BY <1>0, <1>2, <1>6
  <2>2. InLimits(f, f)
    BY <1>1, <1>2, FirstWithin
  <2>3. IF Len(g) = 0 THEN f = 1 ELSE Chunk(g[Len(g)], f - 1)
    <3>1. CASE i = 0
      BY <1>1, <1>6, <3>1 DEF Types, Reading, FirstOne, Kept
    <3>2. CASE i > 0
      BY <1>0, <1>1, <1>6, <3>2 DEF RunFollows
    <3> QED
      BY <1>2, <3>1, <3>2
  <2>4. Plan(h)
    BY <1>0, <1>1, <2>2, <2>3, ExtendPlan
  <2>5. Len(g) <= Len(h) /\ i + 1 <= Len(h)
    BY <1>2, <1>6, <2>1
  <2>6. Follows(h)'
    BY <1>4, <2>1, <2>4, <2>5
  <2> QED
    BY <2>6
<1> QED
  BY <1>2, <1>5, <1>6

LEMMA NoMoreChunksFollows ==
    ASSUME Types, [Next]_vars, NoMoreChunks, NEW g, Follows(g) PROVE Follows(g)'
<1>0. /\ Plan(g)' /\ Plan(g) /\ FilesFollow(g) /\ RunFollows(g) /\ Leaves(g) /\ g \in Seq(Nat)
      /\ numbered' = numbered /\ Packets' = Packets /\ (Satisfiable' <=> Satisfiable)
      /\ Len(secs)' = Len(secs)
      /\ \A b, e : Chunk(b, e)' <=> Chunk(b, e)
  BY PlanKept DEF Follows, Plan
<1>1. /\ pc = "slice" /\ pc' = "off" /\ UNCHANGED <<files, force>>
      /\ ~(FirstOne \in Packets /\ Within(FirstOne, secs[FirstOne], 1))
  BY DEF NoMoreChunks
<1>2. i = Len(g)
  <2>1. ~(i < Len(g))
    BY <1>0, <1>1, NextPlanned
  <2> QED
    BY <1>0, <1>1, <2>1 DEF RunFollows, Types, Reading
<1>3. FilesFollow(g)'
  BY <1>0, <1>1 DEF FilesFollow
<1>4. RunFollows(g)'
  BY <1>1 DEF RunFollows
<1>5. numbered => \A n \in 1 .. Len(g) : n \in DOMAIN files /\ (force => files[n].whole)
  BY <1>0, <1>1, <1>2 DEF Leaves, Past
<1>6. ASSUME Satisfiable PROVE IF Len(g) = 0 THEN Packets = {} ELSE Chunk(g[Len(g)], Len(secs))
  <2>0. Len(secs) \in Nat /\ InputOK
    BY LimitsType DEF Types
  <2>1. FirstOne \notin Packets
    <3>1. ASSUME FirstOne \in Packets PROVE Within(FirstOne, secs[FirstOne], 1)
      <4> PICK f : f = FirstOne
        OBVIOUS
      <4>1. secs[f] \in Int /\ f \in Packets
        BY <2>0, <3>1, LimitsType
      <4>2. Within(f, secs[f], 1)
        BY <1>6, <2>0, <4>1, LimitsType DEF Within, Satisfiable
      <4> QED
        BY <4>2
    <3> QED
      BY <1>1, <3>1
  <2>2. FirstOne = Len(secs) + 1
    BY <1>1, <2>0, <2>1, FirstOneType DEF Packets
  <2>3. CASE i = 0
    <3>1. FirstOne = 1
      BY <1>1, <2>3 DEF Types, Reading, FirstOne, Kept
    <3>2. Packets = {}
      BY <2>0, <2>2, <3>1 DEF Packets
    <3> QED
      BY <1>2, <2>3, <3>2
  <2>4. CASE i > 0
    <3>1. Chunk(g[i], FirstOne - 1) /\ FirstOne - 1 = Len(secs)
      BY <1>0, <1>1, <2>0, <2>2, <2>4 DEF RunFollows
    <3> QED
      BY <1>2, <2>4, <3>1
  <2> QED
    BY <2>3, <2>4 DEF Types, Reading
<1>7. Leaves(g)'
  BY <1>0, <1>1, <1>5, <1>6 DEF Leaves
<1> QED
  BY <1>0, <1>3, <1>4, <1>7 DEF Follows

\* A step that changes the file of chunk Path at most.
LEMMA FileFollows ==
    ASSUME Types, [Next]_vars, NEW g, FilesFollow(g), OthersStay, numbered' = numbered,
           numbered => /\ Path \in 1 .. Len(g) /\ Holds(files'[Path].mjr, g[Path])
                       /\ files'[Path].whole => \E e \in Packets :
                            Chunk(g[Path], e) /\ Len(files'[Path].mjr) = 3 * (e - g[Path] + 1) + 3
    PROVE  FilesFollow(g)'
<1>0. Packets' = Packets /\ \A b, e : Chunk(b, e)' <=> Chunk(b, e)
  BY PlanKept
<1> SUFFICES ASSUME numbered, NEW p \in DOMAIN files'
             PROVE  /\ p \in 1 .. Len(g) /\ Holds(files'[p].mjr, g[p])
                    /\ files'[p].whole => \E e \in Packets :
                         Chunk(g[p], e) /\ Len(files'[p].mjr) = 3 * (e - g[p] + 1) + 3
  BY <1>0 DEF FilesFollow
<1>1. CASE p = Path
  BY <1>1
<1>2. CASE p # Path
  <2>1. p \in DOMAIN files /\ files'[p] = files[p]
    BY <1>2 DEF OthersStay
  <2> QED
    BY <2>1 DEF FilesFollow
<1> QED
  BY <1>1, <1>2

\* The chunks behind the run keep their files.
LEMMA PastStays ==
    ASSUME NEW g, Leaves(g), numbered, pc # "off", i \in Nat, OthersStay, NEW n \in 1 .. i - 1
    PROVE  n \in DOMAIN files' /\ (force => files'[n].whole)
<1>1. n # Path
  BY DEF Path
<1>2. n \in 1 .. Past
  BY DEF Past
<1>3. n \in DOMAIN files /\ (force => files[n].whole)
  BY <1>2 DEF Leaves
<1> QED
  BY <1>1, <1>3 DEF OthersStay

LEMMA OpenPartFollows ==
    ASSUME Types, FilesOK, [Next]_vars, OpenPart, NEW g, Follows(g) PROVE Follows(g)'
<1>0. /\ Plan(g)' /\ Plan(g) /\ FilesFollow(g) /\ RunFollows(g) /\ Leaves(g) /\ g \in Seq(Nat)
      /\ numbered' = numbered /\ Packets' = Packets
      /\ \A b, e : Chunk(b, e)' <=> Chunk(b, e)
  BY PlanKept DEF Follows, Plan
<1>1. /\ pc = "open" /\ pc' = "chunk" /\ i' = i /\ Path' = Path /\ Begin' = Begin
      /\ force' = force /\ done' = done
  BY OpenPartFiles DEF OpenPart
<1>2. /\ i \in Nat /\ i > 0 /\ i <= Len(g) /\ Begin = g[i] /\ ~done
      /\ numbered => Path = i /\ Path \in 1 .. Len(g)
  BY <1>0, <1>1 DEF Types, Reading, RunFollows, Path
<1>3. RunFollows(g)'
  BY <1>0, <1>1, <1>2 DEF RunFollows
<1>4. Past' = i - 1 /\ Past = i - 1
  BY <1>1 DEF Past
<1>5. CASE Skips /\ skip' /\ files' = files
  <2>1. FilesFollow(g)'
    BY <1>0, <1>5 DEF FilesFollow
  <2>2. ~force
    BY <1>5 DEF Skips
  <2>3. Leaves(g)'
    BY <1>0, <1>1, <1>4, <1>5, <2>2 DEF Leaves
  <2> QED
    BY <1>0, <1>3, <2>1, <2>3 DEF Follows
<1>6. CASE /\ ~skip' /\ OthersStay
           /\ files'[Path] = [mjr |-> Record(0), whole |-> FALSE]
  <2>1. files'[Path].mjr = Record(0) /\ ~files'[Path].whole
    BY <1>6
  <2>2. Holds(Record(0), Begin)
    <3>1. Begin \in Nat
      BY <1>1 DEF Types, Reading, Begin
    <3> QED
      BY <3>1, HeaderHolds
  <2>3. FilesFollow(g)'
    BY <1>0, <1>2, <1>6, <2>1, <2>2, FileFollows
  <2>4. Leaves(g)'
    <3>1. ASSUME numbered, NEW n \in 1 .. i - 1
          PROVE  n \in DOMAIN files' /\ (force => files'[n].whole)
      BY <1>0, <1>1, <1>2, <1>6, <3>1, PastStays
    <3> QED
      BY <1>0, <1>1, <1>4, <1>6, <3>1 DEF Leaves
  <2> QED
    BY <1>0, <1>3, <2>3, <2>4 DEF Follows
<1> QED
  BY <1>5, <1>6, OpenPartFiles

LEMMA PutFollows ==
    ASSUME Types, FilesOK, [Next]_vars, Put, NEW g, Follows(g) PROVE Follows(g)'
<1>0. /\ Plan(g)' /\ Plan(g) /\ FilesFollow(g) /\ RunFollows(g) /\ Leaves(g) /\ g \in Seq(Nat)
      /\ numbered' = numbered /\ Packets' = Packets
      /\ \A b, e : Chunk(b, e)' <=> Chunk(b, e)
  BY PlanKept DEF Follows, Plan
<1>1. /\ pc = "chunk" /\ nxt' = nxt + 1 /\ cnt' = cnt + 1 /\ files' = Written(FALSE)
      /\ UNCHANGED <<pc, i, force, done, skip>>
  BY DEF Put
<1>2. /\ i \in Nat /\ i > 0 /\ i <= Len(g) /\ Begin = g[i] /\ ~done /\ Begin' = Begin
      /\ numbered => Path = i /\ Path \in 1 .. Len(g)
  BY <1>0, <1>1 DEF Types, Reading, RunFollows, Path, Begin
<1>3. RunFollows(g)'
  BY <1>0, <1>1, <1>2 DEF RunFollows
<1>4. Past' = i - 1 /\ Past = i - 1
  BY <1>1 DEF Past
<1>5. CASE skip /\ files' = files
  <2>1. FilesFollow(g)'
    BY <1>0, <1>5 DEF FilesFollow
  <2>2. Leaves(g)'
    BY <1>0, <1>1, <1>4, <1>5 DEF Leaves
  <2> QED
    BY <1>0, <1>3, <2>1, <2>2 DEF Follows
<1>6. CASE /\ ~skip /\ OthersStay
           /\ files'[Path] = [mjr |-> files[Path].mjr \o Record(held), whole |-> FALSE]
  <2> PICK f : f = files[Path].mjr \o Record(held)
    OBVIOUS
  <2>1. files'[Path].mjr = f /\ ~files'[Path].whole
    BY <1>6
  <2>2. Holds(f, Begin)
    BY <1>1, <1>6, InHandHolds
  <2>3. FilesFollow(g)'
    BY <1>0, <1>2, <1>6, <2>1, <2>2, FileFollows
  <2>4. Leaves(g)'
    <3>1. ASSUME numbered, NEW n \in 1 .. i - 1
          PROVE  n \in DOMAIN files' /\ (force => files'[n].whole)
      BY <1>0, <1>1, <1>2, <1>6, <3>1, PastStays
    <3> QED
      BY <1>0, <1>1, <1>4, <1>6, <3>1 DEF Leaves
  <2> QED
    BY <1>0, <1>3, <2>3, <2>4 DEF Follows
<1>7. FALSE \in BOOLEAN
  OBVIOUS
<1> QED
  BY <1>1, <1>5, <1>6, <1>7, WriteFiles

\* The packets of a chunk that ends are all that fit.
LEMMA ChunkEnds == ASSUME Types, PutLast PROVE Chunk(Begin, nxt)
<1>1. /\ pc = "chunk" /\ ~(nxt + 1 \in Packets /\ Within(nxt + 1, epoch, cnt + 1))
  BY DEF PutLast
<1>2. /\ cnt \in 1 .. nxt /\ nxt \in 1 .. Len(secs) /\ epoch = secs[Begin] /\ InLimits(Begin, nxt)
      /\ Len(secs) \in Nat /\ InputOK
  BY <1>1, LimitsType DEF Types, Reading
<1> PICK b \in Nat : b = Begin
  BY <1>2 DEF Begin
<1>3. /\ b \in Packets /\ nxt \in Packets /\ b <= nxt /\ nxt - b + 1 = cnt
  BY <1>2 DEF Begin, Packets
<1>4. ASSUME nxt < Len(secs)
      PROVE  \/ limits.duration # None /\ secs[nxt + 1] >= secs[b] + limits.duration
             \/ limits.count # None /\ nxt - b + 1 = limits.count - 1
  <2>1. nxt + 1 \in Packets
    BY <1>2, <1>4 DEF Packets
  <2>2. ~Within(nxt + 1, secs[b], cnt + 1)
    BY <1>1, <1>2, <2>1
  <2>3. /\ secs[nxt + 1] \in Int /\ secs[b] \in Int
        /\ limits.duration # None => limits.duration \in Int
        /\ limits.count # None => limits.count \in Int
    BY <1>2, <1>3, <2>1, LimitsType
  <2>4. limits.count # None => cnt <= limits.count - 1
    <3>1. nxt \in b .. nxt
      BY <1>2, <1>3
    <3> QED
      BY <1>2, <1>3, <3>1 DEF InLimits
  <2>5. CASE limits.duration # None /\ ~(secs[nxt + 1] - secs[b] < limits.duration)
    BY <2>3, <2>5
  <2>6. CASE limits.count # None /\ ~(cnt + 1 < limits.count)
    BY <1>2, <1>3, <2>3, <2>4, <2>6
  <2> QED
    BY <2>2, <2>5, <2>6 DEF Within
<1>5. \A q \in b .. nxt : /\ limits.duration # None => secs[q] < secs[b] + limits.duration
                          /\ limits.count # None => q - b + 1 <= limits.count - 1
  BY <1>2 DEF InLimits
<1>6. IsChunk(b, nxt)
  BY <1>4, <1>5 DEF IsChunk
<1> QED
  BY <1>3, <1>6 DEF Chunk

LEMMA PutLastFollows ==
    ASSUME Types, FilesOK, [Next]_vars, PutLast, NEW g, Follows(g) PROVE Follows(g)'
<1>0. /\ Plan(g)' /\ Plan(g) /\ FilesFollow(g) /\ RunFollows(g) /\ Leaves(g) /\ g \in Seq(Nat)
      /\ numbered' = numbered /\ Packets' = Packets
      /\ \A b, e : Chunk(b, e)' <=> Chunk(b, e)
  BY PlanKept DEF Follows, Plan
<1>1. /\ pc = "chunk" /\ pc' = "slice" /\ files' = Written(TRUE)
      /\ last' = IF nxt + 1 \in Packets THEN nxt + 1 ELSE 0
      /\ nxt' = IF nxt + 1 \in Packets THEN nxt + 1 ELSE nxt
      /\ UNCHANGED <<i, force, done, skip>>
  BY DEF PutLast
<1>2. /\ i \in Nat /\ i > 0 /\ i <= Len(g) /\ Begin = g[i] /\ ~done
      /\ numbered => Path = i /\ Path \in 1 .. Len(g)
      /\ nxt \in Nat /\ cnt \in 1 .. nxt
  BY <1>0, <1>1 DEF Types, Reading, RunFollows, Path, Begin
<1>3. Chunk(g[i], nxt)
  BY <1>2, ChunkEnds
<1>4. RunFollows(g)'
  <2>1. FirstOne' = nxt + 1
    BY <1>1, <1>2 DEF FirstOne, Kept
  <2>2. FirstOne' - 1 = nxt
    BY <1>2, <2>1
  <2>4. i' <= Len(g) /\ ~done' /\ pc' = "slice" /\ g[i'] = g[i]
    BY <1>1, <1>2
  <2> QED
    BY <1>0, <1>1, <1>3, <2>2, <2>4 DEF RunFollows
<1>5. Past' = i
  BY <1>1 DEF Past
<1>6. CASE skip /\ files' = files
  <2>1. FilesFollow(g)'
    BY <1>0, <1>6 DEF FilesFollow
  <2>2. ASSUME numbered, NEW n \in 1 .. i PROVE n \in DOMAIN files /\ (force => files[n].whole)
    <3>1. CASE n = i
      BY <1>0, <1>1, <1>2, <1>6, <2>2, <3>1 DEF Leaves, FilesOK
    <3>2. CASE n # i
      <4>1. n \in 1 .. Past
        BY <1>1, <1>2, <3>2 DEF Past
      <4> QED
        BY <1>0, <1>1, <2>2, <4>1 DEF Leaves
    <3> QED
      BY <3>1, <3>2
  <2>3. Leaves(g)'
    BY <1>0, <1>1, <1>5, <1>6, <2>2 DEF Leaves
  <2> QED
    BY <1>0, <1>4, <2>1, <2>3 DEF Follows
<1>7. CASE /\ ~skip /\ OthersStay
           /\ files'[Path] = [mjr |-> files[Path].mjr \o Record(held), whole |-> TRUE]
  <2> PICK f : f = files[Path].mjr \o Record(held)
    OBVIOUS
  <2>1. files'[Path].mjr = f /\ files'[Path].whole
    BY <1>7
  <2>2. Holds(f, Begin) /\ Len(f) = 3 * cnt + 3
    BY <1>1, <1>7, InHandHolds
  <2>3. nxt \in Packets /\ 3 * (nxt - Begin + 1) + 3 = Len(f)
    <3>1. nxt - Begin + 1 = cnt
      BY <1>2 DEF Begin
    <3> QED
      BY <1>3, <2>2, <3>1 DEF Chunk
  <2>4. FilesFollow(g)'
    BY <1>0, <1>2, <1>3, <1>7, <2>1, <2>2, <2>3, FileFollows
  <2>5. Leaves(g)'
    <3>1. ASSUME numbered, NEW n \in 1 .. i
          PROVE  n \in DOMAIN files' /\ (force => files'[n].whole)
      <4>1. CASE n = i
        BY <1>2, <1>7, <2>1, <3>1, <4>1 DEF OthersStay
      <4>2. CASE n # i
        <5>1. n \in 1 .. i - 1
          BY <1>2, <4>2
        <5> QED
          BY <1>0, <1>1, <1>2, <1>7, <3>1, <5>1, PastStays
      <4> QED
        BY <4>1, <4>2
    <3> QED
      BY <1>0, <1>1, <1>5, <1>7, <3>1 DEF Leaves
  <2> QED
    BY <1>0, <1>4, <2>4, <2>5 DEF Follows
<1>8. TRUE \in BOOLEAN
  OBVIOUS
<1> QED
  BY <1>1, <1>6, <1>7, <1>8, WriteFiles

LEMMA DiesFollows ==
    ASSUME Types, FilesOK, [Next]_vars, Dies, NEW g, Follows(g) PROVE Follows(g)'
<1>0. /\ Plan(g)' /\ Plan(g) /\ FilesFollow(g) /\ RunFollows(g) /\ Leaves(g) /\ g \in Seq(Nat)
      /\ numbered' = numbered /\ Packets' = Packets
      /\ \A b, e : Chunk(b, e)' <=> Chunk(b, e)
  BY PlanKept DEF Follows, Plan
<1>1. pc # "off" /\ pc' = "off" /\ done' = done
  BY DEF Dies
<1>2. RunFollows(g)' /\ Leaves(g)'
  BY <1>0, <1>1 DEF RunFollows, Leaves
<1>3. FilesFollow(g)'
  <2>1. CASE files' = files
    BY <1>0, <2>1 DEF FilesFollow
  <2> PICK f : f = files[Path].mjr \o Record(held)
    OBVIOUS
  <2>2. CASE /\ pc = "chunk" /\ ~skip /\ OthersStay
             /\ files'[Path].whole = files[Path].whole
             /\ \E n \in 0 .. Len(f) : files'[Path].mjr = SubSeq(f, 1, n)
    <3>1. /\ Begin = g[i] /\ i \in 1 .. Len(g) /\ (numbered => Path = i) /\ Begin \in Nat
      BY <1>0, <2>2 DEF Types, Reading, RunFollows, Path, Begin
    <3>2. ~files'[Path].whole
      BY <2>2 DEF FilesOK
    <3>3. Holds(f, Begin) /\ f \in Seq(Field)
      BY <2>2, InHandHolds
    <3>4. PICK n \in 0 .. Len(f) : files'[Path].mjr = SubSeq(f, 1, n)
      BY <2>2
    <3>5. Holds(SubSeq(f, 1, n), Begin)
      BY <3>1, <3>3, CutHolds
    <3> QED
      BY <1>0, <2>2, <3>1, <3>2, <3>4, <3>5, FileFollows
  <2> QED
    BY <2>1, <2>2, DiesFiles
<1> QED
  BY <1>0, <1>2, <1>3 DEF Follows

LEMMA StutterFollows ==
    ASSUME Types, UNCHANGED vars, NEW g, Follows(g) PROVE Follows(g)'
<1>0. /\ Plan(g)' /\ Plan(g) /\ FilesFollow(g) /\ RunFollows(g) /\ Leaves(g) /\ g \in Seq(Nat)
      /\ numbered' = numbered /\ Packets' = Packets /\ (Satisfiable' <=> Satisfiable)
      /\ Len(secs)' = Len(secs)
      /\ \A b, e : Chunk(b, e)' <=> Chunk(b, e)
  BY PlanKept DEF Follows, Plan
<1>1. UNCHANGED <<files, force, pc, nxt, last, cnt, i, skip, done>>
  BY DEF vars, state
<1>2. FilesFollow(g)'
  BY <1>0, <1>1 DEF FilesFollow
<1>3. FirstOne' = FirstOne /\ Begin' = Begin /\ Past' = Past
  BY <1>1 DEF FirstOne, Kept, Begin, Past
<1>4. RunFollows(g)'
  BY <1>0, <1>1, <1>3 DEF RunFollows
<1>5. Leaves(g)'
  BY <1>0, <1>1, <1>3 DEF Leaves
<1> QED
  BY <1>0, <1>2, <1>4, <1>5 DEF Follows

-----------------------------------------------------------------------------
(***************************************************************************)
(* The inductive invariant.                                                *)
(***************************************************************************)
Inv == Types /\ FilesOK /\ \E g : Follows(g)

LEMMA InitInv == Init => Inv
  BY InitTypes, InitFiles, InitFollows DEF Inv

LEMMA NextInv == Inv /\ [Next]_vars => Inv'
<1> SUFFICES ASSUME Inv, [Next]_vars PROVE Inv'
  OBVIOUS
<1>1. Types /\ FilesOK /\ Types' /\ FilesOK'
  BY NextTypes, NextFiles DEF Inv
<1> PICK g : Follows(g)
  BY DEF Inv
<1>2. \E h : Follows(h)'
  <2>1. CASE \E f \in BOOLEAN : Start(f)
    BY <1>1, <2>1, StartFollows
  <2>2. CASE NextChunk
    BY <1>1, <2>2, NextChunkFollows
  <2>3. CASE NoMoreChunks
    BY <1>1, <2>3, NoMoreChunksFollows
  <2>4. CASE OpenPart
    BY <1>1, <2>4, OpenPartFollows
  <2>5. CASE Put
    BY <1>1, <2>5, PutFollows
  <2>6. CASE PutLast
    BY <1>1, <2>6, PutLastFollows
  <2>7. CASE Dies
    BY <1>1, <2>7, DiesFollows
  <2>8. CASE UNCHANGED vars
    BY <1>1, <2>8, StutterFollows
  <2> QED
    BY <2>1, <2>2, <2>3, <2>4, <2>5, <2>6, <2>7, <2>8 DEF Next
<1> QED
  BY <1>1, <1>2 DEF Inv

\* The inductive invariant: the types, the part file in hand as far as it is written,
\* and a plan of chunks that all runs and all part files follow.
THEOREM Invariant == Spec => []Inv
  BY InitInv, NextInv, PTL DEF Spec

\* The shared state of split_packets: every packet read is written, consumed, in hand
\* or kept, and the file in hand holds what the chunk has counted.
THEOREM TypeCorrect == Spec => []TypeOK
<1>1. ASSUME Inv PROVE TypeOK
  <2>1. Types /\ FilesOK
    BY <1>1 DEF Inv
  <2>2. ASSUME pc = "chunk", ~skip PROVE cnt = Len(ReadBack(files[Path].mjr)) + 1
    <3> PICK f : f = files[Path].mjr
      OBVIOUS
    <3>1. f \in Seq(Field) /\ Holds(f, Begin) /\ Len(f) = 3 * cnt
      BY <2>1, <2>2 DEF FilesOK
    <3>2. cnt \in 1 .. nxt /\ nxt \in Nat
      BY <2>1, <2>2 DEF Types, Reading
    <3> PICK m \in Nat : m = cnt - 1
      BY <3>2
    <3> PICK b \in Nat : b = Begin
      BY <3>2 DEF Begin
    <3>3. 3 * m + 3 <= Len(f) /\ Len(f) < 3 * m + 6
      BY <3>1, <3>2
    <3>4. ReadBack(f) = [k \in 1 .. m |-> b + k - 1]
      BY <3>1, <3>3, ReadsBack
    <3>5. Len(ReadBack(f)) = m
      BY <3>4
    <3> QED
      BY <3>2, <3>5
  <2>3. \A p \in DOMAIN files : files[p].mjr \in Seq(Field) /\ files[p].whole \in BOOLEAN
    BY <2>1 DEF FilesOK
  <2> QED
    BY <2>1, <2>2, <2>3 DEF TypeOK, Types, Reading
<1> QED
  BY <1>1, Invariant, PTL

\* A sequence of packets b .. e.
Run(f, b, e) == /\ f \in Seq(Nat) /\ Len(f) = e - b + 1
                /\ \A k \in 1 .. Len(f) : f[k] = b + k - 1

\* A part file that is whole reads back as the chunk of its number.
LEMMA WholeFile ==
    ASSUME Types, FilesOK, NEW g, Follows(g), numbered, NEW p \in DOMAIN files, files[p].whole
    PROVE  /\ p \in 1 .. Len(g) /\ g[p] \in Packets
           /\ \E e \in Packets :
                /\ Chunk(g[p], e) /\ g[p] <= e
                /\ Iterated(files[p].mjr) = 1 .. e - g[p] + 1
                /\ Run(ReadBack(files[p].mjr), g[p], e)
<1>1. p \in 1 .. Len(g) /\ Holds(files[p].mjr, g[p]) /\ files[p].mjr \in Seq(Field)
  BY DEF Follows, FilesFollow, FilesOK
<1>2. g[p] \in Packets /\ g[p] \in Nat
  BY <1>1 DEF Follows, Plan, Packets
<1>3. PICK e \in Packets : Chunk(g[p], e) /\ Len(files[p].mjr) = 3 * (e - g[p] + 1) + 3
  BY DEF Follows, FilesFollow
<1>4. e \in Nat /\ g[p] <= e
  BY <1>3 DEF Chunk, Packets
<1> PICK m \in Nat : m = e - g[p] + 1
  BY <1>2, <1>4
<1>5. 3 * m + 3 <= Len(files[p].mjr) /\ Len(files[p].mjr) < 3 * m + 6
  BY <1>3
<1>6. /\ Iterated(files[p].mjr) = 1 .. m
      /\ ReadBack(files[p].mjr) = [k \in 1 .. m |-> g[p] + k - 1]
  BY <1>1, <1>2, <1>5, ReadsBack
<1>7. Run(ReadBack(files[p].mjr), g[p], e)
  <2> PICK r : r = ReadBack(files[p].mjr)
    OBVIOUS
  <2> PICK b \in Nat : b = g[p]
    BY <1>2
  <2>1. r = [k \in 1 .. m |-> b + k - 1]
    BY <1>6
  <2>2. r \in Seq(Nat) /\ Len(r) = m /\ \A k \in 1 .. m : r[k] = b + k - 1
    BY <2>1
  <2>3. Run(r, b, e)
    BY <2>2 DEF Run
  <2> QED
    BY <2>3
<1> QED
  BY <1>1, <1>2, <1>3, <1>4, <1>6, <1>7

LEMMA ReadsAsChunk ==
    ASSUME NEW b \in Nat, NEW e \in Nat, b <= e, NEW f, Run(f, b, e)
    PROVE  /\ f # <<>> /\ Len(f) = e - b + 1 /\ f[1] = b /\ Last(f) = e
           /\ \A k \in 1 .. Len(f) : f[k] = f[1] + k - 1
<1>1. /\ Len(f) = e - b + 1 /\ Len(f) \in 1 .. Len(f) /\ 1 \in 1 .. Len(f)
      /\ \A k \in 1 .. Len(f) : f[k] = b + k - 1
  BY DEF Run
<1>2. f[1] = b /\ f[Len(f)] = b + Len(f) - 1
  BY <1>1
<1>3. f[Len(f)] = e
  BY <1>1, <1>2
<1>4. f # <<>>
  BY <1>1
<1> QED
  BY <1>1, <1>2, <1>3, <1>4 DEF Last

\* split_cmd: whichever runs wrote them, or died in between, the part files that are
\* whole hold consecutive packets of the archive, as many as the limits allow, but for
\* one packet of the count at most.
THEOREM PartsAlwaysChunks == Spec => []PartsAreChunks
<1>1. ASSUME Inv PROVE PartsAreChunks
  <2>1. Types /\ FilesOK
    BY <1>1 DEF Inv
  <2> PICK g : Follows(g)
    BY <1>1 DEF Inv
  <2>2. Plan(g) /\ g \in Seq(Nat) /\ \A n \in 1 .. Len(g) : g[n] \in Packets
    BY DEF Follows, Plan
  <2> SUFFICES ASSUME numbered, NEW p \in DOMAIN files, files[p].whole
               PROVE  LET f == ReadBack(files[p].mjr) IN
                      /\ f # <<>>
                      /\ \A k \in 1 .. Len(f) : f[k] = f[1] + k - 1
                      /\ IsPart(f[1], Last(f))
                      /\ p = 1 => f[1] = 1
                      /\ IsWhole(p - 1) => f[1] = Last(ReadBack(files[p - 1].mjr)) + 1
    BY DEF PartsAreChunks
  <2>3. /\ p \in 1 .. Len(g) /\ g[p] \in Packets
        /\ \E e \in Packets :
             /\ Chunk(g[p], e) /\ g[p] <= e
             /\ Iterated(files[p].mjr) = 1 .. e - g[p] + 1
             /\ Run(ReadBack(files[p].mjr), g[p], e)
    BY <2>1, WholeFile
  <2> PICK e \in Packets :
             /\ Chunk(g[p], e) /\ g[p] <= e
             /\ Run(ReadBack(files[p].mjr), g[p], e)
    BY <2>3
  <2> PICK f : f = ReadBack(files[p].mjr)
    OBVIOUS
  <2>4. g[p] \in Nat /\ e \in Nat
    BY <2>3 DEF Packets
  <2>5. /\ f # <<>> /\ f[1] = g[p] /\ Last(f) = e
        /\ \A k \in 1 .. Len(f) : f[k] = f[1] + k - 1
    BY <2>4, ReadsAsChunk
  <2>6. IsPart(f[1], Last(f))
    BY <2>1, <2>5, ChunkIsPart
  <2>7. p = 1 => f[1] = 1
    BY <2>2, <2>3, <2>5 DEF Plan
  <2>8. ASSUME IsWhole(p - 1) PROVE f[1] = Last(ReadBack(files[p - 1].mjr)) + 1
    <3> PICK n : n = p - 1
      OBVIOUS
    <3>1. n \in DOMAIN files /\ files[n].whole
      BY <2>8 DEF IsWhole
    <3>2. /\ n \in 1 .. Len(g) /\ g[n] \in Packets
          /\ \E d \in Packets :
               /\ Chunk(g[n], d) /\ g[n] <= d
               /\ Iterated(files[n].mjr) = 1 .. d - g[n] + 1
               /\ Run(ReadBack(files[n].mjr), g[n], d)
      BY <2>1, <3>1, WholeFile
    <3> PICK d \in Packets :
               /\ Chunk(g[n], d) /\ g[n] <= d
               /\ Run(ReadBack(files[n].mjr), g[n], d)
      BY <3>2
    <3>3. g[n] \in Nat /\ d \in Nat
      BY <3>2 DEF Packets
    <3>4. Last(ReadBack(files[n].mjr)) = d
      BY <3>3, ReadsAsChunk
    <3>5. n \in 1 .. Len(g) - 1 /\ n + 1 = p
      BY <2>2, <2>3, <3>2
    <3>6. Chunk(g[n], g[p] - 1)
      BY <2>2, <3>5 DEF Plan
    <3>7. d = g[p] - 1
      BY <2>1, <3>6, OneChunk
    <3> QED
      BY <2>4, <2>5, <3>4, <3>7
  <2> QED
    BY <2>5, <2>6, <2>7, <2>8
<1> QED
  BY <1>1, Invariant, PTL

\* split_cmd: once a run has come to its end and no part file is left cut short, every
\* packet is in a part file; and a run with --force leaves none cut short.
THEOREM NothingIsEverLost == Spec => []NothingIsLost
<1>1. ASSUME Inv PROVE NothingIsLost
  <2>1. Types /\ FilesOK
    BY <1>1 DEF Inv
  <2> PICK g : Follows(g)
    BY <1>1 DEF Inv
  <2>2. /\ Plan(g) /\ g \in Seq(Nat) /\ \A n \in 1 .. Len(g) : g[n] \in Packets
        /\ FilesFollow(g) /\ RunFollows(g) /\ Leaves(g)
    BY DEF Follows, Plan
  <2>3. done => pc = "off"
    BY <2>2 DEF RunFollows
  <2>4. ASSUME done, force, numbered PROVE NoneCutShort
    BY <2>2, <2>3, <2>4 DEF NoneCutShort, FilesFollow, Leaves
  <2>5. ASSUME done, numbered, Satisfiable, NoneCutShort, NEW q \in Packets
        PROVE  \E p \in DOMAIN files :
                 \E k \in Iterated(files[p].mjr) : ReadBack(files[p].mjr)[k] = q
    <3>1. /\ \A n \in 1 .. Len(g) : n \in DOMAIN files
          /\ IF Len(g) = 0 THEN Packets = {} ELSE Chunk(g[Len(g)], Len(secs))
      BY <2>2, <2>3, <2>5 DEF Leaves
    <3> PICK n \in Nat : n = Len(g)
      BY <2>2
    <3>2. n > 0 /\ n \in 1 .. n /\ Chunk(g[n], Len(secs))
      BY <3>1
    <3>3. q \in Nat /\ q > 0 /\ q <= Len(secs) /\ Len(secs) \in Nat
      BY <2>1, LimitsType DEF Packets, Types
    <3>4. \A p \in 1 .. n : g[p] \in Nat
      BY <2>2 DEF Packets
    \* The chunk q is in, and its end.
    <3>5. \E p \in 1 .. n : g[p] <= q /\ (p < n => q < g[p + 1])
      <4>1. CASE q <= g[n]
        <5>1. q \in 1 .. g[Len(g)]
          BY <3>2, <3>3, <3>4, <4>1
        <5> QED
          BY <2>2, <3>2, <5>1 DEF Plan
      <4>2. CASE q > g[n]
        BY <3>2, <3>3, <3>4, <4>2
      <4> QED
        BY <3>2, <3>3, <3>4, <4>1, <4>2
    <3> PICK p \in 1 .. n : g[p] <= q /\ (p < n => q < g[p + 1])
      BY <3>5
    <3>6. p \in DOMAIN files /\ files[p].whole
      BY <2>5, <3>1 DEF NoneCutShort
    <3>7. /\ p \in 1 .. Len(g) /\ g[p] \in Packets
          /\ \E e \in Packets :
               /\ Chunk(g[p], e) /\ g[p] <= e
               /\ Iterated(files[p].mjr) = 1 .. e - g[p] + 1
               /\ Run(ReadBack(files[p].mjr), g[p], e)
      BY <2>1, <2>5, <3>6, WholeFile
    <3> PICK e \in Packets :
               /\ Chunk(g[p], e) /\ g[p] <= e
               /\ Iterated(files[p].mjr) = 1 .. e - g[p] + 1
               /\ Run(ReadBack(files[p].mjr), g[p], e)
      BY <3>7
    <3>8. e \in Nat /\ g[p] \in Nat
      BY <3>4 DEF Packets
    <3>9. q <= e
      <4>1. CASE p = n
        <5>1. e = Len(secs)
          BY <2>1, <3>2, <4>1, OneChunk
        <5> QED
          BY <3>3, <5>1
      <4>2. CASE p < n
        <5>1. p \in 1 .. Len(g) - 1 /\ p + 1 \in 1 .. n
          BY <4>2
        <5>2. Chunk(g[p], g[p + 1] - 1)
          BY <2>2, <5>1 DEF Plan
        <5>3. e = g[p + 1] - 1
          BY <2>1, <5>2, OneChunk
        <5>4. g[p + 1] \in Nat
          BY <3>4, <5>1
        <5> QED
          BY <3>3, <3>8, <4>2, <5>3, <5>4
      <4> QED
        BY <4>1, <4>2
    <3> PICK b \in Nat : b = g[p]
      BY <3>8
    <3> PICK k \in Nat : k = q - b + 1
      BY <3>3
    <3>10. k \in 1 .. e - b + 1 /\ b + k - 1 = q
      BY <3>3, <3>8, <3>9
    <3> PICK f : f = ReadBack(files[p].mjr)
      OBVIOUS
    <3>11. f[k] = q
      BY <3>10 DEF Run
    <3> QED
      BY <3>6, <3>10, <3>11
  <2>6. done /\ numbered /\ Satisfiable /\ NoneCutShort => AllInParts
    BY <2>5 DEF AllInParts
  <2> QED
    BY <2>4, <2>6 DEF NothingIsLost
<1> QED
  BY <1>1, Invariant, PTL

\* split_cmd: a part file that was written to its end is changed by --force only.
THEOREM FinishedPartsAlwaysStay == Spec => FinishedPartsStay
<1> DEFINE Stay == \A p \in DOMAIN files :
                      files[p].whole /\ ~force => p \in DOMAIN files' /\ files'[p] = files[p]
<1>1. ASSUME Inv, [Next]_vars PROVE Stay
  <2>1. Types /\ FilesOK
    BY <1>1 DEF Inv
  <2>2. CASE OthersStay /\ (Path \in DOMAIN files => ~files[Path].whole \/ force)
    <3> SUFFICES ASSUME NEW p \in DOMAIN files, files[p].whole, ~force
                 PROVE  p \in DOMAIN files' /\ files'[p] = files[p]
      OBVIOUS
    <3>1. p # Path
      BY <2>2
    <3> QED
      BY <2>2, <3>1 DEF OthersStay
  <2>3. CASE files' = files
    BY <2>3
  <2>4. CASE OpenPart
    <3>1. ASSUME ~Skips, Path \in DOMAIN files PROVE force
      BY <3>1 DEF Skips
    <3> QED
      BY <2>2, <2>3, <2>4, <3>1, OpenPartFiles
  <2>5. ASSUME pc = "chunk", ~skip, OthersStay PROVE Stay
    BY <2>1, <2>2, <2>5 DEF FilesOK
  <2>6. CASE Put
    <3>1. pc = "chunk" /\ files' = Written(FALSE) /\ FALSE \in BOOLEAN
      BY <2>6 DEF Put
    <3>2. files' = files \/ (~skip /\ OthersStay)
      BY <2>1, <3>1, WriteFiles
    <3> QED
      BY <2>3, <2>5, <3>1, <3>2
  <2>7. CASE PutLast
    <3>1. pc = "chunk" /\ files' = Written(TRUE) /\ TRUE \in BOOLEAN
      BY <2>7 DEF PutLast
    <3>2. files' = files \/ (~skip /\ OthersStay)
      BY <2>1, <3>1, WriteFiles
    <3> QED
      BY <2>3, <2>5, <3>1, <3>2
  <2>8. CASE Dies
    <3>1. files' = files \/ (pc = "chunk" /\ ~skip /\ OthersStay)
      BY <2>1, <2>8, DiesFiles
    <3> QED
      BY <2>3, <2>5, <3>1
  <2>9. CASE NextChunk \/ NoMoreChunks \/ (\E f \in BOOLEAN : Start(f)) \/ UNCHANGED vars
    <3>1. files' = files
      BY <2>9 DEF NextChunk, NoMoreChunks, Start, vars
    <3> QED
      BY <2>3, <3>1
  <2> QED
    BY <1>1, <2>4, <2>6, <2>7, <2>8, <2>9 DEF Next
<1>2. Inv /\ [Next]_vars => [Stay]_vars
  BY <1>1
<1>3. Spec => [][Stay]_vars
  BY <1>2, Invariant, PTL DEF Spec
<1> QED
  BY <1>3 DEF FinishedPartsStay

-----------------------------------------------------------------------------
(***************************************************************************)
(* Part files that are cut short: the packets they still hold are within   *)
(* the limits of one chunk, and that chunk's end is settled.               *)
(***************************************************************************)
Fits(f, b) ==
    /\ Holds(f, b)
    /\ \A k \in Nat \ {0} : 3 * k + 3 <= Len(f) => b + k - 1 \in Packets /\ InLimits(b, b + k - 1)

Readable ==
    \A p \in DOMAIN files : \E b \in Packets :
       /\ Fits(files[p].mjr, b)
       /\ files[p].whole => \E m \in Nat : Len(files[p].mjr) = 3 * m + 3

LEMMA FewerInLimits ==
    ASSUME NEW b \in Int, NEW e \in Int, NEW d \in Int, d <= e, InLimits(b, e)
    PROVE  InLimits(b, d)
<1>1. \A q \in b .. d : q \in b .. e
  OBVIOUS
<1> QED
  BY <1>1 DEF InLimits

LEMMA HeaderFits == ASSUME NEW b \in Packets PROVE Fits(Record(0), b)
<1>1. Holds(Record(0), b)
  BY HeaderHolds DEF Packets
<1>2. Len(Record(0)) = 3
  BY DEF Record
<1>3. \A k \in Nat \ {0} : ~(3 * k + 3 <= 3)
  OBVIOUS
<1> QED
  BY <1>1, <1>2, <1>3 DEF Fits

LEMMA InHandFits ==
    ASSUME Types, FilesOK, pc = "chunk", ~skip
    PROVE  LET f == files[Path].mjr \o Record(held)
           IN f \in Seq(Field) /\ Len(f) = 3 * cnt + 3 /\ Begin \in Packets /\ Fits(f, Begin)
<1> PICK f : f = files[Path].mjr \o Record(held)
  OBVIOUS
<1>1. f \in Seq(Field) /\ Len(f) = 3 * cnt + 3 /\ Holds(f, Begin)
  BY InHandHolds
<1>2. cnt \in 1 .. nxt /\ nxt \in Nat /\ nxt <= Len(secs) /\ InLimits(Begin, nxt) /\ Len(secs) \in Nat
  BY LimitsType DEF Types, Reading
<1>3. Begin \in Packets /\ Begin \in Int
  BY <1>2 DEF Begin, Packets
<1>4. ASSUME NEW k \in Nat \ {0}, 3 * k + 3 <= Len(f)
      PROVE  Begin + k - 1 \in Packets /\ InLimits(Begin, Begin + k - 1)
  <2>1. Begin + k - 1 <= nxt /\ Begin <= Begin + k - 1 /\ Begin + k - 1 \in Int
    BY <1>1, <1>2, <1>4 DEF Begin
  <2> QED
    BY <1>2, <1>3, <2>1, FewerInLimits DEF Packets
<1>5. Fits(f, Begin)
  BY <1>1, <1>4 DEF Fits
<1> QED
  BY <1>1, <1>3, <1>5

LEMMA CutFits ==
    ASSUME NEW f \in Seq(Field), NEW b \in Packets, Fits(f, b), NEW n \in 0 .. Len(f)
    PROVE  Fits(SubSeq(f, 1, n), b)
<1>1. Holds(SubSeq(f, 1, n), b) /\ Len(SubSeq(f, 1, n)) = n
  BY CutHolds DEF Fits, Packets
<1>2. \A k \in Nat \ {0} : 3 * k + 3 <= n => 3 * k + 3 <= Len(f)
  OBVIOUS
<1> QED
  BY <1>1, <1>2 DEF Fits

LEMMA FitsKept == ASSUME Types, [Next]_vars PROVE Packets' = Packets /\ \A f, b : Fits(f, b)' <=> Fits(f, b)
<1>1. Packets' = Packets
  BY PlanKept
<1>2. \A b, e : InLimits(b, e)' <=> InLimits(b, e)
  BY InputKept DEF Types
<1> QED
  BY <1>1, <1>2 DEF Fits

\* A step that changes the part file of its chunk.
LEMMA ReadableGrows ==
    ASSUME Types, Readable, [Next]_vars, OthersStay, NEW b \in Packets, Fits(files'[Path].mjr, b),
           files'[Path].whole => \E m \in Nat : Len(files'[Path].mjr) = 3 * m + 3
    PROVE  Readable'
<1>1. Packets' = Packets /\ \A f, c : Fits(f, c)' <=> Fits(f, c)
  BY FitsKept
<1>2. ASSUME NEW p \in DOMAIN files'
      PROVE  \E c \in Packets : /\ Fits(files'[p].mjr, c)
                                /\ files'[p].whole => \E m \in Nat : Len(files'[p].mjr) = 3 * m + 3
  <2>1. CASE p = Path
    BY <2>1
  <2>2. CASE p # Path
    <3>1. p \in DOMAIN files /\ files'[p] = files[p]
      BY <1>2, <2>2 DEF OthersStay
    <3> QED
      BY <3>1 DEF Readable
  <2> QED
    BY <2>1, <2>2
<1> QED
  BY <1>1, <1>2 DEF Readable

LEMMA ReadableStep == ASSUME Types, FilesOK, Readable, [Next]_vars PROVE Readable'
<1>1. CASE files' = files
  <2>1. Packets' = Packets /\ \A f, c : Fits(f, c)' <=> Fits(f, c)
    BY FitsKept
  <2> QED
    BY <1>1, <2>1 DEF Readable
<1>2. CASE OpenPart /\ files' # files
  <2>1. pc = "open" /\ OthersStay /\ files'[Path] = [mjr |-> Record(0), whole |-> FALSE]
    BY <1>2, OpenPartFiles
  <2>2. Begin \in Packets
    BY <2>1, LimitsType DEF Types, Reading, Begin, Packets
  <2>3. files'[Path].mjr = Record(0) /\ ~files'[Path].whole
    BY <2>1
  <2> QED
    BY <2>1, <2>2, <2>3, HeaderFits, ReadableGrows
<1>3. ASSUME NEW w \in BOOLEAN, pc = "chunk", files' = Written(w), files' # files PROVE Readable'
  <2>1. /\ ~skip /\ OthersStay
        /\ files'[Path] = [mjr |-> files[Path].mjr \o Record(held), whole |-> w]
    BY <1>3, WriteFiles
  <2> PICK f : f = files[Path].mjr \o Record(held)
    OBVIOUS
  <2>2. Len(f) = 3 * cnt + 3 /\ Begin \in Packets /\ Fits(f, Begin) /\ cnt \in Nat
    BY <1>3, <2>1, InHandFits DEF Types, Reading
  <2>3. files'[Path].mjr = f
    BY <2>1
  <2> QED
    BY <2>1, <2>2, <2>3, ReadableGrows
<1>4. CASE Dies /\ files' # files
  <2>1. /\ pc = "chunk" /\ ~skip /\ OthersStay
        /\ files'[Path].whole = files[Path].whole
        /\ \E n \in 0 .. Len(files[Path].mjr \o Record(held)) :
             files'[Path].mjr = SubSeq(files[Path].mjr \o Record(held), 1, n)
    BY <1>4, DiesFiles
  <2> PICK f : f = files[Path].mjr \o Record(held)
    OBVIOUS
  <2>2. f \in Seq(Field) /\ Begin \in Packets /\ Fits(f, Begin)
    BY <2>1, InHandFits
  <2>3. Fits(files'[Path].mjr, Begin)
    BY <2>1, <2>2, CutFits
  <2>4. ~files'[Path].whole
    BY <2>1 DEF FilesOK
  <2> QED
    BY <2>1, <2>2, <2>3, <2>4, ReadableGrows
<1>5. CASE Put \/ PutLast
  BY <1>1, <1>3, <1>5 DEF Put, PutLast
<1>6. CASE NextChunk \/ NoMoreChunks \/ (\E f \in BOOLEAN : Start(f)) \/ UNCHANGED vars
  BY <1>1, <1>6 DEF NextChunk, NoMoreChunks, Start, vars
<1> QED
  BY <1>1, <1>2, <1>4, <1>5, <1>6 DEF Next

\* Skipping a record raises only for a marker or a length that is missing.
LEMMA SkipOne ==
    ASSUME NEW f \in Seq(Field), NEW b \in Nat, Holds(f, b), NEW k \in Nat
    PROVE  SkipRaises(f, k) = IF 3 * k + 2 <= Len(f) THEN "none" ELSE "Failed to read"
<1>1. ASSUME NEW j \in 1 .. 2
      PROVE  Message(f, k, j) = IF 3 * k + j <= Len(f) THEN "none" ELSE "Failed to read"
  <2>1. At(k, j) \in DOMAIN f <=> 3 * k + j <= Len(f)
    BY DEF At
  <2>2. ASSUME j = 1, 3 * k + j <= Len(f) PROVE f[At(k, j)].is = "marker"
    <3>1. f[3 * k + 1] = [is |-> "marker", of |-> Number(b, k)]
      BY <2>2 DEF Holds
    <3> QED
      BY <2>2, <3>1 DEF At
  <2> QED
    BY <2>1, <2>2 DEF Message
<1> DEFINE ms == [j \in 1 .. 2 |-> Message(f, k, j)]
           e == { j \in DOMAIN ms : ms[j] # "none" }
<1>2. SkipRaises(f, k) = IF e = {} THEN "none" ELSE ms[CHOOSE j \in e : \A x \in e : j <= x]
  BY DEF SkipRaises, First
<1>3. \A j : j \in e <=> j \in 1 .. 2 /\ ~(3 * k + j <= Len(f))
  BY <1>1
<1>4. \A j \in e : ms[j] = "Failed to read"
  BY <1>1, <1>3
<1> HIDE DEF ms, e
<1>5. CASE 3 * k + 2 <= Len(f)
  <2>1. e = {}
    BY <1>3, <1>5
  <2> QED
    BY <1>2, <1>5, <2>1
<1>6. CASE 3 * k + 2 > Len(f)
  <2>1. 2 \in e /\ e \in SUBSET (1 .. 2)
    BY <1>3, <1>6
  <2>2. \E j \in e : \A x \in e : j <= x
    <3>1. CASE 1 \in e
      BY <2>1, <3>1
    <3>2. CASE 1 \notin e
      BY <2>1, <3>2
    <3> QED
      BY <3>1, <3>2
  <2> DEFINE c == CHOOSE j \in e : \A x \in e : j <= x
  <2>3. c \in e
    BY <2>2
  <2>4. e # {} /\ ~(3 * k + 2 <= Len(f))
    BY <1>6, <2>1
  <2>5. SkipRaises(f, k) = IF e = {} THEN "none" ELSE ms[c]
    BY <1>2
  <2> HIDE DEF c
  <2> QED
    BY <1>4, <2>3, <2>4, <2>5
<1>7. 3 * k + 2 <= Len(f) \/ 3 * k + 2 > Len(f)
  OBVIOUS
<1> QED
  BY <1>5, <1>6, <1>7, Zenon

\* The index ends with the first packet whose length is missing.
LEMMA IndexesTo ==
    ASSUME NEW f \in Seq(Field), NEW b \in Nat, Holds(f, b), NEW m \in Nat,
           m > 0 => 3 * m + 2 <= Len(f), Len(f) < 3 * m + 5
    PROVE  Indexed(f) = 1 .. m
<1>1. ASSUME NEW k \in 1 .. Len(f)
      PROVE  (\A j \in 1 .. k : SkipRaises(f, j) = "none") <=> k <= m
  <2>1. ASSUME NEW j \in 1 .. k PROVE SkipRaises(f, j) = "none" <=> 3 * j + 2 <= Len(f)
    <3>1. j \in Nat
      OBVIOUS
    <3>2. SkipRaises(f, j) = IF 3 * j + 2 <= Len(f) THEN "none" ELSE "Failed to read"
      BY <3>1, SkipOne
    <3> QED
      BY <3>2
  <2>2. ASSUME k <= m, NEW j \in 1 .. k PROVE SkipRaises(f, j) = "none"
    <3>1. 3 * j + 2 <= Len(f)
      BY <2>2
    <3> QED
      BY <2>1, <3>1
  <2>3. ASSUME k > m PROVE SkipRaises(f, k) # "none"
    <3>1. k \in 1 .. k /\ ~(3 * k + 2 <= Len(f))
      BY <2>3
    <3> QED
      BY <2>1, <3>1
  <2>4. k \in 1 .. k /\ (k <= m \/ k > m)
    OBVIOUS
  <2> QED
    BY <2>2, <2>3, <2>4
<1>2. \A k \in 1 .. m : k \in 1 .. Len(f)
  OBVIOUS
<1> QED
  BY <1>1, <1>2 DEF Indexed

\* A file cut anywhere: it reads back as its m whole packets, and its index may list one
\* more.
LEMMA CutReadsBack ==
    ASSUME NEW f \in Seq(Field), NEW b \in Nat, Holds(f, b)
    PROVE  \E m \in Nat :
             /\ m > 0 => 3 * m + 3 <= Len(f)
             /\ Len(f) < 3 * m + 6
             /\ ReadBack(f) = [k \in 1 .. m |-> b + k - 1] /\ Iterated(f) = 1 .. m
             /\ Indexed(f) = 1 .. (IF Len(f) = 3 * m + 5 THEN m + 1 ELSE m)
             /\ ReadRaises(f, m + 1) = "Failed to read"
<1> PICK n \in Nat : n = Len(f)
  OBVIOUS
<1>1. PICK m \in Nat : (m > 0 => 3 * m + 3 <= n) /\ n < 3 * m + 6
  <2>1. PICK q \in Nat : 3 * q <= n /\ n < 3 * q + 3
    <3>1. n \div 3 \in Nat /\ 3 * (n \div 3) <= n /\ n < 3 * (n \div 3) + 3
      OBVIOUS
    <3> QED
      BY <3>1
  <2>2. CASE q = 0
    <3>1. 0 \in Nat /\ n < 3 * 0 + 6
      BY <2>1, <2>2
    <3> QED
      BY <3>1
  <2>3. CASE q > 0
    <3>1. q - 1 \in Nat /\ 3 * (q - 1) + 3 <= n /\ n < 3 * (q - 1) + 6
      BY <2>1, <2>3
    <3> QED
      BY <3>1
  <2> QED
    BY <2>2, <2>3
<1>2. Iterated(f) = 1 .. m /\ ReadBack(f) = [k \in 1 .. m |-> b + k - 1]
  BY <1>1, ReadsBack
<1>3. ReadRaises(f, m + 1) = "Failed to read"
  <2>1. ~(3 * (m + 1) + 3 <= Len(f)) /\ m + 1 \in Nat
    BY <1>1
  <2>2. ReadRaises(f, m + 1) = IF 3 * (m + 1) + 3 <= Len(f) THEN "none" ELSE "Failed to read"
    BY <2>1, ReadOne
  <2> QED
    BY <2>1, <2>2
<1>4. Indexed(f) = 1 .. (IF Len(f) = 3 * m + 5 THEN m + 1 ELSE m)
  <2>1. CASE Len(f) = 3 * m + 5
    <3>1. m + 1 \in Nat /\ 3 * (m + 1) + 2 <= Len(f) /\ Len(f) < 3 * (m + 1) + 5
      BY <2>1
    <3>2. Indexed(f) = 1 .. m + 1
      BY <3>1, IndexesTo
    <3> QED
      BY <2>1, <3>2
  <2>2. CASE Len(f) # 3 * m + 5
    <3>1. (m > 0 => 3 * m + 2 <= Len(f)) /\ Len(f) < 3 * m + 5
      BY <1>1, <2>2
    <3>2. Indexed(f) = 1 .. m
      BY <3>1, IndexesTo
    <3> QED
      BY <2>2, <3>2
  <2> QED
    BY <2>1, <2>2
<1> QED
  BY <1>1, <1>2, <1>3, <1>4

\* Any packet that is within limits alone begins a chunk.
LEMMA ChunkHasEnd ==
    ASSUME Types, NEW b \in Packets, InLimits(b, b) PROVE \E e \in Packets : Chunk(b, e)
<1> DEFINE S == { q \in Packets : b < q /\ ~InLimits(b, q) }
<1>0. /\ b \in Nat /\ b > 0 /\ b <= Len(secs) /\ Len(secs) \in Nat /\ secs[b] \in Int
      /\ limits.duration # None => limits.duration \in Int
      /\ limits.count # None => limits.count \in Int
      /\ \A q \in Packets : q \in Nat /\ secs[q] \in Int
  BY LimitsType DEF Packets, Types
<1>1. CASE S = {}
  <2>1. Len(secs) \in Packets /\ InLimits(b, Len(secs))
    BY <1>0, <1>1 DEF Packets
  <2>2. IsChunk(b, Len(secs))
    BY <1>0, <2>1 DEF IsChunk, InLimits
  <2> QED
    BY <1>0, <2>1, <2>2 DEF Chunk
<1>2. CASE S # {}
  <2>0. S \subseteq Nat
    BY <1>0
  <2>1. PICK q \in S : \A r \in S : ~(<<r, q>> \in OpToRel(<, Nat))
    BY <1>2, <2>0, WFMin, NatLessThanWellFounded, Zenon
  <2>2. q \in Packets /\ q \in Nat /\ b < q /\ ~InLimits(b, q) /\ q <= Len(secs)
    <3>1. q \in Packets /\ b < q /\ ~InLimits(b, q)
      BY <2>1, Zenon
    <3> QED
      BY <1>0, <3>1 DEF Packets
  <2>3. q - 1 \in Packets /\ b <= q - 1 /\ q - 1 \in Nat
    BY <1>0, <2>2 DEF Packets
  <2>4. InLimits(b, q - 1)
    <3>1. CASE q - 1 = b
      BY <3>1
    <3>2. CASE q - 1 # b
      <4>1. <<q - 1, q>> \in OpToRel(<, Nat)
        BY <2>2, <2>3 DEF OpToRel
      <4>2. q - 1 \notin S
        BY <2>1, <4>1
      <4> QED
        BY <1>0, <2>3, <3>2, <4>2
    <3> QED
      BY <3>1, <3>2
  <2>5. \/ limits.duration # None /\ ~(secs[q] < secs[b] + limits.duration)
        \/ limits.count # None /\ ~(q - b + 1 <= limits.count - 1)
    <3>1. \A r \in b .. q : r \in b .. q - 1 \/ r = q
      BY <1>0, <2>2
    <3> QED
      BY <2>2, <2>4, <3>1 DEF InLimits
  <2>6. limits.count # None => (q - 1) - b + 1 <= limits.count - 1
    <3>1. q - 1 \in b .. q - 1
      BY <1>0, <2>3
    <3> QED
      BY <2>4, <3>1 DEF InLimits
  <2>7. \/ limits.duration # None /\ secs[(q - 1) + 1] >= secs[b] + limits.duration
        \/ limits.count # None /\ (q - 1) - b + 1 = limits.count - 1
    <3>1. (q - 1) + 1 = q /\ secs[q] \in Int
      BY <1>0, <2>2
    <3>2. CASE limits.duration # None /\ ~(secs[q] < secs[b] + limits.duration)
      BY <1>0, <3>1, <3>2
    <3>3. CASE limits.count # None /\ ~(q - b + 1 <= limits.count - 1)
      BY <1>0, <2>2, <2>6, <3>3
    <3> QED
      BY <2>5, <3>2, <3>3
  <2>8. IsChunk(b, q - 1)
    BY <2>4, <2>7 DEF IsChunk, InLimits
  <2> QED
    BY <2>3, <2>8 DEF Chunk
<1> QED
  BY <1>1, <1>2

\* Packets within the limits of a chunk do not reach beyond its end.
LEMMA FitsInChunk ==
    ASSUME Types, NEW b \in Packets, NEW e \in Packets, b <= e, InLimits(b, e)
    PROVE  \E d \in Packets : e <= d /\ IsPart(b, d)
<1>0. b \in Nat /\ e \in Nat /\ e <= Len(secs) /\ Len(secs) \in Nat /\ InLimits(b, b)
      /\ \A q \in Packets : q \in Nat /\ secs[q] \in Int
  <2>1. b \in Nat /\ e \in Nat /\ e <= Len(secs) /\ Len(secs) \in Nat
        /\ \A q \in Packets : q \in Nat /\ secs[q] \in Int
    BY LimitsType DEF Packets, Types
  <2> QED
    BY <2>1, FewerInLimits
<1>1. PICK d \in Packets : Chunk(b, d)
  BY <1>0, ChunkHasEnd
<1>2. ASSUME d < e PROVE FALSE
  <2>1. d + 1 \in b .. e /\ d < Len(secs) /\ b <= d /\ d + 1 \in Packets
    BY <1>0, <1>1, <1>2 DEF Chunk, Packets
  <2>2. /\ limits.duration # None => secs[d + 1] < secs[b] + limits.duration
        /\ limits.count # None => (d + 1) - b + 1 <= limits.count - 1
    BY <2>1 DEF InLimits
  <2>3. \/ limits.duration # None /\ secs[d + 1] >= secs[b] + limits.duration
        \/ limits.count # None /\ d - b + 1 = limits.count - 1
    BY <1>1, <2>1 DEF Chunk, IsChunk
  <2>4. /\ limits.duration # None => limits.duration \in Int
        /\ limits.count # None => limits.count \in Int
        /\ secs[d + 1] \in Int /\ secs[b] \in Int /\ d \in Nat
    BY <1>0, <2>1, LimitsType DEF Types
  <2>5. CASE limits.duration # None /\ secs[d + 1] >= secs[b] + limits.duration
    BY <2>2, <2>4, <2>5
  <2>6. CASE limits.count # None /\ d - b + 1 = limits.count - 1
    BY <1>0, <2>2, <2>4, <2>6
  <2> QED
    BY <2>3, <2>5, <2>6
<1>3. e <= d /\ IsPart(b, d)
  BY <1>0, <1>1, <1>2, ChunkIsPart
<1> QED
  BY <1>3

\* The numbers b, b + 1, ... of m packets that were read back.
LEMMA ReadsAsRun ==
    ASSUME NEW b \in Nat, NEW m \in Nat, NEW got, got \in Seq(Int), Len(got) = m,
           \A k \in 1 .. m : got[k] = b + k - 1
    PROVE  /\ Len(got) = m /\ (got # <<>> <=> m > 0)
           /\ m > 0 => got[1] = b /\ got[Len(got)] = b + m - 1
           /\ \A k \in 1 .. Len(got) : got[k] = got[1] + k - 1
<1>1. CASE m = 0
  BY <1>1
<1>2. CASE m > 0
  <2>1. 1 \in 1 .. m /\ m \in 1 .. m
    BY <1>2
  <2>2. got[1] = b + 1 - 1 /\ got[m] = b + m - 1
    BY <2>1
  <2>3. got[1] = b /\ got # <<>>
    BY <1>2, <2>2
  <2> QED
    BY <1>2, <2>2, <2>3
<1> QED
  BY <1>1, <1>2

\* The first packet a file holds tells where it begins.
LEMMA OneBegin ==
    ASSUME NEW f, Len(f) \in Nat, 6 <= Len(f), NEW b \in Nat \ {0}, NEW c \in Nat \ {0},
           Holds(f, b), Holds(f, c)
    PROVE  b = c
<1>1. Number(b, 1) = b /\ Number(c, 1) = c
  BY DEF Number
<1>2. 3 * 1 + 3 = 6 /\ 1 \in Nat
  OBVIOUS
<1>3. f[3 * 1 + 3] = [is |-> "payload", of |-> Number(b, 1)]
  BY <1>2 DEF Holds
<1>4. f[3 * 1 + 3] = [is |-> "payload", of |-> Number(c, 1)]
  BY <1>2 DEF Holds
<1>5. f[3 * 1 + 3].of = Number(b, 1)
  BY <1>3
<1>6. f[3 * 1 + 3].of = Number(c, 1)
  BY <1>4
<1> QED
  BY <1>1, <1>5, <1>6

LEMMA FitsLast ==
    ASSUME NEW f, NEW b, Fits(f, b), NEW m \in Nat, m > 0, 3 * m + 3 <= Len(f)
    PROVE  b + m - 1 \in Packets /\ InLimits(b, b + m - 1)
<1>1. m \in Nat \ {0}
  OBVIOUS
<1> QED
  BY <1>1 DEF Fits

LEMMA HeaderOpens ==
    ASSUME NEW f \in Seq(Field), NEW b \in Nat, Holds(f, b)
    PROVE  Opens(f) <=> 3 <= Len(f)
<1>1. ReadRaises(f, 0) = IF 3 * 0 + 3 <= Len(f) THEN "none" ELSE "Failed to read"
  BY ReadOne
<1>2. (3 * 0 + 3 <= Len(f)) <=> 3 <= Len(f)
  OBVIOUS
<1>3. ReadRaises(f, 0) = IF 3 <= Len(f) THEN "none" ELSE "Failed to read"
  BY <1>1, <1>2
<1> QED
  BY <1>3 DEF Opens

\* mjr.py under split_cmd: a part file that was cut short anywhere reads back as the
\* beginning of the part its number says, its index lists at most one packet more, and
\* nothing raises once its header was written.
THEOREM PartsAlwaysReadBack == Spec => []PartsReadBack
<1>1. ASSUME Inv, Readable PROVE PartsReadBack
  <2>1. Types /\ FilesOK
    BY <1>1 DEF Inv
  <2> PICK g : Follows(g)
    BY <1>1 DEF Inv
  <2> SUFFICES ASSUME NEW p \in DOMAIN files
               PROVE  LET f == files[p].mjr
                          got == ReadBack(f)
                      IN /\ files[p].whole => Opens(f) /\ Indexed(f) = Iterated(f)
                         /\ Opens(f) => /\ ~IterationRaises(f)
                                        /\ Indexed(f) \in {1 .. Len(got), 1 .. Len(got) + 1}
                         /\ numbered /\ got # <<>> /\ (p = 1 \/ IsWhole(p - 1)) =>
                               /\ got[1] = IF p = 1 THEN 1 ELSE Last(ReadBack(files[p - 1].mjr)) + 1
                               /\ \A k \in 1 .. Len(got) : got[k] = got[1] + k - 1
                               /\ \E e \in Packets : got[Len(got)] <= e /\ IsPart(got[1], e)
    BY DEF PartsReadBack
  <2> PICK f : f = files[p].mjr
    OBVIOUS
  <2> PICK got : got = ReadBack(f)
    OBVIOUS
  <2>2. PICK b \in Packets :
           Fits(f, b) /\ (files[p].whole => \E n \in Nat : Len(f) = 3 * n + 3)
    BY <1>1 DEF Readable
  <2>3. b \in Nat /\ b > 0 /\ f \in Seq(Field) /\ Holds(f, b) /\ Len(f) \in Nat
    BY <2>1, <2>2 DEF Packets, FilesOK, Fits
  <2>4. PICK m \in Nat :
           /\ m > 0 => 3 * m + 3 <= Len(f)
           /\ Len(f) < 3 * m + 6
           /\ got = [k \in 1 .. m |-> b + k - 1] /\ Iterated(f) = 1 .. m
           /\ Indexed(f) = 1 .. (IF Len(f) = 3 * m + 5 THEN m + 1 ELSE m)
           /\ ReadRaises(f, m + 1) = "Failed to read"
    BY <2>3, CutReadsBack
  <2>5. /\ Len(got) = m /\ (got # <<>> <=> m > 0)
        /\ m > 0 => got[1] = b /\ got[Len(got)] = b + m - 1
        /\ \A k \in 1 .. Len(got) : got[k] = got[1] + k - 1
    <3>1. b \in Nat /\ got = [k \in 1 .. m |-> b + k - 1]
      BY <2>3, <2>4, Zenon
    <3>2. got \in Seq(Int) /\ Len(got) = m /\ \A k \in 1 .. m : got[k] = b + k - 1
      BY ONLY <3>1, m \in Nat
    <3> QED
      BY ONLY <2>3, <3>2, m \in Nat, ReadsAsRun
  <2>6. Opens(f) <=> 3 <= Len(f)
    BY <2>3, HeaderOpens
  <2>7. ASSUME files[p].whole PROVE Opens(f) /\ Indexed(f) = Iterated(f)
    <3>1. PICK n \in Nat : Len(f) = 3 * n + 3
      BY <2>2, <2>7
    <3>2. 3 <= Len(f) /\ Len(f) # 3 * m + 5
      BY <3>1
    <3> QED
      BY <2>4, <2>6, <3>2
  <2>8. ~IterationRaises(f) /\ Indexed(f) \in {1 .. Len(got), 1 .. Len(got) + 1}
    <3>1. IterationRaises(f) <=> ~IsEof("Failed to read")
      BY <2>4, <2>5 DEF IterationRaises
    <3>2. IsEof("Failed to read")
      BY DEF IsEof
    <3>3. Indexed(f) = 1 .. m \/ Indexed(f) = 1 .. m + 1
      BY <2>4
    <3> QED
      BY <2>5, <3>1, <3>2, <3>3
  <2>9. ASSUME numbered, got # <<>>, p = 1 \/ IsWhole(p - 1)
        PROVE  /\ got[1] = IF p = 1 THEN 1 ELSE Last(ReadBack(files[p - 1].mjr)) + 1
               /\ \A k \in 1 .. Len(got) : got[k] = got[1] + k - 1
               /\ \E e \in Packets : got[Len(got)] <= e /\ IsPart(got[1], e)
    <3>1. m > 0 /\ 3 * m + 3 <= Len(f) /\ got[1] = b /\ got[Len(got)] = b + m - 1
      BY <2>4, <2>5, <2>9
    <3>2. 6 <= Len(f)
      BY ONLY <2>3, <3>1, m \in Nat
    <3>3. p \in 1 .. Len(g) /\ Holds(f, g[p]) /\ Plan(g) /\ g[p] \in Packets
      BY <2>9 DEF Follows, FilesFollow, Plan
    <3>4. b = g[p]
      <4>1. b \in Nat \ {0} /\ g[p] \in Nat \ {0}
        BY <2>3, <3>3 DEF Packets
      <4> QED
        BY <2>3, <3>2, <3>3, <4>1, OneBegin
    <3>5. \E e \in Packets : got[Len(got)] <= e /\ IsPart(got[1], e)
      <4>1. b + m - 1 \in Packets /\ InLimits(b, b + m - 1)
        BY <2>2, <3>1, FitsLast
      <4>2. b <= b + m - 1
        BY ONLY <2>3, <3>1, m \in Nat
      <4>3. \E e \in Packets : b + m - 1 <= e /\ IsPart(b, e)
        BY <2>1, <4>1, <4>2, FitsInChunk
      <4> QED
        BY <3>1, <4>3
    <3>6. CASE p = 1
      <4>1. Len(g) > 0 /\ g[1] = 1
        BY <3>3, <3>6 DEF Plan
      <4>2. got[1] = 1
        BY <3>1, <3>4, <3>6, <4>1
      <4> QED
        BY <2>5, <3>5, <3>6, <4>2
    <3>7. CASE p # 1 /\ IsWhole(p - 1)
      <4> PICK n : n = p - 1
        OBVIOUS
      <4>1. n \in DOMAIN files /\ files[n].whole
        BY <3>7 DEF IsWhole
      <4>2. /\ n \in 1 .. Len(g) /\ g[n] \in Packets
            /\ \E d \in Packets :
                 /\ Chunk(g[n], d) /\ g[n] <= d
                 /\ Iterated(files[n].mjr) = 1 .. d - g[n] + 1
                 /\ Run(ReadBack(files[n].mjr), g[n], d)
        BY <2>1, <2>9, <4>1, WholeFile
      <4> PICK d \in Packets :
                 /\ Chunk(g[n], d) /\ g[n] <= d
                 /\ Run(ReadBack(files[n].mjr), g[n], d)
        BY <4>2
      <4>3. g[n] \in Nat /\ d \in Nat
        BY <4>2 DEF Packets
      <4>4. Last(ReadBack(files[n].mjr)) = d
        BY <4>3, ReadsAsChunk
      <4>5. n \in 1 .. Len(g) - 1 /\ n + 1 = p
        BY <3>3, <4>2
      <4>6. Chunk(g[n], g[p] - 1)
        BY <3>3, <4>5 DEF Plan
      <4>7. d = g[p] - 1
        BY <2>1, <4>6, OneChunk
      <4>8. got[1] = Last(ReadBack(files[p - 1].mjr)) + 1
        BY <2>3, <3>1, <3>4, <4>4, <4>7
      <4> QED
        BY <2>5, <3>5, <3>7, <4>8
    <3> QED
      BY <2>9, <3>6, <3>7
  <2> QED
    BY <2>7, <2>8, <2>9
<1>2. Init => Readable
  BY DEF Init, Readable
<1>3. Inv /\ Readable /\ [Next]_vars => Readable'
  BY ReadableStep DEF Inv
<1> QED
  BY <1>1, <1>2, <1>3, InitInv, NextInv, PTL DEF Spec
=============================================================================
