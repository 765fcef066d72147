------------------------------- MODULE GenProofs -------------------------------
(***************************************************************************)
(* Proofs about frame files and the generator, for any requests, times,    *)
(* sizes of frames and delays, with calls that fail and a process that is  *)
(* killed anywhere.                                                        *)
(***************************************************************************)
EXTENDS Gen, WellFoundedInduction, TLAPS

LEMMA LeastExists ==
    ASSUME NEW S, S \subseteq Nat, S # {} PROVE \E x \in S : \A y \in S : x <= y
<1>1. \E x \in S : \A y \in S : ~(<<y, x>> \in OpToRel(<, Nat))
  BY WFMin, NatLessThanWellFounded, Zenon
<1>2. PICK x \in S : \A y \in S : ~(<<y, x>> \in OpToRel(<, Nat))
  BY <1>1
<1>3. \A y \in S : x <= y
  <2> TAKE y \in S
  <2>1. <<y, x>> \in Nat \X Nat /\ ~(y < x)
    BY <1>2 DEF OpToRel
  <2> QED
    BY <2>1
<1> QED
  BY <1>3

LEMMA MaxIsGreatest ==
    ASSUME NEW n \in Nat, NEW s \in SUBSET (1 .. n), s # {}
    PROVE  Max(s) \in s /\ \A x \in s : x <= Max(s)
<1> DEFINE below == { n - x : x \in s }
<1>0. \A x \in s : x \in 1 .. n
  OBVIOUS
<1>1. below \subseteq Nat /\ below # {}
  <2>1. \A x \in s : n - x \in Nat
    BY <1>0
  <2> QED
    BY <2>1
<1> HIDE DEF below
<1>2. PICK y \in below : \A z \in below : y <= z
  BY <1>1, LeastExists
<1>3. \A x \in s : x \in Int /\ n - x \in below
  BY <1>0 DEF below
<1>4. PICK m \in s : y = n - m
  BY <1>2 DEF below
<1>5. \A x \in s : m >= x
  BY <1>2, <1>3, <1>4
<1>6. Max(s) \in s /\ \A x \in s : Max(s) >= x
  <2>1. \E x \in s : \A z \in s : x >= z
    BY <1>5
  <2> QED
    BY <2>1, Zenon DEF Max
<1> QED
  BY <1>3, <1>6

-----------------------------------------------------------------------------
(***************************************************************************)
(* What monotonic() makes of times.  The library's fold is over subsets of *)
(* the indices, from the greatest one down; it is followed here along the  *)
(* subsets 1 .. k.                                                         *)
(***************************************************************************)
NoFrames == [out |-> <<>>, delta |-> 1]

\* One more frame.
Later(s, p) ==
    IF s.out = <<>> THEN [s EXCEPT !.out = <<p>>]
    ELSE LET last == s.out[Len(s.out)]
         IN IF p <= last THEN [s EXCEPT !.out = Append(@, last + s.delta)]
            ELSE [out |-> Append(s.out, p), delta |-> p - last]

FoldOn(f, times, S) ==
    f = [s \in SUBSET S |-> IF s = {} THEN NoFrames ELSE Later(f[s \ {Max(s)}], times[Max(s)])]

LEMMA MonotonicFolds ==
    ASSUME NEW times
    PROVE  Monotonic(times) = (CHOOSE f : FoldOn(f, times, DOMAIN times))[DOMAIN times].out
  BY Zenon DEF Monotonic, FoldLeft, MapThenFoldSet, FoldOn, Later, NoFrames

LEMMA FoldExists == ASSUME NEW times, NEW n \in Nat PROVE \E f : FoldOn(f, times, 1 .. n)
<1> DEFINE B == { m \in Nat : ~ \E f : FoldOn(f, times, 1 .. m) }
<1> SUFFICES ASSUME B # {} PROVE FALSE
  OBVIOUS
<1>1. B \subseteq Nat
  OBVIOUS
<1> HIDE DEF B
<1>2. PICK m \in B : \A k \in B : m <= k
  BY <1>1, LeastExists
<1> USE DEF B
<1>3. m \in Nat /\ ~ \E f : FoldOn(f, times, 1 .. m)
  OBVIOUS
<1>4. CASE m = 0
  <2> DEFINE h == [s \in SUBSET (1 .. 0) |-> NoFrames]
  <2>1. \A s \in SUBSET (1 .. 0) : s = {}
    OBVIOUS
  <2>2. h = [s \in SUBSET (1 .. 0) |->
               IF s = {} THEN NoFrames ELSE Later(h[s \ {Max(s)}], times[Max(s)])]
    BY <2>1
  <2> HIDE DEF h
  <2> QED
    BY <1>3, <1>4, <2>2 DEF FoldOn
<1>5. CASE m > 0
  <2>1. m - 1 \in Nat /\ ~(m <= m - 1)
    BY <1>3, <1>5
  <2>2. PICK f : FoldOn(f, times, 1 .. m - 1)
    BY <1>2, <2>1
  <2> DEFINE h == [s \in SUBSET (1 .. m) |->
                     IF m \in s THEN Later(f[s \ {m}], times[m]) ELSE f[s]]
  <2>3. ASSUME NEW s \in SUBSET (1 .. m)
        PROVE  h[s] = IF s = {} THEN NoFrames ELSE Later(h[s \ {Max(s)}], times[Max(s)])
    <3>1. \A t \in SUBSET (1 .. m) : m \notin t => t \in SUBSET (1 .. m - 1)
      BY <2>1
    <3>2. CASE m \in s
      <4>1. Max(s) = m
        <5>0. s # {}
          BY <3>2
        <5>1. Max(s) \in s /\ m <= Max(s)
          BY ONLY <1>3, <3>2, <5>0, MaxIsGreatest, s \in SUBSET (1 .. m)
        <5>2. Max(s) \in 1 .. m
          BY ONLY <5>1, s \in SUBSET (1 .. m)
        <5> QED
          BY ONLY <1>3, <5>1, <5>2
      <4>2. s \ {m} \in SUBSET (1 .. m) /\ m \notin s \ {m}
        OBVIOUS
      <4>3. h[s \ {m}] = f[s \ {m}] /\ h[s] = Later(f[s \ {m}], times[m])
        BY <3>2, <4>2
      <4> QED
        BY <3>2, <4>1, <4>3
    <3>3. CASE m \notin s
      <4>1. s \in SUBSET (1 .. m - 1)
        BY <3>1, <3>3
      <4>2. f[s] = IF s = {} THEN NoFrames ELSE Later(f[s \ {Max(s)}], times[Max(s)])
        BY <2>2, <4>1 DEF FoldOn
      <4>3. s \ {Max(s)} \in SUBSET (1 .. m) /\ m \notin s \ {Max(s)}
        BY <3>3
      <4>4. h[s] = f[s] /\ h[s \ {Max(s)}] = f[s \ {Max(s)}]
        BY <3>3, <4>3
      <4> QED
        BY <4>2, <4>4
    <3> QED
      BY <3>2, <3>3
  <2>4. h = [s \in SUBSET (1 .. m) |-> h[s]]
    OBVIOUS
  <2> HIDE DEF h
  <2>5. FoldOn(h, times, 1 .. m)
    BY <2>3, <2>4 DEF FoldOn
  <2> QED
    BY <1>3, <2>5
<1> QED
  BY <1>3, <1>4, <1>5

\* What a fold over the first k times has: as many frames, one after the other, none
\* before its time.
Rises(s, times, k) ==
    /\ s.out \in Seq(Int) /\ Len(s.out) = k
    /\ s.delta \in Int /\ s.delta > 0 /\ s = [out |-> s.out, delta |-> s.delta]
    /\ \A i \in 1 .. k - 1 : s.out[i] < s.out[i + 1]
    /\ \A i \in 1 .. k : times[i] <= s.out[i]

LEMMA LaterRises ==
    ASSUME NEW times \in Seq(Int), NEW k \in 1 .. Len(times), NEW s, Rises(s, times, k - 1)
    PROVE  Rises(Later(s, times[k]), times, k)
<1> DEFINE p == times[k]
           o == s.out
           d == s.delta
<1>1. /\ o \in Seq(Int) /\ Len(o) = k - 1 /\ d \in Int /\ d > 0 /\ p \in Int /\ k \in Nat
      /\ s = [out |-> o, delta |-> d]
      /\ \A i \in 1 .. k - 2 : o[i] < o[i + 1]
      /\ \A i \in 1 .. k - 1 : times[i] <= o[i]
  BY DEF Rises
<1> DEFINE last == o[Len(o)]
           q == IF o = <<>> THEN p ELSE IF p <= last THEN last + d ELSE p
           e == IF o = <<>> \/ p <= last THEN d ELSE p - last
<1>2. o = <<>> <=> k = 1
  BY <1>1
<1>3. o # <<>> => last \in Int
  BY <1>1, <1>2
<1>4. Later(s, p) = [out |-> Append(o, q), delta |-> e]
  <2> HIDE DEF o, d, p
  <2>1. CASE o = <<>>
    <3>1. Append(o, p) = <<p>>
      BY <2>1
    <3>2. s.out = o
      BY DEF o
    <3>3. Later(s, p) = [s EXCEPT !.out = <<p>>]
      BY <2>1, <3>2, Zenon DEF Later
    <3> QED
      BY <1>1, <2>1, <3>1, <3>3
  <2>2. CASE o # <<>> /\ p <= last
    <3>1. s.out = o /\ s.delta = d
      BY DEF o, d
    <3>2. Later(s, p) = [s EXCEPT !.out = Append(@, last + d)]
      BY <2>2, <3>1, Zenon DEF Later
    <3> QED
      BY <1>1, <2>2, <3>1, <3>2
  <2>3. CASE o # <<>> /\ ~(p <= last)
    <3>1. s.out = o /\ s.delta = d
      BY DEF o, d
    <3>2. Later(s, p) = [out |-> Append(o, p), delta |-> p - last]
      BY <2>3, <3>1, Zenon DEF Later
    <3> QED
      BY <2>3, <3>2
  <2> QED
    BY <2>1, <2>2, <2>3
<1>5. q \in Int /\ e \in Int /\ e > 0 /\ p <= q /\ (o # <<>> => last < q)
  BY <1>1, <1>3
<1> HIDE DEF q, e, o, d, p
<1>6. Append(o, q) \in Seq(Int) /\ Len(Append(o, q)) = k
  BY <1>1, <1>5
<1>7. \A i \in 1 .. k : Append(o, q)[i] = IF i = k THEN q ELSE o[i]
  BY <1>1, <1>5
<1>8. \A i \in 1 .. k - 1 : Append(o, q)[i] < Append(o, q)[i + 1]
  <2> TAKE i \in 1 .. k - 1
  <2>1. CASE i = k - 1
    BY <1>1, <1>2, <1>5, <1>7, <2>1
  <2>2. CASE i # k - 1
    BY <1>1, <1>7, <2>2
  <2> QED
    BY <2>1, <2>2
<1>9. \A i \in 1 .. k : times[i] <= Append(o, q)[i]
  <2> TAKE i \in 1 .. k
  <2>1. CASE i = k
    BY <1>5, <1>7, <2>1 DEF p
  <2>2. CASE i # k
    BY <1>1, <1>7, <2>2
  <2> QED
    BY <2>1, <2>2
<1> DEFINE r == [out |-> Append(o, q), delta |-> e]
<1>10. r.out = Append(o, q) /\ r.delta = e /\ r = [out |-> r.out, delta |-> r.delta]
  OBVIOUS
<1> HIDE DEF r
<1>11. Rises(r, times, k)
  BY <1>5, <1>6, <1>8, <1>9, <1>10 DEF Rises
<1> QED
  BY <1>4, <1>11 DEF p, r

\* Monotonic keeps every frame, after the one before it and not before its own time.
LEMMA MonotonicRises ==
    ASSUME NEW times \in Seq(Int)
    PROVE  /\ Len(Monotonic(times)) = Len(times) /\ DOMAIN Monotonic(times) = 1 .. Len(times)
           /\ \A i \in 1 .. Len(times) - 1 : Monotonic(times)[i] < Monotonic(times)[i + 1]
           /\ \A i \in 1 .. Len(times) : times[i] <= Monotonic(times)[i]
<1>1. DOMAIN times = 1 .. Len(times) /\ Len(times) \in Nat
  OBVIOUS
<1> DEFINE f == CHOOSE g : FoldOn(g, times, 1 .. Len(times))
<1>2. FoldOn(f, times, 1 .. Len(times))
  BY <1>1, FoldExists, Zenon
<1>3. Monotonic(times) = f[1 .. Len(times)].out
  BY <1>1, MonotonicFolds
<1> HIDE DEF f
<1> DEFINE B == { k \in 0 .. Len(times) : ~Rises(f[1 .. k], times, k) }
<1>4. ASSUME B # {} PROVE FALSE
  <2>1. B \subseteq Nat
    BY <1>1
  <2> HIDE DEF B
  <2>2. PICK k \in B : \A j \in B : k <= j
    BY <1>4, <2>1, LeastExists
  <2> USE DEF B
  <2>3. k \in 0 .. Len(times) /\ ~Rises(f[1 .. k], times, k)
    OBVIOUS
  <2>4. 1 .. k \in SUBSET (1 .. Len(times))
    BY <1>1, <2>3
  <2>5. f[1 .. k] = IF 1 .. k = {} THEN NoFrames
                    ELSE Later(f[(1 .. k) \ {Max(1 .. k)}], times[Max(1 .. k)])
    BY <1>2, <2>4 DEF FoldOn
  <2>6. CASE k = 0
    <3>1. f[1 .. k] = NoFrames
      BY <2>5, <2>6
    <3>2. Rises(NoFrames, times, 0)
      BY DEF Rises, NoFrames
    <3> QED
      BY <2>3, <2>6, <3>1, <3>2
  <2>7. CASE k > 0
    <3>1. k \in 1 .. Len(times) /\ 1 .. k # {} /\ k - 1 \in 0 .. Len(times) /\ ~(k <= k - 1)
      BY <1>1, <2>3, <2>7
    <3>2. Max(1 .. k) = k
      <4>0. 1 .. k \in SUBSET (1 .. k) /\ k \in 1 .. k /\ k \in Nat
        BY <1>1, <3>1
      <4>1. Max(1 .. k) \in 1 .. k /\ k <= Max(1 .. k)
        BY ONLY <3>1, <4>0, MaxIsGreatest
      <4> QED
        BY <3>1, <4>1
    <3>3. (1 .. k) \ {k} = 1 .. k - 1
      BY <3>1
    <3>4. f[1 .. k] = Later(f[1 .. k - 1], times[k])
      BY <2>5, <3>1, <3>2, <3>3
    <3>5. Rises(f[1 .. k - 1], times, k - 1)
      BY <2>2, <3>1
    <3> QED
      BY <2>3, <3>1, <3>4, <3>5, LaterRises
  <2> QED
    BY <1>1, <2>3, <2>6, <2>7
<1>5. Rises(f[1 .. Len(times)], times, Len(times))
  BY <1>1, <1>4
<1> QED
  BY <1>3, <1>5 DEF Rises
-----------------------------------------------------------------------------
(***************************************************************************)
(* Types, and what a file holds.                                           *)
(***************************************************************************)
FieldName == { <<"type length", "type", "name length", "name", "profile">>[i] : i \in 1 .. 5 }
             \cup { <<"pts", "flags", "size", "data">>[i] : i \in 1 .. 4 } \cup {"data"}
Field == [is : FieldName, pts : Int]

TypeOK ==
    /\ req \in Requests
    /\ pc \in {"open", "header", "start", "loop", "encoded", "flush"}
             \cup {"returned", "raised", "crashed", "killed"}
    /\ pts \in Nat /\ left \in Int /\ length \in Nat
    /\ queue \in Seq(Nat) /\ file \in Seq(Field) /\ made \in Seq(Int)

LEMMA RequestType ==
    ASSUME req \in Requests
    PROVE  /\ req.media \in {"audio", "video"} /\ req.header \in BOOLEAN /\ req.raw \in BOOLEAN
           /\ req.duration \in Int /\ req.samples \in Int /\ req.offset \in Int /\ req.base \in Nat
  BY RequestsAssumption

LEMMA HeaderFields == Header \in Seq(Field) /\ Len(Header) = 5
<1>1. \A i \in 1 .. 5 : <<"type length", "type", "name length", "name", "profile">>[i] \in FieldName
  BY Zenon DEF FieldName
<1> QED
  <2> DEFINE names == <<"type length", "type", "name length", "name", "profile">>
  <2>1. Header = [i \in 1 .. 5 |-> [is |-> names[i], pts |-> -1]]
    BY Zenon DEF Header
  <2>2. \A i \in 1 .. 5 : names[i] \in FieldName
    BY <1>1, Zenon
  <2> HIDE DEF names
  <2> QED
    BY <2>1, <2>2 DEF Field

\* A frame's data is its last field.
LEMMA FrameFields ==
    ASSUME NEW p \in Int, NEW raw \in BOOLEAN
    PROVE  /\ Frame(p, raw) \in Seq(Field)
           /\ ~raw => Len(Frame(p, raw)) = 4 /\ Frame(p, raw)[4].pts = p
<1>1. \A i \in 1 .. 4 : <<"pts", "flags", "size", "data">>[i] \in FieldName
  BY Zenon DEF FieldName
<1>2. CASE raw
  <2>1. [is |-> "data", pts |-> p] \in Field
    BY DEF Field, FieldName
  <2> QED
    BY <1>2, <2>1 DEF Frame
<1>3. CASE ~raw
  BY <1>1, <1>3 DEF Frame, Field
<1> QED
  BY <1>2, <1>3

LEMMA StampType == ASSUME req \in Requests, NEW p \in Nat PROVE Stamp(p) \in Int
<1>1. /\ req.offset \in Int /\ req.base \in Nat /\ Rate \in Nat \ {0}
  BY RequestType, SizesAssumption
<1>2. \A n \in Int : RoundDiv(n, Rate) \in Int
  <2> TAKE n \in Int
  <2>1. 2 * Rate \in Nat \ {0} /\ 2 * n + Rate \in Int /\ Rate - 2 * n \in Int
    BY <1>1
  <2>2. \A a \in Int, b \in Nat \ {0} : a \div b \in Int
    OBVIOUS
  <2>3. (2 * n + Rate) \div (2 * Rate) \in Int /\ (Rate - 2 * n) \div (2 * Rate) \in Int
    BY <2>1, <2>2
  <2> QED
    BY <2>3 DEF RoundDiv
<1>3. (p + req.offset) * req.base \in Int
  BY <1>1
<1> QED
  BY <1>1, <1>2, <1>3 DEF Stamp

LEMMA ConcatType ==
    ASSUME NEW a \in Seq(Nat), NEW b \in Seq(Nat)
    PROVE  a \o b \in Seq(Nat) /\ Len(a \o b) = Len(a) + Len(b)
  OBVIOUS

\* A packet taken out of the queue.
LEMMA RemoveType ==
    ASSUME NEW q \in Seq(Nat), NEW k \in 1 .. Len(q)
    PROVE  /\ RemoveAt(q, k) \in Seq(Nat) /\ Len(RemoveAt(q, k)) = Len(q) - 1
           /\ \A i \in 1 .. Len(q) - 1 : RemoveAt(q, k)[i] = IF i < k THEN q[i] ELSE q[i + 1]
<1> DEFINE a == SubSeq(q, 1, k - 1)
           b == SubSeq(q, k + 1, Len(q))
<1>1. /\ a \in Seq(Nat) /\ Len(a) = k - 1 /\ \A i \in 1 .. k - 1 : a[i] = q[i]
  OBVIOUS
<1>2. /\ b \in Seq(Nat) /\ Len(b) = Len(q) - k /\ \A i \in 1 .. Len(q) - k : b[i] = q[k + i]
  OBVIOUS
<1>3. RemoveAt(q, k) = a \o b
  BY DEF RemoveAt
<1> HIDE DEF a, b
<1>4. \A i \in 1 .. Len(q) - 1 : (a \o b)[i] = IF i < k THEN q[i] ELSE q[i + 1]
  <2> TAKE i \in 1 .. Len(q) - 1
  <2>1. (a \o b)[i] = IF i <= Len(a) THEN a[i] ELSE b[i - Len(a)]
    BY <1>1, <1>2
  <2> QED
    BY <1>1, <1>2, <2>1
<1>5. a \o b \in Seq(Nat)
  BY <1>1, <1>2, ConcatType
<1>6. Len(a \o b) = Len(q) - 1
  <2>0. a \in Seq(Nat) /\ b \in Seq(Nat) /\ Len(a) = k - 1 /\ Len(b) = Len(q) - k
    BY <1>1, <1>2
  <2>1. Len(a \o b) = Len(a) + Len(b)
    BY <2>0, ConcatType
  <2>2. Len(q) \in Nat /\ k \in Int
    OBVIOUS
  <2> QED
    BY <2>0, <2>1, <2>2
<1> QED
  BY <1>3, <1>4, <1>5, <1>6, Zenon

\* Files, when frames are not raw: fields of the frames written, none of them missing while
\* the call goes on, and at most a part of one more.
Clean == {"start", "loop", "encoded", "flush", "returned"}

FileOK ==
    /\ pc \in {"open", "header"} => file = <<>> /\ made = <<>>
    /\ pc = "start" => made = <<>>
    /\ ~req.raw =>
          /\ pc \in Clean => Len(file) = From + 4 * Len(made)
          /\ Len(file) < From + 4 * (Len(made) + 1)
          /\ \A k \in 1 .. Len(made) : From + 4 * k <= Len(file) => file[From + 4 * k].pts = made[k]

\* The frames begun, in the order they leave an audio encoder.
Begun == Len(made) + Len(queue)
Live == {"open", "header", "start", "loop", "encoded", "flush", "returned"}

AudioOK ==
    Audio /\ pc \in Live =>
       /\ \A k \in 1 .. Len(made) : made[k] = Stamp(FrameSize * (k - 1))
       /\ \A j \in 1 .. Len(queue) : queue[j] = FrameSize * (Len(made) + j - 1)
       /\ pts <= FrameSize * Begun
       /\ Begun > 0 => pts > FrameSize * (Begun - 1)
       /\ left # 0 => pts = FrameSize * Begun /\ length = FrameSize
       /\ IF req.samples < 0 THEN left = req.samples ELSE left >= 0 /\ left = req.samples - pts
       /\ req.duration > 0 /\ Begun > 0 => FrameSize * (Begun - 1) < req.duration * Rate
       /\ pc = "flush" \/ (pc = "returned" /\ req.valid) => Done
       /\ pc = "returned" => queue = <<>>

VideoOK ==
    ~Audio /\ pc \in Live =>
       /\ pc # "flush" /\ length = 1 /\ Begun = pts
       /\ Len(queue) <= IF pc = "encoded" THEN Delay + 1 ELSE Delay
       /\ \A t \in 0 .. pts - 1 :
              (\E k \in 1 .. Len(made) : made[k] = t) \/ (\E k \in 1 .. Len(queue) : queue[k] = t)
       /\ pc = "returned" => Done

Inv == TypeOK /\ FileOK /\ AudioOK /\ VideoOK /\ (pc \in {"open", "header", "start"} => queue = <<>>)

LEMMA InitInv == Init => Inv
<1> SUFFICES ASSUME Init PROVE Inv
  OBVIOUS
<1>1. /\ req \in Requests /\ pc = "open" /\ pts = 0 /\ left = req.samples
      /\ length = IF req.media = "audio" THEN FrameSize ELSE 1
      /\ queue = <<>> /\ file = <<>> /\ made = <<>>
  BY DEF Init
<1>2. req.samples \in Int /\ FrameSize \in Nat \ {0} /\ Delay \in Nat
  BY <1>1, RequestType, SizesAssumption
<1>3. TypeOK
  BY <1>1, <1>2 DEF TypeOK
<1>4. From \in Nat
  BY HeaderFields DEF From
<1>5. FileOK
  BY <1>1, <1>4 DEF FileOK, Clean
<1>6. AudioOK
  <2>1. Begun = 0 /\ FrameSize * 0 = 0
    BY <1>1, <1>2 DEF Begun
  <2> QED
    BY <1>1, <1>2, <2>1 DEF AudioOK, Audio, Live
<1>7. VideoOK
  BY <1>1, <1>2 DEF VideoOK, Audio, Begun
<1> QED
  BY <1>1, <1>3, <1>5, <1>6, <1>7 DEF Inv

-----------------------------------------------------------------------------
(***************************************************************************)
(* Steps.                                                                  *)
(***************************************************************************)
\* Where steps lead that make and write nothing.
LEMMA StillSteps ==
    ASSUME TypeOK,
           Open \/ OpenFails \/ Start \/ StartFails \/ HoldsBack \/ EncodeFails \/ LoopEnds \/ FlushEnds
    PROVE  /\ Unchanged
           /\ \/ pc = "open" /\ pc' = "header"
              \/ pc = "start" /\ Audio /\ ~req.valid /\ pc' = "returned"
              \/ pc = "start" /\ pc' = "loop"
              \/ pc = "encoded" /\ Len(queue) <= Delay /\ pc' = "loop"
              \/ pc = "loop" /\ Done /\ Audio /\ pc' = "flush"
              \/ pc = "loop" /\ Done /\ ~Audio /\ pc' = "returned"
              \/ pc = "flush" /\ queue = <<>> /\ pc' = "returned"
              \/ pc' \in {"raised", "crashed"}
<1>1. CASE Open
  BY <1>1 DEF Open, Unchanged, Goto
<1>2. CASE OpenFails
  BY <1>2 DEF OpenFails, Unchanged, Goto
<1>3. CASE Start
  <2>1. CASE Audio /\ ~req.valid
    <3>1. End("returned")
      BY <1>3, <2>1 DEF Start
    <3> QED
      BY <1>3, <2>1, <3>1 DEF Start, End, Unchanged
  <2>2. CASE ~(Audio /\ ~req.valid)
    <3>1. pc' = "crashed" \/ pc' = "loop"
      BY <1>3, <2>2 DEF Start, Goto, Wild
    <3> QED
      BY <1>3, <3>1 DEF Start, Unchanged
  <2> QED
    BY <2>1, <2>2
<1>4. CASE StartFails
  BY <1>4 DEF StartFails, Unchanged, Goto
<1>5. CASE HoldsBack
  BY <1>5 DEF HoldsBack, Unchanged, Goto
<1>6. CASE EncodeFails
  BY <1>6 DEF EncodeFails, Unchanged, Goto
<1>7. CASE LoopEnds
  BY <1>7 DEF LoopEnds, Unchanged, Goto
<1>8. CASE FlushEnds
  BY <1>8 DEF FlushEnds, Unchanged, Goto
<1> QED
  BY <1>1, <1>2, <1>3, <1>4, <1>5, <1>6, <1>7, <1>8

LEMMA StillInv ==
    ASSUME Inv,
           Open \/ OpenFails \/ Start \/ StartFails \/ HoldsBack \/ EncodeFails \/ LoopEnds \/ FlushEnds
    PROVE  Inv'
<1>1. TypeOK /\ FileOK /\ AudioOK /\ VideoOK /\ (pc \in {"open", "header", "start"} => queue = <<>>)
  BY DEF Inv
<1>2. /\ req' = req /\ pts' = pts /\ left' = left /\ length' = length
      /\ queue' = queue /\ file' = file /\ made' = made
  BY <1>1, StillSteps DEF Unchanged
<1>3. \/ pc = "open" /\ pc' = "header"
      \/ pc = "start" /\ Audio /\ ~req.valid /\ pc' = "returned"
      \/ pc = "start" /\ pc' = "loop"
      \/ pc = "encoded" /\ Len(queue) <= Delay /\ pc' = "loop"
      \/ pc = "loop" /\ Done /\ Audio /\ pc' = "flush"
      \/ pc = "loop" /\ Done /\ ~Audio /\ pc' = "returned"
      \/ pc = "flush" /\ queue = <<>> /\ pc' = "returned"
      \/ pc' \in {"raised", "crashed"}
  BY <1>1, StillSteps
<1>4. TypeOK'
  BY <1>1, <1>2, <1>3 DEF TypeOK
<1>5. From' = From /\ Audio' = Audio /\ Begun' = Begun /\ Done' = Done
  BY <1>2 DEF From, Audio, Begun, Done
<1>6. \A p : Stamp(p)' = Stamp(p)
  BY <1>2 DEF Stamp, Audio
<1>7. FileOK'
  BY <1>1, <1>2, <1>3, <1>5 DEF FileOK, Clean
<1>8. AudioOK'
  <2> SUFFICES ASSUME Audio', pc' \in Live PROVE AudioOK'
    BY DEF AudioOK
  <2>1. Audio /\ pc \in Live
    BY <1>3, <1>5 DEF Live
  <2>2. /\ pc' = "flush" \/ (pc' = "returned" /\ req'.valid) => Done'
        /\ pc' = "returned" => queue' = <<>>
    BY <1>1, <1>2, <1>3, <1>5, <2>1 DEF AudioOK, Live
  <2> QED
    BY <1>1, <1>2, <1>5, <1>6, <2>1, <2>2 DEF AudioOK
<1>9. VideoOK'
  <2> SUFFICES ASSUME ~Audio', pc' \in Live PROVE VideoOK'
    BY DEF VideoOK
  <2>1. ~Audio /\ pc \in Live
    BY <1>3, <1>5 DEF Live
  <2>2. Len(queue) \in Nat /\ Delay \in Nat
    BY <1>1, SizesAssumption DEF TypeOK
  <2>3. /\ pc' # "flush" /\ (pc' = "returned" => Done')
        /\ Len(queue) <= IF pc' = "encoded" THEN Delay + 1 ELSE Delay
    BY <1>1, <1>3, <1>5, <2>1, <2>2 DEF VideoOK, Live
  <2> QED
    BY <1>1, <1>2, <1>5, <2>1, <2>3 DEF VideoOK
<1> QED
  BY <1>1, <1>2, <1>3, <1>4, <1>7, <1>8, <1>9 DEF Inv
\* The beginning of a sequence of fields.
LEMMA CutType ==
    ASSUME NEW f \in Seq(Field), NEW n \in 0 .. Len(f)
    PROVE  SubSeq(f, 1, n) \in Seq(Field) /\ Len(SubSeq(f, 1, n)) = n
           /\ \A i \in 1 .. n : SubSeq(f, 1, n)[i] = f[i]
<1>1. n \in Nat /\ \A i \in 1 .. n : f[i] \in Field
  OBVIOUS
<1> QED
  BY <1>1

\* A step that ends the call early only has to leave the file in order.
LEMMA EndsEarly ==
    ASSUME Inv, UNCHANGED <<req, pts, left, length, made>>,
           queue' = queue \/ \E k \in DOMAIN queue : queue' = RemoveAt(queue, k),
           pc' \in {"raised", "crashed", "killed"}, file' \in Seq(Field),
           ~req.raw => /\ Len(file') < From + 4 * (Len(made) + 1)
                       /\ \A k \in 1 .. Len(made) :
                             From + 4 * k <= Len(file') => file'[From + 4 * k].pts = made[k]
    PROVE  Inv'
<1>1. TypeOK
  BY DEF Inv
<1>2. queue' \in Seq(Nat)
  BY <1>1, RemoveType DEF TypeOK
<1>3. TypeOK'
  BY <1>1, <1>2 DEF TypeOK
<1>4. From' = From
  BY DEF From
<1>5. FileOK'
  BY <1>4 DEF FileOK, Clean
<1>6. AudioOK' /\ VideoOK'
  BY DEF AudioOK, VideoOK, Live
<1> QED
  BY <1>3, <1>5, <1>6 DEF Inv

LEMMA DiesInv == ASSUME Inv, Dies PROVE Inv'
<1>1. PICK n \in 0 .. Len(file) : file' = SubSeq(file, 1, n)
  BY DEF Dies
<1>2. TypeOK /\ FileOK
  BY DEF Inv
<1>3. file \in Seq(Field) /\ made \in Seq(Int) /\ From \in Nat /\ Len(file) \in Nat /\ Len(made) \in Nat
  BY <1>2, HeaderFields DEF TypeOK, From
<1>4. file' \in Seq(Field) /\ Len(file') = n /\ \A i \in 1 .. n : file'[i] = file[i]
  BY <1>1, <1>3, CutType
<1>5. ASSUME ~req.raw
      PROVE  /\ Len(file') < From + 4 * (Len(made) + 1)
             /\ \A k \in 1 .. Len(made) :
                   From + 4 * k <= Len(file') => file'[From + 4 * k].pts = made[k]
  <2>1. /\ Len(file) < From + 4 * (Len(made) + 1)
        /\ \A k \in 1 .. Len(made) : From + 4 * k <= Len(file) => file[From + 4 * k].pts = made[k]
    BY <1>2, <1>5 DEF FileOK
  <2>2. ASSUME NEW k \in 1 .. Len(made), From + 4 * k <= Len(file')
        PROVE  file'[From + 4 * k].pts = made[k]
    <3>1. From + 4 * k \in 1 .. n /\ From + 4 * k <= Len(file)
      BY <1>3, <1>4, <2>2
    <3> QED
      BY <1>4, <2>1, <3>1
  <2> QED
    BY <1>3, <1>4, <2>1, <2>2
<1>6. UNCHANGED <<req, pts, left, length, queue, made>> /\ pc' = "killed"
  BY DEF Dies, Goto
<1> QED
  BY <1>4, <1>5, <1>6, EndsEarly

LEMMA HeaderFailsInv == ASSUME Inv, HeaderFails PROVE Inv'
<1>1. TypeOK /\ FileOK
  BY DEF Inv
<1>2. file = <<>> /\ made = <<>> /\ req.header /\ ~req.raw
  BY <1>1 DEF HeaderFails, FileOK
<1>3. PICK n \in 0 .. Len(Header) - 1 : file' = file \o SubSeq(Header, 1, n)
  BY DEF HeaderFails, WritesPart
<1>4. n \in 0 .. Len(Header) /\ n < 5
  BY HeaderFields
<1>5. SubSeq(Header, 1, n) \in Seq(Field) /\ Len(SubSeq(Header, 1, n)) = n
  BY <1>4, HeaderFields, CutType
<1>6. file' \in Seq(Field) /\ Len(file') = n
  BY <1>2, <1>3, <1>5
<1>7. From = 5 /\ Len(made) = 0
  BY <1>2, HeaderFields DEF From
<1>8. UNCHANGED <<req, pts, left, length, queue, made>> /\ pc' \in {"raised", "crashed"}
  BY DEF HeaderFails, End
<1> QED
  BY <1>2, <1>4, <1>6, <1>7, <1>8, EndsEarly

LEMMA WriteHeaderInv == ASSUME Inv, WriteHeader PROVE Inv'
<1>1. TypeOK /\ FileOK /\ AudioOK /\ VideoOK /\ queue = <<>> /\ pc = "header" /\ pc' = "start"
  BY DEF Inv, WriteHeader, Goto
<1>2. file = <<>> /\ made = <<>>
  BY <1>1 DEF FileOK
<1>3. /\ req' = req /\ pts' = pts /\ left' = left /\ length' = length
      /\ queue' = queue /\ made' = made
      /\ file' = IF req.header /\ ~req.raw THEN Header ELSE <<>>
  <2>1. <<>> \o Header = Header
    BY HeaderFields
  <2> QED
    BY <1>2, <2>1 DEF WriteHeader, Writes
<1>4. TypeOK'
  BY <1>1, <1>3, HeaderFields DEF TypeOK
<1>5. From' = From /\ Audio' = Audio /\ Begun' = Begun /\ Done' = Done
  BY <1>3 DEF From, Audio, Begun, Done
<1>6. FileOK'
  <2>1. ~req.raw => Len(file') = From
    BY <1>3, <1>1, RequestType DEF From, TypeOK
  <2>2. Len(made') = 0 /\ From \in Nat
    BY <1>2, <1>3, HeaderFields DEF From
  <2> QED
    BY <1>1, <1>2, <1>3, <1>5, <2>1, <2>2 DEF FileOK
<1>7. \A p : Stamp(p)' = Stamp(p)
  BY <1>3 DEF Stamp, Audio
<1>8. AudioOK'
  BY <1>1, <1>3, <1>5, <1>7 DEF AudioOK, Live
<1>9. VideoOK'
  BY <1>1, <1>3, <1>5 DEF VideoOK, Live
<1> QED
  BY <1>1, <1>3, <1>4, <1>6, <1>8, <1>9 DEF Inv

\* A packet written, whole or in part, after all of those before.
LEMMA FileGrows ==
    ASSUME Inv, pc \in {"encoded", "flush"}, ~req.raw, NEW p \in Int, NEW g \in Seq(Field),
           Len(g) <= 4, Len(g) = 4 => g[4].pts = p
    PROVE  /\ Len(file \o g) = From + 4 * Len(made) + Len(g)
           /\ \A k \in 1 .. Len(made) : (file \o g)[From + 4 * k].pts = made[k]
           /\ Len(g) = 4 => (file \o g)[From + 4 * (Len(made) + 1)].pts = p
<1>1. TypeOK /\ FileOK
  BY DEF Inv
<1>2. file \in Seq(Field) /\ From \in Nat /\ Len(file) \in Nat /\ Len(made) \in Nat
  BY <1>1, HeaderFields DEF TypeOK, From
<1>3. /\ Len(file) = From + 4 * Len(made)
      /\ \A k \in 1 .. Len(made) : From + 4 * k <= Len(file) => file[From + 4 * k].pts = made[k]
  BY <1>1 DEF FileOK, Clean
<1>4. /\ Len(file \o g) = Len(file) + Len(g)
      /\ \A i \in 1 .. Len(file) + Len(g) :
            (file \o g)[i] = IF i <= Len(file) THEN file[i] ELSE g[i - Len(file)]
  BY <1>2
<1>5. \A k \in 1 .. Len(made) : (file \o g)[From + 4 * k].pts = made[k]
  <2> TAKE k \in 1 .. Len(made)
  <2>1. From + 4 * k \in 1 .. Len(file) + Len(g) /\ From + 4 * k <= Len(file)
    BY <1>2, <1>3
  <2> QED
    BY <1>3, <1>4, <2>1
<1>6. Len(g) = 4 => (file \o g)[From + 4 * (Len(made) + 1)].pts = p
  BY <1>2, <1>3, <1>4
<1> QED
  BY <1>3, <1>4, <1>5, <1>6

LEMMA WriteFailsInv == ASSUME Inv, WriteFails PROVE Inv'
<1>1. TypeOK
  BY DEF Inv
<1>2. PICK k \in DOMAIN queue : Packet(k) /\ WritesPart(Frame(Stamp(queue[k]), req.raw))
  BY DEF WriteFails
<1> DEFINE p == Stamp(queue[k])
           g == Frame(p, req.raw)
<1>3. queue[k] \in Nat /\ req \in Requests /\ req.raw \in BOOLEAN /\ file \in Seq(Field)
  BY <1>1, RequestType DEF TypeOK
<1>4. p \in Int
  BY <1>3, StampType
<1>5. PICK n \in 0 .. Len(g) - 1 : file' = file \o SubSeq(g, 1, n)
  BY <1>2 DEF WritesPart
<1> HIDE DEF p
<1>6. g \in Seq(Field) /\ (~req.raw => Len(g) = 4)
  BY <1>3, <1>4, FrameFields
<1> HIDE DEF g
<1>7. SubSeq(g, 1, n) \in Seq(Field) /\ Len(SubSeq(g, 1, n)) = n /\ n < Len(g) /\ n \in Nat
  <2>1. n \in 0 .. Len(g)
    BY <1>6
  <2> QED
    BY <1>6, <2>1, CutType
<1>8. file' \in Seq(Field)
  BY <1>3, <1>5, <1>7
<1>9. ASSUME ~req.raw
      PROVE  /\ Len(file') < From + 4 * (Len(made) + 1)
             /\ \A i \in 1 .. Len(made) :
                   From + 4 * i <= Len(file') => file'[From + 4 * i].pts = made[i]
  <2>1. pc \in {"encoded", "flush"}
    BY <1>2 DEF Packet
  <2> DEFINE c == SubSeq(g, 1, n)
  <2>2. c \in Seq(Field) /\ Len(c) = n /\ n < 4 /\ n \in Nat /\ file' = file \o c
    BY <1>5, <1>6, <1>7, <1>9
  <2> HIDE DEF c
  <2>3. Len(c) <= 4 /\ Len(c) # 4
    BY <2>2
  <2>4. /\ Len(file') = From + 4 * Len(made) + n
        /\ \A i \in 1 .. Len(made) : file'[From + 4 * i].pts = made[i]
    BY <1>4, <1>9, <2>1, <2>2, <2>3, FileGrows
  <2>5. From \in Nat /\ Len(made) \in Nat
    BY <1>1, HeaderFields DEF TypeOK, From
  <2>6. From + 4 * Len(made) + n < From + 4 * (Len(made) + 1)
    BY <2>2, <2>5
  <2> QED
    BY <2>4, <2>6
<1>10. /\ UNCHANGED <<req, pts, left, length, made>> /\ pc' = "raised"
       /\ queue' = RemoveAt(queue, k)
  BY <1>2 DEF WriteFails, Packet, Goto
<1> QED
  BY <1>8, <1>9, <1>10, EndsEarly
LEMMA EncodeInv == ASSUME Inv, Encode PROVE Inv'
<1>1. TypeOK /\ FileOK /\ AudioOK /\ VideoOK /\ pc = "loop" /\ pc' = "encoded" /\ ~Done
  BY DEF Inv, Encode, Goto
<1>2. /\ pts \in Nat /\ left \in Int /\ length \in Nat /\ queue \in Seq(Nat) /\ made \in Seq(Int)
      /\ req \in Requests
      /\ Len(queue) \in Nat /\ Len(made) \in Nat
  BY <1>1 DEF TypeOK
<1>3. /\ req' = req /\ file' = file /\ made' = made
      /\ length' = IF Audio /\ left > 0 /\ left < length THEN left ELSE length
      /\ left' = IF Audio /\ left > 0 THEN left - length' ELSE left
      /\ pts' = pts + length' /\ queue' = Append(queue, pts)
  BY DEF Encode
<1>4. length' \in Nat /\ left' \in Int /\ pts' \in Nat
  BY <1>2, <1>3
<1>5. /\ queue' \in Seq(Nat) /\ Len(queue') = Len(queue) + 1
      /\ queue'[Len(queue) + 1] = pts /\ \A j \in 1 .. Len(queue) : queue'[j] = queue[j]
  BY <1>2, <1>3
<1>6. TypeOK'
  BY <1>1, <1>3, <1>4, <1>5 DEF TypeOK
<1>7. From' = From /\ Audio' = Audio
  BY <1>3 DEF From, Audio
<1>8. FileOK'
  BY <1>1, <1>3, <1>7 DEF FileOK, Clean
<1>9. Begun \in Nat /\ Begun' = Begun + 1 /\ Begun = Len(made) + Len(queue)
  BY <1>2, <1>3, <1>5 DEF Begun
<1>10. \A p : Stamp(p)' = Stamp(p)
  BY <1>3 DEF Stamp, Audio
<1>11. AudioOK'
  <2> SUFFICES ASSUME Audio PROVE AudioOK'
    BY <1>7 DEF AudioOK
  <2>1. /\ \A k \in 1 .. Len(made) : made[k] = Stamp(FrameSize * (k - 1))
        /\ \A j \in 1 .. Len(queue) : queue[j] = FrameSize * (Len(made) + j - 1)
        /\ left # 0 => pts = FrameSize * Begun /\ length = FrameSize
        /\ IF req.samples < 0 THEN left = req.samples ELSE left >= 0 /\ left = req.samples - pts
    BY <1>1 DEF AudioOK, Live
  <2>2. /\ FrameSize \in Nat \ {0} /\ Rate \in Nat \ {0}
        /\ req.samples \in Int /\ req.duration \in Int /\ req.duration * Rate \in Int
    BY <1>2, RequestType, SizesAssumption
  <2>3. left # 0 /\ (req.duration > 0 => pts < req.duration * Rate)
    BY <1>1, <1>2, <2>2 DEF Done
  <2>4. pts = FrameSize * Begun /\ length = FrameSize
    BY <2>1, <2>3
  <2>5. FrameSize * (Begun + 1) = pts + FrameSize /\ (Begun + 1) - 1 = Begun
    BY <1>9, <2>2, <2>4
  <2>6. length' > 0 /\ length' <= FrameSize
    BY <1>2, <1>3, <2>2, <2>4
  <2>7. \A j \in 1 .. Len(queue') : queue'[j] = FrameSize * (Len(made) + j - 1)
    <3> TAKE j \in 1 .. Len(queue')
    <3>0. j \in 1 .. Len(queue) \/ j = Len(queue) + 1
      BY <1>2, <1>5
    <3>1. CASE j \in 1 .. Len(queue)
      BY <1>5, <2>1, <3>1
    <3>2. CASE j = Len(queue) + 1
      <4>1. Len(made) + j - 1 = Begun
        BY <1>2, <1>9, <3>2
      <4> QED
        BY <1>5, <2>4, <3>2, <4>1
    <3> QED
      BY <3>0, <3>1, <3>2
  <2>8. left' # 0 => length' = FrameSize
    BY <1>2, <1>3, <2>2, <2>4
  <2>9. IF req.samples < 0 THEN left' = req.samples ELSE left' >= 0 /\ left' = req.samples - pts'
    BY <1>2, <1>3, <2>1, <2>2, <2>3
  <2>10. pts' <= FrameSize * Begun' /\ pts' > FrameSize * (Begun' - 1)
    BY <1>2, <1>3, <1>4, <1>9, <2>2, <2>4, <2>5, <2>6
  <2>11. left' # 0 => pts' = FrameSize * Begun'
    BY <1>3, <1>9, <2>5, <2>8
  <2>12. req.duration > 0 => FrameSize * (Begun' - 1) < req.duration * Rate
    BY <1>9, <2>3, <2>4, <2>5
  <2> QED
    BY <1>1, <1>3, <1>7, <1>10, <2>1, <2>7, <2>8, <2>9, <2>10, <2>11, <2>12 DEF AudioOK
<1>12. VideoOK'
  <2> SUFFICES ASSUME ~Audio PROVE VideoOK'
    BY <1>7 DEF VideoOK
  <2>1. /\ length = 1 /\ Begun = pts /\ Len(queue) <= Delay
        /\ \A t \in 0 .. pts - 1 :
              (\E k \in 1 .. Len(made) : made[k] = t) \/ (\E k \in 1 .. Len(queue) : queue[k] = t)
    BY <1>1 DEF VideoOK, Live
  <2>2. length' = 1 /\ pts' = pts + 1 /\ Begun' = pts'
    BY <1>3, <1>9, <2>1
  <2>3. ASSUME NEW t \in 0 .. pts' - 1
        PROVE  (\E k \in 1 .. Len(made) : made[k] = t) \/ (\E k \in 1 .. Len(queue') : queue'[k] = t)
    <3>1. CASE t = pts
      <4>1. Len(queue) + 1 \in 1 .. Len(queue') /\ queue'[Len(queue) + 1] = pts
        BY <1>2, <1>5
      <4> QED
        BY <3>1, <4>1
    <3>2. CASE t # pts
      <4>1. t \in 0 .. pts - 1
        BY <1>2, <2>2, <3>2
      <4>2. ASSUME NEW k \in 1 .. Len(queue), queue[k] = t
            PROVE  k \in 1 .. Len(queue') /\ queue'[k] = t
        BY <1>2, <1>5, <4>2
      <4> QED
        BY <2>1, <4>1, <4>2
    <3> QED
      BY <3>1, <3>2
  <2>4. Len(queue') <= Delay + 1
    BY <1>2, <1>5, <2>1, SizesAssumption
  <2> QED
    BY <1>1, <1>3, <2>2, <2>3, <2>4 DEF VideoOK
<1> QED
  BY <1>1, <1>6, <1>8, <1>11, <1>12 DEF Inv

LEMMA WritePacketInv == ASSUME Inv, WritePacket PROVE Inv'
<1>1. TypeOK /\ FileOK /\ AudioOK /\ VideoOK
  BY DEF Inv
<1>2. PICK k \in DOMAIN queue : /\ Packet(k)
                                /\ Writes(Frame(Stamp(queue[k]), req.raw))
                                /\ made' = Append(made, Stamp(queue[k]))
  BY DEF WritePacket
<1> DEFINE p == Stamp(queue[k])
           g == Frame(p, req.raw)
<1>3. /\ pts \in Nat /\ left \in Int /\ length \in Nat /\ queue \in Seq(Nat) /\ made \in Seq(Int)
      /\ req \in Requests /\ req.raw \in BOOLEAN /\ file \in Seq(Field)
      /\ Len(queue) \in Nat /\ Len(made) \in Nat /\ k \in 1 .. Len(queue)
      /\ From \in Nat
  BY <1>1, RequestType, HeaderFields DEF TypeOK, From
<1>4. queue[k] \in Nat /\ p \in Int
  BY <1>3, StampType
<1>5. /\ req' = req /\ pts' = pts /\ left' = left /\ length' = length
      /\ pc \in {"encoded", "flush"} /\ (Audio => k = 1)
      /\ pc' = IF pc = "encoded" THEN "loop" ELSE "flush"
      /\ queue' = RemoveAt(queue, k) /\ file' = file \o g /\ made' = Append(made, p)
  BY <1>2 DEF WritePacket, Packet, Writes, Goto, After
<1>6. g \in Seq(Field) /\ (~req.raw => Len(g) = 4 /\ g[4].pts = p)
  <2> HIDE DEF p
  <2> QED
    BY <1>3, <1>4, FrameFields
<1>7. /\ queue' \in Seq(Nat) /\ Len(queue') = Len(queue) - 1
      /\ \A i \in 1 .. Len(queue) - 1 : queue'[i] = IF i < k THEN queue[i] ELSE queue[i + 1]
  BY <1>3, <1>5, RemoveType
<1>8. p = Stamp(queue[k])
  OBVIOUS
<1> HIDE DEF p, g
<1>9. /\ made' \in Seq(Int) /\ Len(made') = Len(made) + 1
      /\ made'[Len(made) + 1] = p /\ \A i \in 1 .. Len(made) : made'[i] = made[i]
  BY <1>3, <1>4, <1>5
<1>10. TypeOK'
  BY <1>1, <1>3, <1>5, <1>6, <1>7, <1>9 DEF TypeOK
<1>11. /\ From' = From /\ Audio' = Audio /\ Done' = Done
       /\ Begun' = Begun /\ Begun \in Nat
  BY <1>3, <1>5, <1>7, <1>9 DEF From, Audio, Done, Begun
<1>12. FileOK'
  <2> SUFFICES ASSUME ~req.raw
               PROVE  /\ Len(file') = From + 4 * Len(made')
                      /\ \A i \in 1 .. Len(made') : file'[From + 4 * i].pts = made'[i]
    BY <1>3, <1>5, <1>9, <1>11 DEF FileOK
  <2>0. Len(g) = 4 /\ g[4].pts = p
    BY <1>6, Zenon
  <2>1. Len(g) <= 4
    BY <2>0
  <2>2. /\ Len(file') = From + 4 * Len(made) + 4
        /\ \A i \in 1 .. Len(made) : file'[From + 4 * i].pts = made[i]
        /\ file'[From + 4 * (Len(made) + 1)].pts = p
    BY <1>4, <1>5, <1>6, <2>0, <2>1, FileGrows
  <2>3. ASSUME NEW i \in 1 .. Len(made') PROVE file'[From + 4 * i].pts = made'[i]
    <3>0. i \in 1 .. Len(made) \/ i = Len(made) + 1
      BY <1>3, <1>9
    <3>1. CASE i \in 1 .. Len(made)
      BY <1>9, <2>2, <3>1
    <3>2. CASE i = Len(made) + 1
      BY <1>9, <2>2, <3>2
    <3> QED
      BY <3>0, <3>1, <3>2
  <2> QED
    BY <1>3, <1>9, <2>2, <2>3
<1>13. \A n : Stamp(n)' = Stamp(n)
  BY <1>5 DEF Stamp, Audio
<1>14. AudioOK'
  <2> SUFFICES ASSUME Audio PROVE AudioOK'
    BY <1>11 DEF AudioOK
  <2>1. /\ \A i \in 1 .. Len(made) : made[i] = Stamp(FrameSize * (i - 1))
        /\ \A j \in 1 .. Len(queue) : queue[j] = FrameSize * (Len(made) + j - 1)
        /\ pts <= FrameSize * Begun
        /\ Begun > 0 => pts > FrameSize * (Begun - 1)
        /\ left # 0 => pts = FrameSize * Begun /\ length = FrameSize
        /\ IF req.samples < 0 THEN left = req.samples ELSE left >= 0 /\ left = req.samples - pts
        /\ req.duration > 0 /\ Begun > 0 => FrameSize * (Begun - 1) < req.duration * Rate
        /\ pc = "flush" => Done
    BY <1>1, <1>5 DEF AudioOK, Live
  <2>2. k = 1 /\ p = Stamp(FrameSize * Len(made))
    <3>1. Len(made) + 1 - 1 = Len(made)
      BY <1>3
    <3> QED
      BY <1>3, <1>5, <1>8, <2>1, <3>1
  <2>3. ASSUME NEW i \in 1 .. Len(made') PROVE made'[i] = Stamp(FrameSize * (i - 1))
    <3>0. i \in 1 .. Len(made) \/ i = Len(made) + 1
      BY <1>3, <1>9
    <3>1. CASE i \in 1 .. Len(made)
      BY <1>9, <2>1, <3>1
    <3>2. CASE i = Len(made) + 1
      <4>1. i - 1 = Len(made)
        BY <1>3, <3>2
      <4> QED
        BY <1>9, <2>2, <3>2, <4>1
    <3> QED
      BY <3>0, <3>1, <3>2
  <2>4. ASSUME NEW j \in 1 .. Len(queue') PROVE queue'[j] = FrameSize * (Len(made') + j - 1)
    <3>1. j \in Int /\ 1 <= j /\ j <= Len(queue) - 1
      BY <1>3, <1>7
    <3>2. j + 1 \in 1 .. Len(queue) /\ j \in 1 .. Len(queue) - 1 /\ ~(j < k)
      BY <1>3, <2>2, <3>1
    <3>3. queue'[j] = queue[j + 1]
      BY <1>7, <3>2
    <3>4. Len(made) + (j + 1) - 1 = Len(made') + j - 1
      BY <1>3, <1>9, <3>1
    <3> QED
      BY <2>1, <3>2, <3>3, <3>4
  <2>5. pc' # "returned"
    BY <1>5
  <2> QED
    BY <1>5, <1>11, <1>13, <2>1, <2>3, <2>4, <2>5 DEF AudioOK
<1>15. VideoOK'
  <2> SUFFICES ASSUME ~Audio PROVE VideoOK'
    BY <1>11 DEF VideoOK
  <2>1. /\ pc = "encoded" /\ length = 1 /\ Begun = pts /\ Len(queue) <= Delay + 1
        /\ \A t \in 0 .. pts - 1 :
              (\E i \in 1 .. Len(made) : made[i] = t) \/ (\E i \in 1 .. Len(queue) : queue[i] = t)
    BY <1>1, <1>5 DEF VideoOK, Live
  <2>2. p = queue[k]
    BY <1>8 DEF Stamp
  <2>3. ASSUME NEW t \in 0 .. pts - 1
        PROVE  (\E i \in 1 .. Len(made') : made'[i] = t) \/ (\E i \in 1 .. Len(queue') : queue'[i] = t)
    <3>1. CASE \E i \in 1 .. Len(made) : made[i] = t
      <4>1. PICK i \in 1 .. Len(made) : made[i] = t
        BY <3>1
      <4>2. i \in 1 .. Len(made') /\ made'[i] = t
        BY <1>3, <1>9, <4>1
      <4> QED
        BY <4>2
    <3>2. ASSUME NEW i \in 1 .. Len(queue), queue[i] = t
          PROVE  (\E j \in 1 .. Len(made') : made'[j] = t) \/ (\E j \in 1 .. Len(queue') : queue'[j] = t)
      <4>1. CASE i < k
        <5>1. i \in 1 .. Len(queue') /\ queue'[i] = t
          BY <1>3, <1>7, <3>2, <4>1
        <5> QED
          BY <5>1
      <4>2. CASE i = k
        <5>1. Len(made) + 1 \in 1 .. Len(made') /\ made'[Len(made) + 1] = t
          BY <1>3, <1>9, <2>2, <3>2, <4>2
        <5> QED
          BY <5>1
      <4>3. CASE i > k
        <5>1. i - 1 \in 1 .. Len(queue) - 1 /\ ~(i - 1 < k) /\ (i - 1) + 1 = i
          BY <1>3, <4>3
        <5>2. i - 1 \in 1 .. Len(queue') /\ queue'[i - 1] = t
          BY <1>7, <3>2, <5>1
        <5> QED
          BY <5>2
      <4> QED
        BY <1>3, <4>1, <4>2, <4>3
    <3> QED
      BY <2>1, <3>1, <3>2
  <2>4. Len(queue') <= Delay /\ pc' = "loop"
    BY <1>3, <1>5, <1>7, <2>1, SizesAssumption
  <2> QED
    BY <1>5, <1>11, <2>1, <2>3, <2>4 DEF VideoOK
<1> QED
  BY <1>1, <1>5, <1>10, <1>12, <1>14, <1>15 DEF Inv

\* The generator's invariant: types, what is in the file, and how far samples are numbered.
THEOREM GenInvariant == Spec => []Inv
<1>1. ASSUME Inv, [Next]_vars PROVE Inv'
  <2>1. CASE UNCHANGED vars
    <3>1. /\ req' = req /\ pts' = pts /\ left' = left /\ length' = length
          /\ queue' = queue /\ file' = file /\ made' = made /\ pc' = pc
      BY <2>1 DEF vars
    <3>2. From' = From /\ Audio' = Audio /\ Begun' = Begun /\ Done' = Done
      BY <3>1 DEF From, Audio, Begun, Done
    <3>3. \A p : Stamp(p)' = Stamp(p)
      BY <3>1 DEF Stamp, Audio
    <3>4. TypeOK' /\ FileOK' /\ VideoOK'
      BY <1>1, <3>1, <3>2 DEF Inv, TypeOK, FileOK, VideoOK
    <3>5. AudioOK'
      BY <1>1, <3>1, <3>2, <3>3 DEF Inv, AudioOK
    <3> QED
      BY <1>1, <3>1, <3>4, <3>5 DEF Inv
  <2>2. CASE Step
    BY <1>1, <2>2, StillInv, WriteHeaderInv, HeaderFailsInv, EncodeInv, WritePacketInv, WriteFailsInv
       DEF Step
  <2>3. CASE Dies
    BY <1>1, <2>3, DiesInv
  <2> QED
    BY <1>1, <2>1, <2>2, <2>3 DEF Next
<1> QED
  BY <1>1, InitInv, PTL DEF Spec
-----------------------------------------------------------------------------
(***************************************************************************)
(* What a file reads back as.                                              *)
(***************************************************************************)
LEMMA ReadsBeginning ==
    ASSUME Inv, ~req.raw, req.header => HeaderReads(file)
    PROVE  /\ ReadBack \in Seq(Int) /\ Len(ReadBack) \in 0 .. Len(made)
           /\ \A k \in 1 .. Len(ReadBack) : ReadBack[k] = made[k]
           /\ pc \in Clean => Len(ReadBack) = Len(made)
<1>1. TypeOK /\ FileOK
  BY DEF Inv
<1>2. /\ file \in Seq(Field) /\ made \in Seq(Int) /\ Len(file) \in Nat /\ Len(made) \in Nat
      /\ From \in Nat
  BY <1>1, HeaderFields DEF TypeOK, From
<1>3. From <= Len(file)
  BY <1>2, HeaderFields DEF From, HeaderReads
<1>4. /\ pc \in Clean => Len(file) = From + 4 * Len(made)
      /\ Len(file) < From + 4 * (Len(made) + 1)
      /\ \A k \in 1 .. Len(made) : From + 4 * k <= Len(file) => file[From + 4 * k].pts = made[k]
  BY <1>1 DEF FileOK
<1> DEFINE n == (Len(file) - From) \div 4
<1>5. /\ n \in 0 .. Len(made) /\ From + 4 * n <= Len(file)
      /\ pc \in Clean => n = Len(made)
  BY <1>2, <1>3, <1>4
<1>6. ReadBack = [k \in 1 .. n |-> file[From + 4 * k].pts]
  <2>1. NbRead(file, From) = n
    BY <1>2, <1>3 DEF NbRead
  <2> QED
    BY <2>1 DEF ReadBack, ReadFrames
<1> HIDE DEF n
<1>7. \A k \in 1 .. n : k \in 1 .. Len(made) /\ file[From + 4 * k].pts = made[k]
  BY <1>2, <1>4, <1>5
<1>8. \A k \in 1 .. n : made[k] \in Int
  BY <1>2, <1>7
<1>9. ReadBack = [k \in 1 .. n |-> made[k]]
  BY <1>6, <1>7
<1>10. ReadBack \in Seq(Int) /\ Len(ReadBack) = n
  BY <1>2, <1>5, <1>8, <1>9
<1> QED
  BY <1>5, <1>9, <1>10

\* Division by a number that is not 0 has one result.
LEMMA Quotient ==
    ASSUME NEW s \in Nat, s > 0, NEW q \in Nat, NEW r \in 0 .. s - 1
    PROVE  (q * s + r) \div s = q
<1> DEFINE x == q * s + r
           d == x \div s
<1>1. x \in Nat
  <2>1. q * s \in Nat
    OBVIOUS
  <2> QED
    BY <2>1
<1>2. d \in Nat /\ x = s * d + (x % s) /\ x % s \in 0 .. s - 1
  <2> HIDE DEF x
  <2> QED
    BY <1>1
<1>3. \A a, b \in Nat : a < b => a * s + s <= b * s
  <2> TAKE a, b \in Nat
  <2>1. \A u, v, w \in Nat : u <= v => u * w <= v * w
    OBVIOUS
  <2>2. a < b => (a + 1) * s <= b * s
    BY <2>1
  <2>3. (a + 1) * s = a * s + s
    OBVIOUS
  <2> QED
    BY <2>2, <2>3
<1>4. q * s \in Nat /\ d * s \in Nat /\ s * d = d * s /\ x = q * s + r
  BY <1>2
<1> HIDE DEF x, d
<1>5. d = q
  BY <1>2, <1>3, <1>4
<1> QED
  BY <1>5 DEF x, d

\* Frames(n) is how many frames n samples need.
LEMMA FramesNeeded ==
    ASSUME NEW n \in Int, NEW q \in Nat, n <= FrameSize * q, n > FrameSize * (q - 1)
    PROVE  Frames(n) = q
<1>1. FrameSize \in Nat /\ FrameSize > 0
  BY SizesAssumption
<1> DEFINE r == n + FrameSize - 1 - q * FrameSize
<1>2. FrameSize * q = q * FrameSize /\ FrameSize * (q - 1) = q * FrameSize - FrameSize /\ q * FrameSize \in Nat
  BY <1>1
<1>3. r \in 0 .. FrameSize - 1
  BY <1>1, <1>2
<1>4. q * FrameSize + r = n + FrameSize - 1
  BY <1>1, <1>2
<1> HIDE DEF r
<1>5. (q * FrameSize + r) \div FrameSize = q
  BY <1>1, <1>3, Quotient
<1> QED
  BY <1>4, <1>5 DEF Frames

LEMMA AudioIsAsked ==
    ASSUME Inv, Audio, pc = "returned", req.valid
    PROVE  pts = Asked /\ made = [k \in 1 .. Frames(Asked) |-> Stamp(FrameSize * (k - 1))]
<1>1. TypeOK /\ AudioOK
  BY DEF Inv
<1> DEFINE n == Len(made)
           limit == req.duration * Rate
<1>2. /\ pts \in Nat /\ left \in Int /\ made \in Seq(Int) /\ n \in Nat
      /\ req.duration \in Int /\ req.samples \in Int /\ Rate \in Nat \ {0} /\ FrameSize \in Nat \ {0}
  BY <1>1, RequestType, SizesAssumption DEF TypeOK
<1>3. queue = <<>> /\ Done
  BY <1>1 DEF AudioOK, Live
<1>4. Begun = n
  BY <1>2, <1>3 DEF Begun
<1>5. /\ \A k \in 1 .. n : made[k] = Stamp(FrameSize * (k - 1))
      /\ pts <= FrameSize * n /\ (n > 0 => pts > FrameSize * (n - 1))
      /\ left # 0 => pts = FrameSize * n
      /\ IF req.samples < 0 THEN left = req.samples ELSE left >= 0 /\ left = req.samples - pts
      /\ req.duration > 0 /\ n > 0 => FrameSize * (n - 1) < limit
  BY <1>1, <1>4 DEF AudioOK, Live
<1>6. (req.duration > 0 /\ pts >= limit) \/ left = 0
  BY <1>3 DEF Done
<1>7. limit \in Int /\ (req.duration > 0 => limit > 0)
  BY <1>2
<1> HIDE DEF n, limit
<1>8. FrameSize * 0 = 0 /\ FrameSize * (0 - 1) < 0 /\ FrameSize * n \in Nat /\ FrameSize * (n - 1) \in Int
  BY <1>2
<1>9. pts > FrameSize * (n - 1)
  BY <1>2, <1>5, <1>8
<1>10. Frames(pts) = n
  BY <1>2, <1>5, <1>9, FramesNeeded
<1>11. pts = Asked
  <2>1. ByDuration = FrameSize * Frames(limit)
    BY DEF ByDuration, limit
  <2>2. CASE left = 0
    <3>1. req.samples >= 0 /\ pts = req.samples
      BY <1>2, <1>5, <2>2
    <3>2. ASSUME req.duration > 0 PROVE ByDuration >= req.samples
      <4>1. limit \in Int /\ Frames(limit) \in Nat /\ limit <= FrameSize * Frames(limit)
        <5> DEFINE u == limit + FrameSize - 1
        <5>1. u \in Nat /\ limit \in Int
          BY <1>2, <1>7, <3>2
        <5>2. u \div FrameSize \in Nat /\ u = FrameSize * (u \div FrameSize) + (u % FrameSize)
              /\ u % FrameSize \in 0 .. FrameSize - 1
          <6> HIDE DEF u
          <6> QED
            BY <1>2, <5>1
        <5>3. Frames(limit) = u \div FrameSize
          BY DEF Frames
        <5>4. FrameSize * (u \div FrameSize) \in Nat
          <6>1. \A a, b \in Nat : a * b \in Nat
            OBVIOUS
          <6>2. FrameSize \in Nat
            BY <1>2
          <6> QED
            BY <5>2, <6>1, <6>2, Zenon
        <5> DEFINE v == FrameSize * (u \div FrameSize)
                   w == u % FrameSize
        <5>5. u = v + w /\ w <= FrameSize - 1 /\ v \in Nat /\ w \in Nat
          BY <1>2, <5>2, <5>4
        <5> HIDE DEF v, w
        <5>6. limit <= v
          BY <1>2, <5>1, <5>5
        <5> QED
          BY <5>1, <5>2, <5>3, <5>6 DEF v
      <4>2. n <= Frames(limit)
        <5> SUFFICES ASSUME Frames(limit) <= n - 1, n > 0 PROVE FALSE
          BY <1>2, <4>1
        <5>1. \A a, b \in Int, c \in Nat : a <= b => c * a <= c * b
          OBVIOUS
        <5>2. FrameSize * Frames(limit) <= FrameSize * (n - 1)
          <6>1. n - 1 \in Int /\ Frames(limit) \in Int /\ FrameSize \in Nat /\ Frames(limit) <= n - 1
            BY <1>2, <4>1
          <6> QED
            BY <5>1, <6>1, Zenon
        <5> DEFINE x == FrameSize * Frames(limit)
        <5>3. x \in Nat
          BY <1>2, <4>1
        <5> HIDE DEF x
        <5> QED
          BY <1>5, <1>7, <1>8, <3>2, <4>1, <5>2, <5>3 DEF x
      <4>3. FrameSize * n <= FrameSize * Frames(limit)
        <5>1. \A a, b \in Nat, c \in Nat : a <= b => c * a <= c * b
          OBVIOUS
        <5> QED
          BY <1>2, <4>1, <4>2, <5>1
      <4> DEFINE x == FrameSize * Frames(limit)
      <4>4. x \in Nat
        BY <1>2, <4>1
      <4> HIDE DEF x
      <4>5. req.samples <= x
        BY <1>2, <1>5, <1>8, <3>1, <4>3, <4>4 DEF x
      <4>6. ByDuration = x
        BY <2>1 DEF x
      <4> QED
        BY <1>2, <4>4, <4>5, <4>6
    <3>3. ASSUME req.duration > 0, ByDuration < req.samples PROVE FALSE
      <4>1. ByDuration >= req.samples
        BY <3>2, <3>3
      <4>2. ByDuration \in Int
        <5>1. limit + FrameSize - 1 \in Int
          BY <1>2, <1>7
        <5>2. Frames(limit) \in Int
          BY <1>2, <5>1 DEF Frames
        <5> QED
          BY <1>2, <2>1, <5>2
      <4> QED
        BY <1>2, <3>3, <4>1, <4>2
    <3> QED
      BY <1>2, <3>1, <3>3 DEF Asked
  <2>3. CASE left # 0
    <3>1. req.duration > 0 /\ pts >= limit /\ pts = FrameSize * n
      BY <1>5, <1>6, <2>3
    <3>2. n > 0
      BY <1>2, <1>7, <1>8, <3>1
    <3>3. limit <= FrameSize * n /\ limit > FrameSize * (n - 1)
      BY <1>2, <1>5, <1>7, <1>8, <3>1, <3>2
    <3>4. Frames(limit) = n
      BY <1>2, <1>7, <3>3, FramesNeeded
    <3>5. ByDuration = pts
      BY <2>1, <3>1, <3>4
    <3>6. req.samples < 0 \/ pts < req.samples
      BY <1>2, <1>5, <2>3
    <3> QED
      BY <3>1, <3>5, <3>6 DEF Asked
  <2> QED
    BY <2>2, <2>3
<1>12. made = [k \in 1 .. n |-> made[k]]
  BY <1>2 DEF n
<1> QED
  BY <1>5, <1>10, <1>11, <1>12

\* A file that holds its header reads back as a beginning of the frames written, wherever it
\* is cut, and when the call returns as all of them; of an audio they are all that was asked for,
\* of a video all but those still in the encoder.
THEOREM FramesAlwaysReadBack == Spec => []FramesReadBack
<1>1. ASSUME Inv PROVE FramesReadBack
  <2> SUFFICES ASSUME ~req.raw, req.header => HeaderReads(file)
               PROVE  /\ ~ReadRaises(file, From)
                      /\ IsPrefix(ReadBack, made)
                      /\ pc = "returned" /\ (Audio => req.valid) =>
                            /\ ReadBack = made
                            /\ IF Audio
                               THEN /\ pts = Asked
                                    /\ made = [k \in 1 .. Frames(Asked) |-> Stamp(FrameSize * (k - 1))]
                               ELSE /\ Len(made) >= req.duration * Rate - Delay
                                    /\ \A t \in 0 .. req.duration * Rate - 1 :
                                          \/ \E k \in DOMAIN made : made[k] = t
                                          \/ \E k \in DOMAIN queue : queue[k] = t
    BY Zenon DEF FramesReadBack
  <2>1. /\ ReadBack \in Seq(Int) /\ Len(ReadBack) \in 0 .. Len(made)
        /\ \A k \in 1 .. Len(ReadBack) : ReadBack[k] = made[k]
        /\ pc \in Clean => Len(ReadBack) = Len(made)
    BY <1>1, ReadsBeginning
  <2>2. /\ req \in Requests /\ made \in Seq(Int) /\ queue \in Seq(Nat) /\ pts \in Nat
        /\ Len(made) \in Nat /\ Len(queue) \in Nat
        /\ DOMAIN made = 1 .. Len(made) /\ DOMAIN queue = 1 .. Len(queue)
        /\ req.duration * Rate \in Int /\ Delay \in Nat
    BY <1>1, RequestType, SizesAssumption DEF Inv, TypeOK
  <2>3. ~ReadRaises(file, From)
    BY DEF ReadRaises, IsEof, Message
  <2>4. IsPrefix(ReadBack, made)
    <3> DEFINE r == ReadBack
               a == SubSeq(r, 1, Len(r))
               b == SubSeq(made, 1, Len(r))
    <3>1. Len(r) \in Nat /\ Len(r) <= Len(made)
      BY <2>1, <2>2
    <3>2. r \in Seq(Int) /\ \A k \in 1 .. Len(r) : r[k] = made[k]
      BY <2>1
    <3> HIDE DEF r
    <3>3. a = [k \in 1 .. Len(r) |-> r[k]] /\ b = [k \in 1 .. Len(r) |-> made[k]]
      BY <2>2, <3>1, <3>2
    <3>4. a = b
      BY <3>2, <3>3
    <3> QED
      BY <3>1, <3>4 DEF IsPrefix, r
  <2>5. ASSUME pc = "returned" PROVE ReadBack = made
    <3>1. Len(ReadBack) = Len(made)
      BY <2>1, <2>5 DEF Clean
    <3>2. ReadBack = [k \in 1 .. Len(made) |-> ReadBack[k]] /\ made = [k \in 1 .. Len(made) |-> made[k]]
      BY <2>1, <2>2, <3>1
    <3> QED
      BY <2>1, <3>1, <3>2
  <2>6. ASSUME pc = "returned", ~Audio
        PROVE  /\ Len(made) >= req.duration * Rate - Delay
               /\ \A t \in 0 .. req.duration * Rate - 1 :
                     (\E k \in DOMAIN made : made[k] = t) \/ (\E k \in DOMAIN queue : queue[k] = t)
    <3>1. /\ Begun = pts /\ Len(queue) <= Delay
          /\ \A t \in 0 .. pts - 1 :
                (\E k \in 1 .. Len(made) : made[k] = t) \/ (\E k \in 1 .. Len(queue) : queue[k] = t)
          /\ pts >= req.duration * Rate
      BY <1>1, <2>6 DEF Inv, VideoOK, Live, Done
    <3>2. Len(made) + Len(queue) = pts
      BY <3>1 DEF Begun
    <3> DEFINE limit == req.duration * Rate
    <3>3. limit \in Int /\ pts >= limit
      BY <2>2, <3>1
    <3> HIDE DEF limit
    <3>4. \A t \in 0 .. limit - 1 : t \in 0 .. pts - 1
      BY <2>2, <3>3
    <3>5. Len(made) >= limit - Delay
      BY <2>2, <3>1, <3>2, <3>3
    <3> QED
      BY <2>2, <3>1, <3>4, <3>5, Zenon DEF limit
  <2>7. ASSUME pc = "returned", Audio, req.valid
        PROVE  pts = Asked /\ made = [k \in 1 .. Frames(Asked) |-> Stamp(FrameSize * (k - 1))]
    BY <1>1, <2>7, AudioIsAsked
  <2> QED
    BY <2>3, <2>4, <2>5, <2>6, <2>7
<1> QED
  BY <1>1, GenInvariant, PTL

\* Frames of a file read twice over and made monotonic come one after the other and never
\* before their time, in whatever order the encoder gave them and wherever the file is cut.
THEOREM ReplayAlwaysRises == Spec => []ReplayRises
<1>1. ASSUME Inv PROVE ReplayRises
  <2> SUFFICES ASSUME ~req.raw, req.header => HeaderReads(file)
               PROVE  LET in == ReadBack \o ReadBack
                          out == Monotonic(in)
                      IN /\ Len(out) = Len(in)
                         /\ \A k \in 1 .. Len(out) - 1 : out[k] < out[k + 1]
                         /\ \A k \in DOMAIN out : in[k] <= out[k]
    BY Zenon DEF ReplayRises
  <2> DEFINE in == ReadBack \o ReadBack
  <2>1. in \in Seq(Int)
    BY <1>1, ReadsBeginning
  <2> HIDE DEF in
  <2>2. /\ Len(Monotonic(in)) = Len(in)
        /\ \A i \in 1 .. Len(in) - 1 : Monotonic(in)[i] < Monotonic(in)[i + 1]
        /\ \A i \in 1 .. Len(in) : in[i] <= Monotonic(in)[i]
        /\ DOMAIN Monotonic(in) = 1 .. Len(in)
    BY <2>1, MonotonicRises
  <2> QED
    BY <2>2 DEF in
<1> QED
  BY <1>1, GenInvariant, PTL
=============================================================================
