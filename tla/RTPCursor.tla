------------------------------ MODULE RTPCursor ------------------------------
(***************************************************************************)
(* rtp.RTPCursor: one position moved over an archive of several parts      *)
(* (files).  A part is read through an index of packet offsets that exists *)
(* only while the part is open; len(part), which the cursor compares its   *)
(* position with, is the length of that index and hence 0 for a closed     *)
(* part.  The cursor keeps the part it reads from (self.part) beside the   *)
(* position, and the two are assigned separately.                          *)
(*                                                                         *)
(* A part can be torn: the recorder died while writing its last packet.    *)
(* The index lists that packet (seeking past the end of a file succeeds),  *)
(* reading it ends the reader's generator, and an ended generator returns  *)
(* nothing more until the part is opened again ("spent").                  *)
(***************************************************************************)
EXTENDS Integers

CONSTANTS NbParts,    \* number of parts
          Archives,   \* the archives considered: [npkts, torn] records
          Targets,    \* arguments of absolute seeks
          Offsets     \* arguments of relative seeks

Parts == 0 .. NbParts - 1

ASSUME NbPartsAssumption == NbParts \in Nat \ {0}
ASSUME ArchivesAssumption ==
    Archives \subseteq [npkts : [Parts -> Nat], torn : SUBSET Parts]
ASSUME TargetsAssumption == Targets \subseteq Int \X Int
ASSUME OffsetsAssumption == Offsets \subseteq Int

VARIABLES npkts,      \* index length of each part once it is open
          torn,       \* parts whose last packet is cut short
          pos_part,   \* position: part number ...
          pos_pkt,    \* ... and packet number in it
          part,       \* the part self.part refers to
          reader,     \* state of each part's reader
          togo,       \* packets a relative seek still has to move, signed
          out         \* what the last call returned or raised

archive == <<npkts, torn>>
vars == <<npkts, torn, pos_part, pos_pkt, part, reader, togo, out>>

NoPacket == <<-1, -1>>
Got(p) == [res |-> "packet", pkt |-> p]
Stop == [res |-> "stop", pkt |-> NoPacket]                 \* StopIteration
IndexError == [res |-> "index_error", pkt |-> NoPacket]
Done == [res |-> "done", pkt |-> NoPacket]                 \* returned no packet

TypeOK ==
    /\ npkts \in [Parts -> Nat]
    /\ torn \subseteq Parts
    /\ pos_part \in Parts
    /\ pos_pkt \in Int
    /\ part \in Parts
    /\ reader \in [Parts -> {"closed", "open", "spent"}]
    /\ togo \in Int
    /\ out \in [res : {"packet", "stop", "index_error", "done"},
                pkt : Int \X Int]

Tell == <<pos_part, pos_pkt>>

\* len(part): the index is empty until the part is opened.
Length(r, p) == IF r[p] = "closed" THEN 0 ELSE npkts[p]

\* `if not part.is_opened: part.open()`
Opened(r, p) == [r EXCEPT ![p] = IF @ = "closed" THEN "open" ELSE @]

Close(r, p) == [r EXCEPT ![p] = "closed"]

\* Python indexes a list with -1 from its end.
Wrap(i, n) == IF i < 0 THEN n + i ELSE i

\* read_packets: the generator has ended, or ends at a packet that is cut short.
Ends(r, p, k) == r[p] = "spent" \/ (p \in torn /\ k = npkts[p] - 1)

\* part.packet(i) with the readers r: position the file, advance the generator.
ReadPacket(r, p, i) ==
    LET k == Wrap(i, npkts[p]) IN
    \/ /\ k \notin 0 .. npkts[p] - 1
       /\ reader' = r /\ out' = IndexError
    \/ /\ k \in 0 .. npkts[p] - 1 /\ Ends(r, p, k)
       /\ reader' = [r EXCEPT ![p] = "spent"] /\ out' = Stop
    \/ /\ k \in 0 .. npkts[p] - 1 /\ ~Ends(r, p, k)
       /\ reader' = r /\ out' = Got(<<p, k>>)

Init ==
    /\ \E a \in Archives : npkts = a.npkts /\ torn = a.torn
    /\ pos_part = 0 /\ pos_pkt = 0 /\ part = 0
    /\ reader = [p \in Parts |-> "closed"]
    /\ togo = 0
    /\ out = Done

Idle == togo = 0

(***************************************************************************)
(* current() and the two single steps.                                     *)
(***************************************************************************)
Current ==
    /\ Idle
    /\ ReadPacket(Opened(reader, part), part, pos_pkt)
    /\ UNCHANGED <<archive, pos_part, pos_pkt, part, togo>>

\* Slip: leaves a part one packet early.
CrossesEarly == ~(pos_pkt + 2 < Length(reader, part)) /\ pos_part + 1 < NbParts

\* _next(): at most one part boundary is crossed.  self.part has already moved
\* when the new position turns out to be no packet and is taken back.
Crosses == ~(pos_pkt + 1 < Length(reader, part)) /\ pos_part + 1 < NbParts

Advance ==
    /\ Idle
    /\ LET q == IF Crosses THEN pos_part + 1 ELSE part
           k == IF Crosses THEN 0 ELSE pos_pkt + 1
           r == Opened(reader, q)
       IN /\ part' = q
          /\ \/ /\ k < npkts[q]
                /\ pos_part' = IF Crosses THEN q ELSE pos_part
                /\ pos_pkt' = k
                /\ ReadPacket(r, q, k)
             \/ /\ ~(k < npkts[q])
                /\ reader' = r /\ out' = Stop
                /\ UNCHANGED <<pos_part, pos_pkt>>
    /\ UNCHANGED <<archive, togo>>

\* Slip: the packet read is the one the cursor stood on.
RetreatReadsOld ==
    /\ Idle /\ pos_pkt - 1 >= 0
    /\ pos_pkt' = pos_pkt - 1
    /\ ReadPacket(Opened(reader, part), part, pos_pkt)
    /\ UNCHANGED <<archive, pos_part, part, togo>>

\* _prev(): inside a part it steps and reads; before its first packet it walks
\* back over parts, opening each, to the last packet of one that has any.
RetreatInPart ==
    /\ Idle /\ pos_pkt - 1 >= 0
    /\ pos_pkt' = pos_pkt - 1
    /\ ReadPacket(Opened(reader, part), part, pos_pkt - 1)
    /\ UNCHANGED <<archive, pos_part, part, togo>>

OpenedFrom(q) ==
    [p \in Parts |-> IF p \in q .. pos_part - 1 /\ reader[p] = "closed"
                     THEN "open" ELSE reader[p]]

\* Slip: lands on the first packet of the part it goes back to.
RetreatToFirst(q) ==
    /\ Idle /\ pos_pkt - 1 < 0
    /\ q < pos_part /\ npkts[q] > 0
    /\ \A p \in q + 1 .. pos_part - 1 : npkts[p] = 0
    /\ pos_part' = q /\ pos_pkt' = 0 /\ part' = q
    /\ ReadPacket(OpenedFrom(q), q, 0)
    /\ UNCHANGED <<archive, togo>>

RetreatToPart(q) ==
    /\ Idle /\ pos_pkt - 1 < 0
    /\ q < pos_part /\ npkts[q] > 0
    /\ \A p \in q + 1 .. pos_part - 1 : npkts[p] = 0
    /\ pos_part' = q /\ pos_pkt' = npkts[q] - 1 /\ part' = q
    /\ ReadPacket(OpenedFrom(q), q, npkts[q] - 1)
    /\ UNCHANGED <<archive, togo>>

\* Nothing before: the position is restored, self.part stays on the first part.
RetreatFails ==
    /\ Idle /\ pos_pkt - 1 < 0
    /\ \A p \in 0 .. pos_part - 1 : npkts[p] = 0
    /\ part' = 0 /\ reader' = OpenedFrom(0) /\ out' = Stop
    /\ UNCHANGED <<archive, pos_part, pos_pkt, togo>>

Retreat == RetreatInPart \/ (\E q \in Parts : RetreatToPart(q)) \/ RetreatFails

(***************************************************************************)
(* seek((part, packet)).  The part left is closed last, which closes the   *)
(* target itself when the seek stays inside one part.                      *)
(***************************************************************************)
SeekTo(t) ==
    LET p == Wrap(t[1], NbParts)
        r == Opened(reader, p)
        k == Wrap(t[2], npkts[p])
    IN
    /\ Idle
    /\ \/ /\ t = Tell
          /\ out' = Done
          /\ UNCHANGED <<pos_part, pos_pkt, part, reader>>
       \/ /\ t # Tell /\ p \notin Parts
          /\ out' = IndexError
          /\ UNCHANGED <<pos_part, pos_pkt, part, reader>>
       \/ /\ t # Tell /\ p \in Parts /\ k \notin 0 .. npkts[p] - 1
          /\ out' = IndexError /\ reader' = r
          /\ UNCHANGED <<pos_part, pos_pkt, part>>
       \/ /\ t # Tell /\ p \in Parts /\ k \in 0 .. npkts[p] - 1
          /\ out' = Done
          /\ pos_part' = p /\ pos_pkt' = k /\ part' = p
          /\ reader' = IF Length(r, part) # 0 THEN Close(r, part) ELSE r
    /\ UNCHANGED <<archive, togo>>

(***************************************************************************)
(* seek(n): a loop that moves inside the part and then across a boundary.  *)
(* Crossing backward costs one packet; crossing forward adds one to what   *)
(* is left to move.  One action per iteration.                             *)
(***************************************************************************)
SeekBy(n) ==
    /\ Idle
    /\ togo' = n /\ out' = Done
    /\ UNCHANGED <<archive, pos_part, pos_pkt, part, reader>>

MinOf(a, b) == IF a < b THEN a ELSE b

BackInPart ==
    /\ togo < 0 /\ pos_pkt # 0
    /\ LET s == MinOf(pos_pkt, -togo)
       IN pos_pkt' = pos_pkt - s /\ togo' = togo + s
    /\ UNCHANGED <<archive, pos_part, part, reader, out>>

\* Slip: crossing a boundary costs nothing.
BackAcrossFree ==
    /\ togo < 0 /\ pos_pkt = 0 /\ pos_part # 0
    /\ pos_part' = pos_part - 1 /\ part' = pos_part - 1
    /\ reader' = Opened(reader, pos_part - 1)
    /\ pos_pkt' = npkts[pos_part - 1] - 1
    /\ UNCHANGED <<archive, togo, out>>

BackAcross ==
    /\ togo < 0 /\ pos_pkt = 0 /\ pos_part # 0
    /\ pos_part' = pos_part - 1 /\ part' = pos_part - 1
    /\ reader' = Opened(reader, pos_part - 1)
    /\ pos_pkt' = npkts[pos_part - 1] - 1
    /\ togo' = togo + 1
    /\ UNCHANGED <<archive, out>>

BackEnds ==
    /\ togo < 0 /\ pos_pkt = 0 /\ pos_part = 0
    /\ togo' = 0
    /\ UNCHANGED <<archive, pos_part, pos_pkt, part, reader, out>>

AtPartEnd == pos_pkt = Length(reader, part) - 1

AheadInPart ==
    /\ togo > 0 /\ ~AtPartEnd
    /\ LET s == MinOf(Length(reader, part) - pos_pkt - 1, togo)
       IN pos_pkt' = pos_pkt + s /\ togo' = togo - s
    /\ UNCHANGED <<archive, pos_part, part, reader, out>>

\* Slip: self.part is not moved along.
AheadKeepsPart ==
    /\ togo > 0 /\ AtPartEnd /\ pos_part # NbParts - 1
    /\ pos_part' = pos_part + 1
    /\ reader' = Opened(reader, pos_part + 1)
    /\ pos_pkt' = 0
    /\ togo' = togo + 1
    /\ UNCHANGED <<archive, part, out>>

AheadAcross ==
    /\ togo > 0 /\ AtPartEnd /\ pos_part # NbParts - 1
    /\ pos_part' = pos_part + 1 /\ part' = pos_part + 1
    /\ reader' = Opened(reader, pos_part + 1)
    /\ pos_pkt' = 0
    /\ togo' = togo + 1
    /\ UNCHANGED <<archive, out>>

\* Slip: the last part is not recognised.
AheadNeverEnds ==
    /\ togo > 0 /\ AtPartEnd /\ pos_part = NbParts
    /\ togo' = 0
    /\ UNCHANGED <<archive, pos_part, pos_pkt, part, reader, out>>

AheadEnds ==
    /\ togo > 0 /\ AtPartEnd /\ pos_part = NbParts - 1
    /\ togo' = 0
    /\ UNCHANGED <<archive, pos_part, pos_pkt, part, reader, out>>

SeekStep == \/ BackInPart \/ BackAcross \/ BackEnds
            \/ AheadInPart \/ AheadAcross \/ AheadEnds

(***************************************************************************)
(* Spec lets the caller make any call in any state.  ReadingSpec is the    *)
(* caller the package itself is: __iter__, slice, fastforward, rewind and  *)
(* interval read the current packet before they step on, so the part they  *)
(* step from is open.                                                      *)
(***************************************************************************)
Next ==
    \/ Current \/ Advance \/ Retreat
    \/ \E t \in Targets : SeekTo(t)
    \/ \E n \in Offsets : SeekBy(n)
    \/ SeekStep

HasRead == reader[part] # "closed"

ReadingNext ==
    \/ Current \/ (HasRead /\ Advance) \/ Retreat
    \/ \E t \in Targets : SeekTo(t)
    \/ \E n \in Offsets : HasRead /\ SeekBy(n)
    \/ SeekStep

Spec == Init /\ [][Next]_vars
ReadingSpec == Init /\ [][ReadingNext]_vars
FairSpec == Spec /\ WF_vars(SeekStep)

-----------------------------------------------------------------------------
(***************************************************************************)
(* Properties.  Tape is the archive as its caller sees it.                 *)
(***************************************************************************)
Returned == IF out.res = "stop" THEN <<-2, -2>> ELSE out.pkt

Tape == INSTANCE PacketTape WITH head <- Tell, got <- Returned

\* The position never points past the packets of its part: it is a packet, or
\* packet 0 or -1 of a part that has none or is closed (_next, _prev and seek
\* each keep it so, in whatever order they are called).
InBounds ==
    /\ -1 <= pos_pkt
    /\ pos_pkt < npkts[pos_part] \/ pos_pkt = 0

\* self.part and the position can disagree, after a _next or _prev that moved
\* self.part and then took the position back; the part left in self.part then
\* has no packets at all.
StalePartIsEmpty == part # pos_part => npkts[part] = 0

\* Position and part read from are sound together: neither is kept so without the
\* other, as both are assigned separately and compared with each other.
PositionIsSound == InBounds /\ StalePartIsEmpty

\* A packet handed out by current, _next or _prev is the one at the position
\* tell() reports, except that position -1 reads the last packet of the part.
PacketIsFromPosition ==
    out.res = "packet" => out.pkt = Tell \/ (pos_pkt = -1 /\ out.pkt[1] = pos_part)

\* _prev goes to the packet right before the position whatever is closed, empty
\* or torn, and stays where it is only when there is no packet before it.
PrevIsPredecessor ==
    [][Retreat => \/ Tape!IsPosition(Tell') /\ Tape!Adjacent(Tell', Tell)
                  \/ Tape!IsFirstPacket(Tell) /\ Tell' = Tell /\ out' = Stop]_vars

\* _next from a part that has been read, when the part after it has packets,
\* goes to the packet right after the position and stays only at the last one.
NextIsSuccessor ==
    [][/\ Advance /\ HasRead /\ part = pos_part
       /\ pos_part + 1 \in Parts => npkts[pos_part + 1] > 0
       => \/ Tape!IsPosition(Tell') /\ Tape!Adjacent(Tell, Tell')
          \/ Tape!IsLastPacket(Tell) /\ Tell' = Tell /\ out' = Stop]_vars

\* The number of packets before a part, and before a position.
InPartsBefore[p \in Parts] == IF p = 0 THEN 0 ELSE InPartsBefore[p - 1] + npkts[p - 1]
Rank(p) == InPartsBefore[p[1]] + IF p[2] < 0 THEN 0 ELSE p[2]

\* What a backward seek has to move: it takes a packet off for crossing into a part
\* without packets too, at packet -1, and puts it back with its next step.
Owing == togo - (IF pos_pkt < 0 THEN 1 ELSE 0)

\* seek(-n) moves as many packets back as it takes off what it has to move, across
\* boundaries and empty parts.  When it is over it stands on a packet, the n-th before
\* the one it began on; or at -1 of a part without packets, one short of that, from
\* where the next seek back would go one further; or it would have gone beyond the
\* start of the archive and stands there.
BackSeekIsExact ==
    [][togo < 0 =>
         \/ /\ Rank(Tell') + Owing' = Rank(Tell) + Owing
            /\ togo' = 0 => \/ Tape!IsPosition(Tell')
                            \/ npkts[pos_part'] = 0 /\ pos_pkt' = -1
         \/ Tell = <<0, 0>> /\ Tell' = Tell /\ togo' = 0]_vars

\* A relative seek ends, although crossing a part forward adds to what is left.
SeekEnds == (togo # 0) ~> Idle

\* For a caller that reads before it steps, over parts that are neither empty
\* nor torn, the cursor is a tape.
ImplementsTape == Tape!Spec
=============================================================================
