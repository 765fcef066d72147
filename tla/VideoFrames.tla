----------------------------- MODULE VideoFrames -----------------------------
(***************************************************************************)
(* frame.VideoFrames: grouping the packets of an RTP source into video     *)
(* frames.                                                                 *)
(*                                                                         *)
(* The iterator reads one packet ahead (self.packet): a frame ends at the  *)
(* packet that starts the next one.  Packets may be missing, since RTP     *)
(* loses them, and the source may raise; its generator is then finished.   *)
(***************************************************************************)
EXTENDS Integers, Sequences

CONSTANT Inputs     \* what the sources yield, and before which packet they raise

PacketType == [frame : Int, start : BOOLEAN, key : BOOLEAN]

\* A source that yields packets and, at the end of them or before packet `raises',
\* raises; or does not, where that is further on.
SourceType == [pkts : Seq(PacketType), raises : Nat \ {0}]

ASSUME InputsAssumption == Inputs \subseteq SourceType

VARIABLES input,    \* the source: its packets and where it raises
          packet,   \* number of self.packet in the source, 0 for None
          taken,    \* packets taken from the source
          ended,    \* the source's generator is finished
          frames,   \* frames yielded so far
          pc        \* "new", "ready", or how the last call of next() ended

vars == <<input, packet, taken, ended, frames, pc>>

Packets == 1 .. Len(input.pkts)
IsStart(i) == input.pkts[i].start
\* VP8Payload.is_key_frame: false for a packet that does not start a frame.
IsKey(i) == input.pkts[i].start /\ input.pkts[i].key

TypeOK ==
    /\ input \in SourceType
    /\ packet \in 0 .. Len(input.pkts) /\ taken \in 0 .. Len(input.pkts)
    /\ ended \in BOOLEAN
    /\ frames \in Seq([from : Packets, to : Packets])
    /\ pc \in {"new", "ready", "stop", "raised", "type_error", "failed"}

Init ==
    /\ input \in Inputs
    /\ packet = 0 /\ taken = 0 /\ ended = FALSE
    /\ frames = <<>> /\ pc = "new"

Least(S) == CHOOSE i \in S : \A j \in S : i <= j

\* `for packet in self.packets` until a packet of the set Wanted: where the loop
\* ends, 0 when the source does, -1 when it raises.
Search(from, Wanted) ==
    LET found == { i \in from .. Len(input.pkts) : i \in Wanted }
        at == IF found = {} THEN Len(input.pkts) + 1 ELSE Least(found)
    IN IF ended THEN 0
       ELSE IF from <= input.raises /\ input.raises <= at THEN -1
       ELSE IF found = {} THEN 0 ELSE at

\* Packets taken and what is left of the generator after a search ended at e.
Take(e) ==
    /\ taken' = IF e > 0 THEN e
                ELSE IF e = -1 THEN input.raises - 1
                ELSE IF ended THEN taken ELSE Len(input.pkts)
    /\ ended' = (ended \/ e <= 0)

\* Slip: a frame ends only at a key frame.
KeyStarts == { i \in Packets : IsKey(i) }

Starts == { i \in Packets : IsStart(i) }
Keys == { i \in Packets : IsKey(i) }

\* __init__: the first packet, then the first that starts a frame, then the first
\* that starts a key frame; an exception of the source leaves no iterator.
Construct ==
    /\ pc = "new"
    /\ LET s == Search(taken + 1, Starts)
           k == IF s <= 0 \/ s \in Keys THEN s ELSE Search(s + 1, Keys)
       IN /\ Take(k)
          /\ packet' = IF k > 0 THEN k ELSE 0
          /\ pc' = IF k = -1 THEN "failed" ELSE "ready"
    /\ UNCHANGED <<input, frames>>

\* next() and _read_frame: a frame from self.packet up to the next start.
NextFrame ==
    /\ pc \notin {"new", "failed"} /\ packet # 0 /\ IsStart(packet)
    /\ LET e == Search(taken + 1, Starts) IN
       /\ Take(e)
       /\ IF e = -1
          THEN \* self.packet is the last packet read, the frame is lost
               /\ packet' = IF taken' > taken THEN taken' ELSE packet
               /\ pc' = "raised"
               /\ UNCHANGED frames
          ELSE /\ packet' = e
               /\ pc' = "ready"
               /\ frames' = Append(frames, [from |-> packet,
                                            to |-> IF e = 0 THEN taken' ELSE e - 1])
    /\ UNCHANGED input

\* The branch that should drop packets up to a start iterates self.packet itself.
NextInsideFrame ==
    /\ pc \notin {"new", "failed"} /\ packet # 0 /\ ~IsStart(packet)
    /\ pc' = "type_error"
    /\ UNCHANGED <<input, packet, taken, ended, frames>>

NextStops ==
    /\ pc \notin {"new", "failed"} /\ packet = 0
    /\ pc' = "stop"
    /\ UNCHANGED <<input, packet, taken, ended, frames>>

Next == Construct \/ NextFrame \/ NextInsideFrame \/ NextStops

Spec == Init /\ [][Next]_vars

-----------------------------------------------------------------------------
(***************************************************************************)
(* Properties.                                                             *)
(***************************************************************************)
SourceRaised == ended /\ taken = input.raises - 1

\* The frames tile the packets: the first is the first key frame start, each begins
\* at a start and has no other start in it and, as long as the source has not raised,
\* right after the last one ended, and at the end no packet is left over.  next()
\* breaks only when the source raised in the middle of a frame and it is called again.
FramesTile ==
    /\ frames # <<>> => frames[1].from = Least(Keys)
    /\ \A f \in 1 .. Len(frames) :
         /\ IsStart(frames[f].from)
         /\ \A i \in frames[f].from + 1 .. frames[f].to : ~IsStart(i)
         /\ f > 1 /\ ~SourceRaised => frames[f].from = frames[f - 1].to + 1
    /\ pc = "stop" /\ Keys # {} /\ ~SourceRaised =>
         frames # <<>> /\ frames[Len(frames)].to = Len(input.pkts)
    /\ pc = "type_error" => SourceRaised

\* A frame holds packets of another frame only when the packet that starts that
\* other one never came.
MixedOnlyWhenStartLost ==
    \A f \in 1 .. Len(frames) : \A i \in frames[f].from .. frames[f].to :
       input.pkts[i].frame # input.pkts[frames[f].from].frame =>
          \A j \in 1 .. i : input.pkts[j].frame = input.pkts[i].frame => ~IsStart(j)
=============================================================================
