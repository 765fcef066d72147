--------------------------------- MODULE Mux ---------------------------------
(***************************************************************************)
(* frame.mux: merging a video and an audio packet source into one          *)
(* container (ext.pyx mux around mux.c marm_mux).                           *)
(*                                                                         *)
(* The C loop pulls packets from Python iterators through a callback that  *)
(* answers 0 for a packet and -1 for anything else.  A Python exception    *)
(* raised inside a callback stays pending in the interpreter while C code  *)
(* goes on; ctx->abort tells whether one is pending, and the exception is  *)
(* raised to the caller when marm_mux returns.  A callback that runs       *)
(* while an exception is pending replaces it when its source raises its    *)
(* own StopIteration, which is caught: the exception is forgotten.         *)
(*                                                                         *)
(* The muxer (libavformat) is external: it may refuse any write, and it    *)
(* always refuses a packet whose timestamp does not increase in its        *)
(* stream.                                                                 *)
(***************************************************************************)
EXTENDS Integers, SequencesExt

Streams == {"v", "a"}

CONSTANTS Inputs,     \* timestamps each source yields, codec time base
          Tick,       \* length of a tick of the codec time base, per stream
          StreamTick  \* and of the time base the container chose

ASSUME InputsAssumption == Inputs \subseteq [Streams -> Seq(Int)]
ASSUME TickAssumption ==
    Tick \in [Streams -> Nat \ {0}] /\ StreamTick \in [Streams -> Nat \ {0}]

VARIABLES has,      \* streams the caller asked for
          input,    \* what each source would yield, from the first packet on
          src,      \* what it has not yielded yet
          pend,     \* v_pkts/v_pkt, a_pkts/a_pkt: the packet read ahead, if any
          last,     \* v_pts, a_pts: timestamp last handed to the muxer
          file,     \* packets the muxer has accepted
          exc,      \* the exception pending in the interpreter
          pc, res,  \* control point and result of marm_mux
          faults,   \* exceptions raised by sources and file so far
          outcome   \* what the caller of mux() sees

vars == <<has, input, src, pend, last, file, exc, pc, res, faults, outcome>>

None == [has |-> FALSE, pts |-> 0]
Packet(p) == [has |-> TRUE, pts |-> p]

\* The start value INT64_MIN of v_pts and a_pts: below every timestamp.
Before == [set |-> FALSE, pts |-> 0]
At(p) == [set |-> TRUE, pts |-> p]

\* av_rescale_q: to the container's time base, halves away from zero.
RoundDiv(n, d) == IF n >= 0 THEN (2 * n + d) \div (2 * d)
                            ELSE -((2 * (-n) + d) \div (2 * d))
Rescale(st, p) == RoundDiv(p * Tick[st], StreamTick[st])

\* av_compare_ts: timestamps of the two streams on one clock.
Time(st, p) == p * Tick[st]

Controls == {"setup", "open", "first_v", "first_a", "loop", "read_v", "read_a",
             "trailer", "returned", "done"}
Exceptions == {"none", "source", "file"}

TypeOK ==
    /\ has \in SUBSET Streams
    /\ input \in [Streams -> Seq(Int)] /\ src \in [Streams -> Seq(Int)]
    /\ pend \in [Streams -> [has : BOOLEAN, pts : Int]]
    /\ last \in [Streams -> [set : BOOLEAN, pts : Int]]
    /\ file \in Seq([st : Streams, pts : Int, at : Int])
    /\ exc \in Exceptions
    /\ pc \in Controls
    /\ res \in {"ok", "aborted", "write_failed", "error"}
    /\ faults \in SUBSET {"source", "file"}
    /\ outcome \in {"none", "returns", "raises", "marm_error", "crashes"}

Init ==
    /\ has \in SUBSET Streams
    /\ input \in Inputs /\ src = input
    /\ pend = [st \in Streams |-> None] /\ last = [st \in Streams |-> Before]
    /\ file = <<>> /\ exc = "none" /\ faults = {}
    /\ pc = "setup" /\ res = "ok" /\ outcome = "none"

DataUnchanged == UNCHANGED <<has, input, src, pend, last, file>>

Exit(r) == res' = r /\ pc' = "returned" /\ UNCHANGED outcome

\* The file's write callback raises, or libavformat fails on its own account.
FileFails ==
    \/ exc' = "file" /\ faults' = faults \cup {"file"}
    \/ UNCHANGED <<exc, faults>>

(***************************************************************************)
(* Setup: streams and codecs, the i/o context, the header.                 *)
(***************************************************************************)
\* An encoder or a container that is not known ends the call with an error.  Failing
\* after that and before the i/o context exists, the cleanup code reads pb->buffer of
\* the output context it has, and there is no pb.
SetupFails ==
    /\ pc = "setup"
    /\ outcome' \in {"marm_error", "crashes"} /\ res' = "error" /\ pc' = "done"
    /\ UNCHANGED <<exc, faults>> /\ DataUnchanged

Setup ==
    /\ pc = "setup"
    /\ pc' = "open"
    /\ UNCHANGED <<exc, faults, res, outcome>> /\ DataUnchanged

WriteHeader ==
    /\ pc = "open"
    /\ \/ pc' = "first_v" /\ UNCHANGED <<exc, faults, res, outcome>>
       \/ FileFails /\ Exit("error")
    /\ DataUnchanged

(***************************************************************************)
(* ctx->next_packet on the source of stream st.                            *)
(***************************************************************************)
NextPacket(st) ==
    \/ \* a packet; an exception already pending stays pending
       /\ src[st] # <<>>
       /\ pend' = [pend EXCEPT ![st] = Packet(Head(src[st]))]
       /\ src' = [src EXCEPT ![st] = Tail(@)]
       /\ UNCHANGED <<exc, faults>>
    \/ \* StopIteration, caught in the callback; the source raises it itself, or
       \* just ends, and then an exception that is pending is what surfaces
       /\ src[st] = <<>>
       /\ pend' = [pend EXCEPT ![st] = None]
       /\ exc' \in {"none", exc}
       /\ UNCHANGED <<src, faults>>
    \/ \* the source raises: its generator is finished
       /\ pend' = [pend EXCEPT ![st] = None]
       /\ src' = [src EXCEPT ![st] = <<>>]
       /\ exc' = "source" /\ faults' = faults \cup {"source"}

ReadFirst(st, here, there) ==
    /\ pc = here /\ pc' = there
    /\ IF st \in has THEN NextPacket(st) ELSE UNCHANGED <<src, pend, exc, faults>>
    /\ UNCHANGED <<has, input, last, file, res, outcome>>

ReadFirstVideo == ReadFirst("v", "first_v", "first_a")
ReadFirstAudio == ReadFirst("a", "first_a", "loop")

ReadNext(st, here) ==
    /\ pc = here /\ pc' = "loop"
    /\ NextPacket(st)
    /\ UNCHANGED <<has, input, last, file, res, outcome>>

ReadNextVideo == ReadNext("v", "read_v")
ReadNextAudio == ReadNext("a", "read_a")

\* Slip: timestamps of different time bases compared.
VideoIsNextRaw ==
    /\ pend["v"].has
    /\ pend["a"].has => pend["v"].pts <= pend["a"].pts

(***************************************************************************)
(* The loop: write the earlier of the two packets read ahead.              *)
(***************************************************************************)
VideoIsNext ==
    /\ pend["v"].has
    /\ pend["a"].has => Time("v", pend["v"].pts) <= Time("a", pend["a"].pts)

Turn(st) ==
    /\ pc = "loop" /\ exc = "none"
    /\ IF st = "v" THEN VideoIsNext ELSE ~VideoIsNext /\ pend["a"].has

ReadPc(st) == IF st = "v" THEN "read_v" ELSE "read_a"

\* Slip: equal timestamps pass.
BeforeLast(st) == last[st].set /\ Rescale(st, pend[st].pts) < last[st].pts

\* MARM_MUX_FLAG_MONOTONIC_FILTER, on the timestamp the container will see.
NotAfterLast(st) == last[st].set /\ Rescale(st, pend[st].pts) <= last[st].pts

\* Slip: a dropped packet is not replaced.
DropStays(st) ==
    /\ Turn(st) /\ NotAfterLast(st)
    /\ pc' = "loop"
    /\ UNCHANGED <<exc, faults, res, outcome>> /\ DataUnchanged

Drop(st) ==
    /\ Turn(st) /\ NotAfterLast(st)
    /\ pc' = ReadPc(st)
    /\ UNCHANGED <<exc, faults, res, outcome>> /\ DataUnchanged

\* The muxer keeps the timestamps of each stream increasing.
Acceptable(st, pts) ==
    \A i \in 1 .. Len(file) : file[i].st = st => file[i].pts < pts

Write(st) ==
    LET pts == Rescale(st, pend[st].pts) IN
    /\ Turn(st) /\ ~NotAfterLast(st)
    /\ last' = [last EXCEPT ![st] = At(pts)]
    /\ \/ /\ Acceptable(st, pts)
          /\ file' = Append(file, [st |-> st, pts |-> pts, at |-> Time(st, pend[st].pts)])
          /\ \/ pc' = ReadPc(st) /\ UNCHANGED <<exc, faults, res, outcome>>
             \/ Exit("error") /\ UNCHANGED <<exc, faults>>   \* av_new_packet
       \/ /\ FileFails /\ Exit("write_failed") /\ UNCHANGED file
    /\ UNCHANGED <<has, input, src, pend>>

\* ctx->abort, asked by the loop condition and again after the loop.
Abort ==
    /\ pc = "loop" /\ exc # "none"
    /\ Exit("aborted")
    /\ UNCHANGED <<exc, faults>> /\ DataUnchanged

\* Slip: the shorter source ends the loop.
LoopEndsEarly ==
    /\ pc = "loop" /\ exc = "none" /\ (~pend["v"].has \/ ~pend["a"].has)
    /\ pc' = "trailer"
    /\ UNCHANGED <<exc, faults, res, outcome>> /\ DataUnchanged

LoopEnds ==
    /\ pc = "loop" /\ exc = "none" /\ ~pend["v"].has /\ ~pend["a"].has
    /\ pc' = "trailer"
    /\ UNCHANGED <<exc, faults, res, outcome>> /\ DataUnchanged

WriteTrailer ==
    /\ pc = "trailer"
    /\ \/ Exit("ok") /\ UNCHANGED <<exc, faults>>
       \/ Exit("error") /\ FileFails
    /\ DataUnchanged

\* Slip: the result is looked at before the exception.
ReturnResultFirst ==
    /\ pc = "returned" /\ pc' = "done"
    /\ outcome' = IF res # "ok" THEN "marm_error"
                  ELSE IF exc # "none" THEN "raises" ELSE "returns"
    /\ UNCHANGED <<exc, faults, res>> /\ DataUnchanged

\* Back in Cython: a pending exception is raised first, then the result counts.
Return ==
    /\ pc = "returned" /\ pc' = "done"
    /\ outcome' = IF exc # "none" THEN "raises"
                  ELSE IF res # "ok" THEN "marm_error" ELSE "returns"
    /\ UNCHANGED <<exc, faults, res>> /\ DataUnchanged

Next ==
    \/ SetupFails \/ Setup \/ WriteHeader
    \/ ReadFirstVideo \/ ReadFirstAudio \/ ReadNextVideo \/ ReadNextAudio
    \/ \E st \in Streams : Drop(st) \/ Write(st)
    \/ Abort \/ LoopEnds \/ WriteTrailer \/ Return

Spec == Init /\ [][Next]_vars
FairSpec == Spec /\ WF_vars(Next)

-----------------------------------------------------------------------------
\* The muxer never has to refuse a packet for its timestamp: the loop drops such
\* packets itself, judging them in the time base the container chose.
NeverRefused ==
    \A st \in Streams :
       Turn(st) /\ ~NotAfterLast(st) => Acceptable(st, Rescale(st, pend[st].pts))

\* mux() returns normally only after the trailer, with both sources read to
\* their end and no exception raised by the file.
ReturnsWhenComplete ==
    outcome = "returns" =>
       /\ res = "ok" /\ "file" \notin faults
       /\ \A st \in has : src[st] = <<>> /\ ~pend[st].has

\* An exception the packet sources or the file raise reaches the caller, unless
\* the video source raised on its first packet and there was no audio packet.
RaisesReachCaller ==
    pc = "done" /\ faults # {} =>
       outcome = "raises" \/ (file = <<>> /\ input["a"] = <<>>)

\* Once an exception is pending nothing more is written to the container.
NothingWrittenAfterRaise == [][exc # "none" => file' = file]_vars

Sorted(s) == \A i, j \in DOMAIN s : i < j => s[i] <= s[j]

\* Two sources in order are merged in order: no packet is handed to the muxer after a
\* later one of the other stream.
MergedInOrder ==
    (\A st \in Streams : Sorted(input[st])) =>
       \A i, j \in 1 .. Len(file) : i < j => file[i].at <= file[j].at

\* Reference: the packets of a source the filter keeps, in the container's time.
Kept(st, s) ==
    FoldLeft(LAMBDA kept, p :
               LET t == Rescale(st, p)
               IN IF kept # <<>> /\ t <= kept[Len(kept)] THEN kept ELSE Append(kept, t),
             <<>>, s)

InFile(st, n) == { i \in 1 .. n : file[i].st = st }
Place(i) == Cardinality(InFile(file[i].st, i))

\* What reaches the container is what the filter keeps of each source, in order and
\* nothing skipped, and all of it when mux() returns after no source failed.  Two
\* sources in order are merged in order.
FileIsMergedInput ==
    /\ \A i \in DOMAIN file :
         LET kept == Kept(file[i].st, input[file[i].st])
         IN Place(i) <= Len(kept) /\ kept[Place(i)] = file[i].pts
    /\ outcome = "returns" /\ faults = {} =>
         \A st \in has : Cardinality(InFile(st, Len(file))) = Len(Kept(st, input[st]))
    /\ MergedInOrder

\* mux() always comes back.
MuxEnds == <>(pc = "done")
=============================================================================
