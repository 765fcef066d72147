---------------------------------- MODULE Gen ----------------------------------
(***************************************************************************)
(* generate_audio and generate_video: test media.  Pictures or samples are *)
(* made until the duration, or the number of samples, that was asked for,  *)
(* and each frame is handed to an encoder, which gives a packet back,      *)
(* possibly of an earlier frame, or holds it for later.  Packets are       *)
(* written as frames of a FrameFile.  The audio encoder is emptied at the  *)
(* end, the video encoder is not.  Every call of libav may fail, every     *)
(* write raise, and the process be killed.                                 *)
(***************************************************************************)
EXTENDS FrameFile

CONSTANTS Requests,
          FrameSize,    \* samples the audio encoder takes at a time
          Rate,         \* samples, or pictures, of a second
          Delay,        \* frames an encoder holds back at most
          MaxPts        \* bound: how far a request without an end is followed

ASSUME RequestsAssumption ==
    Requests \subseteq [media : {"audio", "video"}, header : BOOLEAN, raw : BOOLEAN,
                        known : BOOLEAN,              \* the encoder is one of libav's
                        valid : BOOLEAN,              \* the type of tone is one of gen.c's
                        duration : Int, samples : Int,
                        offset : Int,                 \* added to the time of audio packets
                        base : Nat]                   \* their time base is 1 / base, 0 for none
ASSUME SizesAssumption ==
    FrameSize \in Nat \ {0} /\ Rate \in Nat \ {0} /\ Delay \in Nat /\ MaxPts \in Nat

VARIABLES req,
          pc,       \* what comes next, or how the call ended
          pts,      \* samples or pictures made; for audio, nb_samples in the end
          left,     \* samples still to make, negative for no limit
          length,   \* samples of the source frame
          queue,    \* frames the encoder holds
          file,     \* fields in the file
          made      \* times of the packets written; how many is nb_frames in the end

vars == <<req, pc, pts, left, length, queue, file, made>>

Init ==
    /\ req \in Requests /\ pc = "open"
    /\ pts = 0 /\ left = req.samples
    /\ length = IF req.media = "audio" THEN FrameSize ELSE 1
    /\ queue = <<>> /\ file = <<>> /\ made = <<>>

Audio == req.media = "audio"
Goto(p) == pc' = p
Unchanged == UNCHANGED <<req, pts, left, length, queue, file, made>>

\* An audio encoder that is not found is no error, its context is never set, and is
\* freed at the end: whatever it points to.
Wild == Audio /\ ~req.known
End(p) == IF Wild THEN pc' \in {p, "crashed"} ELSE pc' = p

Open ==
    /\ pc = "open"
    /\ Audio \/ req.known
    /\ Goto("header") /\ Unchanged

OpenFails == pc = "open" /\ ~Wild /\ Goto("raised") /\ Unchanged

\* av_rescale_q, which rounds to nearest, half away from zero: the time an audio
\* packet of the frame that begins with sample p is given.
RoundDiv(n, d) == IF n >= 0 THEN (2 * n + d) \div (2 * d) ELSE -((d - 2 * n) \div (2 * d))
Stamp(p) ==
    IF ~Audio THEN p
    ELSE IF req.base = 0 THEN p + req.offset ELSE RoundDiv((p + req.offset) * req.base, Rate)

\* What a write, or a row of writes of which one raises, leaves in the file.
Writes(fields) == file' = file \o fields
WritesPart(fields) == \E n \in 0 .. Len(fields) - 1 : file' = file \o SubSeq(fields, 1, n)

WriteHeader ==
    /\ pc = "header"
    /\ IF req.header /\ ~req.raw THEN Writes(Header) ELSE UNCHANGED file
    /\ Goto("start") /\ UNCHANGED <<req, pts, left, length, queue, made>>

HeaderFails ==
    /\ pc = "header" /\ req.header /\ ~req.raw
    /\ WritesPart(Header)
    /\ End("raised") /\ UNCHANGED <<req, pts, left, length, queue, made>>

\* marm_gen_a: the type is looked at first and, when it is none, nothing generated and
\* no error returned; then frames and resampler are set up for the encoder.
Start ==
    /\ pc = "start"
    /\ CASE Audio /\ ~req.valid -> End("returned")
         [] Wild /\ req.valid -> Goto("crashed")
         [] OTHER -> Goto("loop")
    /\ Unchanged

StartFails == pc = "start" /\ Audio /\ req.known /\ req.valid /\ Goto("raised") /\ Unchanged

\* The loop's conditions: a video ends by its duration alone.
Done ==
    IF Audio THEN \/ req.duration > 0 /\ pts >= req.duration * Rate
                  \/ left = 0
    ELSE pts >= req.duration * Rate

\* Slip: the samples made are not counted down.
EncodeUncounted ==
    /\ pc = "loop" /\ ~Done /\ pts < MaxPts
    /\ length' = IF Audio /\ left > 0 /\ left < length THEN left ELSE length
    /\ UNCHANGED left
    /\ pts' = pts + length'
    /\ queue' = Append(queue, pts)
    /\ Goto("encoded") /\ UNCHANGED <<req, file, made>>

\* A frame is made and encoded.  The last one may hold fewer samples; the encoder gets
\* a whole frame all the same.
Encode ==
    /\ pc = "loop" /\ ~Done /\ pts < MaxPts
    /\ length' = IF Audio /\ left > 0 /\ left < length THEN left ELSE length
    /\ left' = IF Audio /\ left > 0 THEN left - length' ELSE left
    /\ pts' = pts + length'
    /\ queue' = Append(queue, pts)
    /\ Goto("encoded") /\ UNCHANGED <<req, file, made>>

\* The encoder gives back a packet, which for video may come after those of later
\* frames, or holds what it has; emptied, it gives back all.
After == IF pc = "encoded" THEN "loop" ELSE "flush"

Packet(k) ==
    /\ pc \in {"encoded", "flush"} /\ k \in DOMAIN queue /\ (Audio => k = 1)
    /\ queue' = RemoveAt(queue, k)

WritePacket ==
    /\ \E k \in DOMAIN queue : /\ Packet(k)
                               /\ Writes(Frame(Stamp(queue[k]), req.raw))
                               /\ made' = Append(made, Stamp(queue[k]))
    /\ Goto(After) /\ UNCHANGED <<req, pts, left, length>>

WriteFails ==
    /\ \E k \in DOMAIN queue : Packet(k) /\ WritesPart(Frame(Stamp(queue[k]), req.raw))
    /\ Goto("raised") /\ UNCHANGED <<req, pts, left, length, made>>

HoldsBack == pc = "encoded" /\ Len(queue) <= Delay /\ Goto("loop") /\ Unchanged

EncodeFails == pc \in {"encoded", "flush"} /\ Goto("raised") /\ Unchanged

\* Slip: the audio encoder is not emptied either.
LoopEndsLike == pc = "loop" /\ Done /\ Goto("returned") /\ Unchanged

LoopEnds == pc = "loop" /\ Done /\ Goto(IF Audio THEN "flush" ELSE "returned") /\ Unchanged

FlushEnds == pc = "flush" /\ queue = <<>> /\ Goto("returned") /\ Unchanged

\* The process is killed: any part of what was written is on disk.
Ended == pc \in {"returned", "raised", "crashed", "killed"}

Dies ==
    /\ ~Ended /\ Goto("killed")
    /\ \E n \in 0 .. Len(file) : file' = SubSeq(file, 1, n)
    /\ UNCHANGED <<req, pts, left, length, queue, made>>

Step ==
    \/ Open \/ OpenFails \/ WriteHeader \/ HeaderFails \/ Start \/ StartFails
    \/ Encode \/ WritePacket \/ WriteFails \/ HoldsBack \/ EncodeFails
    \/ LoopEnds \/ FlushEnds

Next == Step \/ Dies

Spec == Init /\ [][Next]_vars /\ WF_vars(Step)

-----------------------------------------------------------------------------
(***************************************************************************)
(* Properties.                                                             *)
(***************************************************************************)
From == IF req.header THEN Len(Header) ELSE 0
ReadBack == ReadFrames(file, From)

\* Samples that make up the request: as many as asked for, or whole frames up to the
\* duration, whichever is less.
Frames(n) == (n + FrameSize - 1) \div FrameSize
ByDuration == FrameSize * Frames(req.duration * Rate)
Asked == IF req.samples < 0 \/ (req.duration > 0 /\ ByDuration < req.samples)
         THEN ByDuration ELSE req.samples

\* A file that holds its header reads back, without an error, as a beginning of the frames
\* that were written, wherever it is cut.  When the call returns it reads back as all
\* of them, and that is all that was asked for: of an audio as many samples as
\* nb_samples says, of a video all but the frames the encoder still holds.
FramesReadBack ==
    ~req.raw /\ (req.header => HeaderReads(file)) =>
       /\ ~ReadRaises(file, From)
       /\ IsPrefix(ReadBack, made)
       /\ pc = "returned" /\ (Audio => req.valid) =>
             /\ ReadBack = made
             /\ IF Audio
                THEN pts = Asked /\ made = [k \in 1 .. Frames(Asked) |-> Stamp(FrameSize * (k - 1))]
                ELSE /\ Len(made) >= req.duration * Rate - Delay
                     /\ \A t \in 0 .. req.duration * Rate - 1 :
                           (\E k \in DOMAIN made : made[k] = t) \/ (\E k \in DOMAIN queue : queue[k] = t)

\* Frames of a file read again and again, made monotonic, come one after the other and
\* never before their time, also when the encoder has reordered them.
ReplayRises ==
    ~req.raw /\ (req.header => HeaderReads(file)) =>
       LET in == ReadBack \o ReadBack
           out == Monotonic(in)
       IN /\ Len(out) = Len(in)
          /\ \A k \in 1 .. Len(out) - 1 : out[k] < out[k + 1]
          /\ \A k \in DOMAIN out : in[k] <= out[k]

\* A call that is asked for a duration or a number of samples ends.
GenEnds == (req.media = "video" \/ req.duration > 0 \/ req.samples >= 0) ~> Ended
=============================================================================
