------------------------------ MODULE MuxCommand ------------------------------
(***************************************************************************)
(* The mux command: archives are dealt out to streams, a cursor is made    *)
(* for each and moved to --offset, what the container's header needs is    *)
(* probed by scans of those same cursors, and then they are the sources of *)
(* the frames that are muxed.  VideoFrames are made of the video cursor    *)
(* before the audio is looked at.  Anything that is not as it should be    *)
(* raises, and the command ends.  The muxer drops what does not have a     *)
(* later time than all that it wrote of the stream before.                 *)
(*                                                                         *)
(* The position of the video cursor is VideoFrames' `taken`: the packets   *)
(* before it.  A frame is given a time equal to its number; only order     *)
(* and distances matter.  Frames can be assembled without the command, by  *)
(* a caller of the package: stage "api".                                   *)
(***************************************************************************)
EXTENDS VideoFrames, FiniteSets, SequencesExt

CONSTANTS Commands,   \* command lines
          MinWindow,  \* frame starts an estimate of the frame rate needs
          MaxParams   \* bound: parameters given in -v or -a

\* An archive: the packets that can be read, and whether one more is cut short.
Archive == [pkts : Seq(PacketType), cut : BOOLEAN]

ASSUME CommandsAssumption ==
    \A c \in Commands :
       /\ c.types \in Seq({"video", "audio"}) /\ c.types # <<>>
       /\ c.order \in {"concat", "interleave"}
       /\ c.archives \in Seq(Archive) /\ c.offset \in Int /\ c.window \in Int
\* A window of one would let the cursor end where it began, but in another part.
ASSUME BoundsAssumption == MinWindow \in Nat \ {0, 1} /\ MaxParams \in Nat

VARIABLES cmd,      \* the command line; <<>> for a caller of the package
          stage,    \* the command's next step, or how it ended
          streams,  \* the archives of each stream
          first,    \* the part each cursor was moved to
          profile,  \* the video's: packets width and height were read from, frame rate
          heard,    \* audio packets handed to the muxer
          container \* what the muxer wrote of each stream

command == <<cmd, stage, streams, first, profile, heard, container>>
allvars == <<vars, command>>

\* One stream in the muxer: the packet whose time it wrote last, 0 for none, and all
\* it wrote; a frame goes by its first packet.
NoTrack == [last |-> 0, kept |-> {}]

NoProfile == [width |-> 0, height |-> 0, frames |-> 0, time |-> 0]

\* A cursor as the source of the frames: it does not raise.
Source(pkts) == [pkts |-> pkts, raises |-> Len(pkts) + 2]

InitCommand ==
    /\ cmd \in Commands /\ stage = "bucket" /\ input = Source(<<>>)
    /\ packet = 0 /\ taken = 0 /\ ended = FALSE /\ frames = <<>> /\ pc = "new"

InitAll ==
    /\ \/ InitCommand
       \/ Init /\ cmd = <<>> /\ stage = "api"
    /\ streams = <<>> /\ first = 1 /\ profile = NoProfile /\ heard = 0
    /\ container = [video |-> NoTrack, audio |-> NoTrack]

Goto(s) == stage' = s /\ UNCHANGED cmd
Raise(s) == stage = s /\ stage' = "raised" /\ UNCHANGED <<vars, cmd, streams, first, profile, heard, container>>

\* Slip: the streams take their archives in turn, whatever the order.
BucketsInTurn(c) ==
    LET s == Len(c.types)
    IN [i \in 1 .. s |-> [k \in 1 .. Len(c.archives) \div s |-> c.archives[i + (k - 1) * s]]]

\* bucket(): archives[i::s], or archives[i:i + n].
Buckets(c) ==
    LET s == Len(c.types)
        n == Len(c.archives) \div s
    IN [i \in 1 .. s |-> IF c.order = "interleave"
                         THEN [k \in 1 .. n |-> c.archives[i + (k - 1) * s]]
                         ELSE SubSeq(c.archives, (i - 1) * n + 1, i * n)]

\* Not as many archives for each stream, or a range() of step 0.
CannotBucket ==
    \/ Len(cmd.archives) % Len(cmd.types) # 0
    \/ cmd.order = "concat" /\ cmd.archives = <<>>

BucketFails == Raise("bucket") /\ CannotBucket

Bucket ==
    /\ stage = "bucket" /\ ~CannotBucket
    /\ streams' = Buckets(cmd)
    /\ Goto("offset") /\ UNCHANGED <<vars, first, profile, heard, container>>

Of(type) == { i \in DOMAIN cmd.types : cmd.types[i] = type }
Stream(type) == CHOOSE i \in Of(type) : TRUE

\* The part `cur.seek((offset, 0))` goes to; the part's index lists its packet 0.
Target == IF cmd.offset < 0 THEN Len(streams[1]) + cmd.offset + 1 ELSE cmd.offset + 1
Seekable ==
    \A i \in DOMAIN streams :
       /\ Target \in DOMAIN streams[i]
       /\ streams[i][Target].pkts # <<>> \/ streams[i][Target].cut

\* What a cursor over parts yields from part p on, however often it is read and put
\* back: it stops at a part without packets and at a packet that is cut short.
Yields(parts, p) ==
    LET stops == { k \in p .. Len(parts) : parts[k].pkts = <<>> \/ parts[k].cut }
        end == IF stops = {} THEN Len(parts) ELSE Least(stops)
    IN FlattenSeq([k \in 1 .. end - p + 1 |-> parts[p + k - 1].pkts])

OffsetFails == Raise("offset") /\ cmd.offset # 0 /\ ~Seekable

Offset ==
    /\ stage = "offset" /\ (cmd.offset # 0 => Seekable)
    /\ first' = Target
    /\ input' = Source(IF Of("video") = {} THEN <<>> ELSE Yields(streams[Stream("video")], Target))
    /\ Goto("video") /\ UNCHANGED <<packet, taken, ended, frames, pc, streams, profile, heard, container>>

\* -v and -a store a dict, which has no key i: with less than i + 1 parameters in it
\* it is not looked at.
Given(type, params) == Stream(type) - 1 < params

VideoFails ==
    /\ Raise("video")
    /\ \/ Cardinality(Of("video")) > 1
       \/ Of("video") # {} /\ \E n \in 0 .. MaxParams : Given("video", n)

ResolveVideo ==
    /\ stage = "video" /\ Cardinality(Of("video")) <= 1
    /\ \E n \in 0 .. MaxParams : Of("video") # {} => ~Given("video", n)
    /\ Goto(IF Of("video") = {} THEN "audio" ELSE "width")
    /\ UNCHANGED <<vars, streams, first, profile, heard, container>>

\* probe_video_dimensions in `with v_cur.restoring()`, once for each dimension:
\* None, when there is no key frame, cannot be unpacked; what the first scan found
\* the second finds again.
Dimension == Search(taken + 1, Keys)

ProbeFails == Raise("width") /\ Dimension = 0

ProbeWidth ==
    /\ stage = "width" /\ Dimension # 0
    /\ profile' = [profile EXCEPT !.width = Dimension]
    /\ Goto("height") /\ UNCHANGED <<vars, streams, first, heard, container>>

ProbeHeight ==
    /\ stage = "height" /\ Dimension # 0
    /\ profile' = [profile EXCEPT !.height = Dimension]
    /\ Goto("rate") /\ UNCHANGED <<vars, streams, first, heard, container>>

\* estimate_video_frame_rate: the first `window` frame starts, at least one.
Sampled ==
    LET ahead == { i \in Starts : i > taken }
    IN { i \in ahead : Cardinality({ j \in ahead : j < i }) < (IF cmd.window < 1 THEN 1 ELSE cmd.window) }
Greatest(S) == CHOOSE i \in S : \A j \in S : j <= i
Elapsed == input.pkts[Greatest(Sampled)].frame - input.pkts[Least(Sampled)].frame

\* Too few of them, or a division by zero.
CannotEstimate == Cardinality(Sampled) < MinWindow \/ Elapsed = 0

EstimateFails == Raise("rate") /\ CannotEstimate

\* Slip: the cursor stays where the estimate ended.
EstimateMoves ==
    /\ stage = "rate" /\ ~CannotEstimate
    /\ profile' = [profile EXCEPT !.frames = Cardinality(Sampled) - 1, !.time = Elapsed]
    /\ taken' = Greatest(Sampled) - 1
    /\ Goto("frames") /\ UNCHANGED <<input, packet, ended, frames, pc, streams, first, heard, container>>

Estimate ==
    /\ stage = "rate" /\ ~CannotEstimate
    /\ profile' = [profile EXCEPT !.frames = Cardinality(Sampled) - 1, !.time = Elapsed]
    /\ Goto("frames") /\ UNCHANGED <<vars, streams, first, heard, container>>

MakeVideoFrames ==
    /\ stage = "frames" /\ Construct
    /\ Goto("audio") /\ UNCHANGED <<streams, first, profile, heard, container>>

\* The layout is probed with the video's cursor restored, which must exist, and is
\* that of the first packet, which reading does not move beyond.
AudioPackets == Yields(streams[Stream("audio")], first)

AudioFails ==
    /\ Raise("audio")
    /\ \/ Cardinality(Of("audio")) > 1
       \/ Of("audio") # {} /\ \/ \E n \in 0 .. MaxParams : Given("audio", n)
                              \/ Of("video") = {}
                              \/ AudioPackets = <<>>

ResolveAudio ==
    /\ stage = "audio" /\ Cardinality(Of("audio")) <= 1
    /\ Of("audio") # {} => /\ \E n \in 0 .. MaxParams : ~Given("audio", n)
                           /\ Of("video") # {} /\ AudioPackets # <<>>
    /\ Goto("container") /\ UNCHANGED <<vars, streams, first, profile, heard, container>>

\* A dry run; a container that exists, without --force; one without an extension,
\* which is opened, and emptied, all the same.
StopBeforeMux ==
    /\ stage = "container"
    /\ \E s \in {"dry", "raised"} : Goto(s)
    /\ UNCHANGED <<vars, streams, first, profile, heard, container>>

OpenContainer ==
    /\ stage = "container"
    /\ Goto("mux") /\ UNCHANGED <<vars, streams, first, profile, heard, container>>

\* Slip: a packet with the time of the last one is written.
WriteEqual(track, pkts, i) ==
    IF track.last # 0 /\ pkts[i].frame < pkts[track.last].frame THEN track
    ELSE [last |-> i, kept |-> track.kept \cup {i}]

\* MARM_MUX_FLAG_MONOTONIC_FILTER, which frame.mux always sets.
Write(track, pkts, i) ==
    IF track.last # 0 /\ pkts[i].frame <= pkts[track.last].frame THEN track
    ELSE [last |-> i, kept |-> track.kept \cup {i}]

\* The muxer asks for a frame of one stream or the other, and writes or drops it.
MuxVideo ==
    /\ stage = "mux" /\ Of("video") # {} /\ pc # "stop"
    /\ \/ /\ NextFrame
          /\ container' = IF frames' = frames THEN container
                          ELSE [container EXCEPT !.video = Write(@, input.pkts, packet)]
       \/ NextStops /\ UNCHANGED container
    /\ UNCHANGED <<cmd, stage, streams, first, profile, heard>>

MuxAudio ==
    /\ stage = "mux" /\ Of("audio") # {} /\ heard < Len(AudioPackets)
    /\ heard' = heard + 1
    /\ container' = [container EXCEPT !.audio = Write(@, AudioPackets, heard')]
    /\ UNCHANGED <<vars, cmd, stage, streams, first, profile>>

MuxFails == Raise("mux")

MuxReturns ==
    /\ stage = "mux"
    /\ Of("video") # {} => pc = "stop"
    /\ Of("audio") # {} => heard = Len(AudioPackets)
    /\ Goto("muxed") /\ UNCHANGED <<vars, streams, first, profile, heard, container>>

CommandNext ==
    \/ Bucket \/ BucketFails \/ Offset \/ OffsetFails
    \/ ResolveVideo \/ VideoFails
    \/ ProbeWidth \/ ProbeHeight \/ ProbeFails \/ Estimate \/ EstimateFails
    \/ MakeVideoFrames \/ ResolveAudio \/ AudioFails
    \/ StopBeforeMux \/ OpenContainer
    \/ MuxVideo \/ MuxAudio \/ MuxReturns \/ MuxFails

ApiNext == stage = "api" /\ Next /\ UNCHANGED command

SpecAll == InitAll /\ [][CommandNext \/ ApiNext]_allvars

-----------------------------------------------------------------------------
(***************************************************************************)
(* Properties.                                                             *)
(***************************************************************************)
\* The stream archive k of the command line belongs to.
StreamOf(k) == IF cmd.order = "interleave" THEN ((k - 1) % Len(cmd.types)) + 1
               ELSE ((k - 1) \div (Len(cmd.archives) \div Len(cmd.types))) + 1

\* The archives of stream i, in the order they have on the command line.
ArchivesOf(i) ==
    LET mine == { k \in DOMAIN cmd.archives : StreamOf(k) = i }
    IN [n \in 1 .. Cardinality(mine) |->
          CHOOSE k \in mine : Cardinality({ j \in mine : j < k }) = n - 1]

\* The packets of a stream from --offset on that can be reached.
Reachable(i) ==
    LET rest == SubSeq(ArchivesOf(i), Target, Len(ArchivesOf(i)))
        open(n) == \A k \in 1 .. n : LET a == cmd.archives[rest[k]] IN a.pkts # <<>> /\ ~a.cut
    IN FlattenSeq([n \in DOMAIN rest |-> IF open(n - 1) THEN cmd.archives[rest[n]].pkts ELSE <<>>])

\* Those of the packets S that have a later time than every one before them.
Later(pkts, S) == { i \in S : \A j \in S : j < i => pkts[j].frame < pkts[i].frame }

\* A command that returns has handed the muxer all that its cursors can reach: the
\* video from the first key frame at or after the offset to its end and all of the
\* audio, each from the archives the description gives its stream, whatever was probed
\* before; and the container holds what of it has a later time than all before it in
\* its stream.  So nothing is missing where times rise, and where an archive restarts
\* its times all is missing up to the latest time before.
MuxedIsComplete ==
    stage = "muxed" =>
       /\ Of("video") # {} =>
             /\ input.pkts = Reachable(Stream("video"))
             /\ frames # <<>> /\ frames[1].from = Least(Keys)
             /\ frames[Len(frames)].to = Len(input.pkts)
             /\ container.video.kept =
                   Later(input.pkts, { frames[f].from : f \in DOMAIN frames })
       /\ Of("audio") # {} =>
             LET reach == Reachable(Stream("audio"))
             IN container.audio.kept = Later(reach, DOMAIN reach)

\* The header describes the frames that follow it: its width and height are those of
\* the first frame muxed, and its frame rate is, as long as times increase, no higher
\* than that the frames were sent at, also when some were lost.
ProfileDescribesFrames ==
    stage # "api" /\ frames # <<>> =>
       /\ profile.width = frames[1].from /\ profile.height = frames[1].from
       /\ (\A i, j \in Starts : i < j => input.pkts[i].frame < input.pkts[j].frame) =>
             0 < profile.frames /\ profile.frames <= profile.time
=============================================================================
