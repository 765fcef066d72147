----------------------------- MODULE CursorScan ------------------------------
(***************************************************************************)
(* The loops RTPCursor runs over its own single steps: iteration           *)
(* (__iter__), slice to a position or for a number of packets, search for  *)
(* the next or previous matching packet, and compute, which folds a value  *)
(* span by span.  Any of them can run inside `with cursor.restoring()`.    *)
(* A loop is a job: one action per step of the cursor, consumed to its end *)
(* by the caller, who may seek and read between two jobs, or left by an    *)
(* exception of the code it runs on the packets.                           *)
(***************************************************************************)
EXTENDS RTPCursor, Sequences

CONSTANTS MatchSets,    \* what a search can look for: sets of packets
          Stops,        \* slice ends: <<part, packet>>, packet -1 for the last
          Counts        \* slice lengths, negative ones go backward

ASSUME ScanAssumption ==
    /\ \A m \in MatchSets : m \subseteq Int \X Int
    /\ Stops \subseteq Int \X Int /\ Counts \subseteq Int

VARIABLES job,     \* the loop in progress, or the last one that ended
          seen     \* the packets it has handed out

scanVars == <<npkts, torn, pos_part, pos_pkt, part, reader, togo, out, job, seen>>

Before(p, q) == Tape!Before(p, q)
Ended == job.phase = "ended"

\* A job: which loop, its direction, where it started and whether the part it
\* started in had been read, its end (a position, or a count and what is left of it), where resolving
\* the end returns to, the position restoring() puts back, the packets searched
\* for and whether the end was met, the spans compute has still to fold.
NewJob(kind) ==
    [kind |-> kind, phase |-> "step", dir |-> "forward", from |-> Tell,
     warm |-> HasRead, stop |-> NoPacket, incl |-> FALSE, count |-> 0, left |-> 0,
     back |-> NoPacket, saved |-> NoPacket, match |-> {}, found |-> FALSE,
     spans |-> <<>>]

ScanInit ==
    /\ Init
    /\ job = [NewJob("none") EXCEPT !.phase = "ended"]
    /\ seen = <<>>

Start(j) == \* the body of a loop starts; restoring() remembers the position
    /\ Ended
    /\ \E saved \in {NoPacket, Tell} : job' = [j EXCEPT !.saved = saved]
    /\ seen' = <<>>
    /\ UNCHANGED vars

StartIter == Start([NewJob("iter") EXCEPT !.phase = "first"])

StartSearch(dir, m) == Start([NewJob("search") EXCEPT !.dir = dir, !.match = m])

StartSliceTo(stop, incl) ==
    Start([NewJob("slice") EXCEPT
             !.phase = IF stop[2] = -1 THEN "resolve" ELSE "compare",
             !.stop = stop, !.incl = incl])

StartSliceBy(n, incl) ==
    Start([NewJob("slice_by") EXCEPT
             !.phase = "first", !.dir = IF n < 0 THEN "backward" ELSE "forward",
             !.count = IF n < 0 THEN -n ELSE n, !.left = IF n < 0 THEN -n ELSE n,
             !.incl = incl])

\* Slip: the first span starts with its part.
StartComputeEarly ==
    Start([NewJob("compute") EXCEPT
             !.phase = "span",
             !.spans = [i \in 1 .. NbParts - pos_part |-> <<pos_part + i - 1, 0>>]])

\* compute(..., stop=None): one span per part from here to the end, the first
\* from the current packet, each up to and including the part's last packet.
StartCompute ==
    Start([NewJob("compute") EXCEPT
             !.phase = "span",
             !.spans = [i \in 1 .. NbParts - pos_part |->
                          <<pos_part + i - 1, IF i = 1 THEN pos_pkt ELSE 0>>]])

\* Slip: restoring() without a finally.
FinishKeepsPosition(j, how) ==
    [j EXCEPT !.kind = IF how = "raised" THEN "raised" ELSE @,
              !.phase = IF j.saved = NoPacket \/ how = "raised" THEN "ended" ELSE "restore"]

\* A loop that returns or raises leaves the restoring() block, if it is in one.
Finish(j, how) ==
    [j EXCEPT !.kind = IF how = "raised" THEN "raised" ELSE @,
              !.phase = IF j.saved = NoPacket THEN "ended" ELSE "restore"]

Restore ==
    /\ job.phase = "restore"
    /\ SeekTo(job.saved)
    /\ job' = [job EXCEPT !.phase = "ended",
                          !.kind = IF out'.res = "index_error" THEN "raised" ELSE @]
    /\ UNCHANGED seen

\* The end of one slice: compute folds the next span, anything else is over.
SliceOver(j) ==
    IF j.kind = "compute"
    THEN [j EXCEPT !.phase = IF j.spans = <<>> THEN "close" ELSE "span"]
    ELSE Finish(j, "returned")

(***************************************************************************)
(* slice(stop): the end is resolved inside a restoring() of its own, then  *)
(* compared with the position to choose the direction.  A slice that ends  *)
(* where it starts hands out nothing.                                      *)
(***************************************************************************)
Resolve ==
    /\ job.phase = "resolve"
    /\ SeekTo(job.stop)
    /\ job' = IF out'.res = "done"
              THEN [job EXCEPT !.phase = "resolved", !.stop = Tell', !.incl = TRUE,
                               !.back = Tell]
              ELSE [job EXCEPT !.phase = "unresolved", !.back = Tell]
    /\ UNCHANGED seen

\* Slip: an end that is no packet is not handled.
ResolvedOnly ==
    /\ job.phase = "resolved"
    /\ SeekTo(job.back)
    /\ job' = IF out'.res = "done" THEN [job EXCEPT !.phase = "compare"]
                                   ELSE Finish(job, "raised")
    /\ UNCHANGED seen

Resolved ==
    /\ job.phase \in {"resolved", "unresolved"}
    /\ SeekTo(job.back)
    /\ job' = IF job.phase = "resolved" /\ out'.res = "done"
              THEN [job EXCEPT !.phase = "compare"]
              ELSE Finish(job, "raised")
    /\ UNCHANGED seen

Compare ==
    /\ job.phase = "compare"
    /\ job' = IF job.stop = Tell
              THEN SliceOver(job)
              ELSE [job EXCEPT !.phase = "first",
                      !.dir = IF Before(job.stop, Tell) THEN "backward" ELSE "forward"]
    /\ UNCHANGED <<vars, seen>>

\* compute: the next span starts with a seek to its first packet.
Span ==
    /\ job.phase = "span"
    /\ SeekTo(Head(job.spans))
    /\ job' = IF out'.res = "done"
              THEN [job EXCEPT !.spans = Tail(@), !.phase = "resolve",
                               !.stop = <<Head(job.spans)[1], -1>>]
              ELSE Finish(job, "raised")
    /\ UNCHANGED seen

CloseCompute ==
    /\ job.phase = "close"
    /\ SeekTo(<<-1, -1>>)
    /\ job' = Finish(job, IF out'.res = "done" THEN "returned" ELSE "raised")
    /\ UNCHANGED seen

(***************************************************************************)
(* The loops proper.                                                       *)
(***************************************************************************)
\* `yield self.current()`; only __iter__ catches the IndexError of an empty part.
First ==
    /\ job.phase = "first"
    /\ Current
    /\ CASE out'.res = "packet" ->
              job' = [job EXCEPT !.phase = "step"] /\ seen' = Append(seen, out'.pkt)
         [] out'.res = "index_error" /\ job.kind # "iter" ->
              job' = Finish(job, "raised") /\ UNCHANGED seen
         [] OTHER -> job' = SliceOver(job) /\ UNCHANGED seen

Move == IF job.dir = "forward" THEN Advance ELSE Retreat

\* Slip: a slice runs one packet past its end.
AtEndLate ==
    CASE job.kind = "search" -> out'.pkt \in job.match
      [] job.kind \in {"slice", "compute"} ->
           IF job.dir = "forward" THEN Before(job.stop, Tell') ELSE Before(Tell', job.stop)
      [] job.kind = "slice_by" -> job.left = 1
      [] OTHER -> FALSE

\* Is the packet just reached the one the loop ends with?
AtEnd ==
    CASE job.kind = "search" -> out'.pkt \in job.match
      [] job.kind \in {"slice", "compute"} ->
           IF job.dir = "forward" THEN ~Before(Tell', job.stop)
                                  ELSE ~Before(job.stop, Tell')
      [] job.kind = "slice_by" -> job.left = 1
      [] OTHER -> FALSE

Step ==
    /\ job.phase = "step"
    /\ Move
    /\ CASE out'.res = "stop" ->
              \* StopIteration: caught by search and slice, ends a generator
              job' = SliceOver(job) /\ UNCHANGED seen
         [] out'.res = "index_error" ->
              job' = Finish(job, "raised") /\ UNCHANGED seen
         [] out'.res = "packet" /\ AtEnd ->
              /\ job' = SliceOver([job EXCEPT !.found = TRUE])
              /\ seen' = IF job.incl THEN Append(seen, out'.pkt) ELSE seen
         [] OTHER ->
              /\ job' = [job EXCEPT !.left = IF job.kind = "slice_by" THEN @ - 1 ELSE @]
              /\ seen' = IF job.kind = "search" THEN seen ELSE Append(seen, out'.pkt)

JobStep == \/ Restore \/ Resolve \/ Resolved \/ Compare \/ Span \/ CloseCompute
           \/ First \/ Step

\* The predicate of a search, compute's m or r or the caller's own code raises on a
\* packet it is given, wherever the loop has come to.
BodyRaises ==
    /\ job.phase = "step" /\ (job.kind = "search" => Tell # job.from)
    /\ job' = Finish(job, "raised")
    /\ UNCHANGED <<vars, seen>>

Between == \* the caller's own seeks and reads
    /\ Ended
    /\ Current \/ \E t \in Targets : SeekTo(t)
    /\ job' = [NewJob("none") EXCEPT !.phase = "ended"]
    /\ seen' = <<>>

ScanNext ==
    \/ StartIter
    \/ \E dir \in {"forward", "backward"}, m \in MatchSets : StartSearch(dir, m)
    \/ \E stop \in Stops, incl \in BOOLEAN : StartSliceTo(stop, incl)
    \/ \E n \in Counts, incl \in BOOLEAN : StartSliceBy(n, incl)
    \/ StartCompute
    \/ JobStep \/ BodyRaises
    \/ Between

ScanSpec == ScanInit /\ [][ScanNext]_scanVars /\ WF_scanVars(JobStep)
-----------------------------------------------------------------------------
(***************************************************************************)
(* Properties.                                                             *)
(***************************************************************************)
CleanArchive == torn = {} /\ \A p \in Parts : npkts[p] > 0
Packets == UNION { {p} \X (0 .. npkts[p] - 1) : p \in Parts }
Seen == { seen[i] : i \in DOMAIN seen }
Over(kind) == Ended /\ job.kind = kind

ScanTypeOK ==
    /\ TypeOK
    /\ job.kind \in {"none", "iter", "search", "slice", "slice_by", "compute", "raised"}
    /\ job.phase \in {"ended", "restore", "resolve", "resolved", "unresolved",
                      "compare", "first", "step", "span", "close"}
    /\ seen \in Seq(Int \X Int)

\* One iteration or slice hands out neighbouring packets, one after the other in
\* its direction, starting with the current one: over part boundaries, empty and
\* torn parts and parts a seek has closed it never skips or repeats a packet.
WalkIsContiguous ==
    job.kind \in {"iter", "slice", "slice_by"} /\ seen # <<>> =>
       /\ seen[1] = job.from
       /\ \A i \in 1 .. Len(seen) - 1 :
             IF job.dir = "forward" THEN Tape!Adjacent(seen[i], seen[i + 1])
                                    ELSE Tape!Adjacent(seen[i + 1], seen[i])

SliceRange ==  \* what a slice from job.from to job.stop holds
    { p \in Packets :
        \/ p = job.from
        \/ p = job.stop /\ job.incl
        \/ Before(job.from, p) /\ Before(p, job.stop)
        \/ Before(job.stop, p) /\ Before(p, job.from) }

Ahead == { p \in Packets : IF job.dir = "forward" THEN ~Before(p, job.from)
                                                 ELSE ~Before(job.from, p) }

\* Over parts that all have packets a walk hands out all it is asked for.  A slice to
\* a position: the packets from the current one to that position, which is included
\* only when asked for, unless it starts there.  slice(n), for n # 0: n packets, n + 1
\* when inclusive, or as many as there are in its direction.  An iteration: every
\* packet up to the last one of the archive.
WalkIsComplete ==
    CleanArchive =>
       /\ Over("slice") /\ job.stop \in Packets \ {job.from} => Seen = SliceRange
       /\ Over("slice_by") =>
             IF job.found THEN Len(seen) = job.count + (IF job.incl THEN 1 ELSE 0)
                          ELSE Seen = Ahead
       /\ Over("iter") => Seen = Ahead

Nearest(p) ==
    /\ p \in job.match
    /\ IF job.dir = "forward" THEN Before(job.from, p) ELSE Before(p, job.from)
    /\ \A m \in job.match \cap Packets :
          ~(Before(job.from, m) /\ Before(m, p)) /\ ~(Before(p, m) /\ Before(m, job.from))

\* A search returns the nearest match in its direction and finds none only when
\* there is none: backward always, forward when the part had been read before.
SearchFindsNearest ==
    Over("search") /\ CleanArchive /\ (job.dir = "backward" \/ job.warm) =>
       IF job.found THEN job.saved = NoPacket => Nearest(Tell)
                    ELSE \A m \in Packets : ~Nearest(m)

\* A loop inside restoring() that started on a packet leaves the cursor on it again,
\* over any parts, whether it returned, ran into a packet that is cut short or a part
\* without packets, or the code it runs raised on a packet further on.
RestoringRestores == Ended /\ job.saved \in Packets => Tell = job.saved

\* What compute does guarantee: no packet twice, none from before the start, and
\* those it leaves out are alone in what is left of their part.
ComputeFoldsAtMostOnce ==
    Over("compute") /\ CleanArchive =>
       /\ \A i \in 1 .. Len(seen) - 1 : Before(seen[i], seen[i + 1])
       /\ \A p \in Seen : ~Before(p, job.from)
       /\ \A p \in Packets : ~Before(p, job.from) =>
             \/ p \in Seen
             \/ p[2] = npkts[p[1]] - 1 /\ (p = job.from \/ p[2] = 0)

\* Every loop ends, over empty and torn parts too.
LoopsEnd == ~Ended ~> Ended
=============================================================================
