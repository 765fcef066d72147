-------------------------------- MODULE Split --------------------------------
(***************************************************************************)
(* The split command: an archive is cut into part files of limited         *)
(* duration and count.  rtp.split_packets is a generator of generators     *)
(* over one reader: the packet that does not fit into a chunk is kept in   *)
(* shared state for the next one, and a chunk is only as far as the        *)
(* command has consumed it.  A part file that exists is not written again  *)
(* unless --force is given; its packets are consumed all the same.  The    *)
(* process can die at any time, and the command be run again.  Part files  *)
(* are those of MJR, and read back through it.                             *)
(***************************************************************************)
EXTENDS MJR, SequencesExt

CONSTANTS Inputs,     \* archives: sequences of the times of their packets
          Limits,     \* [duration, count], None for a limit that is not given
          None,
          MaxRuns     \* bound: runs of the command

ASSUME InputsAssumption == \A s \in Inputs : s \in Seq(Int)
ASSUME LimitsAssumption == Limits \subseteq [duration : Int \cup {None}, count : Int \cup {None}]
ASSUME MaxRunsAssumption == MaxRuns \in Nat

VARIABLES secs,       \* the archive
          limits,     \* --duration and --count, the same for every run
          numbered,   \* out_format holds {part}
          files,      \* the part files there are, by number: what is on disk, and
                      \* whether the part was written to its end
          runs,       \* runs started
          force,      \* --force of this run
          pc,         \* "off", "slice" (between chunks), "open", "chunk"
          nxt,        \* packets read from the archive
          last,       \* packet kept for the next chunk, or 0
          epoch, cnt, \* time of the chunk's first packet, packets counted
          i,          \* chunks begun
          held,       \* packet handed out by the chunk and not yet written
          skip,       \* the chunk is consumed without being written
          done        \* the last run came to its end

input == <<secs, limits, numbered>>
state == <<nxt, last, epoch, cnt>>
vars == <<input, files, runs, force, pc, state, i, held, skip, done>>

Packets == 1 .. Len(secs)
Path == IF numbered THEN i ELSE 1

Init ==
    /\ secs \in Inputs /\ limits \in Limits /\ numbered \in BOOLEAN
    /\ files = <<>> /\ runs = 0 /\ force = FALSE /\ pc = "off"
    /\ nxt = 0 /\ last = 0 /\ epoch = None /\ cnt = 0
    /\ i = 0 /\ held = 0 /\ skip = FALSE /\ done = FALSE

Start(f) ==
    /\ pc = "off" /\ runs < MaxRuns
    /\ runs' = runs + 1 /\ force' = f /\ pc' = "slice" /\ done' = FALSE
    /\ nxt' = 0 /\ last' = 0 /\ epoch' = None /\ cnt' = 0
    /\ i' = 0 /\ held' = 0 /\ skip' = FALSE
    /\ UNCHANGED <<input, files>>

\* The predicate: packet p, the n-th of a chunk that began at time from, is part of it.
Within(p, from, n) ==
    /\ limits.duration # None => secs[p] - from < limits.duration
    /\ limits.count # None => n < limits.count

\* The packet a chunk begins with: the one kept, or the next of the archive.
Kept == last # 0
FirstOne == IF Kept THEN last ELSE nxt + 1

\* Slip: the count of the chunk before runs on.
NextChunkCountsOn ==
    /\ pc = "slice" /\ FirstOne \in Packets /\ Within(FirstOne, secs[FirstOne], cnt + 1)
    /\ pc' = "open" /\ i' = i + 1 /\ held' = FirstOne
    /\ epoch' = secs[FirstOne] /\ cnt' = cnt + 1
    /\ nxt' = FirstOne /\ last' = 0
    /\ UNCHANGED <<input, files, runs, force, skip, done>>

NextChunk ==
    /\ pc = "slice" /\ FirstOne \in Packets /\ Within(FirstOne, secs[FirstOne], 1)
    /\ pc' = "open" /\ i' = i + 1 /\ held' = FirstOne
    /\ epoch' = secs[FirstOne] /\ cnt' = 1
    /\ nxt' = FirstOne /\ last' = 0
    /\ UNCHANGED <<input, files, runs, force, skip, done>>

\* The archive is at its end, or its next packet fits into no chunk at all.
NoMoreChunks ==
    /\ pc = "slice"
    /\ ~(FirstOne \in Packets /\ Within(FirstOne, secs[FirstOne], 1))
    /\ pc' = "off" /\ done' = TRUE
    /\ last' = IF FirstOne \in Packets THEN FirstOne ELSE 0
    /\ nxt' = IF FirstOne \in Packets THEN FirstOne ELSE nxt
    /\ epoch' = IF FirstOne \in Packets THEN secs[FirstOne] ELSE None
    /\ cnt' = IF FirstOne \in Packets THEN 1 ELSE 0
    /\ UNCHANGED <<input, files, runs, force, i, held, skip>>

\* Slip: a file that exists is written again in any case.
NotSkipped == FALSE

Skips == ~force /\ Path \in DOMAIN files

OpenPart ==
    /\ pc = "open"
    /\ pc' = "chunk" /\ skip' = Skips
    /\ files' = IF Skips THEN files
                ELSE [p \in DOMAIN files \cup {Path} |->
                        IF p = Path THEN [mjr |-> Record(0), whole |-> FALSE] ELSE files[p]]
    /\ UNCHANGED <<input, runs, force, state, i, held, done>>

\* What the file holds once the packet in hand is written.
Written(whole) ==
    IF skip THEN files
    ELSE [files EXCEPT ![Path] = [mjr |-> @.mjr \o Record(held), whole |-> whole]]

Put ==
    /\ pc = "chunk"
    /\ nxt + 1 \in Packets /\ Within(nxt + 1, epoch, cnt + 1)
    /\ files' = Written(FALSE)
    /\ held' = nxt + 1 /\ nxt' = nxt + 1 /\ cnt' = cnt + 1
    /\ UNCHANGED <<input, runs, force, pc, last, epoch, i, skip, done>>

\* Slip: the packet that did not fit is forgotten.
PutLastForgets ==
    /\ pc = "chunk"
    /\ ~(nxt + 1 \in Packets /\ Within(nxt + 1, epoch, cnt + 1))
    /\ files' = Written(TRUE)
    /\ pc' = "slice" /\ held' = 0
    /\ last' = 0
    /\ nxt' = IF nxt + 1 \in Packets THEN nxt + 1 ELSE nxt
    /\ UNCHANGED <<input, runs, force, epoch, cnt, i, skip, done>>

\* The chunk ends: the packet that did not fit is kept, the file closed.
PutLast ==
    /\ pc = "chunk"
    /\ ~(nxt + 1 \in Packets /\ Within(nxt + 1, epoch, cnt + 1))
    /\ files' = Written(TRUE)
    /\ pc' = "slice" /\ held' = 0
    /\ last' = IF nxt + 1 \in Packets THEN nxt + 1 ELSE 0
    /\ nxt' = IF nxt + 1 \in Packets THEN nxt + 1 ELSE nxt
    /\ UNCHANGED <<input, runs, force, epoch, cnt, i, skip, done>>

\* The process is killed, or an error ends it: of the file it was writing any part of
\* what was written may be on disk, the packet in hand included.
Dies ==
    /\ pc # "off" /\ pc' = "off"
    /\ IF pc = "chunk" /\ ~skip
       THEN LET f == files[Path].mjr \o Record(held)
            IN \E n \in 0 .. Len(f) : files' = [files EXCEPT ![Path].mjr = SubSeq(f, 1, n)]
       ELSE UNCHANGED files
    /\ UNCHANGED <<input, runs, force, state, i, held, skip, done>>

Next ==
    \/ \E f \in BOOLEAN : Start(f)
    \/ NextChunk \/ NoMoreChunks
    \/ OpenPart \/ Put \/ PutLast
    \/ Dies

Spec == Init /\ [][Next]_vars

-----------------------------------------------------------------------------
(***************************************************************************)
(* Properties.                                                             *)
(***************************************************************************)
\* Types, and the state the chunks share: every packet read so far is written or
\* consumed, in hand or kept, and the count is that of the chunk.
TypeOK ==
    /\ pc \in {"off", "slice", "open", "chunk"}
    /\ nxt \in 0 .. Len(secs) /\ last \in {0, nxt} /\ held \in {0, nxt}
    /\ pc \in {"open", "chunk"} => held # 0 /\ last = 0
    /\ \A p \in DOMAIN files : files[p].mjr \in Seq(Field) /\ files[p].whole \in BOOLEAN
    /\ pc = "chunk" /\ ~skip => cnt = Len(ReadBack(files[Path].mjr)) + 1

\* A part may hold the packets b .. e: they are within both limits, and there is a
\* reason to end there: the duration is reached, the count is, but for one packet at
\* most, or the archive ends.
IsPart(b, e) ==
    /\ limits.duration # None => \A q \in b .. e : secs[q] < secs[b] + limits.duration
    /\ limits.count # None => e - b + 1 <= limits.count
    /\ e < Len(secs) =>
          \/ limits.duration # None /\ secs[e + 1] >= secs[b] + limits.duration
          \/ limits.count # None /\ e - b + 1 >= limits.count - 1

IsWhole(p) == p \in DOMAIN files /\ files[p].whole

\* Every part file that was written to its end holds neighbouring packets, no more than
\* the limits allow and at most one less than the count does, and follows on the part
\* before it, whichever runs wrote the two, were killed in between, or skipped parts that
\* existed.
PartsAreChunks ==
    numbered => \A p \in DOMAIN files : files[p].whole =>
       LET f == ReadBack(files[p].mjr) IN
       /\ f # <<>>
       /\ \A k \in 1 .. Len(f) : f[k] = f[1] + k - 1
       /\ IsPart(f[1], Last(f))
       /\ p = 1 => f[1] = 1
       /\ IsWhole(p - 1) => f[1] = Last(ReadBack(files[p - 1].mjr)) + 1

\* A part file that was cut short anywhere opens unless its header was, and then reads
\* back, without raising, as the beginning of the part its number says.  Its index
\* lists what iteration yields and at most one packet more, the one cut short; in a
\* file that was written to its end the two agree.
PartsReadBack ==
    \A p \in DOMAIN files :
       LET f == files[p].mjr
           got == ReadBack(f)
       IN /\ files[p].whole => Opens(f) /\ Indexed(f) = Iterated(f)
          /\ Opens(f) => /\ ~IterationRaises(f)
                         /\ Indexed(f) \in {1 .. Len(got), 1 .. Len(got) + 1}
          /\ numbered /\ got # <<>> /\ (p = 1 \/ IsWhole(p - 1)) =>
                /\ got[1] = IF p = 1 THEN 1 ELSE Last(ReadBack(files[p - 1].mjr)) + 1
                /\ \A k \in 1 .. Len(got) : got[k] = got[1] + k - 1
                /\ \E e \in Packets : got[Len(got)] <= e /\ IsPart(got[1], e)

\* Once a run has come to its end, and if no part file is left cut short, the part
\* files hold all packets.  A run with --force leaves none cut short, whatever runs that
\* were killed had left.
AllInParts == \A q \in Packets : \E p \in DOMAIN files :
                    \E k \in Iterated(files[p].mjr) : ReadBack(files[p].mjr)[k] = q
NoneCutShort == \A p \in DOMAIN files : files[p].whole

\* Limits one packet can be within.
Satisfiable ==
    (limits.duration = None \/ limits.duration > 0) /\ (limits.count = None \/ limits.count > 1)

NothingIsLost ==
    /\ done /\ numbered /\ Satisfiable /\ NoneCutShort => AllInParts
    /\ done /\ force /\ numbered => NoneCutShort

\* The same for any limits: the command splits the packets into files.
NothingIsLostByLimits == done /\ numbered /\ NoneCutShort => AllInParts

\* Without --force no step changes a part file that was written to its end.
FinishedPartsStay ==
    [][\A p \in DOMAIN files : files[p].whole /\ ~force => p \in DOMAIN files' /\ files'[p] = files[p]]_vars
=============================================================================
