--------------------------------- MODULE MJR ---------------------------------
(***************************************************************************)
(* mjr.py: archives as the janus gateway records them, and as split        *)
(* writes them.  A file is a row of records, each a marker, a length and   *)
(* a payload; the first record is the header, its payload the media type.  *)
(* A file is modelled by its fields that are whole: a field that is cut    *)
(* short reads like one that is missing.  Records are numbered from 0, the *)
(* header, so that packet k is record k.                                   *)
(***************************************************************************)
EXTENDS Integers, Sequences

Field == [is : {"marker", "length", "payload"}, of : Nat]

\* write_header and write_packet, by their calls of fo.write; the header is of = 0.
Record(n) == << [is |-> "marker", of |-> n], [is |-> "length", of |-> n],
                [is |-> "payload", of |-> n] >>

\* Field i of record k, and the message of the ValueError when it is not there.
At(k, i) == 3 * k + i
Message(f, k, i) ==
    IF At(k, i) \notin DOMAIN f THEN "Failed to read"
    ELSE IF i = 1 /\ f[At(k, i)].is # "marker" THEN "Invalid marker" ELSE "none"

\* What read_packet, or skip_packet, of record k raises: skipping seeks over the
\* payload, and a seek past the end of a file succeeds.
First(messages) == LET e == { i \in DOMAIN messages : messages[i] # "none" }
                   IN IF e = {} THEN "none" ELSE messages[CHOOSE i \in e : \A j \in e : i <= j]
ReadRaises(f, k) == First([i \in 1 .. 3 |-> Message(f, k, i)])
SkipRaises(f, k) == First([i \in 1 .. 2 |-> Message(f, k, i)])

\* Slip: only a failed seek is the end.
IsEofSeek(message) == message = "Failed to seek"

\* The error is taken for the end of the file; so is a marker that is none.
IsEof(message) == message = "Failed to read" \/ message # "Failed to seek"

Opens(f) == ReadRaises(f, 0) = "none"

\* The packets index() lists and iteration reads: up to the first error.
Indexed(f) == { k \in 1 .. Len(f) : \A j \in 1 .. k : SkipRaises(f, j) = "none" }
Iterated(f) == { k \in 1 .. Len(f) : \A j \in 1 .. k : ReadRaises(f, j) = "none" }
ReadBack(f) == [k \in Iterated(f) |-> f[At(k, 3)].of]

\* read_packets lets an error out that is not the end of the file.
IterationRaises(f) == ~IsEof(ReadRaises(f, Len(ReadBack(f)) + 1))
=============================================================================
