--------------------------- MODULE FrameSplitter ---------------------------
(***************************************************************************)
(* BtcFrameSplitter (lib/src/btc_frame_splitter.dart): cuts a byte stream  *)
(* at a delimiter, whatever chunks the stream arrives in.  To search each  *)
(* byte once it remembers how far it has looked, and backs up by one byte  *)
(* less than a delimiter.                                                  *)
(***************************************************************************)
EXTENDS Naturals, Sequences, FiniteSetsExt

CONSTANTS
    Bytes,           \* the values a byte takes
    Delimiter,       \* delimiter
    MaxFrameLength,  \* maxFrameLength
    NoLimit,         \* the value null of MaxFrameLength
    MaxChunk,        \* bound: bytes of a chunk
    MaxInput         \* bound: bytes received

ASSUME DelimiterAssumption == Delimiter \in Seq(Bytes) /\ Delimiter # <<>>
ASSUME LimitAssumption == MaxFrameLength \in Nat \cup {NoLimit} /\ NoLimit \notin Nat
ASSUME InputAssumption == MaxChunk \in Nat /\ MaxInput \in Nat

VARIABLES
    buffer,   \* buffer
    scanned,  \* scanned
    frames,   \* frames emitted so far
    done,     \* onDone has run
    input,    \* bytes received so far, without those an overflow dropped
    total     \* bytes received so far

vars == <<buffer, scanned, frames, done, input, total>>

Init == /\ buffer = <<>> /\ scanned = 0 /\ frames = <<>>
        /\ done = FALSE /\ input = <<>> /\ total = 0

Occurs(s, i) == /\ i + Len(Delimiter) - 1 <= Len(s)
                /\ \A j \in 1..Len(Delimiter) : s[i + j - 1] = Delimiter[j]

\* _indexOf(): the first place at or after from, or 0.
IndexOf(s, from) == LET found == {i \in from..Len(s) : Occurs(s, i)}
                    IN IF found = {} THEN 0 ELSE Min(found)

\* A faulty SearchFrom: it does not back up.
SearchOnward(n) == 1 + n

\* Where the search for the next delimiter starts in a buffer of which n bytes
\* were searched before.
SearchFrom(n) == 1 + (IF n < Len(Delimiter) - 1 THEN 0 ELSE n - (Len(Delimiter) - 1))

\* A faulty Cut: a delimiter is stripped as if it were one byte.
CutOneByte(s, from) ==
    LET i == IndexOf(s, from)
    IN IF i = 0 THEN [frames |-> <<>>, rest |-> 1]
                ELSE [frames |-> <<SubSeq(s, 1, i - 1)>>, rest |-> i + 1]

\* The loop of onData(): the frames cut off, and where the remainder starts.
\* The first search begins at from, the others where the last delimiter ends.
Cut(s, from) ==
    LET cut[start \in 1..(Len(s) + 1)] ==
            LET i == IndexOf(s, IF start = 1 THEN from ELSE start)
                next == i + Len(Delimiter)
            IN IF i = 0 THEN [frames |-> <<>>, rest |-> start]
               ELSE [frames |-> <<SubSeq(s, start, i - 1)>> \o cut[next].frames,
                     rest |-> cut[next].rest]
    IN cut[1]

TooLong(s) == MaxFrameLength # NoLimit /\ Len(s) > MaxFrameLength

\* onData(); a remainder that is too long is dropped with a StateError.
OnData(chunk) ==
    /\ ~done /\ total + Len(chunk) <= MaxInput
    /\ total' = total + Len(chunk)
    /\ LET s == buffer \o chunk
           cut == Cut(s, SearchFrom(scanned))
           remainder == SubSeq(s, cut.rest, Len(s))
       IN /\ frames' = frames \o cut.frames
          /\ buffer' = IF TooLong(remainder) THEN <<>> ELSE remainder
          /\ input' = IF TooLong(remainder)
                      THEN SubSeq(input \o chunk, 1, Len(input \o chunk) - Len(remainder))
                      ELSE input \o chunk
    /\ scanned' = Len(buffer')
    /\ UNCHANGED done

\* onDone(): the remainder is dropped.
OnDone == /\ ~done
          /\ done' = TRUE
          /\ buffer' = <<>>
          /\ UNCHANGED <<scanned, frames, input, total>>

Next == \/ \E n \in 1..MaxChunk : \E chunk \in [1..n -> Bytes] : OnData(chunk)
        \/ OnDone

Spec == Init /\ [][Next]_vars

-----------------------------------------------------------------------------
\* Every variable holds a value of its kind.
TypeOK == /\ buffer \in Seq(Bytes)
          /\ scanned \in 0..MaxInput /\ total \in 0..MaxInput
          /\ frames \in Seq(Seq(Bytes)) /\ input \in Seq(Bytes)
          /\ done \in BOOLEAN

\* "A guard against a missing delimiter growing memory without bound" (l. 25):
\* what stays buffered between two chunks is within the cap.
RemainderBounded == MaxFrameLength # NoLimit => Len(buffer) <= MaxFrameLength

Contains(s) == \E i \in 1..Len(s) : Occurs(s, i)

Joined(fs) == LET joined[k \in 0..Len(fs)] ==
                      IF k = 0 THEN <<>> ELSE joined[k - 1] \o fs[k] \o Delimiter
              IN joined[Len(fs)]

\* Every byte is accounted for: the frames, each with its delimiter, and the
\* remainder are what was received, in order, however it was chunked.
NothingLost == ~done => Joined(frames) \o buffer = input

\* Every delimiter is found, at the first place it occurs, even when it
\* straddles chunks: the remainder holds none, and a frame with its delimiter
\* holds one at its end only.
NoneMissed ==
    /\ ~Contains(buffer)
    /\ \A k \in 1..Len(frames) :
          LET s == frames[k] \o Delimiter IN IndexOf(s, 1) = Len(frames[k]) + 1
=============================================================================
