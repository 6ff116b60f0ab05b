------------------------ MODULE LengthFrameSplitter ------------------------
(***************************************************************************)
(* BtcLengthFrameSplitter (lib/src/btc_length_frame_splitter.dart): frames *)
(* that begin with their length, and frame(), which writes them.  A sender *)
(* frames payloads, the wire cuts the bytes anywhere, and the splitter     *)
(* puts the frames together again.  A byte here is a digit of base Base.   *)
(***************************************************************************)
EXTENDS Naturals, Integers, Sequences

CONSTANTS
    Base,                  \* 256 in the code
    PrefixLength,          \* prefixLength
    BigEndian,             \* bigEndian
    LengthIncludesPrefix,  \* lengthIncludesPrefix
    MaxFrameLength,        \* maxFrameLength
    NoLimit,               \* the value null of MaxFrameLength
    Payloads,              \* payloads a sender may send
    Noise,                 \* byte sequences that are no frames
    MaxFrames,             \* bound: frames and noise sent
    MaxChunk               \* bound: bytes of a chunk

VARIABLES
    sent,    \* payloads the sender framed, in order
    wire,    \* bytes not yet received
    buffer,  \* buffer
    frames,  \* payloads emitted
    errors,  \* StateErrors emitted
    done,    \* onDone has run
    synced   \* only frames were sent, none longer than MaxFrameLength

vars == <<sent, wire, buffer, frames, errors, done, synced>>

Init == /\ sent = <<>> /\ wire = <<>> /\ buffer = <<>> /\ frames = <<>>
        /\ errors = 0 /\ done = FALSE /\ synced = TRUE

Prefix(payload) == IF LengthIncludesPrefix THEN Len(payload) + PrefixLength ELSE Len(payload)

\* Powers of Base, by multiplication.
Powers[k \in 0..PrefixLength] == IF k = 0 THEN 1 ELSE Base * Powers[k - 1]

\* (1 << (prefixLength * 8)) - 1.
Largest == Powers[PrefixLength] - 1

\* The weight of the prefix's i-th byte.
Weight(i) == Powers[IF BigEndian THEN PrefixLength - i ELSE i - 1]

\* frame(), of a payload the prefix can describe.
Frame(payload) ==
    [i \in 1..PrefixLength |-> (Prefix(payload) \div Weight(i)) % Base] \o payload

\* _readLength(), less the prefix if it counts itself.
ReadLength(s, at) ==
    LET value[i \in 0..PrefixLength] ==
            IF i = 0 THEN 0 ELSE value[i - 1] + s[at + i - 1] * Weight(i)
    IN value[PrefixLength] - (IF LengthIncludesPrefix THEN PrefixLength ELSE 0)

\* Faulty variants of Unusable: no cap; a cap that excludes itself.
UnusableNegative(n) == n < 0
UnusableAtCap(n) == n < 0 \/ (MaxFrameLength # NoLimit /\ n >= MaxFrameLength)

Unusable(n) == n < 0 \/ (MaxFrameLength # NoLimit /\ n > MaxFrameLength)

\* The loop of onData(): the frames in s, where the rest starts, and whether a
\* length was unusable.
Parse(s) ==
    LET parse[start \in 1..(Len(s) + 1)] ==
            LET left == Len(s) + 1 - start
                n == ReadLength(s, start)
                next == start + PrefixLength + n
                rest == parse[next]
            IN IF left < PrefixLength
               THEN [frames |-> <<>>, rest |-> start, error |-> FALSE]
               ELSE IF Unusable(n)
               THEN [frames |-> <<>>, rest |-> Len(s) + 1, error |-> TRUE]
               ELSE IF left < PrefixLength + n
               THEN [frames |-> <<>>, rest |-> start, error |-> FALSE]
               ELSE [rest EXCEPT !.frames =
                        <<SubSeq(s, start + PrefixLength, next - 1)>> \o @]
    IN parse[1]

-----------------------------------------------------------------------------
\* frame() throws on a payload its prefix cannot describe.
Send(payload) == /\ Len(sent) < MaxFrames /\ Prefix(payload) <= Largest
                 /\ sent' = Append(sent, payload)
                 /\ wire' = wire \o Frame(payload)
                 /\ synced' = (synced /\ (\/ MaxFrameLength = NoLimit
                                        \/ Len(payload) <= MaxFrameLength))
                 /\ UNCHANGED <<buffer, frames, errors, done>>

\* External: the device sends something else.
SendNoise(bytes) == /\ Len(sent) < MaxFrames
                    /\ sent' = Append(sent, bytes)
                    /\ wire' = wire \o bytes
                    /\ synced' = FALSE
                    /\ UNCHANGED <<buffer, frames, errors, done>>

\* onData(), with a chunk of n bytes.
OnData(n) ==
    /\ ~done /\ n <= Len(wire)
    /\ LET s == buffer \o SubSeq(wire, 1, n)
           parsed == Parse(s)
       IN /\ frames' = frames \o parsed.frames
          /\ buffer' = SubSeq(s, parsed.rest, Len(s))
          /\ errors' = IF parsed.error THEN errors + 1 ELSE errors
    /\ wire' = SubSeq(wire, n + 1, Len(wire))
    /\ UNCHANGED <<sent, done, synced>>

\* onDone(), between two chunks: a frame of which a part came is dropped.
OnDone == /\ ~done
          /\ done' = TRUE
          /\ buffer' = <<>>
          /\ UNCHANGED <<sent, wire, frames, errors, synced>>

Next == \/ \E payload \in Payloads : Send(payload)
        \/ \E bytes \in Noise : SendNoise(bytes)
        \/ \E n \in 1..MaxChunk : OnData(n)
        \/ OnDone

Spec == Init /\ [][Next]_vars

-----------------------------------------------------------------------------
\* Frames come out as they went in: while only frames are sent no error is
\* raised, what was emitted is a prefix of what was sent, and once everything
\* was received it is all of it, however the bytes were chunked.
RoundTrip ==
    synced => /\ errors = 0
              /\ Len(frames) <= Len(sent)
              /\ frames = SubSeq(sent, 1, Len(frames))
              /\ wire = <<>> /\ ~done => frames = sent /\ buffer = <<>>

\* "A guard against a desynchronised stream reserving memory without bound":
\* whatever arrives, what stays buffered is less than one legal frame.
BufferBounded ==
    MaxFrameLength # NoLimit => Len(buffer) < PrefixLength + MaxFrameLength
=============================================================================
