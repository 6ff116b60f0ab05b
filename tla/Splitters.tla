----------------------------- MODULE Splitters -----------------------------
(***************************************************************************)
(* The two stream transformers.  They share no state: a behaviour runs one *)
(* of them, and the other stays in its initial state.                      *)
(***************************************************************************)
EXTENDS FrameSplitter, Integers

CONSTANTS
    Base, PrefixLength, BigEndian, LengthIncludesPrefix,
    MaxPayload,  \* maxFrameLength of the splitter with a prefix
    Payloads, Noise, MaxFrames

VARIABLES kind, sent, wire, prefixBuffer, payloads, errors, ended, synced

framedVars == <<sent, wire, prefixBuffer, payloads, errors, ended, synced>>

ASSUME PrefixAssumption ==
    /\ Base \in Nat \ {0, 1} /\ PrefixLength \in Nat \ {0}
    /\ MaxPayload \in Nat \cup {NoLimit}
ASSUME SenderAssumption == Payloads \cup Noise \subseteq Seq(0..(Base - 1))

Prefixed == INSTANCE LengthFrameSplitter
    WITH MaxFrameLength <- MaxPayload,
         buffer <- prefixBuffer, frames <- payloads, done <- ended

EitherInit == kind \in {"delimited", "prefixed"} /\ Init /\ Prefixed!Init

EitherNext == \/ kind = "delimited" /\ Next /\ UNCHANGED <<kind, framedVars>>
              \/ kind = "prefixed" /\ Prefixed!Next /\ UNCHANGED <<kind, vars>>

EitherSpec == EitherInit /\ [][EitherNext]_<<kind, vars, framedVars>>

-----------------------------------------------------------------------------
\* Frames come out as they went in (LengthFrameSplitter, RoundTrip).
RoundTrip == Prefixed!RoundTrip

\* What either transformer keeps between two chunks is within its cap.
BufferBounded == RemainderBounded /\ Prefixed!BufferBounded
=============================================================================
