---------------------------- MODULE MCSplitters ----------------------------
(* Small instances of Splitters for TLC.                                   *)
EXTENDS Splitters

\* A delimiter that overlaps itself, and straddles up to three chunks.
Overlapping == <<1, 2, 1>>

\* Payloads around the cap (5) and around what two digits of base 3 that count
\* themselves can describe (8 - 2), and one whose bytes look like a prefix.
Zeros(n) == [i \in 1..n |-> 0]
SomePayloads == {Zeros(n) : n \in {0, 5, 6, 7}} \cup {<<2, 0, 1>>}

SomeNoise == {<<0>>, <<0, 1>>, <<2, 2>>}
=============================================================================
