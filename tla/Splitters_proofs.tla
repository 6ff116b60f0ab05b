-------------------------- MODULE Splitters_proofs --------------------------
(***************************************************************************)
(* Proofs about the two splitters, for any delimiter or prefix, any chunks *)
(* and any number of bytes.  What a loop does for every input is an        *)
(* induction over data; it is done here by the least counterexample        *)
(* (Least, Upward, Downward) and rests on the loop's function being there  *)
(* at all (Recursion).                                                     *)
(***************************************************************************)
EXTENDS Splitters, WellFoundedInduction, SequenceTheorems, TLAPS

\* A set of naturals that has an element has a least one.
LEMMA Least ==
  ASSUME NEW T \in SUBSET Nat, T # {}
  PROVE  \E x \in T : \A y \in T : x <= y
<1>1. PICK x \in T : \A y \in T : <<y, x>> \notin OpToRel(<, Nat)
  BY NatLessThanWellFounded, WFMin
<1>2. \A y \in T : ~(y < x)
  BY <1>1 DEF OpToRel
<1> QED
  BY <1>2

\* F makes of a function and a place what the function should be there, and for that looks
\* at it at places of smaller rank only.
Descends(F, Dom, V, rank) ==
    /\ V # {} /\ rank \in [Dom -> Nat] /\ F \in [[Dom -> V] \X Dom -> V]
    /\ \E n \in Nat : \A x \in Dom : rank[x] < n
    /\ \A g, h \in [Dom -> V] : \A x \in Dom :
          (\A y \in Dom : rank[y] < rank[x] => g[y] = h[y]) => F[<<g, x>>] = F[<<h, x>>]

\* The function is what F makes of it.
Solves(f, F, Dom) == \A x \in Dom : f[x] = F[<<f, x>>]

\* A recursive definition of that form has a solution.
LEMMA Recursion ==
  ASSUME NEW F, NEW Dom, NEW V, NEW rank, Descends(F, Dom, V, rank)
  PROVE  \E f \in [Dom -> V] : Solves(f, F, Dom)
<1>0. PICK n \in Nat : \A x \in Dom : rank[x] < n
  BY DEF Descends
<1>a. /\ V # {} /\ rank \in [Dom -> Nat] /\ F \in [[Dom -> V] \X Dom -> V]
      /\ \A g, h \in [Dom -> V] : \A x \in Dom :
            (\A y \in Dom : rank[y] < rank[x] => g[y] = h[y]) => F[<<g, x>>] = F[<<h, x>>]
  BY DEF Descends
<1> DEFINE Up(m) == \E f \in [Dom -> V] : \A x \in Dom : rank[x] < m => f[x] = F[<<f, x>>]
           Bad == {m \in Nat : ~Up(m)}
<1>1. Up(0)
  <2>1. PICK v : v \in V
    BY <1>a
  <2>2. [x \in Dom |-> v] \in [Dom -> V]
    BY <2>1
  <2>3. \A x \in Dom : ~(rank[x] < 0)
    BY <1>a
  <2> QED
    BY <2>2, <2>3
<1>2. ASSUME NEW m \in Nat, Up(m) PROVE Up(m + 1)
  <2>1. PICK f \in [Dom -> V] : \A x \in Dom : rank[x] < m => f[x] = F[<<f, x>>]
    BY <1>2
  <2> DEFINE h == [x \in Dom |-> IF rank[x] < m THEN f[x] ELSE F[<<f, x>>]]
  <2>2. h \in [Dom -> V]
    BY <1>a
  <2>3. \A x \in Dom : h[x] = F[<<f, x>>]
    BY <2>1
  <2>4. \A y \in Dom : rank[y] < m => h[y] = f[y]
    OBVIOUS
  <2> HIDE DEF h
  <2>5. ASSUME NEW x \in Dom, rank[x] < m + 1 PROVE h[x] = F[<<h, x>>]
    <3>1. \A y \in Dom : rank[y] < rank[x] => f[y] = h[y]
      BY <1>a, <2>4, <2>5
    <3> QED
      BY <1>a, <2>2, <2>3, <3>1
  <2> QED
    BY <2>2, <2>5
<1> HIDE DEF Up
<1>3. Bad = {}
  <2> SUFFICES ASSUME Bad # {} PROVE FALSE
    OBVIOUS
  <2>1. PICK m \in Bad : \A k \in Bad : m <= k
    BY Least
  <2>2. m # 0 /\ m \in Nat
    BY <1>1
  <2>3. m - 1 \in Nat /\ m - 1 \notin Bad /\ (m - 1) + 1 = m
    BY <2>1, <2>2
  <2> QED
    BY <1>2, <2>3
<1> QED
  BY <1>0, <1>3 DEF Up, Solves

\* What holds at the start and after wherever it holds, holds everywhere.
LEMMA Upward ==
  ASSUME NEW n \in Nat, NEW S, 0 \in S, \A k \in 1..n : k - 1 \in S => k \in S
  PROVE  \A k \in 0..n : k \in S
<1> DEFINE Bad == {k \in 0..n : k \notin S}
<1>1. ASSUME Bad # {} PROVE FALSE
  <2>1. PICK k \in Bad : \A l \in Bad : k <= l
    <3>1. Bad \in SUBSET Nat
      OBVIOUS
    <3> HIDE DEF Bad
    <3> QED
      BY <1>1, <3>1, Least
  <2>2. k \in 1..n /\ k \notin S
    OBVIOUS
  <2>3. k - 1 \in 0..n /\ k - 1 \notin Bad
    BY <2>1, <2>2
  <2> QED
    BY <2>2, <2>3
<1> QED
  BY <1>1

\* What holds wherever it holds further on holds everywhere.
LEMMA Downward ==
  ASSUME NEW n \in Nat, NEW S, \A x \in 1..n : (\A y \in (x + 1)..n : y \in S) => x \in S
  PROVE  \A x \in 1..n : x \in S
<1> DEFINE Bad == {k \in 0..n : n - k \in 1..n /\ n - k \notin S}
<1>1. ASSUME Bad # {} PROVE FALSE
  <2>1. PICK k \in Bad : \A l \in Bad : k <= l
    <3>1. Bad \in SUBSET Nat
      OBVIOUS
    <3> HIDE DEF Bad
    <3> QED
      BY <1>1, <3>1, Least
  <2>2. k \in 0..n /\ n - k \in 1..n /\ n - k \notin S
    OBVIOUS
  <2>3. PICK y \in ((n - k) + 1)..n : y \notin S
    BY <2>2
  <2>4. n - y \in Bad /\ n - y < k
    BY <2>2, <2>3
  <2> QED
    BY <2>1, <2>2, <2>4
<1>2. ASSUME NEW x \in 1..n, x \notin S PROVE n - x \in Bad
  BY <1>2
<1> QED
  BY <1>1, <1>2

-----------------------------------------------------------------------------
\* joined is the function that Joined(fs) takes its value from.
IsJoin(fs, joined) ==
    joined = [k \in 0..Len(fs) |->
                 IF k = 0 THEN <<>> ELSE joined[k - 1] \o fs[k] \o Delimiter]

\* Frames that begin with the same m frames join to the same.
LEMMA SameJoin ==
  ASSUME NEW fs, NEW gs, NEW j, NEW h, IsJoin(fs, j), IsJoin(gs, h), NEW m \in Nat,
         Len(fs) \in Nat, Len(gs) \in Nat, m <= Len(fs), m <= Len(gs),
         \A k \in 1..m : fs[k] = gs[k]
  PROVE  j[m] = h[m]
<1> DEFINE Bad == {k \in 0..m : j[k] # h[k]}
<1>1. ASSUME Bad # {} PROVE FALSE
  <2>1. PICK k \in Bad : \A l \in Bad : k <= l
    <3>1. Bad \in SUBSET Nat
      OBVIOUS
    <3> HIDE DEF Bad
    <3> QED
      BY <1>1, <3>1, Least
  <2>2. k \in 0..m /\ j[k] # h[k]
    OBVIOUS
  <2>3. k # 0
    BY <2>2 DEF IsJoin
  <2>4. k - 1 \in 0..m /\ k - 1 < k /\ k - 1 \notin Bad
    BY <2>1, <2>2, <2>3
  <2>5. j[k - 1] = h[k - 1]
    BY <2>4
  <2>6. j[k] = j[k - 1] \o fs[k] \o Delimiter /\ h[k] = h[k - 1] \o gs[k] \o Delimiter
    <3>1. k \in 0..Len(fs) /\ k \in 0..Len(gs)
      BY <2>2
    <3>2. j[k] = IF k = 0 THEN <<>> ELSE j[k - 1] \o fs[k] \o Delimiter
      BY <3>1, Zenon DEF IsJoin
    <3>3. h[k] = IF k = 0 THEN <<>> ELSE h[k - 1] \o gs[k] \o Delimiter
      BY <3>1, Zenon DEF IsJoin
    <3> QED
      BY <2>3, <3>2, <3>3
  <2>7. fs[k] = gs[k]
    BY <2>2, <2>3
  <2> QED
    BY <2>2, <2>5, <2>6, <2>7
<1> QED
  BY <1>1

\* There is such a function, of byte sequences.
LEMMA JoinExists ==
  ASSUME NEW fs \in Seq(Seq(Bytes))
  PROVE  \E j \in [0..Len(fs) -> Seq(Bytes)] : IsJoin(fs, j) /\ Joined(fs) = j[Len(fs)]
<1> DEFINE n == Len(fs)
           Dom == 0..n
           V == Seq(Bytes)
           rank == [k \in Dom |-> k]
           F == [p \in [Dom -> V] \X Dom |->
                    IF p[2] = 0 THEN <<>> ELSE p[1][p[2] - 1] \o fs[p[2]] \o Delimiter]
<1>0. n \in Nat /\ Delimiter \in V /\ <<>> \in V /\ \A k \in 1..n : fs[k] \in V
  BY DelimiterAssumption
<1> HIDE DEF n, V
<1>1. F \in [[Dom -> V] \X Dom -> V]
  <2>1. ASSUME NEW g \in [Dom -> V], NEW k \in Dom, k # 0
        PROVE  g[k - 1] \o fs[k] \o Delimiter \in V
    <3>1. g[k - 1] \in V /\ fs[k] \in V
      BY <1>0, <2>1
    <3> QED
      BY <1>0, <3>1 DEF V
  <2> QED
    BY <1>0, <2>1
<1>2. Descends(F, Dom, V, rank)
  <2>1. \A k \in Dom : k # 0 => k - 1 \in Dom /\ rank[k - 1] < rank[k]
    BY <1>0
  <2>2. \A g, h \in [Dom -> V] : \A x \in Dom :
           (\A y \in Dom : rank[y] < rank[x] => g[y] = h[y]) => F[<<g, x>>] = F[<<h, x>>]
    BY <2>1
  <2>3. rank \in [Dom -> Nat] /\ n + 1 \in Nat /\ \A k \in Dom : rank[k] < n + 1
    BY <1>0
  <2> QED
    BY <1>0, <1>1, <2>2, <2>3 DEF Descends
<1>4. PICK j \in [Dom -> V] : \A k \in Dom : j[k] = F[<<j, k>>]
  <2> HIDE DEF F, rank, Dom
  <2>1. \E j \in [Dom -> V] : Solves(j, F, Dom)
    BY <1>2, Recursion
  <2> QED
    BY <2>1 DEF Solves
<1>5. IsJoin(fs, j)
  BY <1>4 DEF IsJoin, n
<1>6. Joined(fs) = (CHOOSE h : IsJoin(fs, h))[n]
  BY DEF Joined, IsJoin, n
<1>7. Joined(fs) = j[n]
  <2>1. PICK h : IsJoin(fs, h) /\ Joined(fs) = h[n]
    BY <1>5, <1>6
  <2> QED
    BY <1>0, <1>5, <2>1, SameJoin DEF n
<1> QED
  BY <1>5, <1>7 DEF n, V

\* No frames hold no bytes.
LEMMA JoinedNothing == Joined(<<>>) = <<>>
<1>1. <<>> \in Seq(Seq(Bytes)) /\ Len(<<>>) = 0
  OBVIOUS
<1>2. PICK j : IsJoin(<<>>, j) /\ Joined(<<>>) = j[Len(<<>>)]
  BY <1>1, JoinExists
<1> QED
  BY <1>1, <1>2 DEF IsJoin

\* One frame more adds its bytes and a delimiter.
LEMMA JoinedAppend ==
  ASSUME NEW fs \in Seq(Seq(Bytes)), NEW f \in Seq(Bytes)
  PROVE  /\ Joined(fs) \in Seq(Bytes)
         /\ Joined(fs \o <<f>>) = Joined(fs) \o (f \o Delimiter)
<1> DEFINE gs == fs \o <<f>>
           n == Len(fs)
<1>1. /\ gs \in Seq(Seq(Bytes)) /\ n \in Nat /\ Len(gs) = n + 1 /\ gs[n + 1] = f
      /\ \A k \in 1..n : gs[k] = fs[k]
  OBVIOUS
<1>2. PICK j \in [0..n -> Seq(Bytes)] : IsJoin(fs, j) /\ Joined(fs) = j[n]
  BY JoinExists
<1> HIDE DEF gs
<1>3. PICK h : IsJoin(gs, h) /\ Joined(gs) = h[Len(gs)]
  BY <1>1, JoinExists
<1>4. j[n] = h[n]
  <2>1. n <= Len(fs) /\ n <= Len(gs) /\ \A k \in 1..n : fs[k] = gs[k]
    BY <1>1
  <2> QED
    <3>1. n \in Nat /\ Len(fs) \in Nat /\ Len(gs) \in Nat
      BY <1>1
    <3> HIDE DEF n
    <3> QED
      BY <1>2, <1>3, <2>1, <3>1, SameJoin
<1> HIDE DEF n
<1>5. h[n + 1] = h[n] \o f \o Delimiter
  <2>1. n + 1 \in 0..Len(gs) /\ n + 1 # 0 /\ (n + 1) - 1 = n
    BY <1>1
  <2> QED
    BY <1>1, <1>3, <2>1 DEF IsJoin
<1>6. Joined(fs) \in Seq(Bytes) /\ Joined(gs) = Joined(fs) \o f \o Delimiter
  BY <1>1, <1>2, <1>3, <1>4, <1>5
<1> QED
  <2>1. \A a, b \in Seq(Bytes) : (a \o b) \o Delimiter = a \o (b \o Delimiter)
    BY DelimiterAssumption
  <2> QED
    BY <1>6, <2>1 DEF gs

-----------------------------------------------------------------------------
\* What _indexOf() finds: the first place, if there is one.
LEMMA Found ==
  ASSUME NEW s \in Seq(Bytes), NEW at \in Nat \ {0}
  PROVE  \/ /\ IndexOf(s, at) = 0
            /\ \A i \in at..Len(s) : ~Occurs(s, i)
         \/ /\ IndexOf(s, at) \in at..Len(s) /\ Occurs(s, IndexOf(s, at))
            /\ \A i \in at..(IndexOf(s, at) - 1) : ~Occurs(s, i)
<1> DEFINE found == {i \in at..Len(s) : Occurs(s, i)}
<1>0. Len(s) \in Nat
  OBVIOUS
<1>1. CASE found = {}
  BY <1>1 DEF IndexOf
<1>2. CASE found # {}
  <2>1. PICK i \in found : \A j \in found : i <= j
    <3>1. found \in SUBSET Nat
      BY <1>0
    <3> HIDE DEF found
    <3> QED
      BY <1>2, <3>1, Least
  <2>2. Min(found) \in found /\ \A j \in found : Min(found) <= j
    <3> HIDE DEF found
    <3> QED
      BY <2>1 DEF Min
  <2>3. IndexOf(s, at) = Min(found)
    BY <1>2 DEF IndexOf
  <2>4. /\ Min(found) \in at..Len(s) /\ Occurs(s, Min(found))
        /\ \A j \in at..Len(s) : Occurs(s, j) => Min(found) <= j
    BY <2>2
  <2>5. \A k \in at..(Min(found) - 1) : ~Occurs(s, k)
    <3> HIDE DEF found
    <3> QED
      BY <1>0, <2>4
  <2> QED
    BY <2>3, <2>4, <2>5
<1> QED
  BY <1>1, <1>2

\* Where the search of a round begins.
At(from, start) == IF start = 1 THEN from ELSE start

\* cut is the function that Cut(s, from) takes its value from.
IsLoop(s, from, cut) ==
    cut = [start \in 1..(Len(s) + 1) |->
              LET i == IndexOf(s, At(from, start))
                  next == i + Len(Delimiter)
              IN IF i = 0 THEN [frames |-> <<>>, rest |-> start]
                 ELSE [frames |-> <<SubSeq(s, start, i - 1)>> \o cut[next].frames,
                       rest |-> cut[next].rest]]

\* What the loop may come to, starting in s.
Cuts(s) == [frames : Seq(Seq(Bytes)), rest : 1..(Len(s) + 1)]

\* A delimiter found ends within s, and the next search begins after it.
LEMMA FoundWithin ==
  ASSUME NEW s \in Seq(Bytes), NEW start \in 1..(Len(s) + 1), NEW from \in Nat \ {0},
         NEW i, i = IndexOf(s, At(from, start)), i # 0
  PROVE  /\ Occurs(s, i) /\ i \in start..Len(s)
         /\ i + Len(Delimiter) \in (start + 1)..(Len(s) + 1)
         /\ \A j \in At(from, start)..(i - 1) : ~Occurs(s, j)
<1>1. Len(Delimiter) \in Nat \ {0} /\ Len(s) \in Nat
  BY DelimiterAssumption
<1>2. PICK at \in Nat \ {0} : at = At(from, start) /\ at >= start
  BY DEF At
<1>3. i \in at..Len(s) /\ Occurs(s, i) /\ \A j \in at..(i - 1) : ~Occurs(s, j)
  BY <1>2, Found
<1>4. i + Len(Delimiter) - 1 <= Len(s)
  BY <1>3 DEF Occurs
<1> QED
  BY <1>1, <1>2, <1>3, <1>4

\* There is such a function.
LEMMA LoopExists ==
  ASSUME NEW s \in Seq(Bytes), NEW from \in Nat \ {0}
  PROVE  \E cut \in [1..(Len(s) + 1) -> Cuts(s)] : IsLoop(s, from, cut)
<1> DEFINE n == Len(s) + 1
           Dom == 1..n
           V == Cuts(s)
           at(start) == At(from, start)
           next(start) == IndexOf(s, at(start)) + Len(Delimiter)
           F == [p \in [Dom -> V] \X Dom |->
                    IF IndexOf(s, at(p[2])) = 0 THEN [frames |-> <<>>, rest |-> p[2]]
                    ELSE [frames |-> <<SubSeq(s, p[2], IndexOf(s, at(p[2])) - 1)>>
                                     \o p[1][next(p[2])].frames,
                          rest |-> p[1][next(p[2])].rest]]
           rank == [start \in Dom |-> n - start]
<1>0. n \in Nat \ {0} /\ Len(s) \in Nat
  OBVIOUS
<1>1. ASSUME NEW start \in Dom, IndexOf(s, at(start)) # 0
      PROVE  /\ IndexOf(s, at(start)) \in start..Len(s)
             /\ next(start) \in (start + 1)..n
  BY <1>1, FoundWithin
<1> HIDE DEF n, at, next
<1>2. F \in [[Dom -> V] \X Dom -> V]
  <2>1. ASSUME NEW g \in [Dom -> V], NEW start \in Dom, IndexOf(s, at(start)) # 0
        PROVE  [frames |-> <<SubSeq(s, start, IndexOf(s, at(start)) - 1)>>
                           \o g[next(start)].frames,
                rest |-> g[next(start)].rest] \in V
    <3>1. g[next(start)] \in V
      BY <1>0, <1>1, <2>1
    <3>2. SubSeq(s, start, IndexOf(s, at(start)) - 1) \in Seq(Bytes)
      BY <1>0, <1>1, <2>1
    <3> QED
      BY <3>1, <3>2 DEF Cuts
  <2>2. \A start \in Dom : [frames |-> <<>>, rest |-> start] \in V
    BY DEF Cuts, n
  <2> HIDE DEF V
  <2> QED
    BY <2>1, <2>2
<1>3. Descends(F, Dom, V, rank)
  <2>1. ASSUME NEW start \in Dom, IndexOf(s, at(start)) # 0
        PROVE  next(start) \in Dom /\ rank[next(start)] < rank[start]
    BY <1>0, <1>1, <2>1
  <2>2. \A g, h \in [Dom -> V] : \A x \in Dom :
           (\A y \in Dom : rank[y] < rank[x] => g[y] = h[y]) => F[<<g, x>>] = F[<<h, x>>]
    BY <2>1
  <2>3. rank \in [Dom -> Nat] /\ n \in Nat /\ \A x \in Dom : rank[x] < n
    BY <1>0
  <2>4. [frames |-> <<>>, rest |-> 1] \in V
    BY <1>0 DEF Cuts, n
  <2> HIDE DEF V, rank, F
  <2> QED
    BY <1>2, <2>2, <2>3, <2>4 DEF Descends
<1>4. PICK cut \in [Dom -> V] : \A x \in Dom : cut[x] = F[<<cut, x>>]
  <2> HIDE DEF F, rank, Dom, V
  <2>1. \E cut \in [Dom -> V] : Solves(cut, F, Dom)
    BY <1>3, Recursion
  <2> QED
    BY <2>1 DEF Solves
<1>5. IsLoop(s, from, cut)
  BY <1>4 DEF IsLoop, n, at, next
<1> QED
  BY <1>4, <1>5 DEF n

-----------------------------------------------------------------------------
\* A frame and its delimiter are a piece of s.
LEMMA FrameDelimited ==
  ASSUME NEW s \in Seq(Bytes), NEW start \in Nat \ {0}, NEW i \in start..Len(s), Occurs(s, i)
  PROVE  SubSeq(s, start, i - 1) \o Delimiter = SubSeq(s, start, i + Len(Delimiter) - 1)
<1> DEFINE f == SubSeq(s, start, i - 1)
           d == Len(Delimiter)
           t == SubSeq(s, start, i + d - 1)
           g == f \o Delimiter
<1>1. /\ Len(s) \in Nat /\ d \in Nat \ {0} /\ Delimiter \in Seq(Bytes)
      /\ i \in Nat /\ i >= start
  BY DelimiterAssumption
<1>2. i + d - 1 <= Len(s) /\ \A j \in 1..d : s[i + j - 1] = Delimiter[j]
  BY DEF Occurs
<1>3. /\ f \in Seq(Bytes) /\ Len(f) = i - start
      /\ \A j \in 1..(i - start) : f[j] = s[start + j - 1]
  <2> HIDE DEF d
  <2> QED
    BY <1>1, <1>2
<1>4. /\ t \in Seq(Bytes) /\ Len(t) = i - start + d
      /\ \A j \in 1..(i - start + d) : t[j] = s[start + j - 1]
  <2> HIDE DEF d
  <2> QED
    BY <1>1, <1>2
<1> HIDE DEF f, t
<1>5. /\ g \in Seq(Bytes) /\ Len(g) = Len(f) + d
      /\ \A j \in 1..(Len(f) + d) :
            g[j] = IF j <= Len(f) THEN f[j] ELSE Delimiter[j - Len(f)]
  BY <1>1, <1>3, ConcatProperties
<1> HIDE DEF g, d
<1>6. ASSUME NEW j \in 1..(i - start + d) PROVE g[j] = t[j]
  <2>0. g[j] = IF j <= i - start THEN f[j] ELSE Delimiter[j - (i - start)]
    BY <1>3, <1>5
  <2>1. CASE j <= i - start
    BY <1>1, <1>3, <1>4, <2>0, <2>1
  <2>2. CASE ~(j <= i - start)
    <3>1. j - (i - start) \in 1..d /\ i + (j - (i - start)) - 1 = start + j - 1
      BY <1>1, <2>2
    <3> QED
      BY <1>2, <1>4, <2>0, <2>2, <3>1
  <2> QED
    BY <2>1, <2>2
<1>7. g = t
  BY <1>3, <1>4, <1>5, <1>6, SeqEqual
<1> QED
  BY <1>7 DEF f, t, d, g

\* Whatever frames came before, r and the remainder hold the bytes of t.
Resumes(r, remainder, t) ==
    \A fs \in Seq(Seq(Bytes)) : Joined(fs \o r) \o remainder = Joined(fs) \o t

\* An element between two sequences belongs to either.
LEMMA InBetween ==
  ASSUME NEW S, NEW a \in Seq(S), NEW e \in S, NEW b \in Seq(S)
  PROVE  a \o (<<e>> \o b) = (a \o <<e>>) \o b /\ a \o <<e>> \in Seq(S)
<1>1. <<e>> \in Seq(S)
  OBVIOUS
<1> QED
  BY <1>1, ConcatAssociative, ConcatProperties

\* A round of the loop, with the rounds after it.
LEMMA RoundResumes ==
  ASSUME NEW f \in Seq(Bytes), NEW r \in Seq(Seq(Bytes)), NEW remainder,
         NEW t \in Seq(Bytes), Resumes(r, remainder, t)
  PROVE  Resumes(<<f>> \o r, remainder, (f \o Delimiter) \o t)
<1> SUFFICES ASSUME NEW fs \in Seq(Seq(Bytes))
             PROVE  Joined(fs \o (<<f>> \o r)) \o remainder
                        = Joined(fs) \o ((f \o Delimiter) \o t)
  BY DEF Resumes
<1>1. fs \o (<<f>> \o r) = (fs \o <<f>>) \o r /\ fs \o <<f>> \in Seq(Seq(Bytes))
  <2>1. PICK V : V = Seq(Bytes)
    OBVIOUS
  <2>2. fs \in Seq(V) /\ f \in V /\ r \in Seq(V)
    BY <2>1
  <2>3. fs \o (<<f>> \o r) = (fs \o <<f>>) \o r /\ fs \o <<f>> \in Seq(V)
    BY <2>2, InBetween
  <2> QED
    BY <2>1, <2>3
<1>2. Joined((fs \o <<f>>) \o r) \o remainder = Joined(fs \o <<f>>) \o t
  BY <1>1 DEF Resumes
<1>3. Joined(fs \o <<f>>) = Joined(fs) \o (f \o Delimiter) /\ Joined(fs) \in Seq(Bytes)
  BY JoinedAppend
<1>4. f \o Delimiter \in Seq(Bytes)
  BY DelimiterAssumption
<1>5. (Joined(fs) \o (f \o Delimiter)) \o t = Joined(fs) \o ((f \o Delimiter) \o t)
  <2>1. PICK a, b \in Seq(Bytes) : a = Joined(fs) /\ b = f \o Delimiter
    BY <1>3, <1>4
  <2>2. (a \o b) \o t = a \o (b \o t)
    BY ConcatAssociative
  <2> QED
    BY <2>1, <2>2
<1> QED
  BY <1>1, <1>2, <1>3, <1>5

\* The loop from start on: it ends within s, and neither loses a byte nor changes the order.
Complete(s, c, start) == /\ c \in Cuts(s) /\ c.rest >= start
                         /\ Resumes(c.frames, SubSeq(s, c.rest, Len(s)),
                                    SubSeq(s, start, Len(s)))

\* So does every round: those after it are known to.
LEMMA LoopComplete ==
  ASSUME NEW s \in Seq(Bytes), NEW from \in Nat \ {0}, NEW cut, IsLoop(s, from, cut)
  PROVE  \A start \in 1..(Len(s) + 1) : Complete(s, cut[start], start)
<1> DEFINE n == Len(s) + 1
           S == {start \in 1..n : Complete(s, cut[start], start)}
<1>0. n \in Nat /\ Len(s) \in Nat
  OBVIOUS
<1>1. ASSUME NEW start \in 1..n, \A y \in (start + 1)..n : y \in S
      PROVE  start \in S
  <2>1. PICK i : i = IndexOf(s, At(from, start))
    OBVIOUS
  <2>2. CASE i = 0
    <3>1. cut[start] = [frames |-> <<>>, rest |-> start]
      BY <2>1, <2>2 DEF IsLoop
    <3>2. Resumes(<<>>, SubSeq(s, start, Len(s)), SubSeq(s, start, Len(s)))
      <4>1. \A fs \in Seq(Seq(Bytes)) : fs \o <<>> = fs
        OBVIOUS
      <4> QED
        BY <4>1 DEF Resumes
    <3>3. cut[start] \in Cuts(s) /\ cut[start].rest = start /\ cut[start].frames = <<>>
      BY <1>0, <3>1 DEF Cuts
    <3> QED
      BY <1>0, <3>2, <3>3 DEF Complete
  <2>3. CASE i # 0
    <3>1. PICK next : next = i + Len(Delimiter)
      OBVIOUS
    <3>2. /\ i \in start..Len(s) /\ next \in (start + 1)..n /\ Len(Delimiter) \in Nat \ {0}
          /\ Occurs(s, i) /\ next - 1 = i + Len(Delimiter) - 1
      BY <2>1, <2>3, <3>1, FoundWithin, DelimiterAssumption
    <3>3. PICK f : f = SubSeq(s, start, i - 1)
      OBVIOUS
    <3>4. cut[start] = [frames |-> <<f>> \o cut[next].frames, rest |-> cut[next].rest]
      BY <2>1, <2>3, <3>1, <3>3 DEF IsLoop
    <3>5. Complete(s, cut[next], next)
      BY <1>1, <3>2
    <3>6. f \in Seq(Bytes)
      BY <1>0, <3>2, <3>3
    <3>7. f \o Delimiter = SubSeq(s, start, next - 1)
      BY <1>0, <3>2, <3>3, FrameDelimited
    <3>8. PICK r \in Seq(Seq(Bytes)) : r = cut[next].frames
      BY <3>5 DEF Complete, Cuts
    <3>9. PICK rest \in 1..n : rest = cut[next].rest /\ rest >= next
      BY <3>5 DEF Complete, Cuts
    <3>10. Resumes(r, SubSeq(s, rest, Len(s)), SubSeq(s, next, Len(s)))
      BY <3>5, <3>8, <3>9 DEF Complete
    <3>a. (f \o Delimiter) \o SubSeq(s, next, Len(s)) = SubSeq(s, start, Len(s))
      <4>1. /\ start \in 1..(Len(s) + 1) /\ next - 1 \in (start - 1)..Len(s)
            /\ Len(s) \in (next - 1)..Len(s) /\ (next - 1) + 1 = next
        BY <1>0, <3>2
      <4>2. SubSeq(s, start, next - 1) \o SubSeq(s, (next - 1) + 1, Len(s))
               = SubSeq(s, start, Len(s))
        BY <4>1, ConcatAdjacentSubSeq
      <4> QED
        BY <3>7, <4>1, <4>2
    <3>b. SubSeq(s, next, Len(s)) \in Seq(Bytes)
      BY <1>0, <3>2
    <3>11. Resumes(<<f>> \o r, SubSeq(s, rest, Len(s)), SubSeq(s, start, Len(s)))
      BY <3>6, <3>10, <3>a, <3>b, RoundResumes
    <3>12. <<f>> \o r \in Seq(Seq(Bytes))
      BY <3>6
    <3>13. cut[start] = [frames |-> <<f>> \o r, rest |-> rest]
      BY <3>4, <3>8, <3>9
    <3>14. cut[start] \in Cuts(s) /\ cut[start].rest = rest /\ cut[start].frames = <<f>> \o r
      BY <3>12, <3>13 DEF Cuts
    <3>15. rest >= start
      BY <1>0, <3>2, <3>9
    <3> QED
      BY <3>11, <3>14, <3>15 DEF Complete
  <2> QED
    BY <2>2, <2>3
<1> HIDE DEF n, S
<1>2. \A x \in 1..n : x \in S
  BY <1>0, <1>1, Downward
<1> QED
  BY <1>2 DEF S, n

-----------------------------------------------------------------------------
\* A delimiter in a piece of s is one in s; and the other way round, if it ends in the piece.
LEMMA InPiece ==
  ASSUME NEW s \in Seq(Bytes), NEW start \in Nat \ {0}, NEW m \in (start - 1)..Len(s),
         NEW t, t = SubSeq(s, start, m), NEW j \in Nat \ {0}
  PROVE  /\ t \in Seq(Bytes) /\ Len(t) = m - start + 1
         /\ Occurs(t, j) => Occurs(s, start + j - 1)
         /\ Occurs(s, start + j - 1) /\ start + j - 1 + Len(Delimiter) - 1 <= m => Occurs(t, j)
<1> DEFINE d == Len(Delimiter)
<1>1. d \in Nat \ {0} /\ Len(s) \in Nat
  BY DelimiterAssumption
<1>2. /\ t \in Seq(Bytes) /\ Len(t) = m - start + 1
      /\ \A k \in 1..(m - start + 1) : t[k] = s[start + k - 1]
  BY <1>1
<1>3. ASSUME Occurs(t, j) PROVE Occurs(s, start + j - 1)
  <2>1. j + d - 1 <= Len(t) /\ \A k \in 1..d : t[j + k - 1] = Delimiter[k]
    BY <1>3 DEF Occurs
  <2> HIDE DEF d
  <2>2. start + j - 1 + d - 1 <= Len(s)
    BY <1>1, <1>2, <2>1
  <2>3. ASSUME NEW k \in 1..d PROVE s[start + j - 1 + k - 1] = Delimiter[k]
    <3>1. j + k - 1 \in 1..(m - start + 1) /\ start + (j + k - 1) - 1 = start + j - 1 + k - 1
      BY <1>1, <1>2, <2>1
    <3> QED
      BY <1>2, <2>1, <3>1
  <2> QED
    BY <2>2, <2>3 DEF Occurs, d
<1>4. ASSUME Occurs(s, start + j - 1), start + j - 1 + d - 1 <= m PROVE Occurs(t, j)
  <2>1. \A k \in 1..d : s[start + j - 1 + k - 1] = Delimiter[k]
    BY <1>4 DEF Occurs
  <2> HIDE DEF d
  <2>2. j + d - 1 <= Len(t)
    BY <1>1, <1>2, <1>4
  <2>3. ASSUME NEW k \in 1..d PROVE t[j + k - 1] = Delimiter[k]
    <3>1. j + k - 1 \in 1..(m - start + 1) /\ start + (j + k - 1) - 1 = start + j - 1 + k - 1
      BY <1>1, <1>2, <2>2
    <3> QED
      BY <1>2, <2>1, <3>1
  <2> QED
    BY <2>2, <2>3 DEF Occurs, d
<1> QED
  BY <1>2, <1>3, <1>4

\* The frame holds no delimiter, not even one that only its own delimiter would complete.
OnlyAtEnd(f) == IndexOf(f \o Delimiter, 1) = Len(f) + 1

\* A frame cut off at the first delimiter is of that kind.
LEMMA FrameClean ==
  ASSUME NEW s \in Seq(Bytes), NEW start \in Nat \ {0}, NEW i \in start..Len(s), Occurs(s, i),
         \A j \in start..(i - 1) : ~Occurs(s, j)
  PROVE  OnlyAtEnd(SubSeq(s, start, i - 1))
<1>0. Len(s) \in Nat /\ Len(Delimiter) \in Nat \ {0} /\ i + Len(Delimiter) - 1 <= Len(s)
  BY DelimiterAssumption DEF Occurs
<1>1. PICK d \in Nat \ {0} : d = Len(Delimiter)
  BY <1>0
<1>2. PICK t : t = SubSeq(s, start, i + d - 1)
  OBVIOUS
<1>3. SubSeq(s, start, i - 1) \o Delimiter = t
  BY <1>0, <1>1, <1>2, FrameDelimited
<1>4. PICK f : f = SubSeq(s, start, i - 1)
  OBVIOUS
<1>5. Len(f) = i - start
  BY <1>0, <1>4
<1>6. i + d - 1 \in (start - 1)..Len(s) /\ (i + d - 1) - start + 1 = i - start + d
  BY <1>0, <1>1
<1>7. t \in Seq(Bytes) /\ Len(t) = i - start + d
  BY <1>2, <1>6, InPiece
<1>8. Occurs(t, i - start + 1)
  <2>1. PICK j \in Nat \ {0} : j = i - start + 1
    OBVIOUS
  <2>2. PICK m \in (start - 1)..Len(s) : m = i + d - 1
    BY <1>6
  <2>3. start + j - 1 = i /\ start + j - 1 + Len(Delimiter) - 1 <= m
    BY <1>1, <2>1, <2>2
  <2>4. t = SubSeq(s, start, m) /\ Occurs(s, start + j - 1)
    BY <1>2, <2>2, <2>3
  <2>5. Occurs(t, j)
    BY <2>3, <2>4, InPiece
  <2> QED
    BY <2>1, <2>5
<1>9. ASSUME NEW j \in 1..(i - start) PROVE ~Occurs(t, j)
  <2>1. start + j - 1 \in start..(i - 1) /\ j \in Nat \ {0}
    OBVIOUS
  <2> QED
    BY <1>2, <1>6, <2>1, InPiece
<1>10. IndexOf(t, 1) = i - start + 1
  <2>1. i - start + 1 \in 1..Len(t)
    BY <1>1, <1>7
  <2>2. IndexOf(t, 1) # 0
    BY <1>7, <1>8, <2>1, Found
  <2>3. PICK q : q = IndexOf(t, 1)
    OBVIOUS
  <2>4. q \in 1..Len(t) /\ Occurs(t, q) /\ \A j \in 1..(q - 1) : ~Occurs(t, j)
    BY <1>7, <2>2, <2>3, Found
  <2>5. ~(q < i - start + 1)
    BY <1>9, <2>4
  <2>6. ~(i - start + 1 < q)
    BY <1>7, <1>8, <2>1, <2>4
  <2> QED
    BY <2>1, <2>3, <2>4, <2>5, <2>6
<1> QED
  BY <1>3, <1>4, <1>5, <1>10 DEF OnlyAtEnd

\* Neither the frames nor the remainder hold a delimiter.
Clean(s, c) == /\ \A i \in c.rest..Len(s) : ~Occurs(s, i)
               /\ \A k \in 1..Len(c.frames) : OnlyAtEnd(c.frames[k])

\* The loop misses no delimiter.
LEMMA LoopClean ==
  ASSUME NEW s \in Seq(Bytes), NEW from \in Nat \ {0}, NEW cut, IsLoop(s, from, cut),
         \A i \in 1..(from - 1) : ~Occurs(s, i)
  PROVE  Clean(s, cut[1])
<1> DEFINE n == Len(s) + 1
           S == {start \in 1..n : Clean(s, cut[start])}
<1>0. n \in Nat /\ Len(s) \in Nat /\ 1 \in 1..n
  OBVIOUS
<1>1. ASSUME NEW start \in 1..n, \A y \in (start + 1)..n : y \in S
      PROVE  start \in S
  <2>1. PICK i : i = IndexOf(s, At(from, start))
    OBVIOUS
  <2>2. PICK at \in Nat \ {0} : /\ at = At(from, start) /\ at >= start
                                /\ \A j \in start..(at - 1) : ~Occurs(s, j)
    BY DEF At
  <2>3. CASE i = 0
    <3>1. cut[start] = [frames |-> <<>>, rest |-> start]
      BY <2>1, <2>3 DEF IsLoop
    <3>2. \A j \in at..Len(s) : ~Occurs(s, j)
      <4>1. IndexOf(s, at) = 0
        BY <2>1, <2>2, <2>3
      <4> QED
        BY <4>1, Found
    <3>3. \A j \in start..Len(s) : ~Occurs(s, j)
      BY <1>0, <2>2, <3>2
    <3>4. cut[start].rest = start /\ Len(cut[start].frames) = 0
      BY <3>1
    <3> QED
      BY <3>3, <3>4 DEF Clean
  <2>4. CASE i # 0
    <3>1. PICK next : next = i + Len(Delimiter)
      OBVIOUS
    <3>2. /\ i \in start..Len(s) /\ next \in (start + 1)..n /\ Len(Delimiter) \in Nat \ {0}
          /\ Occurs(s, i) /\ \A j \in at..(i - 1) : ~Occurs(s, j)
      BY <2>1, <2>2, <2>4, <3>1, FoundWithin, DelimiterAssumption
    <3>3. \A j \in start..(i - 1) : ~Occurs(s, j)
      BY <2>2, <3>2
    <3>4. PICK f : f = SubSeq(s, start, i - 1)
      OBVIOUS
    <3>5. OnlyAtEnd(f)
      BY <1>0, <3>2, <3>3, <3>4, FrameClean
    <3>6. cut[start] = [frames |-> <<f>> \o cut[next].frames, rest |-> cut[next].rest]
      BY <2>1, <2>4, <3>1, <3>4 DEF IsLoop
    <3>7. Clean(s, cut[next])
      BY <1>1, <3>2
    <3>8. cut[next] \in Cuts(s)
      BY <1>0, <3>2, LoopComplete DEF Complete
    <3>9. PICK r \in Seq(Seq(Bytes)) : r = cut[next].frames
      BY <3>8 DEF Cuts
    <3>10. \A k \in 1..Len(r) : OnlyAtEnd(r[k])
      BY <3>7, <3>9 DEF Clean
    <3>11. f \in Seq(Bytes)
      BY <1>0, <3>2, <3>4
    <3>12. \A k \in 1..Len(<<f>> \o r) : OnlyAtEnd((<<f>> \o r)[k])
      <4>1. /\ Len(<<f>> \o r) = 1 + Len(r) /\ Len(r) \in Nat /\ (<<f>> \o r)[1] = f
            /\ \A k \in 2..(1 + Len(r)) : (<<f>> \o r)[k] = r[k - 1]
        BY <3>11
      <4>2. \A k \in 1..Len(<<f>> \o r) : k = 1 \/ (k \in 2..(1 + Len(r)) /\ k - 1 \in 1..Len(r))
        BY <4>1
      <4> QED
        BY <3>5, <3>10, <4>1, <4>2
    <3>13. cut[start].rest = cut[next].rest /\ cut[start].frames = <<f>> \o r
      BY <3>6, <3>9
    <3> QED
      BY <3>7, <3>12, <3>13 DEF Clean
  <2> QED
    BY <2>3, <2>4
<1> HIDE DEF n, S
<1>2. \A x \in 1..n : x \in S
  BY <1>0, <1>1, Downward
<1> QED
  BY <1>0, <1>2 DEF S

\* What onData() cuts off, and what it keeps.
LEMMA CutWorks ==
  ASSUME NEW s \in Seq(Bytes), NEW from \in Nat \ {0}, NEW c, c = Cut(s, from)
  PROVE  /\ c.frames \in Seq(Seq(Bytes)) /\ c.rest \in 1..(Len(s) + 1)
         /\ Resumes(c.frames, SubSeq(s, c.rest, Len(s)), s)
         /\ (\A i \in 1..(from - 1) : ~Occurs(s, i)) => Clean(s, c)
<1>1. \E cut : IsLoop(s, from, cut)
  BY LoopExists
<1>2. c = (CHOOSE cut : IsLoop(s, from, cut))[1]
  BY DEF Cut, IsLoop, At
<1>3. PICK cut : IsLoop(s, from, cut) /\ c = cut[1]
  BY <1>1, <1>2
<1>4. 1 \in 1..(Len(s) + 1) /\ SubSeq(s, 1, Len(s)) = s
  OBVIOUS
<1>5. Complete(s, c, 1)
  BY <1>3, <1>4, LoopComplete
<1>6. (\A i \in 1..(from - 1) : ~Occurs(s, i)) => Clean(s, c)
  BY <1>3, LoopClean
<1> QED
  BY <1>4, <1>5, <1>6 DEF Complete, Cuts

-----------------------------------------------------------------------------
\* As long as chunks come, all of the buffer was searched.
Searched == ~done => scanned = Len(buffer)

\* The inductive invariant.
IInv == /\ buffer \in Seq(Bytes) /\ frames \in Seq(Seq(Bytes)) /\ input \in Seq(Bytes)
        /\ done \in BOOLEAN /\ total \in 0..MaxInput /\ scanned \in 0..total
        /\ Len(buffer) <= total
        /\ Searched /\ NothingLost /\ NoneMissed /\ RemainderBounded

\* Nothing is buffered at first.
LEMMA InitIInv == Init => IInv
<1> SUFFICES ASSUME Init PROVE IInv
  OBVIOUS
<1>1. /\ buffer = <<>> /\ frames = <<>> /\ input = <<>> /\ scanned = 0 /\ total = 0 /\ done = FALSE
  BY DEF Init
<1>2. Len(<<>>) = 0 /\ <<>> \in Seq(Bytes) /\ <<>> \in Seq(Seq(Bytes)) /\ <<>> \o <<>> = <<>>
  OBVIOUS
<1>3. NothingLost
  BY <1>1, <1>2, JoinedNothing DEF NothingLost
<1>4. NoneMissed
  BY <1>1, <1>2 DEF NoneMissed, Contains
<1>5. RemainderBounded
  BY <1>1, <1>2, LimitAssumption DEF RemainderBounded
<1>6. total \in 0..MaxInput /\ scanned \in 0..total /\ Len(buffer) <= total /\ Searched
  BY <1>1, <1>2, InputAssumption DEF Searched
<1>7. buffer \in Seq(Bytes) /\ frames \in Seq(Seq(Bytes)) /\ input \in Seq(Bytes) 
      /\ done \in BOOLEAN
  BY <1>1, <1>2
<1> QED
  BY <1>3, <1>4, <1>5, <1>6, <1>7 DEF IInv

\* Before the place where the search resumes no delimiter begins: it would end in what was
\* searched before.
LEMMA NoneBefore ==
  ASSUME NEW b \in Seq(Bytes), NEW chunk \in Seq(Bytes), ~Contains(b)
  PROVE  /\ SearchFrom(Len(b)) \in Nat \ {0}
         /\ \A i \in 1..(SearchFrom(Len(b)) - 1) : ~Occurs(b \o chunk, i)
<1>1. PICK n \in Nat : n = Len(b)
  OBVIOUS
<1>2. PICK d \in Nat \ {0} : d = Len(Delimiter)
  BY DelimiterAssumption
<1>3. SearchFrom(n) = 1 + (IF n < d - 1 THEN 0 ELSE n - (d - 1))
  BY <1>2 DEF SearchFrom
<1>4. \A k \in 1..n : (b \o chunk)[k] = b[k]
  BY <1>1
<1>5. ASSUME NEW i \in 1..(SearchFrom(n) - 1), Occurs(b \o chunk, i) PROVE FALSE
  <2>1. i \in 1..n /\ i + d - 1 <= n
    BY <1>2, <1>3
  <2>2. \A j \in 1..d : (b \o chunk)[i + j - 1] = Delimiter[j]
    BY <1>2, <1>5 DEF Occurs
  <2>3. \A j \in 1..d : b[i + j - 1] = Delimiter[j]
    <3>1. \A j \in 1..d : i + j - 1 \in 1..n
      BY <1>2, <2>1
    <3> QED
      BY <1>4, <2>2, <3>1
  <2>4. Occurs(b, i)
    BY <1>1, <1>2, <2>1, <2>3 DEF Occurs
  <2> QED
    BY <1>1, <2>1, <2>4 DEF Contains
<1> QED
  BY <1>1, <1>3, <1>5

\* Two byte sequences together.
LEMMA Together ==
  ASSUME NEW a \in Seq(Bytes), NEW b \in Seq(Bytes)
  PROVE  /\ a \o b \in Seq(Bytes) /\ Len(a) \in Nat /\ Len(b) \in Nat
         /\ Len(a \o b) = Len(a) + Len(b)
         /\ \A k \in 1..Len(a) : (a \o b)[k] = a[k]
  OBVIOUS

\* The order of joining does not matter.
LEMMA Regroup ==
  ASSUME NEW a \in Seq(Bytes), NEW b \in Seq(Bytes), NEW e \in Seq(Bytes)
  PROVE  a \o (b \o e) = (a \o b) \o e
  BY ConcatAssociative

\* A chunk keeps it.
LEMMA DataKeepsIInv ==
  ASSUME IInv, NEW n \in 1..MaxChunk, NEW chunk \in [1..n -> Bytes], OnData(chunk)
  PROVE  IInv'
<1>0. /\ n \in Nat /\ chunk \in Seq(Bytes) /\ Len(chunk) = n
      /\ buffer \in Seq(Bytes) /\ input \in Seq(Bytes) /\ frames \in Seq(Seq(Bytes))
      /\ ~done /\ done' = FALSE /\ scanned = Len(buffer)
  BY InputAssumption DEF IInv, Searched, OnData
<1>1. PICK s \in Seq(Bytes) : s = buffer \o chunk /\ Len(s) = Len(buffer) + n
  BY <1>0, Together
<1>a. input \o chunk \in Seq(Bytes)
  BY <1>0, Together
<1>2. PICK from : from = SearchFrom(Len(buffer))
  OBVIOUS
<1>3. from \in Nat \ {0} /\ \A i \in 1..(from - 1) : ~Occurs(s, i)
  BY <1>0, <1>1, <1>2, NoneBefore DEF IInv, NoneMissed
<1>4. PICK c : c = Cut(s, from)
  OBVIOUS
<1>5. /\ c.frames \in Seq(Seq(Bytes)) /\ c.rest \in 1..(Len(s) + 1)
      /\ Resumes(c.frames, SubSeq(s, c.rest, Len(s)), s) /\ Clean(s, c)
  BY <1>3, <1>4, CutWorks
<1>6. PICK rest \in 1..(Len(s) + 1) : rest = c.rest
  BY <1>5
<1>7. PICK remainder : remainder = SubSeq(s, rest, Len(s))
  OBVIOUS
<1>8. /\ remainder \in Seq(Bytes) /\ Len(s) \in Nat /\ Len(remainder) = Len(s) - rest + 1
  BY <1>7
<1>9. /\ total' = total + n /\ total' <= MaxInput
      /\ frames' = frames \o c.frames
      /\ buffer' = IF TooLong(remainder) THEN <<>> ELSE remainder
      /\ input' = IF TooLong(remainder)
                  THEN SubSeq(input \o chunk, 1, Len(input \o chunk) - Len(remainder))
                  ELSE input \o chunk
      /\ scanned' = Len(buffer')
  BY <1>0, <1>1, <1>2, <1>4, <1>6, <1>7 DEF OnData
<1>10. frames' \in Seq(Seq(Bytes))
  BY <1>0, <1>5, <1>9
<1>11. Joined(frames') \in Seq(Bytes) /\ Joined(frames) \in Seq(Bytes)
  <2>1. <<>> \in Seq(Bytes)
    OBVIOUS
  <2> QED
    BY <1>0, <1>10, <2>1, JoinedAppend
<1>12. Joined(frames') \o remainder = input \o chunk
  <2>1. Joined(frames') \o remainder = Joined(frames) \o s
    BY <1>0, <1>5, <1>6, <1>7, <1>9 DEF Resumes
  <2>2. Joined(frames) \o buffer = input
    BY <1>0 DEF IInv, NothingLost
  <2>3. Joined(frames) \o (buffer \o chunk) = (Joined(frames) \o buffer) \o chunk
    <3>1. PICK a, b, e \in Seq(Bytes) : a = Joined(frames) /\ b = buffer /\ e = chunk
      BY <1>0, <1>11
    <3>2. a \o (b \o e) = (a \o b) \o e
      BY Regroup
    <3> QED
      BY <3>1, <3>2
  <2> QED
    BY <1>1, <2>1, <2>2, <2>3
<1>13. NothingLost' /\ input' \in Seq(Bytes)
  <2>1. CASE TooLong(remainder)
    <3>1. PICK a, y \in Seq(Bytes) : a = Joined(frames') /\ y = input \o chunk
      BY <1>a, <1>11
    <3>2. a \o remainder = y
      BY <1>12, <3>1
    <3>3. SubSeq(y, 1, Len(y) - Len(remainder)) = a
      <4>1. /\ Len(a) \in Nat /\ Len(y) = Len(a) + Len(remainder) /\ Len(remainder) \in Nat
            /\ \A k \in 1..Len(a) : y[k] = a[k]
        BY <1>8, <3>2, Together
      <4>2. Len(y) - Len(remainder) = Len(a)
        BY <4>1
      <4>3. SubSeq(y, 1, Len(a)) \in Seq(Bytes) /\ Len(SubSeq(y, 1, Len(a))) = Len(a)
        BY <4>1
      <4>4. \A k \in 1..Len(a) : SubSeq(y, 1, Len(a))[k] = a[k]
        BY <4>1
      <4>5. SubSeq(y, 1, Len(a)) = a
        BY <4>3, <4>4, SeqEqual
      <4> QED
        BY <4>2, <4>5
    <3>4. a \o <<>> = a
      OBVIOUS
    <3> QED
      BY <1>9, <2>1, <3>1, <3>3, <3>4 DEF NothingLost
  <2>2. CASE ~TooLong(remainder)
    BY <1>a, <1>9, <1>12, <2>2 DEF NothingLost
  <2> QED
    BY <2>1, <2>2
<1>14. ~Contains(remainder)
  <2>1. ASSUME NEW i \in 1..Len(remainder) PROVE ~Occurs(remainder, i)
    <3>1. rest \in Nat \ {0} /\ Len(s) \in (rest - 1)..Len(s) /\ i \in Nat \ {0}
      BY <1>8
    <3>2. Occurs(remainder, i) => Occurs(s, rest + i - 1)
      BY <1>7, <3>1, InPiece
    <3>3. rest + i - 1 \in rest..Len(s)
      BY <1>8
    <3> QED
      BY <1>5, <1>6, <3>2, <3>3 DEF Clean
  <2> QED
    BY <2>1 DEF Contains
<1>15. NoneMissed'
  <2>1. ~Contains(<<>>)
    BY DEF Contains
  <2>2. ~Contains(buffer')
    BY <1>9, <1>14, <2>1
  <2>3. PICK q \in Seq(Seq(Bytes)) : q = c.frames
    BY <1>5
  <2>4. \A k \in 1..Len(frames) : OnlyAtEnd(frames[k])
    BY DEF IInv, NoneMissed, OnlyAtEnd
  <2>5. \A k \in 1..Len(q) : OnlyAtEnd(q[k])
    BY <1>5, <2>3 DEF Clean
  <2>6. ASSUME NEW k \in 1..Len(frames') PROVE OnlyAtEnd(frames'[k])
    <3>1. /\ Len(frames) \in Nat /\ Len(q) \in Nat /\ Len(frames') = Len(frames) + Len(q)
          /\ frames'[k] = IF k <= Len(frames) THEN frames[k] ELSE q[k - Len(frames)]
      BY <1>0, <1>9, <2>3, <2>6
    <3>2. k \in 1..Len(frames) \/ (k > Len(frames) /\ k - Len(frames) \in 1..Len(q))
      BY <3>1
    <3> QED
      BY <2>4, <2>5, <3>1, <3>2
  <2> QED
    BY <2>2, <2>6 DEF NoneMissed, OnlyAtEnd
<1>16. buffer' \in Seq(Bytes) /\ Len(buffer') \in Nat /\ Len(buffer') <= total'
  <2>1. Len(s) = Len(buffer) + n /\ Len(buffer) <= total /\ total \in Nat
    BY <1>0, <1>1 DEF IInv
  <2>2. Len(remainder) <= total' /\ Len(remainder) \in Nat
    BY <1>8, <1>9, <2>1
  <2>3. Len(<<>>) = 0 /\ <<>> \in Seq(Bytes) /\ 0 <= total'
    BY <1>9, <2>1
  <2> QED
    BY <1>8, <1>9, <2>2, <2>3
<1>17. RemainderBounded'
  BY <1>8, <1>9, LimitAssumption DEF RemainderBounded, TooLong
<1>18. total' \in 0..MaxInput /\ scanned' \in 0..total'
  BY <1>0, <1>9, <1>16, InputAssumption DEF IInv
<1> QED
  BY <1>0, <1>9, <1>10, <1>13, <1>15, <1>16, <1>17, <1>18 DEF IInv, Searched

\* So does the end.
LEMMA NextIInv == IInv /\ [Next]_vars => IInv'
<1> SUFFICES ASSUME IInv, [Next]_vars PROVE IInv'
  OBVIOUS
<1>1. CASE OnDone
  <2>1. /\ done' = TRUE /\ buffer' = <<>> /\ Len(<<>>) = 0 /\ <<>> \in Seq(Bytes)
        /\ UNCHANGED <<scanned, frames, input, total>>
    BY <1>1 DEF OnDone
  <2>2. NoneMissed'
    BY <2>1 DEF IInv, NoneMissed, Contains
  <2>3. RemainderBounded'
    BY <2>1, LimitAssumption DEF RemainderBounded
  <2> QED
    BY <2>1, <2>2, <2>3 DEF IInv, Searched, NothingLost
<1>2. CASE UNCHANGED vars
  BY <1>2 DEF vars, IInv, Searched, NothingLost, NoneMissed, RemainderBounded
<1> QED
  BY <1>1, <1>2, DataKeepsIInv DEF Next

-----------------------------------------------------------------------------
\* The invariant holds throughout.
LEMMA AlwaysIInv == Spec => []IInv
  BY InitIInv, NextIInv, PTL DEF Spec

\* Every variable of the splitter keeps its type, and what it buffers fits what it got.
THEOREM SplitterTypes == Spec => []TypeOK
<1>1. IInv => TypeOK
  BY InputAssumption DEF IInv, TypeOK
<1> QED
  BY <1>1, AlwaysIInv, PTL

\* Frames, delimiters and remainder are what was received, in order, whatever the chunks.
THEOREM NothingIsLost == Spec => []NothingLost
<1>1. IInv => NothingLost
  BY DEF IInv
<1> QED
  BY <1>1, AlwaysIInv, PTL

\* No delimiter is overlooked, also none that straddles chunks.
THEOREM NoDelimiterMissed == Spec => []NoneMissed
<1>1. IInv => NoneMissed
  BY DEF IInv
<1> QED
  BY <1>1, AlwaysIInv, PTL

\* What is buffered between two chunks stays within the cap.
LEMMA RemainderStaysBounded == Spec => []RemainderBounded
<1>1. IInv => RemainderBounded
  BY DEF IInv
<1> QED
  BY <1>1, AlwaysIInv, PTL

-----------------------------------------------------------------------------
\* Division with a remainder.
LEMMA Parts ==
  ASSUME NEW v \in Int, NEW m \in Nat, m > 0
  PROVE  \E q \in Int, r \in 0..(m - 1) : v = q * m + r /\ q = v \div m /\ r = v % m
  BY SMTT(30)

\* Division is unique.
LEMMA Division ==
  ASSUME NEW v \in Int, NEW m \in Nat, m > 0, NEW q \in Int, NEW r \in 0..(m - 1), v = q * m + r
  PROVE  v % m = r /\ v \div m = q
<1>1. PICK a \in Int, s \in 0..(m - 1) : v = a * m + s /\ a = v \div m /\ s = v % m
  BY Parts
<1>2. (a - q) * m = r - s
  BY <1>1, SMTT(30)
<1>3. ASSUME NEW d \in Int, d * m = r - s PROVE d = 0
  <2>1. CASE d > 0
    <3>1. d * m >= m
      BY <2>1, SMTT(30)
    <3> QED
      BY <1>3, <3>1
  <2>2. CASE d < 0
    <3>1. d * m <= -m
      BY <2>2, SMTT(30)
    <3> QED
      BY <1>3, <3>1
  <2> QED
    BY <2>1, <2>2
<1> QED
  BY <1>1, <1>2, <1>3

\* The digit of weight w: what it adds to the remainder.
LEMMA OneDigit ==
  ASSUME NEW v \in Nat, NEW w \in Nat, w > 0, NEW b \in Nat, b > 0
  PROVE  /\ v % (b * w) = (v % w) + ((v \div w) % b) * w
         /\ v % w \in 0..(w - 1) /\ (v \div w) % b \in 0..(b - 1)
<1>1. PICK q \in Int, r \in 0..(w - 1) : v = q * w + r /\ q = v \div w /\ r = v % w
  BY Parts
<1>2. PICK a \in Int, d \in 0..(b - 1) : q = a * b + d /\ a = q \div b /\ d = q % b
  BY Parts
<1>3. v = a * (b * w) + (d * w + r)
  <2>1. (a * b + d) * w = (a * b) * w + d * w
    BY SMTT(30)
  <2>2. (a * b) * w = a * (b * w)
    BY SMTT(30)
  <2>3. v = (a * b + d) * w + r
    BY <1>1, <1>2
  <2> DEFINE x == (a * b + d) * w
             y == a * (b * w)
             z == d * w
  <2>4. x = y + z
    BY <2>1, <2>2
  <2>5. y \in Int /\ z \in Int
    OBVIOUS
  <2> HIDE DEF x, y, z
  <2>6. v = y + (z + r)
    BY <2>3, <2>4, <2>5 DEF x
  <2> QED
    BY <2>6 DEF y, z
<1>4. b * w \in Nat /\ b * w > 0 /\ d * w \in Nat
  BY SMTT(30)
<1>5. d * w + r \in 0..(b * w - 1)
  <2>1. (b - 1 - d) * w >= 0
    BY SMTT(30)
  <2>2. b * w = (b - 1 - d) * w + d * w + w
    BY SMTT(30)
  <2> QED
    BY <1>4, <2>1, <2>2
<1>6. v % (b * w) = d * w + r
  <2> DEFINE m == b * w
             rest == d * w + r
  <2>1. m \in Nat /\ m > 0 /\ rest \in 0..(m - 1) /\ v = a * m + rest
    BY <1>3, <1>4, <1>5
  <2> HIDE DEF m, rest
  <2>2. v % m = rest
    BY <2>1, Division
  <2> QED
    BY <2>2 DEF m, rest
<1>7. d = (v \div w) % b /\ r = v % w
  BY <1>1, <1>2
<1>8. d * w + r = r + d * w
  BY <1>4
<1> QED
  BY <1>6, <1>7, <1>8

-----------------------------------------------------------------------------
\* powers is the function that Powers is defined to be.
IsPowers(powers) ==
    powers = [k \in 0..PrefixLength |-> IF k = 0 THEN 1 ELSE Base * powers[k - 1]]

\* There is such a function.
LEMMA PowersExist == \E powers : IsPowers(powers)
<1> DEFINE Dom == 0..PrefixLength
           V == Nat
           rank == [k \in Dom |-> k]
           F == [p \in [Dom -> V] \X Dom |-> IF p[2] = 0 THEN 1 ELSE Base * p[1][p[2] - 1]]
<1>0. PrefixLength \in Nat /\ Base \in Nat
  BY PrefixAssumption
<1>1. F \in [[Dom -> V] \X Dom -> V]
  <2>1. ASSUME NEW g \in [Dom -> V], NEW k \in Dom, k # 0 PROVE Base * g[k - 1] \in V
    <3>1. g[k - 1] \in Nat
      BY <1>0, <2>1
    <3> QED
      BY <1>0, <3>1
  <2> QED
    BY <2>1
<1>2. Descends(F, Dom, V, rank)
  <2>1. \A k \in Dom : k # 0 => k - 1 \in Dom /\ rank[k - 1] < rank[k]
    BY <1>0
  <2>2. \A g, h \in [Dom -> V] : \A x \in Dom :
           (\A y \in Dom : rank[y] < rank[x] => g[y] = h[y]) => F[<<g, x>>] = F[<<h, x>>]
    BY <2>1
  <2>3. rank \in [Dom -> Nat] /\ PrefixLength + 1 \in Nat
        /\ \A k \in Dom : rank[k] < PrefixLength + 1
    BY <1>0
  <2> QED
    BY <1>1, <2>2, <2>3 DEF Descends
<1>3. PICK p \in [Dom -> V] : \A k \in Dom : p[k] = F[<<p, k>>]
  <2> HIDE DEF F, rank, Dom
  <2>1. \E p \in [Dom -> V] : Solves(p, F, Dom)
    BY <1>2, Recursion
  <2> QED
    BY <2>1 DEF Solves
<1>4. \A k \in Dom : <<p, k>> \in [Dom -> V] \X Dom
  BY <1>3
<1>5. \A k \in Dom : p[k] = IF k = 0 THEN 1 ELSE Base * p[k - 1]
  BY <1>3, <1>4
<1>6. p = [k \in 0..PrefixLength |-> IF k = 0 THEN 1 ELSE Base * p[k - 1]]
  BY <1>3, <1>5
<1> QED
  BY <1>6 DEF IsPowers

\* Each power is the one before it times the base.
LEMMA PowersWork ==
  /\ Prefixed!Powers[0] = 1
  /\ \A k \in 1..PrefixLength : Prefixed!Powers[k] = Base * Prefixed!Powers[k - 1]
<1>1. Prefixed!Powers = CHOOSE powers : IsPowers(powers)
  BY DEF Prefixed!Powers, IsPowers
<1>2. PICK powers : powers = Prefixed!Powers
  OBVIOUS
<1>3. IsPowers(powers)
  BY <1>1, <1>2, PowersExist
<1>4. ASSUME NEW k \in 0..PrefixLength
      PROVE  powers[k] = IF k = 0 THEN 1 ELSE Base * powers[k - 1]
  BY <1>3, Zenon DEF IsPowers
<1>5. 0 \in 0..PrefixLength /\ \A k \in 1..PrefixLength : k \in 0..PrefixLength /\ k # 0
  BY PrefixAssumption
<1> QED
  BY <1>2, <1>4, <1>5

\* Powers are positive.
LEMMA PowersPositive ==
  ASSUME NEW k \in 0..PrefixLength
  PROVE  Prefixed!Powers[k] \in Nat /\ Prefixed!Powers[k] > 0
<1> DEFINE W == Prefixed!Powers
           Good == {m \in 0..PrefixLength : W[m] \in Nat /\ W[m] > 0}
<1>1. PrefixLength \in Nat /\ 0 \in Good
  BY PrefixAssumption, PowersWork
<1>2. ASSUME NEW m \in 1..PrefixLength, m - 1 \in Good PROVE m \in Good
  <2>1. W[m - 1] \in Nat /\ W[m - 1] > 0
    BY <1>2
  <2>2. W[m] = Base * W[m - 1]
    BY PowersWork
  <2>3. ASSUME NEW w \in Nat, w > 0 PROVE Base * w \in Nat /\ Base * w > 0
    <3>1. PICK b \in Nat : b = Base /\ b > 0
      BY PrefixAssumption
    <3>2. b * w \in Nat /\ b * w > 0
      BY <2>3, <3>1, SMTT(30)
    <3> QED
      BY <3>1, <3>2
  <2>4. m \in 0..PrefixLength
    BY <1>1
  <2> QED
    BY <2>1, <2>2, <2>3, <2>4
<1> HIDE DEF Good
<1>3. \A m \in 0..PrefixLength : m \in Good
  BY <1>1, <1>2, Upward
<1> QED
  BY <1>3 DEF Good

-----------------------------------------------------------------------------
\* What a byte may be.
Digits == 0..(Base - 1)

\* value is the function that ReadLength(s, at) takes its value from.
IsRead(s, at, value) ==
    value = [i \in 0..PrefixLength |->
                IF i = 0 THEN 0 ELSE value[i - 1] + s[at + i - 1] * Prefixed!Weight(i)]

\* The weight of a byte is a power.
LEMMA Weighs ==
  ASSUME NEW i \in 1..PrefixLength
  PROVE  /\ Prefixed!Weight(i) \in Nat /\ Prefixed!Weight(i) > 0
         /\ Prefixed!Weight(i)
              = Prefixed!Powers[IF BigEndian THEN PrefixLength - i ELSE i - 1]
<1>1. (IF BigEndian THEN PrefixLength - i ELSE i - 1) \in 0..PrefixLength
  BY PrefixAssumption
<1> QED
  BY <1>1, PowersPositive DEF Prefixed!Weight

\* There is such a function.
LEMMA ReadExists ==
  ASSUME NEW s \in Seq(Digits), NEW at \in 1..Len(s), at + PrefixLength - 1 <= Len(s)
  PROVE  \E value : IsRead(s, at, value)
<1> DEFINE Dom == 0..PrefixLength
           V == Int
           rank == [i \in Dom |-> i]
           F == [p \in [Dom -> V] \X Dom |->
                    IF p[2] = 0 THEN 0
                    ELSE p[1][p[2] - 1] + s[at + p[2] - 1] * Prefixed!Weight(p[2])]
<1>0. PrefixLength \in Nat
  BY PrefixAssumption
<1>1. F \in [[Dom -> V] \X Dom -> V]
  <2>1. ASSUME NEW g \in [Dom -> V], NEW i \in Dom, i # 0
        PROVE  g[i - 1] + s[at + i - 1] * Prefixed!Weight(i) \in V
    <3>1. g[i - 1] \in Int /\ i \in 1..PrefixLength
      BY <1>0, <2>1
    <3>2. s[at + i - 1] \in Int
      BY <3>1, PrefixAssumption DEF Digits
    <3>3. Prefixed!Weight(i) \in Int
      BY <3>1, Weighs
    <3>4. s[at + i - 1] * Prefixed!Weight(i) \in Int
      BY <3>2, <3>3
    <3> QED
      BY <3>1, <3>4
  <2> QED
    BY <2>1
<1>2. Descends(F, Dom, V, rank)
  <2>1. \A k \in Dom : k # 0 => k - 1 \in Dom /\ rank[k - 1] < rank[k]
    BY <1>0
  <2>2. \A g, h \in [Dom -> V] : \A x \in Dom :
           (\A y \in Dom : rank[y] < rank[x] => g[y] = h[y]) => F[<<g, x>>] = F[<<h, x>>]
    BY <2>1
  <2>3. rank \in [Dom -> Nat] /\ PrefixLength + 1 \in Nat
        /\ \A k \in Dom : rank[k] < PrefixLength + 1
    BY <1>0
  <2>4. 0 \in V
    OBVIOUS
  <2> HIDE DEF F, rank, V, Dom
  <2>5. \E n \in Nat : \A x \in Dom : rank[x] < n
    BY <2>3
  <2> QED
    BY <1>1, <2>2, <2>3, <2>4, <2>5 DEF Descends
<1>3. PICK v \in [Dom -> V] : \A k \in Dom : v[k] = F[<<v, k>>]
  <2> HIDE DEF F, rank, Dom
  <2>1. \E v \in [Dom -> V] : Solves(v, F, Dom)
    BY <1>2, Recursion
  <2> QED
    BY <2>1 DEF Solves
<1>4. \A k \in Dom : <<v, k>> \in [Dom -> V] \X Dom
  BY <1>3
<1>5. \A k \in Dom : v[k] = IF k = 0 THEN 0
                            ELSE v[k - 1] + s[at + k - 1] * Prefixed!Weight(k)
  BY <1>3, <1>4
<1>6. v = [k \in Dom |-> v[k]]
  BY <1>3
<1> QED
  BY <1>5, <1>6 DEF IsRead

\* What ReadLength takes its value from, byte for byte.
Reads(s, at, value) ==
    /\ value[0] = 0
    /\ \A i \in 1..PrefixLength :
          /\ value[i - 1] \in Int
          /\ value[i] = value[i - 1] + s[at + i - 1] * Prefixed!Weight(i)
    /\ value[PrefixLength] \in Int

\* It adds up the weights of a whole prefix.
LEMMA ReadWorks ==
  ASSUME NEW s \in Seq(Digits), NEW at \in 1..Len(s), at + PrefixLength - 1 <= Len(s)
  PROVE  \E value : /\ Reads(s, at, value)
                    /\ Prefixed!ReadLength(s, at)
                         = value[PrefixLength]
                             - (IF LengthIncludesPrefix THEN PrefixLength ELSE 0)
<1>1. Prefixed!ReadLength(s, at)
        = (CHOOSE value : IsRead(s, at, value))[PrefixLength]
            - (IF LengthIncludesPrefix THEN PrefixLength ELSE 0)
  BY DEF Prefixed!ReadLength, IsRead
<1>2. PICK value : value = CHOOSE v : IsRead(s, at, v)
  OBVIOUS
<1>3. IsRead(s, at, value)
  BY <1>2, ReadExists
<1>4. ASSUME NEW i \in 0..PrefixLength
      PROVE  value[i] = IF i = 0 THEN 0 ELSE value[i - 1] + s[at + i - 1] * Prefixed!Weight(i)
  BY <1>3, Zenon DEF IsRead
<1>5. PrefixLength \in Nat /\ 0 \in 0..PrefixLength
      /\ \A i \in 1..PrefixLength : i \in 0..PrefixLength /\ i # 0 /\ i - 1 \in 0..PrefixLength
  BY PrefixAssumption
<1> DEFINE Good == {i \in 0..PrefixLength : value[i] \in Int}
<1>6. 0 \in Good
  BY <1>4, <1>5
<1>7. ASSUME NEW i \in 1..PrefixLength, i - 1 \in Good PROVE i \in Good
  <2>1. s[at + i - 1] \in Int
    BY <1>5, PrefixAssumption DEF Digits
  <2>2. Prefixed!Weight(i) \in Int
    BY Weighs
  <2>3. s[at + i - 1] * Prefixed!Weight(i) \in Int
    BY <2>1, <2>2
  <2>4. value[i - 1] \in Int
    BY <1>7
  <2>5. value[i] = value[i - 1] + s[at + i - 1] * Prefixed!Weight(i)
    BY <1>4, <1>5
  <2> QED
    BY <1>5, <2>3, <2>4, <2>5
<1>8. \A i \in 0..PrefixLength : i \in Good
  <2> HIDE DEF Good
  <2> QED
    BY <1>5, <1>6, <1>7, Upward
<1>9. Reads(s, at, value)
  BY <1>4, <1>5, <1>8 DEF Reads
<1> QED
  BY <1>1, <1>2, <1>9

-----------------------------------------------------------------------------
\* What the k lowest digits of n amount to.
Low(n, k) == n % Prefixed!Powers[k]

\* The digit of weight k.
DigitAt(n, k) == (n \div Prefixed!Powers[k]) % Base

\* No digits amount to nothing, all to the number, and one more adds its weight.
LEMMA LowWorks ==
  ASSUME NEW n \in 0..Prefixed!Largest
  PROVE  /\ Low(n, 0) = 0 /\ Low(n, PrefixLength) = n
         /\ \A k \in 0..(PrefixLength - 1) :
               /\ Low(n, k) \in Int /\ DigitAt(n, k) * Prefixed!Powers[k] \in Int
               /\ Low(n, k + 1) = Low(n, k) + DigitAt(n, k) * Prefixed!Powers[k]
<1> DEFINE W == Prefixed!Powers
           P == PrefixLength
<1>0. P \in Nat /\ n \in Nat /\ n < W[P] /\ P \in 0..P
  <2>1. P \in Nat /\ P \in 0..P
    BY PrefixAssumption
  <2>2. W[P] \in Nat
    BY <2>1, PowersPositive
  <2> QED
    BY <2>1, <2>2 DEF Prefixed!Largest
<1>1. Low(n, P) = n
  <2>1. PICK w \in Nat : w = W[P] /\ w > 0
    BY <1>0, PowersPositive
  <2>2. n \in 0..(w - 1) /\ n = 0 * w + n
    BY <1>0, <2>1
  <2>3. n % w = n
    BY <2>1, <2>2, Division
  <2> QED
    BY <2>1, <2>3 DEF Low
<1>2. Low(n, 0) = 0
  <2>1. n = n * 1 + 0 /\ 0 \in 0..(1 - 1)
    BY <1>0
  <2>2. n % 1 = 0
    BY <1>0, <2>1, Division
  <2> QED
    BY <2>2, PowersWork DEF Low
<1>3. ASSUME NEW k \in 0..(P - 1)
      PROVE  /\ Low(n, k) \in Int /\ DigitAt(n, k) * W[k] \in Int
             /\ Low(n, k + 1) = Low(n, k) + DigitAt(n, k) * W[k]
  <2>1. k \in 0..P /\ k + 1 \in 1..P /\ (k + 1) - 1 = k
    BY <1>0
  <2>2. PICK w \in Nat : w = W[k] /\ w > 0
    BY <2>1, PowersPositive
  <2>3. PICK b \in Nat : b = Base /\ b > 0
    BY PrefixAssumption
  <2>4. W[k + 1] = b * w
    BY <2>1, <2>2, <2>3, PowersWork
  <2>5. n \in Nat
    BY <1>0
  <2>6. /\ n % (b * w) = (n % w) + ((n \div w) % b) * w
        /\ n % w \in 0..(w - 1) /\ (n \div w) % b \in 0..(b - 1)
    BY <2>2, <2>3, <2>5, OneDigit, Zenon
  <2>7. n % w \in Int /\ ((n \div w) % b) * w \in Int
    BY <2>6
  <2> QED
    BY <2>2, <2>3, <2>4, <2>6, <2>7, Zenon DEF Low, DigitAt
<1> QED
  BY <1>1, <1>2, <1>3

\* The prefix's bytes of n, wherever they are, are read as n.
LEMMA ReadsBack ==
  ASSUME NEW s \in Seq(Digits), NEW at \in 1..Len(s), NEW value, Reads(s, at, value),
         NEW n \in 0..Prefixed!Largest,
         \A i \in 1..PrefixLength : s[at + i - 1] = (n \div Prefixed!Weight(i)) % Base
  PROVE  value[PrefixLength] = n
<1> DEFINE P == PrefixLength
           Good == {i \in 0..P : value[i] = IF BigEndian THEN n - Low(n, P - i) ELSE Low(n, i)}
<1>0. P \in Nat /\ 0 \in 0..P /\ P \in 0..P /\ P - P = 0 /\ P - 0 = P /\ n \in Int /\ n - n = 0
      /\ n - 0 = n
  BY PrefixAssumption, PowersPositive DEF Prefixed!Largest
<1>2. 0 \in Good
  <2>1. value[0] = 0
    BY DEF Reads
  <2> QED
    BY <1>0, <2>1, LowWorks
<1>3. ASSUME NEW i \in 1..P, i - 1 \in Good PROVE i \in Good
  <2>2. PICK k \in 0..(P - 1) : k = IF BigEndian THEN P - i ELSE i - 1
    <3>1. P - i \in 0..(P - 1) /\ i - 1 \in 0..(P - 1)
      BY <1>0
    <3> QED
      BY <3>1
  <2>3. Prefixed!Weight(i) = Prefixed!Powers[k]
    BY <2>2, Weighs
  <2>4. value[i] = value[i - 1] + DigitAt(n, k) * Prefixed!Powers[k]
    <3>1. value[i] = value[i - 1] + s[at + i - 1] * Prefixed!Weight(i)
      BY DEF Reads
    <3> QED
      BY <2>3, <3>1, Zenon DEF DigitAt
  <2>5. PICK add \in Int : add = DigitAt(n, k) * Prefixed!Powers[k]
    BY LowWorks
  <2>6. Low(n, k) \in Int /\ Low(n, k + 1) = Low(n, k) + add /\ value[i] = value[i - 1] + add
    BY <2>4, <2>5, LowWorks
  <2>10. CASE BigEndian
    <3>1. k = P - i /\ k + 1 = P - (i - 1) /\ i \in 0..P
      BY <1>0, <2>2, <2>10
    <3>2. value[i - 1] = n - Low(n, k + 1)
      BY <1>3, <2>10, <3>1
    <3>3. value[i] = n - Low(n, k)
      BY <1>0, <2>5, <2>6, <3>2
    <3> QED
      BY <2>10, <3>1, <3>3
  <2>11. CASE ~BigEndian
    <3>1. k = i - 1 /\ k + 1 = i /\ i \in 0..P
      BY <1>0, <2>2, <2>11
    <3>2. value[i - 1] = Low(n, k)
      BY <1>3, <2>11, <3>1
    <3> QED
      BY <2>6, <2>11, <3>1, <3>2
  <2> QED
    BY <2>10, <2>11
<1>4. P \in Good
  <2> HIDE DEF Good
  <2> QED
    BY <1>0, <1>2, <1>3, Upward
<1> QED
  BY <1>0, <1>4, LowWorks

-----------------------------------------------------------------------------
\* A payload the prefix can describe.
Describable(p) == p \in Seq(Digits) /\ Prefixed!Prefix(p) <= Prefixed!Largest

\* Its frame: the digits of its length, and itself.
LEMMA Framed ==
  ASSUME NEW p, Describable(p)
  PROVE  /\ Prefixed!Frame(p) \in Seq(Digits) /\ Len(Prefixed!Frame(p)) = PrefixLength + Len(p)
         /\ Len(p) \in Nat /\ Prefixed!Prefix(p) \in 0..Prefixed!Largest
         /\ Len(p) = Prefixed!Prefix(p)
                       - (IF LengthIncludesPrefix THEN PrefixLength ELSE 0)
         /\ \A i \in 1..PrefixLength :
               Prefixed!Frame(p)[i] = (Prefixed!Prefix(p) \div Prefixed!Weight(i)) % Base
         /\ \A i \in 1..Len(p) : Prefixed!Frame(p)[PrefixLength + i] = p[i]
<1> DEFINE P == PrefixLength
           n == Prefixed!Prefix(p)
           head == [i \in 1..P |-> (n \div Prefixed!Weight(i)) % Base]
<1>0. P \in Nat /\ p \in Seq(Digits) /\ Len(p) \in Nat
  BY PrefixAssumption DEF Describable
<1>1. n \in Nat
  BY <1>0 DEF Prefixed!Prefix
<1>2. Len(p) = n - (IF LengthIncludesPrefix THEN P ELSE 0)
  BY <1>0 DEF Prefixed!Prefix
<1>3. n \in 0..Prefixed!Largest
  <2>1. Prefixed!Powers[P] \in Nat
    BY <1>0, PowersPositive
  <2>2. Prefixed!Largest \in Int
    BY <2>1 DEF Prefixed!Largest
  <2> HIDE DEF n
  <2> QED
    BY <1>1, <2>2 DEF Describable, n
<1>4. ASSUME NEW i \in 1..P PROVE (n \div Prefixed!Weight(i)) % Base \in Digits
  <2> HIDE DEF n
  <2>1. PICK w \in Nat : w = Prefixed!Weight(i) /\ w > 0
    BY Weighs
  <2>2. PICK b \in Nat : b = Base /\ b > 0
    BY PrefixAssumption
  <2>3. (n \div w) % b \in 0..(b - 1)
    BY <1>1, <2>1, <2>2, OneDigit, Zenon
  <2> QED
    BY <2>1, <2>2, <2>3 DEF Digits
<1>5. head \in Seq(Digits) /\ Len(head) = P
  <2> HIDE DEF n
  <2>1. head \in [1..P -> Digits]
    BY <1>4
  <2> HIDE DEF head
  <2> QED
    BY <1>0, <2>1
<1>6. Prefixed!Frame(p) = head \o p
  BY DEF Prefixed!Frame
<1>7. \A i \in 1..P : head[i] = (n \div Prefixed!Weight(i)) % Base
  OBVIOUS
<1> HIDE DEF head, n
<1>8. PICK h \in Seq(Digits), q \in Seq(Digits) : h = head /\ q = p
  BY <1>0, <1>5
<1>9. /\ h \o q \in Seq(Digits) /\ Len(h \o q) = Len(h) + Len(q)
      /\ \A i \in 1..Len(h) : (h \o q)[i] = h[i]
      /\ \A i \in 1..Len(q) : (h \o q)[Len(h) + i] = q[i]
  OBVIOUS
<1>10. /\ Prefixed!Frame(p) \in Seq(Digits) /\ Len(Prefixed!Frame(p)) = P + Len(p)
       /\ \A i \in 1..P : Prefixed!Frame(p)[i] = head[i]
       /\ \A i \in 1..Len(p) : Prefixed!Frame(p)[P + i] = p[i]
  BY <1>5, <1>6, <1>8, <1>9
<1> QED
  BY <1>0, <1>2, <1>3, <1>7, <1>10 DEF n

\* A length is read from any place a prefix fits in.
LEMMA LengthRead ==
  ASSUME NEW s \in Seq(Digits), NEW at \in 1..Len(s), at + PrefixLength - 1 <= Len(s)
  PROVE  Prefixed!ReadLength(s, at) \in Int
<1>1. PICK value : /\ Reads(s, at, value)
                   /\ Prefixed!ReadLength(s, at)
                         = value[PrefixLength]
                             - (IF LengthIncludesPrefix THEN PrefixLength ELSE 0)
  BY ReadWorks
<1>2. value[PrefixLength] \in Int
  BY <1>1 DEF Reads
<1> QED
  BY <1>1, <1>2, PrefixAssumption

\* From a place where the frame of p begins, p's length is read.
LEMMA FrameRead ==
  ASSUME NEW s \in Seq(Digits), NEW at \in 1..Len(s), at + PrefixLength - 1 <= Len(s),
         NEW p, Describable(p),
         \A i \in 1..PrefixLength : s[at + i - 1] = Prefixed!Frame(p)[i]
  PROVE  Prefixed!ReadLength(s, at) = Len(p)
<1>1. PICK value : /\ Reads(s, at, value)
                   /\ Prefixed!ReadLength(s, at)
                         = value[PrefixLength]
                             - (IF LengthIncludesPrefix THEN PrefixLength ELSE 0)
  BY ReadWorks
<1>2. PICK n \in 0..Prefixed!Largest : n = Prefixed!Prefix(p)
  BY Framed
<1>3. \A i \in 1..PrefixLength : s[at + i - 1] = (n \div Prefixed!Weight(i)) % Base
  BY <1>2, Framed
<1>4. value[PrefixLength] = n
  BY <1>1, <1>3, ReadsBack
<1> QED
  BY <1>1, <1>2, <1>4, Framed

-----------------------------------------------------------------------------
\* parse is the function that Parse(s) takes its value from.
IsParse(s, parse) ==
    parse = [start \in 1..(Len(s) + 1) |->
                LET left == Len(s) + 1 - start
                    n == Prefixed!ReadLength(s, start)
                    next == start + PrefixLength + n
                    rest == parse[next]
                IN IF left < PrefixLength
                   THEN [frames |-> <<>>, rest |-> start, error |-> FALSE]
                   ELSE IF Prefixed!Unusable(n)
                   THEN [frames |-> <<>>, rest |-> Len(s) + 1, error |-> TRUE]
                   ELSE IF left < PrefixLength + n
                   THEN [frames |-> <<>>, rest |-> start, error |-> FALSE]
                   ELSE [rest EXCEPT !.frames =
                            <<SubSeq(s, start + PrefixLength, next - 1)>> \o @]]

\* Bytes left from start on.
Left(s, start) == Len(s) + 1 - start

\* Where the frame after the next one would begin.
After(s, start) == start + PrefixLength + Prefixed!ReadLength(s, start)

\* The payload of the next one.
Content(s, start) == SubSeq(s, start + PrefixLength, After(s, start) - 1)

\* A round may end in three ways: with too few bytes for the prefix or the payload,
Waits(s, start) ==
    \/ Left(s, start) < PrefixLength
    \/ /\ ~Prefixed!Unusable(Prefixed!ReadLength(s, start))
       /\ Left(s, start) < PrefixLength + Prefixed!ReadLength(s, start)

\* with a length that cannot be used,
Fails(s, start) == /\ Left(s, start) >= PrefixLength
                   /\ Prefixed!Unusable(Prefixed!ReadLength(s, start))

\* with a frame.
Takes(s, start) == /\ Left(s, start) >= PrefixLength
                   /\ ~Prefixed!Unusable(Prefixed!ReadLength(s, start))
                   /\ Left(s, start) >= PrefixLength + Prefixed!ReadLength(s, start)

\* What the loop may come to.
Parses(s) == [frames : Seq(Seq(Digits)), rest : 1..(Len(s) + 1), error : BOOLEAN]

\* A round that takes a frame takes it from s, and goes on after it.
LEMMA TakenWithin ==
  ASSUME NEW s \in Seq(Digits), NEW start \in 1..(Len(s) + 1), Takes(s, start)
  PROVE  /\ start \in 1..Len(s) /\ start + PrefixLength - 1 <= Len(s)
         /\ Prefixed!ReadLength(s, start) \in Nat
         /\ After(s, start) \in (start + 1)..(Len(s) + 1)
         /\ Content(s, start) \in Seq(Digits)
<1>1. PrefixLength \in Nat \ {0} /\ Len(s) \in Nat
  BY PrefixAssumption
<1>2. start \in 1..Len(s) /\ start + PrefixLength - 1 <= Len(s)
  BY <1>1 DEF Takes, Left
<1>3. PICK n \in Int : n = Prefixed!ReadLength(s, start)
  BY <1>2, LengthRead
<1>4. n >= 0
  BY <1>3 DEF Takes, Prefixed!Unusable
<1>5. Len(s) + 1 - start >= PrefixLength + n
  BY <1>3 DEF Takes, Left
<1>6. After(s, start) = start + PrefixLength + n
  BY <1>3 DEF After
<1>7. PICK a \in Int : a = After(s, start) /\ a = start + PrefixLength + n
  BY <1>1, <1>6
<1>8. Content(s, start) = SubSeq(s, start + PrefixLength, a - 1)
  BY <1>7 DEF Content
<1>9. SubSeq(s, start + PrefixLength, a - 1) \in Seq(Digits)
  BY <1>1, <1>2, <1>4, <1>5, <1>7
<1>10. a \in (start + 1)..(Len(s) + 1)
  BY <1>1, <1>2, <1>4, <1>5, <1>7
<1> QED
  BY <1>2, <1>3, <1>4, <1>7, <1>8, <1>9, <1>10

\* A round ends in one of the three ways.
LEMMA RoundEnds ==
  ASSUME NEW s \in Seq(Digits), NEW start \in 1..(Len(s) + 1)
  PROVE  Waits(s, start) \/ Fails(s, start) \/ Takes(s, start)
<1>1. PrefixLength \in Nat \ {0} /\ Len(s) \in Nat
  BY PrefixAssumption
<1>2. CASE Len(s) + 1 - start < PrefixLength
  BY <1>2 DEF Waits, Left
<1>3. CASE Len(s) + 1 - start >= PrefixLength
  <2>1. start \in 1..Len(s) /\ start + PrefixLength - 1 <= Len(s)
    BY <1>1, <1>3
  <2>2. PICK n \in Int : n = Prefixed!ReadLength(s, start)
    BY <2>1, LengthRead
  <2>3. Len(s) + 1 - start < PrefixLength + n \/ Len(s) + 1 - start >= PrefixLength + n
    BY <1>1
  <2> QED
    BY <1>3, <2>2, <2>3 DEF Waits, Fails, Takes, Left
<1> QED
  BY <1>1, <1>2, <1>3

\* There is such a function.
LEMMA ParseExists ==
  ASSUME NEW s \in Seq(Digits)
  PROVE  \E parse \in [1..(Len(s) + 1) -> Parses(s)] : IsParse(s, parse)
<1> DEFINE n == Len(s) + 1
           Dom == 1..n
           V == Parses(s)
           F == [p \in [Dom -> V] \X Dom |->
                    IF Takes(s, p[2])
                    THEN [p[1][After(s, p[2])] EXCEPT !.frames = <<Content(s, p[2])>> \o @]
                    ELSE IF Fails(s, p[2])
                    THEN [frames |-> <<>>, rest |-> n, error |-> TRUE]
                    ELSE [frames |-> <<>>, rest |-> p[2], error |-> FALSE]]
           rank == [start \in Dom |-> n - start]
<1>0. n \in Nat \ {0} /\ Len(s) \in Nat
  OBVIOUS
<1>1. ASSUME NEW start \in Dom, Takes(s, start)
      PROVE  After(s, start) \in (start + 1)..n /\ Content(s, start) \in Seq(Digits)
  BY <1>1, TakenWithin
<1>a. V = [frames : Seq(Seq(Digits)), rest : Dom, error : BOOLEAN]
  BY DEF Parses
<1> HIDE DEF n, V
<1>2. F \in [[Dom -> V] \X Dom -> V]
  <2>1. ASSUME NEW g \in [Dom -> V], NEW start \in Dom, Takes(s, start)
        PROVE  [g[After(s, start)] EXCEPT !.frames = <<Content(s, start)>> \o @] \in V
    <3>1. g[After(s, start)] \in V
      BY <1>0, <1>1, <2>1
    <3>2. PICK c \in Seq(Digits) : c = Content(s, start)
      BY <1>1, <2>1
    <3>3. ASSUME NEW r \in V PROVE [r EXCEPT !.frames = <<c>> \o @] \in V
      <4>1. r.frames \in Seq(Seq(Digits)) /\ <<c>> \in Seq(Seq(Digits))
        BY <1>a
      <4>2. <<c>> \o r.frames \in Seq(Seq(Digits))
        BY <4>1
      <4> QED
        BY <1>a, <4>2
    <3> QED
      BY <3>1, <3>2, <3>3
  <2>2. ASSUME NEW start \in Dom
        PROVE  /\ [frames |-> <<>>, rest |-> start, error |-> FALSE] \in V
               /\ [frames |-> <<>>, rest |-> n, error |-> TRUE] \in V
    BY <1>0, <1>a
  <2> QED
    BY <2>1, <2>2
<1>3. Descends(F, Dom, V, rank)
  <2>1. ASSUME NEW start \in Dom, Takes(s, start)
        PROVE  After(s, start) \in Dom /\ rank[After(s, start)] < rank[start]
    BY <1>0, <1>1, <2>1
  <2>2. \A g, h \in [Dom -> V] : \A x \in Dom :
           (\A y \in Dom : rank[y] < rank[x] => g[y] = h[y]) => F[<<g, x>>] = F[<<h, x>>]
    BY <2>1
  <2>3. rank \in [Dom -> Nat] /\ \A k \in Dom : rank[k] < n
    BY <1>0
  <2>4. V # {}
    <3>1. [frames |-> <<>>, rest |-> n, error |-> TRUE] \in V
      BY <1>0, <1>a
    <3> QED
      BY <3>1
  <2> HIDE DEF F, rank, Dom
  <2>5. \E m \in Nat : \A x \in Dom : rank[x] < m
    BY <1>0, <2>3
  <2> QED
    BY <1>2, <2>2, <2>3, <2>4, <2>5 DEF Descends
<1>4. PICK parse \in [Dom -> V] : \A k \in Dom : parse[k] = F[<<parse, k>>]
  <2> HIDE DEF F, rank, Dom
  <2>1. \E p \in [Dom -> V] : Solves(p, F, Dom)
    BY <1>3, Recursion
  <2> QED
    BY <2>1 DEF Solves
<1>5. \A k \in Dom : <<parse, k>> \in [Dom -> V] \X Dom
  BY <1>4
<1>6. ASSUME NEW k \in Dom
      PROVE  parse[k] = IF Takes(s, k)
                        THEN [parse[After(s, k)] EXCEPT !.frames = <<Content(s, k)>> \o @]
                        ELSE IF Fails(s, k)
                        THEN [frames |-> <<>>, rest |-> n, error |-> TRUE]
                        ELSE [frames |-> <<>>, rest |-> k, error |-> FALSE]
  BY <1>4, <1>5
<1>7. ASSUME NEW k \in Dom
      PROVE  parse[k] =
                LET left == Len(s) + 1 - k
                    m == Prefixed!ReadLength(s, k)
                    next == k + PrefixLength + m
                    rest == parse[next]
                IN IF left < PrefixLength
                   THEN [frames |-> <<>>, rest |-> k, error |-> FALSE]
                   ELSE IF Prefixed!Unusable(m)
                   THEN [frames |-> <<>>, rest |-> Len(s) + 1, error |-> TRUE]
                   ELSE IF left < PrefixLength + m
                   THEN [frames |-> <<>>, rest |-> k, error |-> FALSE]
                   ELSE [rest EXCEPT !.frames =
                            <<SubSeq(s, k + PrefixLength, next - 1)>> \o @]
  <2>1. k \in 1..(Len(s) + 1) /\ PrefixLength \in Nat /\ Len(s) \in Nat
    BY PrefixAssumption DEF n
  <2>2. CASE Takes(s, k)
    <3>1. /\ ~(Len(s) + 1 - k < PrefixLength)
          /\ ~Prefixed!Unusable(Prefixed!ReadLength(s, k))
          /\ ~(Len(s) + 1 - k < PrefixLength + Prefixed!ReadLength(s, k))
      BY <2>1, <2>2, TakenWithin DEF Takes, Left
    <3> QED
      BY <1>6, <2>2, <3>1 DEF After, Content
  <2>3. CASE Fails(s, k)
    <3>1. /\ ~(Len(s) + 1 - k < PrefixLength) /\ ~Takes(s, k)
          /\ Prefixed!Unusable(Prefixed!ReadLength(s, k))
      BY <2>1, <2>3 DEF Fails, Takes, Left
    <3> QED
      BY <1>6, <2>3, <3>1 DEF n
  <2>4. CASE Waits(s, k) /\ ~Takes(s, k) /\ ~Fails(s, k)
    <3>1. parse[k] = [frames |-> <<>>, rest |-> k, error |-> FALSE]
      BY <1>6, <2>4
    <3> QED
      BY <2>4, <3>1 DEF Waits, Fails, Left
  <2> QED
    BY <2>1, <2>2, <2>3, <2>4, RoundEnds
<1>8. IsParse(s, parse)
  <2>1. parse = [k \in 1..(Len(s) + 1) |-> parse[k]]
    BY <1>4 DEF n
  <2> QED
    BY <1>7, <2>1 DEF IsParse, n
<1> QED
  BY <1>4, <1>8 DEF n, V

-----------------------------------------------------------------------------
\* What a round makes of the rounds after it.
Round(s, parse, start) ==
    /\ Takes(s, start) =>
          parse[start] = [parse[After(s, start)] EXCEPT !.frames = <<Content(s, start)>> \o @]
    /\ Fails(s, start) =>
          parse[start] = [frames |-> <<>>, rest |-> Len(s) + 1, error |-> TRUE]
    /\ ~Takes(s, start) /\ ~Fails(s, start) =>
          parse[start] = [frames |-> <<>>, rest |-> start, error |-> FALSE]

\* That is what the loop does.
LEMMA RoundIs ==
  ASSUME NEW s \in Seq(Digits), NEW parse, IsParse(s, parse), NEW start \in 1..(Len(s) + 1)
  PROVE  Round(s, parse, start)
<1>0. PrefixLength \in Nat /\ Len(s) \in Nat
  BY PrefixAssumption
<1>1. parse[start] =
         LET left == Len(s) + 1 - start
             m == Prefixed!ReadLength(s, start)
             next == start + PrefixLength + m
             rest == parse[next]
         IN IF left < PrefixLength
            THEN [frames |-> <<>>, rest |-> start, error |-> FALSE]
            ELSE IF Prefixed!Unusable(m)
            THEN [frames |-> <<>>, rest |-> Len(s) + 1, error |-> TRUE]
            ELSE IF left < PrefixLength + m
            THEN [frames |-> <<>>, rest |-> start, error |-> FALSE]
            ELSE [rest EXCEPT !.frames =
                     <<SubSeq(s, start + PrefixLength, next - 1)>> \o @]
  BY Zenon DEF IsParse
<1>2. CASE Takes(s, start)
  <2>1. /\ ~(Len(s) + 1 - start < PrefixLength)
        /\ ~Prefixed!Unusable(Prefixed!ReadLength(s, start))
        /\ ~(Len(s) + 1 - start < PrefixLength + Prefixed!ReadLength(s, start))
    BY <1>0, <1>2, TakenWithin DEF Takes, Left
  <2>2. parse[start] = [parse[After(s, start)] EXCEPT !.frames = <<Content(s, start)>> \o @]
    BY <1>1, <2>1 DEF After, Content
  <2>3. ~Fails(s, start)
    BY <1>2 DEF Takes, Fails
  <2> QED
    BY <1>2, <2>2, <2>3 DEF Round
<1>3. CASE Fails(s, start)
  <2>1. /\ ~(Len(s) + 1 - start < PrefixLength) /\ ~Takes(s, start)
        /\ Prefixed!Unusable(Prefixed!ReadLength(s, start))
    BY <1>0, <1>3 DEF Fails, Takes, Left
  <2> QED
    BY <1>1, <1>3, <2>1 DEF Round
<1>4. CASE Waits(s, start) /\ ~Takes(s, start) /\ ~Fails(s, start)
  BY <1>1, <1>4 DEF Waits, Fails, Left, Round
<1> QED
  BY <1>2, <1>3, <1>4, RoundEnds

\* The bytes left over are fewer than one legal frame.
Spare(s, p) == MaxPayload # NoLimit => Left(s, p.rest) < PrefixLength + MaxPayload

\* What the loop comes to, wherever it begins.
LEMMA ParseTyped ==
  ASSUME NEW s \in Seq(Digits), NEW parse, IsParse(s, parse)
  PROVE  \A start \in 1..(Len(s) + 1) : parse[start] \in Parses(s) /\ Spare(s, parse[start])
<1> DEFINE n == Len(s) + 1
           Good == {start \in 1..n : parse[start] \in Parses(s) /\ Spare(s, parse[start])}
<1>0. n \in Nat /\ Len(s) \in Nat /\ PrefixLength \in Nat \ {0}
  BY PrefixAssumption
<1>1. ASSUME NEW start \in 1..n, \A y \in (start + 1)..n : y \in Good PROVE start \in Good
  <2>0. start \in 1..(Len(s) + 1) /\ Round(s, parse, start)
    BY RoundIs
  <2>1. CASE Takes(s, start)
    <3>1. After(s, start) \in (start + 1)..n /\ Content(s, start) \in Seq(Digits)
      BY <2>1, TakenWithin
    <3>2. PICK r : r = parse[After(s, start)]
      OBVIOUS
    <3>3. r \in Parses(s) /\ Spare(s, r)
      BY <1>1, <3>1, <3>2
    <3>4. parse[start] = [r EXCEPT !.frames = <<Content(s, start)>> \o @]
      BY <2>0, <2>1, <3>2 DEF Round
    <3>5. <<Content(s, start)>> \o r.frames \in Seq(Seq(Digits))
      <4>1. r.frames \in Seq(Seq(Digits)) /\ <<Content(s, start)>> \in Seq(Seq(Digits))
        BY <3>1, <3>3 DEF Parses
      <4> QED
        BY <4>1
    <3>6. parse[start] \in Parses(s) /\ parse[start].rest = r.rest
      BY <3>3, <3>4, <3>5 DEF Parses
    <3> QED
      BY <3>3, <3>6 DEF Spare
  <2>2. CASE Fails(s, start)
    <3>1. parse[start] = [frames |-> <<>>, rest |-> n, error |-> TRUE]
      BY <2>0, <2>2 DEF Round
    <3>2. Left(s, n) = 0
      BY <1>0 DEF Left
    <3>3. Spare(s, parse[start])
      BY <1>0, <3>1, <3>2, PrefixAssumption DEF Spare
    <3>4. parse[start] \in Parses(s)
      BY <1>0, <3>1 DEF Parses
    <3> QED
      BY <3>3, <3>4
  <2>3. CASE Waits(s, start) /\ ~Takes(s, start) /\ ~Fails(s, start)
    <3>1. parse[start] = [frames |-> <<>>, rest |-> start, error |-> FALSE]
      BY <2>0, <2>3 DEF Round
    <3>2. parse[start] \in Parses(s)
      BY <1>0, <3>1 DEF Parses
    <3>3. ASSUME MaxPayload # NoLimit PROVE Left(s, start) < PrefixLength + MaxPayload
      <4>1. Left(s, start) \in Int /\ MaxPayload \in Nat
        BY <1>0, <3>3, PrefixAssumption DEF Left
      <4>2. CASE Left(s, start) < PrefixLength
        BY <1>0, <4>1, <4>2
      <4>3. CASE Left(s, start) >= PrefixLength
        <5>1. start \in 1..Len(s) /\ start + PrefixLength - 1 <= Len(s)
          BY <1>0, <4>3 DEF Left
        <5>2. PICK m \in Int : m = Prefixed!ReadLength(s, start)
          BY <5>1, LengthRead
        <5>3. ~Prefixed!Unusable(m) /\ Left(s, start) < PrefixLength + m
          BY <1>0, <2>3, <4>1, <4>3, <5>2 DEF Waits
        <5>4. m <= MaxPayload
          BY <3>3, <4>1, <5>2, <5>3 DEF Prefixed!Unusable
        <5> QED
          BY <1>0, <4>1, <5>2, <5>3, <5>4
      <4> QED
        BY <1>0, <4>1, <4>2, <4>3
    <3> QED
      BY <3>1, <3>2, <3>3 DEF Spare
  <2> QED
    BY <2>1, <2>2, <2>3, RoundEnds
<1> HIDE DEF Good
<1>2. \A start \in 1..n : start \in Good
  BY <1>0, <1>1, Downward
<1> QED
  BY <1>2 DEF Good

\* So does Parse.
LEMMA ParseWorks ==
  ASSUME NEW s \in Seq(Digits)
  PROVE  \E parse : /\ IsParse(s, parse) /\ Prefixed!Parse(s) = parse[1]
                    /\ parse[1] \in Parses(s) /\ Spare(s, parse[1])
<1>1. Prefixed!Parse(s) = (CHOOSE parse : IsParse(s, parse))[1]
  BY DEF Prefixed!Parse, IsParse
<1>2. PICK parse : parse = CHOOSE p : IsParse(s, p)
  OBVIOUS
<1>3. IsParse(s, parse)
  BY <1>2, ParseExists
<1>4. 1 \in 1..(Len(s) + 1)
  OBVIOUS
<1> QED
  BY <1>1, <1>2, <1>3, <1>4, ParseTyped

-----------------------------------------------------------------------------
\* Payloads that are framed, and come through.
Sendable(ps) ==
    /\ ps \in Seq(Seq(Digits))
    /\ \A k \in 1..Len(ps) : /\ Describable(ps[k])
                             /\ MaxPayload = NoLimit \/ Len(ps[k]) <= MaxPayload

\* coming[k] is what is on its way once k of the payloads have arrived.
Stream(ps, coming) ==
    /\ coming \in [0..Len(ps) -> Seq(Digits)]
    /\ coming[Len(ps)] = <<>>
    /\ \A k \in 1..Len(ps) : coming[k - 1] = Prefixed!Frame(ps[k]) \o coming[k]

\* The bytes are less than a prefix, or less than the frame that is next.
Starved(bytes, ps, m) ==
    \/ Len(bytes) < PrefixLength
    \/ m < Len(ps) /\ Len(bytes) < PrefixLength + Len(ps[m + 1])

\* Two pieces joined.
LEMMA Pieces ==
  ASSUME NEW a \in Seq(Digits), NEW b \in Seq(Digits)
  PROVE  /\ a \o b \in Seq(Digits) /\ Len(a \o b) = Len(a) + Len(b)
         /\ \A i \in 1..Len(a) : (a \o b)[i] = a[i]
         /\ \A i \in 1..Len(b) : (a \o b)[Len(a) + i] = b[i]
  OBVIOUS

\* The end of a piece.
LEMMA Ending ==
  ASSUME NEW t \in Seq(Digits), NEW n \in Nat, n <= Len(t)
  PROVE  /\ SubSeq(t, n + 1, Len(t)) \in Seq(Digits)
         /\ Len(SubSeq(t, n + 1, Len(t))) = Len(t) - n
         /\ \A i \in 1..(Len(t) - n) : SubSeq(t, n + 1, Len(t))[i] = t[n + i]
<1>1. n + 1 \in 1..(Len(t) + 1) /\ Len(t) \in Nat
  OBVIOUS
<1>2. \A i \in 1..(Len(t) - n) : SubSeq(t, n + 1, Len(t))[i] = t[(n + 1) + i - 1]
  OBVIOUS
<1>3. \A i \in 1..(Len(t) - n) : (n + 1) + i - 1 = n + i
  OBVIOUS
<1> QED
  BY <1>1, <1>2, <1>3

\* A piece within a piece.
LEMMA Middle ==
  ASSUME NEW t \in Seq(Digits), NEW q \in Nat \ {0}, NEW n \in Nat, NEW r \in Nat,
         r = q + n - 1, r <= Len(t)
  PROVE  /\ Len(SubSeq(t, q, r)) = n
         /\ \A i \in 1..n : SubSeq(t, q, r)[i] = t[q + i - 1]
  OBVIOUS

\* Two ways to cut the same bytes.
LEMMA Front ==
  ASSUME NEW t \in Seq(Digits), NEW w \in Seq(Digits), NEW f \in Seq(Digits),
         NEW c \in Seq(Digits), t \o w = f \o c
  PROVE  /\ \A i \in 1..Len(f) : i <= Len(t) => t[i] = f[i]
         /\ Len(f) <= Len(t) => SubSeq(t, Len(f) + 1, Len(t)) \o w = c
<1>1. /\ Len(t) \in Nat /\ Len(f) \in Nat /\ Len(c) \in Nat /\ Len(w) \in Nat
      /\ Len(t) + Len(w) = Len(f) + Len(c)
  <2>1. Len(t \o w) = Len(t) + Len(w) /\ Len(f \o c) = Len(f) + Len(c)
    OBVIOUS
  <2> QED
    BY <2>1
<1>2. \A i \in 1..Len(t) : (t \o w)[i] = t[i]
  BY Pieces
<1>3. \A i \in 1..Len(w) : (t \o w)[Len(t) + i] = w[i]
  BY Pieces
<1>4. \A i \in 1..Len(f) : (f \o c)[i] = f[i]
  BY Pieces
<1>5. \A i \in 1..Len(c) : (f \o c)[Len(f) + i] = c[i]
  BY Pieces
<1>6. \A i \in 1..Len(f) : i <= Len(t) => t[i] = f[i]
  BY <1>1, <1>2, <1>4
<1>7. ASSUME Len(f) <= Len(t) PROVE SubSeq(t, Len(f) + 1, Len(t)) \o w = c
  <2>1. PICK u \in Seq(Digits) : u = SubSeq(t, Len(f) + 1, Len(t))
    BY <1>1, <1>7, Ending
  <2>2. Len(u) = Len(t) - Len(f) /\ \A i \in 1..Len(u) : u[i] = t[Len(f) + i]
    BY <1>1, <1>7, <2>1, Ending
  <2>3. /\ u \o w \in Seq(Digits) /\ Len(u \o w) = Len(c)
        /\ \A i \in 1..Len(u) : (u \o w)[i] = u[i]
        /\ \A i \in 1..Len(w) : (u \o w)[Len(u) + i] = w[i]
    BY <1>1, <2>2, Pieces
  <2>4. ASSUME NEW i \in 1..Len(c) PROVE (u \o w)[i] = c[i]
    <3>1. c[i] = (t \o w)[Len(f) + i]
      BY <1>5
    <3>2. CASE i <= Len(u)
      <4>1. i \in 1..Len(u) /\ Len(f) + i \in 1..Len(t)
        BY <1>1, <2>2, <3>2
      <4> QED
        BY <1>2, <2>2, <2>3, <3>1, <4>1
    <3>3. CASE i > Len(u)
      <4>1. PICK j \in 1..Len(w) : i = Len(u) + j /\ Len(f) + i = Len(t) + j
        <5>1. i - Len(u) \in 1..Len(w) /\ Len(f) + i = Len(t) + (i - Len(u))
              /\ i = Len(u) + (i - Len(u))
          BY <1>1, <2>2, <3>3
        <5> QED
          BY <5>1
      <4>2. c[i] = w[j]
        BY <1>3, <3>1, <4>1
      <4> QED
        BY <2>3, <4>1, <4>2
    <3> QED
      BY <1>1, <2>2, <3>2, <3>3
  <2>5. u \o w = c
    BY <2>3, <2>4, SeqEqual
  <2> QED
    BY <2>1, <2>5
<1> QED
  BY <1>6, <1>7

-----------------------------------------------------------------------------
\* A round either lacks bytes of the next frame or takes it.
LacksOrTakes(s, w, start, ps, coming, m) ==
    \/ /\ ~Takes(s, start) /\ ~Fails(s, start)
       /\ Starved(SubSeq(s, start, Len(s)), ps, m)
    \/ /\ Takes(s, start) /\ m < Len(ps) /\ Content(s, start) = ps[m + 1]
       /\ SubSeq(s, After(s, start), Len(s)) \o w = coming[m + 1]

\* It does, where a frame begins.
LEMMA OneFrame ==
  ASSUME NEW s \in Seq(Digits), NEW w \in Seq(Digits), NEW start \in 1..(Len(s) + 1),
         NEW ps, Sendable(ps), NEW coming, Stream(ps, coming), NEW m \in 0..Len(ps),
         SubSeq(s, start, Len(s)) \o w = coming[m]
  PROVE  LacksOrTakes(s, w, start, ps, coming, m)
<1>0. /\ PrefixLength \in Nat \ {0} /\ Len(s) \in Nat /\ Len(ps) \in Nat
  BY PrefixAssumption DEF Sendable
<1>1. PICK o \in Nat : o = start - 1 /\ o <= Len(s) /\ o + 1 = start
  BY <1>0
<1>2. PICK t \in Seq(Digits) : t = SubSeq(s, start, Len(s))
  BY <1>1, Ending
<1>3. /\ Len(t) = Len(s) + 1 - start /\ Left(s, start) = Len(t) /\ Len(t) \in Nat
      /\ \A i \in 1..Len(t) : t[i] = s[o + i]
  BY <1>0, <1>1, <1>2, Ending DEF Left
<1>4. t \o w = coming[m]
  BY <1>2
<1>5. CASE Len(t) < PrefixLength
  <2>1. ~Takes(s, start) /\ ~Fails(s, start)
    BY <1>0, <1>3, <1>5 DEF Takes, Fails
  <2> QED
    BY <1>2, <1>5, <2>1 DEF Starved, LacksOrTakes
<1>6. CASE Len(t) >= PrefixLength
  <2>1. m < Len(ps)
    <3>1. CASE m = Len(ps)
      <4>1. t \o w = <<>>
        BY <1>4, <3>1 DEF Stream
      <4>2. Len(t \o w) = Len(t) + Len(w) /\ Len(w) \in Nat
        BY Pieces
      <4> QED
        BY <1>0, <1>3, <1>6, <4>1, <4>2
    <3> QED
      BY <1>0, <3>1
  <2>2. m + 1 \in 1..Len(ps) /\ (m + 1) - 1 = m /\ m + 1 \in 0..Len(ps)
    BY <1>0, <2>1
  <2>3. PICK p : p = ps[m + 1]
    OBVIOUS
  <2>4. Describable(p) /\ (MaxPayload = NoLimit \/ Len(p) <= MaxPayload)
    BY <2>2, <2>3 DEF Sendable
  <2>5. PICK f \in Seq(Digits) : f = Prefixed!Frame(p)
    BY <2>4, Framed
  <2>6. PICK c \in Seq(Digits) : c = coming[m + 1]
    BY <2>2 DEF Stream
  <2>7. coming[m] = f \o c
    BY <2>2, <2>3, <2>5, <2>6 DEF Stream
  <2>8. PICK n \in Nat : n = Len(p) /\ Len(f) = PrefixLength + n
    BY <2>4, <2>5, Framed
  <2>9. \A i \in 1..Len(f) : i <= Len(t) => t[i] = f[i]
    BY <1>4, <2>7, Front
  <2>10. start \in 1..Len(s) /\ start + PrefixLength - 1 <= Len(s)
    BY <1>0, <1>3, <1>6
  <2>11. \A i \in 1..PrefixLength : s[start + i - 1] = Prefixed!Frame(p)[i]
    <3> SUFFICES ASSUME NEW i \in 1..PrefixLength PROVE s[start + i - 1] = f[i]
      BY <2>5
    <3>1. i \in 1..Len(t) /\ i \in 1..Len(f) /\ start + i - 1 = o + i /\ i <= Len(t)
      BY <1>0, <1>1, <1>3, <1>6, <2>8
    <3>2. t[i] = s[o + i]
      BY <1>3, <3>1
    <3>3. t[i] = f[i]
      BY <2>9, <3>1, Zenon
    <3> QED
      BY <3>1, <3>2, <3>3
  <2>12. Prefixed!ReadLength(s, start) = n
    BY <2>4, <2>8, <2>10, <2>11, FrameRead
  <2>13. ~Prefixed!Unusable(n)
    BY <2>4, <2>8, PrefixAssumption DEF Prefixed!Unusable
  <2>14. ~Fails(s, start)
    BY <2>12, <2>13 DEF Fails
  <2>15. CASE Len(t) < PrefixLength + n
    <3>1. ~Takes(s, start)
      BY <1>0, <1>3, <2>12, <2>15 DEF Takes
    <3> QED
      BY <1>2, <2>1, <2>3, <2>8, <2>14, <2>15, <3>1 DEF Starved, LacksOrTakes
  <2>16. CASE Len(t) >= PrefixLength + n
    <3>1. Takes(s, start)
      BY <1>3, <1>6, <2>12, <2>13, <2>16 DEF Takes
    <3>2. PICK a \in Nat : a = After(s, start) /\ a = start + PrefixLength + n
      BY <1>0, <2>12 DEF After
    <3>3. SubSeq(t, Len(f) + 1, Len(t)) \o w = c
      <4>1. Len(f) <= Len(t)
        BY <2>8, <2>16
      <4>2. t \o w = f \o c
        BY <1>4, <2>7
      <4> QED
        BY <4>1, <4>2, Front
    <3>4. SubSeq(s, a, Len(s)) = SubSeq(t, Len(f) + 1, Len(t))
      <4>1. PICK k \in Nat : k = o + Len(f) /\ k + 1 = a /\ k <= Len(s)
        BY <1>0, <1>1, <1>3, <2>8, <2>16, <3>2
      <4>2. /\ SubSeq(s, k + 1, Len(s)) \in Seq(Digits)
            /\ Len(SubSeq(s, k + 1, Len(s))) = Len(s) - k
            /\ \A i \in 1..(Len(s) - k) : SubSeq(s, k + 1, Len(s))[i] = s[k + i]
        BY <4>1, Ending
      <4>3. PICK l \in Nat : l = Len(f) /\ l <= Len(t) /\ Len(t) - l = Len(s) - k
        BY <1>0, <1>1, <1>3, <2>8, <2>16, <4>1
      <4>4. /\ SubSeq(t, l + 1, Len(t)) \in Seq(Digits)
            /\ Len(SubSeq(t, l + 1, Len(t))) = Len(t) - l
            /\ \A i \in 1..(Len(t) - l) : SubSeq(t, l + 1, Len(t))[i] = t[l + i]
        BY <4>3, Ending
      <4>5. \A i \in 1..(Len(s) - k) : s[k + i] = t[l + i]
        BY <1>0, <1>1, <1>3, <4>1, <4>3
      <4>6. PICK x, y \in Seq(Digits) :
                x = SubSeq(s, k + 1, Len(s)) /\ y = SubSeq(t, l + 1, Len(t))
        BY <4>2, <4>4
      <4>7. x = y
        <5>1. Len(x) = Len(s) - k /\ \A i \in 1..(Len(s) - k) : x[i] = s[k + i]
          BY <4>2, <4>6
        <5>2. Len(y) = Len(s) - k /\ \A i \in 1..(Len(s) - k) : y[i] = t[l + i]
          BY <4>3, <4>4, <4>6
        <5>3. Len(x) = Len(y) /\ \A i \in 1..Len(x) : x[i] = y[i]
          BY <4>5, <5>1, <5>2
        <5> QED
          BY <5>3, SeqEqual
      <4> QED
        BY <4>1, <4>3, <4>6, <4>7
    <3>5. Content(s, start) = p
      <4>1. PICK x \in Seq(Digits) : x = Content(s, start)
        BY <3>1, TakenWithin
      <4>2. x = SubSeq(s, start + PrefixLength, a - 1)
        BY <3>2, <4>1 DEF Content
      <4>3. Len(x) = n /\ \A i \in 1..n : x[i] = s[o + (PrefixLength + i)]
        <5>1. PICK q \in Nat \ {0} : q = start + PrefixLength
          BY <1>0
        <5>2. PICK r \in Nat : r = a - 1 /\ r = q + n - 1 /\ r <= Len(s)
          BY <1>0, <1>3, <2>16, <3>2, <5>1
        <5>3. \A i \in 1..n : q + i - 1 = o + (PrefixLength + i)
          BY <1>0, <1>1, <5>1
        <5>4. x = SubSeq(s, q, r)
          BY <4>2, <5>1, <5>2
        <5>5. Len(x) = n /\ \A i \in 1..n : x[i] = s[q + i - 1]
          BY <5>2, <5>4, Middle
        <5> QED
          BY <5>3, <5>5
      <4>4. ASSUME NEW i \in 1..n PROVE x[i] = p[i]
        <5>1. PrefixLength + i \in 1..Len(f) /\ PrefixLength + i \in 1..Len(t)
              /\ PrefixLength + i <= Len(t)
          BY <1>0, <1>3, <2>8, <2>16
        <5>2. f[PrefixLength + i] = p[i]
          BY <2>4, <2>5, <2>8, Framed
        <5> QED
          BY <1>3, <2>9, <4>3, <5>1, <5>2
      <4>5. p \in Seq(Digits)
        BY <2>4 DEF Describable
      <4>6. x = p
        BY <2>8, <4>3, <4>4, <4>5, SeqEqual
      <4> QED
        BY <4>1, <4>6
    <3> QED
      BY <2>1, <2>3, <2>6, <3>1, <3>2, <3>3, <3>4, <3>5 DEF LacksOrTakes
  <2>17. Len(t) < PrefixLength + n \/ Len(t) >= PrefixLength + n
    BY <1>0, <1>3
  <2> QED
    BY <2>15, <2>16, <2>17
<1>7. Len(t) < PrefixLength \/ Len(t) >= PrefixLength
  BY <1>0, <1>3
<1> QED
  BY <1>5, <1>6, <1>7

-----------------------------------------------------------------------------
\* p comes, without an error, from taking frames of ps off s, from the one after the m-th on,
\* until the next is not all there.
Gives(s, w, ps, coming, m, p) ==
    /\ p.frames \in Seq(Seq(Digits)) /\ p.rest \in 1..(Len(s) + 1) /\ p.error = FALSE
    /\ \E k \in m..Len(ps) : /\ p.frames = SubSeq(ps, m + 1, k)
                             /\ SubSeq(s, p.rest, Len(s)) \o w = coming[k]
                             /\ Starved(SubSeq(s, p.rest, Len(s)), ps, k)

\* A frame and those after it.
LEMMA OneMore ==
  ASSUME NEW ps \in Seq(Seq(Digits)), NEW m \in Nat, NEW k \in Nat, m + 1 <= k, k <= Len(ps)
  PROVE  <<ps[m + 1]>> \o SubSeq(ps, m + 2, k) = SubSeq(ps, m + 1, k)
  OBVIOUS

\* The loop takes frames as long as they are all there.
LEMMA FramesTaken ==
  ASSUME NEW s \in Seq(Digits), NEW w \in Seq(Digits), NEW ps, Sendable(ps),
         NEW coming, Stream(ps, coming), NEW parse, IsParse(s, parse)
  PROVE  \A start \in 1..(Len(s) + 1) : \A m \in 0..Len(ps) :
            SubSeq(s, start, Len(s)) \o w = coming[m]
               => Gives(s, w, ps, coming, m, parse[start])
<1> DEFINE n == Len(s) + 1
           Good == {start \in 1..n :
                       \A m \in 0..Len(ps) : SubSeq(s, start, Len(s)) \o w = coming[m]
                           => Gives(s, w, ps, coming, m, parse[start])}
<1>0. n \in Nat /\ Len(s) \in Nat /\ Len(ps) \in Nat /\ ps \in Seq(Seq(Digits))
  BY DEF Sendable
<1>1. ASSUME NEW start \in 1..n, \A y \in (start + 1)..n : y \in Good PROVE start \in Good
  <2> SUFFICES ASSUME NEW m \in 0..Len(ps), SubSeq(s, start, Len(s)) \o w = coming[m]
               PROVE  Gives(s, w, ps, coming, m, parse[start])
    OBVIOUS
  <2>0. start \in 1..(Len(s) + 1) /\ Round(s, parse, start)
    BY RoundIs
  <2>3. LacksOrTakes(s, w, start, ps, coming, m)
    BY <2>0, OneFrame
  <2>1. CASE /\ ~Takes(s, start) /\ ~Fails(s, start)
             /\ Starved(SubSeq(s, start, Len(s)), ps, m)
    <3>1. parse[start] = [frames |-> <<>>, rest |-> start, error |-> FALSE]
      BY <2>0, <2>1 DEF Round
    <3>2. SubSeq(ps, m + 1, m) = <<>> /\ m \in m..Len(ps) /\ <<>> \in Seq(Seq(Digits))
      BY <1>0
    <3>3. /\ parse[start].frames = <<>> /\ parse[start].rest = start
          /\ parse[start].error = FALSE
      BY <3>1
    <3> QED
      BY <2>0, <2>1, <3>2, <3>3 DEF Gives
  <2>2. CASE /\ Takes(s, start) /\ m < Len(ps) /\ Content(s, start) = ps[m + 1]
             /\ SubSeq(s, After(s, start), Len(s)) \o w = coming[m + 1]
    <3>1. PICK next \in (start + 1)..n : next = After(s, start)
      BY <2>0, <2>2, TakenWithin
    <3>2. PICK r : r = parse[next]
      OBVIOUS
    <3>3. m + 1 \in 0..Len(ps) /\ m \in Nat
      BY <1>0, <2>2
    <3>4. Gives(s, w, ps, coming, m + 1, r)
      <4>1. next \in Good
        BY <1>1
      <4>2. SubSeq(s, next, Len(s)) \o w = coming[m + 1]
        BY <2>2, <3>1
      <4> QED
        BY <3>2, <3>3, <4>1, <4>2
    <3>5. r \in Parses(s)
      <4>1. next \in 1..(Len(s) + 1)
        BY <1>0
      <4> QED
        BY <3>2, <4>1, ParseTyped
    <3>6. PICK c : c = Content(s, start)
      OBVIOUS
    <3>7. parse[start] = [r EXCEPT !.frames = <<c>> \o @]
      BY <2>0, <2>2, <3>1, <3>2, <3>6 DEF Round
    <3>8. /\ parse[start].frames = <<c>> \o r.frames /\ parse[start].rest = r.rest
          /\ parse[start].error = r.error
      BY <3>5, <3>7 DEF Parses
    <3>9. PICK k \in (m + 1)..Len(ps) :
             /\ r.frames = SubSeq(ps, (m + 1) + 1, k)
             /\ SubSeq(s, r.rest, Len(s)) \o w = coming[k]
             /\ Starved(SubSeq(s, r.rest, Len(s)), ps, k)
      BY <3>4 DEF Gives
    <3>10. <<c>> \o r.frames = SubSeq(ps, m + 1, k)
      <4>1. (m + 1) + 1 = m + 2 /\ k \in Nat /\ m + 1 <= k /\ k <= Len(ps)
        BY <1>0, <3>3
      <4>2. r.frames = SubSeq(ps, m + 2, k)
        BY <3>9, <4>1
      <4>3. c = ps[m + 1]
        BY <2>2, <3>6
      <4> QED
        BY <1>0, <3>3, <4>1, <4>2, <4>3, OneMore
    <3>11. k \in m..Len(ps)
      BY <1>0, <3>3
    <3>12. SubSeq(ps, m + 1, k) \in Seq(Seq(Digits))
      <4>1. m + 1 \in Nat /\ m + 1 >= 1 /\ k \in Nat /\ k <= Len(ps)
        BY <1>0, <3>3
      <4> QED
        BY <1>0, <4>1
    <3> QED
      BY <3>4, <3>8, <3>9, <3>10, <3>11, <3>12 DEF Gives
  <2> QED
    BY <2>1, <2>2, <2>3 DEF LacksOrTakes
<1> HIDE DEF Good
<1>2. \A start \in 1..n : start \in Good
  BY <1>0, <1>1, Downward
<1> QED
  BY <1>2 DEF Good

-----------------------------------------------------------------------------
\* While only frames are sent, what was emitted is the beginning of what was sent, and until
\* the end the rest is in the buffer and on the wire, the buffer without a whole frame.
InStep ==
    /\ Sendable(sent) /\ errors = 0
    /\ Len(payloads) <= Len(sent) /\ payloads = SubSeq(sent, 1, Len(payloads))
    /\ ~ended => \E coming : /\ Stream(sent, coming)
                             /\ prefixBuffer \o wire = coming[Len(payloads)]
                             /\ Starved(prefixBuffer, sent, Len(payloads))

\* Every variable keeps its type.
FramedTypes ==
    /\ sent \in Seq(Seq(Digits)) /\ wire \in Seq(Digits) /\ prefixBuffer \in Seq(Digits)
    /\ payloads \in Seq(Seq(Digits)) /\ errors \in Nat
    /\ ended \in BOOLEAN /\ synced \in BOOLEAN

\* The inductive invariant of the splitter with a prefix.
FramedInv == FramedTypes /\ Prefixed!BufferBounded /\ (synced => InStep)

\* Nothing was sent.
LEMMA FramedInit == Prefixed!Init => FramedInv
<1> SUFFICES ASSUME Prefixed!Init PROVE FramedInv
  OBVIOUS
<1>1. /\ sent = <<>> /\ wire = <<>> /\ prefixBuffer = <<>> /\ payloads = <<>>
      /\ errors = 0 /\ ended = FALSE /\ synced = TRUE
  BY DEF Prefixed!Init
<1>2. Len(<<>>) = 0 /\ <<>> \in Seq(Digits) /\ <<>> \in Seq(Seq(Digits)) /\ <<>> \o <<>> = <<>>
      /\ SubSeq(<<>>, 1, 0) = <<>>
  OBVIOUS
<1>3. PrefixLength \in Nat \ {0} /\ (MaxPayload # NoLimit => MaxPayload \in Nat)
  BY PrefixAssumption
<1>4. FramedTypes
  BY <1>1, <1>2 DEF FramedTypes
<1>5. Prefixed!BufferBounded
  BY <1>1, <1>2, <1>3 DEF Prefixed!BufferBounded
<1>6. Sendable(<<>>)
  BY <1>2 DEF Sendable
<1>7. Stream(<<>>, [k \in 0..0 |-> <<>>])
  BY <1>2 DEF Stream
<1>8. [k \in 0..0 |-> <<>>][0] = <<>>
  OBVIOUS
<1>9. Starved(<<>>, <<>>, 0)
  BY <1>2, <1>3 DEF Starved
<1>10. \E coming : Stream(<<>>, coming) /\ <<>> = coming[0] /\ Starved(<<>>, <<>>, 0)
  BY <1>7, <1>8, <1>9
<1>11. InStep
  BY <1>1, <1>2, <1>6, <1>10 DEF InStep
<1> QED
  BY <1>4, <1>5, <1>11 DEF FramedInv

\* h is coming with the frame of p behind it.
Behind(ps, coming, p, h) ==
    \A k \in 0..Len(ps) : h[k] = coming[k] \o Prefixed!Frame(p)

\* One payload more is on its way behind the others.
LEMMA StreamGrows ==
  ASSUME NEW ps, Sendable(ps), NEW coming, Stream(ps, coming), NEW p, Describable(p)
  PROVE  \E h : Stream(Append(ps, p), h) /\ Behind(ps, coming, p, h)
<1>0. ps \in Seq(Seq(Digits)) /\ p \in Seq(Digits)
  BY DEF Sendable, Describable
<1>1. PICK qs : qs = Append(ps, p)
  OBVIOUS
<1>2. PICK n \in Nat : n = Len(ps)
  BY <1>0
<1>3. /\ qs \in Seq(Seq(Digits)) /\ Len(qs) = n + 1 /\ qs[n + 1] = p
      /\ \A k \in 1..n : qs[k] = ps[k]
  BY <1>0, <1>1, <1>2
<1>5. PICK f \in Seq(Digits) : f = Prefixed!Frame(p)
  BY Framed
<1>6. /\ coming \in [0..n -> Seq(Digits)] /\ coming[n] = <<>>
      /\ \A k \in 1..n : coming[k - 1] = Prefixed!Frame(ps[k]) \o coming[k]
  BY <1>2 DEF Stream
<1> DEFINE h == [k \in 0..(n + 1) |-> IF k = n + 1 THEN <<>> ELSE coming[k] \o f]
<1>7. h \in [0..(n + 1) -> Seq(Digits)]
  <2>1. ASSUME NEW k \in 0..n PROVE coming[k] \o f \in Seq(Digits)
    <3>1. coming[k] \in Seq(Digits)
      BY <1>6
    <3> QED
      BY <3>1, Pieces
  <2>2. <<>> \in Seq(Digits)
    OBVIOUS
  <2>3. \A k \in 0..(n + 1) : k = n + 1 \/ k \in 0..n
    OBVIOUS
  <2> QED
    BY <2>1, <2>2, <2>3
<1>8. h[n + 1] = <<>> /\ \A k \in 0..n : h[k] = coming[k] \o f
  OBVIOUS
<1> HIDE DEF h
<1>9. ASSUME NEW k \in 1..(n + 1) PROVE h[k - 1] = Prefixed!Frame(qs[k]) \o h[k]
  <2>1. CASE k = n + 1
    <3>1. k - 1 = n /\ n \in 0..n
      BY <2>1
    <3>2. h[k - 1] = <<>> \o f
      BY <1>6, <1>8, <3>1
    <3>3. <<>> \o f = f /\ f \o <<>> = f
      OBVIOUS
    <3> QED
      BY <1>3, <1>5, <1>8, <2>1, <3>2, <3>3
  <2>2. CASE k \in 1..n
    <3>1. k - 1 \in 0..n /\ k \in 0..n
      BY <2>2
    <3>2. PICK a \in Seq(Digits) : a = Prefixed!Frame(ps[k])
      <4>1. Describable(ps[k])
        BY <1>2, <2>2 DEF Sendable
      <4> QED
        BY <4>1, Framed
    <3>3. PICK b \in Seq(Digits) : b = coming[k]
      BY <1>6, <3>1
    <3>4. h[k - 1] = (a \o b) \o f
      BY <1>6, <1>8, <2>2, <3>1, <3>2, <3>3
    <3>5. (a \o b) \o f = a \o (b \o f)
      BY ConcatAssociative
    <3>6. h[k] = b \o f /\ qs[k] = ps[k]
      BY <1>3, <1>8, <2>2, <3>1, <3>3
    <3> QED
      BY <3>2, <3>4, <3>5, <3>6
  <2>3. k = n + 1 \/ k \in 1..n
    OBVIOUS
  <2> QED
    BY <2>1, <2>2, <2>3
<1>10. Stream(qs, h)
  BY <1>3, <1>7, <1>8, <1>9 DEF Stream
<1> QED
  BY <1>1, <1>2, <1>5, <1>8, <1>10 DEF Behind

-----------------------------------------------------------------------------
\* Sending a payload keeps it.
LEMMA SendKeeps ==
  ASSUME FramedInv, NEW payload \in Payloads, Prefixed!Send(payload)
  PROVE  FramedInv'
<1>0. /\ FramedTypes /\ Prefixed!BufferBounded /\ (synced => InStep)
      /\ payload \in Seq(Digits)
  BY SenderAssumption DEF FramedInv, Digits
<1>1. /\ Prefixed!Prefix(payload) <= Prefixed!Largest
      /\ sent' = Append(sent, payload) /\ wire' = wire \o Prefixed!Frame(payload)
      /\ synced' = (synced /\ (MaxPayload = NoLimit \/ Len(payload) <= MaxPayload))
      /\ prefixBuffer' = prefixBuffer /\ payloads' = payloads /\ errors' = errors
      /\ ended' = ended
  BY DEF Prefixed!Send
<1>2. Describable(payload)
  BY <1>0, <1>1 DEF Describable
<1>3. PICK f \in Seq(Digits) : f = Prefixed!Frame(payload)
  BY <1>2, Framed
<1>4. FramedTypes'
  <2>1. wire' \in Seq(Digits)
    BY <1>0, <1>1, <1>3, Pieces DEF FramedTypes
  <2>2. sent' \in Seq(Seq(Digits))
    BY <1>0, <1>1 DEF FramedTypes
  <2> QED
    BY <1>0, <1>1, <2>1, <2>2 DEF FramedTypes
<1>5. Prefixed!BufferBounded'
  BY <1>0, <1>1 DEF Prefixed!BufferBounded
<1>6. ASSUME synced' PROVE InStep'
  <2>1. InStep /\ (MaxPayload = NoLimit \/ Len(payload) <= MaxPayload)
    BY <1>0, <1>1, <1>6
  <2>2. PICK n \in Nat : n = Len(payloads) /\ n <= Len(sent)
    <3>1. Len(payloads) \in Nat
      BY <1>0 DEF FramedTypes
    <3> QED
      BY <2>1, <3>1 DEF InStep
  <2>3. sent \in Seq(Seq(Digits)) /\ Len(sent) \in Nat
    BY <1>0 DEF FramedTypes
  <2>4. Sendable(sent)
    BY <2>1 DEF InStep
  <2>5. /\ Sendable(sent') /\ Len(sent') = Len(sent) + 1
        /\ \A k \in 1..Len(sent) : sent'[k] = sent[k]
    <3>1. /\ sent' \in Seq(Seq(Digits)) /\ Len(sent') = Len(sent) + 1
          /\ sent'[Len(sent) + 1] = payload /\ \A k \in 1..Len(sent) : sent'[k] = sent[k]
      BY <1>0, <1>1, <2>3
    <3>2. ASSUME NEW k \in 1..Len(sent')
          PROVE  /\ Describable(sent'[k])
                 /\ MaxPayload = NoLimit \/ Len(sent'[k]) <= MaxPayload
      <4>1. k \in 1..Len(sent) \/ k = Len(sent) + 1
        BY <2>3, <3>1
      <4> QED
        BY <1>2, <2>1, <2>4, <3>1, <4>1 DEF Sendable
    <3> QED
      BY <3>1, <3>2 DEF Sendable
  <2>6. payloads' = SubSeq(sent', 1, Len(payloads')) /\ Len(payloads') <= Len(sent')
    <3>1. SubSeq(sent', 1, n) = SubSeq(sent, 1, n)
      BY <1>0, <1>1, <2>2, <2>3
    <3>2. payloads = SubSeq(sent, 1, n)
      BY <2>1, <2>2 DEF InStep
    <3> QED
      BY <1>1, <2>2, <2>3, <2>5, <3>1, <3>2
  <2>7. ASSUME ~ended'
        PROVE  \E h : /\ Stream(sent', h) /\ prefixBuffer' \o wire' = h[Len(payloads')]
                      /\ Starved(prefixBuffer', sent', Len(payloads'))
    <3>1. PICK coming : /\ Stream(sent, coming)
                        /\ prefixBuffer \o wire = coming[n]
                        /\ Starved(prefixBuffer, sent, n)
      BY <1>1, <2>1, <2>2, <2>7 DEF InStep
    <3>2. PICK h : Stream(sent', h) /\ Behind(sent, coming, payload, h)
      BY <1>1, <1>2, <2>4, <3>1, StreamGrows
    <3>3. n \in 0..Len(sent)
      BY <2>2, <2>3
    <3>4. prefixBuffer \o (wire \o f) = h[n]
      <4>1. PICK a, b \in Seq(Digits) : a = prefixBuffer /\ b = wire
        BY <1>0 DEF FramedTypes
      <4>2. (a \o b) \o f = a \o (b \o f)
        BY ConcatAssociative
      <4> QED
        BY <1>3, <3>1, <3>2, <3>3, <4>1, <4>2 DEF Behind
    <3>5. Starved(prefixBuffer, sent', n)
      <4>1. CASE Len(prefixBuffer) < PrefixLength
        BY <4>1 DEF Starved
      <4>2. CASE n < Len(sent) /\ Len(prefixBuffer) < PrefixLength + Len(sent[n + 1])
        <5>1. n + 1 \in 1..Len(sent) /\ n < Len(sent')
          BY <2>2, <2>3, <2>5, <4>2
        <5> QED
          BY <2>5, <4>2, <5>1 DEF Starved
      <4> QED
        BY <3>1, <4>1, <4>2 DEF Starved
    <3> QED
      BY <1>1, <1>3, <2>2, <3>2, <3>4, <3>5
  <2> QED
    BY <1>1, <2>1, <2>5, <2>6, <2>7 DEF InStep
<1> QED
  BY <1>4, <1>5, <1>6 DEF FramedInv

\* Noise puts the splitter out of step.
LEMMA NoiseKeeps ==
  ASSUME FramedInv, NEW bytes \in Noise, Prefixed!SendNoise(bytes)
  PROVE  FramedInv'
<1>0. FramedTypes /\ Prefixed!BufferBounded /\ bytes \in Seq(Digits)
  BY SenderAssumption DEF FramedInv, Digits
<1>1. /\ sent' = Append(sent, bytes) /\ wire' = wire \o bytes /\ synced' = FALSE
      /\ prefixBuffer' = prefixBuffer /\ payloads' = payloads /\ errors' = errors
      /\ ended' = ended
  BY DEF Prefixed!SendNoise
<1>2. FramedTypes'
  <2>1. wire' \in Seq(Digits)
    BY <1>0, <1>1, Pieces DEF FramedTypes
  <2>2. sent' \in Seq(Seq(Digits))
    BY <1>0, <1>1 DEF FramedTypes
  <2> QED
    BY <1>0, <1>1, <2>1, <2>2 DEF FramedTypes
<1>3. Prefixed!BufferBounded'
  BY <1>0, <1>1 DEF Prefixed!BufferBounded
<1> QED
  BY <1>1, <1>2, <1>3 DEF FramedInv

\* Neither does the end lose step.
LEMMA DoneKeeps ==
  ASSUME FramedInv, Prefixed!OnDone
  PROVE  FramedInv'
<1>0. FramedTypes /\ Prefixed!BufferBounded /\ (synced => InStep)
  BY DEF FramedInv
<1>1. /\ sent' = sent /\ wire' = wire /\ synced' = synced
      /\ prefixBuffer' = <<>> /\ payloads' = payloads /\ errors' = errors
      /\ ended' = TRUE
  BY DEF Prefixed!OnDone
<1>2. <<>> \in Seq(Digits) /\ Len(<<>>) = 0
  OBVIOUS
<1>3. FramedTypes'
  BY <1>0, <1>1, <1>2 DEF FramedTypes
<1>4. PrefixLength \in Nat \ {0} /\ (MaxPayload # NoLimit => MaxPayload \in Nat)
  BY PrefixAssumption
<1>5. Prefixed!BufferBounded'
  BY <1>1, <1>2, <1>4 DEF Prefixed!BufferBounded
<1>6. synced' => InStep'
  BY <1>0, <1>1 DEF InStep
<1> QED
  BY <1>3, <1>5, <1>6 DEF FramedInv

-----------------------------------------------------------------------------
\* The beginning of a sequence, and what follows on it.
LEMMA Beginning ==
  ASSUME NEW ps \in Seq(Seq(Digits)), NEW m \in Nat, NEW k \in Nat, m <= k, k <= Len(ps)
  PROVE  /\ SubSeq(ps, 1, m) \o SubSeq(ps, m + 1, k) = SubSeq(ps, 1, k)
         /\ Len(SubSeq(ps, 1, k)) = k
  OBVIOUS

\* A chunk keeps it.
LEMMA ChunkKeeps ==
  ASSUME FramedInv, NEW n \in 1..MaxChunk, Prefixed!OnData(n)
  PROVE  FramedInv'
<1>0. FramedTypes /\ Prefixed!BufferBounded /\ (synced => InStep)
  BY DEF FramedInv
<1>1. /\ wire \in Seq(Digits) /\ prefixBuffer \in Seq(Digits) /\ payloads \in Seq(Seq(Digits))
      /\ sent \in Seq(Seq(Digits)) /\ errors \in Nat
  BY <1>0 DEF FramedTypes
<1>2. ~ended /\ n \in Nat /\ n <= Len(wire) /\ Len(wire) \in Nat
  BY <1>1, InputAssumption DEF Prefixed!OnData
<1>3. PICK chunk, w \in Seq(Digits) :
         /\ chunk = SubSeq(wire, 1, n) /\ w = SubSeq(wire, n + 1, Len(wire))
         /\ chunk \o w = wire
  <2>1. SubSeq(wire, 1, n) \in Seq(Digits)
    BY <1>1, <1>2
  <2>2. SubSeq(wire, n + 1, Len(wire)) \in Seq(Digits)
    BY <1>1, <1>2, Ending
  <2>3. SubSeq(wire, 1, n) \o SubSeq(wire, n + 1, Len(wire)) = SubSeq(wire, 1, Len(wire))
    BY <1>1, <1>2
  <2>4. SubSeq(wire, 1, Len(wire)) = wire
    BY <1>1
  <2> QED
    BY <2>1, <2>2, <2>3, <2>4
<1>4. PICK s \in Seq(Digits) : s = prefixBuffer \o chunk
  BY <1>1, Pieces
<1>5. s \o w = prefixBuffer \o wire
  <2>1. PICK b \in Seq(Digits) : b = prefixBuffer
    BY <1>1
  <2>2. (b \o chunk) \o w = b \o (chunk \o w)
    BY ConcatAssociative
  <2> QED
    BY <1>3, <1>4, <2>1, <2>2
<1>6. PICK parse : /\ IsParse(s, parse) /\ Prefixed!Parse(s) = parse[1]
                   /\ parse[1] \in Parses(s) /\ Spare(s, parse[1])
  BY ParseWorks
<1>7. PICK p : p = parse[1]
  OBVIOUS
<1>8. PICK rest \in 1..(Len(s) + 1) : rest = p.rest
  BY <1>6, <1>7 DEF Parses
<1>9. /\ payloads' = payloads \o p.frames
      /\ prefixBuffer' = SubSeq(s, rest, Len(s))
      /\ errors' = IF p.error THEN errors + 1 ELSE errors
      /\ wire' = w /\ sent' = sent /\ ended' = ended /\ synced' = synced
  BY <1>3, <1>4, <1>6, <1>7, <1>8 DEF Prefixed!OnData
<1>10. prefixBuffer' \in Seq(Digits) /\ Len(prefixBuffer') = Left(s, rest)
  <2>1. PICK o \in Nat : o + 1 = rest /\ o <= Len(s) /\ Len(s) - o = Len(s) + 1 - rest
    <3>1. rest - 1 \in Nat /\ (rest - 1) + 1 = rest /\ rest - 1 <= Len(s)
          /\ Len(s) - (rest - 1) = Len(s) + 1 - rest
      <4>1. Len(s) \in Nat
        OBVIOUS
      <4> QED
        BY <4>1
    <3> QED
      BY <3>1
  <2> QED
    BY <1>9, <2>1, Ending DEF Left
<1>11. FramedTypes'
  <2>1. payloads' \in Seq(Seq(Digits))
    <3>1. p.frames \in Seq(Seq(Digits))
      BY <1>6, <1>7 DEF Parses
    <3> QED
      BY <1>1, <1>9, <3>1
  <2>2. errors' \in Nat
    BY <1>1, <1>9
  <2> QED
    BY <1>0, <1>1, <1>3, <1>9, <1>10, <2>1, <2>2 DEF FramedTypes
<1>12. Prefixed!BufferBounded'
  BY <1>6, <1>7, <1>8, <1>10 DEF Prefixed!BufferBounded, Spare
<1>13. ASSUME synced' PROVE InStep'
  <2>1. InStep
    BY <1>0, <1>9, <1>13
  <2>2. PICK m \in 0..Len(sent) : m = Len(payloads)
    <3>1. Len(payloads) \in Nat /\ Len(payloads) <= Len(sent) /\ Len(sent) \in Nat
      BY <1>1, <2>1 DEF InStep
    <3> QED
      BY <3>1
  <2>3. PICK coming : /\ Stream(sent, coming)
                      /\ prefixBuffer \o wire = coming[m]
      BY <1>2, <2>1, <2>2 DEF InStep
  <2>4. Gives(s, w, sent, coming, m, p)
    <3>1. 1 \in 1..(Len(s) + 1) /\ SubSeq(s, 1, Len(s)) = s
      OBVIOUS
    <3>2. SubSeq(s, 1, Len(s)) \o w = coming[m]
      BY <1>5, <2>3, <3>1
    <3>3. Sendable(sent)
      BY <2>1 DEF InStep
    <3> QED
      BY <1>6, <1>7, <2>3, <3>1, <3>2, <3>3, FramesTaken
  <2>5. PICK k \in m..Len(sent) : /\ p.frames = SubSeq(sent, m + 1, k)
                                  /\ SubSeq(s, p.rest, Len(s)) \o w = coming[k]
                                  /\ Starved(SubSeq(s, p.rest, Len(s)), sent, k)
    BY <2>4 DEF Gives
  <2>6. k \in Nat /\ m \in Nat /\ m <= k /\ k <= Len(sent) /\ Len(sent) \in Nat
    BY <1>1
  <2>7. payloads' = SubSeq(sent, 1, k) /\ Len(payloads') = k
    <3>1. payloads = SubSeq(sent, 1, m)
      BY <2>1, <2>2 DEF InStep
    <3>2. payloads' = SubSeq(sent, 1, m) \o SubSeq(sent, m + 1, k)
      BY <1>9, <2>5, <3>1
    <3>3. /\ SubSeq(sent, 1, m) \o SubSeq(sent, m + 1, k) = SubSeq(sent, 1, k)
          /\ Len(SubSeq(sent, 1, k)) = k
      BY <1>1, <2>6, Beginning
    <3> QED
      BY <3>2, <3>3
  <2>8. p.error = FALSE
    BY <2>4 DEF Gives
  <2>9. errors' = 0
    BY <1>9, <2>1, <2>8 DEF InStep
  <2>10. \E h : /\ Stream(sent', h) /\ prefixBuffer' \o wire' = h[Len(payloads')]
                /\ Starved(prefixBuffer', sent', Len(payloads'))
    BY <1>8, <1>9, <2>3, <2>5, <2>7
  <2> QED
    BY <1>9, <2>1, <2>6, <2>7, <2>9, <2>10 DEF InStep
<1> QED
  BY <1>11, <1>12, <1>13 DEF FramedInv

\* Every step keeps it.
LEMMA FramedNext == FramedInv /\ [Prefixed!Next]_(Prefixed!vars) => FramedInv'
<1> SUFFICES ASSUME FramedInv, [Prefixed!Next]_(Prefixed!vars) PROVE FramedInv'
  OBVIOUS
<1>1. CASE \E payload \in Payloads : Prefixed!Send(payload)
  BY <1>1, SendKeeps
<1>2. CASE \E bytes \in Noise : Prefixed!SendNoise(bytes)
  BY <1>2, NoiseKeeps
<1>3. CASE \E n \in 1..MaxChunk : Prefixed!OnData(n)
  BY <1>3, ChunkKeeps
<1>4. CASE Prefixed!OnDone
  BY <1>4, DoneKeeps
<1>5. CASE UNCHANGED Prefixed!vars
  <2>1. /\ sent' = sent /\ wire' = wire /\ synced' = synced
        /\ prefixBuffer' = prefixBuffer /\ payloads' = payloads /\ errors' = errors
        /\ ended' = ended
    BY <1>5 DEF Prefixed!vars
  <2> QED
    BY <2>1 DEF FramedInv, FramedTypes, Prefixed!BufferBounded, InStep
<1> QED
  BY <1>1, <1>2, <1>3, <1>4, <1>5 DEF Prefixed!Next

\* In step means that frames come out as they went in.
LEMMA InStepComesOut == FramedInv => RoundTrip
<1> SUFFICES ASSUME FramedInv, synced
             PROVE  /\ errors = 0 /\ Len(payloads) <= Len(sent)
                    /\ payloads = SubSeq(sent, 1, Len(payloads))
                    /\ wire = <<>> /\ ~ended => payloads = sent /\ prefixBuffer = <<>>
  BY DEF RoundTrip, Prefixed!RoundTrip
<1>1. InStep /\ FramedTypes
  BY DEF FramedInv
<1>2. ASSUME wire = <<>>, ~ended PROVE payloads = sent /\ prefixBuffer = <<>>
  <2>1. PICK m \in Nat : m = Len(payloads) /\ m <= Len(sent)
    <3>1. Len(payloads) \in Nat
      BY <1>1 DEF FramedTypes
    <3> QED
      BY <1>1, <3>1 DEF InStep
  <2>2. PICK coming : /\ Stream(sent, coming)
                      /\ prefixBuffer \o wire = coming[m]
                      /\ Starved(prefixBuffer, sent, m)
    BY <1>1, <1>2, <2>1 DEF InStep
  <2>3. PICK b \in Seq(Digits) : b = prefixBuffer /\ b = coming[m] /\ Starved(b, sent, m)
    <3>1. prefixBuffer \o <<>> = prefixBuffer
      BY <1>1 DEF FramedTypes
    <3> QED
      BY <1>1, <1>2, <2>2, <3>1 DEF FramedTypes
  <2>4. sent \in Seq(Seq(Digits)) /\ Len(sent) \in Nat /\ PrefixLength \in Nat
    BY <1>1, PrefixAssumption DEF FramedTypes
  <2>5. m = Len(sent)
    <3> SUFFICES ASSUME m < Len(sent) PROVE FALSE
      BY <2>1, <2>4
    <3>1. m + 1 \in 1..Len(sent) /\ (m + 1) - 1 = m /\ m + 1 \in 0..Len(sent)
      BY <2>4
    <3>2. Describable(sent[m + 1])
      BY <1>1, <3>1 DEF InStep, Sendable
    <3>3. PICK f, c \in Seq(Digits) : f = Prefixed!Frame(sent[m + 1]) /\ c = coming[m + 1]
      <4>1. coming[m + 1] \in Seq(Digits)
        BY <2>2, <3>1 DEF Stream
      <4> QED
        BY <3>2, <4>1, Framed
    <3>4. b = f \o c
      BY <2>2, <2>3, <3>1, <3>3 DEF Stream
    <3>5. PICK l \in Nat : l = Len(sent[m + 1]) /\ Len(f) = PrefixLength + l
      BY <3>2, <3>3, Framed
    <3>6. Len(b) = Len(f) + Len(c) /\ Len(c) \in Nat
      BY <3>4, Pieces
    <3> QED
      BY <2>3, <2>4, <3>5, <3>6 DEF Starved
  <2>6. b = <<>>
    BY <2>2, <2>3, <2>5 DEF Stream
  <2>7. payloads = sent
    <3>1. payloads = SubSeq(sent, 1, Len(sent))
      BY <1>1, <2>1, <2>5 DEF InStep
    <3> QED
      BY <2>4, <3>1
  <2> QED
    BY <2>3, <2>6, <2>7
<1> QED
  BY <1>1, <1>2 DEF InStep

-----------------------------------------------------------------------------
\* Whichever transformer runs, both behave as they should: the other one stutters.
LEMMA EitherRunsBoth == EitherSpec => Spec /\ Prefixed!Spec
<1>1. EitherInit => Init /\ Prefixed!Init
  BY DEF EitherInit
<1>2. [EitherNext]_<<kind, vars, framedVars>> => [Next]_vars
  BY DEF EitherNext, vars
<1>3. [EitherNext]_<<kind, vars, framedVars>> => [Prefixed!Next]_(Prefixed!vars)
  BY DEF EitherNext, framedVars, Prefixed!vars
<1> QED
  BY <1>1, <1>2, <1>3, PTL DEF EitherSpec, Spec, Prefixed!Spec

\* The invariant of the splitter with a prefix holds throughout.
LEMMA AlwaysFramedInv == Prefixed!Spec => []FramedInv
  BY FramedInit, FramedNext, PTL DEF Prefixed!Spec

\* What is framed comes out of the splitter as it went in, in order, whatever the chunks.
THEOREM FramesRoundTrip == EitherSpec => []RoundTrip
  BY EitherRunsBoth, AlwaysFramedInv, InStepComesOut, PTL

\* What either transformer buffers between two chunks is within its cap, whatever arrives.
THEOREM BuffersBounded == EitherSpec => []BufferBounded
<1>1. FramedInv /\ RemainderBounded => BufferBounded
  BY DEF FramedInv, BufferBounded
<1> QED
  BY <1>1, EitherRunsBoth, AlwaysFramedInv, RemainderStaysBounded, PTL
=============================================================================
