------------------------ MODULE ConnectAndScan_proofs ------------------------
(***************************************************************************)
(* Proofs about the two calls an app begins with: connectWithRetry(), for  *)
(* every number of attempts, with or without a timeout (RetryingConnect),  *)
(* and a scan, for every number of scans and every backend (Discovery).    *)
(***************************************************************************)
EXTENDS RetryingConnect, Discovery, SequenceTheorems, TLAPS

-----------------------------------------------------------------------------
(* connectWithRetry().  HeldIsOwned and OneLiveAttempt support each other: *)
(* a connection that arrives unflagged is the current attempt's, and while *)
(* the call is connecting nothing has been returned yet.                   *)

\* What ties the loop to its attempts: a result exists exactly when the call
\* has returned, flags are set on attempts already made, never on the one the
\* call is waiting for, and a retry is in the loop's range.
Loop == /\ result # 0 <=> phase = "returned"
        /\ \A n \in Attempts : n > attempt => native[n] = "none"
        /\ phase = "connecting" => attempt \notin timedOut
        /\ \A n \in timedOut : n <= attempt
        /\ closing \subseteq timedOut
        /\ phase = "backoff" => attempt < MaxAttempts

IInv == TypeOK /\ HeldIsOwned /\ OneLiveAttempt /\ Loop

\* The first attempt starts with nothing held and nothing flagged.
LEMMA InitIInv == Init => IInv
  BY AttemptsAssumption DEF Init, Dialing, IInv, TypeOK, HeldIsOwned, OneLiveAttempt,
                            Loop, Attempts

\* Every step of connectWithRetry() and of the plugin keeps the invariant.
LEMMA NextIInv == IInv /\ [Next]_vars => IInv'
<1> SUFFICES ASSUME IInv, [Next]_vars PROVE IInv'
  OBVIOUS
<1> USE AttemptsAssumption DEF Attempts
<1>1. CASE TimesOut
  BY <1>1 DEF TimesOut, AfterFailure, IInv, TypeOK, HeldIsOwned, OneLiveAttempt, Loop
<1>2. CASE Retry
  BY <1>2 DEF Retry, Dialing, IInv, TypeOK, HeldIsOwned, OneLiveAttempt, Loop
<1>3. ASSUME NEW n \in Attempts, NativeConnects(n) PROVE IInv'
  BY <1>3 DEF NativeConnects, IInv, TypeOK, HeldIsOwned, OneLiveAttempt, Loop
<1>4. ASSUME NEW n \in Attempts, NEW r \in BOOLEAN, NativeFails(n, r) PROVE IInv'
  BY <1>4 DEF NativeFails, AfterFailure, IInv, TypeOK, HeldIsOwned, OneLiveAttempt, Loop
<1>5. ASSUME NEW n \in Attempts, Arrives(n) PROVE IInv'
  <2>1. TypeOK'
    BY <1>5 DEF Arrives, IInv, TypeOK
  <2>2. CASE n \in timedOut
    BY <1>5, <2>1, <2>2 DEF Arrives, IInv, TypeOK, HeldIsOwned, OneLiveAttempt, Loop
  <2>3. CASE n \notin timedOut
    <3>1. /\ phase' = "returned" /\ result' = n /\ closing' = closing
          /\ attempt' = attempt /\ timedOut' = timedOut
          /\ native' = [native EXCEPT ![n] = "held"] /\ native[n] = "answered"
      BY <1>5, <2>3 DEF Arrives
    <3>2. n = attempt /\ phase = "connecting" /\ result = 0
      BY <2>3, <3>1 DEF IInv, TypeOK, OneLiveAttempt, Loop
    <3>3. /\ native'[n] = "held"
          /\ \A k \in Attempts : k # n => native'[k] = native[k]
      BY <3>1 DEF IInv, TypeOK
    <3>4. closing \subseteq timedOut /\ n \notin closing
      BY <2>3 DEF IInv, Loop
    <3>5. HeldIsOwned'
      <4>1. ASSUME NEW k \in Attempts, k # n
            PROVE native'[k] = "held" <=> k = result' \/ k \in closing'
        <5>1. native'[k] = native[k] /\ k # result /\ k # result'
          BY <3>1, <3>2, <3>3, <4>1
        <5>2. native[k] = "held" <=> k = result \/ k \in closing
          BY DEF IInv, HeldIsOwned
        <5> QED BY <3>1, <5>1, <5>2
      <4>2. result' \notin closing'
        BY <3>1, <3>4
      <4> QED BY <3>1, <3>3, <4>1, <4>2 DEF HeldIsOwned
    <3>6. OneLiveAttempt'
      BY <2>3, <3>1, <3>2, <3>3 DEF IInv, OneLiveAttempt
    <3>7. Loop'
      <4>1. result' # 0 /\ phase' = "returned"
        BY <3>1
      <4>2. ASSUME NEW k \in Attempts, k > attempt PROVE native'[k] = "none"
        BY <3>2, <3>3, <4>2 DEF IInv, Loop
      <4>3. \A k \in timedOut' : k <= attempt'
        BY <3>1 DEF IInv, Loop
      <4>4. closing' \subseteq timedOut'
        BY <3>1, <3>4
      <4> QED BY <3>1, <4>1, <4>2, <4>3, <4>4 DEF Loop
    <3> QED BY <2>1, <3>5, <3>6, <3>7 DEF IInv
  <2> QED BY <2>2, <2>3
<1>6. ASSUME NEW n \in Attempts, Closes(n) PROVE IInv'
  BY <1>6 DEF Closes, IInv, TypeOK, HeldIsOwned, OneLiveAttempt, Loop
<1>7. CASE UNCHANGED vars
  BY <1>7 DEF vars, IInv, TypeOK, HeldIsOwned, OneLiveAttempt, Loop
<1> QED BY <1>1, <1>2, <1>3, <1>4, <1>5, <1>6, <1>7 DEF Next

\* The invariant holds throughout.
LEMMA AlwaysIInv == Spec => []IInv
  BY InitIInv, NextIInv, PTL DEF Spec

\* However often it retries, connectWithRetry() keeps to the range of its
\* attempts and every variable to its type.
THEOREM RetryTypeCorrect == Spec => []TypeOK
<1>1. IInv => TypeOK
  BY DEF IInv
<1> QED BY <1>1, AlwaysIInv, PTL

\* Every connection Dart holds is the one returned or one being closed: a
\* connection that arrives after its timeout is never forgotten and never
\* returned, in whatever order answers, timeouts and retries come.
THEOREM LateIsClosed == Spec => []HeldIsOwned
<1>1. IInv => HeldIsOwned
  BY DEF IInv
<1> QED BY <1>1, AlwaysIInv, PTL

\* No two attempts compete for the caller.
THEOREM SingleAttempt == Spec => []OneLiveAttempt
<1>1. IInv => OneLiveAttempt
  BY DEF IInv
<1> QED BY <1>1, AlwaysIInv, PTL

-----------------------------------------------------------------------------
(* Scans: the session counter does for timers what it was made for.        *)

\* Timers are armed in the order of their sessions, each by a session of its
\* own: only the last can be the current one's.
Ordered == /\ scan \in Nat /\ session \in Nat
           /\ timers \in Seq([scan : Nat, session : Nat])
           /\ \A i \in 1..Len(timers) : timers[i].session <= session
           /\ \A i, j \in 1..Len(timers) : i < j => timers[i].session < timers[j].session

\* The plugin starts without timers.
LEMMA InitOrdered == ScanInit => Ordered
  BY DEF ScanInit, Ordered

\* A start counts the session up before it arms its timer, and timers leave
\* from the front.
LEMMA NextOrdered == Ordered /\ [ScanNext]_scanVars => Ordered'
<1> SUFFICES ASSUME Ordered, [ScanNext]_scanVars PROVE Ordered'
  OBVIOUS
<1>1. CASE StartBus
  <2> DEFINE t == [scan |-> scan', session |-> session']
  <2>1. /\ scan' = scan + 1 /\ session' = session + 1
        /\ timers' = Append(timers, t)
    BY <1>1 DEF StartBus, Begin
  <2>2. t \in [scan : Nat, session : Nat] /\ t.session = session + 1
    BY <2>1 DEF Ordered
  <2> HIDE DEF t
  <2>3. /\ timers' \in Seq([scan : Nat, session : Nat])
        /\ Len(timers') = Len(timers) + 1 /\ Len(timers) \in Nat
        /\ \A i \in 1..Len(timers) : timers'[i] = timers[i]
        /\ timers'[Len(timers) + 1] = t
    BY <2>1, <2>2 DEF Ordered
  <2>4. ASSUME NEW i \in 1..Len(timers)
        PROVE  timers[i].session \in Nat /\ timers[i].session <= session
    <3>1. timers[i] \in [scan : Nat, session : Nat]
      BY ElementOfSeq DEF Ordered
    <3> QED
      BY <3>1 DEF Ordered
  <2>5. ASSUME NEW i \in 1..Len(timers') PROVE timers'[i].session <= session'
    <3>1. CASE i = Len(timers) + 1
      BY <2>1, <2>2, <2>3, <3>1 DEF Ordered
    <3>2. CASE i \in 1..Len(timers)
      BY <2>1, <2>3, <2>4, <3>2 DEF Ordered
    <3> QED
      BY <2>3, <3>1, <3>2
  <2>6. ASSUME NEW i \in 1..Len(timers'), NEW j \in 1..Len(timers'), i < j
        PROVE timers'[i].session < timers'[j].session
    <3> DEFINE n == Len(timers)
    <3>0. n \in Nat /\ i \in 1..(n + 1) /\ j \in 1..(n + 1)
      BY <2>3
    <3> HIDE DEF n
    <3>a. i \in 1..n /\ (j \in 1..n \/ j = n + 1)
      BY <2>6, <3>0
    <3>1. i \in 1..Len(timers) /\ (j \in 1..Len(timers) \/ j = Len(timers) + 1)
      BY <3>a DEF n
    <3>2. CASE j \in 1..Len(timers)
      BY <2>3, <2>6, <3>1, <3>2 DEF Ordered
    <3>3. CASE j = Len(timers) + 1
      <4>1. timers'[i].session = timers[i].session /\ timers'[j].session = session + 1
        BY <2>2, <2>3, <3>1, <3>3
      <4> QED
        BY <2>4, <3>1, <4>1 DEF Ordered
    <3> QED
      BY <3>1, <3>2, <3>3
  <2> QED
    BY <2>1, <2>3, <2>5, <2>6 DEF Ordered
<1>2. CASE StartThread
  BY <1>2 DEF StartThread, Begin, Ordered
<1>3. CASE AutoStop
  <2>1. timers # <<>> /\ timers' = Tail(timers) /\ UNCHANGED <<scan, session>>
    BY <1>3 DEF AutoStop
  <2>2. /\ timers' \in Seq([scan : Nat, session : Nat])
        /\ Len(timers') = Len(timers) - 1 /\ Len(timers) \in Nat
        /\ \A i \in 1..Len(timers') : timers'[i] = timers[i + 1] /\ i + 1 \in 1..Len(timers)
    BY <2>1 DEF Ordered
  <2>3. \A i \in 1..Len(timers') : timers'[i].session <= session'
    BY <2>1, <2>2 DEF Ordered
  <2>4. ASSUME NEW i \in 1..Len(timers'), NEW j \in 1..Len(timers'), i < j
        PROVE timers'[i].session < timers'[j].session
    <3>1. i + 1 < j + 1
      BY <2>2, <2>4
    <3> QED
      BY <2>2, <3>1 DEF Ordered
  <2> QED
    BY <2>1, <2>2, <2>3, <2>4 DEF Ordered
<1>4. CASE UNCHANGED <<scan, session, timers>>
  BY <1>4 DEF Ordered
<1> QED
  BY <1>1, <1>2, <1>3, <1>4 DEF ScanNext, scanVars, deviceVars, Stop,
     Deliver, ThreadEnds, ThreadPosts

\* A timer ends a scan only with the current session, so it is the last that
\* is armed, and spares a scan that has a timer of its own.
LEMMA StepSpares ==
  Ordered /\ [ScanNext]_scanVars
  => (Len(timers') < Len(timers) /\ discovering /\ ~discovering'
      => \A i \in 2..Len(timers) : timers[i].scan # running)
<1> SUFFICES ASSUME Ordered, [ScanNext]_scanVars, Len(timers') < Len(timers),
                    discovering, ~discovering'
             PROVE  Len(timers) < 2
  <2>1. Len(timers) \in Nat
    BY DEF Ordered
  <2> QED
    BY <2>1
<1>1. AutoStop
  <2>1. CASE StartBus
    <3>1. Len(timers') = Len(timers) + 1 /\ Len(timers) \in Nat
      BY <2>1 DEF StartBus, Begin, Ordered
    <3> QED
      BY <3>1
  <2>2. CASE UNCHANGED timers
    <3>1. Len(timers) \in Nat
      BY DEF Ordered
    <3> QED
      BY <2>2, <3>1
  <2> QED
    BY <2>1, <2>2 DEF ScanNext, scanVars, deviceVars, StartThread,
       Stop, Deliver, ThreadEnds, ThreadPosts
<1>2. timers # <<>> /\ session = Head(timers).session
  BY <1>1 DEF AutoStop
<1>3. Len(timers) \in Nat /\ 1 \in 1..Len(timers) /\ timers[1].session = session
  BY <1>2 DEF Ordered
<1>4. ASSUME 2 \in 1..Len(timers) PROVE FALSE
  <2>1. timers[1].session < timers[2].session /\ timers[2].session <= session
    BY <1>3, <1>4 DEF Ordered
  <2>2. timers[2] \in [scan : Nat, session : Nat] /\ session \in Nat
    BY <1>4, ElementOfSeq DEF Ordered
  <2> QED
    BY <1>3, <2>1, <2>2
<1> QED
  BY <1>3, <1>4

\* A BlueZ scan is never ended by the timer of an earlier one.
THEOREM OldTimersSpare == ScanSpec => TimerSparesNewer
<1>1. ScanInit => Ordered
  BY InitOrdered
<1>2. Ordered /\ [ScanNext]_scanVars => Ordered'
  BY NextOrdered
<1>3. Ordered /\ [ScanNext]_scanVars
      => [Len(timers') < Len(timers) /\ discovering /\ ~discovering'
          => \A i \in 2..Len(timers) : timers[i].scan # running]_scanVars
  BY StepSpares
<1> QED
  BY <1>1, <1>2, <1>3, PTL DEF ScanSpec, TimerSparesNewer
=============================================================================
