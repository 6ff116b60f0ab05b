-------------------- MODULE ReconnectingConnection_proofs --------------------
(***************************************************************************)
(* Proofs about ReconnectingConnection, for any number of slots, any retry *)
(* policy and any platform.  All but TypeCorrect and CloseStaysFinal are   *)
(* about a link whose start() is called at most once: a second call breaks *)
(* OneChain (README, divergences).                                         *)
(***************************************************************************)
EXTENDS ReconnectingConnection, TLAPS

\* The inductive invariant.
IInv == TypeOK /\ OneChain /\ StateTruthful /\ Listeners /\ Flags

linkVarsButState ==
    <<closed, attempt, retryPending, timer, strays, current>>

\* Initially nothing is under way, so the invariant holds.
LEMMA InitIInv == Init => IInv
<1> SUFFICES ASSUME Init PROVE IInv
  OBVIOUS
<1> USE DEF Init
<1>1. TypeOK
  <2>1. starts \in 0..MaxStarts
    BY BoundAssumption
  <2>2. 0 \in 0..Notices
    BY PlatformAssumption
  <2>3. news \in [Slots -> 0..Notices]
    BY <2>2
  <2>4. state \in States
    BY DEF States
  <2> QED
    BY <2>1, <2>3, <2>4 DEF TypeOK
<1>2. OneChain
  BY DEF OneChain
<1>3. StateTruthful
  BY DEF StateTruthful
<1>4. Listeners
  BY DEF Listeners
<1>5. Flags
  BY DEF Flags
<1> QED
  BY <1>1, <1>2, <1>3, <1>4, <1>5 DEF IInv

\* _setState keeps the link state and the waiting caller within their types,
\* and wakes the caller only as the new state allows.
LEMMA SetStateFacts ==
  ASSUME waiter \in {"idle", "waiting", "connected", "threw"},
         NEW st \in States, SetState(st)
  PROVE  /\ state' = st
         /\ waiter' \in {"idle", "waiting", "connected", "threw"}
         /\ waiter' = "connected" /\ waiter # "connected" => st = "connected"
<1>1. CASE waiter # "waiting"
  BY <1>1 DEF SetState
<1>2. CASE waiter = "waiting" /\ st = "connected"
  BY <1>2 DEF SetState
<1>3. CASE waiter = "waiting" /\ st \in {"closed", "failed"}
  BY <1>3 DEF SetState
<1>4. CASE waiter = "waiting" /\ st \in {"connecting", "reconnecting"}
  BY <1>4 DEF SetState
<1> QED
  BY <1>1, <1>2, <1>3, <1>4 DEF States

\* _onDropped() either does nothing or leaves a link without a connection
\* that retries or has given up.
LEMMA OnDroppedFacts ==
  ASSUME TypeOK, OnDropped
  PROVE  /\ closed' = closed
         /\ \/ /\ closed \/ retryPending
               /\ UNCHANGED <<linkVars, waiter, listening>>
            \/ /\ ~closed /\ ~retryPending
               /\ retryPending' = TRUE
               /\ listening' = listening \ {current}
               /\ current' = None
               /\ attempt' = attempt + 1
               /\ \/ /\ GivesUp(attempt + 1)
                     /\ state' = "failed" /\ UNCHANGED <<timer, strays>>
                  \/ /\ ~GivesUp(attempt + 1)
                     /\ state' = "reconnecting" /\ timer' = TRUE
                     /\ strays' = IF timer THEN strays + 1 ELSE strays
               /\ waiter' \in {"idle", "waiting", "connected", "threw"}
               /\ waiter' = "connected" => waiter = "connected"
<1>1. CASE closed \/ retryPending
  BY <1>1 DEF OnDropped, linkVars
<1>2. CASE ~(closed \/ retryPending) /\ GivesUp(attempt + 1)
  <2>1. SetState("failed")
    BY <1>2 DEF OnDropped
  <2>2. /\ state' = "failed"
        /\ waiter' \in {"idle", "waiting", "connected", "threw"}
        /\ waiter' = "connected" => waiter = "connected"
    BY <2>1, SetStateFacts DEF States, TypeOK
  <2> QED
    BY <1>2, <2>2 DEF OnDropped
<1>3. CASE ~(closed \/ retryPending) /\ ~GivesUp(attempt + 1)
  <2>1. SetState("reconnecting")
    BY <1>3 DEF OnDropped
  <2>2. /\ state' = "reconnecting"
        /\ waiter' \in {"idle", "waiting", "connected", "threw"}
        /\ waiter' = "connected" => waiter = "connected"
    BY <2>1, SetStateFacts DEF States, TypeOK
  <2> QED
    BY <1>3, <2>2 DEF OnDropped
<1> QED
  BY <1>1, <1>2, <1>3

\* So it keeps the types of what it writes.
LEMMA OnDroppedType ==
  ASSUME TypeOK, OnDropped
  PROVE  /\ closed' \in BOOLEAN /\ state' \in States /\ attempt' \in Nat
         /\ retryPending' \in BOOLEAN /\ timer' \in BOOLEAN /\ strays' \in Nat
         /\ current' \in Slots \cup {None} /\ listening' \in SUBSET Slots
         /\ waiter' \in {"idle", "waiting", "connected", "threw"}
<1>1. CASE UNCHANGED <<linkVars, waiter, listening>>
  BY <1>1 DEF TypeOK, linkVars
<1>2. CASE ~(closed \/ retryPending)
  <2>1. closed' \in BOOLEAN /\ retryPending' \in BOOLEAN
    BY <1>2, OnDroppedFacts, Zenon DEF TypeOK
  <2>2. attempt' \in Nat /\ strays' \in Nat
    <3>1. attempt' = attempt + 1 /\ (strays' = strays \/ strays' = strays + 1)
      BY <1>2, OnDroppedFacts, Zenon
    <3> QED
      BY <3>1 DEF TypeOK
  <2>4. state' \in States /\ timer' \in BOOLEAN
    BY <1>2, OnDroppedFacts, Zenon DEF TypeOK, States
  <2>3. current' \in Slots \cup {None} /\ listening' \in SUBSET Slots
    BY <1>2, OnDroppedFacts DEF TypeOK
  <2> QED
    BY <1>2, <2>1, <2>2, <2>3, <2>4, OnDroppedFacts
<1> QED
  BY <1>1, <1>2, OnDroppedFacts

\* Every action keeps every variable within its type, however often start()
\* is called.
LEMMA TypeStep == TypeOK /\ [Next]_vars => TypeOK'
<1> SUFFICES ASSUME TypeOK, [Next]_vars PROVE TypeOK'
  OBVIOUS
<1> USE SlotsAssumption, PlatformAssumption, BoundAssumption
    DEF TypeOK, States, linkVars, suspVars, connVars, platVars
<1>1. CASE Start
  <2>1. PICK s \in Slots : Dial(s)
    BY <1>1 DEF Start
  <2>2. state' \in States /\ waiter' \in {"idle", "waiting", "connected", "threw"}
    BY <2>1, SetStateFacts DEF Dial
  <2> QED
    BY <1>1, <2>1, <2>2 DEF Start, Dial
<1>2. CASE RetryTimer
  <2>1. PICK s \in Slots : Dial(s)
    BY <1>2 DEF RetryTimer
  <2>2. state' \in States /\ waiter' \in {"idle", "waiting", "connected", "threw"}
    BY <2>1, SetStateFacts DEF Dial
  <2> QED
    BY <1>2, <2>1, <2>2 DEF RetryTimer, Dial
<1>3. CASE StrayTimer
  <2>1. CASE closed
    <3>1. strays' \in Nat
      BY <1>3 DEF StrayTimer
    <3> QED
      BY <1>3, <2>1, <3>1 DEF StrayTimer
  <2>2. CASE ~closed
    <3>1. PICK s \in Slots : Dial(s)
      BY <1>3, <2>2 DEF StrayTimer
    <3>2. state' \in States /\ waiter' \in {"idle", "waiting", "connected", "threw"}
      BY <3>1, SetStateFacts DEF Dial
    <3>3. strays' \in Nat
      BY <1>3 DEF StrayTimer
    <3> QED
      BY <1>3, <3>1, <3>2, <3>3 DEF StrayTimer, Dial
  <2> QED
    BY <2>1, <2>2
<1>4. CASE Send
  BY <1>4 DEF Send
<1>5. CASE Close
  BY <1>5 DEF Close, SetState
<1>6. CASE FinishFlushes
  BY <1>6 DEF FinishFlushes, SetState
<1>7. CASE WaitConnected
  BY <1>7 DEF WaitConnected
<1>8. CASE WaiterMoves
  BY <1>8 DEF WaiterMoves
<1>9. ASSUME NEW s \in Slots, NativeConnects(s) PROVE TypeOK'
  BY <1>9 DEF NativeConnects
<1>10. ASSUME NEW s \in Slots, NativeFails(s) PROVE TypeOK'
  <2>1. CASE s \in awaited
    BY <1>10, <2>1, OnDroppedType DEF NativeFails
  <2>2. CASE s \notin awaited
    BY <1>10, <2>2 DEF NativeFails
  <2> QED
    BY <2>1, <2>2
<1>11. ASSUME NEW s \in Slots, TimesOut(s) PROVE TypeOK'
  BY <1>11, OnDroppedType DEF TimesOut
<1>12. ASSUME NEW s \in Slots, Resume(s) PROVE TypeOK'
  <2>1. CASE closed
    BY <1>12, <2>1 DEF Resume
  <2>2. CASE ~closed
    <3>1. state' \in States /\ waiter' \in {"idle", "waiting", "connected", "threw"}
      BY <1>12, <2>2, SetStateFacts DEF Resume
    <3>2. current' \in Slots \cup {None} /\ listening' \in SUBSET Slots
      BY <1>12, <2>2 DEF Resume
    <3>3. sink' \in [Slots -> {"idle", "writing", "broken"}]
      BY <1>12 DEF Resume
    <3>4. /\ UNCHANGED <<closed, timer, strays, asked, finishing, starts, entry, news>>
          /\ attempt' = 0 /\ retryPending' = FALSE
          /\ awaited' = awaited \ {s} /\ call' = [call EXCEPT ![s] = "none"]
      BY <1>12, <2>2 DEF Resume
    <3> QED
      BY <3>1, <3>2, <3>3, <3>4
  <2> QED
    BY <2>1, <2>2
<1>13. ASSUME NEW s \in Slots, Ignored(s) PROVE TypeOK'
  BY <1>13 DEF Ignored
<1>14. ASSUME NEW s \in Slots, LinkDrops(s) PROVE TypeOK'
  BY <1>14 DEF LinkDrops
<1>15. ASSUME NEW s \in Slots, Notice(s) PROVE TypeOK'
  <2>1. news' \in [Slots -> 0..Notices]
    BY <1>15 DEF Notice
  <2>2. CASE s \in listening
    BY <1>15, <2>1, <2>2, OnDroppedType DEF Notice
  <2>3. CASE s \notin listening
    BY <1>15, <2>1, <2>3 DEF Notice
  <2> QED
    BY <2>2, <2>3
<1>16. ASSUME NEW s \in Slots, WriteReturns(s) PROVE TypeOK'
  BY <1>16 DEF WriteReturns
<1>17. ASSUME NEW s \in Slots, Disconnect(s) PROVE TypeOK'
  BY <1>17 DEF Disconnect, SetState
<1>18. CASE UNCHANGED vars
  BY <1>18 DEF vars
<1> QED
  BY <1>1, <1>2, <1>3, <1>4, <1>5, <1>6, <1>7, <1>8, <1>9, <1>10, <1>11,
     <1>12, <1>13, <1>14, <1>15, <1>16, <1>17, <1>18 DEF Next

\* Every variable has its type in every reachable state, for every constant.
THEOREM TypeCorrect == Spec => []TypeOK
<1>1. Init => TypeOK
  BY InitIInv DEF IInv
<1> QED
  BY <1>1, TypeStep, PTL DEF Spec

-----------------------------------------------------------------------------
\* _onDropped() run for a link that is trying or connected keeps the chain
\* whole, provided the attempt that reported the drop is no longer awaited.
LEMMA DropKeepsInv ==
  ASSUME IInv, OnDropped, awaited' = {} \/ closed, awaited' \subseteq awaited,
         starts' = starts, starts > 0, finishing' = finishing, entry' = entry,
         \A s \in Slots : /\ news'[s] > 0 => news[s] > 0
                          /\ call[s] = "none" => call'[s] = "none"
                          /\ s \in awaited' => call'[s] # "none"
  PROVE  OneChain' /\ StateTruthful' /\ Listeners' /\ Flags'
<1> USE DEF IInv
<1>4. \A s \in Slots : /\ news'[s] > 0 => call'[s] = "none" /\ entry'[s] # "up"
                       /\ s \in awaited' => call'[s] # "none"
  <2> TAKE s \in Slots
  <2>1. news'[s] > 0 => call[s] = "none" /\ entry[s] # "up"
    BY DEF Listeners
  <2> QED
    BY <2>1
<1>1. CASE closed \/ retryPending
  <2>1. UNCHANGED <<linkVars, waiter, listening>>
    BY <1>1 DEF OnDropped
  <2>2. OneChain'
    BY <2>1 DEF OneChain, linkVars
  <2>3. StateTruthful'
    BY <1>1, <2>1, Zenon DEF StateTruthful, OneChain, Flags, linkVars
  <2>4. Listeners'
    <3>1. /\ \A s \in listening' : s = current'
          /\ current' # None => call'[current'] = "none"
      BY <2>1 DEF Listeners, TypeOK, linkVars
    <3> QED
      BY <1>4, <3>1 DEF Listeners
  <2>5. Flags'
    BY <1>1, <2>1 DEF StateTruthful, Flags, TypeOK, linkVars
  <2> QED
    BY <2>2, <2>3, <2>4, <2>5
<1>2. CASE ~(closed \/ retryPending)
  <2>0. ~timer /\ state # "failed" /\ awaited' = {} /\ ~closed /\ closed' = closed
    BY <1>2, OnDroppedFacts DEF Flags, TypeOK
  <2>1. /\ retryPending' = TRUE /\ listening' = listening \ {current}
        /\ current' = None /\ attempt' = attempt + 1
        /\ \/ state' = "failed" /\ timer' = timer /\ strays' = strays
           \/ state' = "reconnecting" /\ timer' = TRUE /\ strays' = strays
    BY <1>2, <2>0, OnDroppedFacts
  <2>2. OneChain'
    BY <2>0, <2>1 DEF OneChain
  <2>3. StateTruthful'
    BY <2>0, <2>1 DEF StateTruthful
  <2>4. Listeners'
    <3>1. listening' = {} /\ current' = None
      BY <2>1 DEF Listeners
    <3> QED
      BY <1>4, <3>1 DEF Listeners
  <2>5. Flags'
    BY <2>0, <2>1 DEF Flags, TypeOK
  <2> QED
    BY <2>2, <2>3, <2>4, <2>5
<1> QED
  BY <1>1, <1>2

-----------------------------------------------------------------------------
\* Calling the connector when nothing else is under way starts the chain.
LEMMA DialKeepsInv ==
  ASSUME IInv, NEW s \in Slots, Dial(s), ~closed, awaited = {}, current = None,
         timer' = FALSE, retryPending' = FALSE, strays' = 0, starts' > 0
  PROVE  OneChain' /\ StateTruthful' /\ Listeners' /\ Flags'
<1> USE DEF IInv
<1>1. /\ awaited' = {s} /\ current' = None /\ closed' = closed
      /\ call' = [call EXCEPT ![s] = "dialing"]
      /\ state' \in {"connecting", "reconnecting"}
      /\ finishing' = finishing /\ listening' = listening
      /\ entry' = [entry EXCEPT ![s] = "none"] /\ news' = news /\ news[s] = 0
  <2>1. state' \in {"connecting", "reconnecting"}
    BY DEF Dial, SetState
  <2> QED
    BY <2>1 DEF Dial, Unused, connVars
<1>2. OneChain'
  BY <1>1 DEF OneChain
<1>3. StateTruthful'
  BY <1>1 DEF StateTruthful
<1>4. Listeners'
  <2>1. \A t \in Slots : /\ news'[t] > 0 => call'[t] = "none" /\ entry'[t] # "up"
                         /\ t \in awaited' => call'[t] # "none"
    BY <1>1 DEF Listeners, TypeOK
  <2> QED
    BY <1>1, <2>1 DEF Listeners
<1>5. Flags'
  BY <1>1 DEF Flags
<1> QED
  BY <1>2, <1>3, <1>4, <1>5

\* The actions of the user and of the timers.  Here the link must not be
\* started a second time.
LEMMA StartKeepsInv ==
  ASSUME IInv, Start, ~Restarted'
  PROVE  OneChain' /\ StateTruthful' /\ Listeners' /\ Flags'
<1>1. ~closed /\ starts = 0 /\ starts' = 1
  BY BoundAssumption DEF Start, IInv, TypeOK, Restarted
<1>2. awaited = {} /\ timer = FALSE /\ current = None /\ retryPending = FALSE
  BY <1>1 DEF IInv, TypeOK, Flags
<1>3. PICK s \in Slots : Dial(s)
  BY DEF Start
<1>4. timer' = FALSE /\ retryPending' = FALSE /\ strays' = 0 /\ starts' > 0
  BY <1>1, <1>2 DEF Start, IInv, OneChain
<1> QED
  BY <1>1, <1>2, <1>3, <1>4, DialKeepsInv

\* A retry timer that fires hands the chain over to the attempt it starts.
LEMMA RetryKeepsInv ==
  ASSUME IInv, RetryTimer
  PROVE  OneChain' /\ StateTruthful' /\ Listeners' /\ Flags'
<1>1. ~closed /\ awaited = {} /\ current = None /\ starts > 0
  BY DEF RetryTimer, IInv, OneChain, StateTruthful, Flags, TypeOK
<1>2. PICK s \in Slots : Dial(s)
  BY DEF RetryTimer
<1>3. timer' = FALSE /\ retryPending' = FALSE /\ strays' = 0 /\ starts' > 0
  BY <1>1 DEF RetryTimer, IInv, OneChain
<1> QED
  BY <1>1, <1>2, <1>3, DialKeepsInv

\* close() ends the chain, or leaves it to the attempt in flight, which will find
\* the link closed.
LEMMA CloseKeepsInv ==
  ASSUME IInv, Close
  PROVE  OneChain' /\ StateTruthful' /\ Listeners' /\ Flags'
<1> USE DEF IInv
<1>1. /\ closed' = TRUE /\ timer' = FALSE /\ current' = None
      /\ finishing' = current /\ listening' = listening \ {current}
      /\ UNCHANGED <<attempt, strays, awaited, starts, call, entry, news>>
  BY DEF Close, platVars
<1>2. /\ current = None => state' = "closed"
      /\ current # None => state' = "connected"
  BY DEF Close, SetState, StateTruthful
<1>3. OneChain'
  BY <1>1 DEF OneChain
<1>4. StateTruthful'
  BY <1>1, <1>2 DEF StateTruthful
<1>5. Listeners'
  BY <1>1 DEF Listeners
<1>6. Flags'
  BY <1>1, <1>2 DEF Flags, StateTruthful, OneChain
<1> QED
  BY <1>3, <1>4, <1>5, <1>6

\* The end of finish(), whether it threw or the plugin answered.
LEMMA FinalKeepsInv ==
  ASSUME IInv, finishing # None, finishing' = None, SetState("closed"),
         UNCHANGED <<linkVarsButState, awaited, starts, listening, call>>,
         news' = news, \A s \in Slots : entry'[s] = "up" => entry[s] = "up"
  PROVE  OneChain' /\ StateTruthful' /\ Listeners' /\ Flags'
<1> USE DEF IInv, linkVarsButState
<1>1. closed /\ state' = "closed"
  BY DEF Flags, SetState
<1>2. OneChain'
  BY DEF OneChain
<1>3. StateTruthful'
  BY <1>1 DEF StateTruthful
<1>4. Listeners'
  <2>1. \A t \in Slots : /\ news'[t] > 0 => call'[t] = "none" /\ entry'[t] # "up"
                         /\ t \in awaited' => call'[t] # "none"
    BY DEF Listeners
  <2> QED
    BY <2>1 DEF Listeners
<1>5. Flags'
  BY <1>1 DEF Flags
<1> QED
  BY <1>2, <1>3, <1>4, <1>5

-----------------------------------------------------------------------------
\* The answers of the platform, and the drops.
LEMMA NativeFailsKeepsInv ==
  ASSUME IInv, NEW s \in Slots, NativeFails(s)
  PROVE  OneChain' /\ StateTruthful' /\ Listeners' /\ Flags'
<1> USE DEF IInv
<1>1. /\ call' = [call EXCEPT ![s] = "none"] /\ awaited' = awaited \ {s}
      /\ UNCHANGED <<finishing, starts, entry, news>>
  BY DEF NativeFails
<1>2. \A t \in Slots : /\ news'[t] > 0 => news[t] > 0
                       /\ call[t] = "none" => call'[t] = "none"
                       /\ t \in awaited' => call'[t] # "none"
  BY <1>1 DEF TypeOK, Listeners
<1>3. CASE s \in awaited
  <2>1. awaited' = {} /\ starts > 0 /\ OnDropped
    BY <1>1, <1>3 DEF NativeFails, OneChain, Flags, TypeOK
  <2> QED
    BY <1>1, <1>2, <2>1, DropKeepsInv
<1>4. CASE s \notin awaited
  <2>1. UNCHANGED <<linkVars, waiter, listening, awaited>>
    BY <1>1, <1>4 DEF NativeFails
  <2>2. OneChain' /\ StateTruthful' /\ Flags'
    BY <1>1, <2>1 DEF OneChain, StateTruthful, Flags, linkVars
  <2>3. Listeners'
    BY <1>1, <1>2, <2>1 DEF Listeners, TypeOK, linkVars
  <2> QED
    BY <2>2, <2>3
<1> QED
  BY <1>3, <1>4

\* A connect timeout passes the chain from the attempt to the retry timer.
LEMMA TimesOutKeepsInv ==
  ASSUME IInv, NEW s \in Slots, TimesOut(s)
  PROVE  OneChain' /\ StateTruthful' /\ Listeners' /\ Flags'
<1> USE DEF IInv
<1>1. /\ awaited' = awaited \ {s} /\ s \in awaited /\ OnDropped
      /\ UNCHANGED <<finishing, starts, call, entry, news>>
  BY DEF TimesOut, platVars
<1>2. awaited' = {} /\ starts > 0
  BY <1>1 DEF OneChain, Flags, TypeOK
<1>3. \A t \in Slots : /\ news'[t] > 0 => news[t] > 0
                       /\ call[t] = "none" => call'[t] = "none"
                       /\ t \in awaited' => call'[t] # "none"
  BY <1>1, <1>2
<1> QED
  BY <1>1, <1>2, <1>3, DropKeepsInv

\* A drop notice acts only while its connection is the current one.
LEMMA NoticeKeepsInv ==
  ASSUME IInv, NEW s \in Slots, Notice(s)
  PROVE  OneChain' /\ StateTruthful' /\ Listeners' /\ Flags'
<1> USE DEF IInv
<1>1. /\ news' = [news EXCEPT ![s] = @ - 1] /\ news[s] > 0
      /\ UNCHANGED <<awaited, finishing, starts, call, entry>>
  BY DEF Notice
<1>2. \A t \in Slots : /\ news'[t] > 0 => news[t] > 0
                       /\ call[t] = "none" => call'[t] = "none"
                       /\ t \in awaited' => call'[t] # "none"
  BY <1>1 DEF TypeOK, Listeners
<1>3. CASE s \in listening
  <2>1. current = s /\ current # None
    BY <1>3, SlotsAssumption DEF Listeners
  <2>2. awaited' = {} /\ starts > 0 /\ OnDropped
    BY <1>1, <1>3, <2>1 DEF Notice, OneChain, Flags, TypeOK
  <2> QED
    BY <1>1, <1>2, <2>2, DropKeepsInv
<1>4. CASE s \notin listening
  <2>1. UNCHANGED <<linkVars, waiter, listening>>
    BY <1>4 DEF Notice
  <2>2. OneChain' /\ StateTruthful' /\ Flags'
    BY <1>1, <2>1 DEF OneChain, StateTruthful, Flags, linkVars
  <2>3. Listeners'
    BY <1>1, <1>2, <2>1 DEF Listeners, TypeOK, linkVars
  <2> QED
    BY <2>2, <2>3
<1> QED
  BY <1>3, <1>4

\* The answer to an awaited attempt makes its connection the current one, or
\* asks for its disconnect when the link was closed meanwhile.
LEMMA ResumeKeepsInv ==
  ASSUME IInv, NEW s \in Slots, Resume(s)
  PROVE  OneChain' /\ StateTruthful' /\ Listeners' /\ Flags'
<1> USE DEF IInv
<1>1. /\ call' = [call EXCEPT ![s] = "none"]
      /\ s \in awaited /\ call[s] = "answered" /\ awaited' = {}
      /\ current = None /\ timer = FALSE /\ strays = 0 /\ starts > 0
      /\ UNCHANGED <<finishing, starts, entry, news>>
  BY DEF Resume, OneChain, Flags, TypeOK
<1>2. news[s] = 0
  BY <1>1 DEF Listeners, TypeOK
<1>3. \A t \in Slots : news'[t] > 0 => call'[t] = "none" /\ entry'[t] # "up"
  BY <1>1, <1>2 DEF Listeners, TypeOK
<1>4. CASE closed
  <2>1. UNCHANGED <<linkVars, waiter, listening>>
    BY <1>4 DEF Resume
  <2>2. OneChain' /\ StateTruthful' /\ Flags'
    BY <1>1, <1>4, <2>1 DEF OneChain, StateTruthful, Flags, linkVars
  <2>3. Listeners'
    BY <1>1, <1>3, <2>1 DEF Listeners, linkVars
  <2> QED
    BY <2>2, <2>3
<1>5. CASE ~closed
  <2>1. /\ current' = s /\ attempt' = 0 /\ retryPending' = FALSE
        /\ listening' = listening \cup {s}
        /\ UNCHANGED <<closed, timer, strays>> /\ state' = "connected"
    BY <1>5 DEF Resume, SetState
  <2>2. OneChain' /\ StateTruthful'
    BY <1>1, <1>5, <2>1, SlotsAssumption DEF OneChain, StateTruthful
  <2>3. Flags'
    BY <1>1, <1>5, <2>1 DEF Flags
  <2>4. listening = {}
    BY <1>1, SlotsAssumption DEF Listeners, TypeOK
  <2>5. Listeners'
    BY <1>1, <1>3, <2>1, <2>4 DEF Listeners, TypeOK
  <2> QED
    BY <2>2, <2>3, <2>5
<1> QED
  BY <1>4, <1>5

\* The remaining actions leave the fields alone.
LEMMA FrameKeepsInv ==
  ASSUME IInv, UNCHANGED <<linkVars, awaited, finishing, starts, listening>>,
         \A s \in Slots : /\ news'[s] > 0 => \/ news[s] > 0
                                             \/ s = current /\ entry'[s] # "up"
                          /\ call[s] = "none" => call'[s] = "none"
                          /\ entry'[s] = "up" /\ entry[s] # "up" => call[s] # "none"
                          /\ s \in awaited => call'[s] # "none"
  PROVE  OneChain' /\ StateTruthful' /\ Listeners' /\ Flags'
<1> USE DEF IInv
<1>1. OneChain' /\ StateTruthful' /\ Flags'
  BY DEF OneChain, StateTruthful, Flags, linkVars
<1>2. \A s \in Slots : /\ news'[s] > 0 => call'[s] = "none" /\ entry'[s] # "up"
                       /\ s \in awaited' => call'[s] # "none"
  <2> TAKE s \in Slots
  <2>1. s = current => call[s] = "none"
    BY SlotsAssumption DEF Listeners
  <2>2. news[s] > 0 => call[s] = "none" /\ entry[s] # "up"
    BY DEF Listeners
  <2> QED
    BY <2>1, <2>2
<1>3. (\A s \in listening' : s = current') /\ (current' # None => call'[current'] = "none")
  BY DEF Listeners, TypeOK, linkVars
<1> QED
  BY <1>1, <1>2, <1>3 DEF Listeners

-----------------------------------------------------------------------------
\* No step of a link that is started once breaks the invariant.
LEMMA StepKeepsInv ==
  ASSUME IInv, [Next]_vars, ~Restarted'
  PROVE  IInv'
<1> DEFINE Rest == OneChain /\ StateTruthful /\ Listeners /\ Flags
<1>0. TypeOK'
  BY TypeStep DEF IInv
<1> SUFFICES Rest'
  BY <1>0 DEF IInv
<1>1. CASE Start
  BY <1>1, StartKeepsInv
<1>2. CASE RetryTimer
  BY <1>2, RetryKeepsInv
<1>3. CASE StrayTimer
  BY <1>3 DEF StrayTimer, IInv, OneChain
<1>4. CASE Send
  BY <1>4, FrameKeepsInv DEF Send, suspVars, platVars, IInv, Listeners
<1>5. CASE Close
  BY <1>5, CloseKeepsInv
<1>6. CASE FinishFlushes
  <2>1. CASE sink[finishing] = "idle"
    BY <1>6, <2>1, FrameKeepsInv
    DEF FinishFlushes, linkVars, platVars, IInv, Listeners
  <2>2. CASE sink[finishing] # "idle"
    BY <1>6, <2>2, FinalKeepsInv DEF FinishFlushes, linkVarsButState, platVars
  <2> QED
    BY <2>1, <2>2
<1>7. CASE WaitConnected
  BY <1>7, FrameKeepsInv DEF WaitConnected, connVars, platVars, IInv, Listeners
<1>8. CASE WaiterMoves
  BY <1>8, FrameKeepsInv DEF WaiterMoves, connVars, platVars, IInv, Listeners
<1>9. ASSUME NEW s \in Slots, NativeConnects(s) PROVE Rest'
  <2>1. /\ call' = [call EXCEPT ![s] = "answered"] /\ call[s] = "dialing"
        /\ entry' = [entry EXCEPT ![s] = "up"]
        /\ UNCHANGED <<linkVars, suspVars, connVars, news>>
    BY <1>9 DEF NativeConnects
  <2>2. \A t \in Slots : t # s => call'[t] = call[t] /\ entry'[t] = entry[t]
    BY <2>1 DEF IInv, TypeOK
  <2>3. call'[s] = "answered" /\ entry'[s] = "up"
    BY <2>1 DEF IInv, TypeOK
  <2> QED
    BY <2>1, <2>2, <2>3, FrameKeepsInv DEF suspVars, connVars, IInv, Listeners
<1>10. ASSUME NEW s \in Slots, NativeFails(s) PROVE Rest'
  BY <1>10, NativeFailsKeepsInv
<1>11. ASSUME NEW s \in Slots, TimesOut(s) PROVE Rest'
  BY <1>11, TimesOutKeepsInv
<1>12. ASSUME NEW s \in Slots, Resume(s) PROVE Rest'
  BY <1>12, ResumeKeepsInv
<1>13. ASSUME NEW s \in Slots, Ignored(s) PROVE Rest'
  <2>1. \A t \in Slots : t # s => call'[t] = call[t]
    BY <1>13 DEF Ignored, IInv, TypeOK
  <2>2. call'[s] = "none" /\ s \notin awaited
    BY <1>13 DEF Ignored, IInv, TypeOK
  <2> QED
    BY <1>13, <2>1, <2>2, FrameKeepsInv DEF Ignored, suspVars, connVars, IInv, Listeners
<1>14. ASSUME NEW s \in Slots, LinkDrops(s) PROVE Rest'
  <2>1. /\ UNCHANGED <<linkVars, suspVars, connVars, call>>
        /\ \A t \in Slots : t # s => news'[t] = news[t] /\ entry'[t] = entry[t]
        /\ entry'[s] # "up" /\ (news'[s] > 0 => s = current)
    BY <1>14, PlatformAssumption DEF LinkDrops, IInv, TypeOK
  <2> QED
    BY <2>1, FrameKeepsInv DEF suspVars, connVars, IInv, Listeners
<1>15. ASSUME NEW s \in Slots, Notice(s) PROVE Rest'
  BY <1>15, NoticeKeepsInv
<1>16. ASSUME NEW s \in Slots, WriteReturns(s) PROVE Rest'
  BY <1>16, FrameKeepsInv DEF WriteReturns, suspVars, platVars, IInv, Listeners
<1>17. ASSUME NEW s \in Slots, Disconnect(s) PROVE Rest'
  <2>1. /\ entry' = [entry EXCEPT ![s] = "none"]
        /\ \A t \in Slots : entry'[t] = "up" => entry[t] = "up"
    BY <1>17 DEF Disconnect, IInv, TypeOK
  <2>2. CASE finishing = s
    BY <1>17, <2>1, <2>2, SlotsAssumption, FinalKeepsInv
    DEF Disconnect, linkVarsButState
  <2>3. CASE finishing # s
    BY <1>17, <2>1, <2>3, FrameKeepsInv
    DEF Disconnect, linkVars, IInv, Listeners
  <2> QED
    BY <2>2, <2>3
<1>18. CASE UNCHANGED vars
  BY <1>18, FrameKeepsInv DEF vars, suspVars, connVars, platVars, IInv, Listeners
<1> QED
  BY <1>1, <1>2, <1>3, <1>4, <1>5, <1>6, <1>7, <1>8, <1>9, <1>10, <1>11,
     <1>12, <1>13, <1>14, <1>15, <1>16, <1>17, <1>18 DEF Next

\* A link that may be started once only is never started again.
LEMMA OnceKeepsInv ==
  ASSUME MaxStarts <= 1, IInv, [Next]_vars
  PROVE  IInv'
<1>1. ~Restarted'
  BY TypeStep, BoundAssumption DEF IInv, TypeOK, Restarted
<1> QED
  BY <1>1, StepKeepsInv

\* The chain is never forked, whatever the policy, the platform and the order
\* of drops, timeouts, notices and close().
THEOREM SingleChain ==
  ASSUME MaxStarts <= 1
  PROVE  Spec => []OneChain
<1>1. Init => IInv
  BY InitIInv
<1>2. IInv /\ [Next]_vars => IInv'
  BY OnceKeepsInv
<1>3. IInv => OneChain
  BY DEF IInv
<1> QED
  BY <1>1, <1>2, <1>3, PTL DEF Spec

\* What currentState says of a link is so, after every event.
THEOREM StateIsTrue ==
  ASSUME MaxStarts <= 1
  PROVE  Spec => []StateTruthful
<1>1. Init => IInv
  BY InitIInv
<1>2. IInv /\ [Next]_vars => IInv'
  BY OnceKeepsInv
<1>3. IInv => StateTruthful
  BY DEF IInv
<1> QED
  BY <1>1, <1>2, <1>3, PTL DEF Spec

\* Under the invariant a connection is replaced only after its link dropped.
LEMMA TearDownStep ==
  ASSUME IInv, [Next]_vars, current # None, current' # current, ~closed'
  PROVE  entry[current] # "up" /\ current' = None
<1> USE DEF IInv
<1>1. awaited = {} /\ timer = FALSE /\ current \in Slots
  BY DEF OneChain, TypeOK
<1>2. PICK s \in Slots : Notice(s)
  <2>1. ~(\E s \in Slots : NativeFails(s) \/ TimesOut(s) \/ Resume(s))
    BY <1>1 DEF NativeFails, TimesOut, Resume, linkVars
  <2>2. ~Start /\ ~RetryTimer /\ ~StrayTimer /\ ~Close
    BY <1>1 DEF Start, RetryTimer, StrayTimer, Dial, Close
  <2>3. ~Send /\ ~FinishFlushes /\ ~WaitConnected /\ ~WaiterMoves
    BY DEF Send, FinishFlushes, WaitConnected, WaiterMoves, linkVars
  <2>4. ~(\E s \in Slots : NativeConnects(s) \/ Ignored(s) \/ LinkDrops(s)
                           \/ WriteReturns(s) \/ Disconnect(s))
    BY DEF NativeConnects, Ignored, LinkDrops, WriteReturns, Disconnect, linkVars
  <2>5. vars' # vars
    BY DEF vars, linkVars
  <2> QED
    BY <2>1, <2>2, <2>3, <2>4, <2>5 DEF Next
<1>3. s \in listening /\ OnDropped
  BY <1>2 DEF Notice, linkVars
<1>4. s = current /\ entry[s] # "up"
  BY <1>2, <1>3 DEF Notice, Listeners
<1>5. current' = None
  BY <1>3 DEF OnDropped, linkVars
<1> QED
  BY <1>4, <1>5

\* waitConnected() returns normally from two places: at once, or from the
\* "connected" event of the connection just adopted.
LEMMA WaiterStep ==
  ASSUME IInv, [Next]_vars, waiter # "connected", waiter' = "connected", ~closed
  PROVE  current' # None
<1> USE DEF IInv
<1>1. CASE WaitConnected
  BY <1>1 DEF WaitConnected, StateTruthful, linkVars
<1>2. CASE \E s \in Slots : Resume(s)
  <2>1. PICK s \in Slots : Resume(s)
    BY <1>2
  <2> QED
    BY <2>1, SlotsAssumption DEF Resume
<1>3. ~Start /\ ~RetryTimer /\ ~StrayTimer
  <2>1. ASSUME NEW s \in Slots, Dial(s) PROVE FALSE
    <3>1. PICK st \in {"connecting", "reconnecting"} : SetState(st)
      BY <2>1 DEF Dial
    <3> QED
      BY <3>1, SetStateFacts DEF TypeOK, States
  <2> QED
    BY <2>1 DEF Start, RetryTimer, StrayTimer
<1>4. ~OnDropped
  BY OnDroppedFacts
<1>5. ~SetState("closed")
  BY SetStateFacts DEF TypeOK, States
<1>6. ~Send /\ ~Close /\ ~FinishFlushes /\ ~WaiterMoves
  BY <1>5 DEF Send, Close, FinishFlushes, WaiterMoves, suspVars
<1>7. ~(\E s \in Slots : NativeFails(s) \/ TimesOut(s) \/ Notice(s) \/ Disconnect(s))
  BY <1>4, <1>5 DEF NativeFails, TimesOut, Notice, Disconnect
<1>8. ~(\E s \in Slots : NativeConnects(s) \/ Ignored(s) \/ LinkDrops(s) \/ WriteReturns(s))
  BY DEF NativeConnects, Ignored, LinkDrops, WriteReturns, suspVars
<1>9. vars' # vars
  BY DEF vars, suspVars
<1> QED
  BY <1>1, <1>2, <1>3, <1>6, <1>7, <1>8, <1>9 DEF Next

\* No late or repeated notice tears down the connection that replaced the one
\* it was about.
THEOREM NoStaleTearDown ==
  ASSUME MaxStarts <= 1
  PROVE  Spec => OnlyDropsTearDown
<1>1. Init => IInv
  BY InitIInv
<1>2. IInv /\ [Next]_vars => IInv'
  BY OnceKeepsInv
<1>3. IInv /\ [Next]_vars
      => [current # None /\ current' # current /\ ~closed'
          => entry[current] # "up" /\ current' = None]_vars
  BY TearDownStep
<1> QED
  BY <1>1, <1>2, <1>3, PTL DEF Spec, OnlyDropsTearDown

\* A caller of waitConnected() that returns before close() finds a connection.
THEOREM WaitersGetLink ==
  ASSUME MaxStarts <= 1
  PROVE  Spec => WaiterGetsLinkWhileOpen
<1>1. Init => IInv
  BY InitIInv
<1>2. IInv /\ [Next]_vars => IInv'
  BY OnceKeepsInv
<1>3. IInv /\ [Next]_vars
      => [waiter # "connected" /\ waiter' = "connected" /\ ~closed
          => current' # None]_vars
  BY WaiterStep
<1> QED
  BY <1>1, <1>2, <1>3, PTL DEF Spec, WaiterGetsLinkWhileOpen

-----------------------------------------------------------------------------
\* What close() leaves behind; unlike the chain, this does not depend on how
\* often start() was called.
Quiet == closed => ~timer /\ current = None

\* After close() no step dials, adopts a connection or leaves "closed".
LEMMA QuietStep ==
  ASSUME TypeOK, Quiet, [Next]_vars
  PROVE  /\ Quiet'
         /\ closed => /\ closed' /\ state' \in {state, "closed"}
                      /\ awaited' \subseteq awaited /\ current' = None
<1> DEFINE Goal == /\ Quiet'
                   /\ closed => /\ closed' /\ state' \in {state, "closed"}
                                /\ awaited' \subseteq awaited /\ current' = None
<1> SUFFICES Goal
  OBVIOUS
<1> USE DEF TypeOK, Quiet
<1>0. ASSUME OnDropped, awaited' \subseteq awaited PROVE Goal
  <2>1. CASE closed
    BY <1>0, <2>1 DEF OnDropped, linkVars
  <2>2. CASE ~closed
    <3>1. closed' = closed
      BY <1>0, OnDroppedFacts, Zenon
    <3> QED
      BY <2>2, <3>1
  <2> QED
    BY <2>1, <2>2
<1>1. CASE Start
  BY <1>1 DEF Start, Dial
<1>2. CASE RetryTimer
  BY <1>2 DEF RetryTimer, Dial
<1>3. CASE StrayTimer
  BY <1>3 DEF StrayTimer, Dial
<1>4. CASE Send
  BY <1>4 DEF Send, linkVars, suspVars
<1>5. CASE Close
  BY <1>5 DEF Close
<1>6. CASE FinishFlushes
  BY <1>6 DEF FinishFlushes, SetState
<1>7. CASE WaitConnected
  BY <1>7 DEF WaitConnected, linkVars
<1>8. CASE WaiterMoves
  BY <1>8 DEF WaiterMoves, linkVars
<1>9. ASSUME NEW s \in Slots, NativeConnects(s) PROVE Goal
  BY <1>9 DEF NativeConnects, linkVars, suspVars
<1>10. ASSUME NEW s \in Slots, NativeFails(s) PROVE Goal
  BY <1>0, <1>10 DEF NativeFails, linkVars
<1>11. ASSUME NEW s \in Slots, TimesOut(s) PROVE Goal
  BY <1>0, <1>11 DEF TimesOut
<1>12. ASSUME NEW s \in Slots, Resume(s) PROVE Goal
  BY <1>12 DEF Resume, linkVars
<1>13. ASSUME NEW s \in Slots, Ignored(s) PROVE Goal
  BY <1>13 DEF Ignored, linkVars, suspVars
<1>14. ASSUME NEW s \in Slots, LinkDrops(s) PROVE Goal
  BY <1>14 DEF LinkDrops, linkVars, suspVars
<1>15. ASSUME NEW s \in Slots, Notice(s) PROVE Goal
  BY <1>0, <1>15 DEF Notice, linkVars
<1>16. ASSUME NEW s \in Slots, WriteReturns(s) PROVE Goal
  BY <1>16 DEF WriteReturns, linkVars, suspVars
<1>17. ASSUME NEW s \in Slots, Disconnect(s) PROVE Goal
  BY <1>17 DEF Disconnect, SetState
<1>18. CASE UNCHANGED vars
  BY <1>18 DEF vars, linkVars, suspVars
<1> QED
  BY <1>1, <1>2, <1>3, <1>4, <1>5, <1>6, <1>7, <1>8, <1>9, <1>10, <1>11,
     <1>12, <1>13, <1>14, <1>15, <1>16, <1>17, <1>18 DEF Next

\* close() is final, even for a link started several times.
THEOREM CloseStaysFinal == Spec => CloseIsFinal
<1>1. Init => TypeOK /\ Quiet
  BY InitIInv DEF IInv, Init, Quiet
<1>2. TypeOK /\ Quiet /\ [Next]_vars => TypeOK' /\ Quiet'
  BY TypeStep, QuietStep
<1>3. TypeOK /\ Quiet /\ [Next]_vars
      => [closed => /\ closed' /\ state' \in {state, "closed"}
                    /\ awaited' \subseteq awaited /\ current' = None]_vars
  BY QuietStep
<1> QED
  BY <1>1, <1>2, <1>3, PTL DEF Spec, CloseIsFinal

-----------------------------------------------------------------------------
\* A connection the link has in hand: an attempt it awaits, the one it uses, the
\* one close() finishes, or one it asked the plugin to disconnect.  A closed link is
\* also charged with the connection that a failed write made finish() leave up.
Holds(s) == \/ s \in awaited \cup asked \cup {current, finishing}
            \/ closed /\ entry[s] = "up" /\ sink[s] = "broken"

\* Whose the native connections are, on a link without connect timeout: the link has
\* one connection in hand, and whatever is up in the plugin is that one.
Owners ==
    /\ \A s, t \in Slots : Holds(s) /\ Holds(t) => s = t
    /\ \A s \in awaited : s # finishing /\ s \notin asked
    /\ asked # {} => closed
    /\ \A s \in Slots : /\ call[s] # "none" => s \in awaited
                        /\ entry[s] = "up" => Holds(s) /\ call[s] # "dialing"

\* The inductive invariant about native connections.
OwnInv == IInv /\ Owners

\* Initially there is no connection.
LEMMA InitOwnInv == Init => OwnInv
<1> SUFFICES ASSUME Init PROVE OwnInv
  OBVIOUS
<1>1. \A s \in Slots : ~Holds(s)
  BY SlotsAssumption DEF Init, Holds
<1>2. Owners
  BY <1>1 DEF Init, Owners
<1> QED
  BY <1>2, InitIInv DEF OwnInv

\* The connector is called when the link has nothing in hand.
LEMMA DialKeepsOwners ==
  ASSUME OwnInv, NEW s \in Slots, Dial(s), ~closed, awaited = {}, current = None
  PROVE  Owners'
<1> USE DEF OwnInv, IInv
<1>1. /\ awaited' = {s} /\ call' = [call EXCEPT ![s] = "dialing"] /\ entry[s] # "up"
      /\ entry' = [entry EXCEPT ![s] = "none"]
      /\ UNCHANGED <<closed, current, finishing, asked, sink>>
  BY DEF Dial, Unused, connVars
<1>2. finishing = None /\ asked = {}
  BY DEF Flags, Owners
<1>3. \A t \in Slots : /\ ~Holds(t)
                       /\ Holds(t)' <=> t = s
  BY <1>1, <1>2, SlotsAssumption DEF Holds
<1> QED
  BY <1>1, <1>2, <1>3, SlotsAssumption DEF Owners, TypeOK

\* _onDropped() lets go of a connection whose link is down, and touches nothing else
\* that matters here.
LEMMA DropKeepsOwners ==
  ASSUME OwnInv, OnDropped, awaited' \subseteq awaited,
         UNCHANGED <<finishing, asked, sink, entry>>,
         current # None => entry[current] # "up",
         \A s \in Slots : /\ call'[s] \in {call[s], "none"}
                          /\ s \in awaited \ awaited' => call'[s] = "none" /\ entry[s] # "up"
  PROVE  Owners'
<1> USE DEF OwnInv, IInv
<1>1. closed' = closed /\ current' \in {current, None}
  BY OnDroppedFacts DEF linkVars
<1>2. \A s \in Slots : Holds(s)' => Holds(s)
  BY <1>1, SlotsAssumption DEF Holds
<1>3. \A s \in Slots : entry[s] = "up" /\ Holds(s) => Holds(s)'
  BY <1>1, SlotsAssumption DEF Holds
<1> QED
  <2>2. \A s \in Slots : call'[s] # "none" => s \in awaited'
    BY DEF Owners
  <2>3. \A s \in Slots : entry'[s] = "up" => Holds(s)' /\ call'[s] # "dialing"
    BY <1>3 DEF Owners
  <2>4. \A s, t \in Slots : Holds(s)' /\ Holds(t)' => s = t
    BY <1>2 DEF Owners
  <2>5. (\A s \in awaited' : s # finishing' /\ s \notin asked') /\ (asked' # {} => closed')
    BY <1>1 DEF Owners
  <2> QED
    BY <2>2, <2>3, <2>4, <2>5 DEF Owners

\* The actions that take nothing in hand.
LEMMA HandsKeepOwners ==
  ASSUME OwnInv, closed => closed', UNCHANGED <<awaited, call>>,
         \A s \in Slots : /\ Holds(s)' => Holds(s)
                          /\ entry'[s] = "up" => entry[s] = "up" /\ (Holds(s) => Holds(s)'),
         \A s \in awaited : s # finishing' /\ s \notin asked',
         asked' # {} => closed'
  PROVE  Owners'
<1> USE DEF OwnInv, Owners
<1>1. \A s, t \in Slots : Holds(s)' /\ Holds(t)' => s = t
  OBVIOUS
<1>2. \A s \in Slots : /\ call'[s] # "none" => s \in awaited'
                       /\ entry'[s] = "up" => Holds(s)' /\ call'[s] # "dialing"
  OBVIOUS
<1> QED
  BY <1>1, <1>2

\* No step of a link that is started once, without connect timeout, breaks it.
LEMMA StepKeepsOwnInv ==
  ASSUME ~HasTimeout, OwnInv, [Next]_vars, ~Restarted'
  PROVE  OwnInv'
<1>0. IInv'
  BY StepKeepsInv DEF OwnInv
<1> SUFFICES Owners'
  BY <1>0 DEF OwnInv
<1> USE DEF OwnInv, IInv
<1>1. CASE Start
  <2>1. starts = 0
    BY <1>1, BoundAssumption DEF Start, TypeOK, Restarted
  <2>2. ~closed /\ awaited = {} /\ current = None
    BY <1>1, <2>1 DEF Start, Flags
  <2> QED
    BY <1>1, <2>2, DialKeepsOwners DEF Start
<1>2. CASE RetryTimer
  <2>1. ~closed /\ awaited = {} /\ current = None
    BY <1>2 DEF RetryTimer, OneChain, StateTruthful, TypeOK
  <2> QED
    BY <1>2, <2>1, DialKeepsOwners DEF RetryTimer
<1>3. CASE StrayTimer
  BY <1>3 DEF StrayTimer, OneChain
<1>4. CASE Send
  <2>1. /\ ~closed /\ UNCHANGED <<closed, awaited, asked, current, finishing, entry, call>>
    BY <1>4 DEF Send, StateTruthful, linkVars, suspVars, platVars
  <2>2. \A s \in Slots : Holds(s)' <=> Holds(s)
    BY <2>1 DEF Holds
  <2> QED
    BY <2>1, <2>2, HandsKeepOwners DEF Owners
<1>5. CASE Close
  <2>1. /\ finishing' = current /\ current' = None /\ closed' /\ finishing = None
        /\ UNCHANGED <<awaited, asked, call, entry, sink>>
    BY <1>5 DEF Close, platVars, Flags
  <2>2. \A s \in Slots : Holds(s)' <=> Holds(s)
    BY <2>1, SlotsAssumption DEF Holds, Owners
  <2>3. \A s \in awaited : s # finishing' /\ s \notin asked'
    BY <2>1, SlotsAssumption DEF Owners, OneChain, TypeOK
  <2> QED
    BY <2>1, <2>2, <2>3, HandsKeepOwners
<1>6. CASE FinishFlushes
  <2>1. /\ finishing \in Slots /\ finishing \notin asked /\ closed
        /\ UNCHANGED <<closed, current, awaited, call, entry, sink>>
    BY <1>6 DEF FinishFlushes, platVars, Flags, TypeOK
  <2>2. CASE finishing' = finishing
    <3>1. asked' = asked \cup {finishing}
      BY <1>6, <2>1, <2>2 DEF FinishFlushes
    <3>2. \A s \in Slots : Holds(s)' <=> Holds(s)
      BY <2>1, <2>2, <3>1 DEF Holds
    <3>3. \A s \in awaited : s # finishing' /\ s \notin asked'
      BY <2>1, <2>2, <3>1 DEF Owners, TypeOK
    <3> QED
      BY <2>1, <2>2, <3>2, <3>3, HandsKeepOwners
  <2>3. CASE finishing' # finishing
    <3>1. sink[finishing] = "broken" /\ finishing' = None /\ asked' = asked
      BY <1>6, <2>3 DEF FinishFlushes
    <3>3. \A s \in Slots : /\ Holds(s)' => Holds(s)
                           /\ Holds(s) /\ entry[s] = "up" => Holds(s)'
      BY <2>1, <3>1, SlotsAssumption DEF Holds
    <3>4. \A s \in awaited : s # finishing' /\ s \notin asked'
      BY <3>1, SlotsAssumption DEF Owners, TypeOK
    <3> QED
      BY <2>1, <3>1, <3>3, <3>4, HandsKeepOwners DEF Owners
  <2> QED
    BY <2>2, <2>3
<1>7. CASE WaitConnected
  BY <1>7, HandsKeepOwners
  DEF WaitConnected, Holds, linkVars, connVars, platVars, Owners
<1>8. CASE WaiterMoves
  BY <1>8, HandsKeepOwners
  DEF WaiterMoves, Holds, linkVars, connVars, platVars, Owners
<1>9. ASSUME NEW s \in Slots, NativeConnects(s) PROVE Owners'
  <2>1. /\ call[s] = "dialing" /\ call' = [call EXCEPT ![s] = "answered"]
        /\ entry' = [entry EXCEPT ![s] = "up"] /\ s \in awaited
        /\ UNCHANGED <<closed, current, finishing, awaited, asked, sink>>
    BY <1>9 DEF NativeConnects, linkVars, suspVars, connVars, Owners
  <2>2. \A t \in Slots : Holds(t)' <=> Holds(t)
    BY <2>1 DEF Holds, TypeOK
  <2>3. Holds(s)
    BY <2>1 DEF Holds
  <2> QED
    BY <2>1, <2>2, <2>3 DEF Owners, TypeOK
<1>10. ASSUME NEW s \in Slots, NativeFails(s) PROVE Owners'
  <2>1. /\ s \in awaited /\ entry[s] # "up" /\ awaited' = awaited \ {s} /\ OnDropped
        /\ call' = [call EXCEPT ![s] = "none"] /\ current = None
        /\ UNCHANGED <<finishing, asked, sink, entry>>
    BY <1>10 DEF NativeFails, Owners, OneChain
  <2>2. \A t \in Slots : /\ call'[t] \in {call[t], "none"}
                         /\ t \in awaited \ awaited' => call'[t] = "none" /\ entry[t] # "up"
    BY <2>1 DEF TypeOK
  <2> QED
    BY <2>1, <2>2, DropKeepsOwners
<1>11. ASSUME NEW s \in Slots, TimesOut(s) PROVE Owners'
  BY <1>11 DEF TimesOut
<1>12. ASSUME NEW s \in Slots, Resume(s) PROVE Owners'
  <2>1. /\ s \in awaited /\ call' = [call EXCEPT ![s] = "none"]
        /\ awaited' = awaited \ {s} /\ sink' = [sink EXCEPT ![s] = "idle"]
        /\ current = None /\ closed' = closed
        /\ UNCHANGED <<finishing, entry>>
    BY <1>12 DEF Resume, OneChain, linkVars
  <2>2. awaited' = {} /\ s # finishing /\ s \notin asked
    BY <2>1 DEF OneChain, Owners
  <2>3. Holds(s) /\ \A t \in Slots : Holds(t) => t = s
    BY <2>1 DEF Holds, Owners
  <2>4. finishing = None /\ asked = {}
    BY <2>2, <2>3 DEF Holds, TypeOK
  <2>5. \/ closed /\ asked' = {s} /\ current' = None
        \/ ~closed /\ asked' = {} /\ current' = s
    BY <1>12, <2>1, <2>4 DEF Resume, linkVars
  <2>6. \A t \in Slots : Holds(t)' <=> t = s
    <3>1. \A t \in Slots : entry[t] = "up" => t = s
      BY <2>3 DEF Owners
    <3> QED
      BY <2>1, <2>2, <2>4, <2>5, <3>1, SlotsAssumption DEF Holds
  <2> QED
    BY <2>1, <2>2, <2>3, <2>4, <2>5, <2>6, SlotsAssumption DEF Owners, TypeOK
<1>13. ASSUME NEW s \in Slots, Ignored(s) PROVE Owners'
  BY <1>13 DEF Ignored, Owners
<1>14. ASSUME NEW s \in Slots, LinkDrops(s) PROVE Owners'
  <2>1. /\ entry' = [entry EXCEPT ![s] = "down"]
        /\ UNCHANGED <<closed, current, finishing, awaited, asked, sink, call>>
    BY <1>14 DEF LinkDrops, linkVars, suspVars, connVars
  <2>2. \A t \in Slots : entry'[t] = "up" => t # s /\ entry[t] = "up"
    BY <2>1 DEF TypeOK
  <2>3. \A t \in Slots : /\ Holds(t)' => Holds(t)
                         /\ t # s /\ Holds(t) => Holds(t)'
    BY <2>1 DEF Holds, TypeOK
  <2> QED
    BY <2>1, <2>2, <2>3, HandsKeepOwners DEF Owners
<1>15. ASSUME NEW s \in Slots, Notice(s) PROVE Owners'
  <2>1. /\ news[s] > 0
        /\ UNCHANGED <<awaited, finishing, asked, sink, call, entry>>
    BY <1>15 DEF Notice
  <2>2. CASE s \in listening
    <3>1. OnDropped /\ current = s /\ entry[s] # "up"
      BY <1>15, <2>1, <2>2 DEF Notice, Listeners
    <3> QED
      BY <2>1, <3>1, DropKeepsOwners
  <2>3. CASE s \notin listening
    BY <1>15, <2>1, <2>3, HandsKeepOwners DEF Notice, linkVars, Holds, Owners
  <2> QED
    BY <2>2, <2>3
<1>16. ASSUME NEW s \in Slots, WriteReturns(s) PROVE Owners'
  <2>1. UNCHANGED <<closed, awaited, asked, current, finishing, entry, call>>
    BY <1>16 DEF WriteReturns, linkVars, suspVars, platVars
  <2>2. \A t \in Slots : sink[t] = "broken" => sink'[t] = "broken"
    BY <1>16 DEF WriteReturns, TypeOK
  <2>3. \A t \in Slots : Holds(t)' <=> Holds(t)
    BY <2>1, <2>2 DEF Holds, Owners
  <2> QED
    BY <2>1, <2>3, HandsKeepOwners DEF Owners
<1>17. ASSUME NEW s \in Slots, Disconnect(s) PROVE Owners'
  <2>1. /\ s \in asked /\ asked' = asked \ {s} /\ entry' = [entry EXCEPT ![s] = "none"]
        /\ finishing' = IF finishing = s THEN None ELSE finishing
        /\ UNCHANGED <<closed, current, awaited, sink, call>>
    BY <1>17 DEF Disconnect
  <2>3. current # s
    BY <2>1, SlotsAssumption DEF Owners, StateTruthful
  <2>4. \A t \in Slots : /\ Holds(t)' => Holds(t)
                         /\ t # s /\ Holds(t) => Holds(t)'
    BY <2>1, SlotsAssumption DEF Holds, TypeOK
  <2>5. \A t \in Slots : entry'[t] = "up" => t # s /\ entry[t] = "up"
    BY <2>1 DEF TypeOK
  <2>6. \A t \in awaited : t # finishing' /\ t \notin asked'
    BY <2>1, SlotsAssumption DEF Owners, TypeOK
  <2> QED
    BY <2>1, <2>4, <2>5, <2>6, HandsKeepOwners DEF Owners
<1>18. CASE UNCHANGED vars
  BY <1>18, HandsKeepOwners
  DEF vars, linkVars, suspVars, connVars, platVars, Holds, Owners
<1> QED
  BY <1>1, <1>2, <1>3, <1>4, <1>5, <1>6, <1>7, <1>8, <1>9, <1>10, <1>11,
     <1>12, <1>13, <1>14, <1>15, <1>16, <1>17, <1>18 DEF Next

\* A link that was started twice stays so; until then the invariant holds.
LEMMA OwnInvUntilRestart ==
  ASSUME ~HasTimeout, TypeOK, Restarted \/ OwnInv, [Next]_vars
  PROVE  Restarted' \/ OwnInv'
<1>1. starts' \in {starts, starts + 1}
  BY DEF Next, Start, RetryTimer, StrayTimer, Send, Close, FinishFlushes, WaitConnected,
     WaiterMoves, NativeConnects, NativeFails, TimesOut, Resume, Ignored, LinkDrops, Notice,
     WriteReturns, Disconnect, vars, suspVars
<1>2. CASE Restarted
  BY <1>1, <1>2 DEF Restarted, TypeOK
<1>3. CASE OwnInv
  BY <1>3, StepKeepsOwnInv
<1> QED
  BY <1>2, <1>3

\* Two native connections of one link are never up together, whatever the platform,
\* until start() is called again, if no connect timeout abandons an attempt.
THEOREM NeverTwoLinks ==
  ASSUME ~HasTimeout
  PROVE  Spec => []OneNativeLink
<1>1. Init => TypeOK /\ (Restarted \/ OwnInv)
  BY InitOwnInv DEF OwnInv, IInv
<1>2. TypeOK /\ (Restarted \/ OwnInv) /\ [Next]_vars => TypeOK' /\ (Restarted \/ OwnInv)'
  BY TypeStep, OwnInvUntilRestart
<1>3. Restarted \/ OwnInv => OneNativeLink
  BY DEF OneNativeLink, OwnInv, Owners
<1> QED
  BY <1>1, <1>2, <1>3, PTL DEF Spec

\* What close() of a link without connect timeout leaves up in the plugin is only a
\* connection whose write had failed, whatever the platform, the drops and the order
\* of events, until start() is called again.
THEOREM CloseReleases ==
  ASSUME ~HasTimeout
  PROVE  Spec => []OnlyBrokenStaysUp
<1>1. Init => TypeOK /\ (Restarted \/ OwnInv)
  BY InitOwnInv DEF OwnInv, IInv
<1>2. TypeOK /\ (Restarted \/ OwnInv) /\ [Next]_vars => TypeOK' /\ (Restarted \/ OwnInv)'
  BY TypeStep, OwnInvUntilRestart
<1>3. TypeOK /\ (Restarted \/ OwnInv) => OnlyBrokenStaysUp
  <2> SUFFICES ASSUME TypeOK, OwnInv, Over, NEW s \in Slots, entry[s] = "up"
               PROVE  sink[s] = "broken"
    BY DEF OnlyBrokenStaysUp, Over
  <2>1. current = None /\ finishing = None /\ asked = {}
    BY DEF Over, OwnInv, IInv, Flags, StateTruthful
  <2>2. awaited = {}
    BY DEF Over, OwnInv, IInv, Listeners, TypeOK
  <2>3. Holds(s)
    BY DEF OwnInv, Owners
  <2> QED
    BY <2>1, <2>2, <2>3, SlotsAssumption DEF Holds
<1> QED
  BY <1>1, <1>2, <1>3, PTL DEF Spec

-----------------------------------------------------------------------------
\* Every step is a step of the contract, or leaves status and fails alone.
LEMMA StepRefines ==
  ASSUME MaxStarts <= 1, IInv, [Next]_vars
  PROVE  [Contract!ContractNext]_(Contract!contractVars)
<1> DEFINE Goal == [Contract!ContractNext]_(Contract!contractVars)
<1> USE DEF IInv, Contract!ContractNext, Contract!contractVars
<1>0. ASSUME state' = state, attempt' = attempt PROVE Goal
  BY <1>0
<1>1. ASSUME OnDropped, closed \/ awaited # {} \/ current # None PROVE Goal
  <2>1. CASE closed \/ retryPending
    BY <1>0, <1>1, <2>1 DEF OnDropped, linkVars
  <2>2. CASE ~(closed \/ retryPending)
    <3>1. state \in {"connecting", "reconnecting", "connected"}
      BY <1>1, <2>2 DEF Flags, StateTruthful
    <3>2. /\ attempt' = attempt + 1
          /\ state' = IF GivesUp(attempt') THEN "failed" ELSE "reconnecting"
      BY <1>1, <2>2, OnDroppedFacts
    <3> QED
      BY <3>1, <3>2 DEF Contract!Lose, Contract!Trying, Contract!GivesUp, GivesUp
  <2> QED
    BY <2>1, <2>2
<1>2. ASSUME SetState("closed"), ~closed \/ finishing # None, attempt' = attempt
      PROVE Goal
  BY <1>2 DEF SetState, Flags, Contract!Shut
<1>3. CASE Start
  <2>1. ~closed /\ starts = 0 /\ attempt' = 0
    BY <1>3, BoundAssumption DEF Start, TypeOK
  <2>2. state' = "connecting"
    BY <1>3, <2>1 DEF Start, Dial, SetState
  <2> QED
    BY <1>0, <2>1, <2>2 DEF Flags
<1>4. CASE RetryTimer
  BY <1>0, <1>4 DEF RetryTimer, Dial, SetState, Flags, TypeOK
<1>5. CASE StrayTimer
  BY <1>5 DEF StrayTimer, OneChain
<1>6. CASE Send
  BY <1>0, <1>6 DEF Send, linkVars
<1>7. CASE Close
  BY <1>0, <1>2, <1>7 DEF Close
<1>8. CASE FinishFlushes
  BY <1>0, <1>2, <1>8 DEF FinishFlushes
<1>9. CASE WaitConnected \/ WaiterMoves
  BY <1>0, <1>9 DEF WaitConnected, WaiterMoves, linkVars
<1>10. ASSUME NEW s \in Slots,
              \/ NativeConnects(s) \/ Ignored(s) \/ LinkDrops(s) \/ WriteReturns(s)
       PROVE Goal
  BY <1>0, <1>10 DEF NativeConnects, Ignored, LinkDrops, WriteReturns, linkVars
<1>11. ASSUME NEW s \in Slots, NativeFails(s) \/ TimesOut(s) PROVE Goal
  BY <1>0, <1>1, <1>11 DEF NativeFails, TimesOut, linkVars
<1>12. ASSUME NEW s \in Slots, Notice(s) PROVE Goal
  <2>1. s \in listening => current # None
    BY SlotsAssumption DEF Listeners
  <2> QED
    BY <1>0, <1>1, <1>12, <2>1 DEF Notice, linkVars
<1>13. ASSUME NEW s \in Slots, Resume(s) PROVE Goal
  <2>1. CASE closed
    BY <1>0, <1>13, <2>1 DEF Resume, linkVars
  <2>2. CASE ~closed
    <3>1. state \in {"connecting", "reconnecting"}
      BY <1>13, <2>2 DEF Resume, Flags
    <3>2. state' = "connected" /\ attempt' = 0
      BY <1>13, <2>2 DEF Resume, SetState
    <3> QED
      BY <3>1, <3>2 DEF Contract!Establish, Contract!Trying
  <2> QED
    BY <2>1, <2>2
<1>14. ASSUME NEW s \in Slots, Disconnect(s) PROVE Goal
  BY <1>0, <1>2, <1>14, SlotsAssumption DEF Disconnect
<1>15. CASE UNCHANGED vars
  BY <1>0, <1>15 DEF vars, linkVars
<1> QED
  BY <1>3, <1>4, <1>5, <1>6, <1>7, <1>8, <1>9, <1>10, <1>11, <1>12, <1>13,
     <1>14, <1>15 DEF Next

\* A link that is started once keeps the contract: it gives up only when the
\* retries since the last success are used up, and only success forgets them.
THEOREM ImplementsContract ==
  ASSUME MaxStarts <= 1
  PROVE  Spec => KeepsContract
<1>1. Init => IInv
  BY InitIInv
<1>2. IInv /\ [Next]_vars => IInv'
  BY OnceKeepsInv
<1>3. Init => Contract!ContractInit
  BY DEF Init, Contract!ContractInit
<1>4. IInv /\ [Next]_vars => [Contract!ContractNext]_(Contract!contractVars)
  BY StepRefines
<1> QED
  BY <1>1, <1>2, <1>3, <1>4, PTL DEF Spec, KeepsContract, Contract!Contract
=============================================================================
