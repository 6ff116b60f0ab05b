----------------------- MODULE ReconnectingConnection -----------------------
(***************************************************************************)
(* BtcReconnectingConnection (lib/src/btc_reconnecting_connection.dart):   *)
(* the link that redials itself.  Dart runs one event at a time, so an     *)
(* action is the code between two awaits: start(), a retry timer, the      *)
(* continuation of an awaited connector, a drop notice, close() and the    *)
(* two continuations of the finish() it awaits.                            *)
(*                                                                         *)
(* The platform side is reduced to what the link can observe of it: each   *)
(* connector call occupies a slot, whose entry is the plugin's native      *)
(* connection, and a drop reaches Dart as notices in flight.  The plugin   *)
(* forgets a connection whose link dropped sooner, later or never; Dart    *)
(* cannot tell, since it asks nothing of it but a disconnect whose error   *)
(* it swallows.  A slot is used again once it has no live link and nothing *)
(* refers to it, as a fresh connection id would.                           *)
(***************************************************************************)
EXTENDS Naturals, FiniteSets

CONSTANTS
    Slots,         \* connector calls that may be alive at the same time
    None,          \* Dart's null
    MaxAttempts,   \* BtcReconnectPolicy.maxAttempts
    NoLimit,       \* the value null of MaxAttempts
    HasTimeout,    \* connectTimeout is not null
    Notices,       \* drop notices Dart gets: state event, end of data
    MaxStarts,     \* bound: calls of start()
    AttemptBound   \* bound: _attempt, for a policy without limit

ASSUME SlotsAssumption == None \notin Slots
ASSUME PolicyAssumption == /\ MaxAttempts \in Nat \cup {NoLimit}
                           /\ NoLimit \notin Nat
                           /\ HasTimeout \in BOOLEAN
ASSUME PlatformAssumption == Notices \in Nat \ {0}
ASSUME BoundAssumption == MaxStarts \in Nat /\ AttemptBound \in Nat

VARIABLES
    \* fields of BtcReconnectingConnection
    closed,        \* _closed
    state,         \* _state
    attempt,       \* _attempt
    retryPending,  \* _retryPending
    timer,         \* _retryTimer is armed
    strays,        \* armed timers _retryTimer no longer refers to
    current,       \* _current
    \* suspended calls
    awaited,       \* slots whose connector call a _connect() awaits
    finishing,     \* connection whose finish() close() awaits
    waiter,        \* a caller of waitConnected()
    starts,        \* calls of start() so far
    \* connections
    listening,     \* connections _onDropped still listens to
    sink,          \* the write queue of a connection
    asked,         \* native disconnect requests in flight
    \* platform
    call,          \* native side of a connector call
    entry,         \* the plugin's connection: its link is up, or down
    news           \* drop notices on their way to Dart

linkVars == <<closed, state, attempt, retryPending, timer, strays, current>>
suspVars == <<awaited, finishing, waiter, starts>>
connVars == <<listening, sink, asked>>
platVars == <<call, entry, news>>
vars == <<linkVars, suspVars, connVars, platVars>>

States == {"connecting", "connected", "reconnecting", "failed", "closed"}

-----------------------------------------------------------------------------
Init ==
    /\ closed = FALSE /\ state = "connecting" /\ attempt = 0
    /\ retryPending = FALSE /\ timer = FALSE /\ strays = 0 /\ current = None
    /\ awaited = {} /\ finishing = None /\ waiter = "idle" /\ starts = 0
    /\ listening = {} /\ asked = {}
    /\ sink = [s \in Slots |-> "idle"]
    /\ call = [s \in Slots |-> "none"]
    /\ entry = [s \in Slots |-> "none"]
    /\ news = [s \in Slots |-> 0]

\* Nothing refers to the slot any more.
Unused(s) == /\ call[s] = "none" /\ entry[s] # "up" /\ news[s] = 0
             /\ sink[s] # "writing"
             /\ s # current /\ s # finishing
             /\ s \notin awaited \cup listening \cup asked

\* A faulty SetState: a link that gives up does not wake the caller.
SetStateNotFailed(st) ==
    /\ state' = st
    /\ waiter' = IF waiter # "waiting" THEN waiter
                 ELSE CASE st = "connected" -> "connected"
                        [] st = "closed" -> "threw"
                        [] OTHER -> "waiting"

\* _setState: the stream event it adds wakes a caller of waitConnected().
SetState(st) ==
    /\ state' = st
    /\ waiter' = IF waiter # "waiting" THEN waiter
                 ELSE CASE st = "connected" -> "connected"
                        [] st \in {"closed", "failed"} -> "threw"
                        [] OTHER -> "waiting"

\* _connect() up to its await; start() and the timers run it.
Dial(s) == /\ Unused(s)
           /\ SetState(IF attempt' = 0 THEN "connecting" ELSE "reconnecting")
           /\ awaited' = awaited \cup {s}
           /\ call' = [call EXCEPT ![s] = "dialing"]
           /\ entry' = [entry EXCEPT ![s] = "none"]
           /\ UNCHANGED <<closed, current, finishing, connVars, news>>

Start == /\ ~closed /\ starts < MaxStarts
         /\ starts' = starts + 1
         /\ attempt' = 0
         /\ \E s \in Slots : Dial(s)
         /\ UNCHANGED <<retryPending, timer, strays>>

GivesUp(n) == MaxAttempts # NoLimit /\ n > MaxAttempts

\* A faulty OnDropped: the timer is not armed.
OnDroppedIdle ==
    IF closed \/ retryPending
    THEN UNCHANGED <<linkVars, waiter, listening>>
    ELSE /\ attempt < AttemptBound
         /\ retryPending' = TRUE
         /\ listening' = listening \ {current}
         /\ current' = None
         /\ attempt' = attempt + 1
         /\ SetState(IF GivesUp(attempt') THEN "failed" ELSE "reconnecting")
         /\ UNCHANGED <<closed, timer, strays>>

\* _onDropped(), _teardownCurrent() included: nothing is asked of the plugin.
OnDropped ==
    IF closed \/ retryPending
    THEN UNCHANGED <<linkVars, waiter, listening>>
    ELSE /\ attempt < AttemptBound
         /\ retryPending' = TRUE
         /\ listening' = listening \ {current}
         /\ current' = None
         /\ attempt' = attempt + 1
         /\ IF GivesUp(attempt')
            THEN SetState("failed") /\ UNCHANGED <<timer, strays>>
            ELSE /\ SetState("reconnecting")
                 /\ timer' = TRUE
                 /\ strays' = IF timer THEN strays + 1 ELSE strays
         /\ UNCHANGED closed

\* The retry timer's callback.
RetryTimer == /\ timer
              /\ timer' = FALSE
              /\ retryPending' = FALSE
              /\ UNCHANGED <<attempt, strays, starts>>
              /\ \E s \in Slots : Dial(s)

\* A timer that a later one replaced; close() does not cancel it.
StrayTimer ==
    /\ strays > 0
    /\ strays' = strays - 1
    /\ retryPending' = FALSE
    /\ UNCHANGED <<attempt, timer, starts>>
    /\ \/ /\ closed
          /\ UNCHANGED <<closed, state, current, awaited, finishing, waiter,
                         connVars, platVars>>
       \/ /\ ~closed
          /\ \E s \in Slots : Dial(s)

-----------------------------------------------------------------------------
\* The platform answers a connector call.
NativeConnects(s) == /\ call[s] = "dialing"
                     /\ call' = [call EXCEPT ![s] = "answered"]
                     /\ entry' = [entry EXCEPT ![s] = "up"]
                     /\ UNCHANGED <<linkVars, suspVars, connVars, news>>

NativeFails(s) ==
    /\ call[s] = "dialing"
    /\ call' = [call EXCEPT ![s] = "none"]
    /\ awaited' = awaited \ {s}
    /\ IF s \in awaited THEN OnDropped
                        ELSE UNCHANGED <<linkVars, waiter, listening>>
    /\ UNCHANGED <<finishing, starts, sink, asked, entry, news>>

\* A faulty TimesOut: the call that was given up may still be adopted.
TimesOutAwaited(s) == /\ HasTimeout
                      /\ s \in awaited
                      /\ OnDropped
                      /\ UNCHANGED <<awaited, finishing, starts, sink, asked, platVars>>

\* future.timeout(): the call goes on, but nobody awaits it any more.
TimesOut(s) == /\ HasTimeout
               /\ s \in awaited
               /\ awaited' = awaited \ {s}
               /\ OnDropped
               /\ UNCHANGED <<finishing, starts, sink, asked, platVars>>

\* Faulty variants of Resume, after the connection is there: no _closed check;
\* no close() of a connection that came too late; _attempt not reset; drops
\* not listened to.
Adopt(s, n, subscribed) ==
    /\ current' = s
    /\ attempt' = n
    /\ retryPending' = FALSE
    /\ SetState("connected")
    /\ listening' = listening \cup subscribed
    /\ UNCHANGED <<closed, timer, strays, asked>>
Resumed(s) == /\ call[s] = "answered" /\ s \in awaited
              /\ call' = [call EXCEPT ![s] = "none"]
              /\ awaited' = awaited \ {s}
              /\ sink' = [sink EXCEPT ![s] = "idle"]
              /\ UNCHANGED <<finishing, starts, entry, news>>
ResumeBlind(s) == Resumed(s) /\ Adopt(s, 0, {s})
ResumeForgets(s) ==
    /\ Resumed(s)
    /\ IF closed THEN UNCHANGED <<linkVars, waiter, listening, asked>>
                 ELSE Adopt(s, 0, {s})
ResumeCounting(s) ==
    /\ Resumed(s)
    /\ IF closed
       THEN asked' = asked \cup {s} /\ UNCHANGED <<linkVars, waiter, listening>>
       ELSE Adopt(s, attempt, {s})
ResumeDeaf(s) ==
    /\ Resumed(s)
    /\ IF closed
       THEN asked' = asked \cup {s} /\ UNCHANGED <<linkVars, waiter, listening>>
       ELSE Adopt(s, 0, {})

\* _connect() resumes with a connection, or finds the link closed.
Resume(s) ==
    /\ call[s] = "answered" /\ s \in awaited
    /\ call' = [call EXCEPT ![s] = "none"]
    /\ awaited' = awaited \ {s}
    /\ sink' = [sink EXCEPT ![s] = "idle"]
    /\ IF closed
       THEN /\ asked' = asked \cup {s}
            /\ UNCHANGED <<linkVars, waiter, listening>>
       ELSE /\ current' = s
            /\ attempt' = 0
            /\ retryPending' = FALSE
            /\ SetState("connected")
            /\ listening' = listening \cup {s}
            /\ UNCHANGED <<closed, timer, strays, asked>>
    /\ UNCHANGED <<finishing, starts, entry, news>>

\* The answer to a call that timed out completes a future without listeners.
Ignored(s) == /\ call[s] = "answered" /\ s \notin awaited
              /\ call' = [call EXCEPT ![s] = "none"]
              /\ UNCHANGED <<linkVars, suspVars, connVars, entry, news>>

\* The peer goes away, or out of range.  The plugin reports it to whoever listens
\* by then: a drop before Dart's subscription is never reported.
LinkDrops(s) ==
    /\ entry[s] = "up"
    /\ entry' = [entry EXCEPT ![s] = "down"]
    /\ news' = [news EXCEPT ![s] = IF s = current THEN Notices ELSE 0]
    /\ UNCHANGED <<linkVars, suspVars, connVars, call>>

\* A faulty Notice: the subscription of a lost connection still acts.
NoticeStale(s) == /\ news[s] > 0
                  /\ news' = [news EXCEPT ![s] = @ - 1]
                  /\ OnDropped
                  /\ UNCHANGED <<awaited, finishing, starts, sink, asked, call, entry>>

\* A state event or the end of the data stream reaches its subscription.
Notice(s) == /\ news[s] > 0
             /\ news' = [news EXCEPT ![s] = @ - 1]
             /\ IF s \in listening THEN OnDropped
                                   ELSE UNCHANGED <<linkVars, waiter, listening>>
             /\ UNCHANGED <<awaited, finishing, starts, sink, asked, call, entry>>

-----------------------------------------------------------------------------
\* send(): a write on a queue whose write failed is never sent.
Send == /\ current # None /\ state = "connected"
        /\ sink[current] = "idle"
        /\ sink' = [sink EXCEPT ![current] = "writing"]
        /\ UNCHANGED <<linkVars, suspVars, listening, asked, platVars>>

\* The plugin answers a write; it may fail on a live link too.
WriteReturns(s) ==
    /\ sink[s] = "writing"
    /\ \E q \in {"idle", "broken"} : sink' = [sink EXCEPT ![s] = q]
    /\ UNCHANGED <<linkVars, suspVars, listening, asked, platVars>>

\* close() up to the await of finish().
Close ==
    /\ ~closed
    /\ closed' = TRUE
    /\ timer' = FALSE
    /\ listening' = listening \ {current}
    /\ finishing' = current
    /\ current' = None
    /\ IF current = None THEN SetState("closed") ELSE UNCHANGED <<state, waiter>>
    /\ UNCHANGED <<attempt, retryPending, strays, awaited, starts, sink, asked,
                   platVars>>

\* A faulty FinishFlushes: the error of finish() escapes from close().
FinishEscapes ==
    /\ finishing # None /\ finishing \notin asked
    /\ \/ /\ sink[finishing] = "idle"
          /\ asked' = asked \cup {finishing}
          /\ UNCHANGED finishing
       \/ /\ sink[finishing] = "broken"
          /\ finishing' = None
          /\ UNCHANGED asked
    /\ UNCHANGED <<linkVars, waiter, awaited, starts, listening, sink, platVars>>

\* finish() waits for the queue; after a failed write it throws.
FinishFlushes ==
    /\ finishing # None /\ finishing \notin asked
    /\ \/ /\ sink[finishing] = "idle"
          /\ asked' = asked \cup {finishing}
          /\ UNCHANGED <<state, waiter, finishing>>
       \/ /\ sink[finishing] = "broken"
          /\ finishing' = None
          /\ SetState("closed")
          /\ UNCHANGED asked
    /\ UNCHANGED <<closed, attempt, retryPending, timer, strays, current,
                   awaited, starts, listening, sink, platVars>>

\* The plugin disconnects, or knows no such connection; close() swallows the
\* error either way.
Disconnect(s) ==
    /\ s \in asked
    /\ asked' = asked \ {s}
    /\ entry' = [entry EXCEPT ![s] = "none"]
    /\ IF finishing = s THEN finishing' = None /\ SetState("closed")
                        ELSE UNCHANGED <<state, waiter, finishing>>
    /\ UNCHANGED <<closed, attempt, retryPending, timer, strays, current,
                   awaited, starts, listening, sink, call, news>>

\* A faulty WaitConnected: it takes a link that is reconnecting for one that
\* is connected.
WaitConnectedEarly ==
    /\ waiter = "idle"
    /\ waiter' = CASE state \in {"connected", "reconnecting"} -> "connected"
                   [] state \in {"closed", "failed"} -> "threw"
                   [] OTHER -> "waiting"
    /\ UNCHANGED <<linkVars, awaited, finishing, starts, connVars, platVars>>

\* waitConnected(): the early returns, or the wait for a state event.
WaitConnected ==
    /\ waiter = "idle"
    /\ waiter' = CASE state = "connected" -> "connected"
                   [] state \in {"closed", "failed"} -> "threw"
                   [] OTHER -> "waiting"
    /\ UNCHANGED <<linkVars, awaited, finishing, starts, connVars, platVars>>

\* The caller's own timeout, or the caller of waitConnected() goes on.
WaiterMoves == /\ waiter # "idle"
               /\ waiter' = IF waiter = "waiting" THEN "threw" ELSE "idle"
               /\ UNCHANGED <<linkVars, awaited, finishing, starts, connVars, platVars>>

-----------------------------------------------------------------------------
Next == \/ Start \/ RetryTimer \/ StrayTimer
        \/ Send \/ Close \/ FinishFlushes \/ WaitConnected \/ WaiterMoves
        \/ \E s \in Slots : \/ NativeConnects(s) \/ NativeFails(s) \/ TimesOut(s)
                            \/ Resume(s) \/ Ignored(s)
                            \/ LinkDrops(s) \/ Notice(s)
                            \/ WriteReturns(s) \/ Disconnect(s)

Spec == Init /\ [][Next]_vars

\* Timers fire, the event loop delivers what is queued, and the platform
\* answers connects, disconnects, and writes on a dropped link.  Users and
\* radios owe nothing, nor does a peer that takes no more data.
Fairness == /\ WF_vars(RetryTimer) /\ WF_vars(FinishFlushes)
            /\ \A s \in Slots : /\ WF_vars(NativeConnects(s) \/ NativeFails(s))
                                /\ WF_vars(Resume(s)) /\ WF_vars(Ignored(s))
                                /\ WF_vars(Notice(s)) /\ WF_vars(Disconnect(s))
                                /\ WF_vars(entry[s] # "up" /\ WriteReturns(s))

FairSpec == Spec /\ Fairness

-----------------------------------------------------------------------------
\* Every variable holds a value of its kind.
TypeOK ==
    /\ closed \in BOOLEAN /\ state \in States /\ attempt \in Nat
    /\ retryPending \in BOOLEAN /\ timer \in BOOLEAN /\ strays \in Nat
    /\ current \in Slots \cup {None} /\ finishing \in Slots \cup {None}
    /\ awaited \in SUBSET Slots
    /\ waiter \in {"idle", "waiting", "connected", "threw"}
    /\ starts \in 0..MaxStarts
    /\ listening \in SUBSET Slots /\ asked \in SUBSET Slots
    /\ sink \in [Slots -> {"idle", "writing", "broken"}]
    /\ call \in [Slots -> {"none", "dialing", "answered"}]
    /\ entry \in [Slots -> {"none", "up", "down"}]
    /\ news \in [Slots -> 0..Notices]

\* A link that was started once is served by one chain of events: an attempt
\* in flight, a live connection or an armed retry timer, never two of them.
\* A notice handled twice, or a timer that survives, would fork the chain and
\* open two connections to the device.
OneChain ==
    /\ \A s, t \in awaited : s = t
    /\ awaited # {} => ~timer /\ current = None
    /\ timer => current = None
    /\ strays = 0

\* currentState tells the truth: until close() it says connected exactly
\* while there is a connection to send on, it says reconnecting only if a
\* timer or an attempt is under way, and after close() nothing is armed.
StateTruthful ==
    /\ ~closed => (state = "connected" <=> current # None)
    /\ state = "reconnecting" => timer \/ awaited # {}
    /\ closed => ~timer /\ current = None

\* The only subscriptions alive are those of the current connection, and a
\* drop notice exists only for a link that is down and that no connector call
\* can bring up again under the same id.
Listeners ==
    /\ \A s \in listening : s = current
    /\ \A s \in Slots : /\ news[s] > 0 => call[s] = "none" /\ entry[s] # "up"
                        /\ s \in awaited => call[s] # "none"
    /\ current # None => call[current] = "none"

\* The fields agree: _retryPending is set exactly while a timer is armed or
\* the link has given up, an attempt in flight belongs to a link that is
\* trying, and finish() runs only inside close().
Flags ==
    /\ ~closed => /\ retryPending <=> timer \/ state = "failed"
                  /\ awaited # {} => state \in {"connecting", "reconnecting"}
                  /\ starts = 0 => state = "connecting"
                  /\ state # "closed"
    /\ closed => state \in {"connected", "closed"}
    /\ state = "failed" => awaited = {}
    /\ timer => state = "reconnecting" /\ attempt > 0
    /\ starts = 0 => awaited = {} /\ ~timer /\ current = None /\ attempt = 0
    /\ finishing # None <=> closed /\ state = "connected"

\* start() was called again: from there on what is said of one chain may fail,
\* since a second chain runs beside the first.
Restarted == starts > 1

\* Two native connections of one link that was started once are never up
\* together.
OneNativeLink ==
    ~Restarted => \A s, t \in Slots : entry[s] = "up" /\ entry[t] = "up" => s = t

\* close() of a link that was started once has completed, and what it found in
\* flight has ended.
Over == /\ state = "closed" /\ ~Restarted
        /\ asked = {}
        /\ \A s \in Slots : call[s] = "none"

\* Then the plugin holds no live connection of this link: "Stops reconnecting,
\* disconnects, and releases all resources" (l. 280).
ClosedReleasesAll == Over => \A s \in Slots : entry[s] # "up"

\* What remains of that promise without a connect timeout: whatever close() came
\* across, an attempt in flight, a drop, a late notice or finish(), the only
\* connection it may leave up is one whose write had failed, since finish() then
\* throws before it disconnects (btc_connection.dart 204-207).
OnlyBrokenStaysUp ==
    Over => \A s \in Slots : entry[s] = "up" => sink[s] = "broken"

\* close() is final: afterwards the state changes at most once more, to
\* closed, no connector is called, and no connection is adopted.
CloseIsFinal ==
    [][closed => /\ closed'
                 /\ state' \in {state, "closed"}
                 /\ awaited' \subseteq awaited
                 /\ current' = None]_vars

\* A connection is given up only because its link dropped or close() was
\* called: a late notice of an earlier connection, or the second notice of
\* the same drop, never tears down the one that replaced it.
OnlyDropsTearDown ==
    [][current # None /\ current' # current /\ ~closed'
       => entry[current] # "up" /\ current' = None]_vars

\* "Waits until the link is connected": unless close() is under way, a caller
\* of waitConnected() that gets through finds a connection to send on, not one
\* that was lost between the state event and its own turn.
WaiterGetsLinkWhileOpen ==
    [][waiter # "connected" /\ waiter' = "connected" /\ ~closed
       => current' # None]_vars

\* "A self-healing RFCOMM connection that transparently reconnects when the link
\* drops" (l. 12-13): a dropped connection does not stay the current one of a link
\* started once.
Heals == \A s \in Slots :
    current = s /\ entry[s] # "up" ~> current # s \/ Restarted

\* What remains of that promise: a drop that Dart was subscribed for is acted on,
\* whatever runs before its notices arrive.
ToldDropsHeal == \A s \in Slots :
    current = s /\ news[s] > 0 ~> current # s \/ Restarted

\* Trying ends: with a limit on retries, a link started once becomes
\* connected, gives up or is closed.
TryingEnds ==
    state \in {"connecting", "reconnecting"} /\ starts > 0
        ~> state \in {"connected", "failed", "closed"} \/ Restarted

\* finish() waits for a write the plugin has not answered.
AwaitsWrite == finishing # None /\ sink[finishing] = "writing"

\* close() completes, whatever it interrupts, also with the chains and stray timers
\* of several starts, unless the plugin never answers a write it waits for.
CloseCompletes == <>[](closed /\ state # "closed") => <>[]AwaitsWrite

\* A caller of waitConnected() on a link started once gets an answer even
\* without a timeout of its own (a limit on retries is assumed).
WaiterAnswered ==
    waiter = "waiting" /\ starts > 0 ~> waiter # "waiting" \/ Restarted

\* The link keeps its contract.
Contract == INSTANCE LinkContract WITH status <- state, fails <- attempt
KeepsContract == Contract!Contract
=============================================================================
