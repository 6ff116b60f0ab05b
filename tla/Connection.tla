----------------------------- MODULE Connection -----------------------------
(***************************************************************************)
(* One BtcConnection with its BtcStreamSink (lib/src/models), and the part *)
(* of a plugin that serves it.  Writes are chained: each is handed to the  *)
(* platform in a microtask after the one before it was answered.  The      *)
(* method channel is a FIFO whose messages the plugins handle one at a     *)
(* time on the platform thread, the first of them the constructor's call   *)
(* to listen; answers and state events travel back separately.             *)
(***************************************************************************)
EXTENDS Naturals, Sequences

CONSTANTS
    Callers,       \* callers of finish() or close(), each calling once
    MaxWrites      \* bound: calls of add()

ASSUME WritesAssumption == MaxWrites \in Nat

VARIABLES
    \* BtcConnection and BtcStreamSink
    state,       \* _state
    subscribed,  \* _stateSubscription listens to native events
    disposed,    \* dispose() was called
    sinkClosed,  \* _closed of the sink
    added,       \* writes chained so far, numbered from 1
    settled,     \* how many of their futures have completed
    handed,      \* how many were handed to the platform
    poisoned,    \* a write failed, and with it every later one
    phase,       \* where each caller of finish() or close() is
    first,       \* callers of finish() that found the sink open
    cut,         \* writes handed over when close() was first called
    \* the channel and the plugin
    channel,     \* method calls on their way to the plugin
    answers,     \* answers on their way to Dart
    events,      \* state events on their way to Dart
    plugin,      \* which plugin it is; it stays
    listened,    \* the call to listen to state events has arrived
    entry,       \* the plugin's connection
    posted,      \* state events posted so far
    delivered    \* writes the peer received, in order

dartVars == <<state, subscribed, disposed, sinkClosed, added, settled, handed, poisoned,
              phase, first, cut>>
pluginVars == <<plugin, listened, entry, posted, delivered>>
vars == <<dartVars, channel, answers, events, pluginVars>>

NoCut == MaxWrites + 1

Phases == {"idle", "flush", "finishing", "closing", "finished",
           "closed", "threw"}

Init == /\ state = "connected" /\ subscribed = TRUE /\ disposed = FALSE
        /\ sinkClosed = FALSE /\ poisoned = FALSE
        /\ added = 0 /\ settled = 0 /\ handed = 0
        /\ phase = [c \in Callers |-> "idle"] /\ first = {} /\ cut = NoCut
        /\ channel = <<>> /\ answers = <<>> /\ events = <<>>
        /\ plugin \in {"android", "linux"}
        /\ listened = FALSE /\ entry = "up" /\ posted = {} /\ delivered = <<>>

Write(n) == [kind |-> "write", arg |-> n]
DisconnectFor(c) == [kind |-> "disconnect", arg |-> c]

-----------------------------------------------------------------------------
\* BtcStreamSink.add(): one more link of the chain; on a chain that failed the new
\* future fails too.
Add == /\ ~sinkClosed /\ added < MaxWrites
       /\ added' = added + 1
       /\ settled' = IF poisoned THEN settled + 1 ELSE settled
       /\ UNCHANGED <<state, subscribed, disposed, sinkClosed, handed, poisoned, phase, first,
                      cut, channel, answers, events, pluginVars>>

\* The callback of then(), in a microtask: whoever called add() may go on before it.
HandOver == /\ ~poisoned /\ handed = settled /\ settled < added
            /\ handed' = handed + 1
            /\ channel' = Append(channel, Write(handed + 1))
            /\ UNCHANGED <<state, subscribed, disposed, sinkClosed, added, settled, poisoned,
                           phase, first, cut, answers, events, pluginVars>>

\* A faulty WriteAnswered: the chain goes on after a failed write.
WriteAnsweredOnward ==
    /\ answers # <<>> /\ Head(answers).kind = "write"
    /\ answers' = Tail(answers)
    /\ settled' = settled + 1
    /\ UNCHANGED <<state, subscribed, disposed, sinkClosed, added, handed, poisoned, phase,
                   first, cut, channel, events, pluginVars>>

\* The answer to a write completes its future, or fails every one chained after it.
WriteAnswered ==
    /\ answers # <<>> /\ Head(answers).kind = "write"
    /\ answers' = Tail(answers)
    /\ IF Head(answers).ok
       THEN settled' = settled + 1 /\ UNCHANGED poisoned
       ELSE settled' = added /\ poisoned' = TRUE
    /\ UNCHANGED <<state, subscribed, disposed, sinkClosed, added, handed, phase, first, cut,
                   channel, events, pluginVars>>

\* finish() up to its first await that waits: a sink already closed is not
\* waited for, and the disconnect request goes out at once.
CallFinish(c) ==
    /\ phase[c] = "idle" /\ ~disposed
    /\ state' = "disconnecting"
    /\ sinkClosed' = TRUE
    /\ IF sinkClosed
       THEN /\ phase' = [phase EXCEPT ![c] = "finishing"]
            /\ channel' = Append(channel, DisconnectFor(c))
            /\ UNCHANGED first
       ELSE /\ phase' = [phase EXCEPT ![c] = "flush"]
            /\ first' = first \cup {c}
            /\ UNCHANGED channel
    /\ UNCHANGED <<subscribed, disposed, added, settled, handed, poisoned, cut, answers, events,
                   pluginVars>>

\* A faulty Flushed: _lastWrite is not awaited.
FlushedAtOnce(c) ==
    /\ phase[c] = "flush"
    /\ phase' = [phase EXCEPT ![c] = "finishing"]
    /\ channel' = Append(channel, DisconnectFor(c))
    /\ UNCHANGED <<state, subscribed, disposed, sinkClosed, added, settled, handed, poisoned, first,
                   cut, answers, events, pluginVars>>

\* The await of _lastWrite ends; it throws when a write failed.
Flushed(c) ==
    /\ phase[c] = "flush" /\ settled = added
    /\ IF poisoned
       THEN phase' = [phase EXCEPT ![c] = "threw"] /\ UNCHANGED channel
       ELSE /\ phase' = [phase EXCEPT ![c] = "finishing"]
            /\ channel' = Append(channel, DisconnectFor(c))
    /\ UNCHANGED <<state, subscribed, disposed, sinkClosed, added, settled, handed, poisoned, first,
                   cut, answers, events, pluginVars>>

\* close(): does not wait, and does not stop the chain either.
CallClose(c) ==
    /\ phase[c] = "idle" /\ ~disposed
    /\ state' = "disconnecting"
    /\ sinkClosed' = TRUE
    /\ phase' = [phase EXCEPT ![c] = "closing"]
    /\ channel' = Append(channel, DisconnectFor(c))
    /\ cut' = IF cut = NoCut THEN handed ELSE cut
    /\ UNCHANGED <<subscribed, disposed, added, settled, handed, poisoned, first, answers, events,
                   pluginVars>>

\* Faulty variants of DisconnectAnswered: the subscription is not cancelled;
\* the state is not set.
DisconnectListening ==
    /\ answers # <<>> /\ Head(answers).kind = "disconnect"
    /\ answers' = Tail(answers)
    /\ state' = IF Head(answers).ok THEN "disconnected" ELSE state
    /\ phase' = [phase EXCEPT ![Head(answers).arg] =
                    IF ~Head(answers).ok THEN "threw"
                    ELSE IF @ = "closing" THEN "closed" ELSE "finished"]
    /\ UNCHANGED <<subscribed, disposed, sinkClosed, added, settled, handed, poisoned, first, cut,
                   channel, events, pluginVars>>
DisconnectMute ==
    /\ answers # <<>> /\ Head(answers).kind = "disconnect"
    /\ answers' = Tail(answers)
    /\ subscribed' = (subscribed /\ ~Head(answers).ok)
    /\ phase' = [phase EXCEPT ![Head(answers).arg] =
                    IF ~Head(answers).ok THEN "threw"
                    ELSE IF @ = "closing" THEN "closed" ELSE "finished"]
    /\ UNCHANGED <<state, disposed, sinkClosed, added, settled, handed, poisoned, first, cut,
                   channel, events, pluginVars>>

\* The disconnect request of finish() or close() was answered.
DisconnectAnswered ==
    /\ answers # <<>> /\ Head(answers).kind = "disconnect"
    /\ answers' = Tail(answers)
    /\ LET c == Head(answers).arg IN
       IF Head(answers).ok
       THEN /\ state' = "disconnected"
            /\ subscribed' = FALSE
            /\ phase' = [phase EXCEPT ![c] =
                            IF @ = "closing" THEN "closed" ELSE "finished"]
       ELSE /\ phase' = [phase EXCEPT ![c] = "threw"]
            /\ UNCHANGED <<state, subscribed>>
    /\ UNCHANGED <<disposed, sinkClosed, added, settled, handed, poisoned, first, cut, channel,
                   events, pluginVars>>

\* dispose(): "after calling this, the connection object should not be
\* reused", so no finish() or close() is called later.
Dispose == /\ ~disposed
           /\ disposed' = TRUE
           /\ subscribed' = FALSE
           /\ sinkClosed' = TRUE
           /\ UNCHANGED <<state, added, settled, handed, poisoned, phase, first, cut,
                          channel, answers, events, pluginVars>>

\* A native state event reaches _stateSubscription, if it still listens.
EventArrives == /\ events # <<>>
                /\ events' = Tail(events)
                /\ state' = IF subscribed THEN Head(events) ELSE state
                /\ UNCHANGED <<subscribed, disposed, sinkClosed, added, settled, handed, poisoned,
                               phase, first, cut, channel, answers, pluginVars>>

-----------------------------------------------------------------------------
\* A plugin posts each state event once per connection; without a listener Android
\* drops it, and on Linux it may be lost.
Post(ev) ==
    /\ posted' = posted \cup {ev}
    /\ \/ /\ ev \notin posted /\ (listened' \/ plugin = "linux")
          /\ events' = Append(events, ev)
       \/ /\ ev \in posted \/ ~listened'
          /\ UNCHANGED events

\* The call to listen that the constructor made, ahead of every other call.
Listen == /\ ~listened
          /\ listened' = TRUE
          /\ IF plugin = "linux" THEN UNCHANGED <<events, posted>> ELSE Post("connected")
          /\ UNCHANGED <<dartVars, channel, answers, plugin, entry, delivered>>

Answer(m, ok) ==
    answers' = Append(answers, [kind |-> m.kind, arg |-> m.arg, ok |-> ok])

\* A faulty HandleWrite: it writes without looking the connection up.
HandleWriteUnchecked ==
    /\ listened /\ channel # <<>> /\ Head(channel).kind = "write"
    /\ channel' = Tail(channel)
    /\ delivered' = Append(delivered, Head(channel).arg)
    /\ Answer(Head(channel), TRUE)
    /\ UNCHANGED <<dartVars, events, plugin, listened, entry, posted>>

\* The plugin's write handler.  A write on a dead or unknown connection fails,
\* and one on a live connection may fail too.
HandleWrite ==
    /\ listened /\ channel # <<>> /\ Head(channel).kind = "write"
    /\ channel' = Tail(channel)
    /\ \/ /\ entry = "up"
          /\ delivered' = Append(delivered, Head(channel).arg)
          /\ Answer(Head(channel), TRUE)
       \/ /\ UNCHANGED delivered
          /\ Answer(Head(channel), FALSE)
    /\ UNCHANGED <<dartVars, events, plugin, listened, entry, posted>>

\* A faulty HandleDisconnect: the socket is closed, the entry stays.
HandleDisconnectKeeps ==
    /\ listened /\ channel # <<>> /\ Head(channel).kind = "disconnect"
    /\ channel' = Tail(channel)
    /\ entry' = IF entry = "up" THEN "down" ELSE entry
    /\ Answer(Head(channel), entry # "none" \/ plugin = "linux")
    /\ UNCHANGED <<dartVars, plugin, listened, delivered>>
    /\ IF entry = "none" THEN UNCHANGED <<events, posted>>
                         ELSE Post("disconnected")

\* The plugin's disconnect handler; closing the socket ends the reader, which
\* posts "disconnected" unless it was posted already.
HandleDisconnect ==
    /\ listened /\ channel # <<>> /\ Head(channel).kind = "disconnect"
    /\ channel' = Tail(channel)
    /\ entry' = "none"
    /\ Answer(Head(channel), entry # "none" \/ plugin = "linux")
    /\ UNCHANGED <<dartVars, plugin, listened, delivered>>
    /\ IF entry = "none" THEN UNCHANGED <<events, posted>>
                         ELSE Post("disconnected")

\* Linux: whoever made the connection posts its state.
PostConnected == /\ plugin = "linux" /\ "connected" \notin posted
                 /\ UNCHANGED <<dartVars, channel, answers, plugin, listened, entry, delivered>>
                 /\ Post("connected")

\* The link drops and the reader notices; Android's starts with a call to listen.
LinkDrops == /\ entry = "up"
             /\ listened \/ plugin = "linux"
             /\ entry' = "down"
             /\ UNCHANGED <<dartVars, channel, answers, plugin, listened, delivered>>
             /\ Post("disconnected")

\* Android's ACTION_ACL_DISCONNECTED receiver closes and removes the connection,
\* also one Dart does not listen to yet.
Reap == /\ plugin = "android" /\ entry # "none"
        /\ entry' = "none"
        /\ UNCHANGED <<dartVars, channel, answers, plugin, listened, delivered>>
        /\ Post("disconnected")

-----------------------------------------------------------------------------
Next == \/ Add \/ HandOver \/ WriteAnswered \/ DisconnectAnswered \/ Dispose \/ EventArrives
        \/ \E c \in Callers : CallFinish(c) \/ Flushed(c) \/ CallClose(c)
        \/ Listen \/ HandleWrite \/ HandleDisconnect \/ PostConnected \/ LinkDrops \/ Reap

Spec == Init /\ [][Next]_vars

\* Dart's event loop and the platform thread go on, and a write on a dropped link
\* ends; users, radios, the ACL broadcast and a peer that takes no data owe nothing.
Fairness == /\ WF_vars(HandOver) /\ WF_vars(WriteAnswered) /\ WF_vars(DisconnectAnswered)
            /\ WF_vars(EventArrives) /\ WF_vars(Listen) /\ WF_vars(PostConnected)
            /\ WF_vars(entry # "up" /\ HandleWrite) /\ WF_vars(HandleDisconnect)
            /\ \A c \in Callers : WF_vars(Flushed(c))

FairSpec == Spec /\ Fairness

-----------------------------------------------------------------------------
\* Every variable holds a value of its kind.
TypeOK ==
    /\ state \in {"connected", "disconnecting", "disconnected"}
    /\ subscribed \in BOOLEAN /\ disposed \in BOOLEAN
    /\ sinkClosed \in BOOLEAN /\ poisoned \in BOOLEAN
    /\ added \in 0..MaxWrites /\ settled \in 0..added /\ handed \in 0..added
    /\ plugin \in {"android", "linux"} /\ listened \in BOOLEAN /\ cut \in 0..NoCut
    /\ phase \in [Callers -> Phases] /\ first \in SUBSET Callers
    /\ channel \in Seq([kind : {"write"}, arg : 1..MaxWrites]
                       \cup [kind : {"disconnect"}, arg : Callers])
    /\ events \in Seq({"connected", "disconnected"})
    /\ entry \in {"up", "down", "none"}
    /\ posted \in SUBSET {"connected", "disconnected"}
    /\ delivered \in Seq(1..MaxWrites)

\* "Writes are queued and delivered in order" (BtcStreamSink): what the peer
\* has is a prefix of what was added, even when a write in the middle failed,
\* and a future that completed without error is a write the peer received.
DeliveredIsPrefix ==
    /\ \A i \in 1..Len(delivered) : delivered[i] = i
    /\ ~poisoned => settled <= Len(delivered)

\* A finish() that closed the sink itself and returned normally left no write
\* behind, whatever other calls of finish(), close() and dispose() did.
FirstFinishFlushes ==
    \A c \in first : phase[c] = "finished" => Len(delivered) = added

\* "Immediately disconnects, discarding any pending writes": a write not yet
\* handed to the platform when close() is called never goes out, although the
\* chain that holds it is not cancelled.
CloseDiscards == cut # NoCut => Len(delivered) <= cut

\* A finish() or close() that returned normally has released the native
\* connection, and nothing brings it back.
ReturnedIsReleased ==
    (\E c \in Callers : phase[c] \in {"finished", "closed"}) => entry = "none"

\* A connection reported disconnected is never reported connected again by Android's
\* plugin; by the one for Linux it may be, whose reader may drop the link before the
\* thread that made the connection posts "connected".
DeadStaysDead ==
    [][plugin = "android" /\ state = "disconnected" => state' # "connected"]_vars

\* The platform thread is at a write that the peer does not take.
WriteStuck == entry = "up" /\ channel # <<>> /\ Head(channel).kind = "write"

\* Unless that lasts for ever, close() comes to an end: in the state disconnected, or
\* by throwing, which Android does when the connection was already removed.
CloseSettles ==
    []<>~WriteStuck =>
        \A c \in Callers :
            phase[c] = "closing" ~> state = "disconnected" \/ phase[c] = "threw"
=============================================================================
