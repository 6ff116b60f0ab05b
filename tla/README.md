# Verification of flutter_classic_bluetooth

TLA+ models of the Bluetooth Classic plugin in this repository, the TLC
configurations that check them on small instances, and TLAPS proofs of what the
reconnecting link, the connect loop, a connection with its sink, the frame splitters, the
Linux and the Windows plugin's sockets, the Linux plugin's scan timers, scan results and
adapter state, and Android's permission requests and dialogs promise for all instances.

Paths below are relative to the repository's root; `R`, `API`, `B` and so on
abbreviate the files of the table that follows.

| short | file |
|---|---|
| R | `lib/src/btc_reconnecting_connection.dart` |
| POL | `lib/src/models/btc_reconnect_policy.dart` |
| API | `lib/src/flutter_classic_bluetooth.dart` |
| B, S | `lib/src/models/btc_connection.dart`, `btc_stream_sink.dart` |
| F, G | `lib/src/btc_frame_splitter.dart`, `btc_length_frame_splitter.dart` |
| AP | `android/.../FlutterClassicBluetoothPlugin.kt` |
| PM, ARM | `android/.../PermissionManager.kt`, `ActivityResultManager.kt` |
| CW, ACL | `android/.../BluetoothConnectionWrapper.kt`, `receivers/AclDisconnectReceiver.kt` |
| L, LC, LS | `linux/flutter_classic_bluetooth_plugin.cc`, `bluetooth_connection.h`, `bluetooth_server.h` |
| LD, LA, LH | `linux/bluetooth_dbus.h`, `bluetooth_agent.h`, `bluetooth_helper.h` |
| W, WC | `windows/flutter_classic_bluetooth_plugin.cpp`, `bluetooth_connection.cpp` |
| WS, WH | `windows/bluetooth_server.cpp`, `flutter_classic_bluetooth_plugin.h` |

## 1. Inventory

### How the parts fit together

A Dart isolate runs one event at a time; what may interleave is the code
between two `await`s. It talks to one plugin per platform over a method channel
(FIFO; handlers run on the platform thread) and hears back through answers and
through event channels. Behind the plugins there are threads of their own:
readers, accept loops, inquiries, which hand their events to the platform
thread. So the hard behaviours are of three kinds: Dart continuations that
resume in a state other than the one they left (a connect that answers after
its timeout, a `close()` that lands during an attempt), events about one thing
that are overtaken by or applied to the next (drop notices, timers, scan
threads), and native work that nobody waits for any more.

### Components

| component | state | operations | talks to | correct when |
|---|---|---|---|---|
| Reconnecting link (R, POL) | `_closed`, `_state`, `_attempt`, `_retryPending`, `_retryTimer`, `_current`, subscriptions | `start`, `_connect`, `_onDropped`, retry timer, `waitConnected`, `send`, `close` | a connector function, `BtcConnection` | one chain of events at a time; the state is true; an old connection's notice never hurts the new one; `close()` is final, completes and releases everything; trying ends |
| connect / connectWithRetry (API 400-520) | loop counter, `timedOut` flag of each attempt | `connect`, timeout, late answer, backoff | method channel, `BtcConnection.close` | every connection is returned or taken down; the call ends |
| Connection and sink (B, S) | `_state`, `_stateSubscription`, `_closed`, `_lastWrite` | `add`, `finish`, `close`, `dispose`, `sendAndReceive`, `readRssi` | method channel, state events | order and completeness of writes; what `finish()` and `close()` promise when they overlap and when writes fail |
| Frame splitters (F, G) | `buffer`, `scanned` | `onData`, `onDone`, `frame` | any byte stream | independent of chunking; bounded memory |
| Android permissions and dialogs (PM, ARM) | `pendingResult`, `pendingScopes`, `pendingWantsStatus`, persisted "asked" flags; `pendingResult` of the second dialog | `requestPermissions`, `requestPermissionsForStatus`, `ensurePermissions`, the two result callbacks, attach, detach | Android | no call orphaned, replies that agree with what is held |
| Android plugin (AP, CW, ACL) | connections, servers, receivers | connect, write, disconnect, servers, bonding | sockets, broadcasts | entries live exactly as long as their links |
| Linux plugin, sockets (L, LC, LS) | connection and server maps; of each object its `socket_` and `running_`; SDP sessions; a mutex per map | connect, write, disconnect, start and stop of a server, dispose | a reader thread per connection, an accept thread per server, the kernel's descriptors | every descriptor has one owner; accept and reader threads never act for an object that was replaced; clients and drops are told |
| Linux plugin, BlueZ (L, LD, LA) | `discovering`, the registration of the agent, listeners | power, discovery, bond, unbond, snapshots, signals, agent calls | BlueZ over D-Bus, from one main loop | the last adapter state is the true one; results belong to a scan and none is missed; no call and no pairing waits for ever |
| Windows plugin (W, WC, WS) | the same maps, `connected_`, and a dispatcher with a window and a queue | as on Linux, by threads that post tasks | threads that hold the dispatcher weakly | a live socket is in one place on its way to the map; every call of connect() is answered; the plugin may be destroyed at any time |
| Discovery (L 380-480, W 340-440) | one flag, a session counter, timers, threads | start, stop, auto-stop, end of an inquiry | event channel | a scan ends, Dart hears of it, and an old scan's leftovers spare the new one |
| Server sockets (in the rows above; Android's wrapper) | accept thread, channel per server | start, accept, stop | threads | nobody is accepted to nobody |
| macOS, iOS plugins | sessions, delegates | delegate callbacks | IOBluetooth, ExternalAccessory | each delegate call meets a live session |
| Method channel, scan results, receivers, enums, example, tests | little or none | forwarding, merging, translation | | see "not modelled" |

`PROJECT.json` lists each with its source files, and the hazards at their lines.

## 2. Plan

Order: the reconnecting link first, since it is the one component whose state
machine spans Dart, the plugin and the radio at once; then the two things it
stands on (connect loop, connection), then the native parts with shared flags.

1. `LinkContract` (abstract) and `ReconnectingConnection`, with its proofs: done.
2. `RetryingConnect`, with its proofs: done.
3. `Connection`, with its proofs: done for one connection against Android's or Linux's plugin.
4. `FrameSplitter`, `LengthFrameSplitter`, and `Splitters`, which runs either, with its proofs:
   done.
5. `AndroidPrompts`, with its proofs: done.
6. `Discovery`: done for Linux and Windows, with its proof.
7. `LinuxSockets`: connections, servers, descriptors and threads of the Linux plugin,
   with its proofs: done.
8. `WindowsSockets`: the same for Windows and its dispatcher, with its proofs: done.
9. `LinuxRadio`: adapter, devices and pairing over D-Bus, with its proof: done.
10. Android's server and the restart of its reader (a second listener).
11. `SharedScan`: `scan()` with concurrent callers over `Discovery`, `mergedWith()`.
12. The Apple plugins' delegates; the method channel's error mapping; `setDiscoverable()`
    and its timer.
13. Composition: `Connection`'s plugin refined by `LinuxSockets`, and
    `ReconnectingConnection`'s slots by `Connection`'s entry.

Every invariant that a passing run checks is proved, and every action property; what is left to prove
comes with the modules above.

## 3. Modules and the code

Every module keeps the source's names. An operator called a *faulty variant* is a
mutation used to test that a property can fail; no specification uses it.

**LinkContract** is what a user of the link relies on: a status and a count of
consecutive losses, with three moves: establish (count back to 0), lose (count up,
give up beyond the limit), shut (final).

**ReconnectingConnection** is R. One action is the code between two awaits:
`Start`, `RetryTimer` and `Dial` (start() and `_connect()` up to the connector),
`Resume` / `NativeFails` / `TimesOut` (the continuation of the awaited connector),
`Notice` (a drop event reaching a subscription), `OnDropped` (`_onDropped` with
`_teardownCurrent`), `Close` and `FinishFlushes` and `Disconnect` (`close()` and what
it awaits), `WaitConnected`, `Send`. `strays` counts timers that are armed although
`_retryTimer` no longer refers to them. Each connector call occupies a *slot*, whose
`entry` is the plugin's native connection. A drop is noticed only if Dart has the connection by
then (`LinkDrops`): Android's wrapper reports it to the sink of a listener and Linux to a channel,
and neither keeps it for one that comes later. Whether the plugin forgets a connection whose link
dropped makes no difference to Dart, which asks nothing of it but a disconnect whose error it
swallows, so that `entry` may stay `"down"`. A write may fail while the link is up (`WriteReturns`),
as the write handler of each plugin may answer an error at any time. `Notices` is how many notices a
drop produces.

**RetryingConnect** is `connect()` and `connectWithRetry()`. `TimesOut` sets the
attempt's flag, `Arrives` is the listener on the native future, which closes a late
connection, `Closes` the plugin's disconnect.

**Connection** is B and S with the plugin's side: `channel` is the FIFO of method calls,
`answers` and `events` travel back separately. `Add`, `HandOver`, `WriteAnswered` are the chain of
`_lastWrite`, whose next link runs in a microtask: a `close()` in the same turn as `add()` comes
before it. `Listen` is the constructor's call to listen to state events, before which Android reports
to nobody; the ACL receiver may close the connection before that. `CallFinish`, `Flushed`,
`CallClose` and `DisconnectAnswered` are the two ways to disconnect; `HandleWrite`,
`HandleDisconnect`, `LinkDrops`, `Reap` the plugin. `plugin` is chosen at the start and stays:
Android's posts "connected" when Dart listens and forgets a connection the ACL receiver closed, that
of Linux starts the reader and then posts (`PostConnected`), and keeps the entry until asked.

**AndroidPrompts** is PM and ARM. A method call is a status request, an action that needs
permissions, or one that then opens a second dialog; Android's own record of grants and
refusals is external. `Detach` may take the dialogs along with the activity, and with them the
results the managers wait for (`Abandoned`).

**Discovery** is `startDiscovery` to the end of a scan, for BlueZ (`"bus"`), raw HCI
(`"hci"`) and Windows (`"windows"`), which share one flag. `bluez` is whether BlueZ itself
scans for the plugin, which outlasts the flag when that is cleared by the wrong scan. Its
names begin with `Scan` where `RetryingConnect` has the same ones: one module proves about both.

**LinuxSockets** is L's maps with LC and LS. A method handler is one action unless it blocks
or gives up the mutex: connect and write begin and end, disconnect and stop close the object
and then erase it. Readers and accept threads are followed from step to step (`Loads`, `Reads`,
`Leaves`; `Looks`, `Accepts`, `Registers`, `Announces`), since what `socket_` and `running_` say and
what a loaded descriptor names may change in between. Descriptors are numbers and the kernel gives
the lowest free one, which makes reuse happen; an old accept thread may take the client of a later
server. An event goes to Dart whether or not Dart listens: `heard` has the clients of a server that
reached a listener and `missed` those that did not, and a connection Dart has no object for loses its
"disconnected" (`Delivers`). `heir` says whose
memory an object's address holds by now: undefined behaviour of a thread that uses its
deleted object is a choice between what `Close()` left and, with `Recycles`, the next
object. `MutexFree` is `connections_mutex`, held by a write until the peer has taken it.

**WindowsSockets** is the same for W, WC and WS. `thread[c]` is the thread that works for a
socket: it connects, holds a client or reads, then locks the dispatcher (`Locks`), posts
(`Posts`) and gives it up; `Drain` runs one task on the platform thread. `Handles` are SOCKET values,
which the system uses again: a reader loads one (`Loads`) and receives on whatever it names by then
(`Reads`). With `Recycles`, the next connection may be made in the memory of one that was deleted under
its reader (`heir`), which then clears the `connected_` of the new one (`ReaderEnds`, `robbed`).
`plugin` and `window` follow the destruction while threads are still posting, and `DrainLate` what
the window then runs: a task that adopts a socket uses the deleted plugin, and the message to a window
whose dispatcher is gone the deleted dispatcher. From there on (`"broken"`) anything may happen.

**LinuxRadio** is what L does with BlueZ through LD and LA: `bus` holds signals and agent
calls until the main loop is idle, `posted` the events for Dart; `BondDevice` and `PairingEnds`
or `PairTimesOut` are the two ends of the synchronous `Pair` call, during which the loop
serves nothing. A device that is removed takes its pairing along; what was asked about it stays
on the bus, as a message that is `"void"`, until the agent answers it to nobody. The calls and the
snapshot are about the first adapter, the power signals about any (`OtherPowerChanges`, `other`). What
is sent on a channel Dart does not listen to is lost (`listening`, `Deliver`). BlueZ, its radio and other
programs are external.

**FrameSplitter**, **LengthFrameSplitter** are the stream transformers, loop and all, as
recursive functions (`Cut`, `Parse`); the second with a sender that uses `frame()`, and with the
powers of the base as a recursive function too, since the code's shifts are multiplications.
**Splitters** runs either of them while the other stays as it is.

`MC...` modules add the sets and symmetries TLC needs. `..._proofs` modules hold the
theorems.

## 4. What the runs check

Runs that must pass:

| run | instance | what it shows |
|---|---|---|
| LinkSafety | 3 slots (two abandoned calls and a live one), 2 retries, timeout, 2 notices per drop, start() once | `OneChain`, `StateTruthful`, `OnlyDropsTearDown`, `WaiterGetsLinkWhileOpen`, and that the link implements `LinkContract` |
| LinkLiveness | 2 slots, 2 retries, no timeout, start() up to twice | `CloseIsFinal`, and `close()` completes, also with a second chain; with one, at most one native link, nothing left up but a connection whose write failed, a drop that Dart was subscribed for is acted on, trying ends, waiters are answered |
| RetryTimeout | 4 attempts | late connections are closed, never returned, never lost; the call ends |
| Connections | 3 writes, 2 callers of finish()/close(), Android's plugin and the one of Linux | order and completeness of writes; finish() and close() overlapping each other, dispose() and drops |
| Splitters | self-overlapping 3-byte delimiter, cap 4, all streams of 9 bytes, chunks to 4; base 3, 2-digit prefix that counts itself, payloads at the limits, noise | every delimiter found, every byte accounted for; what is framed comes out again; both buffers are bounded |
| Prompts | 2 calls, 2 permissions, activities that are recreated or lost | nobody orphaned, true replies, every call answered unless its dialog went with its activity |
| ScanLinux | 4 scans by BlueZ or HCI | a stale timer spares a newer BlueZ scan; every scan ends and Dart hears of it |
| LinuxSockets | 2 connections, 1 server, 3 descriptors, memory used again | descriptors have one owner; once the calls have returned, accepted clients are announced and drops are told by readers whose object may be gone |
| WindowsSockets | 2 sockets, 2 handles, 1 server, memory used again, destruction at any time | a live socket is in one thread, task or entry and can be closed, unless an old reader took it for its own; if the window is served, every connect() is answered, and clients are announced also after stopServer |
| LinuxRadio | 1 device, a second adapter, 2 messages waiting, an app that listens or not | the last adapter state is true once nothing is on its way; results are sent within a scan and an app that listens misses no known device; the agent answers although `Pair` blocks its loop |

Runs that must find a violation, each a disagreement between the code and its
documentation:

| run | property | what happens |
|---|---|---|
| TimeoutLeaks | `ClosedReleasesAll` | R gives up a connector's future at the timeout (R 116) and drops what it brings; `close()` "releases all resources" (R 280) |
| BusScanLeaks | `BusScanEnds` | an HCI scan is stopped and a BlueZ scan started; the HCI thread ends and clears the flag (L 447); the BlueZ scan's timer, which "ends a BlueZ discovery scan once the bounded window elapses" (L 362), finds the flag cleared and lets BlueZ scan on |

### Bounds, and why they are enough

- `Slots`: two attempts that outlive their timeouts and a current connection are
  three; a fourth would repeat the second. A slot is used again only when nothing
  refers to it, which is what a fresh connection id amounts to.
- `AttemptBound` caps `_attempt`: it is one above the limit on retries, so it excludes
  nothing.
- `MaxStarts`, `MaxWrites`, `MaxScans`, `MaxInput`, `MaxFrames`, `MaxChunk` bound how often
  the environment acts. Three writes give a chain with a first, a middle and a last
  element; four scans let a timer outlive two of its successors. Nine bytes hold three
  delimiters, or two that share bytes and straddle three chunks.
- Two callers suffice for each pair of re-entrant requests or of finish() and close().
- LinuxSockets: two connections are what stealing takes, an old reader and the connection
  that inherits its descriptor or its memory; with a server and three descriptors every
  socket may be open at once. A second server could not listen: all ask for RFCOMM
  channel 1 (LS). The proof of `SocketsOwned` needs no bound.
- WindowsSockets: two sockets give one thread that posts while another has locked the
  dispatcher or is about to, and an old reader with the connection that got its handle or its memory; a
  socket is used once. The proof of `SocketsOwned` needs no bound.
- LinuxRadio: one device, since nothing relates two; `Room` lets a signal and another, or an agent's
  request and a signal, wait together behind a blocked call, and a snapshot overtake them. The order in
  which the loop serves the bus, posted events and method calls is left open. The proofs of `AdapterTruth`
  and `ResultsWithinScan` need no bound.
- A base of 3 instead of 256 keeps the prefix's arithmetic and makes its limit reachable.

`CHECK_DEADLOCK FALSE` stands where the system may really stop: a connection that was
closed, a call that returned, an input that ended, scans that are used up.

### Fairness

Weak fairness on Dart's continuations, timers and queued events (the event loop runs
what is ready); on the platform's answers to connect and disconnect, which every handler sends exactly
once, except that in RetryTimeout a native connect may hang for ever. No plugin gives a write a timeout,
so a write is answered for certain only on a link that is down: `CloseCompletes` and `CloseSettles`
except a `close()` that waits for ever behind a write the peer does not take. The users of the library,
the radio and Android's broadcasts are not fair. In `AndroidPrompts` the dialogs are modal, so a user
who goes on with the app answers them: strong fairness, since the activity may come and go in between; a
restart answers every call by ending it. In LinkLiveness the platform does answer a pending connect;
without that and without a timeout the link waits for ever, by design.

Threads of the Linux and Windows plugins run (weak fairness). That the calls which block the main loop
or the platform thread return is not assumed but stated in the properties as what they depend on: on
Linux `Rests`, that from some time on the main loop is in no call, so that `connections_mutex`, a
`std::mutex` which owes nobody a turn, is free too; on Windows `Served`, that the window's queue is
emptied again and again, since a write or a pairing may keep the platform thread from it. (A `connect()` is assumed to return: the system ends the paging of a peer that does not answer.) `Rests` still
leaves the hazard in: a thread may wait for the mutex while a write holds it and the server is stopped,
and must find its way after that. The main loop of `LinuxRadio` needs strong fairness: it comes round to
posted events and bus messages between the calls that block it, which BlueZ answers or which time out
(`PairTimesOut`, 30 s, LD 236). BlueZ and the peers owe nothing.

## 5. What is proved

`ReconnectingConnection_proofs` holds for any set of slots, any policy, any number of
notices, with and without a connect timeout. The properties about one chain assume
`MaxStarts <= 1`; that the second `start()` breaks them is under divergences.

- `TypeCorrect`: `TypeOK` for any number of starts.
- `SingleChain` and `StateIsTrue`: `OneChain` and `StateTruthful`. Neither is inductive. That a
  notice cannot fork the chain needs to know that only the current connection is listened to
  (`Listeners`), and that `_retryPending` is set exactly while a timer is armed or the link has
  given up (`Flags`); those in turn need the chain. The inductive invariant is
  `TypeOK /\ OneChain /\ StateTruthful /\ Listeners /\ Flags`.
  Two lemmas carry the argument: `DialKeepsInv` (calling the connector while nothing else is
  under way) and `DropKeepsInv` (`_onDropped` run for a chain whose reporter has let go);
  every action that starts or ends an attempt reduces to one of them.
- `NoStaleTearDown`, `WaitersGetLink`: `OnlyDropsTearDown` and `WaiterGetsLinkWhileOpen`, from
  the same invariant, by showing which single action can make such a step.
- `CloseStaysFinal`: `CloseIsFinal` for any number of starts, from the much weaker invariant
  `Quiet` (after `close()` no timer that counts and no connection).
- `NeverTwoLinks` and `CloseReleases`: `OneNativeLink` and `OnlyBrokenStaysUp`, for any number of
  starts since both speak of a link that was started once. They follow from what the link has in
  hand (`Holds`): an attempt it awaits, the connection it uses, the one `close()` is finishing, one
  it asked to disconnect. `Owners` says that this is one connection in one of these ways, and that
  whatever is up in the plugin is that one or, after `close()`, one whose write failed. Both theorems
  assume `~HasTimeout`, which is no technicality: run TimeoutLeaks shows what a timeout does.
- `ImplementsContract`: every step of the link is a step of `LinkContract` or a stutter,
  with `status <- state` and `fails <- attempt`.

`ConnectAndScan_proofs` is about two small components. The connect loop's part holds for any
number of attempts, with and without a timeout. `LateIsClosed` (`HeldIsOwned`) and
`SingleAttempt` (`OneLiveAttempt`) support each other and need `Loop`: a result exists exactly when
the call has returned, flags are on attempts already made but never on the one awaited, and a
backoff leaves room for an attempt. `RetryTypeCorrect` follows. The scan's part holds for any
number of scans and any mixture of backends. `OldTimersSpare` (`TimerSparesNewer`) needs that
timers wait in the order of their sessions, each with a session of its own that is not beyond the
current one (`Ordered`): then only the last timer can carry the current session, and an earlier one
that fires finds it has passed.

`LinuxSockets_proofs` holds for any sets of connections, servers and descriptors and both
values of `Recycles`. `SocketsHaveOwners` is `SocketsOwned`. That closing an object, or closing it
again, hits no other's descriptor is not inductive by itself. It needs that a socket has one
descriptor (`OneName`); that a client in hand is not yet an object, has a descriptor and is in
one hand only (`Hands`); that what is in the maps was made and is the last at its address
(`Names`), so that its reader looks at its own object; and that an object between the two
steps of a disconnect has given its descriptor up (`Erasing`). Together with the parts of
`SocketsOwned` about maps and descriptors these are `Owned`. Lemmas `OpenKeeps`, `CloseKeeps` and
`AdmitKeeps` say what opening, closing and registering do to `Owned`, and `QuietKeeps` covers every
step that does none of them; `StraysKept` then shows, from `Owned`, that a reader stays with its
connection. `SocketTypes` is `TypeOK`.

`AndroidPrompts_proofs` holds for any set of calls, whatever becomes of activities and dialogs. Its
invariant is `TypeOK`, `NobodyOrphaned`, `RepliesTrue` and `Holds`: a call whose second dialog was opened
has its permissions. `NobodyIsOrphaned` and `RepliesAreTrue` follow. A request and an answer each change
several fields in several ways, so `RequestKeeps` and the lemmas after it take them one at a time for any
call.

`Connection_proofs` holds for any number of writes, any callers of `finish()` and `close()` and each
plugin; `GoneStaysGone` is about Android's. The properties
are about what the peer has received, and none is inductive: they follow from where the one write of
the chain is. The invariant says that at most one write is under way, in the channel or among the
answers, and that it is the one after those settled (`OneUnderWay`); that what was delivered is what
was settled, and that write if its answer says so (`Sent`); that after `close()` the native connection
is gone or a disconnect request waits in the channel ahead of every write it discards (`Fenced`: it is
the FIFO that makes `close()` discard); that a `finish()` that closed the sink asks to disconnect only
when all is settled, which stays so (`AsksLate`); that an answered request found the connection
released (`Released`); and that no "connected" follows "disconnected" (`DropsLast`). Lemmas `AskKeeps`
and `AnswerKeeps` do the work for every action that asks to disconnect and for both handlers of the
plugin.

`WindowsSockets_proofs` holds for any connections, handles and servers and both values of `Recycles`.
`SocketsInOnePlace` is `SocketsOwned`: its invariant follows a socket from its thread to the queue and on
to the map, in each of which it excludes the others (`InOnePlace`), and says that one with a link can be
closed from where it is or was taken by a reader not its own (`InReach`). That handles which are used
again do no harm needs that a socket has one handle, and that a connection which `Close()` would close has
the handle of its own socket (`OwnHandles`); that memory does none, that the address of a connection in the
map is its own, so that its reader is at its own handle and ends only when the link is gone (`Readers`).
`WindowsTypes` is `TypeOK`.

`LinuxRadio_proofs` holds for any finite set of devices and any `Room`. `ScanHasResults` is
`ResultsWithinScan`. The invariant `Announced` speaks of what Dart will believe when it has taken the
first n waiting events (`Told`): before a result, that a scan is on, and after the last of them, what
is so. `PostsKeep` carries it over whatever is posted, `DeliverKeeps` over a delivery.
`AdapterIsTrue` is `AdapterTruth`, from the invariant `LastWord`: the last power signal on the bus says
what is so; if there is none, the last state among the posted events does; and if there is neither, a
listener already knows; all of it until another adapter speaks (`other`). It supposes nothing about
the order in which bus and events are served.
`RadioTypes` is `TypeOK`, for which the agent's requests have to be those of the pairing under way, one
at most (`Requested`), and the pairing of a device that is known (`PairsKnown`).

`Splitters_proofs` holds for any delimiter that is not empty, any base of two or more, any width and
order of the prefix, whether or not it counts itself, any cap or none, any payloads and noise, and
streams and chunks of any length. What the loops of `onData()` do is an induction over the bytes. Two
things stand in for it. `Recursion` (from well-founded recursion) gives the function that a recursive
definition chooses, for the powers, the value of a prefix, both loops and the join of frames; and a
claim about every place in a buffer holds since there is no first or last place at which it fails
(`Least`, `Upward`, `Downward`).

- `NothingIsLost` and `NoDelimiterMissed` are `NothingLost` and `NoneMissed`. `LoopComplete` says that
  the loop's frames, each with its delimiter, and its remainder are the buffer; `LoopClean` that no
  delimiter begins in the remainder or inside a frame with its delimiter. The invariant adds
  `Searched`: all of the buffer was searched. `NoneBefore` is then why the search may start a
  delimiter's length before the new bytes, so that one that straddles chunks is found.
- `FramesRoundTrip` is `RoundTrip`. `OneDigit`, `LowWorks` and `ReadsBack` show that `_readLength()`
  reads what `frame()` wrote, for every length the prefix can describe. The invariant `InStep`: what
  was emitted is a beginning of what was sent, and buffer and wire together are the frames of the rest
  (`Stream`), of which the buffer has no whole one (`Starved`). `OneFrame` takes a frame off the
  stream, `FramesTaken` all that are there, and `ChunkKeeps` the invariant over a chunk.
- `BuffersBounded` is `BufferBounded`, for both: whatever arrives, a remainder that is kept is within
  its cap (`Spare`).
- `SplitterTypes` is the delimiter splitter's `TypeOK`; the other's is part of its invariant.

Assumptions are only the named ones on constants, which TLC evaluates in every run.

Only model-checked: liveness under fairness, which is beyond these provers: `ToldDropsHeal`, `TryingEnds`,
`CloseCompletes` and `WaiterAnswered` of the link, `CallEnds`, `CloseSettles`, `EveryCallAnswered`,
`ScanEnds`, `EveryClientHeard`, `DropIsTold`, `EveryConnectAnswered`, `NoDeviceMissed` and
`EveryRequestAnswered`. The two runs that expect a violation have nothing to prove.

## 6. Divergences

Besides the two runs above, these disagreements with the documentation, and limits of what
the code promises, showed up while modelling. Most can be seen by changing one constant of
a run or by adding a definition that is in the module to its cfg.

| where | what | how to see it |
|---|---|---|
| R 95-100 | a second `start()` is not ignored: it starts a second chain, whose drops leave a stray timer | LinkSafety with `MaxStarts = 2` refutes `OneChain` |
| R 171-178 | a dropped connection is disposed without a disconnect, so a plugin that does not forget it by itself (Linux, Windows; Android unless ACL_DISCONNECTED comes) keeps an entry for every drop | after `Notice` nothing in the model asks to disconnect `s`, whose `entry` stays `"down"` |
| B 204-211, R 294 vs R 280 | a failed write, also on a live link, makes `finish()` throw before it disconnects; `close()` of the link swallows that and leaves the native connection up, although it "releases all resources" | LinkLiveness with the invariant `ClosedReleasesAll` |
| R 12-13, 142; CW 77-84, L 106-108 | "transparently reconnects when the link drops": a drop before Dart's subscriptions reach the plugin is reported to nobody, and the link stays connected to nothing | LinkLiveness with the property `Heals` is refuted; `ToldDropsHeal` is what holds |
| R 190-195 | `waitConnected()` returns while `close()` is flushing: the state says connected until then | drop `~closed` from `WaiterGetsLinkWhileOpen` |
| B 202-203, S 88-92 | a second `finish()` does not wait for pending writes, although the first still does: `close()` of the sink returns at once | state `FirstFinishFlushes` for every caller, not those in `first` |
| B 204-211, 107-111 | `finish()` after a failed write throws and leaves the state disconnecting and the native connection open | state `CloseSettles` for `finish()`: `phase = "flush" ~> state = "disconnected"` |
| AP 383-387 | on Android `close()` of a connection the ACL receiver removed throws | drop `phase[c] = "threw"` from `CloseSettles` |
| CW 44-46, 77-84, ACL 33-42 | on Android a connection that the ACL receiver closes before Dart's call to listen arrives loses its one "disconnected" | Connections: `Reap` before `Listen` leaves `state` connected |
| L 259-269 | "connected" is posted after the reader was started and may follow "disconnected" | drop `plugin = "android"` from `DeadStaysDead` |
| PM 116-121, 210 vs `btc_enums.dart` 205-216 | the "asked" flag is set when the dialog opens, so a permission asked for and dismissed is reported as permanently denied although the system still prompts for it | require of a reply `"permanentlyDenied"` that `PromptsFor(reply.want)` be empty |
| AP 119-122 | a dialog that goes with its activity leaves its request pending until a restart, and later ones are told another is in progress although none is on the screen | Prompts with `Abandoned` dropped from `EveryCallAnswered`, or with `prompt`, `pending` of `RepliesTrue` replaced by `shown` |
| PM 203 vs 124 | a re-entrant request that is rejected clears `pendingWantsStatus` of the open one, which is then answered with a Boolean instead of a status string | Prompts with the invariant `StatusGetsStatus` |
| W 404 vs API 301-302 | on Windows the thread of a stopped scan clears the flag of the next one, whose caller then counts on a scan that is over for the plugin | ScanLinux with `Backends = {"windows"}` and the invariant `NewerScanSurvives` |
| L 362-363 vs 411 | the HCI fallback does not count `discovery_session` up, so the timer of an earlier BlueZ scan does end it | ScanLinux with the invariant `NewerScanSurvives` is refuted |
| API 293, L 447-448 | the HCI thread clears the flag and posts the event in two steps: a scan begun in between is announced first, and Dart is left with `false` while it is on | check that an empty `events` implies `dartSees = discovering` |
| L 441 | an HCI scan posts a device whose name it was reading when the scan was stopped, after the end was announced | in `Discovery` results are left out; `ResultsWithinScan` of LinuxRadio is about BlueZ only |
| LC 70-71, 33 | "a concurrent reader/writer can't close or use a stale descriptor": a reader that has loaded `socket_` before `Close()` reads from whatever the descriptor names next, and posts it as data of the closed connection | LinuxSockets with the invariant `\A c \in Conns : reader[c].at = "loaded" => file[reader[c].on] \in {c, None}` |
| LC 43, L 552 | a reader outlives its object, which disconnect erases: with the memory used again it clears `running_` of the next connection, whose reader stops and reports a drop | with `Recycles = TRUE`: `running` loses `heir[c]` in `Leaves` |
| LS | an error of `accept()` ends the loop without a word while the server stays in the map and listed | `AcceptEnds` while `heir[s] \in running` |
| LS 62-66 | an accept thread of a stopped server that has loaded `socket_` accepts on whatever listens there next, and announces the client on the old server's channel | `Accepts` with `file[acceptor[s].on] # s` |
| L 582, LC 56 | a write the peer does not take keeps the main loop and `connections_mutex` for as long as the peer likes: no client is registered, no event delivered | LinuxSockets with `EveryClientHeard` without `Rests` |
| L 106-108, 264-266 | a connection that was accepted and drops before Dart has its id loses its "disconnected": Dart then has an object for a dead connection | `Delivers` on the channel of a connection not in `heard` |
| L, W 744 | a client accepted just before stopServer is announced all the same, on a channel nobody may listen to any more; a client accepted before Dart listens is announced to nobody, and stays connected | `EveryClientHeard` of WindowsSockets without `via[c] \notin listening` |
| LS | every server asks for channel 1, so a second one always fails; its event channel stays registered | `ServerFails` adds to `made` |
| L 838 | `dispose()` with a client in an accept thread's hand leaves its socket open; timers and threads then use freed memory | after `Dispose` `NoneLeaked` holds only by `InHand` |
| WC 50 | a connection whose reader ended first (the peer left) has `connected_` cleared, so `Close()` leaves its socket open until the process ends | `HandleDisconnect` after `ReaderEnds` leaves the socket in `file` |
| W 189-191 | "this is the sole owner and DestroyWindow runs on the creating thread": a thread that has locked its weak reference while the plugin is destroyed is the last owner, and DestroyWindow fails on it | WindowsSockets with the invariant `WindowDiesAtHome` |
| WH 93-112, W 566, 744 | a task that a thread posts while it holds the dispatcher runs after the plugin's destruction, with a deleted `this`; the message to the window that was left uses the deleted dispatcher | WindowsSockets with the invariant `plugin # "broken"` |
| WC 19-27 | as on Linux, a reader whose connection was erased receives on a handle that may be another's by now, and clears `connected_` of the connection that got its memory; that one's socket is then never closed | WindowsSockets with `c \in robbed` dropped from `SocketsOwned` |
| LA 8-14, LD 234-236 | `bondDevice()` blocks the loop that serves its own agent: a pairing that needs the agent is answered false after 30 s, and may succeed after that | `PairTimesOut` while `pairing.step = "asking"` |
| L 953-957, LD 60-87 | power signals of every adapter become the adapter state, the snapshot and the calls are about the first one: with two adapters Dart may be left with the other's state | LinuxRadio with `~other` dropped from `AdapterTruth` |
| L, W | `bondState()` gives one snapshot and no changes; an adapter that is unplugged is not reported | no action of LinuxRadio tells Dart of either |
| L 735, W 822 | the timer of an earlier `setDiscoverable()` ends the visibility a later call asked for | not modelled |

## 7. What is not modelled

- Android's server wrapper and the restart of its reader, concurrent `scan()`s, device
  merging, the Apple plugins: planned (section 2).
- The method channel, Android's broadcast receivers for adapter and bond state: stateless
  translation. Enums, exceptions, UUIDs and capabilities are immutable data.
- `setDiscoverable()`, whose only state is the timer of the table above, and calls that only
  read: isEnabled, names, addresses, paired devices, bonded state.
- The lookup of a remote service's RFCOMM channel over SDP (LH), which runs inside the
  blocking connect and ends in a channel number or a failure of it; conversions of addresses
  and UUIDs.
- On Windows `write()` and pairing, which block the platform thread and change nothing else.
- The example application with its Linux and Windows runners, which hold no Bluetooth code.
- The flow of data through readers: events carry it in order, and `Connection` is about writes.
- The lengths of delays (POL), exception texts, `lastError`, logging: no property is about
  them. A delay is a timer that fires some time later.
- Contents of payloads: a write is its number, so reordering and loss are visible and bytes
  are not.
- Dart's stream machinery (pause, resume, cancel of a subscription) is taken as documented.
