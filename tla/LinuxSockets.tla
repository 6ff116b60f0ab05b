---------------------------- MODULE LinuxSockets ----------------------------
(***************************************************************************)
(* Connections and servers of the Linux plugin: the maps of the plugin,    *)
(* the objects in them, the descriptors they own, and the threads that     *)
(* outlive them.  Every connection has a detached reader thread and every  *)
(* server a detached accept thread; method calls, and the events threads   *)
(* post, are served by the main loop.  An object is named by the socket it *)
(* is made for.  What happens to an object's memory after it is deleted is *)
(* undefined: it keeps what Close() left there, or, if Recycles, the next  *)
(* object may be made in it while an old thread still looks.               *)
(*                                                                         *)
(* Data read, and the event "connected", carry no state and are left out   *)
(* (for their order see Connection).  Dart has a connection from the       *)
(* answer to connect() or from a server it listens to, and listens to the  *)
(* connection from then on.  Threads are not followed once the plugin is   *)
(* disposed.                                                               *)
(***************************************************************************)
EXTENDS Naturals, Sequences, FiniteSets

CONSTANTS
    Conns,    \* sockets of connections, and the objects made for them
    Servers,  \* listening sockets, and the objects that own them
    Fds,      \* descriptors, of which the kernel gives the lowest that is free
    None,     \* the descriptor -1; no file; no object
    Recycles  \* memory of a deleted object is used again at once

Objects == Conns \cup Servers

ASSUME NamesAssumption == None \notin Objects \cup Fds /\ Conns \cap Servers = {}
ASSUME NumbersAssumption == Objects \cup Fds \subseteq Nat
ASSUME RecyclesAssumption == Recycles \in BOOLEAN

VARIABLES
    \* the kernel
    file,         \* the socket each descriptor names
    link,         \* connections whose radio link is up
    \* the objects
    socket,       \* socket_
    running,      \* those with running_ set
    heir,         \* the last object made at each object's address
    made,         \* objects made so far; their event channels stay registered
    \* the plugin
    connections,  \* connections
    servers,      \* servers
    advertised,   \* servers with an SDP session
    queue,        \* events waiting for the main loop, each on a channel
    alive,        \* the plugin is not disposed
    \* the threads
    main,         \* what the main loop does, to which object
    reader,       \* where each reader is, on which descriptor
    acceptor,     \* where each accept thread is, on which descriptor or with which client
    \* Dart
    heard,        \* connections Dart has an object for
    missed,       \* those announced while Dart did not listen to their server
    told          \* those Dart was told to be disconnected

kernelVars == <<file, link>>
objectVars == <<socket, running, heir, made>>
pluginVars == <<connections, servers, advertised, alive>>
dartVars == <<heard, missed, told>>
vars == <<kernelVars, objectVars, pluginVars, queue, main, reader, acceptor, dartVars>>

Idle == [at |-> "idle", obj |-> None]
NoReader == [c \in Conns |-> [at |-> "none", on |-> None]]
NoAcceptor == [s \in Servers |-> [at |-> "none", on |-> None]]

Init == /\ file = [f \in Fds |-> None] /\ link = {}
        /\ socket = [o \in Objects |-> None] /\ running = {} /\ made = {}
        /\ heir = [o \in Objects |-> o]
        /\ connections = {} /\ servers = {} /\ advertised = {}
        /\ queue = <<>> /\ alive = TRUE /\ main = Idle
        /\ reader = NoReader
        /\ acceptor = NoAcceptor
        /\ heard = {} /\ missed = {} /\ told = {}

-----------------------------------------------------------------------------
\* Objects of a kind are numbered in the order their sockets are made.
Unused(o) == o \notin made /\ \A f \in Fds : file[f] # o
Fresh(o) == Unused(o) /\ \A x \in Objects : Unused(x) /\ x < o => (x \in Conns <=> o \in Servers)

\* socket() and accept() return the lowest free descriptor.
Opens(f) == file[f] = None /\ \A g \in Fds : g < f => file[g] # None

MainIdle == alive /\ main.at = "idle"

\* connections_mutex, which a write holds until the peer has taken the bytes.
MutexFree == ~(main.at \in {"writing", "erasing"} /\ main.obj \in Conns)

\* Posts for the main loop what happens to connection c: on the channel of the server
\* that accepted it, or, when it is over, on its own.
Post(channel, c) == queue' = Append(queue, [on |-> channel, conn |-> c])

\* A new object o with descriptor f, at an address of its own or at that of a
\* deleted object of its kind.
Make(o, f) ==
    /\ made' = made \cup {o}
    /\ socket' = [socket EXCEPT ![o] = f]
    /\ running' = running \cup {o}
    /\ \/ UNCHANGED heir
       \/ /\ Recycles
          /\ \E d \in made \ (connections \cup servers) :
                /\ d \in Conns <=> o \in Conns
                /\ heir[d] = d
                /\ heir' = [x \in Objects |-> IF heir[x] = d THEN o ELSE heir[x]]

\* setup_connection_channels() and the entry in the map.
Admit(c, f) == /\ Make(c, f)
               /\ reader' = [reader EXCEPT ![c] = [at |-> "loop", on |-> None]]
               /\ connections' = connections \cup {c}

\* A faulty CloseSocket: the descriptor is closed but not taken from socket_.
CloseSocketKeeping(o) ==
    /\ running' = running \ {o}
    /\ link' = link \ {file[f] : f \in {socket[o]} \ {None}}
    /\ file' = [f \in Fds |-> IF f = socket[o] THEN None ELSE file[f]]
    /\ UNCHANGED socket

\* Close() of a connection, Stop() of a server: shutdown ends the link.
CloseSocket(o) ==
    /\ running' = running \ {o}
    /\ link' = link \ {file[f] : f \in {socket[o]} \ {None}}
    /\ file' = [f \in Fds |-> IF f = socket[o] THEN None ELSE file[f]]
    /\ socket' = [socket EXCEPT ![o] = None]

-----------------------------------------------------------------------------
(* The main loop                                                           *)

\* handle_connect() up to connect(), which blocks the main loop.
ConnectStart(c, f) ==
    /\ MainIdle /\ Fresh(c) /\ Opens(f)
    /\ file' = [file EXCEPT ![f] = c]
    /\ main' = [at |-> "connecting", obj |-> c]
    /\ UNCHANGED <<link, objectVars, pluginVars, queue, reader, acceptor, dartVars>>

ConnectFails ==
    /\ main.at = "connecting"
    /\ file' = [f \in Fds |-> IF file[f] = main.obj THEN None ELSE file[f]]
    /\ main' = Idle
    /\ UNCHANGED <<link, objectVars, pluginVars, queue, reader, acceptor, dartVars>>

ConnectDone ==
    /\ main.at = "connecting"
    /\ \E f \in Fds : file[f] = main.obj /\ Admit(main.obj, f)
    /\ link' = link \cup {main.obj}
    /\ heard' = heard \cup {main.obj}
    /\ main' = Idle
    /\ UNCHANGED <<file, servers, advertised, alive, queue, acceptor, missed, told>>

\* Stop() gives up the SDP session.
Withdraw(o) == advertised' = advertised \ {o}

\* handle_disconnect() and handle_stop_server(): the object is closed, ...
Closes(o) ==
    /\ MainIdle /\ o \in connections \cup servers
    /\ CloseSocket(o) /\ Withdraw(o)
    /\ main' = [at |-> "erasing", obj |-> o]
    /\ UNCHANGED <<heir, made, connections, servers, alive, queue, reader, acceptor,
                   dartVars>>

\* ... and erased, which closes it again.
Erases ==
    /\ main.at = "erasing"
    /\ CloseSocket(main.obj)
    /\ connections' = connections \ {main.obj}
    /\ servers' = servers \ {main.obj}
    /\ main' = Idle
    /\ UNCHANGED <<heir, made, advertised, alive, queue, reader, acceptor, dartVars>>

\* handle_write(): the main loop waits for the peer, with the mutex.
WriteStart(c) ==
    /\ MainIdle /\ c \in connections
    /\ main' = [at |-> "writing", obj |-> c]
    /\ UNCHANGED <<kernelVars, objectVars, pluginVars, queue, reader, acceptor, dartVars>>

WriteEnds ==
    /\ main.at = "writing"
    /\ main' = Idle
    /\ UNCHANGED <<kernelVars, objectVars, pluginVars, queue, reader, acceptor, dartVars>>

\* register_rfcomm_service(), which may fail without a word.
Advertise(s) == advertised' \in {advertised, advertised \cup {s}}

\* Start(): every server asks for RFCOMM channel 1, which only one can listen
\* on, and begins to accept.
Start(s, f) ==
    /\ Opens(f) /\ \A g \in Fds : file[g] \notin Servers
    /\ file' = [file EXCEPT ![f] = s]
    /\ Advertise(s)
    /\ acceptor' = [acceptor EXCEPT ![s] = [at |-> "loop", on |-> None]]

\* handle_start_server().
ServerStarts(s, f) ==
    /\ MainIdle /\ Fresh(s)
    /\ Start(s, f) /\ Make(s, f)
    /\ servers' = servers \cup {s}
    /\ UNCHANGED <<link, connections, alive, queue, main, reader, dartVars>>

\* The server's event channel stays registered all the same.
ServerFails(s) ==
    /\ MainIdle /\ Fresh(s)
    /\ made' = made \cup {s}
    /\ UNCHANGED <<kernelVars, socket, running, heir, pluginVars, queue, main, reader,
                   acceptor, dartVars>>

\* send_on_main_thread_cb(): sent whether or not Dart listens.  It listens to a server
\* as the app pleases, and to a connection it has; what it does not listen to may be lost.
Delivers ==
    /\ MainIdle /\ queue # <<>>
    /\ queue' = Tail(queue)
    /\ LET e == Head(queue)
       IN \/ /\ e.on \in Servers
             /\ heard' = heard \cup {e.conn} /\ UNCHANGED <<missed, told>>
          \/ /\ e.on \in Servers
             /\ missed' = missed \cup {e.conn} /\ UNCHANGED <<heard, told>>
          \/ /\ e.on \in Conns
             /\ told' = told \cup {e.conn} /\ UNCHANGED <<heard, missed>>
          \/ /\ e.on \in Conns \ heard
             /\ UNCHANGED dartVars
    /\ UNCHANGED <<kernelVars, objectVars, pluginVars, main, reader, acceptor>>

\* flutter_classic_bluetooth_plugin_dispose(), which takes no mutex.  Threads
\* and events are not followed any further; a client in hand stays open.
Dispose ==
    /\ MainIdle
    /\ LET owned == connections \cup servers
           closed == {socket[o] : o \in owned}
       IN /\ file' = [f \in Fds |-> IF f \in closed THEN None ELSE file[f]]
          /\ link' = link \ {file[f] : f \in closed \cap Fds}
          /\ socket' = [o \in Objects |-> IF o \in owned THEN None ELSE socket[o]]
          /\ running' = running \ owned
    /\ connections' = {} /\ servers' = {} /\ advertised' = {} /\ alive' = FALSE
    /\ reader' = NoReader /\ queue' = <<>>
    /\ heard' = {} /\ missed' = {} /\ told' = {}
    /\ UNCHANGED <<heir, made, main, acceptor>>

-----------------------------------------------------------------------------
(* An accept thread                                                        *)

AcceptStep(s) == alive /\ UNCHANGED <<pluginVars, queue, main, dartVars>>

Turns(s, at, on) == acceptor' = [acceptor EXCEPT ![s] = [at |-> at, on |-> on]]

\* It looks at running_ and socket_ of the object at its address, ...
Looks(s) ==
    /\ AcceptStep(s) /\ acceptor[s].at = "loop"
    /\ IF heir[s] \in running THEN Turns(s, "looked", socket[heir[s]])
                              ELSE Turns(s, "done", None)
    /\ UNCHANGED <<kernelVars, objectVars, reader>>

\* ... and the server's socket that the descriptor names by now gives it a client, ...
Accepts(s, c, f) ==
    /\ AcceptStep(s) /\ acceptor[s].at = "looked"
    /\ acceptor[s].on # None /\ file[acceptor[s].on] \in Servers
    /\ Fresh(c) /\ Opens(f)
    /\ file' = [file EXCEPT ![f] = c]
    /\ link' = link \cup {c}
    /\ Turns(s, "holding", c)
    /\ UNCHANGED <<objectVars, reader>>

\* ... or is stopped, or accept() fails: the loop ends without a word.
AcceptEnds(s) ==
    /\ AcceptStep(s) /\ acceptor[s].at = "looked"
    /\ Turns(s, "done", None)
    /\ UNCHANGED <<kernelVars, objectVars, reader>>

\* The callback: the connection is registered under the mutex, ...
Registers(s) ==
    /\ alive /\ acceptor[s].at = "holding" /\ MutexFree
    /\ \E f \in Fds : file[f] = acceptor[s].on /\ Admit(acceptor[s].on, f)
    /\ Turns(s, "announcing", acceptor[s].on)
    /\ UNCHANGED <<kernelVars, servers, advertised, alive, queue, main, dartVars>>

\* A faulty Announces: not for a client that has left again.
AnnouncesLinked(s) ==
    /\ alive /\ acceptor[s].at = "announcing"
    /\ IF acceptor[s].on \in link THEN Post(s, acceptor[s].on) ELSE UNCHANGED queue
    /\ Turns(s, "loop", None)
    /\ UNCHANGED <<kernelVars, objectVars, pluginVars, main, reader, dartVars>>

\* ... and announced on the server's channel.
Announces(s) ==
    /\ alive /\ acceptor[s].at = "announcing"
    /\ Post(s, acceptor[s].on)
    /\ Turns(s, "loop", None)
    /\ UNCHANGED <<kernelVars, objectVars, pluginVars, main, reader, dartVars>>

-----------------------------------------------------------------------------
(* A reader thread                                                         *)

ReaderStep(c) == alive /\ UNCHANGED <<kernelVars, pluginVars, socket, heir, made, main,
                                      acceptor, dartVars>>

GoesTo(c, at, on) == reader' = [reader EXCEPT ![c] = [at |-> at, on |-> on]]

\* It looks at running_ and socket_ of the object at its address, ...
Loads(c) ==
    /\ ReaderStep(c) /\ reader[c].at = "loop"
    /\ IF heir[c] \in running /\ socket[heir[c]] # None
       THEN GoesTo(c, "loaded", socket[heir[c]])
       ELSE GoesTo(c, "over", None)
    /\ UNCHANGED <<running, queue>>

\* ... then reads from whatever the descriptor names by now, and posts what it gets,
\* until the link is gone.
Reads(c) ==
    /\ ReaderStep(c) /\ reader[c].at = "loaded"
    /\ IF file[reader[c].on] \in link THEN GoesTo(c, "loop", None) ELSE GoesTo(c, "over", None)
    /\ UNCHANGED <<running, queue>>

\* A faulty Leaves: it reports the drop only if running_ was still set.
LeavesIfRunning(c) ==
    /\ ReaderStep(c) /\ reader[c].at = "over"
    /\ running' = running \ {heir[c]}
    /\ IF heir[c] \in running THEN Post(c, c) ELSE UNCHANGED queue
    /\ GoesTo(c, "done", None)

\* The loop is over: running_ is cleared and the drop reported.
Leaves(c) ==
    /\ ReaderStep(c) /\ reader[c].at = "over"
    /\ running' = running \ {heir[c]}
    /\ Post(c, c)
    /\ GoesTo(c, "done", None)

\* External: the peer goes away.
LinkDrops(c) ==
    /\ alive /\ c \in link
    /\ link' = link \ {c}
    /\ UNCHANGED <<file, objectVars, pluginVars, queue, main, reader, acceptor, dartVars>>

-----------------------------------------------------------------------------
Next == \/ ConnectFails \/ ConnectDone \/ Erases \/ WriteEnds \/ Delivers \/ Dispose
        \/ \E c \in Conns : \/ WriteStart(c) \/ Loads(c) \/ Reads(c) \/ Leaves(c)
                            \/ LinkDrops(c)
        \/ \E s \in Servers : \/ ServerFails(s) \/ Looks(s) \/ AcceptEnds(s)
                              \/ Registers(s) \/ Announces(s)
        \/ \E c \in Conns, f \in Fds : ConnectStart(c, f)
        \/ \E s \in Servers, f \in Fds : ServerStarts(s, f)
        \/ \E s \in Servers, c \in Conns, f \in Fds : Accepts(s, c, f)
        \/ \E o \in Objects : Closes(o)

Spec == Init /\ [][Next]_vars

\* A thread that can go on does, and an idle main loop sends what is posted.  No
\* call is sure to return, and nobody who waits for the mutex to get it from others.
Fairness == /\ WF_vars(Delivers)
            /\ \A s \in Servers : WF_vars(Registers(s)) /\ WF_vars(Announces(s))
            /\ \A c \in Conns : WF_vars(Loads(c) \/ Reads(c) \/ Leaves(c))

FairSpec == Spec /\ Fairness

-----------------------------------------------------------------------------
\* Every variable holds a value of its kind.
TypeOK ==
    /\ file \in [Fds -> Objects \cup {None}] /\ socket \in [Objects -> Fds \cup {None}]
    /\ link \subseteq Conns /\ running \subseteq Objects /\ made \subseteq Objects
    /\ heir \in [Objects -> Objects]
    /\ connections \subseteq Conns /\ servers \subseteq Servers
    /\ advertised \subseteq Servers /\ alive \in BOOLEAN
    /\ heard \subseteq Conns /\ missed \subseteq Conns /\ told \subseteq Conns
    /\ main \in [at : {"idle", "connecting", "erasing", "writing"}, obj : Objects \cup {None}]
    /\ acceptor \in [Servers -> [at : {"none", "loop", "looked", "holding", "announcing",
                                      "done"},
                                 on : Objects \cup Fds \cup {None}]]
    /\ reader \in [Conns -> [at : {"none", "loop", "loaded", "over", "done"},
                             on : Fds \cup {None}]]
    /\ queue \in Seq([on : Objects, conn : Conns])

\* The clients an accept thread or handle_connect() has in hand.
InHand == {acceptor[s].on : s \in {t \in Servers : acceptor[t].at = "holding"}}
          \cup (IF main.at = "connecting" THEN {main.obj} ELSE {})

\* Every object of the plugin that has a descriptor owns the socket it was
\* made for; one whose socket_ is -1 is about to be erased.
ObjectsOwn ==
    \A o \in connections \cup servers :
        /\ socket[o] # None => file[socket[o]] = o
        /\ socket[o] = None => main = [at |-> "erasing", obj |-> o]

\* No socket is open that no object owns and no thread has in hand.
NoneLeaked ==
    \A f \in Fds : file[f] # None =>
        \/ file[f] \in connections \cup servers /\ socket[file[f]] = f
        \/ file[f] \in InHand

\* A reader is at another connection's socket only once its own is closed.
StraysOnlyWhenGone ==
    \A c \in connections : reader[c].at = "loaded" /\ socket[c] # None => reader[c].on = socket[c]

\* Descriptors have one owner: closing an object, twice even, closes no other
\* one's socket, nothing stays open behind the maps, nothing stopped is
\* advertised, and a connection that has its entry loses no bytes by its own
\* reader, although descriptors and memory are used again under old threads.
SocketsOwned == ObjectsOwn /\ NoneLeaked /\ StraysOnlyWhenGone /\ advertised \subseteq servers

\* The app's calls have come to an end: the main loop is not in a write that the
\* peer does not take, nor kept from idling, and nobody takes the mutex again.
Rests == <>[](main.at = "idle")

\* Then every client that is accepted is announced, although its thread may have waited
\* for the mutex and its server be stopped meanwhile: to an app that listens then, if any.
EveryClientHeard ==
    Rests => \A c \in Conns :
                (\E s \in Servers : acceptor[s] = [at |-> "holding", on |-> c])
                    ~> c \in heard \cup missed \/ ~alive

\* Then a connection Dart has, whose reader is not done when its link drops, is reported
\* disconnected, unless the app disconnects it first.
DropIsTold ==
    Rests => \A c \in Conns :
                c \in (connections \cap heard) \ link /\ reader[c].at # "done"
                    ~> c \in told \/ c \notin connections
=============================================================================
