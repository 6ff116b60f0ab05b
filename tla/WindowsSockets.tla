--------------------------- MODULE WindowsSockets ---------------------------
(***************************************************************************)
(* Connections and servers of the Windows plugin.  Threads connect, accept *)
(* and read; whatever they find they post as a task to the dispatcher,     *)
(* whose window runs the tasks on the platform thread, between method      *)
(* calls.  A thread refers to the dispatcher weakly and locks it to post,  *)
(* so that the plugin may be destroyed at any time.                        *)
(*                                                                         *)
(* A connection is named by its socket.  A reader is detached and goes on  *)
(* looking at its connection when that is deleted: what it finds then is   *)
(* undefined, what Close() left there, or, if Recycles, the next           *)
(* connection, made in the same memory.  The sockets and objects of        *)
(* servers are not followed that far (LinuxSockets does it).  Data, the    *)
(* event "connected" and write(), which only blocks the platform thread,   *)
(* change nothing here.                                                    *)
(***************************************************************************)
EXTENDS Naturals, Sequences, FiniteSets

CONSTANTS
    Conns,    \* sockets of connections, and the objects made for them
    Handles,  \* SOCKET values, which the system uses again
    Servers,  \* servers
    None,     \* INVALID_SOCKET; no socket; no server
    Recycles  \* memory of a deleted connection is used again at once

ASSUME NamesAssumption == None \notin Servers \cup Conns \cup Handles
ASSUME RecyclesAssumption == Recycles \in BOOLEAN

VARIABLES
    \* the system
    file,         \* the socket each handle names
    link,         \* sockets whose radio link is up
    \* the objects
    socket,       \* socket_
    connected,    \* those with connected_ set
    heir,         \* the last object made at each object's address
    robbed,       \* those whose connected_ was cleared by another's reader
    \* the plugin
    plugin,       \* "up", "destroyed", or "broken": its memory was used after
                  \* that, and anything may happen
    connections,  \* connections_
    servers,      \* servers_
    started,      \* servers started so far
    window,       \* the dispatcher's: "up", "gone", or "stray", which is one
                  \* whose dispatcher a thread of its own let die
    queue,        \* queue_, and the messages to run it
    \* the threads
    thread,       \* where the thread that works for a socket is, with what
                  \* task or on which handle
    via,          \* the server that accepted a socket
    accepting,    \* servers whose accept thread has not ended
    \* Dart
    waiting,      \* calls of connect() without an answer
    listening,    \* servers with a sink
    heard         \* clients announced to a listener

objectVars == <<socket, connected, heir, robbed>>
socketVars == <<file, link, objectVars, connections>>
serverVars == <<servers, started, via, accepting>>
dartVars == <<waiting, listening, heard>>
vars == <<socketVars, serverVars, plugin, window, queue, thread, dartVars>>

Absent == [at |-> "none", task |-> "none", on |-> None]

Init == /\ file = [h \in Handles |-> None] /\ link = {} /\ plugin = "up"
        /\ socket = [c \in Conns |-> None] /\ connected = {} /\ robbed = {}
        /\ heir = [c \in Conns |-> c] /\ connections = {}
        /\ servers = {} /\ started = {} /\ window = "up" /\ queue = <<>>
        /\ thread = [c \in Conns |-> Absent] /\ via = [c \in Conns |-> None]
        /\ accepting = {} /\ waiting = {} /\ listening = {} /\ heard = {}

-----------------------------------------------------------------------------
Up == plugin = "up"

\* The thread of c is somewhere, with a task to post.
GoesTo(c, at, task) == thread' = [thread EXCEPT ![c] = [at |-> at, task |-> task, on |-> None]]

\* The threads that hold the dispatcher while they post.
Holders == {c \in Conns : thread[c].at = "posting"}

\* A socket no thread, task or entry has had yet.
Fresh(c) == thread[c] = Absent

\* A new socket gets a handle that names none.
Opens(c, h) == file[h] = None /\ file' = [file EXCEPT ![h] = c]

\* closesocket() by the thread that has c in hand.
Discards(c) == /\ file' = [h \in Handles |-> IF file[h] = c THEN None ELSE file[h]]
               /\ link' = link \ {c}

\* A faulty Close: connected_ is cleared and the socket left open.
CloseFlagOnly(c) == /\ connected' = connected \ {c}
                    /\ UNCHANGED <<file, link, socket>>

\* Close(): it closes the socket only if connected_ is still set.
Close(c) ==
    /\ connected' = connected \ {c}
    /\ IF c \in connected
       THEN /\ file' = [h \in Handles |-> IF h = socket[c] THEN None ELSE file[h]]
            /\ link' = link \ {file[h] : h \in {socket[c]} \ {None}}
            /\ socket' = [socket EXCEPT ![c] = None]
       ELSE UNCHANGED <<file, link, socket>>

-----------------------------------------------------------------------------
(* Method calls                                                            *)

\* HandleConnect() and socket() on its thread.
HandleConnect(c, h) ==
    /\ Up /\ Fresh(c)
    /\ Opens(c, h)
    /\ GoesTo(c, "connecting", "adopt")
    /\ waiting' = waiting \cup {c}
    /\ UNCHANGED <<link, objectVars, connections, serverVars, plugin, window, queue,
                   listening, heard>>

\* HandleDisconnect(): Close(), and once more when the entry is erased.
HandleDisconnect(c) ==
    /\ Up /\ c \in connections
    /\ Close(c)
    /\ connections' = connections \ {c}
    /\ UNCHANGED <<heir, robbed, serverVars, plugin, window, queue, thread, dartVars>>

\* Start() of the server, which may fail.
Start(s) == \/ servers' = servers \cup {s} /\ accepting' = accepting \cup {s}
            \/ UNCHANGED <<servers, accepting>>

\* HandleStartServer(); one that fails leaves nothing behind.
HandleStartServer(s) ==
    /\ Up /\ s \notin started
    /\ started' = started \cup {s}
    /\ Start(s)
    /\ UNCHANGED <<socketVars, via, plugin, window, queue, thread, dartVars>>

\* HandleStopServer(); what its thread has in hand or has posted goes on.
HandleStopServer(s) ==
    /\ Up /\ s \in servers
    /\ servers' = servers \ {s}
    /\ UNCHANGED <<socketVars, started, via, accepting, plugin, window, queue, thread, dartVars>>

\* The stream handler of server/{id}: a listener comes or goes.
Listens(s) ==
    /\ Up /\ s \in started
    /\ listening' = IF s \in listening THEN listening \ {s} ELSE listening \cup {s}
    /\ UNCHANGED <<socketVars, serverVars, plugin, window, queue, thread, waiting, heard>>

\* ~FlutterClassicBluetoothPlugin(): everything is closed, the reference to the
\* dispatcher is given up, and WSACleanup() closes the sockets of the process.
Destroy ==
    /\ Up
    /\ plugin' = "destroyed"
    /\ file' = [h \in Handles |-> None] /\ link' = {}
    /\ socket' = [c \in Conns |-> None] /\ connected' = {} /\ connections' = {} /\ servers' = {}
    /\ IF Holders = {} THEN window' = "gone" /\ queue' = <<>> ELSE UNCHANGED <<window, queue>>
    /\ UNCHANGED <<heir, robbed, started, via, accepting, thread, dartVars>>

-----------------------------------------------------------------------------
(* Threads                                                                 *)

\* A faulty ConnectEnds: the thread of a connect that failed just ends.
ConnectEndsMute(c) ==
    /\ thread[c].at = "connecting"
    /\ \/ Up /\ link' = link \cup {c} /\ GoesTo(c, "locking", "adopt") /\ UNCHANGED file
       \/ Discards(c) /\ GoesTo(c, "done", "none")
    /\ UNCHANGED <<objectVars, connections, serverVars, plugin, window, queue, dartVars>>

\* connect() returns; a socket that failed is closed.
ConnectEnds(c) ==
    /\ thread[c].at = "connecting"
    /\ \/ Up /\ link' = link \cup {c} /\ GoesTo(c, "locking", "adopt") /\ UNCHANGED file
       \/ Discards(c) /\ GoesTo(c, "locking", "fail")
    /\ UNCHANGED <<objectVars, connections, serverVars, plugin, window, queue, dartVars>>

\* accept() returns a client; the thread has one at a time.
Accepts(s, c, h) ==
    /\ s \in servers \cap accepting /\ Fresh(c)
    /\ \A d \in Conns : via[d] = s => thread[d].at \notin {"locking", "posting"}
                                      \/ thread[d].task # "adopt"
    /\ via' = [via EXCEPT ![c] = s]
    /\ Opens(c, h) /\ link' = link \cup {c}
    /\ GoesTo(c, "locking", "adopt")
    /\ UNCHANGED <<objectVars, connections, servers, started, accepting, plugin, window,
                   queue, dartVars>>

\* accept() fails, as it does once the server is stopped: the thread ends.
AcceptFails(s) ==
    /\ s \in accepting
    /\ accepting' = accepting \ {s}
    /\ UNCHANGED <<socketVars, servers, started, via, plugin, window, queue, thread, dartVars>>

\* weak_dispatcher.lock(): it succeeds as long as anyone holds the dispatcher;
\* a thread that is too late closes the socket it has.
Locks(c) ==
    /\ thread[c].at = "locking"
    /\ \/ /\ Up \/ Holders # {}
          /\ GoesTo(c, "posting", thread[c].task)
          /\ UNCHANGED <<file, link>>
       \/ /\ ~Up /\ Holders = {}
          /\ GoesTo(c, "done", "none")
          /\ IF thread[c].task = "adopt" THEN Discards(c) ELSE UNCHANGED <<file, link>>
    /\ UNCHANGED <<objectVars, connections, serverVars, plugin, window, queue, dartVars>>

\* Post(), and the end of the lambda, which gives the dispatcher up.  The last
\* holder's death is the dispatcher's: a thread other than the window's own
\* cannot destroy the window, nor take back the message.
Posts(c) ==
    /\ thread[c].at = "posting"
    /\ GoesTo(c, "done", "none")
    /\ queue' = Append(queue, [do |-> thread[c].task, conn |-> c])
    /\ window' = IF Up \/ Holders # {c} THEN window ELSE "stray"
    /\ UNCHANGED <<socketVars, serverVars, plugin, dartVars>>

ReaderStep == UNCHANGED <<file, link, socket, heir, connections, serverVars, plugin, window,
                          queue, dartVars>>

Turns(c, at, on) == thread' = [thread EXCEPT ![c] = [at |-> at, task |-> "none", on |-> on]]

\* The reader looks at connected_ and socket_ of the object at its address, ...
Loads(c) ==
    /\ ReaderStep /\ thread[c].at = "loop"
    /\ IF heir[c] \in connected THEN Turns(c, "loaded", socket[heir[c]])
                                ELSE Turns(c, "over", None)
    /\ UNCHANGED <<connected, robbed>>

\* ... receives from whatever the handle names by now, until that is no link, ...
Reads(c) ==
    /\ ReaderStep /\ thread[c].at = "loaded"
    /\ IF \E d \in link : file[thread[c].on] = d THEN Turns(c, "loop", None)
                                                 ELSE Turns(c, "over", None)
    /\ UNCHANGED <<connected, robbed>>

\* ... and clears connected_ of an object that may be another's by now.
ReaderEnds(c) ==
    /\ ReaderStep /\ thread[c].at = "over"
    /\ GoesTo(c, "locking", "drop")
    /\ connected' = connected \ {heir[c]}
    /\ robbed' = robbed \cup ((connected \cap {heir[c]}) \ {c})

\* External: the peer goes away.
LinkDrops(c) ==
    /\ c \in link
    /\ link' = link \ {c}
    /\ UNCHANGED <<file, objectVars, connections, serverVars, plugin, window, queue, thread,
                   dartVars>>

-----------------------------------------------------------------------------
(* The dispatcher's window                                                 *)

\* The object of c, at an address of its own or at that of a deleted one that a
\* reader still looks at.
Make(c) ==
    /\ \E h \in Handles : file[h] = c /\ socket' = [socket EXCEPT ![c] = h]
    /\ connected' = connected \cup {c}
    /\ \/ UNCHANGED heir
       \/ /\ Recycles
          /\ \E d \in Conns \ connections :
                /\ thread[d].at \in {"loop", "loaded", "over"}
                /\ heir[d] = d
                /\ heir' = [x \in Conns |-> IF heir[x] = d THEN c ELSE heir[x]]

\* The task of HandleConnect() or of an accept thread: SetupConnectionStreams()
\* starts the reader, and the caller, or the server's listener, is told.
Adopt(c) ==
    /\ Make(c)
    /\ connections' = connections \cup {c}
    /\ Turns(c, "loop", None)
    /\ IF via[c] = None THEN waiting' = waiting \ {c} /\ UNCHANGED heard
       ELSE /\ heard' = IF via[c] \in listening THEN heard \cup {c} ELSE heard
            /\ UNCHANGED waiting

\* A faulty Drain: the client of a server that was stopped is left alone.
DrainServing ==
    /\ Up /\ queue # <<>>
    /\ queue' = Tail(queue)
    /\ LET c == Head(queue).conn
           do == Head(queue).do
       IN \/ do = "adopt" /\ via[c] \in servers \cup {None} /\ Adopt(c)
          \/ do = "adopt" /\ via[c] \notin servers \cup {None}
             /\ UNCHANGED <<connections, connected, socket, heir, thread, waiting, heard>>
          \/ do = "fail" /\ waiting' = waiting \ {c}
             /\ UNCHANGED <<connections, connected, socket, heir, thread, heard>>
          \/ do = "drop"
             /\ UNCHANGED <<connections, connected, socket, heir, thread, waiting, heard>>
    /\ UNCHANGED <<file, link, robbed, serverVars, plugin, window, listening>>

\* Drain(), task by task; "disconnected" changes nothing here.
Drain ==
    /\ Up /\ queue # <<>>
    /\ queue' = Tail(queue)
    /\ LET c == Head(queue).conn
           do == Head(queue).do
       IN \/ do = "adopt" /\ Adopt(c)
          \/ do = "fail" /\ waiting' = waiting \ {c}
             /\ UNCHANGED <<connections, connected, socket, heir, thread, heard>>
          \/ do = "drop"
             /\ UNCHANGED <<connections, connected, socket, heir, thread, waiting, heard>>
    /\ UNCHANGED <<file, link, robbed, serverVars, plugin, window, listening>>

\* What the destroyed plugin's window still runs: a task that adopts uses the plugin,
\* and the message to a stray window the dispatcher, both of them deleted.
DrainLate ==
    /\ plugin = "destroyed" /\ window # "gone" /\ queue # <<>>
    /\ queue' = Tail(queue)
    /\ LET e == Head(queue)
       IN \/ /\ e.do = "adopt" \/ window = "stray"
             /\ plugin' = "broken" /\ UNCHANGED waiting
          \/ /\ e.do # "adopt" /\ window = "up"
             /\ waiting' = IF e.do = "fail" THEN waiting \ {e.conn} ELSE waiting
             /\ UNCHANGED plugin
    /\ UNCHANGED <<socketVars, serverVars, window, thread, listening, heard>>

-----------------------------------------------------------------------------
Next == \/ Destroy \/ Drain \/ DrainLate
        \/ \E c \in Conns : \/ HandleDisconnect(c) \/ ConnectEnds(c) \/ Locks(c) \/ Posts(c)
                            \/ Loads(c) \/ Reads(c) \/ ReaderEnds(c) \/ LinkDrops(c)
                            \/ \E h \in Handles : HandleConnect(c, h)
        \/ \E s \in Servers : \/ HandleStartServer(s) \/ HandleStopServer(s)
                              \/ Listens(s) \/ AcceptFails(s)
                              \/ \E c \in Conns, h \in Handles : Accepts(s, c, h)

Spec == Init /\ [][Next]_vars

\* Threads run, and connect() returns.  The platform thread owes nothing: a write()
\* or a pairing may block it for as long as the peer likes.
Fairness == \A c \in Conns : /\ WF_vars(ConnectEnds(c)) /\ WF_vars(Locks(c)) /\ WF_vars(Posts(c))
                             /\ WF_vars(Loads(c) \/ Reads(c) \/ ReaderEnds(c))

FairSpec == Spec /\ Fairness

-----------------------------------------------------------------------------
\* Every variable holds a value of its kind.
TypeOK ==
    /\ file \in [Handles -> Conns \cup {None}] /\ socket \in [Conns -> Handles \cup {None}]
    /\ link \subseteq Conns /\ connections \subseteq Conns /\ connected \subseteq Conns
    /\ heir \in [Conns -> Conns] /\ robbed \subseteq Conns
    /\ plugin \in {"up", "destroyed", "broken"} /\ window \in {"up", "gone", "stray"}
    /\ servers \subseteq started /\ started \subseteq Servers /\ accepting \subseteq started
    /\ via \in [Conns -> Servers \cup {None}]
    /\ queue \in Seq([do : {"adopt", "fail", "drop"}, conn : Conns])
    /\ thread \in [Conns -> [at : {"none", "connecting", "locking", "posting", "loop", "loaded",
                                   "over", "done"},
                             task : {"none", "adopt", "fail", "drop"},
                             on : Handles \cup {None}]]
    /\ waiting \subseteq Conns /\ listening \subseteq started /\ heard \subseteq Conns

\* What will adopt socket c: a thread that has it in hand, or a posted task.
Carriers(c) == {i \in DOMAIN queue : queue[i] = [do |-> "adopt", conn |-> c]}
               \cup {n \in {0} : thread[c].task = "adopt"}

\* While the plugin lives, a socket whose link is up belongs to exactly one thread,
\* task or entry, on its whole way from connect() or accept() to the map, and the app
\* can close it there, unless another connection's reader has taken it for its own; a
\* connection that Close() would close has its own socket and its reader is at that,
\* although handles and memory are used again under old readers.
SocketsOwned ==
    Up => \A c \in Conns :
        /\ Cardinality(Carriers(c)) + (IF c \in connections THEN 1 ELSE 0) <= 1
        /\ c \in link => \/ Carriers(c) # {}
                         \/ c \in connections \cap connected
                         \/ c \in robbed
        /\ c \in connected => /\ socket[c] # None /\ file[socket[c]] = c
                              /\ thread[c].at = "loaded" => thread[c].on = socket[c]

\* No call blocks the platform thread for ever: it comes round to the window.
Served == []<>(queue = <<>>)

\* Then every call of connect() is answered, unless the plugin is destroyed first.
EveryConnectAnswered ==
    Served => \A c \in Conns : c \in waiting ~> c \notin waiting \/ ~Up

\* Then a client that a server accepted is announced, also if the server is stopped
\* meanwhile, unless nobody listens to the server or the plugin is destroyed.
EveryClientHeard ==
    Served => \A c \in Conns : via[c] # None /\ thread[c].task = "adopt"
                                  ~> c \in heard \/ via[c] \notin listening \/ ~Up

\* "This is the sole owner and DestroyWindow runs on the creating thread".
WindowDiesAtHome == window # "stray"
=============================================================================
