----------------------- MODULE WindowsSockets_proofs -----------------------
(***************************************************************************)
(* Proofs about WindowsSockets, for any connections, handles and servers,  *)
(* whether or not the memory of a deleted connection is used again.        *)
(***************************************************************************)
EXTENDS WindowsSockets, FiniteSetTheorems, TLAPS

\* Where the thread of a socket may be, with what task or on what handle.
Threads == [at : {"none", "connecting", "locking", "posting", "loop", "loaded", "over", "done"},
            task : {"none", "adopt", "fail", "drop"},
            on : Handles \cup {None}]

\* What may be in the queue.
Tasks == [do : {"adopt", "fail", "drop"}, conn : Conns]

\* The queue holds the task that adopts c at place i.
Adopts(i, c) == i \in 1..Len(queue) /\ queue[i].do = "adopt" /\ queue[i].conn = c

\* A socket has one handle at most, and a connection that Close() would close has
\* the handle of its own socket and is in the map.
OwnHandles ==
    /\ \A h, k \in Handles : file[h] # None /\ file[h] = file[k] => h = k
    /\ \A c \in connected : c \in connections /\ socket[c] \in Handles /\ file[socket[c]] = c

\* A socket that no thread was made for is nowhere, and its address its own.
Untouched == \A c \in Conns : Fresh(c) => /\ c \notin link \cup connections
                                          /\ heir[c] = c
                                          /\ \A h \in Handles : file[h] # c

\* A socket on its way to the map is in one place, and its address its own.
InOnePlace ==
    /\ \A c \in Conns : thread[c].at = "connecting" => thread[c].task = "adopt" /\ c \notin link
    /\ \A c \in Conns : thread[c].task = "adopt" =>
          /\ c \notin connections /\ heir[c] = c
          /\ thread[c].at \in {"connecting", "locking", "posting"}
    /\ \A c \in Conns : \A i \in 1..Len(queue) : Adopts(i, c) =>
          /\ c \notin connections /\ heir[c] = c
          /\ thread[c].at = "done" /\ thread[c].task = "none"
    /\ \A c \in Conns : \A i, j \in 1..Len(queue) : Adopts(i, c) /\ Adopts(j, c) => i = j

\* A connection in the map has its address to itself: its own reader looks at the
\* handle of its own socket, and ends only when the link is gone.
Readers ==
    /\ \A c \in connections : heir[c] = c
    /\ \A c \in connected : /\ thread[c].at = "loaded" => thread[c].on = socket[c]
                            /\ thread[c].at = "over" => c \notin link

\* A socket whose link is up can be closed by someone, or was taken by a reader
\* that is not its own.
InReach == \A c \in link : \/ c \in connected
                           \/ thread[c].task = "adopt"
                           \/ \E i \in 1..Len(queue) : Adopts(i, c)
                           \/ c \in robbed

\* A thread that is busy with a socket has something to do with it.
Busy == \A c \in Conns : thread[c].at \in {"connecting", "locking", "posting"}
                         => thread[c].task # "none"

\* What holds as long as the plugin lives.
Living == OwnHandles /\ Untouched /\ InOnePlace /\ Readers /\ InReach

\* The inductive invariant.
IInv == TypeOK /\ Busy /\ (Up => Living)

\* A socket is carried once at most, and not when it is in the map.
LEMMA CarriedOnce ==
  ASSUME TypeOK, InOnePlace, NEW c \in Conns
  PROVE  /\ Cardinality(Carriers(c)) + (IF c \in connections THEN 1 ELSE 0) <= 1
         /\ \A i \in 1..Len(queue) : Adopts(i, c) => Carriers(c) # {}
         /\ thread[c].task = "adopt" => Carriers(c) # {}
<1>1. queue \in Seq([do : {"adopt", "fail", "drop"}, conn : Conns])
  BY DEF TypeOK
<1>2. \A i \in DOMAIN queue : queue[i] = [do |-> "adopt", conn |-> c] <=> Adopts(i, c)
  <2>1. ASSUME NEW i \in DOMAIN queue
        PROVE  i \in 1..Len(queue) /\ queue[i] \in [do : {"adopt", "fail", "drop"}, conn : Conns]
    <3>1. \A S : queue \in Seq(S) => \A j \in DOMAIN queue : j \in 1..Len(queue) /\ queue[j] \in S
      OBVIOUS
    <3> QED
      BY <1>1, <3>1
  <2> QED
    BY <2>1 DEF Adopts
<1>3. Carriers(c) = {i \in DOMAIN queue : Adopts(i, c)}
                    \cup {n \in {0} : thread[c].task = "adopt"}
  BY <1>2 DEF Carriers
<1>4. /\ \A i \in 1..Len(queue) : Adopts(i, c) => i \in Carriers(c)
      /\ thread[c].task = "adopt" => 0 \in Carriers(c)
  BY <1>1, <1>3
<1>5. CASE thread[c].task = "adopt"
  <2>1. \A i \in DOMAIN queue : ~Adopts(i, c)
    BY <1>5 DEF InOnePlace, Adopts
  <2>2. Carriers(c) = {0} /\ c \notin connections
    BY <1>3, <1>5, <2>1 DEF InOnePlace
  <2>3. Cardinality(Carriers(c)) = 1
    BY <2>2, FS_Singleton, Zenon
  <2> QED
    BY <1>4, <2>2, <2>3
<1>6. CASE thread[c].task # "adopt" /\ \E i \in DOMAIN queue : Adopts(i, c)
  <2>1. PICK i \in DOMAIN queue : Adopts(i, c)
    BY <1>6
  <2>2. Carriers(c) = {i} /\ c \notin connections
    BY <1>3, <1>6, <2>1 DEF InOnePlace, Adopts
  <2>3. Cardinality(Carriers(c)) = 1
    BY <2>2, FS_Singleton, Zenon
  <2> QED
    BY <1>4, <2>2, <2>3
<1>7. CASE thread[c].task # "adopt" /\ ~\E i \in DOMAIN queue : Adopts(i, c)
  <2>1. Carriers(c) = {}
    BY <1>3, <1>7
  <2> QED
    BY <1>4, <2>1, FS_EmptySet
<1> QED
  BY <1>5, <1>6, <1>7

\* The inductive invariant is strong enough.
LEMMA IInvOwned == IInv => SocketsOwned
<1> SUFFICES ASSUME IInv, Up, NEW c \in Conns
             PROVE  /\ Cardinality(Carriers(c)) + (IF c \in connections THEN 1 ELSE 0) <= 1
                    /\ c \in link => \/ Carriers(c) # {}
                                     \/ c \in connections \cap connected
                                     \/ c \in robbed
                    /\ c \in connected => /\ socket[c] # None /\ file[socket[c]] = c
                                          /\ thread[c].at = "loaded" => thread[c].on = socket[c]
  BY DEF SocketsOwned
<1>1. TypeOK /\ InOnePlace /\ InReach /\ OwnHandles /\ Readers
  BY DEF IInv, Living
<1>2. c \in link => \/ Carriers(c) # {} \/ c \in connections \cap connected \/ c \in robbed
  BY <1>1, CarriedOnce DEF InReach, OwnHandles
<1>3. c \in connected => /\ socket[c] # None /\ file[socket[c]] = c
                         /\ thread[c].at = "loaded" => thread[c].on = socket[c]
  BY <1>1, NamesAssumption DEF OwnHandles, Readers
<1> QED
  BY <1>1, <1>2, <1>3, CarriedOnce

\* At first there is nothing.
LEMMA InitIInv == Init => IInv
<1> SUFFICES ASSUME Init PROVE IInv
  OBVIOUS
<1>1. queue = <<>> /\ Len(queue) = 0 /\ \A S : queue \in Seq(S)
  BY DEF Init
<1>2. thread \in [Conns -> Threads] /\ \A c \in Conns : thread[c] = Absent
  BY DEF Init, Absent, Threads
<1>3. TypeOK
  BY <1>1, <1>2 DEF Init, TypeOK, Threads
<1>4. Busy /\ InOnePlace
  BY <1>1, <1>2 DEF Init, Absent, Busy, InOnePlace, Adopts
<1>5. OwnHandles /\ Untouched /\ Readers /\ InReach
  BY NamesAssumption DEF Init, OwnHandles, Untouched, Readers, InReach
<1> QED
  BY <1>3, <1>4, <1>5 DEF IInv, Living

\* A step that leaves sockets, threads and tasks alone.
LEMMA QuietKeeps ==
  ASSUME IInv, TypeOK', UNCHANGED <<socketVars, plugin, queue, thread>>
  PROVE  IInv'
<1>1. UNCHANGED <<file, link, socket, connected, heir, robbed, connections, plugin, queue, thread>>
  BY DEF socketVars, objectVars
<1> QED
  BY <1>1 DEF IInv, Busy, Living, OwnHandles, Untouched, InOnePlace, Readers, InReach, Up, Adopts,
     Fresh

\* A connect() begins with a socket of its own.
LEMMA HandleConnectKeepsInv ==
  ASSUME IInv, NEW c \in Conns, NEW h \in Handles, HandleConnect(c, h)
  PROVE  IInv'
<1>0. TypeOK /\ Busy /\ (Up => Living)
  BY DEF IInv
<1>1. /\ thread' \in [Conns -> Threads] /\ \A d \in Conns : d # c => thread'[d] = thread[d]
      /\ thread'[c].at = "connecting" /\ thread'[c].task = "adopt"
  BY <1>0, NamesAssumption DEF HandleConnect, GoesTo, TypeOK, Threads
<1>2. TypeOK'
  BY <1>0, <1>1 DEF HandleConnect, Opens, TypeOK, Threads, objectVars, serverVars
<1>3. Busy'
  BY <1>0, <1>1 DEF Busy
<1>4. ASSUME Up' PROVE Living'
  <2>1. /\ Up /\ Living /\ Fresh(c) /\ file[h] = None /\ file' = [file EXCEPT ![h] = c]
        /\ UNCHANGED <<socket, connected, heir, robbed, connections, queue>>
        /\ link' = link
    BY <1>0, <1>4 DEF HandleConnect, Opens, Up, objectVars
  <2>2. /\ thread[c].at = "none" /\ thread[c].task = "none"
        /\ c \notin link \cup connections /\ heir[c] = c /\ \A k \in Handles : file[k] # c
    BY <2>1 DEF Living, Untouched, Fresh, Absent
  <2>3. /\ file \in [Handles -> Conns \cup {None}] /\ c # None /\ connections \subseteq Conns
        /\ link \subseteq Conns /\ \A d \in connected : d # None
    BY <1>0, NamesAssumption DEF TypeOK
  <2>4. OwnHandles'
    BY <2>1, <2>2, <2>3 DEF Living, OwnHandles
  <2>5. Untouched'
    BY <1>1, <2>1, <2>2, <2>3 DEF Living, Untouched, Fresh, Absent
  <2>6. \A i, d : Adopts(i, d)' <=> Adopts(i, d)
    BY <2>1 DEF Adopts
  <2>7. InOnePlace'
    BY <1>1, <2>1, <2>2, <2>6 DEF Living, InOnePlace
  <2>8. Readers'
    BY <1>1, <2>1, <2>2, <2>3 DEF Living, Readers, OwnHandles
  <2>9. InReach'
    BY <1>1, <2>1, <2>2, <2>3, <2>6 DEF Living, InReach
  <2> QED
    BY <2>4, <2>5, <2>7, <2>8, <2>9 DEF Living
<1> QED
  BY <1>2, <1>3, <1>4 DEF IInv

\* accept() returns a socket.
LEMMA AcceptsKeepsInv ==
  ASSUME IInv, NEW s \in Servers, NEW c \in Conns, NEW h \in Handles, Accepts(s, c, h)
  PROVE  IInv'
<1>0. TypeOK /\ Busy /\ (Up => Living)
  BY DEF IInv
<1>1. /\ thread' \in [Conns -> Threads] /\ \A d \in Conns : d # c => thread'[d] = thread[d]
      /\ thread'[c].at = "locking" /\ thread'[c].task = "adopt"
  BY <1>0, NamesAssumption DEF Accepts, GoesTo, TypeOK, Threads
<1>2. TypeOK'
  BY <1>0, <1>1 DEF Accepts, Opens, TypeOK, Threads, objectVars, serverVars, dartVars
<1>3. Busy'
  BY <1>0, <1>1 DEF Busy
<1>4. ASSUME Up' PROVE Living'
  <2>1. /\ Up /\ Living /\ Fresh(c) /\ file[h] = None /\ file' = [file EXCEPT ![h] = c]
        /\ UNCHANGED <<socket, connected, heir, robbed, connections, queue>>
        /\ link' = link \cup {c}
    BY <1>0, <1>4 DEF Accepts, Opens, Up, objectVars
  <2>2. /\ thread[c].at = "none" /\ thread[c].task = "none"
        /\ c \notin link \cup connections /\ heir[c] = c /\ \A k \in Handles : file[k] # c
    BY <2>1 DEF Living, Untouched, Fresh, Absent
  <2>3. /\ file \in [Handles -> Conns \cup {None}] /\ c # None /\ connections \subseteq Conns
        /\ link \subseteq Conns /\ \A d \in connected : d # None
    BY <1>0, NamesAssumption DEF TypeOK
  <2>4. OwnHandles'
    BY <2>1, <2>2, <2>3 DEF Living, OwnHandles
  <2>5. Untouched'
    BY <1>1, <2>1, <2>2, <2>3 DEF Living, Untouched, Fresh, Absent
  <2>6. \A i, d : Adopts(i, d)' <=> Adopts(i, d)
    BY <2>1 DEF Adopts
  <2>7. InOnePlace'
    BY <1>1, <2>1, <2>2, <2>6 DEF Living, InOnePlace
  <2>8. Readers'
    BY <1>1, <2>1, <2>2, <2>3 DEF Living, Readers, OwnHandles
  <2>9. InReach'
    BY <1>1, <2>1, <2>2, <2>3, <2>6 DEF Living, InReach
  <2> QED
    BY <2>4, <2>5, <2>7, <2>8, <2>9 DEF Living
<1> QED
  BY <1>2, <1>3, <1>4 DEF IInv

\* Closing takes the socket out of the map.
LEMMA HandleDisconnectKeepsInv ==
  ASSUME IInv, NEW c \in Conns, HandleDisconnect(c)
  PROVE  IInv'
<1>0. TypeOK /\ Busy /\ Up /\ Living
  BY DEF IInv, HandleDisconnect
<1>1. /\ UNCHANGED <<thread, queue, heir, robbed>> /\ c \in connections
      /\ connections' = connections \ {c} /\ connected' = connected \ {c}
  BY DEF HandleDisconnect, Close
<1>2. CASE c \in connected
  <2>1. socket[c] \in Handles /\ file[socket[c]] = c /\ c # None
    BY <1>0, <1>2, NamesAssumption DEF Living, OwnHandles
  <2>2. /\ file' = [h \in Handles |-> IF h = socket[c] THEN None ELSE file[h]]
        /\ link' = link \ {c} /\ socket' = [socket EXCEPT ![c] = None]
    BY <1>2, <2>1, NamesAssumption DEF HandleDisconnect, Close
  <2>3. TypeOK'
    BY <1>0, <1>1, <2>1, <2>2 DEF HandleDisconnect, TypeOK, Threads, serverVars, dartVars
  <2>4. \A d \in connected : d # c => socket[d] # socket[c] /\ socket'[d] = socket[d]
                                      /\ file'[socket[d]] = d
    BY <1>0, <2>1, <2>2 DEF Living, OwnHandles, TypeOK
  <2>5. \A h \in Handles : file'[h] \in {None, file[h]}
    BY <2>2
  <2>6. OwnHandles'
    BY <1>0, <1>1, <2>2, <2>4 DEF Living, OwnHandles
  <2>7. Untouched'
    BY <1>0, <1>1, <2>2, <2>5, NamesAssumption DEF Living, Untouched, Fresh
  <2>8. Readers' /\ InReach'
    BY <1>0, <1>1, <2>2, <2>4 DEF Living, Readers, InReach, Adopts
  <2>9. InOnePlace'
    BY <1>0, <1>1, <2>2 DEF Living, InOnePlace, Adopts
  <2> QED
    BY <1>0, <1>1, <2>3, <2>6, <2>7, <2>8, <2>9 DEF IInv, Living, Busy
<1>3. CASE c \notin connected
  <2>1. UNCHANGED <<file, link, socket, connected>>
    BY <1>1, <1>3 DEF HandleDisconnect, Close
  <2>2. TypeOK'
    BY <1>0, <1>1, <2>1 DEF HandleDisconnect, TypeOK, Threads, serverVars, dartVars
  <2>3. OwnHandles' /\ Untouched' /\ Readers' /\ InReach'
    BY <1>0, <1>1, <1>3, <2>1 DEF Living, OwnHandles, Untouched, Fresh, Readers, InReach, Adopts
  <2>4. InOnePlace'
    BY <1>0, <1>1, <2>1 DEF Living, InOnePlace, Adopts
  <2> QED
    BY <1>0, <1>1, <2>2, <2>3, <2>4 DEF IInv, Living, Busy
<1> QED
  BY <1>2, <1>3

\* connect() returns with a link, or closes its socket.
LEMMA ConnectEndsKeepsInv ==
  ASSUME IInv, NEW c \in Conns, ConnectEnds(c)
  PROVE  IInv'
<1>0. TypeOK /\ Busy /\ (Up => Living)
  BY DEF IInv
<1>1. /\ thread' \in [Conns -> Threads] /\ \A d \in Conns : d # c => thread'[d] = thread[d]
      /\ thread[c].at = "connecting" /\ thread'[c].at = "locking"
      /\ thread'[c].task \in {"adopt", "fail"}
  BY <1>0, NamesAssumption DEF ConnectEnds, GoesTo, TypeOK, Threads
<1>2. /\ UNCHANGED <<socket, connected, heir, robbed, connections, queue, plugin>>
      /\ UNCHANGED <<serverVars, window, dartVars>>
      /\ link' \subseteq link \cup {c}
      /\ link' = link \/ thread'[c].task = "adopt" \/ c \notin link'
      /\ file' \in [Handles -> Conns \cup {None}]
      /\ \A h \in Handles : file'[h] = file[h] \/ (file[h] = c /\ file'[h] = None)
  BY <1>0, <1>1 DEF ConnectEnds, Discards, objectVars, GoesTo, TypeOK
<1>3. TypeOK'
  BY <1>0, <1>1, <1>2 DEF TypeOK, Threads, serverVars, dartVars
<1>4. Busy'
  BY <1>0, <1>1 DEF Busy
<1>5. ASSUME Up' PROVE Living'
  <2>1. Living /\ c \notin connections /\ c \notin connected /\ heir[c] = c /\ c \notin link
        /\ thread[c].task = "adopt" /\ \A i \in 1..Len(queue) : ~Adopts(i, c)
    BY <1>0, <1>1, <1>2, <1>5 DEF Up, Living, InOnePlace, OwnHandles
  <2>2. OwnHandles'
    BY <1>0, <1>2, <2>1, NamesAssumption DEF Living, OwnHandles, TypeOK
  <2>3. Untouched'
    BY <1>0, <1>1, <1>2, <2>1, NamesAssumption DEF Living, Untouched, Fresh, Absent
  <2>4. InOnePlace'
    BY <1>1, <1>2, <2>1 DEF Living, InOnePlace, Adopts
  <2>5. Readers'
    BY <1>0, <1>1, <1>2, <2>1 DEF Living, Readers, TypeOK
  <2>6. InReach'
    <3>1. \A d \in link' : d # c => d \in link /\ thread'[d] = thread[d]
      BY <1>0, <1>1, <1>2 DEF TypeOK
    <3>2. c \in link' => thread'[c].task = "adopt"
      BY <1>2, <2>1
    <3>3. \A i, d : Adopts(i, d)' <=> Adopts(i, d)
      BY <1>2 DEF Adopts
    <3> QED
      BY <1>2, <2>1, <3>1, <3>2, <3>3 DEF Living, InReach
  <2> QED
    BY <2>2, <2>3, <2>4, <2>5, <2>6 DEF Living
<1> QED
  BY <1>3, <1>4, <1>5 DEF IInv

\* A thread takes hold of the dispatcher, or closes what it has.
LEMMA LocksKeepsInv ==
  ASSUME IInv, NEW c \in Conns, Locks(c)
  PROVE  IInv'
<1>0. TypeOK /\ Busy /\ (Up => Living)
  BY DEF IInv
<1>1. /\ thread' \in [Conns -> Threads] /\ \A d \in Conns : d # c => thread'[d] = thread[d]
      /\ thread[c].at = "locking" /\ thread'[c].at \in {"posting", "done"}
      /\ thread'[c].at = "posting" => thread'[c].task = thread[c].task
      /\ Up => thread'[c].at = "posting"
  BY <1>0, NamesAssumption DEF Locks, GoesTo, TypeOK, Threads
<1>2. TypeOK'
  <2>1. file' \in [Handles -> Conns \cup {None}] /\ link' \subseteq Conns
    BY <1>0 DEF Locks, Discards, TypeOK
  <2> QED
    BY <1>0, <1>1, <2>1 DEF Locks, TypeOK, Threads, objectVars, serverVars, dartVars
<1>3. Busy'
  BY <1>0, <1>1 DEF Busy
<1>4. ASSUME Up' PROVE Living'
  <2>1. Up /\ Living /\ thread'[c].at = "posting" /\ thread'[c].task = thread[c].task
        /\ UNCHANGED <<file, link, socket, connected, heir, robbed, connections, queue>>
    BY <1>0, <1>1, <1>4 DEF Locks, Up, objectVars
  <2>2. OwnHandles' /\ Untouched' /\ Readers'
    BY <1>0, <1>1, <2>1 DEF Living, OwnHandles, Untouched, Fresh, Absent, Readers, TypeOK
  <2>3. InOnePlace'
    BY <1>1, <2>1 DEF Living, InOnePlace, Adopts
  <2>4. InReach'
    BY <1>0, <1>1, <2>1 DEF Living, InReach, Adopts, TypeOK
  <2> QED
    BY <2>2, <2>3, <2>4 DEF Living
<1> QED
  BY <1>2, <1>3, <1>4 DEF IInv

\* A task goes into the queue, and its thread is done with it.
LEMMA PostsKeepsInv ==
  ASSUME IInv, NEW c \in Conns, Posts(c)
  PROVE  IInv'
<1>0. TypeOK /\ Busy /\ (Up => Living)
  BY DEF IInv
<1>1. /\ thread' \in [Conns -> Threads] /\ \A d \in Conns : d # c => thread'[d] = thread[d]
      /\ thread[c].at = "posting" /\ thread'[c].at = "done" /\ thread'[c].task = "none"
  BY <1>0, NamesAssumption DEF Posts, GoesTo, TypeOK, Threads
<1>2. /\ queue' = Append(queue, [do |-> thread[c].task, conn |-> c])
      /\ [do |-> thread[c].task, conn |-> c] \in Tasks
  BY <1>0 DEF Posts, TypeOK, Busy, Tasks
<1>3. queue' \in Seq(Tasks) /\ queue \in Seq(Tasks)
  <2>1. queue \in Seq(Tasks)
    BY <1>0 DEF TypeOK, Tasks
  <2> QED
    BY <1>2, <2>1
<1>4. /\ Len(queue) \in Nat /\ Len(queue') = Len(queue) + 1
      /\ queue'[Len(queue) + 1] = [do |-> thread[c].task, conn |-> c]
      /\ \A i \in 1..Len(queue) : queue'[i] = queue[i]
  BY <1>2, <1>3
<1>5. TypeOK'
  <2>1. window' \in {"up", "gone", "stray"}
    BY <1>0 DEF Posts, TypeOK
  <2> QED
    BY <1>0, <1>1, <1>3, <2>1 DEF Posts, TypeOK, Threads, Tasks, socketVars, objectVars,
       serverVars, dartVars
<1>6. Busy'
  BY <1>0, <1>1 DEF Busy
<1>7. ASSUME Up' PROVE Living'
  <2>1. Living /\ UNCHANGED <<file, link, socket, connected, heir, robbed, connections>>
    BY <1>0, <1>7 DEF Posts, Up, socketVars, objectVars
  <2>2. OwnHandles' /\ Untouched' /\ Readers'
    BY <1>0, <1>1, <2>1 DEF Living, OwnHandles, Untouched, Fresh, Absent, Readers, TypeOK
  <2>3. \A i, d : Adopts(i, d)' =>
           \/ Adopts(i, d)
           \/ i = Len(queue) + 1 /\ d = c /\ thread[c].task = "adopt"
    BY <1>4 DEF Adopts
  <2>4. InOnePlace'
    <3>1. \A d \in Conns : thread'[d].at = "connecting" =>
             thread'[d].task = "adopt" /\ d \notin link'
      BY <1>1, <2>1 DEF Living, InOnePlace
    <3>2. \A d \in Conns : thread'[d].task = "adopt" =>
             /\ d \notin connections' /\ heir'[d] = d
             /\ thread'[d].at \in {"connecting", "locking", "posting"}
      BY <1>1, <2>1 DEF Living, InOnePlace
    <3>3. \A d \in Conns : \A i \in 1..Len(queue') : Adopts(i, d)' =>
             /\ d \notin connections' /\ heir'[d] = d
             /\ thread'[d].at = "done" /\ thread'[d].task = "none"
      BY <1>1, <2>1, <2>3 DEF Living, InOnePlace, Adopts
    <3>4. \A i \in 1..Len(queue) : ~Adopts(i, c)
      BY <1>1, <2>1 DEF Living, InOnePlace
    <3>5. \A d \in Conns : \A i, j \in 1..Len(queue') : Adopts(i, d)' /\ Adopts(j, d)' => i = j
      BY <2>1, <2>3, <3>4 DEF Living, InOnePlace, Adopts
    <3> QED
      BY <3>1, <3>2, <3>3, <3>5 DEF InOnePlace
  <2>5. ASSUME thread[c].task = "adopt" PROVE \E i \in 1..Len(queue') : Adopts(i, c)'
    <3>1. Len(queue) + 1 \in 1..Len(queue')
      BY <1>4
    <3>2. \A i \in 1..Len(queue') : i = Len(queue) + 1 => Adopts(i, c)'
      BY <1>4, <2>5 DEF Adopts
    <3> QED
      BY <3>1, <3>2
  <2>6. \A d \in Conns : \A i \in 1..Len(queue) :
           Adopts(i, d) => Adopts(i, d)' /\ i \in 1..Len(queue')
    BY <1>4 DEF Adopts
  <2>7. link \subseteq Conns
    BY <1>0 DEF TypeOK
  <2>8. InReach'
    BY <1>1, <2>1, <2>5, <2>6, <2>7 DEF Living, InReach
  <2> QED
    BY <2>2, <2>4, <2>8 DEF Living
<1> QED
  BY <1>5, <1>6, <1>7 DEF IInv

\* What the steps of a reader have in common.
LEMMA ReaderKeepsInv ==
  ASSUME IInv, NEW c \in Conns, ReaderStep,
         thread' \in [Conns -> Threads], \A d \in Conns : d # c => thread'[d] = thread[d],
         thread[c].at \in {"loop", "loaded", "over"},
         \/ thread'[c].at \in {"loop", "loaded", "over"} /\ thread'[c].task = "none"
         \/ thread'[c].at = "locking" /\ thread'[c].task = "drop",
         connected' \subseteq connected, robbed \subseteq robbed', robbed' \subseteq Conns,
         Up => Readers',
         Up => \A d \in link \cap (connected \ connected') : d \in robbed'
  PROVE  IInv'
<1>0. TypeOK /\ Busy /\ (Up => Living)
  BY DEF IInv
<1>1. UNCHANGED <<file, link, socket, heir, connections, queue, plugin>>
  BY DEF ReaderStep
<1>2. TypeOK'
  BY <1>0 DEF ReaderStep, TypeOK, Threads, serverVars, dartVars
<1>3. Busy'
  BY <1>0 DEF Busy
<1>4. ASSUME Up' PROVE Living'
  <2>1. Up /\ Living
    BY <1>0, <1>1, <1>4 DEF Up
  <2>2. OwnHandles' /\ Untouched'
    BY <1>1, <2>1 DEF Living, OwnHandles, Untouched, Fresh, Absent
  <2>3. thread[c].task # "adopt" /\ \A i \in 1..Len(queue) : ~Adopts(i, c)
    BY <2>1 DEF Living, InOnePlace
  <2>4. InOnePlace'
    BY <1>1, <2>1, <2>3 DEF Living, InOnePlace, Adopts
  <2>5. InReach'
    BY <1>0, <1>1, <2>1, <2>3 DEF Living, InReach, Adopts, TypeOK
  <2> QED
    BY <2>1, <2>2, <2>4, <2>5 DEF Living
<1> QED
  BY <1>2, <1>3, <1>4 DEF IInv

\* A reader looks at the object at its address.
LEMMA LoadsKeepsInv ==
  ASSUME IInv, NEW c \in Conns, Loads(c)
  PROVE  IInv'
<1>0. TypeOK /\ (Up => Living)
  BY DEF IInv
<1>1. /\ thread' \in [Conns -> Threads] /\ \A d \in Conns : d # c => thread'[d] = thread[d]
      /\ thread[c].at = "loop" /\ thread'[c].task = "none"
      /\ \/ /\ heir[c] \in connected
            /\ thread'[c].at = "loaded" /\ thread'[c].on = socket[heir[c]]
         \/ heir[c] \notin connected /\ thread'[c].at = "over"
  BY <1>0 DEF Loads, Turns, TypeOK, Threads
<1>2. ReaderStep /\ UNCHANGED <<connected, robbed, link, connections, heir, socket>>
  BY DEF Loads, ReaderStep
<1>3. Up => Readers'
  BY <1>0, <1>1, <1>2 DEF Living, Readers, OwnHandles, TypeOK
<1> QED
  BY <1>0, <1>1, <1>2, <1>3, ReaderKeepsInv DEF TypeOK

\* A reader receives, or finds that its handle names no link.
LEMMA ReadsKeepsInv ==
  ASSUME IInv, NEW c \in Conns, Reads(c)
  PROVE  IInv'
<1>0. TypeOK /\ (Up => Living)
  BY DEF IInv
<1>1. /\ thread' \in [Conns -> Threads] /\ \A d \in Conns : d # c => thread'[d] = thread[d]
      /\ thread[c].at = "loaded" /\ thread'[c].task = "none"
      /\ \/ thread'[c].at = "loop"
         \/ thread'[c].at = "over" /\ \A d \in link : file[thread[c].on] # d
  <2>1. /\ thread[c].at = "loaded" /\ thread \in [Conns -> Threads]
        /\ \/ Turns(c, "loop", None)
           \/ Turns(c, "over", None) /\ \A d \in link : file[thread[c].on] # d
    BY <1>0 DEF Reads, TypeOK, Threads
  <2>2. ASSUME Turns(c, "loop", None)
        PROVE  /\ thread' \in [Conns -> Threads] /\ thread'[c].at = "loop"
               /\ thread'[c].task = "none" /\ \A d \in Conns : d # c => thread'[d] = thread[d]
    BY <2>1, <2>2 DEF Turns, Threads
  <2>3. ASSUME Turns(c, "over", None)
        PROVE  /\ thread' \in [Conns -> Threads] /\ thread'[c].at = "over"
               /\ thread'[c].task = "none" /\ \A d \in Conns : d # c => thread'[d] = thread[d]
    BY <2>1, <2>3 DEF Turns, Threads
  <2> QED
    BY <2>1, <2>2, <2>3
<1>2. ReaderStep /\ UNCHANGED <<connected, robbed, link, connections, heir, socket>>
  BY DEF Reads, ReaderStep
<1>3. Up => Readers'
  <2> SUFFICES ASSUME Up PROVE Readers'
    OBVIOUS
  <2>1. c \in connected => thread[c].on = socket[c] /\ file[socket[c]] = c
    BY <1>0, <1>1 DEF Living, Readers, OwnHandles
  <2>2. c \in connected /\ thread'[c].at = "over" => c \notin link
    BY <1>1, <2>1
  <2> QED
    BY <1>0, <1>1, <1>2, <2>2 DEF Living, Readers, TypeOK
<1> QED
  BY <1>0, <1>1, <1>2, <1>3, ReaderKeepsInv DEF TypeOK

\* A reader ends, and clears the flag of the object at its address.
LEMMA ReaderEndsKeepsInv ==
  ASSUME IInv, NEW c \in Conns, ReaderEnds(c)
  PROVE  IInv'
<1>0. TypeOK /\ (Up => Living)
  BY DEF IInv
<1>1. /\ thread' \in [Conns -> Threads] /\ \A d \in Conns : d # c => thread'[d] = thread[d]
      /\ thread[c].at = "over" /\ thread'[c].at = "locking" /\ thread'[c].task = "drop"
  BY <1>0, NamesAssumption DEF ReaderEnds, GoesTo, TypeOK, Threads
<1>2. /\ ReaderStep /\ UNCHANGED <<link, connections, heir, socket>>
      /\ connected' = connected \ {heir[c]}
      /\ robbed' = robbed \cup ((connected \cap {heir[c]}) \ {c})
  BY DEF ReaderEnds, ReaderStep
<1>3. Up => Readers'
  BY <1>0, <1>1, <1>2 DEF Living, Readers, OwnHandles, TypeOK
<1>4. Up => \A d \in link \cap (connected \ connected') : d \in robbed'
  BY <1>0, <1>1, <1>2 DEF Living, Readers
<1>5. /\ connected' \subseteq connected /\ robbed \subseteq robbed'
      /\ robbed' \subseteq Conns
  BY <1>0, <1>2 DEF TypeOK
<1> QED
  BY <1>1, <1>2, <1>3, <1>4, <1>5, ReaderKeepsInv

\* A link goes.
LEMMA LinkDropsKeepsInv ==
  ASSUME IInv, NEW c \in Conns, LinkDrops(c)
  PROVE  IInv'
<1>0. TypeOK /\ Busy /\ (Up => Living)
  BY DEF IInv
<1>1. /\ UNCHANGED <<file, socket, connected, heir, robbed, connections, queue, thread, plugin>>
      /\ link' = link \ {c}
  BY DEF LinkDrops, objectVars
<1>2. TypeOK'
  BY <1>0, <1>1 DEF LinkDrops, TypeOK, serverVars, dartVars
<1>3. Busy'
  BY <1>0, <1>1 DEF Busy
<1>4. Up' => Living'
  BY <1>0, <1>1 DEF Up, Living, OwnHandles, Untouched, Fresh, InOnePlace, Readers, InReach, Adopts
<1> QED
  BY <1>2, <1>3, <1>4 DEF IInv

\* The plugin closes everything.
LEMMA DestroyKeepsInv ==
  ASSUME IInv, Destroy
  PROVE  IInv'
<1>0. TypeOK /\ Busy
  BY DEF IInv
<1>1. ~Up' /\ UNCHANGED thread
  BY DEF Destroy, Up
<1>2. queue' \in Seq([do : {"adopt", "fail", "drop"}, conn : Conns])
  <2>1. <<>> \in Seq([do : {"adopt", "fail", "drop"}, conn : Conns])
    OBVIOUS
  <2> QED
    BY <1>0, <2>1 DEF Destroy, TypeOK
<1>3. window' \in {"up", "gone", "stray"} /\ plugin' = "destroyed"
  BY <1>0 DEF Destroy, TypeOK
<1>4. TypeOK'
  BY <1>0, <1>1, <1>2, <1>3 DEF Destroy, TypeOK, dartVars
<1> QED
  BY <1>0, <1>1, <1>4 DEF IInv, Busy

\* A late task changes nothing that a living plugin has.
LEMMA DrainLateKeepsInv ==
  ASSUME IInv, DrainLate
  PROVE  IInv'
<1>0. TypeOK /\ Busy
  BY DEF IInv
<1>1. ~Up' /\ UNCHANGED thread /\ plugin' \in {"destroyed", "broken"}
  BY DEF DrainLate, Up
<1>2. queue' \in Seq(Tasks) /\ waiting' \subseteq Conns
  <2>1. queue \in Seq(Tasks) /\ queue # <<>> /\ queue' = Tail(queue)
    BY <1>0 DEF DrainLate, TypeOK, Tasks
  <2>2. \A S : queue \in Seq(S) => Tail(queue) \in Seq(S)
    BY <2>1
  <2> QED
    BY <1>0, <2>1, <2>2 DEF DrainLate, TypeOK
<1>3. TypeOK'
  BY <1>0, <1>1, <1>2 DEF DrainLate, TypeOK, Tasks, socketVars, objectVars, serverVars
<1> QED
  BY <1>0, <1>1, <1>3 DEF IInv, Busy

\* A task is run, and adopts its socket or only tells.
LEMMA DrainKeepsInv ==
  ASSUME IInv, Drain
  PROVE  IInv'
<1>0. TypeOK /\ Busy /\ Up /\ Living
  BY DEF IInv, Drain
<1>1. /\ queue # <<>> /\ queue' = Tail(queue)
      /\ UNCHANGED <<file, link, robbed, servers, started, via, accepting, plugin, window,
                     listening>>
  BY DEF Drain, serverVars
<1>2. /\ queue' \in Seq(Tasks)
      /\ Len(queue) \in Nat \ {0} /\ Len(queue') = Len(queue) - 1
      /\ \A i \in 1..Len(queue') : queue'[i] = queue[i + 1]
      /\ Head(queue) = queue[1] /\ Head(queue) \in Tasks
  <2>1. queue \in Seq(Tasks)
    BY <1>0 DEF TypeOK, Tasks
  <2>2. \A S : queue \in Seq(S) =>
           /\ queue' \in Seq(S) /\ Head(queue) = queue[1] /\ Head(queue) \in S
           /\ Len(queue) \in Nat \ {0} /\ Len(queue') = Len(queue) - 1
           /\ \A i \in 1..Len(queue') : queue'[i] = queue[i + 1]
    BY <1>1
  <2> QED
    BY <2>1, <2>2
<1>3. \A i, d : Adopts(i, d)' => Adopts(i + 1, d) /\ i + 1 \in 1..Len(queue) /\ i + 1 # 1
  BY <1>2 DEF Adopts
<1>4. \A i, d : Adopts(i, d) /\ i # 1 => Adopts(i - 1, d)' /\ i - 1 \in 1..Len(queue')
  BY <1>2 DEF Adopts
<1>5. link \subseteq Conns /\ connections \subseteq Conns /\ connected \subseteq Conns
  BY <1>0 DEF TypeOK
<1>6. CASE Head(queue).do # "adopt"
  <2>1. /\ UNCHANGED <<connections, connected, socket, heir, thread, heard>>
        /\ waiting' \subseteq waiting
    BY <1>6 DEF Drain
  <2>2. TypeOK' /\ Busy'
    BY <1>0, <1>1, <1>2, <2>1 DEF TypeOK, Tasks, Busy
  <2>3. \A d : ~Adopts(1, d)
    BY <1>2, <1>6 DEF Adopts
  <2>4. InReach'
    BY <1>0, <1>1, <1>4, <1>5, <2>1, <2>3 DEF Living, InReach
  <2>5. OwnHandles' /\ Untouched' /\ Readers'
    BY <1>0, <1>1, <2>1 DEF Living, OwnHandles, Untouched, Fresh, Readers
  <2>6. InOnePlace'
    BY <1>0, <1>1, <1>3, <2>1 DEF Living, InOnePlace
  <2> QED
    BY <2>2, <2>4, <2>5, <2>6 DEF IInv, Living
<1>7. CASE Head(queue).do = "adopt"
  <2> PICK c \in Conns : c = Head(queue).conn
    BY <1>2 DEF Tasks
  <2>1. Adopts(1, c) /\ 1 \in 1..Len(queue)
    BY <1>2, <1>7 DEF Adopts
  <2>2. c \notin connections /\ thread[c].at = "done" /\ thread[c].task = "none" /\ heir[c] = c
    BY <1>0, <2>1 DEF Living, InOnePlace
  <2>3. Adopt(c)
    BY <1>7 DEF Drain
  <2>4. /\ connections' = connections \cup {c} /\ connected' = connected \cup {c}
        /\ waiting' \subseteq waiting /\ heard' \subseteq heard \cup {c}
    BY <2>3 DEF Adopt, Make
  <2>5. /\ thread' \in [Conns -> Threads] /\ \A d \in Conns : d # c => thread'[d] = thread[d]
        /\ thread'[c].at = "loop" /\ thread'[c].task = "none"
    BY <1>0, <2>3 DEF Adopt, Turns, TypeOK, Threads
  <2>6. /\ socket' \in [Conns -> Handles \cup {None}]
        /\ \A d \in Conns : d # c => socket'[d] = socket[d]
        /\ socket'[c] \in Handles /\ file[socket'[c]] = c
    BY <1>0, <2>3 DEF Adopt, Make, TypeOK
  <2>7. heir' \in [Conns -> Conns]
    BY <1>0, <2>3 DEF Adopt, Make, TypeOK
  <2>8. \A d \in Conns : heir[d] = d =>
           heir'[d] = d \/ (d \notin connections /\ thread[d].at \in {"loop", "loaded", "over"})
    <3>1. CASE UNCHANGED heir
      BY <3>1
    <3>2. CASE \E e \in Conns \ connections :
                  /\ thread[e].at \in {"loop", "loaded", "over"}
                  /\ heir' = [x \in Conns |-> IF heir[x] = e THEN c ELSE heir[x]]
      BY <3>2
    <3> QED
      BY <2>3, <3>1, <3>2 DEF Adopt, Make
  <2>9. TypeOK' /\ Busy'
    BY <1>0, <1>1, <1>2, <2>4, <2>5, <2>6, <2>7 DEF TypeOK, Threads, Tasks, Busy
  <2>10. OwnHandles'
    BY <1>0, <1>1, <1>5, <2>4, <2>6 DEF Living, OwnHandles
  <2>11. Untouched'
    BY <1>0, <1>1, <2>4, <2>5, <2>8 DEF Living, Untouched, Fresh, Absent
  <2>12. Readers'
    BY <1>0, <1>1, <1>5, <2>2, <2>4, <2>5, <2>6, <2>8 DEF Living, Readers
  <2>13. \A d : Adopts(1, d) => d = c
    BY <2>1 DEF Adopts
  <2>14. InReach'
    BY <1>0, <1>1, <1>4, <1>5, <2>4, <2>5, <2>13 DEF Living, InReach
  <2>15. \A i : ~Adopts(i, c)'
    BY <1>0, <1>3, <2>1 DEF Living, InOnePlace, Adopts
  <2>16. InOnePlace'
    <3>1. \A d \in Conns : thread'[d].at = "connecting" =>
             thread'[d].task = "adopt" /\ d \notin link'
      BY <1>0, <1>1, <2>5 DEF Living, InOnePlace
    <3>2. \A d \in Conns : thread'[d].task = "adopt" =>
             /\ d \notin connections' /\ heir'[d] = d
             /\ thread'[d].at \in {"connecting", "locking", "posting"}
      BY <1>0, <2>4, <2>5, <2>8 DEF Living, InOnePlace
    <3>3. \A d \in Conns : \A i \in 1..Len(queue') : Adopts(i, d)' =>
             /\ d \notin connections' /\ heir'[d] = d
             /\ thread'[d].at = "done" /\ thread'[d].task = "none"
      BY <1>0, <1>3, <2>4, <2>5, <2>8, <2>15 DEF Living, InOnePlace
    <3>4. \A d \in Conns : \A i, j \in 1..Len(queue') : Adopts(i, d)' /\ Adopts(j, d)' => i = j
      BY <1>0, <1>2, <1>3 DEF Living, InOnePlace
    <3> QED
      BY <3>1, <3>2, <3>3, <3>4 DEF InOnePlace
  <2> QED
    BY <2>9, <2>10, <2>11, <2>12, <2>14, <2>16 DEF IInv, Living
<1> QED
  BY <1>6, <1>7

\* Every step keeps the invariant.
LEMMA NextIInv == IInv /\ [Next]_vars => IInv'
<1> SUFFICES ASSUME IInv, [Next]_vars PROVE IInv'
  OBVIOUS
<1>1. CASE UNCHANGED vars
  <2>1. TypeOK'
    BY <1>1 DEF IInv, TypeOK, vars, socketVars, objectVars, serverVars, dartVars
  <2> QED
    BY <1>1, <2>1, QuietKeeps DEF vars
<1>2. ASSUME NEW s \in Servers,
             HandleStartServer(s) \/ HandleStopServer(s) \/ Listens(s) \/ AcceptFails(s)
      PROVE  IInv'
  <2>1. TypeOK'
    BY <1>2 DEF IInv, TypeOK, HandleStartServer, Start, HandleStopServer, Listens, AcceptFails,
       socketVars, objectVars, serverVars, dartVars
  <2>2. UNCHANGED <<socketVars, plugin, queue, thread>>
    BY <1>2 DEF HandleStartServer, HandleStopServer, Listens, AcceptFails
  <2> QED
    BY <2>1, <2>2, QuietKeeps
<1> QED
  BY <1>1, <1>2, HandleConnectKeepsInv, HandleDisconnectKeepsInv, ConnectEndsKeepsInv,
     AcceptsKeepsInv, LocksKeepsInv, PostsKeepsInv, LoadsKeepsInv, ReadsKeepsInv,
     ReaderEndsKeepsInv, LinkDropsKeepsInv, DestroyKeepsInv, DrainKeepsInv, DrainLateKeepsInv
     DEF Next

\* While the plugin lives, every socket with a link is in one place where it can be
\* closed, or was taken by a reader not its own, and a connection that Close() would
\* close has its own socket, whatever is used again under old readers.
THEOREM SocketsInOnePlace == Spec => []SocketsOwned
<1>1. IInv /\ [Next]_vars => IInv'
  BY NextIInv
<1>2. IInv => SocketsOwned
  BY IInvOwned
<1> QED
  BY <1>1, <1>2, InitIInv, PTL DEF Spec

\* Every variable keeps its type.
THEOREM WindowsTypes == Spec => []TypeOK
<1>1. IInv /\ [Next]_vars => IInv'
  BY NextIInv
<1>2. IInv => TypeOK
  BY DEF IInv
<1> QED
  BY <1>1, <1>2, InitIInv, PTL DEF Spec
=============================================================================
