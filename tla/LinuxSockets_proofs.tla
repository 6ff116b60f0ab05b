------------------------ MODULE LinuxSockets_proofs ------------------------
(***************************************************************************)
(* Proofs about LinuxSockets, for any sets of connections, servers and     *)
(* descriptors, whether or not memory is used again: every descriptor has  *)
(* one owner.                                                              *)
(***************************************************************************)
EXTENDS LinuxSockets, SequenceTheorems, TLAPS

Holding(s) == acceptor[s].at = "holding"

\* The maps hold objects that were made, each the last one at its address.
Names == /\ connections \cup servers \subseteq made
         /\ \A o \in Objects \ made : heir[o] = o
         /\ \A o \in connections \cup servers : heir[o] = o

\* A client in hand is no object yet, has a descriptor, and is in one hand; a
\* server that was not started has no thread.
Hands == /\ \A s \in Servers : acceptor[s].at \in {"holding", "announcing"}
                                   => acceptor[s].on \in Conns
         /\ main.at = "connecting" => main.obj \in Conns
         /\ \A c \in InHand : c \notin made /\ \E f \in Fds : file[f] = c
         /\ \A s, t \in Servers :
               Holding(s) /\ Holding(t) /\ acceptor[s].on = acceptor[t].on => s = t
         /\ \A s \in Servers :
               main.at = "connecting" /\ Holding(s) => acceptor[s].on # main.obj
         /\ \A s \in Servers \ made : acceptor[s].at = "none"

\* A socket has one descriptor.
OneName == \A f, g \in Fds : file[f] = file[g] /\ file[f] # None => f = g

\* Between the two steps of a disconnect the object is closed but in the map.
Erasing == main.at = "erasing" => /\ main.obj \in Objects
                                  /\ socket[main.obj] = None
                                  /\ main.obj \notin advertised

\* What the maps, the descriptors and the threads that hold clients agree on.
Owned == /\ ObjectsOwn /\ NoneLeaked /\ advertised \subseteq servers
         /\ Names /\ Hands /\ OneName /\ Erasing

IInv == TypeOK /\ Owned /\ StraysOnlyWhenGone

-----------------------------------------------------------------------------
\* What it is to have a client in hand, without the set of such clients.
LEMMA InHandDef ==
  ASSUME NEW c
  PROVE  c \in InHand <=> \/ \E s \in Servers : Holding(s) /\ acceptor[s].on = c
                          \/ main.at = "connecting" /\ main.obj = c
  BY DEF InHand, Holding

\* The plugin starts with no sockets.
LEMMA InitIInv == Init => IInv
<1> SUFFICES ASSUME Init PROVE IInv
  OBVIOUS
<1>1. TypeOK
  BY NamesAssumption DEF Init, NoAcceptor, TypeOK, Objects, Idle, NoReader
<1>2. InHand = {}
  BY DEF Init, NoAcceptor, InHand, Idle
<1>3. ObjectsOwn /\ NoneLeaked /\ StraysOnlyWhenGone /\ advertised \subseteq servers
  BY DEF Init, NoAcceptor, ObjectsOwn, NoneLeaked, StraysOnlyWhenGone
<1>4. Names /\ OneName /\ Erasing
  BY DEF Init, NoAcceptor, Names, OneName, Erasing, Idle
<1>5. Hands
  BY <1>2 DEF Init, NoAcceptor, Hands, Holding, Idle
<1> QED
  BY <1>1, <1>3, <1>4, <1>5 DEF IInv, Owned

\* Making an object keeps the types of what it changes.
LEMMA MakeType ==
  ASSUME TypeOK, NEW o \in Objects, NEW f \in Fds, Make(o, f)
  PROVE  /\ made' \subseteq Objects /\ running' \subseteq Objects
         /\ socket' \in [Objects -> Fds \cup {None}]
         /\ heir' \in [Objects -> Objects]
<1>1. /\ made' = made \cup {o} /\ socket' = [socket EXCEPT ![o] = f]
      /\ running' = running \cup {o}
  BY DEF Make
<1>2. heir' = heir \/ \E d \in made :
          heir' = [x \in Objects |-> IF heir[x] = d THEN o ELSE heir[x]]
  BY DEF Make
<1>3. heir' \in [Objects -> Objects]
  BY <1>2 DEF TypeOK
<1> QED
  BY <1>1, <1>3 DEF TypeOK

\* Every step keeps the types.
LEMMA TypeKept == TypeOK /\ Hands /\ Erasing /\ [Next]_vars => TypeOK'
<1> SUFFICES ASSUME TypeOK, Hands, Erasing, [Next]_vars PROVE TypeOK'
  OBVIOUS
<1>o. Conns \subseteq Objects /\ Servers \subseteq Objects
  BY DEF Objects
<1>1. CASE ConnectFails
  BY <1>1 DEF ConnectFails, TypeOK, Idle, objectVars, pluginVars, dartVars
<1>2. CASE ConnectDone
  <2>1. PICK f \in Fds : Admit(main.obj, f)
    BY <1>2 DEF ConnectDone
  <2>2. main.obj \in Conns
    BY <1>2 DEF ConnectDone, Hands
  <2>3. /\ made' \subseteq Objects /\ running' \subseteq Objects
        /\ socket' \in [Objects -> Fds \cup {None}]
        /\ heir' \in [Objects -> Objects]
    BY <1>o, <2>1, <2>2, MakeType DEF Admit
  <2>4. /\ reader' = [reader EXCEPT ![main.obj] = [at |-> "loop", on |-> None]]
        /\ connections' = connections \cup {main.obj} /\ link' = link \cup {main.obj}
        /\ main' = Idle
        /\ UNCHANGED <<file, servers, advertised, alive, queue, acceptor, missed, told>>
        /\ heard' = heard \cup {main.obj}
    BY <1>2, <2>1 DEF ConnectDone, Admit, dartVars
  <2> QED
    BY <2>2, <2>3, <2>4 DEF TypeOK, Idle
<1>3. CASE Erases
  BY <1>3 DEF Erases, CloseSocket, Erasing, TypeOK, Idle, dartVars
<1>4. CASE WriteEnds
  BY <1>4 DEF WriteEnds, TypeOK, Idle, kernelVars, objectVars, pluginVars, dartVars
<1>5. CASE Delivers
  <2>1. /\ queue # <<>> /\ queue' = Tail(queue)
        /\ UNCHANGED <<kernelVars, objectVars, pluginVars, main, reader, acceptor>>
    BY <1>5 DEF Delivers
  <2>2. Head(queue) \in [on : Objects, conn : Conns]
    BY <2>1, HeadTailProperties DEF TypeOK
  <2>3. /\ heard' \subseteq heard \cup {Head(queue).conn}
        /\ missed' \subseteq missed \cup {Head(queue).conn}
        /\ told' \subseteq told \cup {Head(queue).conn}
    BY <1>5 DEF Delivers, dartVars
  <2>4. queue' \in Seq([on : Objects, conn : Conns])
    BY <2>1, HeadTailProperties DEF TypeOK
  <2> QED
    BY <2>1, <2>2, <2>3, <2>4 DEF TypeOK, kernelVars, objectVars, pluginVars
<1>6. CASE Dispose
  <2>1. /\ file' \in [Fds -> Objects \cup {None}]
        /\ socket' \in [Objects -> Fds \cup {None}]
        /\ link' \subseteq Conns /\ running' \subseteq Objects
    BY <1>6 DEF Dispose, TypeOK
  <2>2. reader' \in [Conns -> [at : {"none", "loop", "loaded", "over", "done"},
                               on : Fds \cup {None}]]
    BY <1>6 DEF Dispose, NoReader
  <2>3. /\ connections' = {} /\ servers' = {} /\ advertised' = {} /\ alive' = FALSE
        /\ queue' = <<>> /\ heard' = {} /\ missed' = {} /\ told' = {}
        /\ UNCHANGED <<heir, made, main, acceptor>>
    BY <1>6 DEF Dispose
  <2>4. queue' \in Seq([on : Objects, conn : Conns])
    BY <2>3
  <2>5. /\ heir' \in [Objects -> Objects] /\ made' \subseteq Objects
        /\ main' = main /\ acceptor' = acceptor
    BY <2>3 DEF TypeOK
  <2> QED
    BY <2>1, <2>2, <2>3, <2>4, <2>5 DEF TypeOK
<1>7. ASSUME NEW c \in Conns, WriteStart(c) PROVE TypeOK'
  BY <1>o, <1>7 DEF WriteStart, TypeOK, kernelVars, objectVars, pluginVars, dartVars
<1>8. ASSUME NEW c \in Conns, Loads(c) \/ Reads(c) PROVE TypeOK'
  <2>1. /\ UNCHANGED <<kernelVars, pluginVars, socket, heir, made, main, acceptor, dartVars>>
        /\ UNCHANGED <<running, queue>>
    BY <1>8 DEF Loads, Reads, ReaderStep
  <2>2. reader' \in [Conns -> [at : {"none", "loop", "loaded", "over", "done"},
                               on : Fds \cup {None}]]
    <3>1. CASE Loads(c)
      BY <3>1 DEF Loads, GoesTo, TypeOK
    <3>2. CASE Reads(c)
      BY <3>2 DEF Reads, GoesTo, TypeOK
    <3> QED
      BY <1>8, <3>1, <3>2
  <2> QED
    BY <2>1, <2>2 DEF TypeOK, kernelVars, pluginVars, dartVars
<1>9. ASSUME NEW c \in Conns, Leaves(c) PROVE TypeOK'
  <2>1. /\ UNCHANGED <<kernelVars, pluginVars, socket, heir, made, main, acceptor, dartVars>>
        /\ running' = running \ {heir[c]}
        /\ queue' = Append(queue, [on |-> c, conn |-> c])
        /\ reader' = [reader EXCEPT ![c] = [at |-> "done", on |-> None]]
    BY <1>9 DEF Leaves, ReaderStep, Post, GoesTo
  <2>2. queue' \in Seq([on : Objects, conn : Conns])
    BY <1>o, <2>1, AppendProperties DEF TypeOK
  <2> QED
    BY <2>1, <2>2 DEF TypeOK, kernelVars, pluginVars, dartVars
<1>10. ASSUME NEW c \in Conns, LinkDrops(c) PROVE TypeOK'
  BY <1>10 DEF LinkDrops, TypeOK, objectVars, pluginVars, dartVars
<1>11. ASSUME NEW s \in Servers, ServerFails(s) PROVE TypeOK'
  BY <1>o, <1>11 DEF ServerFails, TypeOK, kernelVars, pluginVars, dartVars
<1>12. ASSUME NEW s \in Servers, Looks(s) \/ AcceptEnds(s) PROVE TypeOK'
  <2>1. UNCHANGED <<pluginVars, queue, main, dartVars, kernelVars, objectVars, reader>>
    BY <1>12 DEF Looks, AcceptEnds, AcceptStep
  <2>2. acceptor' \in [Servers -> [at : {"none", "loop", "looked", "holding", "announcing",
                                        "done"},
                                   on : Objects \cup Fds \cup {None}]]
    BY <1>o, <1>12 DEF Looks, AcceptEnds, Turns, TypeOK
  <2> QED
    BY <2>1, <2>2 DEF TypeOK, kernelVars, objectVars, pluginVars, dartVars
<1>13. ASSUME NEW s \in Servers, Registers(s) PROVE TypeOK'
  <2> DEFINE c == acceptor[s].on
  <2>1. PICK f \in Fds : Admit(c, f)
    BY <1>13 DEF Registers
  <2>2. c \in Conns
    BY <1>13 DEF Registers, Hands
  <2>3. /\ made' \subseteq Objects /\ running' \subseteq Objects
        /\ socket' \in [Objects -> Fds \cup {None}]
        /\ heir' \in [Objects -> Objects]
    BY <1>o, <2>1, <2>2, MakeType DEF Admit
  <2>4. /\ reader' = [reader EXCEPT ![c] = [at |-> "loop", on |-> None]]
        /\ connections' = connections \cup {c}
        /\ acceptor' = [acceptor EXCEPT ![s] = [at |-> "announcing", on |-> c]]
        /\ UNCHANGED <<file, link, servers, advertised, alive, queue, main, dartVars>>
    BY <1>13, <2>1 DEF Registers, Turns, Admit, kernelVars
  <2> QED
    BY <1>o, <2>2, <2>3, <2>4 DEF TypeOK, dartVars
<1>14. ASSUME NEW s \in Servers, Announces(s) PROVE TypeOK'
  <2>1. /\ queue' = Append(queue, [on |-> s, conn |-> acceptor[s].on])
        /\ acceptor' = [acceptor EXCEPT ![s] = [at |-> "loop", on |-> None]]
        /\ UNCHANGED <<kernelVars, objectVars, pluginVars, main, reader, dartVars>>
    BY <1>14 DEF Announces, Turns, Post
  <2>2. queue' \in Seq([on : Objects, conn : Conns])
    BY <1>o, <1>14, <2>1, AppendProperties DEF TypeOK, Announces, Hands
  <2> QED
    BY <2>1, <2>2 DEF TypeOK, kernelVars, objectVars, pluginVars, dartVars
<1>15. ASSUME NEW c \in Conns, NEW f \in Fds, ConnectStart(c, f) PROVE TypeOK'
  BY <1>o, <1>15 DEF ConnectStart, TypeOK, objectVars, pluginVars, dartVars
<1>16. ASSUME NEW s \in Servers, NEW f \in Fds, ServerStarts(s, f) PROVE TypeOK'
  <2>1. /\ made' \subseteq Objects /\ running' \subseteq Objects
        /\ socket' \in [Objects -> Fds \cup {None}]
        /\ heir' \in [Objects -> Objects]
    BY <1>o, <1>16, MakeType DEF ServerStarts
  <2>2. /\ file' = [file EXCEPT ![f] = s] /\ advertised' \in {advertised, advertised \cup {s}}
        /\ acceptor' = [acceptor EXCEPT ![s] = [at |-> "loop", on |-> None]]
        /\ servers' = servers \cup {s}
        /\ UNCHANGED <<link, connections, alive, queue, main, reader, dartVars>>
    BY <1>16 DEF ServerStarts, Start, Advertise
  <2> QED
    BY <1>o, <2>1, <2>2 DEF TypeOK, dartVars
<1>17. ASSUME NEW s \in Servers, NEW c \in Conns, NEW f \in Fds, Accepts(s, c, f)
       PROVE  TypeOK'
  BY <1>o, <1>17 DEF Accepts, AcceptStep, Turns, TypeOK, objectVars, pluginVars, dartVars
<1>18. ASSUME NEW o \in Objects, Closes(o) PROVE TypeOK'
  BY <1>18 DEF Closes, CloseSocket, Withdraw, TypeOK, dartVars
<1>19. CASE UNCHANGED vars
  BY <1>19 DEF vars, kernelVars, objectVars, pluginVars, dartVars, TypeOK
<1> QED
  BY <1>1, <1>2, <1>3, <1>4, <1>5, <1>6, <1>7, <1>8, <1>9, <1>10, <1>11, <1>12, <1>13,
     <1>14, <1>15, <1>16, <1>17, <1>18, <1>19 DEF Next
-----------------------------------------------------------------------------
\* Reading the parts of Owned that the steps below need most.
LEMMA OwnedFacts ==
  ASSUME Owned
  PROVE  /\ connections \cup servers \subseteq made
         /\ \A f \in Fds : file[f] # None =>
               \/ file[f] \in connections \cup servers /\ socket[file[f]] = f
               \/ file[f] \in InHand
         /\ \A o \in connections \cup servers : socket[o] # None => file[socket[o]] = o
         /\ \A o \in connections \cup servers :
               socket[o] = None => main = [at |-> "erasing", obj |-> o]
         /\ \A c \in InHand : c \notin made /\ \E f \in Fds : file[f] = c
  BY DEF Owned, Names, NoneLeaked, ObjectsOwn, Hands

\* A client in hand becomes an object: it leaves the hand for the map.
LEMMA AdmitKeeps ==
  ASSUME TypeOK, Owned, NEW c \in Conns, NEW f \in Fds,
         c \in InHand, file[f] = c, Admit(c, f),
         UNCHANGED <<file, servers, advertised>>,
         \A d : d \in InHand' <=> d \in InHand /\ d # c,
         main' = main \/ main.at # "erasing"
  PROVE  /\ ObjectsOwn' /\ NoneLeaked' /\ advertised' \subseteq servers'
         /\ Names' /\ OneName'
         /\ \A d \in InHand' : d \notin made' /\ \E g \in Fds : file'[g] = d
<1>1. /\ made' = made \cup {c} /\ socket' = [socket EXCEPT ![c] = f]
      /\ connections' = connections \cup {c} /\ c \in Objects
  BY DEF Admit, Make, Objects
<1>2. c \notin made /\ c \notin connections \cup servers /\ f # None
  BY OwnedFacts, NamesAssumption
<1>3. socket'[c] = f /\ \A o \in Objects : o # c => socket'[o] = socket[o]
  BY <1>1 DEF TypeOK
<1>4. connections \cup servers \subseteq Objects
  BY DEF TypeOK, Objects
<1>5. ObjectsOwn'
  <2>1. ASSUME NEW o \in connections' \cup servers'
        PROVE  /\ socket'[o] # None => file'[socket'[o]] = o
               /\ socket'[o] = None => main' = [at |-> "erasing", obj |-> o]
    <3>1. CASE o = c
      BY <1>2, <1>3, <3>1
    <3>2. CASE o # c
      <4>1. o \in connections \cup servers /\ socket'[o] = socket[o]
        BY <1>1, <1>3, <1>4, <2>1, <3>2
      <4>2. socket[o] = None => main = [at |-> "erasing", obj |-> o] /\ main' = main
        BY <4>1, OwnedFacts
      <4> QED
        BY <4>1, <4>2, OwnedFacts
    <3> QED
      BY <3>1, <3>2
  <2> QED
    BY <2>1 DEF ObjectsOwn
<1>6. NoneLeaked'
  <2>1. ASSUME NEW g \in Fds, file'[g] # None
        PROVE  \/ file'[g] \in connections' \cup servers' /\ socket'[file'[g]] = g
               \/ file'[g] \in InHand'
    <3>1. CASE file[g] = c
      <4>1. g = f
        BY <1>2, <2>1, <3>1, NamesAssumption DEF Owned, OneName
      <4> QED
        BY <1>1, <1>3, <3>1, <4>1
    <3>2. CASE file[g] # c
      BY <1>1, <1>3, <1>4, <2>1, <3>2, OwnedFacts
    <3> QED
      BY <3>1, <3>2
  <2> QED
    BY <2>1 DEF NoneLeaked
<1>7. Names'
  <2>1. heir[c] = c /\ \A o \in Objects \ made : heir[o] = o
    BY <1>1, <1>2 DEF Owned, Names
  <2>2. \/ heir' = heir
        \/ \E d \in made \ (connections \cup servers) :
              heir' = [x \in Objects |-> IF heir[x] = d THEN c ELSE heir[x]]
    BY DEF Admit, Make
  <2>3. \A o \in connections \cup servers : heir[o] = o
    BY DEF Owned, Names
  <2>4. ASSUME NEW o \in Objects, o \notin made \/ o \in connections \cup servers
        PROVE  heir'[o] = o
    BY <2>1, <2>2, <2>3, <2>4
  <2> QED
    BY <1>1, <1>4, <2>4, OwnedFacts DEF Names
<1>8. OneName' /\ advertised' \subseteq servers'
  BY DEF Owned, OneName
<1>9. \A d \in InHand' : d \notin made' /\ \E g \in Fds : file'[g] = d
  BY <1>1, OwnedFacts
<1> QED
  BY <1>5, <1>6, <1>7, <1>8, <1>9

\* The kernel gives a free descriptor to a socket that had none: nobody else's
\* descriptor changes its meaning.
LEMMA OpenKeeps ==
  ASSUME TypeOK, Owned, NEW o \in Objects, NEW f \in Fds,
         Unused(o), Opens(f), file' = [file EXCEPT ![f] = o]
  PROVE  /\ OneName'
         /\ file'[f] = o /\ o \notin InHand /\ o \notin made
         /\ \A g \in Fds : g # f => file'[g] = file[g]
         /\ \A p \in connections \cup servers :
               socket[p] # None => file'[socket[p]] = p /\ socket[p] # f
         /\ \A d \in InHand : \E g \in Fds : file'[g] = d
<1>1. file'[f] = o /\ \A g \in Fds : g # f => file'[g] = file[g]
  BY DEF TypeOK
<1>2. o \notin made /\ \A g \in Fds : file[g] # o
  BY DEF Unused
<1>3. file[f] = None /\ \A p \in Objects : p # None
  BY NamesAssumption DEF Opens
<1>4. o \notin InHand
  BY <1>2, OwnedFacts
<1>5. OneName'
  BY <1>1, <1>2 DEF Owned, OneName
<1>6. ASSUME NEW p \in connections \cup servers, socket[p] # None
      PROVE  file'[socket[p]] = p /\ socket[p] # f
  <2>1. p \in Objects /\ socket[p] \in Fds
    BY <1>6 DEF TypeOK, Objects
  <2>2. file[socket[p]] = p
    BY <1>6, OwnedFacts
  <2> QED
    BY <1>1, <1>3, <2>1, <2>2
<1>7. ASSUME NEW d \in InHand PROVE \E g \in Fds : file'[g] = d
  <2>1. PICK g \in Fds : file[g] = d
    BY OwnedFacts
  <2>2. d \in Objects
    BY InHandDef DEF Owned, Hands, Holding, Objects
  <2> QED
    BY <1>1, <1>3, <2>1, <2>2
<1> QED
  BY <1>1, <1>2, <1>4, <1>5, <1>6, <1>7

\* Closing an object frees its own descriptor and no other's.
LEMMA CloseKeeps ==
  ASSUME TypeOK, Owned, NEW o \in connections \cup servers, CloseSocket(o)
  PROVE  /\ OneName'
         /\ socket'[o] = None
         /\ \A p \in Objects : p # o => socket'[p] = socket[p]
         /\ \A g \in Fds : file'[g] # None => file'[g] = file[g] /\ file[g] # o
         /\ \A g \in Fds : file[g] # o => file'[g] = file[g]
<1>1. o \in Objects /\ o # None
  BY NamesAssumption DEF TypeOK, Objects
<1>2. socket'[o] = None /\ \A p \in Objects : p # o => socket'[p] = socket[p]
  BY <1>1 DEF CloseSocket, TypeOK
<1>3. file' = [g \in Fds |-> IF g = socket[o] THEN None ELSE file[g]]
  BY DEF CloseSocket
<1>4. ASSUME NEW g \in Fds
      PROVE  g = socket[o] <=> file[g] = o
  <2>1. g = socket[o] => file[g] = o
    BY OwnedFacts, NamesAssumption
  <2>2. file[g] = o => g = socket[o]
    BY <1>1, OwnedFacts
  <2> QED
    BY <2>1, <2>2
<1>5. /\ \A g \in Fds : file'[g] # None => file'[g] = file[g] /\ file[g] # o
      /\ \A g \in Fds : file[g] # o => file'[g] = file[g]
  BY <1>3, <1>4
<1>6. OneName'
  BY <1>5 DEF Owned, OneName
<1> QED
  BY <1>2, <1>5, <1>6

\* A step that changes no owner, no descriptor and no hand.
LEMMA QuietKeeps ==
  ASSUME TypeOK, Owned,
         UNCHANGED <<file, socket, heir, made, connections, servers, advertised>>,
         \A s \in Servers : \/ acceptor'[s] = acceptor[s]
                            \/ /\ acceptor[s].at \in {"loop", "looked", "announcing"}
                               /\ acceptor'[s].at \in {"loop", "looked", "done"},
         main' = main \/ {main.at, main'.at} \subseteq {"idle", "writing"}
  PROVE  Owned'
<1>1. \A s \in Servers : /\ Holding(s)' <=> Holding(s)
                         /\ Holding(s) => acceptor'[s] = acceptor[s]
  BY DEF Holding
<1>2. ASSUME NEW c PROVE c \in InHand' <=> c \in InHand
  <2>1. c \in InHand <=> \/ \E s \in Servers : Holding(s) /\ acceptor[s].on = c
                         \/ main.at = "connecting" /\ main.obj = c
    BY InHandDef
  <2>2. c \in InHand' <=> \/ \E s \in Servers : Holding(s)' /\ acceptor'[s].on = c
                          \/ main'.at = "connecting" /\ main'.obj = c
    BY DEF InHand, Holding
  <2> QED
    BY <1>1, <2>1, <2>2
<1>3. ObjectsOwn'
  BY OwnedFacts DEF ObjectsOwn
<1>4. NoneLeaked'
  BY <1>2, OwnedFacts DEF NoneLeaked
<1>5. Names' /\ OneName' /\ advertised' \subseteq servers'
  BY DEF Owned, Names, OneName
<1>6. Hands'
  <2>1. \A s \in Servers : acceptor'[s].at \in {"holding", "announcing"}
                               => acceptor'[s].on \in Conns
    BY DEF Owned, Hands
  <2>2. main'.at = "connecting" => main'.obj \in Conns
    BY DEF Owned, Hands
  <2>3. \A c \in InHand' : c \notin made' /\ \E f \in Fds : file'[f] = c
    BY <1>2, OwnedFacts
  <2>4. \A s, t \in Servers :
            Holding(s)' /\ Holding(t)' /\ acceptor'[s].on = acceptor'[t].on => s = t
    BY <1>1 DEF Owned, Hands
  <2>5. \A s \in Servers : main'.at = "connecting" /\ Holding(s)' => acceptor'[s].on # main'.obj
    BY <1>1 DEF Owned, Hands
  <2>6. \A s \in Servers \ made' : acceptor'[s].at = "none"
    BY DEF Owned, Hands
  <2> QED
    BY <2>1, <2>2, <2>3, <2>4, <2>5, <2>6 DEF Hands, Holding
<1>7. Erasing'
  BY DEF Owned, Erasing
<1> QED
  BY <1>3, <1>4, <1>5, <1>6, <1>7 DEF Owned

-----------------------------------------------------------------------------
\* The steps of handle_connect().
LEMMA ConnectKeeps ==
  TypeOK /\ Owned
  /\ (ConnectFails \/ ConnectDone \/ \E c \in Conns, f \in Fds : ConnectStart(c, f))
  => Owned'
<1> SUFFICES ASSUME TypeOK, Owned,
                    ConnectFails \/ ConnectDone \/ \E c \in Conns, f \in Fds : ConnectStart(c, f)
             PROVE  Owned'
  OBVIOUS
<1>1. CASE ConnectFails
  <2> DEFINE c == main.obj
  <2>1. /\ main.at = "connecting" /\ main' = Idle
        /\ file' = [f \in Fds |-> IF file[f] = c THEN None ELSE file[f]]
        /\ UNCHANGED <<socket, heir, made, connections, servers, advertised, acceptor>>
    BY <1>1 DEF ConnectFails, objectVars, pluginVars
  <2>2. c \in InHand /\ c \in Conns /\ c # None
    BY <2>1, InHandDef, NamesAssumption DEF Owned, Hands, Objects
  <2>3. ASSUME NEW d PROVE d \in InHand' <=> d \in InHand /\ d # c
    <3>1. d \in InHand' <=> \E s \in Servers : Holding(s) /\ acceptor[s].on = d
      BY <2>1 DEF InHand, Holding, Idle
    <3>2. \A s \in Servers : Holding(s) => acceptor[s].on # c
      BY <2>1 DEF Owned, Hands
    <3> QED
      BY <2>1, <3>1, <3>2, InHandDef
  <2>4. /\ \A f \in Fds : file'[f] # None => file'[f] = file[f] /\ file[f] # c
        /\ \A f \in Fds : file[f] # c => file'[f] = file[f]
    BY <2>1
  <2>5. ASSUME NEW o \in connections \cup servers
        PROVE  socket[o] \in Fds /\ file[socket[o]] = o /\ o # c
    <3>1. socket[o] # None
      BY <2>1, OwnedFacts
    <3> QED
      BY <2>2, <3>1, OwnedFacts DEF TypeOK, Objects
  <2>6. ObjectsOwn'
    BY <2>1, <2>4, <2>5, NamesAssumption DEF ObjectsOwn
  <2>7. NoneLeaked'
    BY <2>1, <2>3, <2>4, OwnedFacts DEF NoneLeaked
  <2>8. Names' /\ OneName' /\ advertised' \subseteq servers' /\ Erasing'
    BY <2>1, <2>4 DEF Owned, Names, OneName, Erasing, Idle
  <2>9. \A d \in InHand' : d \notin made' /\ \E f \in Fds : file'[f] = d
    BY <2>1, <2>3, <2>4, OwnedFacts
  <2>10. Hands'
    BY <2>1, <2>9 DEF Owned, Hands, Holding, Idle
  <2> QED
    BY <2>6, <2>7, <2>8, <2>10 DEF Owned
<1>2. CASE ConnectDone
  <2> DEFINE c == main.obj
  <2>1. PICK f \in Fds : file[f] = c /\ Admit(c, f)
    BY <1>2 DEF ConnectDone
  <2>2. /\ main.at = "connecting" /\ main' = Idle
        /\ UNCHANGED <<file, servers, advertised, acceptor>>
    BY <1>2 DEF ConnectDone
  <2>3. c \in InHand /\ c \in Conns
    BY <2>2, InHandDef DEF Owned, Hands
  <2>4. ASSUME NEW d PROVE d \in InHand' <=> d \in InHand /\ d # c
    <3>1. d \in InHand' <=> \E s \in Servers : Holding(s) /\ acceptor[s].on = d
      BY <2>2 DEF InHand, Holding, Idle
    <3>2. \A s \in Servers : Holding(s) => acceptor[s].on # c
      BY <2>2 DEF Owned, Hands
    <3> QED
      BY <2>2, <3>1, <3>2, InHandDef
  <2>5. /\ ObjectsOwn' /\ NoneLeaked' /\ advertised' \subseteq servers'
        /\ Names' /\ OneName'
        /\ \A d \in InHand' : d \notin made' /\ \E g \in Fds : file'[g] = d
    <3>1. main' = main \/ main.at # "erasing"
      BY <2>2
    <3> QED
      BY <2>1, <2>2, <2>3, <2>4, <3>1, AdmitKeeps
  <2>6. made \subseteq made'
    BY <2>1 DEF Admit, Make
  <2>7. Hands' /\ Erasing'
    BY <2>2, <2>5, <2>6 DEF Owned, Hands, Holding, Erasing, Idle
  <2> QED
    BY <2>5, <2>7 DEF Owned
<1>3. ASSUME NEW c \in Conns, NEW f \in Fds, ConnectStart(c, f) PROVE Owned'
  <2>1. /\ main.at = "idle" /\ Unused(c) /\ Opens(f) /\ file' = [file EXCEPT ![f] = c]
        /\ main' = [at |-> "connecting", obj |-> c]
        /\ UNCHANGED <<socket, heir, made, connections, servers, advertised, acceptor>>
    BY <1>3 DEF ConnectStart, MainIdle, Fresh, objectVars, pluginVars
  <2>2. /\ OneName'
        /\ file'[f] = c /\ c \notin InHand /\ c \notin made
        /\ \A g \in Fds : g # f => file'[g] = file[g]
        /\ \A p \in connections \cup servers :
              socket[p] # None => file'[socket[p]] = p /\ socket[p] # f
        /\ \A d \in InHand : \E g \in Fds : file'[g] = d
    BY <2>1, OpenKeeps DEF Objects
  <2>3. ASSUME NEW d PROVE d \in InHand' <=> d \in InHand \/ d = c
    <3>1. d \in InHand' <=> \/ \E s \in Servers : Holding(s) /\ acceptor[s].on = d
                            \/ d = c
      BY <2>1 DEF InHand, Holding
    <3> QED
      BY <2>1, <3>1, InHandDef
  <2>4. ObjectsOwn'
    BY <2>1, <2>2, OwnedFacts DEF ObjectsOwn
  <2>5. NoneLeaked'
    BY <2>1, <2>2, <2>3, OwnedFacts DEF NoneLeaked
  <2>6. Names' /\ advertised' \subseteq servers' /\ Erasing'
    BY <2>1 DEF Owned, Names, Erasing
  <2>7. \A d \in InHand' : d \notin made' /\ \E g \in Fds : file'[g] = d
    BY <2>1, <2>2, <2>3, OwnedFacts
  <2>8. \A s \in Servers : Holding(s) => acceptor[s].on # c
    BY <2>2, InHandDef
  <2>9. Hands'
    BY <2>1, <2>7, <2>8 DEF Owned, Hands, Holding
  <2> QED
    BY <2>2, <2>4, <2>5, <2>6, <2>9 DEF Owned
<1> QED
  BY <1>1, <1>2, <1>3

\* The steps of an accept thread that take a client in hand and let it go.
LEMMA AcceptKeeps ==
  ASSUME TypeOK, Owned, NEW s \in Servers,
         Registers(s) \/ \E c \in Conns, f \in Fds : Accepts(s, c, f)
  PROVE  Owned'
<1>1. CASE Registers(s)
  <2> DEFINE c == acceptor[s].on
  <2>1. PICK f \in Fds : file[f] = c /\ Admit(c, f)
    BY <1>1 DEF Registers
  <2>2. /\ Holding(s) /\ acceptor' = [acceptor EXCEPT ![s] = [at |-> "announcing", on |-> c]]
        /\ UNCHANGED <<file, servers, advertised, main>>
    BY <1>1 DEF Registers, Turns, Holding, kernelVars
  <2>3. c \in InHand /\ c \in Conns
    BY <2>2, InHandDef DEF Owned, Hands, Holding
  <2>4. /\ acceptor'[s].at = "announcing" /\ acceptor'[s].on = c
        /\ \A t \in Servers : t # s => acceptor'[t] = acceptor[t]
    BY <2>2 DEF TypeOK
  <2>5. ASSUME NEW d PROVE d \in InHand' <=> d \in InHand /\ d # c
    <3>1. d \in InHand' <=> \/ \E t \in Servers : t # s /\ Holding(t) /\ acceptor[t].on = d
                            \/ main.at = "connecting" /\ main.obj = d
      BY <2>2, <2>4 DEF InHand, Holding
    <3>2. \A t \in Servers : Holding(t) /\ acceptor[t].on = c => t = s
      BY <2>2 DEF Owned, Hands
    <3>3. main.at = "connecting" => main.obj # c
      BY <2>2 DEF Owned, Hands
    <3> QED
      BY <2>2, <3>1, <3>2, <3>3, InHandDef
  <2>6. /\ ObjectsOwn' /\ NoneLeaked' /\ advertised' \subseteq servers'
        /\ Names' /\ OneName'
        /\ \A d \in InHand' : d \notin made' /\ \E g \in Fds : file'[g] = d
    BY <2>1, <2>2, <2>3, <2>5, AdmitKeeps
  <2>7. Hands'
    <3>1. made \subseteq made' /\ acceptor[s].at # "none"
      BY <2>1, <2>2 DEF Admit, Make, Holding
    <3>2. \A t \in Servers \ made' : acceptor'[t].at = "none"
      BY <2>4, <3>1 DEF Owned, Hands
    <3> QED
      BY <2>2, <2>3, <2>4, <2>6, <3>2 DEF Owned, Hands, Holding
  <2>8. Erasing'
    <3>1. ASSUME main.at = "erasing" PROVE socket'[main.obj] = None
      <4>1. main.obj \in Objects /\ socket[main.obj] = None /\ main.obj \in Objects
        BY <3>1 DEF Owned, Erasing
      <4>2. socket' = [socket EXCEPT ![c] = f]
        BY <2>1 DEF Admit, Make
      <4>3. main.obj # c
        BY <1>1, <2>3, <3>1 DEF Registers, MutexFree
      <4> QED
        BY <4>1, <4>2, <4>3 DEF TypeOK
    <3> QED
      BY <2>2, <3>1 DEF Owned, Erasing
  <2> QED
    BY <2>6, <2>7, <2>8 DEF Owned
<1>2. ASSUME NEW c \in Conns, NEW f \in Fds, Accepts(s, c, f) PROVE Owned'
  <2>1. /\ ~Holding(s) /\ Unused(c) /\ Opens(f) /\ file' = [file EXCEPT ![f] = c]
        /\ acceptor' = [acceptor EXCEPT ![s] = [at |-> "holding", on |-> c]]
        /\ UNCHANGED <<socket, heir, made, connections, servers, advertised, main>>
    BY <1>2 DEF Accepts, AcceptStep, Turns, Holding, Fresh, objectVars, pluginVars
  <2>2. /\ OneName'
        /\ file'[f] = c /\ c \notin InHand /\ c \notin made
        /\ \A g \in Fds : g # f => file'[g] = file[g]
        /\ \A p \in connections \cup servers :
              socket[p] # None => file'[socket[p]] = p /\ socket[p] # f
        /\ \A d \in InHand : \E g \in Fds : file'[g] = d
    BY <2>1, OpenKeeps DEF Objects
  <2>3. /\ acceptor'[s].at = "holding" /\ acceptor'[s].on = c
        /\ \A t \in Servers : t # s => acceptor'[t] = acceptor[t]
    BY <2>1 DEF TypeOK
  <2>4. ASSUME NEW d PROVE d \in InHand' <=> d \in InHand \/ d = c
    <3>1. d \in InHand' <=> \/ d = c
                            \/ \E t \in Servers : t # s /\ Holding(t) /\ acceptor[t].on = d
                            \/ main.at = "connecting" /\ main.obj = d
      BY <2>1, <2>3 DEF InHand, Holding
    <3> QED
      BY <2>1, <3>1, InHandDef
  <2>5. ObjectsOwn'
    BY <2>1, <2>2, OwnedFacts DEF ObjectsOwn
  <2>6. NoneLeaked'
    BY <2>1, <2>2, <2>4, OwnedFacts DEF NoneLeaked
  <2>7. Names' /\ advertised' \subseteq servers' /\ Erasing'
    BY <2>1 DEF Owned, Names, Erasing
  <2>8. \A d \in InHand' : d \notin made' /\ \E g \in Fds : file'[g] = d
    BY <2>1, <2>2, <2>4, OwnedFacts
  <2>9. /\ \A t \in Servers : Holding(t) => acceptor[t].on # c
        /\ main.at = "connecting" => main.obj # c
    BY <2>2, InHandDef
  <2>10. Hands'
    <3>1. \A t \in Servers \ made' : acceptor'[t].at = "none"
      BY <1>2, <2>1, <2>3 DEF Owned, Hands, Accepts
    <3> QED
      BY <2>1, <2>3, <2>8, <2>9, <3>1 DEF Owned, Hands, Holding
  <2> QED
    BY <2>2, <2>5, <2>6, <2>7, <2>10 DEF Owned
<1> QED
  BY <1>1, <1>2

\* The steps of handle_start_server().
LEMMA ServerKeeps ==
  ASSUME TypeOK, Owned, NEW s \in Servers,
         ServerFails(s) \/ \E f \in Fds : ServerStarts(s, f)
  PROVE  Owned'
<1>s. s \in Objects
  BY DEF Objects
<1>1. CASE ServerFails(s)
  <2>1. /\ Unused(s) /\ made' = made \cup {s}
        /\ UNCHANGED <<file, socket, heir, connections, servers, advertised, main, acceptor>>
    BY <1>1 DEF ServerFails, Fresh, kernelVars, pluginVars
  <2>2. InHand' = InHand /\ s \notin InHand
    BY <2>1, OwnedFacts DEF InHand, Unused
  <2>3. ObjectsOwn' /\ NoneLeaked'
    BY <2>1, <2>2, OwnedFacts DEF ObjectsOwn, NoneLeaked
  <2>4. Names' /\ OneName' /\ advertised' \subseteq servers' /\ Erasing'
    BY <2>1 DEF Owned, Names, OneName, Erasing
  <2>5. \A d \in InHand' : d \notin made' /\ \E g \in Fds : file'[g] = d
    BY <2>1, <2>2, OwnedFacts
  <2>6. Hands'
    BY <2>1, <2>5 DEF Owned, Hands, Holding
  <2> QED
    BY <2>3, <2>4, <2>6 DEF Owned
<1>2. ASSUME NEW f \in Fds, ServerStarts(s, f) PROVE Owned'
  <2>1. /\ main.at = "idle" /\ Unused(s) /\ Opens(f) /\ file' = [file EXCEPT ![f] = s]
        /\ acceptor' = [acceptor EXCEPT ![s] = [at |-> "loop", on |-> None]]
        /\ advertised' \in {advertised, advertised \cup {s}} /\ servers' = servers \cup {s}
        /\ made' = made \cup {s} /\ socket' = [socket EXCEPT ![s] = f]
        /\ UNCHANGED <<connections, main>>
    BY <1>2 DEF ServerStarts, MainIdle, Fresh, Start, Advertise, Make
  <2>2. /\ OneName'
        /\ file'[f] = s /\ s \notin InHand /\ s \notin made
        /\ \A g \in Fds : g # f => file'[g] = file[g]
        /\ \A p \in connections \cup servers :
              socket[p] # None => file'[socket[p]] = p /\ socket[p] # f
        /\ \A d \in InHand : \E g \in Fds : file'[g] = d
    BY <1>s, <2>1, OpenKeeps
  <2>3. /\ socket'[s] = f /\ f # None
        /\ \A p \in Objects : p # s => socket'[p] = socket[p]
        /\ s \notin connections \cup servers /\ connections \cup servers \subseteq Objects
    BY <1>s, <2>1, <2>2, OwnedFacts, NamesAssumption DEF TypeOK, Objects
  <2>4. acceptor[s].at = "none" /\ acceptor'[s] = [at |-> "loop", on |-> None]
    BY <2>1, <2>2 DEF TypeOK, Owned, Hands
  <2>5. \A t \in Servers : t # s => acceptor'[t] = acceptor[t]
    BY <2>1 DEF TypeOK
  <2>6. ASSUME NEW d PROVE d \in InHand' <=> d \in InHand
    <3>1. d \in InHand' <=> \E t \in Servers : t # s /\ Holding(t) /\ acceptor[t].on = d
      BY <2>1, <2>4, <2>5 DEF InHand, Holding
    <3> QED
      BY <2>1, <2>4, <3>1, InHandDef DEF Holding
  <2>7. ObjectsOwn'
    BY <2>1, <2>2, <2>3, OwnedFacts DEF ObjectsOwn
  <2>8. NoneLeaked'
    BY <2>1, <2>2, <2>3, <2>6, OwnedFacts DEF NoneLeaked
  <2>9. heir[s] = s
    BY <1>s, <2>2 DEF Owned, Names
  <2>10. Names'
    <3>1. \/ heir' = heir
          \/ \E d \in made \ (connections \cup servers) :
                heir' = [x \in Objects |-> IF heir[x] = d THEN s ELSE heir[x]]
      BY <1>2 DEF ServerStarts, Make
    <3>2. ASSUME NEW o \in Objects, o \notin made \/ o \in connections \cup servers
          PROVE  heir'[o] = o
      <4>1. heir[o] = o
        BY <3>2 DEF Owned, Names
      <4> QED
        BY <3>1, <3>2, <4>1
    <3>3. connections \cup servers \subseteq made
      BY OwnedFacts
    <3>4. heir'[s] = s
      BY <1>s, <2>2, <3>2
    <3> QED
      BY <2>1, <2>3, <3>2, <3>3, <3>4 DEF Names
  <2>11. advertised' \subseteq servers' /\ Erasing'
    BY <2>1 DEF Owned, Erasing
  <2>12. \A d \in InHand' : d \notin made' /\ \E g \in Fds : file'[g] = d
    BY <2>1, <2>2, <2>6, OwnedFacts
  <2>13. Hands'
    BY <2>1, <2>4, <2>5, <2>12 DEF Owned, Hands, Holding
  <2> QED
    BY <2>2, <2>7, <2>8, <2>10, <2>11, <2>13 DEF Owned
<1> QED
  BY <1>1, <1>2

\* The steps of handle_disconnect() and handle_stop_server().
LEMMA EraseKeeps ==
  ASSUME TypeOK, Owned, Erases \/ \E o \in Objects : Closes(o)
  PROVE  Owned'
<1>1. ASSUME NEW o \in Objects, Closes(o) PROVE Owned'
  <2>1. /\ main.at = "idle" /\ o \in connections \cup servers
        /\ CloseSocket(o) /\ advertised' = advertised \ {o}
        /\ main' = [at |-> "erasing", obj |-> o]
        /\ UNCHANGED <<heir, made, connections, servers, acceptor>>
    BY <1>1 DEF Closes, MainIdle, Withdraw
  <2>2. /\ OneName' /\ socket'[o] = None
        /\ \A p \in Objects : p # o => socket'[p] = socket[p]
        /\ \A g \in Fds : file'[g] # None => file'[g] = file[g] /\ file[g] # o
        /\ \A g \in Fds : file[g] # o => file'[g] = file[g]
    BY <2>1, CloseKeeps
  <2>3. \A d : d \in InHand' <=> d \in InHand
    BY <2>1 DEF InHand
  <2>4. connections \cup servers \subseteq Objects
    BY DEF TypeOK, Objects
  <2>5. ASSUME NEW p \in connections \cup servers, p # o
        PROVE  socket'[p] \in Fds /\ file'[socket'[p]] = p
    <3>1. socket[p] \in Fds /\ file[socket[p]] = p
      BY <2>1, <2>4, OwnedFacts DEF TypeOK
    <3> QED
      BY <2>2, <2>4, <2>5, <3>1
  <2>6. ObjectsOwn'
    BY <2>1, <2>2, <2>5, NamesAssumption DEF ObjectsOwn
  <2>7. NoneLeaked'
    BY <2>1, <2>2, <2>3, <2>4, OwnedFacts DEF NoneLeaked
  <2>8. Names' /\ advertised' \subseteq servers' /\ Erasing'
    BY <2>1, <2>2 DEF Owned, Names, Erasing
  <2>9. \A d \in InHand' : d \notin made' /\ \E g \in Fds : file'[g] = d
    BY <2>1, <2>2, <2>3, OwnedFacts
  <2>10. Hands'
    BY <2>1, <2>9 DEF Owned, Hands, Holding
  <2> QED
    BY <2>2, <2>6, <2>7, <2>8, <2>10 DEF Owned
<1>2. CASE Erases
  <2> DEFINE o == main.obj
  <2>1. /\ main.at = "erasing" /\ CloseSocket(o) /\ main' = Idle
        /\ connections' = connections \ {o} /\ servers' = servers \ {o}
        /\ UNCHANGED <<heir, made, advertised, acceptor>>
    BY <1>2 DEF Erases
  <2>2. o \in Objects /\ socket[o] = None /\ o \notin advertised
    BY <2>1 DEF Owned, Erasing
  <2>3. socket' = socket /\ file' = file
    BY <2>1, <2>2, NamesAssumption DEF CloseSocket, TypeOK
  <2>4. \A d : d \in InHand' <=> d \in InHand
    BY <2>1 DEF InHand, Idle
  <2>5. ObjectsOwn'
    BY <2>1, <2>3, OwnedFacts DEF ObjectsOwn
  <2>6. NoneLeaked'
    <3>1. ASSUME NEW f \in Fds, file[f] = o, file[f] # None
          PROVE  file[f] \in InHand
      BY <2>2, <3>1, OwnedFacts, NamesAssumption
    <3> QED
      BY <2>1, <2>3, <2>4, <3>1, OwnedFacts DEF NoneLeaked
  <2>7. Names' /\ OneName' /\ advertised' \subseteq servers' /\ Erasing'
    BY <2>1, <2>2, <2>3 DEF Owned, Names, OneName, Erasing, Idle
  <2>8. \A d \in InHand' : d \notin made' /\ \E g \in Fds : file'[g] = d
    BY <2>1, <2>3, <2>4, OwnedFacts
  <2>9. Hands'
    BY <2>1, <2>8 DEF Owned, Hands, Holding, Idle
  <2> QED
    BY <2>5, <2>6, <2>7, <2>9 DEF Owned
<1> QED
  BY <1>1, <1>2

\* dispose() closes what the maps hold; a client in hand stays in hand.
LEMMA DisposeKeeps == TypeOK /\ Owned /\ Dispose => Owned'
<1> SUFFICES ASSUME TypeOK, Owned, Dispose PROVE Owned'
  OBVIOUS
<1> DEFINE closed == {socket[o] : o \in connections \cup servers}
<1>1. /\ main.at = "idle" /\ file' = [f \in Fds |-> IF f \in closed THEN None ELSE file[f]]
      /\ connections' = {} /\ servers' = {} /\ advertised' = {}
      /\ UNCHANGED <<heir, made, main, acceptor>>
  BY DEF Dispose, MainIdle
<1>2. \A f \in Fds : file'[f] # None => file'[f] = file[f] /\ f \notin closed
  BY <1>1
<1>3. \A d : d \in InHand' <=> d \in InHand
  BY <1>1 DEF InHand
<1>4. NoneLeaked'
  <2>1. ASSUME NEW f \in Fds, file'[f] # None PROVE file'[f] \in InHand'
    BY <1>2, <1>3, <2>1, OwnedFacts
  <2> QED
    BY <2>1 DEF NoneLeaked
<1>5. ObjectsOwn' /\ Names' /\ OneName' /\ advertised' \subseteq servers' /\ Erasing'
  BY <1>1, <1>2 DEF Owned, ObjectsOwn, Names, OneName, Erasing
<1>6. ASSUME NEW d \in InHand PROVE d \notin made /\ \E g \in Fds : file'[g] = d
  <2>1. PICK g \in Fds : file[g] = d /\ d \notin made
    BY OwnedFacts
  <2>2. g \notin closed
    <3>1. ASSUME NEW o \in connections \cup servers, socket[o] = g PROVE FALSE
      BY <2>1, <3>1, OwnedFacts, NamesAssumption
    <3> QED
      BY <3>1
  <2> QED
    BY <1>1, <2>1, <2>2
<1>7. Hands'
  BY <1>1, <1>3, <1>6 DEF Owned, Hands, Holding
<1> QED
  BY <1>4, <1>5, <1>7 DEF Owned

\* Every step of the plugin, its threads and its peers keeps Owned.
LEMMA OwnedKept == TypeOK /\ Owned /\ [Next]_vars => Owned'
<1> SUFFICES ASSUME TypeOK, Owned, [Next]_vars PROVE Owned'
  OBVIOUS
<1>1. CASE ConnectFails \/ ConnectDone \/ \E c \in Conns, f \in Fds : ConnectStart(c, f)
  BY <1>1, ConnectKeeps
<1>2. CASE \E s \in Servers : Registers(s) \/ \E c \in Conns, f \in Fds : Accepts(s, c, f)
  BY <1>2, AcceptKeeps
<1>3. CASE \E s \in Servers : ServerFails(s) \/ \E f \in Fds : ServerStarts(s, f)
  BY <1>3, ServerKeeps
<1>4. CASE Erases \/ \E o \in Objects : Closes(o)
  BY <1>4, EraseKeeps
<1>5. CASE Dispose
  BY <1>5, DisposeKeeps
<1>6. CASE WriteEnds \/ Delivers \/ UNCHANGED vars
           \/ \E c \in Conns : \/ WriteStart(c) \/ Loads(c) \/ Reads(c)
                               \/ Leaves(c) \/ LinkDrops(c)
  <2>1. /\ UNCHANGED <<file, socket, heir, made, connections, servers, advertised, acceptor>>
        /\ main' = main \/ {main.at, main'.at} \subseteq {"idle", "writing"}
    BY <1>6 DEF WriteEnds, Delivers, WriteStart, Loads, Reads, Leaves, LinkDrops,
                ReaderStep, MainIdle, Idle, vars, kernelVars, objectVars, pluginVars
  <2> QED
    BY <2>1, QuietKeeps
<1>7. ASSUME NEW s \in Servers, Looks(s) \/ AcceptEnds(s) \/ Announces(s) PROVE Owned'
  <2>1. /\ UNCHANGED <<file, socket, heir, made, connections, servers, advertised, main>>
        /\ acceptor[s].at \in {"loop", "looked", "announcing"}
        /\ \E at \in {"loop", "looked", "done"} : \E on : Turns(s, at, on)
    BY <1>7 DEF Looks, AcceptEnds, AcceptStep, Announces, kernelVars, objectVars, pluginVars
  <2>2. \A t \in Servers : \/ acceptor'[t] = acceptor[t]
                           \/ /\ acceptor[t].at \in {"loop", "looked", "announcing"}
                              /\ acceptor'[t].at \in {"loop", "looked", "done"}
    BY <2>1 DEF Turns, TypeOK
  <2> QED
    BY <2>1, <2>2, QuietKeeps
<1> QED
  BY <1>1, <1>2, <1>3, <1>4, <1>5, <1>6, <1>7 DEF Next

\* A reader comes to a descriptor through the object at its address, which is
\* its own as long as that is in the map.
LEMMA StraysKept == TypeOK /\ Owned /\ StraysOnlyWhenGone /\ [Next]_vars => StraysOnlyWhenGone'
<1> SUFFICES ASSUME TypeOK, Owned, StraysOnlyWhenGone, [Next]_vars,
                    NEW c \in connections', socket'[c] # None
             PROVE  reader'[c].at = "loaded" => reader'[c].on = socket'[c]
  BY DEF StraysOnlyWhenGone
<1> DEFINE Told == reader'[c].at = "loaded" => reader'[c].on = socket'[c]
<1>c. connections \subseteq Conns /\ Conns \subseteq Objects
  BY DEF TypeOK, Objects
<1>1. CASE reader' = reader /\ c \in connections /\ socket'[c] = socket[c]
  BY <1>1 DEF StraysOnlyWhenGone
<1>2. ASSUME NEW d \in Conns, NEW f \in Fds, d \in InHand, Admit(d, f) PROVE Told
  <2>1. /\ reader' = [reader EXCEPT ![d] = [at |-> "loop", on |-> None]]
        /\ connections' = connections \cup {d} /\ socket' = [socket EXCEPT ![d] = f]
    BY <1>2 DEF Admit, Make
  <2>2. CASE c = d
    BY <2>1, <2>2 DEF TypeOK
  <2>3. CASE c # d
    <3>1. c \in connections /\ socket'[c] = socket[c] /\ reader'[c] = reader[c]
      BY <1>c, <2>1, <2>3 DEF TypeOK
    <3> QED
      BY <3>1 DEF StraysOnlyWhenGone
  <2> QED
    BY <2>2, <2>3
<1>3. ASSUME ConnectDone PROVE Told
  <2>1. PICK f \in Fds : Admit(main.obj, f)
    BY <1>3 DEF ConnectDone
  <2>2. main.obj \in Conns /\ main.obj \in InHand
    BY <1>3, InHandDef DEF ConnectDone, Owned, Hands
  <2> QED
    BY <1>2, <2>1, <2>2
<1>4. ASSUME NEW s \in Servers, Registers(s) PROVE Told
  <2>1. PICK f \in Fds : Admit(acceptor[s].on, f)
    BY <1>4 DEF Registers
  <2>2. acceptor[s].on \in Conns /\ acceptor[s].on \in InHand
    BY <1>4, InHandDef DEF Registers, Owned, Hands, Holding
  <2> QED
    BY <1>2, <2>1, <2>2
<1>5. ASSUME NEW o \in Objects, CloseSocket(o), reader' = reader, connections' \subseteq connections
      PROVE  Told
  <2>1. c # o /\ socket'[c] = socket[c]
    BY <1>c, <1>5 DEF CloseSocket, TypeOK
  <2> QED
    BY <1>1, <1>5, <2>1
<1>6. ASSUME NEW s \in Servers, NEW f \in Fds, ServerStarts(s, f) PROVE Told
  <2>1. /\ reader' = reader /\ connections' = connections
        /\ socket' = [socket EXCEPT ![s] = f]
    BY <1>6 DEF ServerStarts, Make
  <2>2. c # s /\ socket'[c] = socket[c]
    BY <1>c, <2>1, NamesAssumption DEF TypeOK
  <2> QED
    BY <1>1, <2>1, <2>2
<1>7. ASSUME NEW d \in Conns, Loads(d) \/ Reads(d) \/ Leaves(d) PROVE Told
  <2>1. /\ UNCHANGED <<socket, connections>> /\ c \in connections
        /\ \E r : reader' = [reader EXCEPT ![d] = r]
    BY <1>7 DEF Loads, Reads, Leaves, ReaderStep, GoesTo, pluginVars
  <2>2. CASE c # d
    BY <1>c, <2>1, <2>2 DEF StraysOnlyWhenGone, TypeOK
  <2>3. CASE c = d
    <3>1. /\ heir[c] = c /\ file[socket[c]] = c
      BY <1>c, <2>1, OwnedFacts DEF Owned, Names
    <3>2. CASE Loads(d)
      BY <1>c, <2>1, <2>3, <3>1, <3>2 DEF Loads, GoesTo, TypeOK
    <3>3. CASE Reads(d)
      BY <1>c, <2>1, <2>3, <3>1, <3>3 DEF Reads, GoesTo, TypeOK, StraysOnlyWhenGone
    <3>5. CASE Leaves(d)
      BY <1>c, <2>1, <2>3, <3>5 DEF Leaves, GoesTo, TypeOK
    <3> QED
      BY <1>7, <3>2, <3>3, <3>5
  <2> QED
    BY <2>2, <2>3
<1>8. ASSUME Dispose PROVE Told
  BY <1>8 DEF Dispose
<1>9. ASSUME UNCHANGED <<reader, connections, socket>> PROVE Told
  BY <1>1, <1>9
<1>10. CASE Next
  <2>1. CASE Erases \/ \E o \in Objects : Closes(o)
    <3>1. \E o \in Objects :
             CloseSocket(o) /\ reader' = reader /\ connections' \subseteq connections
      BY <2>1 DEF Erases, Closes, Owned, Erasing
    <3> QED
      BY <1>5, <3>1
  <2>2. CASE \/ ConnectFails \/ WriteEnds \/ Delivers
             \/ \E d \in Conns : \/ WriteStart(d) \/ LinkDrops(d)
                                 \/ \E f \in Fds : ConnectStart(d, f)
             \/ \E s \in Servers : \/ ServerFails(s) \/ Looks(s) \/ AcceptEnds(s) \/ Announces(s)
                                   \/ \E d \in Conns, f \in Fds : Accepts(s, d, f)
    <3>1. UNCHANGED <<reader, connections, socket>>
      BY <2>2 DEF ConnectFails, WriteEnds, Delivers, WriteStart, LinkDrops, ConnectStart,
                  ServerFails, Looks, AcceptEnds, AcceptStep, Announces, Accepts, objectVars,
                  pluginVars
    <3> QED
      BY <1>9, <3>1
  <2> QED
    BY <1>3, <1>4, <1>6, <1>7, <1>8, <1>10, <2>1, <2>2 DEF Next
<1>11. CASE UNCHANGED vars
  <2>1. UNCHANGED <<reader, connections, socket>>
    BY <1>11 DEF vars, objectVars, pluginVars
  <2> QED
    BY <1>9, <2>1
<1> QED
  BY <1>10, <1>11

-----------------------------------------------------------------------------
\* The invariant holds in every state the plugin reaches.
LEMMA AlwaysIInv == Spec => []IInv
<1>1. IInv /\ [Next]_vars => IInv'
  BY TypeKept, OwnedKept, StraysKept DEF IInv, Owned
<1> QED
  BY InitIInv, <1>1, PTL DEF Spec

\* Every variable of the sockets model keeps its type.
THEOREM SocketTypes == Spec => []TypeOK
<1>1. IInv => TypeOK
  BY DEF IInv
<1> QED
  BY AlwaysIInv, <1>1, PTL

\* Descriptors have one owner, whatever threads, peers and the app do: closing
\* an object closes its own socket only, and no open socket is forgotten.
THEOREM SocketsHaveOwners == Spec => []SocketsOwned
<1>1. IInv => SocketsOwned
  BY DEF IInv, Owned, SocketsOwned
<1> QED
  BY AlwaysIInv, <1>1, PTL
=============================================================================
