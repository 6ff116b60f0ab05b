------------------------- MODULE LinuxRadio_proofs -------------------------
(***************************************************************************)
(* Proofs about LinuxRadio, for any devices and any room on the bus: the    *)
(* types, the results of a scan, and the last word on the adapter.         *)
(***************************************************************************)
EXTENDS LinuxRadio, FiniteSetTheorems, SequenceTheorems, TLAPS

\* Whether Dart believes a scan to be on once it has the first n events.
Told(n, on) ==
    \/ scan = on /\ \A j \in 1..n : posted[j].kind # "scan"
    \/ \E j \in 1..n : /\ posted[j].kind = "scan" /\ posted[j].what = on
                       /\ \A k \in 1..n : posted[k].kind = "scan" => k <= j

\* What waits to be delivered: a result only where Dart believes a scan to be on,
\* and in the end Dart believes what is so.
Announced == /\ \E S : posted \in Seq(S)
             /\ \A i \in 1..Len(posted) : posted[i].kind = "result" => Told(i - 1, TRUE)
             /\ Told(Len(posted), discovering)

\* The devices BlueZ knows, as a sequence of results.
LEMMA Results ==
  ASSUME known \subseteq Devices
  PROVE  /\ KnownResults \in Seq({Event("result", d) : d \in known})
         /\ \A i \in 1..Len(KnownResults) : KnownResults[i].kind = "result"
<1> DEFINE S == {Event("result", d) : d \in known}
<1>1. IsFiniteSet(known)
  BY DevicesAssumption, FS_Subset
<1>2. IsFiniteSet(S)
  <2> DEFINE f == [d \in known |-> Event("result", d)]
  <2>1. f \in Surjection(known, S)
    BY DEF Surjection
  <2> QED
    BY <1>1, <2>1, FS_Surjection DEF ExistsSurjection
<1>3. \E f \in [1..Cardinality(S) -> S] : IsInjective(f)
  <2>1. PICK n \in Nat : ExistsBijection(1..n, S)
    BY <1>2, FS_NatBijection
  <2>2. Cardinality(S) = n
    BY <2>1, FS_CountingElements
  <2> QED
    BY <2>1, <2>2 DEF ExistsBijection, Bijection, Injection, IsInjective
<1>4. Cardinality(S) \in Nat
  BY <1>2, FS_CardinalityType
<1>5. KnownResults \in [1..Cardinality(S) -> S]
  BY <1>3 DEF KnownResults, SetToSeq
<1>6. KnownResults \in Seq(S)
  <2>1. \A T : \A n \in Nat : \A q \in [1..n -> T] : q \in Seq(T)
    OBVIOUS
  <2> HIDE DEF S
  <2> QED
    BY <1>4, <1>5, <2>1
<1>7. \A e \in S : e.kind = "result"
  BY DEF Event
<1> QED
  BY <1>6, <1>7

\* Events put at the end of those that wait, all of which but the first are results.
LEMMA PostsKeep ==
  ASSUME Announced, NEW S, NEW events \in Seq(S), events # <<>>, posted' = posted \o events,
         scan' = scan,
         \A i \in 2..Len(events) : events[i].kind = "result",
         \/ events[1].kind = "scan" /\ events[1].what = discovering'
         \/ /\ events[1].kind = "result" /\ discovering /\ discovering' = discovering
            /\ Len(events) = 1
         \/ events[1].kind = "state" /\ discovering' = discovering /\ Len(events) = 1,
         Len(events) > 1 => discovering'
  PROVE  Announced'
<1>1. PICK T : posted \in Seq(T)
  BY DEF Announced
<1>2. posted \in Seq(S \cup T) /\ events \in Seq(S \cup T)
  BY <1>1
<1>3. /\ posted' \in Seq(S \cup T)
      /\ Len(posted) \in Nat /\ Len(events) \in Nat /\ Len(events) >= 1
      /\ Len(posted') = Len(posted) + Len(events)
      /\ \A i \in 1..Len(posted) : posted'[i] = posted[i]
      /\ \A i \in 1..Len(events) : posted'[Len(posted) + i] = events[i]
  BY <1>2
<1>4. \A n \in 0..Len(posted) : \A on : Told(n, on) <=> Told(n, on)'
  BY <1>3 DEF Told
<1>5. \A i \in 1..Len(posted) : posted'[i].kind = "result" => Told(i - 1, TRUE)'
  <2>1. \A i \in 1..Len(posted) : i - 1 \in 0..Len(posted)
    BY <1>3
  <2>2. \A i \in 1..Len(posted) : posted[i].kind = "result" => Told(i - 1, TRUE)
    BY DEF Announced
  <2> QED
    BY <1>3, <1>4, <2>1, <2>2
<1>6. Told(Len(posted), discovering)
  BY DEF Announced
<1>7. CASE events[1].kind = "scan"
  <2> DEFINE n == Len(posted) + 1
  <2>1. n \in Nat /\ n >= 1 /\ posted'[n].kind = "scan" /\ posted'[n].what = discovering'
    BY <1>3, <1>7
  <2>2. \A i \in 1..Len(posted') : n < i => posted'[i].kind = "result"
    <3>1. ASSUME NEW i \in 1..Len(posted'), n < i PROVE posted'[i].kind = "result"
      <4>1. i - Len(posted) \in 2..Len(events) /\ i - Len(posted) \in 1..Len(events)
        BY <1>3, <3>1
      <4>2. posted'[i] = events[i - Len(posted)]
        BY <1>3, <3>1, <4>1
      <4> QED
        BY <4>1, <4>2
    <3> QED
      BY <3>1
  <2>3. \A m \in n..Len(posted') : Told(m, discovering)'
    <3>1. ASSUME NEW m \in n..Len(posted') PROVE Told(m, discovering)'
      <4>1. n \in 1..m /\ \A k \in 1..m : posted'[k].kind = "scan" => k <= n
        BY <1>3, <2>1, <2>2, <3>1
      <4> QED
        BY <2>1, <4>1 DEF Told
    <3> QED
      BY <3>1
  <2>4. ASSUME NEW i \in 1..Len(posted'), posted'[i].kind = "result", ~(i \in 1..Len(posted))
        PROVE  Told(i - 1, TRUE)'
    <3>1. i # n
      BY <2>1, <2>4
    <3>2. i - 1 \in n..Len(posted') /\ Len(events) > 1
      BY <1>3, <2>4, <3>1
    <3> QED
      BY <2>3, <3>2
  <2>5. Told(Len(posted), discovering)'
    BY <1>3, <2>3
  <2> QED
    BY <1>3, <1>5, <2>4, <2>5 DEF Announced
<1>8. CASE events[1].kind # "scan"
  <2>1. /\ Len(posted') = Len(posted) + 1 /\ posted'[Len(posted) + 1] = events[1]
        /\ discovering' = discovering
    BY <1>3, <1>8
  <2>2. Told(Len(posted), discovering)'
    <3>1. PICK n \in Nat : n = Len(posted)
      BY <1>3
    <3>2. \A k \in 1..(n + 1) : k \in 1..n \/ k = n + 1
      OBVIOUS
    <3>3. ASSUME NEW on, Told(n, on) PROVE Told(n + 1, on)'
      <4>1. CASE scan = on /\ \A j \in 1..n : posted[j].kind # "scan"
        BY <1>3, <1>8, <2>1, <3>1, <3>2, <4>1 DEF Told
      <4>2. CASE ~(scan = on /\ \A j \in 1..n : posted[j].kind # "scan")
        <5>1. PICK j \in 1..n : /\ posted[j].kind = "scan" /\ posted[j].what = on
                               /\ \A k \in 1..n : posted[k].kind = "scan" => k <= j
          BY <3>3, <4>2 DEF Told
        <5>2. j \in 1..(n + 1) /\ posted'[j] = posted[j]
          BY <1>3, <3>1
        <5>3. \A k \in 1..(n + 1) : posted'[k].kind = "scan" => k <= j
          BY <1>3, <1>8, <2>1, <3>1, <3>2, <5>1
        <5> QED
          BY <5>1, <5>2, <5>3 DEF Told
      <4> QED
        BY <4>1, <4>2
    <3> QED
      BY <1>3, <1>6, <2>1, <3>1, <3>3
  <2>3. ASSUME NEW i \in 1..Len(posted'), posted'[i].kind = "result", ~(i \in 1..Len(posted))
        PROVE  Told(i - 1, TRUE)'
    <3>1. i - 1 = Len(posted) /\ i - 1 \in 0..Len(posted) /\ events[1].kind = "result"
      BY <1>3, <2>1, <2>3
    <3>2. Told(i - 1, TRUE)
      BY <1>6, <1>8, <3>1
    <3> QED
      BY <1>4, <3>1, <3>2
  <2> QED
    BY <1>3, <1>5, <2>2, <2>3 DEF Announced
<1> QED
  BY <1>7, <1>8

\* Dart takes the first event.
LEMMA DeliverKeeps ==
  ASSUME Announced, Deliver
  PROVE  Announced'
<1>1. PICK T : posted \in Seq(T)
  BY DEF Announced
<1>2. /\ posted' \in Seq(T) /\ Len(posted) \in Nat \ {0} /\ Len(posted') = Len(posted) - 1
      /\ \A i \in 1..Len(posted') : posted'[i] = posted[i + 1]
      /\ Head(posted) = posted[1]
      /\ discovering' = discovering
  BY <1>1 DEF Deliver
<1>3. scan' = IF posted[1].kind = "scan" THEN posted[1].what ELSE scan
  BY <1>2 DEF Deliver
<1>4. ASSUME NEW m \in 0..Len(posted'), NEW on, Told(m + 1, on)
      PROVE  Told(m, on)'
  <2>1. CASE scan = on /\ \A j \in 1..(m + 1) : posted[j].kind # "scan"
    <3>1. 1 \in 1..(m + 1) /\ \A j \in 1..m : j + 1 \in 1..(m + 1) /\ j \in 1..Len(posted')
      BY <1>2
    <3> QED
      BY <1>2, <1>3, <2>1, <3>1 DEF Told
  <2>2. ASSUME NEW j \in 1..(m + 1), posted[j].kind = "scan", posted[j].what = on,
               \A k \in 1..(m + 1) : posted[k].kind = "scan" => k <= j
        PROVE  Told(m, on)'
    <3>1. \A k \in 1..m : k + 1 \in 1..(m + 1) /\ posted'[k] = posted[k + 1]
      BY <1>2
    <3>2. CASE j = 1
      <4>1. \A k \in 1..m : posted'[k].kind # "scan"
        BY <2>2, <3>1, <3>2
      <4> QED
        BY <1>3, <2>2, <3>2, <4>1 DEF Told
    <3>3. CASE j # 1
      <4>1. j \in Nat /\ m \in Nat /\ j - 1 \in 1..m /\ (j - 1) + 1 = j
        BY <1>2, <3>3
      <4>2. posted'[j - 1] = posted[j]
        BY <3>1, <4>1
      <4>3. ASSUME NEW k \in 1..m, posted'[k].kind = "scan" PROVE k <= j - 1
        <5>1. k + 1 <= j
          BY <2>2, <3>1, <4>3
        <5> QED
          BY <4>1, <5>1
      <4> QED
        BY <2>2, <4>1, <4>2, <4>3 DEF Told
    <3> QED
      BY <3>2, <3>3
  <2> QED
    BY <1>4, <2>1, <2>2 DEF Told
<1>5. \A i \in 1..Len(posted') : posted'[i].kind = "result" => Told(i - 1, TRUE)'
  <2>1. ASSUME NEW i \in 1..Len(posted'), posted'[i].kind = "result" PROVE Told(i - 1, TRUE)'
    <3>1. i + 1 \in 1..Len(posted) /\ i - 1 \in 0..Len(posted') /\ (i + 1) - 1 = (i - 1) + 1
      BY <1>2
    <3>2. Told((i + 1) - 1, TRUE)
      BY <1>2, <2>1, <3>1 DEF Announced
    <3> QED
      BY <1>4, <3>1, <3>2
  <2> QED
    BY <2>1
<1>6. Told(Len(posted), discovering)'
  <2>1. \A m \in 0..Len(posted') : m + 1 = Len(posted) => Told(m, discovering)'
    BY <1>2, <1>4 DEF Announced
  <2> QED
    BY <1>2, <2>1
<1> QED
  BY <1>2, <1>5, <1>6 DEF Announced

\* The inductive invariant: known is needed for the results of a scan that begins.
IInv == known \subseteq Devices /\ Announced

\* Nothing waits at first, and Dart knows of no scan.
LEMMA InitIInv == Init => IInv
<1> SUFFICES ASSUME Init PROVE IInv
  OBVIOUS
<1>1. posted = <<>> /\ scan = discovering
  BY DEF Init
<1>3. posted \in Seq({}) /\ Len(posted) = 0
  BY <1>1
<1>2. \A n : n = 0 => Told(n, discovering)
  BY <1>1 DEF Told
<1>4. known \subseteq Devices
  BY DEF Init
<1>5. Told(Len(posted), discovering)
  BY <1>2, <1>3
<1>6. \A i \in 1..Len(posted) : FALSE
  BY <1>3
<1> QED
  BY <1>3, <1>4, <1>5, <1>6 DEF IInv, Announced

\* A single event, that is no scan.
LEMMA PostKeeps ==
  ASSUME Announced, NEW kind \in {"state", "result"}, NEW what, Post(kind, what),
         kind = "result" => discovering, UNCHANGED <<discovering, scan>>
  PROVE  Announced'
<1> DEFINE events == <<Event(kind, what)>>
<1>1. /\ events \in Seq({Event(kind, what)}) /\ events # <<>> /\ Len(events) = 1
      /\ events[1].kind = kind
  BY DEF Event
<1>2. posted' = posted \o events
  BY DEF Post, Posts
<1>3. \A i \in 2..Len(events) : events[i].kind = "result"
  BY <1>1
<1>4. \/ events[1].kind = "result" /\ discovering /\ discovering' = discovering
      \/ events[1].kind = "state" /\ discovering' = discovering
  BY <1>1
<1>5. PICK S : events \in Seq(S)
  BY <1>1
<1>6. scan' = scan /\ ~(Len(events) > 1)
  BY <1>1
<1> HIDE DEF events
<1> QED
  BY <1>1, <1>2, <1>3, <1>4, <1>5, <1>6, PostsKeep

\* A scan begins, with the devices BlueZ knows, or ends.
LEMMA ScanKeeps ==
  ASSUME IInv, StartDiscovery \/ EndDiscovery
  PROVE  Announced'
<1>1. CASE StartDiscovery
  <2> DEFINE events == <<Event("scan", TRUE)>> \o KnownResults
             S == {Event("result", d) : d \in known} \cup {Event("scan", TRUE)}
  <2>1. /\ KnownResults \in Seq(S)
        /\ \A i \in 1..Len(KnownResults) : KnownResults[i].kind = "result"
    <3>1. KnownResults \in Seq({Event("result", d) : d \in known})
      BY Results DEF IInv
    <3>2. \A U, V : U \subseteq V => Seq(U) \subseteq Seq(V)
      OBVIOUS
    <3>3. {Event("result", d) : d \in known} \subseteq S
      OBVIOUS
    <3> QED
      BY Results, <3>1, <3>2, <3>3 DEF IInv
  <2>2. /\ events \in Seq(S) /\ Len(KnownResults) \in Nat
        /\ Len(events) = 1 + Len(KnownResults)
        /\ events[1] = Event("scan", TRUE)
        /\ \A i \in 2..Len(events) : events[i] = KnownResults[i - 1]
    <3>1. \A U : \A q \in Seq(U) : \A e \in U :
             /\ <<e>> \o q \in Seq(U) /\ Len(q) \in Nat /\ Len(<<e>> \o q) = 1 + Len(q)
             /\ (<<e>> \o q)[1] = e
             /\ \A i \in 2..Len(<<e>> \o q) : (<<e>> \o q)[i] = q[i - 1]
      OBVIOUS
    <3>2. PICK e \in S : e = Event("scan", TRUE)
      OBVIOUS
    <3>3. PICK q \in Seq(S) : q = KnownResults
      BY <2>1
    <3>4. /\ <<e>> \o q \in Seq(S) /\ Len(q) \in Nat /\ Len(<<e>> \o q) = 1 + Len(q)
          /\ (<<e>> \o q)[1] = e
          /\ \A i \in 2..Len(<<e>> \o q) : (<<e>> \o q)[i] = q[i - 1]
      <4> HIDE DEF S
      <4> QED
        BY <3>1
    <3>5. events = <<e>> \o q
      BY <3>2, <3>3
    <3> HIDE DEF S, events
    <3> QED
      BY <3>2, <3>3, <3>4, <3>5
  <2>3. \A i \in 2..Len(events) : events[i].kind = "result"
    <3>1. \A i \in 2..Len(events) : i - 1 \in 1..Len(KnownResults)
      BY <2>2
    <3> QED
      BY <2>1, <2>2, <3>1
  <2>4. events[1].kind = "scan" /\ events[1].what = TRUE /\ events # <<>>
    BY <2>2 DEF Event
  <2>5. posted' = posted \o events /\ discovering' = TRUE /\ scan' = scan
    BY <1>1 DEF StartDiscovery, Posts, dartVars
  <2>6. Announced
    BY DEF IInv
  <2> HIDE DEF events, S
  <2> QED
    BY <2>2, <2>3, <2>4, <2>5, <2>6, PostsKeep
<1>2. CASE EndDiscovery
  <2> DEFINE events == <<Event("scan", FALSE)>>
  <2>1. /\ events \in Seq({Event("scan", FALSE)}) /\ events # <<>> /\ Len(events) = 1
        /\ events[1].kind = "scan" /\ events[1].what = FALSE
    BY DEF Event
  <2>2. posted' = posted \o events /\ discovering' = FALSE /\ scan' = scan
    BY <1>2 DEF EndDiscovery, Post, Posts, dartVars
  <2>3. \A i \in 2..Len(events) : events[i].kind = "result"
    BY <2>1
  <2>4. Announced
    BY DEF IInv
  <2>5. PICK S : events \in Seq(S)
    BY <2>1
  <2> HIDE DEF events
  <2>6. ~(Len(events) > 1)
    BY <2>1
  <2>7. events[1].what = discovering'
    BY <2>1, <2>2
  <2> QED
    BY <2>1, <2>2, <2>3, <2>4, <2>5, <2>6, <2>7, PostsKeep
<1> QED
  BY <1>1, <1>2

\* Every step keeps it; only what posts or delivers can disturb it.
LEMMA NextIInv == IInv /\ [Next]_vars => IInv'
<1> SUFFICES ASSUME IInv, [Next]_vars PROVE IInv'
  OBVIOUS
<1>0. known \subseteq Devices /\ Announced
  BY DEF IInv
<1>1. known' \subseteq Devices
  BY <1>0 DEF Next, AdapterStateListen, ResultsListen, EventCancel, StartDiscovery, EndDiscovery,
     PairTimesOut, OnAdapterPropertiesChanged, OnDeviceSignal, AgentMethodCall, Deliver,
     PairingEnds, SetAdapterPowered, PowerChanges, OtherPowerChanges,
     PowerBecomes, BondDevice, UnbondDevice,
     RemoveDevice, DeviceFound, DeviceForgotten, PairingAsks, vars, bluezVars
<1>2. CASE StartDiscovery \/ EndDiscovery
  BY <1>1, <1>2, ScanKeeps DEF IInv
<1>3. CASE Deliver
  BY <1>0, <1>1, <1>3, DeliverKeeps DEF IInv
<1>4. CASE AdapterStateListen
  BY <1>0, <1>1, <1>4, PostKeeps DEF AdapterStateListen, IInv
<1>5. CASE OnAdapterPropertiesChanged
  BY <1>0, <1>1, <1>5, PostKeeps DEF OnAdapterPropertiesChanged, IInv, dartVars
<1>6. CASE OnDeviceSignal /\ discovering
  BY <1>0, <1>1, <1>6, PostKeeps DEF OnDeviceSignal, IInv, dartVars
<1>7. CASE UNCHANGED <<posted, discovering, scan>>
  BY <1>0, <1>1, <1>7 DEF IInv, Announced, Told
<1> QED
  BY <1>2, <1>3, <1>4, <1>5, <1>6, <1>7 DEF Next, ResultsListen, EventCancel, PairTimesOut,
     OnDeviceSignal, AgentMethodCall, PairingEnds, SetAdapterPowered, PowerChanges,
     OtherPowerChanges, PowerBecomes, BondDevice, UnbondDevice, DeviceFound, DeviceForgotten,
     PairingAsks,
     vars, bluezVars, pluginVars, dartVars

\* Dart gets a result only between the start and the end of a scan.
THEOREM ScanHasResults == Spec => []ResultsWithinScan
<1>1. IInv => ResultsWithinScan
  <2> SUFFICES ASSUME IInv, NEW i \in DOMAIN posted, posted[i].kind = "result",
                      NEW told, told = {j \in 1..(i - 1) : posted[j].kind = "scan"}
               PROVE  IF told = {} THEN scan
                      ELSE \E j \in told : posted[j].what /\ \A k \in told : k <= j
    BY DEF ResultsWithinScan
  <2>1. PICK S : posted \in Seq(S)
    BY DEF IInv, Announced
  <2>2. i \in 1..Len(posted)
    BY <2>1
  <2>3. Told(i - 1, TRUE)
    BY <2>2 DEF IInv, Announced
  <2> QED
    BY <2>3 DEF Told
<1> QED
  BY <1>1, InitIInv, NextIInv, PTL DEF Spec
-----------------------------------------------------------------------------
\* The sequence r is q with m at its end; r is q without its first element.
Grows(r, q, m) == /\ Len(q) \in Nat /\ Len(r) = Len(q) + 1
                  /\ \A i \in 1..Len(q) : r[i] = q[i]
                  /\ r[Len(q) + 1] = m
Shrinks(r, q) == /\ Len(r) \in Nat /\ Len(q) = Len(r) + 1
                 /\ \A i \in 1..Len(r) : r[i] = q[i + 1]

\* What waits on the bus grows by signals and shrinks by messages taken.
LEMMA SignalGrows ==
  ASSUME NEW kind, NEW what, Signal(kind, what), NEW S, bus \in Seq(S),
         [kind |-> kind, what |-> what] \in S
  PROVE  bus' \in Seq(S) /\ Grows(bus', bus, [kind |-> kind, what |-> what])
<1> DEFINE m == [kind |-> kind, what |-> what]
<1>1. bus' = Append(bus, m) /\ m \in S
  BY DEF Signal
<1> HIDE DEF m
<1>2. bus' \in Seq(S) /\ Grows(bus', bus, m)
  BY <1>1 DEF Grows
<1> QED
  BY <1>2 DEF m

\* Whoever takes a message takes the first.
LEMMA TakeShrinks ==
  ASSUME NEW kinds, TakesMessage(kinds), NEW S, bus \in Seq(S)
  PROVE  /\ bus' \in Seq(S) /\ Shrinks(bus', bus) /\ 1 \in 1..Len(bus)
         /\ Head(bus) = bus[1] /\ bus[1].kind \in kinds /\ bus[1] \in S
BY DEF TakesMessage, Shrinks

\* A single event goes behind those that wait for Dart.
LEMMA PostGrows ==
  ASSUME NEW kind, NEW what, Post(kind, what), NEW S, posted \in Seq(S),
         Event(kind, what) \in S
  PROVE  posted' \in Seq(S) /\ Grows(posted', posted, Event(kind, what))
<1> DEFINE m == Event(kind, what)
<1>1. posted' = posted \o <<m>> /\ m \in S
  BY DEF Post, Posts
<1> HIDE DEF m
<1>2. posted' \in Seq(S) /\ Grows(posted', posted, m)
  BY <1>1 DEF Grows
<1> QED
  BY <1>2 DEF m

\* Removing a device takes nothing off the bus.
LEMMA RemoveKeepsLength ==
  ASSUME NEW d \in Devices, RemoveDevice(d), bus \in Seq(Messages)
  PROVE  /\ bus' \in Seq(Messages) /\ Len(bus) \in Nat /\ Len(bus') = Len(bus)
         /\ \A i \in 1..Len(bus) :
               IF bus[i].kind \in Requests /\ bus[i].what = d
               THEN bus'[i].kind = "void" /\ bus'[i].what = d
               ELSE bus'[i] = bus[i]
<1> DEFINE m(i) == IF bus[i].kind \in Requests /\ bus[i].what = d
                   THEN [bus[i] EXCEPT !.kind = "void"] ELSE bus[i]
<1>1. bus' = [i \in 1..Len(bus) |-> m(i)] /\ Len(bus) \in Nat
  BY DEF RemoveDevice
<1>2. ASSUME NEW i \in 1..Len(bus)
      PROVE  /\ m(i) \in Messages
             /\ IF bus[i].kind \in Requests /\ bus[i].what = d
                THEN m(i).kind = "void" /\ m(i).what = d ELSE m(i) = bus[i]
  <2>1. bus[i] \in Messages
    OBVIOUS
  <2>2. CASE bus[i].kind \in Requests /\ bus[i].what = d
    BY <2>1, <2>2 DEF Messages, Requests
  <2> QED
    BY <2>1, <2>2
<1> HIDE DEF m
<1> QED
  BY <1>1, <1>2

-----------------------------------------------------------------------------
\* What BlueZ asks its agent concerns the pairing under way, once.
Requested ==
    \A i \in 1..Len(bus) : bus[i].kind \in Requests =>
        /\ pairing.step = "asking" /\ pairing.dev = bus[i].what
        /\ \A j \in 1..Len(bus) : bus[j].kind \in Requests => i = j

\* A pairing under way has a device, which BlueZ knows.
PairsKnown == /\ pairing.step # "none" <=> pairing.dev # None
              /\ pairing.dev # None => pairing.dev \in known

\* The inductive invariant of types.
TInv == TypeOK /\ Requested /\ PairsKnown

\* Initially nothing waits and nothing is paired.
LEMMA InitTInv == Init => TInv
<1> SUFFICES ASSUME Init PROVE TInv
  OBVIOUS
<1>1. bus = <<>> /\ posted = <<>> /\ Len(bus) = 0
  BY DEF Init
<1>2. bus \in Seq(Messages) /\ posted \in Seq(Events)
  BY <1>1
<1>3. pairing.dev = None /\ pairing.step = "none"
  BY DEF Init, NoPairing
<1>4. TypeOK
  BY <1>2 DEF Init, TypeOK, RegisterAgent, NoPairing
<1>5. Requested
  BY <1>1 DEF Requested
<1> QED
  BY <1>3, <1>4, <1>5 DEF TInv, PairsKnown

\* A message more that is no request, or one less, leaves the requests as they are.
LEMMA OthersKeepRequested ==
  ASSUME Requested, pairing' = pairing,
         \/ bus' = bus
         \/ \E m : Grows(bus', bus, m) /\ m.kind \notin Requests
         \/ Shrinks(bus', bus)
  PROVE  Requested'
<1>1. CASE bus' = bus
  BY <1>1 DEF Requested
<1>2. CASE \E m : Grows(bus', bus, m) /\ m.kind \notin Requests
  <2>1. \A i \in 1..Len(bus') : bus'[i].kind \in Requests => i \in 1..Len(bus) /\ bus'[i] = bus[i]
    BY <1>2 DEF Grows
  <2> QED
    BY <2>1 DEF Requested
<1>3. CASE Shrinks(bus', bus)
  <2>1. \A i \in 1..Len(bus') : i + 1 \in 1..Len(bus) /\ bus'[i] = bus[i + 1] /\ i \in Nat
    BY <1>3 DEF Shrinks
  <2>2. ASSUME NEW i \in 1..Len(bus'), bus'[i].kind \in Requests
        PROVE  /\ pairing'.step = "asking" /\ pairing'.dev = bus'[i].what
               /\ \A j \in 1..Len(bus') : bus'[j].kind \in Requests => i = j
    <3>1. /\ pairing.step = "asking" /\ pairing.dev = bus[i + 1].what
          /\ \A j \in 1..Len(bus) : bus[j].kind \in Requests => i + 1 = j
      BY <2>1, <2>2 DEF Requested
    <3>2. \A j \in 1..Len(bus') : bus'[j].kind \in Requests => i + 1 = j + 1
      BY <2>1, <3>1
    <3>3. \A j \in 1..Len(bus') : i + 1 = j + 1 => i = j
      BY <2>1
    <3> QED
      BY <2>1, <3>1, <3>2, <3>3
  <2> QED
    BY <2>2 DEF Requested
<1> QED
  BY <1>1, <1>2, <1>3

\* An answer of the agent ends the only request there is.
LEMMA AnswerKeepsTypes ==
  ASSUME TInv, AgentMethodCall
  PROVE  TInv'
<1>0. TypeOK /\ Requested /\ PairsKnown
  BY DEF TInv
<1>1. /\ bus' \in Seq(Messages) /\ Shrinks(bus', bus) /\ 1 \in 1..Len(bus)
      /\ Head(bus) = bus[1] /\ bus[1].kind \in Requests \cup {"void"}
  BY <1>0, TakeShrinks DEF AgentMethodCall, TypeOK
<1>2. CASE bus[1].kind \notin Requests
  <2>1. pairing' = pairing
    BY <1>1, <1>2 DEF AgentMethodCall, Requests
  <2>2. Requested'
    BY <1>0, <1>1, <2>1, OthersKeepRequested
  <2> QED
    BY <1>0, <1>1, <2>1, <2>2 DEF AgentMethodCall, TypeOK, TInv, PairsKnown, dartVars
<1>3. CASE bus[1].kind \in Requests
  <2>1. /\ pairing.step = "asking" /\ pairing.dev = bus[1].what
        /\ \A j \in 1..Len(bus) : bus[j].kind \in Requests => 1 = j
    BY <1>0, <1>1, <1>3 DEF Requested
  <2>2. \A i \in 1..Len(bus') : bus'[i].kind \notin Requests
    <3>1. ASSUME NEW i \in 1..Len(bus') PROVE bus'[i].kind \notin Requests
      <4>1. i + 1 \in 1..Len(bus) /\ i + 1 # 1 /\ bus'[i] = bus[i + 1]
        BY <1>1 DEF Shrinks
      <4> QED
        BY <2>1, <4>1
    <3> QED
      BY <3>1
  <2>3. Requested'
    BY <2>2 DEF Requested
  <2>4. pairing.dev # None /\ pairing.dev \in known
    BY <1>0, <2>1 DEF PairsKnown
  <2>5. \/ pairing' = [pairing EXCEPT !.step = "answered"]
        \/ pairing' = NoPairing
    BY <1>1, <1>3 DEF AgentMethodCall, Requests
  <2>6. /\ pairing' \in [dev : Devices \cup {None},
                         step : {"none", "trying", "asking", "answered"}]
        /\ \/ pairing'.step = "answered" /\ pairing'.dev = pairing.dev
           \/ pairing'.step = "none" /\ pairing'.dev = None
    BY <1>0, <2>5 DEF NoPairing, TypeOK
  <2>7. UNCHANGED <<powered, other, known, paired, registered, main, discovering, posted, dartVars>>
    BY DEF AgentMethodCall
  <2>8. PairsKnown'
    BY <2>4, <2>6, <2>7 DEF PairsKnown
  <2>9. TypeOK'
    BY <1>0, <1>1, <2>6, <2>7 DEF TypeOK, dartVars
  <2> QED
    BY <2>3, <2>8, <2>9 DEF TInv
<1> QED
  BY <1>2, <1>3

\* A device that is removed takes its requests and its pairing with it.
LEMMA RemoveKeepsTypes ==
  ASSUME TInv, NEW d \in Devices, UnbondDevice(d)
  PROVE  TInv'
<1>0. TypeOK /\ Requested /\ PairsKnown /\ RemoveDevice(d)
  BY DEF TInv, UnbondDevice
<1>1. /\ bus' \in Seq(Messages) /\ Len(bus) \in Nat /\ Len(bus') = Len(bus)
      /\ \A i \in 1..Len(bus) :
            IF bus[i].kind \in Requests /\ bus[i].what = d
            THEN bus'[i].kind = "void" /\ bus'[i].what = d
            ELSE bus'[i] = bus[i]
  BY <1>0, RemoveKeepsLength DEF TypeOK
<1>2. /\ known' = known \ {d} /\ paired' = paired \ {d}
      /\ pairing' = IF pairing.dev = d THEN NoPairing ELSE pairing
      /\ UNCHANGED <<powered, other, pluginVars, dartVars>>
  BY DEF UnbondDevice, RemoveDevice
<1>3. TypeOK'
  BY <1>0, <1>1, <1>2 DEF TypeOK, NoPairing, pluginVars, dartVars
<1>4. PairsKnown'
  BY <1>0, <1>2 DEF PairsKnown, NoPairing
<1>5. Requested'
  <2>1. ASSUME NEW i \in 1..Len(bus'), bus'[i].kind \in Requests
        PROVE  i \in 1..Len(bus) /\ bus'[i] = bus[i] /\ bus[i].kind \in Requests /\ bus[i].what # d
    BY <1>1, <2>1 DEF Requests
  <2> QED
    BY <1>0, <1>2, <2>1 DEF Requested
<1> QED
  BY <1>3, <1>4, <1>5 DEF TInv

\* Every step keeps the types, and a request belongs to the pairing under way.
LEMMA NextTInv == TInv /\ [Next]_vars => TInv'
<1> SUFFICES ASSUME TInv, [Next]_vars PROVE TInv'
  OBVIOUS
<1>0. TypeOK /\ Requested /\ PairsKnown
  BY DEF TInv
<1>1. CASE AdapterStateListen
  <2>1. posted' \in Seq(Events)
    BY <1>0, <1>1, PostGrows DEF AdapterStateListen, TypeOK, Events, Event
  <2> QED
    BY <1>0, <1>1, <2>1
    DEF AdapterStateListen, Kinds, TInv, TypeOK, Requested, PairsKnown, bluezVars
<1>2. CASE StartDiscovery
  <2>1. KnownResults \in Seq(Events)
    <3>1. KnownResults \in Seq({Event("result", d) : d \in known}) /\ known \subseteq Devices
      BY <1>0, Results DEF TypeOK
    <3>2. {Event("result", d) : d \in known} \subseteq Events
      BY <3>1 DEF Event, Events
    <3> QED
      BY <3>1, <3>2, SeqMonotonic
  <2>2. <<Event("scan", TRUE)>> \in Seq(Events)
    BY DEF Event, Events
  <2>3. posted' \in Seq(Events)
    <3> DEFINE first == <<Event("scan", TRUE)>>
    <3>1. posted' = posted \o (first \o KnownResults) /\ posted \in Seq(Events)
      BY <1>0, <1>2 DEF StartDiscovery, Posts, TypeOK
    <3>2. first \in Seq(Events)
      BY <2>2
    <3> HIDE DEF first
    <3>3. first \o KnownResults \in Seq(Events)
      BY <2>1, <3>2
    <3> QED
      BY <3>1, <3>3
  <2> QED
    BY <1>0, <1>2, <2>3
    DEF StartDiscovery, TInv, TypeOK, Requested, PairsKnown, bluezVars, dartVars
<1>3. CASE EndDiscovery
  <2>1. posted' \in Seq(Events)
    BY <1>0, <1>3, PostGrows DEF EndDiscovery, TypeOK, Events, Event
  <2> QED
    BY <1>0, <1>3, <2>1
    DEF EndDiscovery, TInv, TypeOK, Requested, PairsKnown, bluezVars, dartVars
<1>4. CASE ResultsListen \/ (\E kind \in Kinds : EventCancel(kind)) \/ PairTimesOut
  BY <1>0, <1>4 DEF ResultsListen, EventCancel, Kinds, PairTimesOut, TInv, TypeOK,
     Requested, PairsKnown,
     bluezVars, pluginVars, dartVars
<1>5. CASE OnAdapterPropertiesChanged
  <2>1. /\ bus' \in Seq(Messages) /\ Shrinks(bus', bus) /\ Head(bus) = bus[1]
        /\ bus[1].kind = "power" /\ bus[1] \in Messages
    BY <1>0, <1>5, TakeShrinks DEF OnAdapterPropertiesChanged, TypeOK
  <2>2. bus[1].what \in BOOLEAN
    BY <2>1 DEF Messages, Requests
  <2>3. posted' \in Seq(Events)
    BY <1>0, <1>5, <2>1, <2>2, PostGrows
    DEF OnAdapterPropertiesChanged, TypeOK, Events, Event
  <2>4. UNCHANGED <<powered, other, known, paired, pairing, registered, main, discovering,
                    dartVars>>
    BY <1>5 DEF OnAdapterPropertiesChanged
  <2>5. Requested'
    BY <1>0, <2>1, <2>4, OthersKeepRequested
  <2> QED
    BY <1>0, <2>1, <2>3, <2>4, <2>5 DEF TInv, TypeOK, PairsKnown, dartVars
<1>6. CASE OnDeviceSignal
  <2>1. /\ bus' \in Seq(Messages) /\ Shrinks(bus', bus) /\ Head(bus) = bus[1]
        /\ bus[1].kind = "device" /\ bus[1] \in Messages
    BY <1>0, <1>6, TakeShrinks DEF OnDeviceSignal, TypeOK
  <2>2. bus[1].what \in Devices
    BY <2>1 DEF Messages
  <2>3. posted' \in Seq(Events)
    BY <1>0, <1>6, <2>1, <2>2, PostGrows DEF OnDeviceSignal, TypeOK, Events, Event
  <2>4. UNCHANGED <<powered, other, known, paired, pairing, registered, main, discovering,
                    dartVars>>
    BY <1>6 DEF OnDeviceSignal
  <2>5. Requested'
    BY <1>0, <2>1, <2>4, OthersKeepRequested
  <2> QED
    BY <1>0, <2>1, <2>3, <2>4, <2>5 DEF TInv, TypeOK, PairsKnown, dartVars
<1>7. CASE AgentMethodCall
  BY <1>7, AnswerKeepsTypes
<1>8. CASE Deliver
  <2>1. posted \in Seq(Events) /\ posted # <<>> /\ posted' = Tail(posted)
    BY <1>0, <1>8 DEF Deliver, TypeOK
  <2>2. posted' \in Seq(Events) /\ Head(posted) \in Events
    BY <2>1
  <2>3. state' \in BOOLEAN /\ scan' \in BOOLEAN
    BY <1>0, <1>8, <2>2 DEF Deliver, Events, TypeOK
  <2>4. results' \subseteq Devices
    BY <1>0, <1>8, <2>2 DEF Deliver, Events, TypeOK
  <2> QED
    BY <1>0, <1>8, <2>2, <2>3, <2>4
    DEF Deliver, TInv, TypeOK, Requested, PairsKnown, bluezVars
<1>9. CASE PairingEnds
  <2>1. pairing.dev # None /\ pairing.dev \in known
    BY <1>0, <1>9 DEF PairingEnds, PairsKnown
  <2>2. /\ pairing' = NoPairing /\ paired' \subseteq known /\ main' = None
        /\ UNCHANGED <<powered, other, known, bus, registered, discovering, posted, dartVars>>
    BY <1>0, <1>9, <2>1 DEF PairingEnds, TypeOK
  <2>3. \A i \in 1..Len(bus) : bus[i].kind \notin Requests
    BY <1>0, <1>9 DEF PairingEnds, Requested
  <2>4. Requested' /\ PairsKnown'
    BY <2>2, <2>3 DEF Requested, PairsKnown, NoPairing
  <2>5. TypeOK'
    BY <1>0, <2>2 DEF TypeOK, NoPairing, dartVars
  <2> QED
    BY <2>4, <2>5 DEF TInv
<1>10. ASSUME NEW on \in BOOLEAN, PowerBecomes(on) PROVE TInv'
  <2>1. bus' \in Seq(Messages) /\ Grows(bus', bus, [kind |-> "power", what |-> on])
    BY <1>0, <1>10, SignalGrows DEF PowerBecomes, TypeOK, Messages
  <2>2. Requested'
    BY <1>0, <1>10, <2>1, OthersKeepRequested DEF PowerBecomes, Requests
  <2> QED
    BY <1>0, <1>10, <2>1, <2>2
    DEF PowerBecomes, TInv, TypeOK, PairsKnown, pluginVars, dartVars
<1>11. ASSUME NEW d \in Devices, BondDevice(d) PROVE TInv'
  <2>1. /\ pairing.step = "none" /\ d \in known /\ d # None
        /\ pairing' = [dev |-> d, step |-> "trying"] /\ main' = d
        /\ UNCHANGED <<powered, other, known, paired, bus, registered, discovering, posted,
                       dartVars>>
    BY <1>11, DevicesAssumption DEF BondDevice, NoPairing
  <2>2. \A i \in 1..Len(bus) : bus[i].kind \notin Requests
    BY <1>0, <2>1 DEF Requested
  <2>3. Requested' /\ PairsKnown'
    BY <2>1, <2>2 DEF Requested, PairsKnown
  <2> QED
    BY <1>0, <2>1, <2>3 DEF TInv, TypeOK, dartVars
<1>12. ASSUME NEW d \in Devices, UnbondDevice(d) PROVE TInv'
  BY <1>12, RemoveKeepsTypes
<1>13. ASSUME NEW d \in Devices, DeviceFound(d) PROVE TInv'
  <2>1. bus' \in Seq(Messages) /\ Grows(bus', bus, [kind |-> "device", what |-> d])
    BY <1>0, <1>13, SignalGrows DEF DeviceFound, TypeOK, Messages
  <2>2. Requested'
    BY <1>0, <1>13, <2>1, OthersKeepRequested DEF DeviceFound, Requests
  <2> QED
    BY <1>0, <1>13, <2>1, <2>2
    DEF DeviceFound, TInv, TypeOK, PairsKnown, pluginVars, dartVars
<1>14. ASSUME NEW d \in Devices, DeviceForgotten(d) PROVE TInv'
  BY <1>0, <1>14
  DEF DeviceForgotten, TInv, TypeOK, Requested, PairsKnown, pluginVars, dartVars
<1>15. ASSUME NEW kind \in Requests, PairingAsks(kind) PROVE TInv'
  <2>1. /\ pairing.step = "trying" /\ pairing.dev \in known /\ pairing.dev \in Devices
        /\ pairing.dev # None /\ pairing' = [pairing EXCEPT !.step = "asking"]
        /\ Signal(kind, pairing.dev)
        /\ UNCHANGED <<powered, other, known, paired, pluginVars, dartVars>>
    BY <1>0, <1>15 DEF PairingAsks, PairsKnown, TypeOK
  <2> DEFINE m == [kind |-> kind, what |-> pairing.dev]
  <2>2. bus' \in Seq(Messages) /\ Grows(bus', bus, m)
    BY <1>0, <2>1, SignalGrows DEF TypeOK, Messages
  <2>3. /\ pairing' \in [dev : Devices \cup {None},
                         step : {"none", "trying", "asking", "answered"}]
        /\ pairing'.step = "asking" /\ pairing'.dev = pairing.dev
    BY <1>0, <2>1 DEF TypeOK
  <2>4. \A i \in 1..Len(bus) : bus[i].kind \notin Requests
    BY <1>0, <2>1 DEF Requested
  <2>5. m.what = pairing.dev
    OBVIOUS
  <2> HIDE DEF m
  <2>6. \A i \in 1..Len(bus') : i = Len(bus) + 1 \/ bus'[i].kind \notin Requests
    BY <2>2, <2>4 DEF Grows
  <2>7. Requested'
    BY <2>2, <2>3, <2>5, <2>6 DEF Requested, Grows
  <2> QED
    BY <1>0, <2>1, <2>2, <2>3, <2>7 DEF TInv, TypeOK, PairsKnown, pluginVars, dartVars
<1>16. ASSUME NEW on \in BOOLEAN, OtherPowerChanges(on) PROVE TInv'
  <2>1. bus' \in Seq(Messages) /\ Grows(bus', bus, [kind |-> "power", what |-> on])
    BY <1>0, <1>16, SignalGrows DEF OtherPowerChanges, TypeOK, Messages
  <2>2. Requested'
    BY <1>0, <1>16, <2>1, OthersKeepRequested DEF OtherPowerChanges, Requests
  <2> QED
    BY <1>0, <1>16, <2>1, <2>2
    DEF OtherPowerChanges, TInv, TypeOK, PairsKnown, pluginVars, dartVars
<1>17. CASE UNCHANGED vars
  BY <1>0, <1>17
  DEF vars, bluezVars, pluginVars, dartVars, TInv, TypeOK, Requested, PairsKnown
<1> QED
  BY <1>1, <1>2, <1>3, <1>4, <1>5, <1>6, <1>7, <1>8, <1>9, <1>10, <1>11, <1>12, <1>13,
     <1>14, <1>15, <1>16, <1>17 DEF Next, SetAdapterPowered, PowerChanges

\* Every variable has its type in every reachable state.
THEOREM RadioTypes == Spec => []TypeOK
<1>1. TInv => TypeOK
  BY DEF TInv
<1> QED
  BY <1>1, InitTInv, NextTInv, PTL DEF Spec

-----------------------------------------------------------------------------
\* No element of the sequence q is of the kind; the last one that is says v.
Without(q, kind) == \A i \in 1..Len(q) : q[i].kind # kind
LastIs(q, kind, v) ==
    \A i \in 1..Len(q) :
        q[i].kind = kind /\ (\A j \in 1..Len(q) : q[j].kind = kind => j <= i) => q[i].what = v

\* The word of the adapter on its way to Dart: the last signal on the bus says what is so;
\* when there is none, the last event does; and when there is neither, a listener knows.
LastWord ==
    /\ LastIs(bus, "power", powered)
    /\ Without(bus, "power") => LastIs(posted, "state", powered)
    /\ "state" \in listening /\ Without(bus, "power") /\ Without(posted, "state")
          => state = powered

\* What an element at the end of a sequence changes of that.
LEMMA GrowsLast ==
  ASSUME NEW q, NEW r, NEW m, Grows(r, q, m), NEW kind, NEW v
  PROVE  /\ m.kind = kind /\ m.what = v => LastIs(r, kind, v) /\ ~Without(r, kind)
         /\ m.kind # kind => /\ LastIs(q, kind, v) => LastIs(r, kind, v)
                             /\ Without(r, kind) => Without(q, kind)
<1>1. /\ Len(q) \in Nat /\ Len(r) = Len(q) + 1 /\ r[Len(q) + 1] = m
      /\ \A i \in 1..Len(q) : i \in 1..Len(r) /\ r[i] = q[i]
      /\ \A i \in 1..Len(r) : i \in 1..Len(q) \/ i = Len(q) + 1
      /\ Len(q) + 1 \in 1..Len(r)
  BY DEF Grows
<1>2. CASE m.kind = kind /\ m.what = v
  <2>1. ASSUME NEW i \in 1..Len(r), \A j \in 1..Len(r) : r[j].kind = kind => j <= i
        PROVE  r[i].what = v
    <3>1. Len(q) + 1 <= i
      BY <1>1, <1>2, <2>1
    <3> QED
      BY <1>1, <1>2, <3>1
  <2>2. LastIs(r, kind, v)
    BY <2>1 DEF LastIs
  <2> QED
    BY <1>1, <1>2, <2>2 DEF Without
<1>3. CASE m.kind # kind
  <2>1. LastIs(q, kind, v) => LastIs(r, kind, v)
    <3> SUFFICES ASSUME LastIs(q, kind, v), NEW i \in 1..Len(r), r[i].kind = kind,
                        \A j \in 1..Len(r) : r[j].kind = kind => j <= i
                 PROVE  r[i].what = v
      BY DEF LastIs
    <3>1. i \in 1..Len(q) /\ r[i] = q[i]
      BY <1>1, <1>3
    <3>2. \A j \in 1..Len(q) : q[j].kind = kind => j <= i
      BY <1>1
    <3> QED
      BY <3>1, <3>2 DEF LastIs
  <2>2. Without(r, kind) => Without(q, kind)
    BY <1>1 DEF Without
  <2> QED
    BY <1>3, <2>1, <2>2
<1> QED
  BY <1>2, <1>3

\* What taking the first element changes of it.
LEMMA ShrinksLast ==
  ASSUME NEW q, NEW r, Shrinks(r, q), NEW kind, NEW v, LastIs(q, kind, v)
  PROVE  /\ LastIs(r, kind, v)
         /\ q[1].kind # kind /\ Without(r, kind) => Without(q, kind)
         /\ q[1].kind = kind /\ Without(r, kind) => q[1].what = v
<1>1. /\ Len(r) \in Nat /\ Len(q) = Len(r) + 1 /\ 1 \in 1..Len(q)
      /\ \A i \in 1..Len(r) : i \in Nat /\ i + 1 \in 1..Len(q) /\ r[i] = q[i + 1]
      /\ \A i \in 1..Len(q) : i = 1 \/ (i - 1 \in 1..Len(r) /\ q[i] = r[i - 1] /\ i \in Nat)
  BY DEF Shrinks
<1>2. LastIs(r, kind, v)
  <2> SUFFICES ASSUME NEW i \in 1..Len(r), r[i].kind = kind,
                      \A j \in 1..Len(r) : r[j].kind = kind => j <= i
               PROVE  r[i].what = v
    BY DEF LastIs
  <2>1. i + 1 \in 1..Len(q) /\ r[i] = q[i + 1] /\ i \in Nat /\ i >= 1
    BY <1>1
  <2>2. ASSUME NEW j \in 1..Len(q), q[j].kind = kind PROVE j <= i + 1
    <3>1. CASE j = 1
      BY <2>1, <3>1
    <3>2. CASE j # 1
      <4>1. j \in Nat /\ j - 1 <= i
        BY <1>1, <2>2, <3>2
      <4> QED
        BY <2>1, <4>1
    <3> QED
      BY <3>1, <3>2
  <2> QED
    BY <2>1, <2>2 DEF LastIs
<1>3. q[1].kind # kind /\ Without(r, kind) => Without(q, kind)
  BY <1>1 DEF Without
<1>4. ASSUME q[1].kind = kind, Without(r, kind) PROVE q[1].what = v
  <2>1. \A j \in 1..Len(q) : q[j].kind = kind => j <= 1
    BY <1>1, <1>4 DEF Without
  <2> QED
    BY <1>1, <1>4, <2>1 DEF LastIs
<1> QED
  BY <1>2, <1>3, <1>4

\* An event of another kind, and the signals of other kinds.
LEMMA OtherEvents ==
  ASSUME LastWord, NEW m, m.kind # "state", Grows(posted', posted, m),
         Without(bus', "power") => Without(bus, "power"), LastIs(bus', "power", powered'),
         UNCHANGED <<powered, other, listening, state>>
  PROVE  LastWord'
<1>1. /\ LastIs(posted, "state", powered) => LastIs(posted', "state", powered)
      /\ Without(posted', "state") => Without(posted, "state")
  BY GrowsLast
<1> QED
  BY <1>1 DEF LastWord

\* A scan begins: none of its events is about the adapter.
LEMMA ScanKeepsWord ==
  ASSUME TInv, LastWord, StartDiscovery
  PROVE  LastWord'
<1>1. posted \in Seq(Events) /\ known \subseteq Devices
  BY DEF TInv, TypeOK
<1> DEFINE S == {Event("result", d) : d \in known} \cup {Event("scan", TRUE)}
           events == <<Event("scan", TRUE)>> \o KnownResults
<1>2. events \in Seq(S)
  <2>1. KnownResults \in Seq({Event("result", d) : d \in known})
    BY <1>1, Results
  <2>2. KnownResults \in Seq(S)
    <3>1. {Event("result", d) : d \in known} \subseteq S
      OBVIOUS
    <3> HIDE DEF S
    <3> QED
      BY <2>1, <3>1, SeqMonotonic
  <2>3. PICK e \in S : e = Event("scan", TRUE)
    OBVIOUS
  <2>4. PICK q \in Seq(S) : q = KnownResults
    BY <2>2
  <2>5. <<e>> \o q \in Seq(S)
    <3> HIDE DEF S
    <3> QED
      OBVIOUS
  <2> QED
    BY <2>3, <2>4, <2>5
<1>3. \A e \in S : e.kind # "state"
  BY DEF Event
<1>4. posted' = posted \o events /\ UNCHANGED <<bus, powered, other, listening, state>>
  BY DEF StartDiscovery, Posts, bluezVars, dartVars
<1> HIDE DEF S, events
<1>5. /\ Len(posted) \in Nat /\ Len(events) \in Nat /\ Len(posted') = Len(posted) + Len(events)
      /\ \A i \in 1..Len(posted) : i \in 1..Len(posted') /\ posted'[i] = posted[i]
      /\ \A i \in 1..Len(posted') : i \in 1..Len(posted) \/ posted'[i] \in S
  BY <1>1, <1>2, <1>4
<1>6. \A i \in 1..Len(posted') : posted'[i].kind = "state" => i \in 1..Len(posted)
  BY <1>3, <1>5
<1>7. Without(posted', "state") => Without(posted, "state")
  BY <1>5 DEF Without
<1>8. LastIs(posted, "state", powered) => LastIs(posted', "state", powered)
  <2> SUFFICES ASSUME LastIs(posted, "state", powered),
                      NEW i \in 1..Len(posted'), posted'[i].kind = "state",
                      \A j \in 1..Len(posted') : posted'[j].kind = "state" => j <= i
               PROVE  posted'[i].what = powered
    BY DEF LastIs
  <2>1. i \in 1..Len(posted) /\ posted'[i] = posted[i]
    BY <1>5, <1>6
  <2>2. \A j \in 1..Len(posted) : posted[j].kind = "state" => j <= i
    BY <1>5
  <2> QED
    BY <2>1, <2>2 DEF LastIs
<1> QED
  BY <1>4, <1>7, <1>8 DEF LastWord

\* The bus as it is, or with as many messages, of which those about power are the same.
LEMMA SamePower ==
  ASSUME LastWord, Len(bus) \in Nat, Len(bus') = Len(bus),
         \A i \in 1..Len(bus) : \/ bus'[i] = bus[i]
                                \/ bus'[i].kind # "power" /\ bus[i].kind # "power",
         UNCHANGED <<powered, other, posted, listening, state>>
  PROVE  LastWord'
<1>1. Without(bus', "power") => Without(bus, "power")
  BY DEF Without
<1>2. LastIs(bus', "power", powered)
  <2> SUFFICES ASSUME NEW i \in 1..Len(bus'), bus'[i].kind = "power",
                      \A j \in 1..Len(bus') : bus'[j].kind = "power" => j <= i
               PROVE  bus'[i].what = powered
    BY DEF LastIs
  <2>1. i \in 1..Len(bus) /\ bus'[i] = bus[i]
    OBVIOUS
  <2>2. \A j \in 1..Len(bus) : bus[j].kind = "power" => j <= i
    OBVIOUS
  <2> QED
    BY <2>1, <2>2 DEF LastWord, LastIs
<1> QED
  BY <1>1, <1>2 DEF LastWord

\* What BlueZ says of something else.
LEMMA OtherSignal ==
  ASSUME LastWord, NEW m, m.kind # "power", Grows(bus', bus, m),
         UNCHANGED <<powered, other, posted, listening, state>>
  PROVE  LastWord'
<1>1. /\ LastIs(bus, "power", powered) => LastIs(bus', "power", powered)
      /\ Without(bus', "power") => Without(bus, "power")
  BY GrowsLast
<1> QED
  BY <1>1 DEF LastWord

\* The first adapter speaks, and has the last word.
LEMMA PowerHasWord ==
  ASSUME TInv, NEW on \in BOOLEAN, PowerBecomes(on)
  PROVE  LastWord'
<1> DEFINE m == [kind |-> "power", what |-> on]
<1>1. Grows(bus', bus, m)
  BY SignalGrows DEF PowerBecomes, Messages, TInv, TypeOK
<1>2. m.kind = "power" /\ m.what = on
  OBVIOUS
<1> HIDE DEF m
<1>3. LastIs(bus', "power", on) /\ ~Without(bus', "power")
  BY <1>1, <1>2, GrowsLast
<1> QED
  BY <1>3 DEF PowerBecomes, LastWord

\* Every step keeps the last word, but another adapter's.
LEMMA NextLastWord == TInv /\ LastWord /\ [Next]_vars => other' \/ LastWord'
<1> SUFFICES ASSUME TInv, LastWord, [Next]_vars, ~other' PROVE LastWord'
  OBVIOUS
<1>0. /\ bus \in Seq(Messages) /\ posted \in Seq(Events) /\ powered \in BOOLEAN
      /\ LastIs(bus, "power", powered)
  BY DEF TInv, TypeOK, LastWord
<1>1. CASE AdapterStateListen
  <2>1. Grows(posted', posted, Event("state", powered))
    BY <1>0, <1>1, PostGrows DEF AdapterStateListen, Events, Event
  <2>2. LastIs(posted', "state", powered) /\ ~Without(posted', "state")
    BY <2>1, GrowsLast DEF Event
  <2> QED
    BY <1>0, <1>1, <2>2 DEF AdapterStateListen, bluezVars, LastWord
<1>2. CASE ResultsListen \/ \E kind \in Kinds : EventCancel(kind)
  BY <1>2 DEF ResultsListen, EventCancel, bluezVars, pluginVars, LastWord
<1>3. CASE StartDiscovery
  BY <1>3, ScanKeepsWord
<1>4. CASE EndDiscovery
  <2>1. Grows(posted', posted, Event("scan", FALSE)) /\ Event("scan", FALSE).kind # "state"
    BY <1>0, <1>4, PostGrows DEF EndDiscovery, Events, Event
  <2>2. UNCHANGED <<bus, powered, other, listening, state>>
    BY <1>4 DEF EndDiscovery, bluezVars, dartVars
  <2> QED
    BY <1>0, <2>1, <2>2, OtherEvents
<1>5. CASE OnAdapterPropertiesChanged
  <2>1. Shrinks(bus', bus) /\ Head(bus) = bus[1] /\ bus[1].kind = "power" /\ bus[1] \in Messages
    BY <1>0, <1>5, TakeShrinks DEF OnAdapterPropertiesChanged
  <2>2. Grows(posted', posted, Event("state", bus[1].what))
    BY <1>0, <1>5, <2>1, PostGrows
    DEF OnAdapterPropertiesChanged, Messages, Requests, Events, Event
  <2>3. /\ LastIs(bus', "power", powered)
        /\ Without(bus', "power") => bus[1].what = powered
    BY <1>0, <2>1, ShrinksLast
  <2>4. ~Without(posted', "state")
    BY <2>2, GrowsLast DEF Event
  <2>5. bus[1].what = powered => LastIs(posted', "state", powered)
    BY <2>2, GrowsLast DEF Event
  <2>6. powered' = powered
    BY <1>5 DEF OnAdapterPropertiesChanged
  <2> QED
    BY <2>3, <2>4, <2>5, <2>6 DEF LastWord
<1>6. CASE OnDeviceSignal
  <2>1. Shrinks(bus', bus) /\ Head(bus) = bus[1] /\ bus[1].kind = "device" /\ bus[1] \in Messages
    BY <1>0, <1>6, TakeShrinks DEF OnDeviceSignal
  <2>2. LastIs(bus', "power", powered) /\ (Without(bus', "power") => Without(bus, "power"))
    BY <1>0, <2>1, ShrinksLast
  <2>3. UNCHANGED <<powered, other, listening, state>>
    BY <1>6 DEF OnDeviceSignal, dartVars
  <2>4. CASE discovering
    <3>1. Grows(posted', posted, Event("result", bus[1].what))
      BY <1>0, <1>6, <2>1, <2>4, PostGrows DEF OnDeviceSignal, Messages, Events, Event
    <3>2. Event("result", bus[1].what).kind # "state"
      BY DEF Event
    <3> QED
      BY <2>2, <2>3, <3>1, <3>2, OtherEvents
  <2>5. CASE ~discovering
    BY <1>6, <2>2, <2>3, <2>5 DEF OnDeviceSignal, LastWord
  <2> QED
    BY <2>4, <2>5
<1>7. CASE AgentMethodCall
  <2>1. Shrinks(bus', bus) /\ bus[1].kind # "power"
    BY <1>0, <1>7, TakeShrinks DEF AgentMethodCall, Requests
  <2>2. LastIs(bus', "power", powered) /\ (Without(bus', "power") => Without(bus, "power"))
    BY <1>0, <2>1, ShrinksLast
  <2> QED
    BY <1>7, <2>2 DEF AgentMethodCall, dartVars, LastWord
<1>8. CASE Deliver
  <2>1. /\ Shrinks(posted', posted) /\ Head(posted) = posted[1]
        /\ UNCHANGED <<bus, powered, other, listening>>
        /\ state' = IF posted[1].kind = "state" /\ "state" \in listening
                    THEN posted[1].what ELSE state
    BY <1>0, <1>8 DEF Deliver, Shrinks, bluezVars
  <2>2. ASSUME Without(bus, "power")
        PROVE  /\ LastIs(posted', "state", powered)
               /\ posted[1].kind # "state" /\ Without(posted', "state") =>
                     Without(posted, "state")
               /\ posted[1].kind = "state" /\ Without(posted', "state") =>
                     posted[1].what = powered
    BY <2>1, <2>2, ShrinksLast DEF LastWord
  <2> QED
    BY <2>1, <2>2 DEF LastWord
<1>9. CASE PairTimesOut \/ PairingEnds
  BY <1>9 DEF PairTimesOut, PairingEnds, bluezVars, dartVars, LastWord
<1>10. ASSUME NEW on \in BOOLEAN, PowerBecomes(on) PROVE LastWord'
  BY <1>10, PowerHasWord
<1>11. ASSUME NEW d \in Devices, BondDevice(d) \/ DeviceForgotten(d) PROVE LastWord'
  BY <1>11 DEF BondDevice, DeviceForgotten, pluginVars, dartVars, LastWord
<1>12. ASSUME NEW d \in Devices, UnbondDevice(d) PROVE LastWord'
  <2>1. /\ Len(bus) \in Nat /\ Len(bus') = Len(bus)
        /\ \A i \in 1..Len(bus) : IF bus[i].kind \in Requests /\ bus[i].what = d
                                  THEN bus'[i].kind = "void" /\ bus'[i].what = d
                                  ELSE bus'[i] = bus[i]
    BY <1>0, <1>12, RemoveKeepsLength DEF UnbondDevice
  <2> QED
    BY <1>12, <2>1, SamePower DEF UnbondDevice, Requests, pluginVars, dartVars
<1>13. ASSUME NEW d \in Devices, DeviceFound(d) PROVE LastWord'
  <2> DEFINE m == [kind |-> "device", what |-> d]
  <2>1. Grows(bus', bus, m)
    BY <1>0, <1>13, SignalGrows DEF DeviceFound, Messages
  <2>2. m.kind # "power"
    OBVIOUS
  <2> HIDE DEF m
  <2> QED
    BY <1>13, <2>1, <2>2, OtherSignal DEF DeviceFound, pluginVars, dartVars
<1>14. ASSUME NEW kind \in Requests, PairingAsks(kind) PROVE LastWord'
  <2> DEFINE m == [kind |-> kind, what |-> pairing.dev]
  <2>1. pairing.dev \in Devices
    BY <1>14 DEF PairingAsks, TInv, TypeOK, PairsKnown
  <2>2. Grows(bus', bus, m)
    BY <1>0, <1>14, <2>1, SignalGrows DEF PairingAsks, Messages
  <2>3. m.kind # "power"
    BY DEF Requests
  <2> HIDE DEF m
  <2> QED
    BY <1>14, <2>2, <2>3, OtherSignal DEF PairingAsks, pluginVars, dartVars
<1>15. CASE UNCHANGED vars
  BY <1>15 DEF vars, bluezVars, pluginVars, dartVars, LastWord
<1> QED
  BY <1>1, <1>2, <1>3, <1>4, <1>5, <1>6, <1>7, <1>8, <1>9, <1>10, <1>11, <1>12, <1>13,
     <1>14, <1>15 DEF Next, SetAdapterPowered, PowerChanges, OtherPowerChanges

\* Only the first adapter takes the last word back.
LEMMA NextOther == TInv /\ other /\ [Next]_vars => other' \/ LastWord'
<1> SUFFICES ASSUME TInv, other, [Next]_vars PROVE other' \/ LastWord'
  OBVIOUS
<1>1. ASSUME NEW on \in BOOLEAN, PowerBecomes(on) PROVE LastWord'
  BY <1>1, PowerHasWord
<1>2. other' \/ \E on \in BOOLEAN : PowerBecomes(on)
  BY DEF Next, AdapterStateListen, ResultsListen, EventCancel, StartDiscovery, EndDiscovery,
     PairTimesOut, OnAdapterPropertiesChanged, OnDeviceSignal, AgentMethodCall, Deliver,
     PairingEnds, SetAdapterPowered, PowerChanges, OtherPowerChanges, BondDevice,
     UnbondDevice, DeviceFound, DeviceForgotten, PairingAsks, vars, bluezVars
<1> QED
  BY <1>1, <1>2

\* Once nothing about it is on its way, what a listener heard last of the adapter is so,
\* unless another adapter was the last to speak.
THEOREM AdapterIsTrue == Spec => []AdapterTruth
<1>1. Init => LastWord
  <2> SUFFICES ASSUME Init PROVE LastWord
    OBVIOUS
  <2>1. Len(bus) = 0 /\ Len(posted) = 0 /\ listening = {}
    BY DEF Init
  <2> QED
    BY <2>1 DEF LastWord, LastIs
<1>2. TInv /\ (other \/ LastWord) => AdapterTruth
  <2> SUFFICES ASSUME TInv, other \/ LastWord PROVE AdapterTruth
    OBVIOUS
  <2>1. DOMAIN bus = 1..Len(bus) /\ DOMAIN posted = 1..Len(posted)
    BY DEF TInv, TypeOK
  <2> QED
    BY <2>1 DEF LastWord, Without, AdapterTruth
<1> QED
  BY <1>1, <1>2, InitTInv, NextTInv, NextLastWord, NextOther, PTL DEF Spec
=============================================================================
