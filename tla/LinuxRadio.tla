----------------------------- MODULE LinuxRadio -----------------------------
(***************************************************************************)
(* The Linux plugin and BlueZ.  The plugin calls BlueZ synchronously, which *)
(* blocks the main loop; what BlueZ sends by itself, signals and the calls *)
(* of its pairing agent, waits for that loop on the bus; and what the      *)
(* plugin has for Dart waits there once more as posted events.  The order  *)
(* in which the main loop serves bus, events and method calls is left open. *)
(*                                                                         *)
(* BlueZ answers every call here: the fallback to raw HCI is in Discovery, *)
(* and calls that only read (names, addresses, paired devices, isEnabled)  *)
(* change nothing.  An adapter that is unplugged tells the plugin nothing. *)
(* The plugin's calls are about the first adapter; the signals it hears    *)
(* are about any.                                                          *)
(***************************************************************************)
EXTENDS Naturals, Sequences, SequencesExt

CONSTANTS
    Devices,  \* remote devices
    None,     \* no device
    Room      \* bound: messages that wait on the bus, and events that wait
              \* when another is posted

ASSUME DevicesAssumption == None \notin Devices /\ IsFiniteSet(Devices)
ASSUME RoomAssumption == Room \in Nat

VARIABLES
    \* BlueZ
    powered,      \* Adapter1.Powered of the first adapter
    other,        \* another adapter spoke of its power after the first did
    known,        \* its Device1 objects
    paired,       \* those with Paired set
    pairing,      \* the device it is pairing and how far it is, or None
    bus,          \* its messages for the plugin
    \* the plugin
    registered,   \* it is the pairing agent
    main,         \* None, or the device whose Pair call the main loop awaits
    discovering,  \* discovering
    posted,       \* events waiting for the main loop
    \* Dart
    listening,    \* to adapter_state and to discovery_results
    state,        \* the last adapter state it heard, as Powered
    scan,         \* the last discovery state sent to it
    results       \* devices it heard of since the last scan began

bluezVars == <<powered, other, known, paired, pairing, bus>>
pluginVars == <<registered, main, discovering, posted>>
dartVars == <<listening, state, scan, results>>
vars == <<bluezVars, pluginVars, dartVars>>

NoPairing == [dev |-> None, step |-> "none"]

\* dbus_register_pairing_agent(): another agent may have been first.
RegisterAgent == registered \in BOOLEAN

\* Registered with the engine, and subscribed to what BlueZ says.
Init == /\ powered \in BOOLEAN /\ other = FALSE /\ known = {} /\ paired = {}
        /\ pairing = NoPairing /\ bus = <<>>
        /\ RegisterAgent /\ main = None /\ discovering = FALSE /\ posted = <<>>
        /\ listening = {} /\ state = FALSE /\ scan = FALSE /\ results = {}

-----------------------------------------------------------------------------
MainIdle == main = None

\* The events that need a listener here.
Kinds == {"state", "result"}

\* What BlueZ asks its agent.
Requests == {"confirm", "pin"}

Signal(kind, what) == Len(bus) < Room /\ bus' = Append(bus, [kind |-> kind, what |-> what])

Event(kind, what) == [kind |-> kind, what |-> what]
Posts(events) == Len(posted) < Room /\ posted' = posted \o events
Post(kind, what) == Posts(<<Event(kind, what)>>)

\* Powered changes, and BlueZ says so.
PowerBecomes(on) ==
    /\ powered # on /\ powered' = on /\ other' = FALSE
    /\ Signal("power", on)
    /\ UNCHANGED <<known, paired, pairing, pluginVars, dartVars>>

-----------------------------------------------------------------------------
(* Method calls and listeners                                              *)

\* enableBluetooth and disableBluetooth; BlueZ may refuse.
SetAdapterPowered(on) == MainIdle /\ PowerBecomes(on)

\* adapter_state_listen(): a snapshot of what BlueZ says now.
AdapterStateListen ==
    /\ MainIdle /\ "state" \notin listening
    /\ listening' = listening \cup {"state"}
    /\ Post("state", powered)
    /\ UNCHANGED <<bluezVars, registered, main, discovering, state, scan, results>>

\* event_listen_noop(): Dart listens to the results, of which none were kept.
ResultsListen ==
    /\ MainIdle /\ "result" \notin listening
    /\ listening' = listening \cup {"result"}
    /\ UNCHANGED <<bluezVars, pluginVars, state, scan, results>>

\* event_cancel_noop(): Dart stops to listen, the plugin goes on.
EventCancel(kind) ==
    /\ MainIdle /\ kind \in listening
    /\ listening' = listening \ {kind}
    /\ UNCHANGED <<bluezVars, pluginVars, state, scan, results>>

\* dbus_start_discovery() succeeds on an adapter that is on.
BlueZDiscovers == powered

\* dbus_for_each_device(): what BlueZ knows, as results.
KnownResults == SetToSeq({Event("result", d) : d \in known})

\* A faulty StartDiscovery: it waits for signals of the devices.
StartDiscoveryBlank ==
    /\ MainIdle /\ BlueZDiscovers /\ ~discovering
    /\ discovering' = TRUE
    /\ Post("scan", TRUE)
    /\ UNCHANGED <<bluezVars, registered, main, dartVars>>

\* handle_start_discovery(): devices BlueZ knows already are results at once.
StartDiscovery ==
    /\ MainIdle /\ BlueZDiscovers /\ ~discovering
    /\ discovering' = TRUE
    /\ Posts(<<Event("scan", TRUE)>> \o KnownResults)
    /\ UNCHANGED <<bluezVars, registered, main, dartVars>>

\* handle_stop_discovery(), and discovery_autostop_cb() when the time is up.
EndDiscovery ==
    /\ MainIdle /\ discovering
    /\ discovering' = FALSE
    /\ Post("scan", FALSE)
    /\ UNCHANGED <<bluezVars, registered, main, dartVars>>

\* handle_bond_device(): Pair, which the main loop waits for.  BlueZ refuses at
\* once what it does not know, has paired or cannot do now.
BondDevice(d) ==
    /\ MainIdle /\ powered /\ d \in known \ paired /\ pairing = NoPairing
    /\ pairing' = [dev |-> d, step |-> "trying"]
    /\ main' = d
    /\ UNCHANGED <<powered, other, known, paired, bus, registered, discovering, posted, dartVars>>

\* A faulty PairTimesOut: the call has no timeout.
PairTimesOutNever == FALSE /\ UNCHANGED vars

\* After 30 s bondDevice is answered false, whatever BlueZ still does.
PairTimesOut ==
    /\ main # None
    /\ main' = None
    /\ UNCHANGED <<bluezVars, registered, discovering, posted, dartVars>>

\* dbus_remove_device() ends a pairing under way; the agent still gets what BlueZ
\* asked for it, but BlueZ takes no answer any more.
RemoveDevice(d) ==
    /\ known' = known \ {d}
    /\ paired' = paired \ {d}
    /\ pairing' = IF pairing.dev = d THEN NoPairing ELSE pairing
    /\ bus' = [i \in DOMAIN bus |-> IF bus[i].kind \in Requests /\ bus[i].what = d
                                    THEN [bus[i] EXCEPT !.kind = "void"] ELSE bus[i]]

\* handle_unbond_device().
UnbondDevice(d) ==
    /\ MainIdle /\ d \in known
    /\ RemoveDevice(d)
    /\ UNCHANGED <<powered, other, pluginVars, dartVars>>

-----------------------------------------------------------------------------
(* Messages and events, served by the main loop                            *)

TakesMessage(kinds) == /\ MainIdle /\ bus # <<>> /\ Head(bus).kind \in kinds
                       /\ bus' = Tail(bus)

\* A faulty OnAdapterPropertiesChanged: it skips what Dart believes already.
OnAdapterPropertiesSkipped ==
    /\ TakesMessage({"power"})
    /\ IF Head(bus).what # state THEN Post("state", Head(bus).what) ELSE UNCHANGED posted
    /\ UNCHANGED <<powered, other, known, paired, pairing, registered, main, discovering, dartVars>>

\* on_adapter_properties_changed(), of whichever adapter.
OnAdapterPropertiesChanged ==
    /\ TakesMessage({"power"})
    /\ Post("state", Head(bus).what)
    /\ UNCHANGED <<powered, other, known, paired, pairing, registered, main, discovering, dartVars>>

\* A faulty OnDeviceSignal: it does not ask whether a scan is on.
OnDeviceSignalAlways ==
    /\ TakesMessage({"device"})
    /\ Post("result", Head(bus).what)
    /\ UNCHANGED <<powered, other, known, paired, pairing, registered, main, discovering, dartVars>>

\* on_interfaces_added(), and on_device_properties_changed() for a device that
\* shows up again: a result, but only of a scan.
OnDeviceSignal ==
    /\ TakesMessage({"device"})
    /\ IF discovering THEN Post("result", Head(bus).what) ELSE UNCHANGED posted
    /\ UNCHANGED <<powered, other, known, paired, pairing, registered, main, discovering, dartVars>>

\* btc_agent_method_call(): a confirmation is given, a PIN refused.
AgentMethodCall ==
    /\ TakesMessage(Requests \cup {"void"})
    /\ pairing' = CASE Head(bus).kind = "confirm" -> [pairing EXCEPT !.step = "answered"]
                    [] Head(bus).kind = "pin" -> NoPairing
                    [] OTHER -> pairing
    /\ UNCHANGED <<powered, other, known, paired, registered, main, discovering, posted, dartVars>>

\* send_on_main_thread_cb(): an event that Dart does not listen to is lost.
Deliver ==
    /\ MainIdle /\ posted # <<>>
    /\ posted' = Tail(posted)
    /\ LET e == Head(posted)
           hears == e.kind \in listening
       IN /\ state' = IF e.kind = "state" /\ hears THEN e.what ELSE state
          /\ scan' = IF e.kind = "scan" THEN e.what ELSE scan
          /\ results' = CASE e.kind = "result" /\ hears -> results \cup {e.what}
                          [] e.kind = "scan" /\ e.what -> {}
                          [] OTHER -> results
    /\ UNCHANGED <<bluezVars, registered, main, discovering, listening>>

-----------------------------------------------------------------------------
(* External: BlueZ and its radio                                           *)

\* rfkill or another program.
PowerChanges(on) == PowerBecomes(on)

\* Another adapter is switched.
OtherPowerChanges(on) ==
    /\ other' = TRUE
    /\ Signal("power", on)
    /\ UNCHANGED <<powered, known, paired, pairing, pluginVars, dartVars>>

\* Its inquiry, for the plugin or for another program, meets a device.
DeviceFound(d) ==
    /\ powered
    /\ known' = known \cup {d}
    /\ Signal("device", d)
    /\ UNCHANGED <<powered, other, paired, pairing, pluginVars, dartVars>>

\* Devices that are not paired are dropped when no scan sees them any more.
DeviceForgotten(d) ==
    /\ ~discovering /\ d \in known \ paired /\ pairing.dev # d
    /\ known' = known \ {d}
    /\ UNCHANGED <<powered, other, paired, pairing, bus, pluginVars, dartVars>>

\* A pairing may need the agent.
PairingAsks(kind) ==
    /\ pairing.step = "trying" /\ registered
    /\ pairing' = [pairing EXCEPT !.step = "asking"]
    /\ Signal(kind, pairing.dev)
    /\ UNCHANGED <<powered, other, known, paired, pluginVars, dartVars>>

\* It succeeds or fails, unless it waits for the agent.
PairingEnds ==
    /\ pairing.step \in {"trying", "answered"}
    /\ pairing' = NoPairing
    /\ paired' \in {paired, paired \cup {pairing.dev}}
    /\ main' = None
    /\ UNCHANGED <<powered, other, known, bus, registered, discovering, posted, dartVars>>

-----------------------------------------------------------------------------
Next == \/ AdapterStateListen \/ StartDiscovery \/ EndDiscovery
        \/ PairTimesOut \/ OnAdapterPropertiesChanged \/ OnDeviceSignal \/ AgentMethodCall
        \/ Deliver \/ PairingEnds
        \/ ResultsListen \/ \E kind \in Kinds : EventCancel(kind)
        \/ \E on \in BOOLEAN : SetAdapterPowered(on) \/ PowerChanges(on) \/ OtherPowerChanges(on)
        \/ \E d \in Devices : \/ BondDevice(d) \/ UnbondDevice(d) \/ DeviceFound(d)
                              \/ DeviceForgotten(d)
        \/ \E kind \in Requests : PairingAsks(kind)

Spec == Init /\ [][Next]_vars

\* A call to BlueZ returns, by its timeout if need be, and the main loop, which
\* such calls block for a while, comes round to the bus and to its events.
Fairness == /\ WF_vars(PairTimesOut) /\ SF_vars(Deliver)
            /\ SF_vars(OnAdapterPropertiesChanged \/ OnDeviceSignal \/ AgentMethodCall)

FairSpec == Spec /\ Fairness

-----------------------------------------------------------------------------
\* What waits on the bus, and for Dart.
Messages == [kind : {"power"}, what : BOOLEAN]
            \cup [kind : {"device", "void"} \cup Requests, what : Devices]
Events == [kind : {"state", "scan"}, what : BOOLEAN] \cup [kind : {"result"}, what : Devices]

\* Every variable holds a value of its kind.
TypeOK ==
    /\ powered \in BOOLEAN /\ other \in BOOLEAN /\ known \subseteq Devices /\ paired \subseteq known
    /\ pairing \in [dev : Devices \cup {None}, step : {"none", "trying", "asking", "answered"}]
    /\ bus \in Seq(Messages)
    /\ registered \in BOOLEAN /\ main \in Devices \cup {None} /\ discovering \in BOOLEAN
    /\ posted \in Seq(Events)
    /\ listening \subseteq Kinds /\ state \in BOOLEAN /\ scan \in BOOLEAN
    /\ results \subseteq Devices

\* Once nothing about it is on its way, a listener's last adapter state is the
\* adapter's, however the snapshot, the signals that waited for a blocked main
\* loop and the events behind them overtook each other, unless another adapter
\* had the last word.
AdapterTruth ==
    /\ "state" \in listening /\ ~other
    /\ \A i \in DOMAIN bus : bus[i].kind # "power"
    /\ \A i \in DOMAIN posted : posted[i].kind # "state"
    => state = powered

\* A device is sent to Dart only between the start and the end of a scan that were
\* sent, though devices and ends come by different ways.
ResultsWithinScan ==
    \A i \in DOMAIN posted : posted[i].kind = "result" =>
        LET told == {j \in 1..(i - 1) : posted[j].kind = "scan"}
        IN IF told = {} THEN scan
           ELSE \E j \in told : posted[j].what /\ \A k \in told : k <= j

\* The app listens to the results of its scans.
Attends == [](discovering => "result" \in listening)

\* A scan then gives it every device BlueZ knows while it is on, those of earlier
\* scans and those found before Dart hears of the scan too.
NoDeviceMissed ==
    Attends => \A d \in Devices : discovering /\ d \in known
                                      ~> d \in results \/ ~discovering \/ d \notin known

\* The agent answers every request, though bondDevice() blocks the main loop
\* that would serve it while BlueZ in turn waits for the answer.
EveryRequestAnswered == pairing.step = "asking" ~> pairing.step # "asking"
=============================================================================
