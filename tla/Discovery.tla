----------------------------- MODULE Discovery -----------------------------
(***************************************************************************)
(* Device discovery in the Linux and Windows plugins: a flag that says a   *)
(* scan is on, and for each scan what will end it: a 12 s timer when BlueZ *)
(* scans, a thread when the plugin inquires itself (Linux over raw HCI when *)
(* BlueZ refuses, Windows always).  The flag is shared by all scans.       *)
(* Handlers and timers run on the platform thread; a thread's last two     *)
(* steps, clearing the flag and posting the event, interleave with them.   *)
(***************************************************************************)
EXTENDS Naturals, Sequences, FiniteSets

CONSTANTS
    Backends,  \* what may serve a scan: "bus", "hci" or "windows"
    MaxScans   \* bound: scans started

ASSUME BackendsAssumption == Backends \subseteq {"bus", "hci", "windows"}
ASSUME ScansAssumption == MaxScans \in Nat

VARIABLES
    discovering,  \* the flag
    session,      \* discovery_session
    bluez,        \* BlueZ scans for the plugin
    timers,       \* armed auto-stop timers, oldest first
    threads,      \* threads by the scan they serve: "inquiring" or "ended"
    events,       \* discovery-state events on their way to Dart
    dartSees,     \* the last one Dart got
    scan,         \* scans started so far
    running       \* the scan its caller has reason to think is on, or 0

deviceVars == <<discovering, session, bluez, timers, threads>>
scanVars == <<deviceVars, events, dartSees, scan, running>>

ScanInit ==
    /\ discovering = FALSE /\ session = 0 /\ bluez = FALSE /\ timers = <<>> /\ threads = <<>>
    /\ events = <<>> /\ dartSees = FALSE /\ scan = 0 /\ running = 0

\* Windows sends the start at once, past what its dispatcher still holds.
Begin == /\ discovering' = TRUE
         /\ events' = IF "windows" \in Backends THEN <<TRUE>> \o events
                                               ELSE Append(events, TRUE)
         /\ scan' = scan + 1
         /\ running' = scan'
         /\ UNCHANGED dartSees

-----------------------------------------------------------------------------
\* A faulty StartBus: the timer takes the session before it is counted up.
StartBusEarly == /\ "bus" \in Backends /\ ~discovering /\ ~bluez /\ scan < MaxScans
                 /\ Begin /\ bluez' = TRUE
                 /\ session' = session + 1
                 /\ timers' = Append(timers, [scan |-> scan', session |-> session])
                 /\ UNCHANGED threads

\* handle_start_discovery() by BlueZ, which does not serve a client twice: a
\* new session and its auto-stop timer.
StartBus == /\ "bus" \in Backends /\ ~discovering /\ ~bluez /\ scan < MaxScans
            /\ Begin /\ bluez' = TRUE
            /\ session' = session + 1
            /\ timers' = Append(timers, [scan |-> scan', session |-> session'])
            /\ UNCHANGED threads

\* The same by raw HCI, and HandleStartDiscovery() on Windows.
StartThread ==
    /\ Backends \cap {"hci", "windows"} # {} /\ ~discovering /\ scan < MaxScans
    /\ Begin
    /\ threads' = [n \in DOMAIN threads \cup {scan'} |->
                      IF n = scan' THEN "inquiring" ELSE threads[n]]
    /\ UNCHANGED <<session, bluez, timers>>

\* handle_stop_discovery(); on Windows the thread reports the end.
Stop == /\ discovering
        /\ discovering' = FALSE
        /\ running' = 0 /\ bluez' = FALSE
        /\ events' = IF "windows" \in Backends THEN events ELSE Append(events, FALSE)
        /\ UNCHANGED <<session, timers, threads, dartSees, scan>>

\* A faulty AutoStop: no session check.
AutoStopAny ==
    /\ timers # <<>>
    /\ timers' = Tail(timers)
    /\ discovering' = FALSE
    /\ IF discovering THEN events' = Append(events, FALSE) /\ bluez' = FALSE
                      ELSE UNCHANGED <<events, bluez>>
    /\ running' = IF running = Head(timers).scan THEN 0 ELSE running
    /\ UNCHANGED <<session, threads, dartSees, scan>>

\* discovery_autostop_cb(): all timers run equally long.
AutoStop ==
    /\ timers # <<>>
    /\ timers' = Tail(timers)
    /\ IF discovering /\ session = Head(timers).session
       THEN discovering' = FALSE /\ bluez' = FALSE /\ events' = Append(events, FALSE)
       ELSE UNCHANGED <<discovering, bluez, events>>
    /\ running' = IF running = Head(timers).scan THEN 0 ELSE running
    /\ UNCHANGED <<session, threads, dartSees, scan>>

\* The inquiry is over, or failed: the thread clears the flag, ...
ThreadEnds(n) == /\ n \in DOMAIN threads /\ threads[n] = "inquiring"
                 /\ threads' = [threads EXCEPT ![n] = "ended"]
                 /\ discovering' = FALSE
                 /\ running' = IF running = n THEN 0 ELSE running
                 /\ UNCHANGED <<session, bluez, timers, events, dartSees, scan>>

\* ... and then posts the event.
ThreadPosts(n) == /\ n \in DOMAIN threads /\ threads[n] = "ended"
                  /\ threads' = [m \in DOMAIN threads \ {n} |-> threads[m]]
                  /\ events' = Append(events, FALSE)
                  /\ UNCHANGED <<discovering, session, bluez, timers, dartSees, scan, running>>

Deliver == /\ events # <<>>
           /\ events' = Tail(events)
           /\ dartSees' = Head(events)
           /\ UNCHANGED <<deviceVars, scan, running>>

-----------------------------------------------------------------------------
ScanNext == \/ StartBus \/ StartThread \/ Stop \/ AutoStop \/ Deliver
            \/ \E n \in 1..MaxScans : ThreadEnds(n) \/ ThreadPosts(n)

ScanSpec == ScanInit /\ [][ScanNext]_scanVars

\* Timers fire, inquiries return, and the main loop delivers.
ScanFairness == /\ WF_scanVars(AutoStop) /\ WF_scanVars(Deliver)
                /\ \A n \in 1..MaxScans : WF_scanVars(ThreadEnds(n) \/ ThreadPosts(n))

ScanFairSpec == ScanSpec /\ ScanFairness

-----------------------------------------------------------------------------
\* Every variable holds a value of its kind.
ScanTypeOK ==
    /\ discovering \in BOOLEAN /\ dartSees \in BOOLEAN
    /\ bluez \in BOOLEAN /\ session \in 0..scan /\ scan \in 0..MaxScans /\ running \in 0..scan
    /\ timers \in Seq([scan : 1..scan, session : 1..session])
    /\ DOMAIN threads \subseteq 1..scan
    /\ \A n \in DOMAIN threads : threads[n] \in {"inquiring", "ended"}
    /\ events \in Seq(BOOLEAN)

\* A scan goes on until it is stopped or its own time is up: what is left of
\* an earlier scan does not end it.
NewerScanSurvives == running # 0 => discovering

\* "Unless a newer scan has since started (guarded by discovery_session)": a
\* timer never ends a BlueZ scan, which has a timer of its own, but its own.
TimerSparesNewer ==
    [][Len(timers') < Len(timers) /\ discovering /\ ~discovering'
       => \A i \in 2..Len(timers) : timers[i].scan # running]_scanVars

\* "Ends a BlueZ discovery scan once the bounded window elapses": BlueZ does
\* not go on scanning for the plugin for ever.
BusScanEnds == bluez ~> ~bluez

\* A scan is bounded, whoever forgets to stop it, and Dart hears of its end.
ScanEnds == discovering ~> (~discovering /\ ~dartSees)
=============================================================================
