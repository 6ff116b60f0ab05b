--------------------------- MODULE RetryingConnect ---------------------------
(***************************************************************************)
(* FlutterClassicBluetooth.connect() with a timeout, and connectWithRetry()*)
(* around it (lib/src/flutter_classic_bluetooth.dart).  A timeout ends the *)
(* attempt for the caller only: the plugin goes on dialing, also while the *)
(* next attempt dials, and what it brings is closed when it arrives.       *)
(***************************************************************************)
EXTENDS Naturals

CONSTANTS
    MaxAttempts,  \* maxAttempts
    HasTimeout    \* timeout is not null

ASSUME AttemptsAssumption == MaxAttempts \in Nat \ {0}
ASSUME TimeoutAssumption == HasTimeout \in BOOLEAN

Attempts == 1..MaxAttempts

VARIABLES
    attempt,   \* the loop's counter
    phase,     \* what connectWithRetry() is doing
    result,    \* the attempt whose connection it returned, or 0
    timedOut,  \* attempts whose timedOut flag is set
    native,    \* the plugin's side of each attempt
    closing    \* late connections whose close() is under way

vars == <<attempt, phase, result, timedOut, native, closing>>

\* Dials attempt n in the state of the plugin.
Dialing(n, plugin) == [plugin EXCEPT ![n] = "dialing"]

Init == /\ attempt = 1 /\ phase = "connecting" /\ result = 0 /\ timedOut = {}
        /\ native = Dialing(1, [n \in Attempts |-> "none"]) /\ closing = {}

\* Out of attempts, or a cause no amount of waiting will fix: rethrow.
AfterFailure(retryable) ==
    phase' = IF attempt >= MaxAttempts \/ ~retryable THEN "threw" ELSE "backoff"

-----------------------------------------------------------------------------
\* Faulty variants of TimesOut: the flag is not set; the exception is lost.
TimesOutUnflagged == /\ HasTimeout /\ phase = "connecting"
                     /\ AfterFailure(TRUE)
                     /\ UNCHANGED <<attempt, result, timedOut, native, closing>>
TimesOutSilently == /\ HasTimeout /\ phase = "connecting"
                    /\ timedOut' = timedOut \cup {attempt}
                    /\ UNCHANGED <<attempt, phase, result, native, closing>>

\* The timeout of the current attempt.
TimesOut == /\ HasTimeout /\ phase = "connecting"
            /\ timedOut' = timedOut \cup {attempt}
            /\ AfterFailure(TRUE)
            /\ UNCHANGED <<attempt, result, native, closing>>

\* The backoff delay is over.
Retry == /\ phase = "backoff"
         /\ attempt' = attempt + 1
         /\ phase' = "connecting"
         /\ native' = Dialing(attempt', native)
         /\ UNCHANGED <<result, timedOut, closing>>

\* The plugin's connect handler succeeds: its answer is on its way.
NativeConnects(n) == /\ native[n] = "dialing"
                     /\ native' = [native EXCEPT ![n] = "answered"]
                     /\ UNCHANGED <<attempt, phase, result, timedOut, closing>>

\* It fails, and Dart hears of it; nobody listens after a timeout.
NativeFails(n, retryable) ==
    /\ native[n] = "dialing"
    /\ native' = [native EXCEPT ![n] = "gone"]
    /\ IF n \in timedOut THEN UNCHANGED phase ELSE AfterFailure(retryable)
    /\ UNCHANGED <<attempt, result, timedOut, closing>>

\* A faulty Arrives: a late connection is not closed.
ArrivesUnclosed(n) ==
    /\ native[n] = "answered"
    /\ native' = [native EXCEPT ![n] = "held"]
    /\ IF n \in timedOut
       THEN UNCHANGED <<phase, result>>
       ELSE phase' = "returned" /\ result' = n
    /\ UNCHANGED <<attempt, timedOut, closing>>

\* The connection arrives in Dart: late, or for the caller.
Arrives(n) ==
    /\ native[n] = "answered"
    /\ native' = [native EXCEPT ![n] = "held"]
    /\ IF n \in timedOut
       THEN closing' = closing \cup {n} /\ UNCHANGED <<phase, result>>
       ELSE phase' = "returned" /\ result' = n /\ UNCHANGED closing
    /\ UNCHANGED <<attempt, timedOut>>

\* The plugin disconnects a late connection.
Closes(n) == /\ n \in closing
             /\ closing' = closing \ {n}
             /\ native' = [native EXCEPT ![n] = "gone"]
             /\ UNCHANGED <<attempt, phase, result, timedOut>>

-----------------------------------------------------------------------------
Next == \/ TimesOut \/ Retry
        \/ \E n \in Attempts : \/ NativeConnects(n) \/ Arrives(n) \/ Closes(n)
                               \/ \E retryable \in BOOLEAN : NativeFails(n, retryable)

Spec == Init /\ [][Next]_vars

\* Timers fire and the plugin answers; but a connect may hang for ever when
\* there is a timeout to end the attempt.
Fairness == /\ WF_vars(Retry) /\ WF_vars(TimesOut)
            /\ \A n \in Attempts :
                  /\ WF_vars(Arrives(n)) /\ WF_vars(Closes(n))
                  /\ ~HasTimeout => WF_vars(\/ NativeConnects(n)
                                            \/ \E r \in BOOLEAN : NativeFails(n, r))

FairSpec == Spec /\ Fairness

-----------------------------------------------------------------------------
\* Every variable holds a value of its kind.
TypeOK ==
    /\ attempt \in Attempts
    /\ phase \in {"connecting", "backoff", "returned", "threw"}
    /\ result \in {0} \cup Attempts
    /\ timedOut \in SUBSET Attempts /\ closing \in SUBSET Attempts
    /\ native \in [Attempts -> {"none", "dialing", "answered", "held", "gone"}]

\* "Close whatever arrives late": a connection Dart holds is the one that was
\* returned or one that is being closed, never both, in whatever order
\* answers, timeouts and later attempts come.
HeldIsOwned ==
    /\ \A n \in Attempts : native[n] = "held" <=> n = result \/ n \in closing
    /\ result \notin closing

\* An attempt that nobody gave up is the current one, and only while the call
\* is connecting; so two attempts never compete for the caller.
OneLiveAttempt ==
    \A n \in Attempts :
        native[n] \in {"dialing", "answered"} /\ n \notin timedOut
            => n = attempt /\ phase = "connecting"

\* connectWithRetry() returns or throws, and every connection that comes up is
\* returned or taken down.
CallEnds ==
    /\ <>(phase \in {"returned", "threw"})
    /\ \A n \in Attempts : native[n] = "answered" ~> native[n] = "gone" \/ result = n
=============================================================================
