--------------------------- MODULE AndroidPrompts ---------------------------
(***************************************************************************)
(* The two system dialogs of the Android plugin: PermissionManager asks    *)
(* for runtime permissions, ActivityResultManager asks the user to enable  *)
(* Bluetooth or discoverability.  Every method call that needs a permission*)
(* goes through the first; some then go on to the second.  All of it runs  *)
(* on the platform thread, one handler or callback at a time.              *)
(*                                                                         *)
(* External: Android's own record of grants and refusals, and its dialogs. *)
(***************************************************************************)
EXTENDS Naturals, FiniteSets

CONSTANTS
    Callers,       \* method calls that may be waiting at the same time
    None,          \* Kotlin's null
    Permissions,   \* runtime permissions
    Asks           \* the sets of permissions a call may need

ASSUME CallersAssumption == None \notin Callers
ASSUME AsksAssumption == Asks \subseteq SUBSET Permissions

VARIABLES
    \* Android
    granted,        \* permissions held
    refusals,       \* how often each was refused; after two it is silenced
    shown,          \* dialogs on the screen that will report a result
    \* PermissionManager
    asked,          \* the persisted flags of markAsked()
    activity,       \* an activity is attached (ActivityResultManager's too)
    pending,        \* pendingResult
    pendingScopes,  \* pendingScopes
    wantsStatus,    \* pendingWantsStatus
    \* ActivityResultManager
    prompt,         \* pendingResult
    \* method calls
    job,            \* what each waiting call is, or None
    reply           \* the reply the last step gave, or None

osVars == <<granted, refusals, shown>>
managerVars == <<activity, pending, pendingScopes, wantsStatus>>
vars == <<osVars, asked, managerVars, prompt, job, reply>>

\* requestPermissions; a call that needs a permission; enableBluetooth and
\* setDiscoverable, which then show a dialog of their own.
Kinds == {"status", "action", "prompt"}
Jobs == [kind : Kinds, want : SUBSET Permissions]

ASSUME JobsAssumption == None \notin Jobs

Init == /\ granted \in SUBSET Permissions
        /\ refusals = [p \in Permissions |-> 0] /\ shown = {}
        /\ asked = {} /\ activity = FALSE
        /\ pending = None /\ pendingScopes = {} /\ wantsStatus = FALSE
        /\ prompt = None /\ job = [c \in Callers |-> None] /\ reply = None

\* Answers call c, which was j.
Reply(c, j, says) == /\ job' = [job EXCEPT ![c] = None]
                     /\ reply' = [kind |-> j.kind, want |-> j.want, says |-> says]

Suspend(c, j) == job' = [job EXCEPT ![c] = j] /\ reply' = None

\* permissionStatus(), given what is held and refused; shouldShowRequest-
\* PermissionRationale is true after one refusal only.
StatusOf(ps, held, ref) ==
    IF ps \subseteq held THEN "granted"
    ELSE IF activity /\ \E p \in (ps \ held) \cap asked : ref[p] # 1
    THEN "permanentlyDenied" ELSE "denied"

-----------------------------------------------------------------------------
\* ActivityResultManager.startActivityForResult(), with dialogs on the screen.
StartActivityForResult(c, j, dialogs) ==
    IF activity /\ prompt = None
    THEN /\ prompt' = c
         /\ shown' = dialogs \cup {"prompt"}
         /\ Suspend(c, j)
    ELSE /\ Reply(c, j, IF activity THEN "pendingOperation" ELSE "noActivity")
         /\ shown' = dialogs
         /\ UNCHANGED prompt

\* What a call does once its permission is held.
Act(c, j, dialogs) ==
    IF j.kind = "prompt"
    THEN StartActivityForResult(c, j, dialogs)
    ELSE Reply(c, j, "done") /\ shown' = dialogs /\ UNCHANGED prompt

\* Faulty variants of Request: a re-entrant request overwrites the pending
\* one; a rejected one leaves pendingWantsStatus set.
RequestOverwrites(c, j) ==
    /\ UNCHANGED <<granted, refusals, activity, prompt>>
    /\ IF ~activity
       THEN /\ wantsStatus' = FALSE
            /\ Reply(c, j, "noActivity")
            /\ UNCHANGED <<shown, asked, pending, pendingScopes>>
       ELSE /\ wantsStatus' = (wantsStatus \/ j.kind = "status")
            /\ pending' = c
            /\ pendingScopes' = j.want
            /\ asked' = asked \cup j.want
            /\ shown' = shown \cup {"permission"}
            /\ Suspend(c, j)
RequestKeepsFlag(c, j) ==
    /\ UNCHANGED <<granted, refusals, activity, prompt>>
    /\ wantsStatus' = (wantsStatus \/ j.kind = "status")
    /\ IF ~activity \/ pending # None
       THEN /\ Reply(c, j, IF activity THEN "pendingOperation" ELSE "noActivity")
            /\ UNCHANGED <<shown, asked, pending, pendingScopes>>
       ELSE /\ pending' = c
            /\ pendingScopes' = j.want
            /\ asked' = asked \cup j.want
            /\ shown' = shown \cup {"permission"}
            /\ Suspend(c, j)

\* requestPermissions(); its callers come here only with something missing.
Request(c, j) ==
    /\ UNCHANGED <<granted, refusals, activity, prompt>>
    /\ IF ~activity \/ pending # None
       THEN /\ wantsStatus' = FALSE
            /\ Reply(c, j, IF activity THEN "pendingOperation" ELSE "noActivity")
            /\ UNCHANGED <<shown, asked, pending, pendingScopes>>
       ELSE /\ wantsStatus' = (wantsStatus \/ j.kind = "status")
            /\ pending' = c
            /\ pendingScopes' = j.want
            /\ asked' = asked \cup j.want
            /\ shown' = shown \cup {"permission"}
            /\ Suspend(c, j)

\* requestPermissionsForStatus().
RequestForStatus(c, ps) ==
    LET j == [kind |-> "status", want |-> ps]
        status == StatusOf(ps, granted, refusals)
    IN /\ job[c] = None
       /\ IF status # "denied"
          THEN Reply(c, j, status) /\ UNCHANGED <<osVars, asked, managerVars, prompt>>
          ELSE Request(c, j)

\* ensurePermissions().
Ensure(c, kind, ps) ==
    LET j == [kind |-> kind, want |-> ps]
    IN /\ job[c] = None
       /\ IF ps \subseteq granted
          THEN Act(c, j, shown) /\ UNCHANGED <<granted, refusals, asked, managerVars>>
          ELSE Request(c, j)

\* External: the permissions among ps the system still prompts for.
PromptsFor(ps) == {p \in ps \ granted : refusals[p] < 2}

\* The user answers the permission dialog: permissions G are granted and R
\* refused, and one that is silenced or dismissed is neither.  A Boolean and
\* a status reach the wrapper of ensurePermissions() alike; it acts on true.
PermissionsResult(G, R) ==
    LET c == pending
        j == job[c]
        open == PromptsFor(pendingScopes)
    IN /\ pending # None /\ "permission" \in shown /\ activity
       /\ G \subseteq open /\ R \subseteq open \ G
       /\ granted' = granted \cup G
       /\ refusals' = [p \in Permissions |->
                          IF p \in R THEN refusals[p] + 1 ELSE refusals[p]]
       /\ pending' = None /\ pendingScopes' = {} /\ wantsStatus' = FALSE
       /\ IF j.kind # "status" /\ ~wantsStatus /\ pendingScopes \subseteq granted'
          THEN Act(c, j, shown \ {"permission"})
          ELSE /\ Reply(c, j, IF j.kind # "status" THEN "permissionDenied"
                              ELSE IF ~wantsStatus THEN "boolean"
                              ELSE StatusOf(pendingScopes, granted', refusals'))
               /\ shown' = shown \ {"permission"}
               /\ UNCHANGED prompt
       /\ UNCHANGED <<asked, activity>>

\* A faulty ActivityResult: one that was cancelled is not answered.
ActivityResultMute == /\ prompt # None /\ "prompt" \in shown /\ activity
                      /\ prompt' = None
                      /\ shown' = shown \ {"prompt"}
                      /\ \/ Reply(prompt, job[prompt], "dialogClosed")
                         \/ reply' = None /\ UNCHANGED job
                      /\ UNCHANGED <<granted, refusals, asked, managerVars>>

\* onActivityResult().
ActivityResult == /\ prompt # None /\ "prompt" \in shown /\ activity
                  /\ prompt' = None
                  /\ shown' = shown \ {"prompt"}
                  /\ Reply(prompt, job[prompt], "dialogClosed")
                  /\ UNCHANGED <<granted, refusals, asked, managerVars>>

-----------------------------------------------------------------------------
\* onAttachedToActivity() and its reattaching counterpart.
Attach == /\ ~activity
          /\ activity' = TRUE
          /\ reply' = None
          /\ UNCHANGED <<osVars, asked, pending, pendingScopes, wantsStatus, prompt, job>>

\* The activity is recreated, and gets the results of its dialogs later; or
\* it is finished for good, which an engine may outlive, and they never arrive.
Detach == /\ activity
          /\ activity' = FALSE
          /\ shown' \in {shown, {}}
          /\ reply' = None
          /\ UNCHANGED <<granted, refusals, asked, pending, pendingScopes, wantsStatus,
                         prompt, job>>

\* The user changes permissions in the settings; taking one away kills the
\* process, as anything else may.
SettingsGrant(p) == /\ granted' = granted \cup {p}
                    /\ reply' = None
                    /\ UNCHANGED <<refusals, shown, asked, managerVars, prompt, job>>

Restart == /\ granted' \in SUBSET granted
           /\ shown' = {} /\ activity' = FALSE
           /\ pending' = None /\ pendingScopes' = {} /\ wantsStatus' = FALSE
           /\ prompt' = None /\ job' = [c \in Callers |-> None] /\ reply' = None
           /\ UNCHANGED <<refusals, asked>>

-----------------------------------------------------------------------------
Next == \/ \E c \in Callers, ps \in Asks :
              RequestForStatus(c, ps) \/ Ensure(c, "action", ps) \/ Ensure(c, "prompt", ps)
        \/ \E G, R \in SUBSET Permissions : PermissionsResult(G, R)
        \/ ActivityResult \/ Attach \/ Detach \/ Restart
        \/ \E p \in Permissions : SettingsGrant(p)

Spec == Init /\ [][Next]_vars

\* The dialogs are modal, so a user who goes on using the app answers them, and
\* there is an activity again.
Fairness == /\ WF_vars(Attach) /\ SF_vars(ActivityResult)
            /\ SF_vars(\E G, R \in SUBSET Permissions : PermissionsResult(G, R))

FairSpec == Spec /\ Fairness

-----------------------------------------------------------------------------
\* Every variable holds a value of its kind.
TypeOK ==
    /\ granted \in SUBSET Permissions /\ asked \in SUBSET Permissions
    /\ refusals \in [Permissions -> 0..2]
    /\ shown \in SUBSET {"permission", "prompt"}
    /\ activity \in BOOLEAN /\ wantsStatus \in BOOLEAN
    /\ pending \in Callers \cup {None} /\ prompt \in Callers \cup {None}
    /\ pendingScopes \in SUBSET Permissions
    /\ job \in [Callers -> Jobs \cup {None}]

\* "Reject re-entrant requests instead of overwriting (and orphaning) the
\* previous result": a call that waits is one a manager waits with, and for
\* what it asked; and the status flag belongs to a request for a status.
NobodyOrphaned ==
    /\ {c \in Callers : job[c] # None} = {pending, prompt} \ {None}
    /\ pending # None => pendingScopes = job[pending].want
    /\ wantsStatus => pending # None /\ job[pending].kind = "status"
    /\ pending = prompt => pending = None

\* A reply agrees with the permissions held when it is given: nothing runs
\* without them, and no call is refused that has them, whatever requests and
\* grants came in between.  "Another request is already in progress" is said
\* only while a manager waits for another one's dialog.
RepliesTrue ==
    reply # None =>
        /\ reply.says \in {"done", "granted", "dialogClosed"} => reply.want \subseteq granted
        /\ reply.says \in {"permissionDenied", "denied", "permanentlyDenied"}
               => ~(reply.want \subseteq granted)
        /\ reply.says = "pendingOperation" => {pending, prompt} # {None}

\* "Requests scopes and answers with a permissionStatus string": a request for
\* a status is never answered with a Boolean, which Dart cannot read as one.
StatusGetsStatus == reply # None => reply.says # "boolean"

\* A manager waits for a dialog that went with its activity.
Abandoned == \/ pending # None /\ "permission" \notin shown
             \/ prompt # None /\ "prompt" \notin shown

\* Every call is answered, over dialogs, recreated activities and restarts, unless
\* a dialog goes with its activity: then nothing but a restart helps.
EveryCallAnswered == \A c \in Callers : job[c] # None ~> job[c] = None \/ Abandoned
=============================================================================
