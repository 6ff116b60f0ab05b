----------------------- MODULE AndroidPrompts_proofs -----------------------
(***************************************************************************)
(* Proofs about AndroidPrompts, for any calls and permissions, activities  *)
(* that come, go and never come back, and restarts.                        *)
(***************************************************************************)
EXTENDS AndroidPrompts, TLAPS

\* A call that opened the second dialog holds its permissions.
Holds == prompt # None => job[prompt].want \subseteq granted

IInv == TypeOK /\ NobodyOrphaned /\ Holds /\ RepliesTrue

\* The set of waiting calls, call by call.
LEMMA Waiting ==
  ASSUME NEW jobs, NEW p \in Callers \cup {None}, NEW q \in Callers \cup {None}
  PROVE  {c \in Callers : jobs[c] # None} = {p, q} \ {None}
         <=> \A c \in Callers : jobs[c] # None <=> c = p \/ c = q
<1>1. ASSUME {c \in Callers : jobs[c] # None} = {p, q} \ {None}, NEW c \in Callers
      PROVE  jobs[c] # None <=> c = p \/ c = q
  BY <1>1, CallersAssumption
<1>2. ASSUME \A c \in Callers : jobs[c] # None <=> c = p \/ c = q
      PROVE  {c \in Callers : jobs[c] # None} = {p, q} \ {None}
  BY <1>2, CallersAssumption
<1> QED
  BY <1>1, <1>2

\* Nothing is asked at first.
LEMMA InitIInv == Init => IInv
<1> SUFFICES ASSUME Init PROVE IInv
  OBVIOUS
<1>1. TypeOK
  <2>1. /\ refusals \in [Permissions -> 0..2] /\ job \in [Callers -> Jobs \cup {None}]
        /\ granted \in SUBSET Permissions
    BY DEF Init
  <2>2. wantsStatus \in BOOLEAN /\ activity \in BOOLEAN
    BY DEF Init
  <2> QED
    BY <2>1, <2>2 DEF Init, TypeOK
<1>2. NobodyOrphaned
  BY CallersAssumption DEF Init, NobodyOrphaned
<1>3. Holds /\ RepliesTrue
  BY DEF Init, Holds, RepliesTrue
<1> QED
  BY <1>1, <1>2, <1>3 DEF IInv

\* requestPermissions() for a call that is not waiting and lacks something.
LEMMA RequestKeeps ==
  ASSUME IInv, NEW c \in Callers, NEW j \in Jobs, job[c] = None, Request(c, j)
  PROVE  IInv'
<1>1. /\ UNCHANGED <<granted, refusals, activity, prompt>>
      /\ j.want \subseteq Permissions /\ j # None /\ c # None
  BY CallersAssumption, JobsAssumption DEF Request, Jobs
<1>2. c # pending /\ c # prompt
  <2>1. pending \in Callers \cup {None} /\ prompt \in Callers \cup {None}
    BY DEF IInv, TypeOK
  <2>2. \A d \in Callers : job[d] # None <=> d = pending \/ d = prompt
    BY <2>1, Waiting DEF IInv, NobodyOrphaned
  <2> QED
    BY <2>2
<1>3. CASE ~activity \/ pending # None
  <2>1. /\ wantsStatus' = FALSE /\ job' = [job EXCEPT ![c] = None]
        /\ reply' = [kind |-> j.kind, want |-> j.want,
                     says |-> IF activity THEN "pendingOperation" ELSE "noActivity"]
        /\ UNCHANGED <<shown, asked, pending, pendingScopes>>
    BY <1>3 DEF Request, Reply
  <2>2. job' = job
    BY <2>1 DEF IInv, TypeOK
  <2>3. TypeOK'
    BY <1>1, <2>1, <2>2 DEF IInv, TypeOK
  <2>4. NobodyOrphaned'
    BY <1>1, <2>1, <2>2 DEF IInv, NobodyOrphaned
  <2>5. Holds'
    BY <1>1, <2>1, <2>2 DEF IInv, Holds
  <2>6. RepliesTrue'
    BY <1>3, <2>1 DEF IInv, Holds, RepliesTrue
  <2> QED
    BY <2>3, <2>4, <2>5, <2>6 DEF IInv
<1>4. CASE activity /\ pending = None
  <2>1. /\ wantsStatus' = (wantsStatus \/ j.kind = "status") /\ pending' = c
        /\ pendingScopes' = j.want /\ asked' = asked \cup j.want
        /\ shown' = shown \cup {"permission"}
        /\ job' = [job EXCEPT ![c] = j] /\ reply' = None
    BY <1>4 DEF Request, Suspend
  <2>2. ~wantsStatus
    BY <1>4 DEF IInv, NobodyOrphaned
  <2>3. job'[c] = j /\ \A d \in Callers : d # c => job'[d] = job[d]
    BY <2>1 DEF IInv, TypeOK
  <2>4. TypeOK'
    BY <1>1, <2>1 DEF IInv, TypeOK
  <2>5. NobodyOrphaned'
    <3>1. \A d \in Callers : job'[d] # None <=> d = pending' \/ d = prompt'
      BY <1>1, <1>4, <2>1, <2>3, Waiting, CallersAssumption
         DEF IInv, TypeOK, NobodyOrphaned
    <3>2. wantsStatus' => j.kind = "status"
      BY <2>1, <2>2
    <3> QED
      <4>1. pending' \in Callers \cup {None} /\ prompt' \in Callers \cup {None}
        BY <2>4 DEF TypeOK
      <4>2. {d \in Callers : job'[d] # None} = {pending', prompt'} \ {None}
        BY <3>1, <4>1, Waiting
      <4> QED
        BY <1>1, <1>2, <2>1, <2>3, <3>2, <4>2 DEF NobodyOrphaned
  <2>6. Holds'
    BY <1>1, <1>2, <2>1, <2>3 DEF IInv, TypeOK, Holds
  <2>7. RepliesTrue'
    BY <2>1 DEF RepliesTrue
  <2> QED
    BY <2>4, <2>5, <2>6, <2>7 DEF IInv
<1> QED
  BY <1>3, <1>4

\* A call answered at once, truthfully, leaves the managers as they were.
LEMMA AnswerKeeps ==
  ASSUME IInv, NEW c \in Callers, NEW j \in Jobs, NEW says, job[c] = None,
         Reply(c, j, says), UNCHANGED <<osVars, asked, managerVars, prompt>>,
         says \in {"done", "granted", "dialogClosed"} => j.want \subseteq granted,
         says \in {"permissionDenied", "denied", "permanentlyDenied"}
            => ~(j.want \subseteq granted),
         says = "pendingOperation" => prompt # None
  PROVE  IInv'
<1>1. /\ job' = [job EXCEPT ![c] = None]
      /\ reply' = [kind |-> j.kind, want |-> j.want, says |-> says]
      /\ UNCHANGED <<granted, refusals, shown, asked, activity, pending, pendingScopes,
                     wantsStatus, prompt>>
  BY DEF Reply, osVars, managerVars
<1>2. job' = job
  BY <1>1 DEF IInv, TypeOK
<1>3. TypeOK'
  BY <1>1, <1>2 DEF IInv, TypeOK
<1>4. NobodyOrphaned' /\ Holds'
  BY <1>1, <1>2 DEF IInv, NobodyOrphaned, Holds
<1>5. RepliesTrue'
  BY <1>1 DEF IInv, Holds, RepliesTrue
<1> QED
  BY <1>3, <1>4, <1>5 DEF IInv

\* requestPermissionsForStatus().
LEMMA StatusKeeps ==
  ASSUME IInv, NEW c \in Callers, NEW ps \in Asks, RequestForStatus(c, ps)
  PROVE  IInv'
<1> DEFINE j == [kind |-> "status", want |-> ps]
           status == StatusOf(ps, granted, refusals)
<1>1. j \in Jobs /\ job[c] = None
  BY AsksAssumption DEF RequestForStatus, Jobs, Kinds
<1>2. CASE status # "denied"
  <2>1. Reply(c, j, status) /\ UNCHANGED <<osVars, asked, managerVars, prompt>>
    BY <1>2 DEF RequestForStatus
  <2>2. /\ status \in {"granted", "permanentlyDenied"}
        /\ status = "granted" <=> ps \subseteq granted
    BY <1>2 DEF StatusOf
  <2>3. j.want = ps
    OBVIOUS
  <2> HIDE DEF j, status
  <2> QED
    BY <1>1, <2>1, <2>2, <2>3, AnswerKeeps
<1>3. CASE status = "denied"
  <2>1. Request(c, j)
    BY <1>3 DEF RequestForStatus
  <2> HIDE DEF j, status
  <2> QED
    BY <1>1, <2>1, RequestKeeps
<1> QED
  BY <1>2, <1>3

\* ensurePermissions(), and what the call does once it has them.
LEMMA EnsureKeeps ==
  ASSUME IInv, NEW c \in Callers, NEW kind \in Kinds, NEW ps \in Asks, Ensure(c, kind, ps)
  PROVE  IInv'
<1> DEFINE j == [kind |-> kind, want |-> ps]
<1>1. j \in Jobs /\ job[c] = None /\ j.want = ps /\ j.kind = kind
  BY AsksAssumption DEF Ensure, Jobs
<1>2. CASE ~(ps \subseteq granted)
  <2>1. Request(c, j)
    BY <1>2 DEF Ensure
  <2> HIDE DEF j
  <2> QED
    BY <1>1, <2>1, RequestKeeps
<1>3. CASE ps \subseteq granted
  <2>1. Act(c, j, shown) /\ UNCHANGED <<granted, refusals, asked, managerVars>>
    BY <1>3 DEF Ensure
  <2> HIDE DEF j
  <2>2. CASE kind # "prompt"
    <3>1. Reply(c, j, "done") /\ UNCHANGED <<osVars, asked, managerVars, prompt>>
      BY <1>1, <2>1, <2>2 DEF Act, osVars
    <3> QED
      BY <1>1, <1>3, <3>1, AnswerKeeps
  <2>3. CASE kind = "prompt" /\ ~(activity /\ prompt = None)
    <3>1. /\ Reply(c, j, IF activity THEN "pendingOperation" ELSE "noActivity")
          /\ UNCHANGED <<osVars, asked, managerVars, prompt>>
      BY <1>1, <2>1, <2>3 DEF Act, StartActivityForResult, osVars
    <3>2. CASE activity
      BY <1>1, <2>3, <3>1, <3>2, AnswerKeeps
    <3>3. CASE ~activity
      BY <1>1, <3>1, <3>3, AnswerKeeps
    <3> QED
      BY <3>2, <3>3
  <2>4. CASE kind = "prompt" /\ activity /\ prompt = None
    <3>1. /\ prompt' = c /\ shown' = shown \cup {"prompt"}
          /\ job' = [job EXCEPT ![c] = j] /\ reply' = None
          /\ UNCHANGED <<granted, refusals, asked, activity, pending, pendingScopes, wantsStatus>>
      BY <1>1, <2>1, <2>4 DEF Act, StartActivityForResult, Suspend, managerVars
    <3>2. c # None /\ c # pending /\ j # None
      BY <1>1, Waiting, CallersAssumption, JobsAssumption DEF IInv, TypeOK, NobodyOrphaned
    <3>3. job'[c] = j /\ \A d \in Callers : d # c => job'[d] = job[d]
      BY <3>1 DEF IInv, TypeOK
    <3>4. TypeOK'
      BY <1>1, <3>1 DEF IInv, TypeOK
    <3>5. \A d \in Callers : job[d] # None <=> d = pending \/ d = prompt
      BY Waiting DEF IInv, TypeOK, NobodyOrphaned
    <3>6. \A d \in Callers : job'[d] # None <=> d = pending' \/ d = prompt'
      BY <2>4, <3>1, <3>2, <3>3, <3>5, CallersAssumption
    <3>7. {d \in Callers : job'[d] # None} = {pending', prompt'} \ {None}
      <4>1. pending' \in Callers \cup {None} /\ prompt' \in Callers \cup {None}
        BY <3>4 DEF TypeOK
      <4> QED
        BY <3>6, <4>1, Waiting
    <3>8. pending # None => job'[pending] = job[pending]
      BY <3>2, <3>3 DEF IInv, TypeOK
    <3>9. NobodyOrphaned'
      BY <3>1, <3>2, <3>7, <3>8 DEF IInv, NobodyOrphaned
    <3>10. Holds'
      BY <1>1, <1>3, <3>1, <3>3 DEF IInv, Holds
    <3>11. RepliesTrue'
      BY <3>1 DEF RepliesTrue
    <3> QED
      BY <3>4, <3>9, <3>10, <3>11 DEF IInv
  <2> QED
    BY <2>2, <2>3, <2>4
<1> QED
  BY <1>2, <1>3

\* The answer to the permission dialog.
LEMMA ResultKeeps ==
  ASSUME IInv, NEW G \in SUBSET Permissions, NEW R \in SUBSET Permissions,
         PermissionsResult(G, R)
  PROVE  IInv'
<1> DEFINE c == pending
           j == job[c]
           left == shown \ {"permission"}
<1>1. /\ c # None /\ activity /\ granted' = granted \cup G
      /\ refusals' = [p \in Permissions |-> IF p \in R THEN refusals[p] + 1 ELSE refusals[p]]
      /\ R \subseteq PromptsFor(pendingScopes)
      /\ pending' = None /\ pendingScopes' = {} /\ wantsStatus' = FALSE
      /\ UNCHANGED <<asked, activity>>
  BY DEF PermissionsResult
<1>2. /\ c \in Callers /\ c # prompt /\ j \in Jobs /\ pendingScopes = j.want
      /\ wantsStatus => j.kind = "status"
      /\ \A d \in Callers : job[d] # None <=> d = c \/ d = prompt
  <2>1. c \in Callers /\ c # prompt /\ prompt \in Callers \cup {None}
    BY <1>1 DEF IInv, TypeOK, NobodyOrphaned
  <2>2. \A d \in Callers : job[d] # None <=> d = c \/ d = prompt
    BY <2>1, Waiting DEF IInv, NobodyOrphaned
  <2> QED
    BY <1>1, <2>1, <2>2 DEF IInv, TypeOK, NobodyOrphaned
<1>3. /\ granted' \subseteq Permissions /\ refusals' \in [Permissions -> 0..2]
      /\ granted \subseteq granted'
  <2>1. \A p \in R : refusals[p] < 2
    BY <1>1 DEF PromptsFor
  <2>2. \A p \in Permissions : refusals[p] \in 0..2
    BY DEF IInv, TypeOK
  <2>3. ASSUME NEW p \in Permissions
        PROVE  (IF p \in R THEN refusals[p] + 1 ELSE refusals[p]) \in 0..2
    BY <2>1, <2>2
  <2> QED
    BY <1>1, <2>3 DEF IInv, TypeOK
<1>4. j \in Jobs /\ j # None /\ c # None /\ prompt \in Callers \cup {None}
  BY <1>1, <1>2, JobsAssumption DEF IInv, TypeOK
<1> HIDE DEF c, j, left
<1>5. ASSUME NEW says, Reply(c, j, says), shown' = left, prompt' = prompt,
             says \in {"done", "granted"} => j.want \subseteq granted',
             says \in {"permissionDenied", "denied", "permanentlyDenied"}
                => ~(j.want \subseteq granted'),
             says # "dialogClosed", says = "pendingOperation" => prompt # None
      PROVE  IInv'
  <2>1. /\ job' = [job EXCEPT ![c] = None]
        /\ reply' = [kind |-> j.kind, want |-> j.want, says |-> says]
    BY <1>5 DEF Reply
  <2>2. job'[c] = None /\ \A d \in Callers : d # c => job'[d] = job[d]
    BY <1>2, <2>1 DEF IInv, TypeOK
  <2>3. TypeOK'
    BY <1>1, <1>3, <1>5, <2>1 DEF IInv, TypeOK, left
  <2>4. \A d \in Callers : job'[d] # None <=> d = pending' \/ d = prompt'
    BY <1>1, <1>2, <1>5, <2>2, CallersAssumption
  <2>5. {d \in Callers : job'[d] # None} = {pending', prompt'} \ {None}
    BY <1>1, <1>4, <1>5, <2>4, Waiting
  <2>6. NobodyOrphaned'
    BY <1>1, <2>5 DEF NobodyOrphaned
  <2>7. prompt # None => job'[prompt] = job[prompt]
    BY <1>2, <1>4, <2>2
  <2>8. Holds'
    BY <1>1, <1>3, <1>5, <2>7 DEF IInv, Holds, left
  <2>9. RepliesTrue'
    BY <1>5, <2>1 DEF IInv, Holds, RepliesTrue, left
  <2> QED
    BY <2>3, <2>6, <2>8, <2>9 DEF IInv
<1>6. CASE ~(j.kind # "status" /\ ~wantsStatus /\ pendingScopes \subseteq granted')
  <2> DEFINE says == IF j.kind # "status" THEN "permissionDenied"
                     ELSE IF ~wantsStatus THEN "boolean"
                     ELSE StatusOf(pendingScopes, granted', refusals')
  <2>1. Reply(c, j, says) /\ shown' = left /\ prompt' = prompt
    BY <1>6 DEF PermissionsResult, c, j, left
  <2>2. /\ says \in {"boolean", "permissionDenied", "granted", "permanentlyDenied", "denied"}
        /\ says = "granted" => j.want \subseteq granted'
        /\ says \in {"permissionDenied", "denied", "permanentlyDenied"}
              => ~(j.want \subseteq granted')
    BY <1>2, <1>6 DEF StatusOf
  <2> HIDE DEF says
  <2> QED
    BY <1>5, <2>1, <2>2
<1>7. CASE j.kind # "status" /\ ~wantsStatus /\ pendingScopes \subseteq granted'
  <2>1. Act(c, j, left)
    BY <1>7 DEF PermissionsResult, c, j, left
  <2>2. CASE j.kind # "prompt"
    BY <1>2, <1>5, <1>7, <2>1, <2>2 DEF Act
  <2>3. CASE j.kind = "prompt" /\ prompt # None
    <3>1. Reply(c, j, "pendingOperation") /\ shown' = left /\ prompt' = prompt
      BY <1>1, <2>1, <2>3 DEF Act, StartActivityForResult
    <3> QED
      BY <1>5, <2>3, <3>1
  <2>4. CASE j.kind = "prompt" /\ prompt = None
    <3>1. /\ prompt' = c /\ shown' = left \cup {"prompt"}
          /\ job' = [job EXCEPT ![c] = j] /\ reply' = None
      BY <1>1, <2>1, <2>4 DEF Act, StartActivityForResult, Suspend
    <3>2. job' = job
      BY <3>1 DEF IInv, TypeOK, j
    <3>3. TypeOK'
      BY <1>1, <1>2, <1>3, <3>1, <3>2 DEF IInv, TypeOK, left
    <3>4. \A d \in Callers : job'[d] # None <=> d = pending' \/ d = prompt'
      BY <1>1, <1>2, <2>4, <3>1, <3>2, CallersAssumption
    <3>5. {d \in Callers : job'[d] # None} = {pending', prompt'} \ {None}
      BY <1>1, <1>2, <3>1, <3>4, Waiting
    <3>6. NobodyOrphaned'
      BY <1>1, <1>4, <3>1, <3>5 DEF NobodyOrphaned
    <3>7. Holds'
      BY <1>1, <1>2, <1>7, <3>1, <3>2 DEF Holds, j
    <3>8. RepliesTrue'
      BY <3>1 DEF RepliesTrue
    <3> QED
      BY <3>3, <3>6, <3>7, <3>8 DEF IInv
  <2> QED
    BY <2>2, <2>3, <2>4
<1> QED
  BY <1>6, <1>7

\* The answer to the second dialog.
LEMMA ActivityResultKeeps == IInv /\ ActivityResult => IInv'
<1> SUFFICES ASSUME IInv, ActivityResult PROVE IInv'
  OBVIOUS
<1> DEFINE c == prompt
<1>1. /\ c # None /\ prompt' = None /\ shown' = shown \ {"prompt"}
      /\ job' = [job EXCEPT ![c] = None]
      /\ reply' = [kind |-> job[c].kind, want |-> job[c].want, says |-> "dialogClosed"]
      /\ UNCHANGED <<granted, refusals, asked, activity, pending, pendingScopes, wantsStatus>>
  BY DEF ActivityResult, Reply, managerVars
<1>2. c \in Callers /\ c # pending /\ pending \in Callers \cup {None}
  BY <1>1 DEF IInv, TypeOK, NobodyOrphaned
<1>3. \A d \in Callers : job[d] # None <=> d = pending \/ d = c
  BY <1>2, Waiting DEF IInv, NobodyOrphaned
<1>4. job'[c] = None /\ \A d \in Callers : d # c => job'[d] = job[d]
  BY <1>1, <1>2 DEF IInv, TypeOK
<1>5. TypeOK'
  BY <1>1 DEF IInv, TypeOK
<1>6. \A d \in Callers : job'[d] # None <=> d = pending' \/ d = prompt'
  BY <1>1, <1>2, <1>3, <1>4, CallersAssumption
<1>7. {d \in Callers : job'[d] # None} = {pending', prompt'} \ {None}
  <2>1. pending' \in Callers \cup {None} /\ prompt' \in Callers \cup {None}
    BY <1>5 DEF TypeOK
  <2> QED
    BY <1>6, <2>1, Waiting
<1>8. pending # None => job'[pending] = job[pending]
  BY <1>2, <1>4
<1>9. NobodyOrphaned' /\ Holds'
  BY <1>1, <1>7, <1>8 DEF IInv, NobodyOrphaned, Holds
<1>10. RepliesTrue'
  BY <1>1 DEF IInv, Holds, RepliesTrue
<1> QED
  BY <1>5, <1>9, <1>10 DEF IInv

\* Every step keeps the invariant.
LEMMA NextIInv == IInv /\ [Next]_vars => IInv'
<1> SUFFICES ASSUME IInv, [Next]_vars PROVE IInv'
  OBVIOUS
<1>1. ASSUME NEW c \in Callers, NEW ps \in Asks,
             RequestForStatus(c, ps) \/ Ensure(c, "action", ps) \/ Ensure(c, "prompt", ps)
      PROVE  IInv'
  BY <1>1, StatusKeeps, EnsureKeeps DEF Kinds
<1>2. ASSUME NEW G \in SUBSET Permissions, NEW R \in SUBSET Permissions, PermissionsResult(G, R)
      PROVE  IInv'
  BY <1>2, ResultKeeps
<1>3. CASE ActivityResult
  BY <1>3, ActivityResultKeeps
<1>4. CASE Attach
  <2>1. /\ activity' = TRUE /\ reply' = None
        /\ UNCHANGED <<granted, refusals, shown, asked, pending, pendingScopes, wantsStatus,
                       prompt, job>>
    BY <1>4 DEF Attach, osVars
  <2> QED
    BY <2>1 DEF IInv, TypeOK, NobodyOrphaned, Holds, RepliesTrue
<1>5. CASE Detach
  <2>1. /\ activity' = FALSE /\ reply' = None /\ shown' \in {shown, {}}
        /\ UNCHANGED <<granted, refusals, asked, pending, pendingScopes, wantsStatus, prompt, job>>
    BY <1>5 DEF Detach
  <2>2. TypeOK'
    BY <2>1 DEF IInv, TypeOK
  <2> QED
    BY <2>1, <2>2 DEF IInv, NobodyOrphaned, Holds, RepliesTrue
<1>6. ASSUME NEW p \in Permissions, SettingsGrant(p) PROVE IInv'
  <2>1. /\ granted' = granted \cup {p} /\ reply' = None
        /\ UNCHANGED <<refusals, shown, asked, activity, pending, pendingScopes, wantsStatus,
                       prompt, job>>
    BY <1>6 DEF SettingsGrant, managerVars
  <2> QED
    BY <2>1 DEF IInv, TypeOK, NobodyOrphaned, Holds, RepliesTrue
<1>7. CASE Restart
  <2>1. /\ granted' \in SUBSET granted /\ shown' = {} /\ activity' = FALSE
        /\ pending' = None /\ pendingScopes' = {} /\ wantsStatus' = FALSE /\ prompt' = None
        /\ job' = [d \in Callers |-> None] /\ reply' = None /\ UNCHANGED <<refusals, asked>>
    BY <1>7 DEF Restart
  <2>2. job' \in [Callers -> Jobs \cup {None}] /\ {d \in Callers : job'[d] # None} = {}
    BY <2>1
  <2>3. TypeOK'
    BY <2>1, <2>2 DEF IInv, TypeOK
  <2> QED
    BY <2>1, <2>2, <2>3 DEF IInv, NobodyOrphaned, Holds, RepliesTrue
<1>8. CASE UNCHANGED vars
  BY <1>8 DEF vars, osVars, managerVars, IInv, TypeOK, NobodyOrphaned, Holds, RepliesTrue
<1> QED
  BY <1>1, <1>2, <1>3, <1>4, <1>5, <1>6, <1>7, <1>8 DEF Next

-----------------------------------------------------------------------------
\* A call that waits is always one a manager waits with, and for what it asked,
\* also when the activity never comes back.
THEOREM NobodyIsOrphaned == Spec => []NobodyOrphaned
<1>1. IInv => NobodyOrphaned
  BY DEF IInv
<1> QED
  BY InitIInv, NextIInv, <1>1, PTL DEF Spec

\* Nothing is done, and no status says "granted", without the permissions; no call
\* that has them is refused for want of them; and none is sent away for another that
\* no manager waits for.
THEOREM RepliesAreTrue == Spec => []RepliesTrue
<1>1. IInv => RepliesTrue
  BY DEF IInv
<1> QED
  BY InitIInv, NextIInv, <1>1, PTL DEF Spec
=============================================================================
