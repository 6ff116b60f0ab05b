---------------------------- MODULE LinkContract ----------------------------
(***************************************************************************)
(* What BtcReconnectingConnection promises its user, without saying how:   *)
(* one status, and the number of consecutive losses behind it.  A link is  *)
(* established, lost and re-established until the retries allowed since    *)
(* the last success are used up, and closing it is final.                  *)
(***************************************************************************)
EXTENDS Naturals

CONSTANTS
    MaxAttempts,  \* retries allowed after a success, or NoLimit
    NoLimit       \* the policy's maxAttempts == null

VARIABLES
    status,  \* what currentState reports
    fails    \* consecutive losses since the last success

contractVars == <<status, fails>>

Statuses == {"connecting", "connected", "reconnecting", "failed", "closed"}

Trying == {"connecting", "reconnecting"}

\* The policy allows at most MaxAttempts retries in a row.
GivesUp(n) == MaxAttempts # NoLimit /\ n > MaxAttempts

ContractInit == status = "connecting" /\ fails = 0

Establish == /\ status \in Trying
             /\ status' = "connected"
             /\ fails' = 0

\* A live link drops, or an attempt fails or times out.
Lose == /\ status \in Trying \cup {"connected"}
        /\ fails' = fails + 1
        /\ status' = IF GivesUp(fails') THEN "failed" ELSE "reconnecting"

Shut == /\ status # "closed"
        /\ status' = "closed"
        /\ UNCHANGED fails

ContractNext == Establish \/ Lose \/ Shut

Contract == ContractInit /\ [][ContractNext]_contractVars
=============================================================================
