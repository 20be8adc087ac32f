-------------------------- MODULE SessionLifecycle --------------------------
(***************************************************************************)
(* What the session store promises the rest of the program, whatever the   *)
(* interleaving of logins, logouts, password changes, expiries and         *)
(* crashes: a session id is born once, belongs to one user for as long as  *)
(* it lives, and once dead is never alive again.                           *)
(***************************************************************************)
CONSTANTS Users, Sids, None

VARIABLES stage,    \* where each session id is in its life
          holder    \* the user a live session id stands for

vars == <<stage, holder>>

Init == /\ stage  = [s \in Sids |-> "unborn"]
        /\ holder = [s \in Sids |-> None]

Open(s) == \E u \in Users :
    /\ stage[s] = "unborn"
    /\ stage'  = [stage  EXCEPT ![s] = "live"]
    /\ holder' = [holder EXCEPT ![s] = u]

Close(s) ==
    /\ stage[s] = "live"
    /\ stage'  = [stage  EXCEPT ![s] = "dead"]
    /\ holder' = [holder EXCEPT ![s] = None]

Next == \E s \in Sids : Open(s) \/ Close(s)

Spec == Init /\ [][Next]_vars
=============================================================================
