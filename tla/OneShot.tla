------------------------------ MODULE OneShot ------------------------------
(***************************************************************************)
(* What api.ts's request() promises the screen that awaits it, whatever    *)
(* happens to the cookies in between: the endpoint behind the call runs at *)
(* most once; "ok" says it ran; "refused" (a 403) says it did not and      *)
(* never will; "failed" (no answer) leaves it open, and the endpoint may   *)
(* still run after the screen was told.                                    *)
(***************************************************************************)
CONSTANT Calls

VARIABLES outcome,  \* what the awaiting screen has been told
          runs      \* how often the endpoint has run

Outcomes == {"idle", "pending", "ok", "error", "refused", "failed"}

OneShotInit == /\ outcome = [c \in Calls |-> "idle"]
               /\ runs = [c \in Calls |-> 0]

Begin(c) == /\ outcome[c] = "idle"
            /\ outcome' = [outcome EXCEPT ![c] = "pending"]
            /\ UNCHANGED runs

Run(c) == /\ outcome[c] \in {"pending", "failed"}
          /\ runs[c] = 0
          /\ runs' = [runs EXCEPT ![c] = 1]
          /\ UNCHANGED outcome

Tell(c) == /\ outcome[c] = "pending"
           /\ \E o \in {"ok", "error", "refused", "failed"} :
                 /\ o = "ok" => runs[c] = 1
                 /\ o = "refused" => runs[c] = 0
                 /\ outcome' = [outcome EXCEPT ![c] = o]
           /\ UNCHANGED runs

OneShotNext == \E c \in Calls : Begin(c) \/ Run(c) \/ Tell(c)

OneShotSpec == OneShotInit /\ [][OneShotNext]_<<outcome, runs>>
=============================================================================
