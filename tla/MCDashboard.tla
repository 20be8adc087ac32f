---------------------------- MODULE MCDashboard ----------------------------
(***************************************************************************)
(* Two applications, two openings of the dialog for a new one, one change  *)
(* in another tab or failed call, and a text every cleaning of which       *)
(* escapes it once more, up to the cap.                                    *)
(***************************************************************************)
EXTENDS Dashboard, TLC
CONSTANTS raw, escaped, capped
MCTexts == {raw, escaped, capped}
MCClean == [t \in MCTexts |-> IF t = raw THEN escaped ELSE capped]
\* Applications are interchangeable.
Symmetry == Permutations(Ids)
=============================================================================
