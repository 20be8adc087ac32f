--------------------------- MODULE MCApplications ---------------------------
(* Applications on a small instance: two users, two documents, bodies that   *)
(* are refused, that mention little, and that clear a field.                 *)
EXTENDS Applications, TLC

CONSTANTS empty, blank, raw, escaped, twice, u1, u2

\* Escaping an escaped text escapes it again.
MCClean == empty :> empty @@ blank :> empty @@ raw :> escaped @@ escaped :> twice
           @@ twice :> twice

Unmentioned == [f \in Fields |-> Absent]

MCPosts == {[Unmentioned EXCEPT !.company = raw],
            [Unmentioned EXCEPT !.company = raw, !.status = "offer", !.applied = 1],
            [Unmentioned EXCEPT !.company = blank]}

MCPatches == {Unmentioned,
              [Unmentioned EXCEPT !.status = "offer", !.applied = None],
              [Unmentioned EXCEPT !.company = escaped, !.follow_up = 1],
              [Unmentioned EXCEPT !.applied = 2, !.follow_up = None],
              [Unmentioned EXCEPT !.company = blank],
              [Unmentioned EXCEPT !.status = Bad]}
=============================================================================
