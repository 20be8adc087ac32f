------------------------------- MODULE MCAuth -------------------------------
(***************************************************************************)
(* Two concurrent requests over two accounts and the one session a login   *)
(* may open.  More sessions are the proofs' (AuthProofs): liveness is      *)
(* checked here too, without symmetry.                                     *)
(***************************************************************************)
EXTENDS Auth

CONSTANTS u1, u2, p1, p2, weak, s1, r1, r2
=============================================================================
