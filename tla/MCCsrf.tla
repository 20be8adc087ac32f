------------------------------- MODULE MCCsrf -------------------------------
(***************************************************************************)
(* Two calls over one jar, a session and a token left by an earlier visit, *)
(* and two boots of the server.                                            *)
(***************************************************************************)
EXTENDS Csrf
=============================================================================
