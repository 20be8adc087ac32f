----------------------------- MODULE MCAccounts -----------------------------
(* Accounts on a small instance: two spellings of one address, and another. *)
EXTENDS Accounts, TLC

CONSTANTS ada, Ada, bob, d1, d2, d3, p1, p2

MCFold == ada :> ada @@ Ada :> ada @@ bob :> bob
=============================================================================
