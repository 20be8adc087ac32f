--------------------------- MODULE MCRateLimiter ---------------------------
(***************************************************************************)
(* RateLimiter on a small instance: login, two keys with one rule each,    *)
(* and reset-password, no policy for the address and two tiers for the     *)
(* user, as in DefaultPolicy with smaller numbers.  The clock ticks twice  *)
(* a second.                                                               *)
(***************************************************************************)
EXTENDS RateLimiter, TLC

CONSTANTS r1, r2, r3

MCPolicy ==
    [type \in {"login:ip", "login:email", "reset_password:user"} |->
        CASE type = "login:ip"    -> <<[limit |-> 1, window |-> 4]>>
          [] type = "login:email" -> <<[limit |-> 2, window |-> 2]>>
          [] OTHER                -> <<[limit |-> 1, window |-> 2], [limit |-> 2, window |-> 4]>>]

MCEndpoints ==
    {[keys |-> <<[type |-> "login:ip", value |-> "addr"], [type |-> "login:email", value |-> "ada"]>>,
      resets |-> TRUE],
     [keys |-> <<[type |-> "reset_password:ip", value |-> "addr"],
                 [type |-> "reset_password:user", value |-> "ada"]>>,
      resets |-> FALSE]}

Symmetry == Permutations(Reqs)
=============================================================================
