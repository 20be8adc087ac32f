-------------------------- MODULE MCClientAddress --------------------------
(***************************************************************************)
(* Three clients, two of them in one /64, two proxies, and requests that   *)
(* start with up to one line in each header.                               *)
(***************************************************************************)
EXTENDS ClientAddress
CONSTANTS c4, c6, d6, p, q, net

MCClients    == {c4, c6, d6}
MCProxies    == {p, q}
MCAllocation == [h \in {c6, d6} |-> net]
MCDual       == {c4, q}

Heard == {<<>>} \cup {<<e>> : e \in {Spelled(c4), Spelled(p), Opaque}}
              \cup {<<Spelled(c6), Spelled(q)>>}
MCClaims == [xff : {<<>>} \cup {<<[whole |-> TRUE, entries |-> es]>> : es \in Heard},
             fwd : {<<>>} \cup {<<[whole |-> w, entries |-> es]>> : w \in BOOLEAN, es \in Heard}]
=============================================================================
