--------------------------- MODULE ClientAddress ---------------------------
(***************************************************************************)
(* Which address the rate limiter counts a request under (clientip.go).    *)
(*                                                                         *)
(* A request comes from a client, passes through the deployment's own      *)
(* (trusted) proxies, and reaches the server.  Each proxy adds the address *)
(* it was reached from to one of the two forwarding headers, on a line of  *)
(* its own or at the end of the last one; the headers may already hold     *)
(* hops from before the client.  The resolver sees the headers and the     *)
(* last peer.                                                              *)
(*                                                                         *)
(* Proxies are not code of this repository: they are modelled from what    *)
(* clientip.go expects of them.  Text is abstracted to what parseAddr and  *)
(* splitForwarded make of it: an address with its spelling, an identifier  *)
(* that is no address, a line whose quotes do not close.  An operator      *)
(* marked "Fault:" is a faulty variant of the one after it.                *)
(***************************************************************************)
EXTENDS Naturals, Sequences, FiniteSets

CONSTANTS Clients,     \* hosts outside the deployment
          Proxies,     \* TRUSTED_PROXIES
          Allocation,  \* the /64 an IPv6 host belongs to; an IPv4 host stands alone
          Dual,        \* IPv4 hosts whose address is spelled ::ffff:a.b.c.d
          Opaque,      \* "unknown", "_hidden" and other entries that are no address
          None,        \* no platform header, no request
          Claims,      \* header contents a request may start with
          MaxHops,     \* bound: proxies a request passes
          MaxCounted   \* bound: different outcomes of counting that are remembered

Hosts == Clients \cup Proxies

ASSUME ClientAddressAssumption ==
    /\ Clients \cap Proxies = {} /\ {Opaque, None} \cap Hosts = {}
    /\ DOMAIN Allocation \subseteq Clients
    /\ MaxHops \in Nat /\ MaxCounted \in Nat

VARIABLES header,    \* CLIENT_IP_HEADER is configured
          client,    \* the host outside the deployment the request comes from
          peer,      \* the host the request was last sent by
          hops,      \* proxies passed
          lines,     \* the lines of X-Forwarded-For (xff) and of Forwarded (fwd)
          platform,  \* the platform header
          obscured,  \* history: the first proxy's entry for the client is not the chain's last
          counted    \* history: the requests counted [client, bucket, told]

vars == <<header, client, peer, hops, lines, platform, obscured, counted>>

Addr  == [host : Hosts, mapped : BOOLEAN]
Entry == Addr \cup {Opaque}
Line  == [whole : BOOLEAN, entries : Seq(Entry)]
Lines == [xff : Seq(Line), fwd : Seq(Line)]

ASSUME EntryAssumption == Opaque \notin Addr /\ None \notin Addr /\ Claims \subseteq Lines

Spelled(h) == [host |-> h, mapped |-> h \in Dual]

\* The request says which host outside the deployment sent it, where the resolver looks.
Told == header \/ ~obscured

Init == /\ header \in BOOLEAN
        /\ client = None /\ peer = None /\ hops = 0
        /\ lines = [xff |-> <<>>, fwd |-> <<>>] /\ platform = None
        /\ obscured = FALSE /\ counted = {}

-----------------------------------------------------------------------------
(* The resolver *)

\* ParseTrustedProxies: prefixes of plain addresses, none of them written as mapped.
Trusted == [host : Proxies, mapped : {FALSE}]

\* netip.Prefix.Contains: a mapped address is in no prefix of IPv4 addresses.
IsTrusted(a) == a \in Trusted

\* Fault: an IPv4 address spelled as IPv6 stays what it is.
ParsedAsSpelled(e) == e

\* parseAddr: an IPv4 address spelled as IPv6 is unmapped.
Parsed(e) == IF e \in Addr THEN [e EXCEPT !.mapped = FALSE] ELSE Opaque

\* Fault: an entry that is no address stays in the chain.
LegalAll(e) == TRUE

Legal(e) == Parsed(e) # Opaque

\* Lines splitForwarded can split.
SplitForwarded(f) == {i \in DOMAIN lines[f] : lines[f][i].whole}

\* Every line of a header.
ReadLines(f) == IF f = "fwd" THEN SplitForwarded(f) ELSE DOMAIN lines[f]

\* What stands at a place: entry `at` of line `line` of header `head`.
At(x) == lines[x.head][x.line].entries[x.at]

Places == UNION {UNION {{[head |-> f, line |-> i, at |-> j] : j \in DOMAIN lines[f][i].entries}
                        : i \in ReadLines(f)} : f \in {"xff", "fwd"}}

\* forwardedChain: the places that hold an address...
ForwardedChain == {x \in Places : Legal(At(x))}

\* ... and their order: X-Forwarded-For before Forwarded, line by line, entry by entry.
Later(x, y) == \/ x.head = "xff" /\ y.head = "fwd"
               \/ x.head = y.head /\ \/ x.line < y.line
                                     \/ x.line = y.line /\ x.at < y.at

TrustedAt(x) == IsTrusted(Parsed(At(x)))

\* The rightmost place of the chain that is not a trusted proxy's, if there is one.
Nearest == {x \in ForwardedChain :
    /\ ~TrustedAt(x)
    /\ \A y \in ForwardedChain : Later(x, y) => TrustedAt(y)}

ClientIP ==
    LET from == Parsed(Spelled(peer))
    IN IF ~IsTrusted(from) THEN from
       ELSE IF header /\ Parsed(platform) # Opaque THEN Parsed(platform)
       ELSE IF Nearest # {} THEN Parsed(At(CHOOSE x \in Nearest : TRUE))
       ELSE from

\* Fault: an IPv6 address is its own bucket.
BucketValueByHost(a) == a.host

\* bucketValue: one bucket per IPv4 address and per IPv6 /64.
BucketValue(a) == IF a.host \in DOMAIN Allocation THEN Allocation[a.host] ELSE a.host

-----------------------------------------------------------------------------
(* A request's way *)

\* A client sends a request, with the headers it happens to hold.
Send(c) ==
    /\ client = None /\ Cardinality(counted) < MaxCounted
    /\ client' = c /\ peer' = c /\ hops' = 0
    /\ lines' \in Claims
    /\ platform' \in {None, Opaque} \cup {Spelled(d) : d \in Clients}
    /\ obscured' = FALSE
    /\ UNCHANGED <<header, counted>>

\* An entry on a line of its own, or at the end of the last line.
Appended(ls, e) == Append(ls, [whole |-> TRUE, entries |-> <<e>>])
Joined(ls, e)   == [ls EXCEPT ![Len(ls)].entries = Append(@, e)]

\* A proxy passes the request on.  The first one writes the client's entry: it is obscured
\* on a line that cannot be split, and in X-Forwarded-For when the client sent a Forwarded
\* of its own, which forwardedChain puts after it.
Relay(p) ==
    /\ client # None /\ hops < MaxHops
    /\ \E f \in {"xff", "fwd"} :
          \/ /\ lines' = [lines EXCEPT ![f] = Appended(@, Spelled(peer))]
             /\ obscured' = IF peer = client THEN f = "xff" /\ lines.fwd # <<>> ELSE obscured
          \/ /\ lines[f] # <<>>
             /\ lines' = [lines EXCEPT ![f] = Joined(@, Spelled(peer))]
             /\ obscured' = IF peer = client THEN \/ f = "xff" /\ lines.fwd # <<>>
                                                  \/ ~lines[f][Len(lines[f])].whole
                            ELSE obscured
    /\ platform' = IF peer = client THEN Spelled(client) ELSE platform
    /\ peer' = p /\ hops' = hops + 1
    /\ UNCHANGED <<header, client, counted>>

\* The server's guard counts the request, whatever its headers say.
Count ==
    /\ client # None
    /\ counted' = counted \cup
           {[client |-> client, bucket |-> BucketValue(ClientIP), told |-> Told]}
    /\ client' = None /\ peer' = None /\ hops' = 0
    /\ lines' = [xff |-> <<>>, fwd |-> <<>>] /\ platform' = None /\ obscured' = FALSE
    /\ UNCHANGED header

Next == \/ \E c \in Clients : Send(c)
        \/ \E p \in Proxies : Relay(p)
        \/ Count

Spec == Init /\ [][Next]_vars

-----------------------------------------------------------------------------
(* Properties *)

\* The state is well formed, and the resolver always finds one address.
TypeOK ==
    /\ header \in BOOLEAN /\ obscured \in BOOLEAN
    /\ client \in Clients \cup {None} /\ peer \in Hosts \cup {None}
    /\ hops \in 0..MaxHops
    /\ lines \in Lines
    /\ platform \in Entry \cup {None}
    /\ client # None => ClientIP \in Addr

\* A request that says which client sent it is resolved to that client, whatever else its
\* headers held before the first proxy and however many proxies follow.  It says so to a
\* deployment with a platform header, and to any other if the first proxy's entry is the
\* last of the chain (Relay); SpoofedEntriesAreNeverReached is about the rest (clientip.go:33).
ResolvesTheClient ==
    client # None /\ Told => ClientIP = Parsed(Spelled(client))

\* Over the requests counted that say which client sent them, one client (an IPv4 address,
\* an IPv6 /64) has one bucket and two clients have two.  Of the others it says nothing:
\* they are counted wherever their headers point (clientip.go:130).
OneBucketPerClient ==
    LET group(c) == IF c \in DOMAIN Allocation THEN Allocation[c] ELSE c IN
    \A a, b \in counted :
        a.told /\ b.told => (a.bucket = b.bucket <=> group(a.client) = group(b.client))

-----------------------------------------------------------------------------
(* What the repository says of the program and the code does not keep *)

\* clientip.go:33: "The resolution walks the chain from the right -- the end our own proxy
\* wrote -- leftward, stopping at the first address not on the trust list.  Spoofed entries
\* sit on the far left and are never reached."  Requests with a line that cannot be split,
\* which the resolver drops on purpose, are left out.
SpoofedEntriesAreNeverReached ==
    client # None /\ (\A i \in DOMAIN lines.fwd : lines.fwd[i].whole)
        => ClientIP = Parsed(Spelled(client))
=============================================================================
