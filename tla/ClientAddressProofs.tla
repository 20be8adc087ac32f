------------------------ MODULE ClientAddressProofs ------------------------
(***************************************************************************)
(* Proofs about ClientAddress, for any hosts, headers and number of        *)
(* proxies.  IInv adds what a proxy leaves for the next one: the platform  *)
(* header and a place of the chain that name the client (Way, Marked).     *)
(***************************************************************************)
EXTENDS ClientAddress, TLAPS

\* A request the client did not send itself was sent by a proxy, and the first one of them
\* wrote the platform header.
Way == client # None => /\ peer # None
                        /\ peer # client => peer \in Proxies /\ platform = Spelled(client)

\* The client's entry is still the nearest one that is not a proxy's.
Marked == client # None /\ peer # client /\ ~obscured =>
              \E x \in Nearest : Parsed(At(x)) = Parsed(Spelled(client))

\* A request that said which client sent it was counted in that client's bucket.
Own == \A k \in counted :
          k.client \in Clients /\ (k.told => k.bucket = BucketValue(Parsed(Spelled(k.client))))

IInv == TypeOK /\ Way /\ Marked /\ Own /\ ResolvesTheClient /\ OneBucketPerClient
-----------------------------------------------------------------------------
(* Addresses *)

\* However a host is spelled, it is parsed as one address, trusted if it is a proxy's.
LEMMA Spellings ==
    ASSUME NEW h \in Hosts
    PROVE  /\ Spelled(h) \in Addr /\ Parsed(Spelled(h)) \in Addr
           /\ Parsed(Spelled(h)) = [host |-> h, mapped |-> FALSE]
           /\ IsTrusted(Parsed(Spelled(h))) <=> h \in Proxies
  <1>1. Spelled(h) \in Addr
    BY DEF Spelled, Addr
  <1>2. Parsed(Spelled(h)) = [host |-> h, mapped |-> FALSE]
    BY <1>1 DEF Parsed, Spelled
  <1>3. [host |-> h, mapped |-> FALSE] \in Trusted <=> h \in Proxies
    BY DEF Trusted
  <1>4. [host |-> h, mapped |-> FALSE] \in Addr
    BY DEF Addr
  <1> QED BY <1>1, <1>2, <1>3, <1>4 DEF IsTrusted

\* What is parsed is an address, or Opaque.
LEMMA ParsedIsAddr == \A e : Parsed(e) \in Addr \/ Parsed(e) = Opaque
  BY DEF Parsed, Addr

\* The absent platform header and the opaque one are no address.
LEMMA NotAddr == Parsed(None) = Opaque /\ Parsed(Opaque) = Opaque
  BY EntryAssumption DEF Parsed

\* Clients and proxies are different hosts, none of them None.
LEMMA HostsDiffer == /\ \A c \in Clients : c \in Hosts /\ c # None /\ c \notin Proxies
                     /\ \A p \in Proxies : p \in Hosts /\ p # None
  BY ClientAddressAssumption DEF Hosts

-----------------------------------------------------------------------------
(* The chain *)

\* A place is an entry of a line that is read, before a step and after it.
LEMMA PlacesAre ==
    \A x : /\ x \in Places <=> \E f \in {"xff", "fwd"} : \E i \in ReadLines(f) :
                 \E j \in DOMAIN lines[f][i].entries : x = [head |-> f, line |-> i, at |-> j]
           /\ x \in Places' <=> \E f \in {"xff", "fwd"} : \E i \in ReadLines(f)' :
                 \E j \in DOMAIN lines'[f][i].entries : x = [head |-> f, line |-> i, at |-> j]
  BY DEF Places

\* Its parts.
LEMMA PlaceParts ==
    ASSUME lines \in Lines, NEW x \in Places
    PROVE  /\ x = [head |-> x.head, line |-> x.line, at |-> x.at]
           /\ x.head \in {"xff", "fwd"} /\ x.line \in ReadLines(x.head)
           /\ x.line \in 1..Len(lines[x.head]) /\ lines[x.head][x.line] \in Line
           /\ x.at \in 1..Len(lines[x.head][x.line].entries)
  <1>1. PICK f \in {"xff", "fwd"} : \E i \in ReadLines(f) :
            \E j \in DOMAIN lines[f][i].entries : x = [head |-> f, line |-> i, at |-> j]
    BY PlacesAre
  <1>2. PICK i \in ReadLines(f) :
            \E j \in DOMAIN lines[f][i].entries : x = [head |-> f, line |-> i, at |-> j]
    BY <1>1
  <1>3. PICK j \in DOMAIN lines[f][i].entries : x = [head |-> f, line |-> i, at |-> j]
    BY <1>2
  <1>4. lines[f] \in Seq(Line) /\ i \in 1..Len(lines[f])
    BY DEF Lines, ReadLines, SplitForwarded
  <1>5. lines[f][i] \in Line
    BY <1>4
  <1>6. lines[f][i].entries \in Seq(Entry)
    BY <1>5 DEF Line
  <1>7. j \in 1..Len(lines[f][i].entries)
    BY <1>6
  <1> QED BY <1>3, <1>4, <1>7

\* Two places of the chain are in order.
LEMMA PlacesInOrder ==
    ASSUME lines \in Lines, NEW x \in Places, NEW y \in Places, x # y
    PROVE  Later(x, y) \/ Later(y, x)
  <1>1. /\ x = [head |-> x.head, line |-> x.line, at |-> x.at]
        /\ y = [head |-> y.head, line |-> y.line, at |-> y.at]
        /\ x.head \in {"xff", "fwd"} /\ y.head \in {"xff", "fwd"}
        /\ x.line \in Nat /\ y.line \in Nat /\ x.at \in Nat /\ y.at \in Nat
    BY PlaceParts DEF Lines, Line
  <1>2. x.head # y.head \/ x.line # y.line \/ x.at # y.at
    BY <1>1
  <1> QED BY <1>1, <1>2 DEF Later

\* At most one place is the nearest that is not a proxy's.
LEMMA OneNearest ==
    ASSUME lines \in Lines, NEW x \in Nearest
    PROVE  Nearest = {x}
  <1> SUFFICES ASSUME NEW y \in Nearest, y # x PROVE FALSE
    OBVIOUS
  <1>1. x \in Places /\ y \in Places
    BY DEF Nearest, ForwardedChain
  <1>2. Later(x, y) \/ Later(y, x)
    BY <1>1, PlacesInOrder
  <1> QED BY <1>2 DEF Nearest

\* What the resolver finds is an address.
LEMMA ClientIPIsAddr == peer \in Hosts => ClientIP \in Addr
  <1> SUFFICES ASSUME peer \in Hosts PROVE ClientIP \in Addr
    OBVIOUS
  <1>1. Parsed(Spelled(peer)) \in Addr
    BY Spellings
  <1>2. Parsed(platform) # Opaque => Parsed(platform) \in Addr
    BY ParsedIsAddr
  <1>3. Nearest # {} => Parsed(At(CHOOSE x \in Nearest : TRUE)) \in Addr
    <2>1. \A x \in Nearest : Parsed(At(x)) \in Addr
      BY ParsedIsAddr DEF Nearest, ForwardedChain, Legal
    <2> QED BY <2>1
  <1> QED BY <1>1, <1>2, <1>3 DEF ClientIP

\* Counted in their own buckets, told clients share one if and only if they are of one /64.
LEMMA OwnBuckets == Own => OneBucketPerClient
  <1>1. \A c \in Clients : BucketValue(Parsed(Spelled(c))) =
            IF c \in DOMAIN Allocation THEN Allocation[c] ELSE c
    <2> SUFFICES ASSUME NEW c \in Clients
                 PROVE  BucketValue(Parsed(Spelled(c))) =
                            IF c \in DOMAIN Allocation THEN Allocation[c] ELSE c
      OBVIOUS
    <2>1. Parsed(Spelled(c)).host = c
      BY HostsDiffer, Spellings
    <2> QED BY <2>1 DEF BucketValue
  <1> QED BY <1>1 DEF Own, OneBucketPerClient

\* A client that is named where the resolver looks is found.
LEMMA Found == TypeOK /\ Way /\ Marked => ResolvesTheClient
  <1> SUFFICES ASSUME TypeOK, Way, Marked, client # None, Told
               PROVE  ClientIP = Parsed(Spelled(client))
    BY DEF ResolvesTheClient
  <1>1. client \in Clients /\ client \in Hosts /\ client \notin Proxies
    BY HostsDiffer DEF TypeOK
  <1>2. CASE peer = client
    BY <1>1, <1>2, Spellings DEF ClientIP
  <1>3. CASE peer # client
    <2>1. peer \in Proxies /\ peer \in Hosts /\ platform = Spelled(client)
      BY <1>3, HostsDiffer DEF Way
    <2>2. IsTrusted(Parsed(Spelled(peer))) /\ Parsed(platform) = Parsed(Spelled(client))
      BY <2>1, Spellings
    <2>3. Parsed(Spelled(client)) # Opaque
      <3>1. Parsed(Spelled(client)) \in Addr
        BY <1>1, Spellings
      <3> QED BY <3>1, EntryAssumption
    <2>4. CASE header
      BY <2>2, <2>3, <2>4 DEF ClientIP
    <2>5. CASE ~header
      <3>1. PICK x \in Nearest : Parsed(At(x)) = Parsed(Spelled(client))
        BY <1>3, <2>5 DEF Marked, Told
      <3>2. Nearest = {x}
        BY <3>1, OneNearest DEF TypeOK
      <3>3. (CHOOSE y \in Nearest : TRUE) = x
        BY <3>2
      <3> QED BY <2>2, <2>5, <3>1, <3>2, <3>3 DEF ClientIP
    <2> QED BY <2>4, <2>5
  <1> QED BY <1>2, <1>3

-----------------------------------------------------------------------------
(* A proxy's entry *)

\* Entry e is added at place z of header f, after every other place of that header.
Extended(f, e, z) ==
    /\ z.head = f /\ At(z)' = e
    /\ Places \subseteq Places' /\ Places' \subseteq Places \cup {z}
    /\ \A x \in Places : At(x)' = At(x) /\ (x.head = f => ~Later(z, x))
    /\ ~Later(z, z)

\* On a line of its own it is always read.
LEMMA AppendedIsLast ==
    ASSUME lines \in Lines, NEW f \in {"xff", "fwd"}, NEW e \in Entry,
           lines' = [lines EXCEPT ![f] = Appended(@, e)]
    PROVE  lines' \in Lines /\ \E z : Extended(f, e, z) /\ z \in Places'
  <1> DEFINE n == Len(lines[f])
             new == [whole |-> TRUE, entries |-> <<e>>]
  <1>0. PICK z : z = [head |-> f, line |-> n + 1, at |-> 1]
    OBVIOUS
  <1>1. lines[f] \in Seq(Line) /\ n \in Nat
    BY DEF Lines
  <1>2. new \in Line
    BY DEF Line
  <1>3. lines'[f] = Append(lines[f], new) /\ \A g \in {"xff", "fwd"} \ {f} : lines'[g] = lines[g]
    BY DEF Lines, Appended
  <1>4. lines' \in Lines
    <2>1. lines'[f] \in Seq(Line)
      BY <1>1, <1>2, <1>3
    <2>2. lines' = [xff |-> lines'["xff"], fwd |-> lines'["fwd"]]
      BY DEF Lines
    <2>3. lines'["xff"] \in Seq(Line) /\ lines'["fwd"] \in Seq(Line)
      BY <1>3, <2>1 DEF Lines
    <2> QED BY <2>2, <2>3 DEF Lines
  <1>5. DOMAIN lines'[f] = 1..(n + 1) /\ DOMAIN lines[f] = 1..n
    BY <1>1, <1>2, <1>3
  <1>6. lines'[f][n + 1] = new /\ \A i \in 1..n : lines'[f][i] = lines[f][i]
    BY <1>1, <1>2, <1>3
  <1>7. ReadLines(f)' = ReadLines(f) \cup {n + 1}
    BY <1>1, <1>5, <1>6 DEF ReadLines, SplitForwarded
  <1>8. \A g \in {"xff", "fwd"} \ {f} : ReadLines(g)' = ReadLines(g)
    BY <1>3 DEF ReadLines, SplitForwarded
  <1>9. \A g \in {"xff", "fwd"} : \A i \in ReadLines(g) : i \in ReadLines(g)' /\ lines'[g][i] = lines[g][i]
    BY <1>3, <1>5, <1>6, <1>7, <1>8 DEF ReadLines, SplitForwarded
  <1>10. \A x \in Places : x \in Places' /\ At(x)' = At(x)
    <2> SUFFICES ASSUME NEW x \in Places PROVE x \in Places' /\ At(x)' = At(x)
      OBVIOUS
    <2>1. PICK g \in {"xff", "fwd"} : \E i \in ReadLines(g) :
              \E j \in DOMAIN lines[g][i].entries : x = [head |-> g, line |-> i, at |-> j]
      BY PlacesAre
    <2>2. PICK i \in ReadLines(g) :
              \E j \in DOMAIN lines[g][i].entries : x = [head |-> g, line |-> i, at |-> j]
      BY <2>1
    <2>3. PICK j \in DOMAIN lines[g][i].entries : x = [head |-> g, line |-> i, at |-> j]
      BY <2>2
    <2>4. i \in ReadLines(g)' /\ lines'[g][i] = lines[g][i]
      BY <1>9
    <2>5. x \in Places'
      BY <2>3, <2>4, PlacesAre
    <2> QED BY <2>3, <2>4, <2>5 DEF At
  <1>11. \A x \in Places' : x \in Places \/ x = z
    <2> SUFFICES ASSUME NEW x \in Places', x # z PROVE x \in Places
      OBVIOUS
    <2>1. PICK g \in {"xff", "fwd"} : \E i \in ReadLines(g)' :
              \E j \in DOMAIN lines'[g][i].entries : x = [head |-> g, line |-> i, at |-> j]
      BY PlacesAre
    <2>2. PICK i \in ReadLines(g)' :
              \E j \in DOMAIN lines'[g][i].entries : x = [head |-> g, line |-> i, at |-> j]
      BY <2>1
    <2>3. PICK j \in DOMAIN lines'[g][i].entries : x = [head |-> g, line |-> i, at |-> j]
      BY <2>2
    <2>4. i \in ReadLines(g)
      <3>1. CASE g = f /\ i = n + 1
        <4>1. j \in DOMAIN <<e>>
          BY <1>6, <2>3, <3>1
        <4> QED BY <1>0, <2>3, <3>1, <4>1
      <3> QED BY <1>7, <1>8, <3>1
    <2> QED BY <1>9, <2>3, <2>4, PlacesAre
  <1>12. z \in Places' /\ At(z)' = e
    <2>1. 1 \in DOMAIN lines'[f][n + 1].entries /\ n + 1 \in ReadLines(f)'
      BY <1>6, <1>7
    <2>2. z \in Places'
      BY <1>0, <2>1, PlacesAre
    <2>3. At(z)' = lines'[f][n + 1].entries[1]
      BY <1>0 DEF At
    <2>4. lines'[f][n + 1].entries[1] = e
      BY <1>6
    <2> QED BY <2>2, <2>3, <2>4
  <1>13. ~Later(z, z) /\ \A x \in Places : x.head = f => ~Later(z, x)
    BY <1>0, <1>1, PlaceParts DEF Later
  <1>14. Extended(f, e, z)
    BY <1>0, <1>10, <1>11, <1>12, <1>13 DEF Extended
  <1> QED BY <1>4, <1>12, <1>14

\* At the end of the last line it is read with the line.
LEMMA JoinedIsLast ==
    ASSUME lines \in Lines, NEW f \in {"xff", "fwd"}, NEW e \in Entry, lines[f] # <<>>,
           lines' = [lines EXCEPT ![f] = Joined(@, e)]
    PROVE  /\ lines' \in Lines
           /\ \E z : Extended(f, e, z) /\ (lines[f][Len(lines[f])].whole => z \in Places')
  <1> DEFINE n == Len(lines[f])
             last == lines[f][n]
             m == Len(last.entries)
  <1>0. PICK z : z = [head |-> f, line |-> n, at |-> m + 1]
    OBVIOUS
  <1>1. lines[f] \in Seq(Line) /\ n \in Nat \ {0}
    BY DEF Lines
  <1>2. last \in Line /\ last.entries \in Seq(Entry) /\ m \in Nat
    <2>1. last \in Line
      BY <1>1
    <2> QED BY <2>1 DEF Line
  <1>3. /\ lines'[f] = [lines[f] EXCEPT ![n].entries = Append(@, e)]
        /\ \A g \in {"xff", "fwd"} \ {f} : lines'[g] = lines[g]
    BY DEF Lines, Joined
  <1>4. DOMAIN lines'[f] = DOMAIN lines[f] /\ n \in DOMAIN lines[f] /\ DOMAIN lines[f] = 1..n
    BY <1>1, <1>3
  <1>5. /\ lines'[f][n] = [last EXCEPT !.entries = Append(@, e)]
        /\ \A i \in DOMAIN lines[f] \ {n} : lines'[f][i] = lines[f][i]
    BY <1>3, <1>4
  <1>6. lines'[f][n].whole = last.whole /\ lines'[f][n].entries = Append(last.entries, e)
    BY <1>2, <1>5 DEF Line
  <1>7. DOMAIN lines'[f][n].entries = 1..(m + 1) /\ DOMAIN last.entries = 1..m
    BY <1>2, <1>6
  <1>8. lines'[f][n].entries[m + 1] = e /\ \A j \in 1..m : lines'[f][n].entries[j] = last.entries[j]
    BY <1>2, <1>6
  <1>9. lines' \in Lines
    <2>1. [last EXCEPT !.entries = Append(@, e)] \in Line
      <3>1. Append(last.entries, e) \in Seq(Entry)
        BY <1>2
      <3> QED BY <1>2, <3>1 DEF Line
    <2>2. lines'[f] \in Seq(Line)
      BY <1>1, <1>3, <1>4, <2>1
    <2>3. lines' = [xff |-> lines'["xff"], fwd |-> lines'["fwd"]]
      BY DEF Lines
    <2>4. lines'["xff"] \in Seq(Line) /\ lines'["fwd"] \in Seq(Line)
      BY <1>3, <2>2 DEF Lines
    <2> QED BY <2>3, <2>4 DEF Lines
  <1>10. \A g \in {"xff", "fwd"} : ReadLines(g)' = ReadLines(g)
    <2>1. \A i \in DOMAIN lines[f] : lines'[f][i].whole = lines[f][i].whole
      BY <1>5, <1>6
    <2>2. ReadLines(f)' = ReadLines(f)
      BY <1>4, <2>1 DEF ReadLines, SplitForwarded
    <2> QED BY <1>3, <2>2 DEF ReadLines, SplitForwarded
  <1>11. \A x \in Places : x \in Places' /\ At(x)' = At(x)
    <2> SUFFICES ASSUME NEW x \in Places PROVE x \in Places' /\ At(x)' = At(x)
      OBVIOUS
    <2>1. PICK g \in {"xff", "fwd"} : \E i \in ReadLines(g) :
              \E j \in DOMAIN lines[g][i].entries : x = [head |-> g, line |-> i, at |-> j]
      BY PlacesAre
    <2>2. PICK i \in ReadLines(g) :
              \E j \in DOMAIN lines[g][i].entries : x = [head |-> g, line |-> i, at |-> j]
      BY <2>1
    <2>3. PICK j \in DOMAIN lines[g][i].entries : x = [head |-> g, line |-> i, at |-> j]
      BY <2>2
    <2>4. j \in DOMAIN lines'[g][i].entries /\ lines'[g][i].entries[j] = lines[g][i].entries[j]
      <3>1. CASE g = f /\ i = n
        BY <1>7, <1>8, <3>1, <1>2
      <3>2. CASE g # f \/ i # n
        BY <1>3, <1>5, <3>2 DEF ReadLines, SplitForwarded
      <3> QED BY <3>1, <3>2
    <2>5. x \in Places'
      BY <1>10, <2>3, <2>4, PlacesAre
    <2> QED BY <2>3, <2>4, <2>5 DEF At
  <1>12. \A x \in Places' : x \in Places \/ x = z
    <2> SUFFICES ASSUME NEW x \in Places', x # z PROVE x \in Places
      OBVIOUS
    <2>1. PICK g \in {"xff", "fwd"} : \E i \in ReadLines(g)' :
              \E j \in DOMAIN lines'[g][i].entries : x = [head |-> g, line |-> i, at |-> j]
      BY PlacesAre
    <2>2. PICK i \in ReadLines(g)' :
              \E j \in DOMAIN lines'[g][i].entries : x = [head |-> g, line |-> i, at |-> j]
      BY <2>1
    <2>3. PICK j \in DOMAIN lines'[g][i].entries : x = [head |-> g, line |-> i, at |-> j]
      BY <2>2
    <2>4. j \in DOMAIN lines[g][i].entries
      <3>1. CASE g = f /\ i = n
        <4>1. j \in 1..(m + 1) /\ j # m + 1
          BY <1>0, <1>7, <2>3, <3>1
        <4> QED BY <1>2, <1>7, <3>1, <4>1
      <3>2. CASE g # f \/ i # n
        BY <1>3, <1>4, <1>5, <3>2, <1>10 DEF ReadLines, SplitForwarded
      <3> QED BY <3>1, <3>2
    <2> QED BY <1>10, <2>3, <2>4, PlacesAre
  <1>13. At(z)' = e
    <2>1. At(z)' = lines'[f][n].entries[m + 1]
      BY <1>0 DEF At
    <2> QED BY <1>8, <2>1
  <1>14. ~Later(z, z) /\ \A x \in Places : x.head = f => ~Later(z, x)
    BY <1>0, <1>1, <1>2, PlaceParts DEF Later
  <1>15. Extended(f, e, z)
    BY <1>0, <1>11, <1>12, <1>13, <1>14 DEF Extended
  <1>16. last.whole => z \in Places'
    <2>1. last.whole => n \in ReadLines(f)'
      BY <1>4, <1>6 DEF ReadLines, SplitForwarded
    <2>2. m + 1 \in DOMAIN lines'[f][n].entries
      BY <1>2, <1>7
    <2> QED BY <1>0, <2>1, <2>2, PlacesAre
  <1> QED BY <1>9, <1>15, <1>16

-----------------------------------------------------------------------------
(* The steps *)

\* What holds of a state holds of the next one.
LEMMA NextState == /\ (peer \in Hosts => ClientIP \in Addr)'
                   /\ (TypeOK /\ Way /\ Marked => ResolvesTheClient)'
                   /\ (Own => OneBucketPerClient)'
  BY ClientIPIsAddr, Found, OwnBuckets, PTL

\* A fresh request is the client's own.
LEMMA SendKeeps ==
    ASSUME IInv, NEW c \in Clients, Send(c)
    PROVE  IInv'
  <1>1. c \in Hosts /\ c # None /\ client' = c /\ peer' = c
    BY HostsDiffer DEF Send
  <1>2. TypeOK'
    <2>1. ClientIP' \in Addr
      BY <1>1, NextState
    <2>2. platform' \in Entry \cup {None}
      <3>1. \A d \in Clients : Spelled(d) \in Addr
        BY Spellings, HostsDiffer
      <3> QED BY <3>1 DEF Send, Entry
    <2>3. lines' \in Lines /\ hops' \in 0..MaxHops
      BY EntryAssumption, ClientAddressAssumption DEF Send
    <2> QED BY <1>1, <2>1, <2>2, <2>3 DEF IInv, TypeOK, Send
  <1>3. Way' /\ Marked'
    BY <1>1 DEF Way, Marked
  <1>4. Own' /\ OneBucketPerClient'
    BY DEF IInv, Own, OneBucketPerClient, Spelled, Addr, Send
  <1> QED BY <1>2, <1>3, <1>4, NextState DEF IInv

\* Its entry is the last of its header; where the client's cannot be told is in obscured.
LEMMA Relayed ==
    ASSUME IInv, NEW p \in Proxies, Relay(p)
    PROVE  /\ lines' \in Lines
           /\ peer # client => obscured' = obscured
           /\ \E f \in {"xff", "fwd"} : \E z :
                 /\ Extended(f, Spelled(peer), z)
                 /\ peer = client /\ ~obscured' => z \in Places' /\ (f = "xff" => lines.fwd = <<>>)
  <1>1. lines \in Lines /\ client # None /\ peer \in Hosts
    BY DEF IInv, TypeOK, Way, Relay
  <1>2. Spelled(peer) \in Entry
    BY <1>1, Spellings DEF Entry
  <1>3. PICK f \in {"xff", "fwd"} :
          \/ /\ lines' = [lines EXCEPT ![f] = Appended(@, Spelled(peer))]
             /\ obscured' = IF peer = client THEN f = "xff" /\ lines.fwd # <<>> ELSE obscured
          \/ /\ lines[f] # <<>>
             /\ lines' = [lines EXCEPT ![f] = Joined(@, Spelled(peer))]
             /\ obscured' = IF peer = client THEN \/ f = "xff" /\ lines.fwd # <<>>
                                                  \/ ~lines[f][Len(lines[f])].whole
                            ELSE obscured
    BY DEF Relay
  <1>4. CASE lines' = [lines EXCEPT ![f] = Appended(@, Spelled(peer))]
             /\ obscured' = IF peer = client THEN f = "xff" /\ lines.fwd # <<>> ELSE obscured
    BY <1>1, <1>2, <1>4, AppendedIsLast
  <1>5. CASE /\ lines[f] # <<>>
             /\ lines' = [lines EXCEPT ![f] = Joined(@, Spelled(peer))]
             /\ obscured' = IF peer = client THEN \/ f = "xff" /\ lines.fwd # <<>>
                                                  \/ ~lines[f][Len(lines[f])].whole
                            ELSE obscured
    BY <1>1, <1>2, <1>5, JoinedIsLast
  <1> QED BY <1>3, <1>4, <1>5

\* The chain keeps what it held and gains the new place, if that is read and an address.
LEMMA ChainGrows ==
    ASSUME NEW f, NEW e, NEW z, Extended(f, e, z)
    PROVE  /\ \A x \in ForwardedChain : x \in ForwardedChain' /\ At(x)' = At(x)
           /\ \A x \in ForwardedChain' : x # z => x \in ForwardedChain /\ At(x)' = At(x)
           /\ z \in Places' /\ Parsed(e) # Opaque => z \in ForwardedChain'
  BY DEF Extended, ForwardedChain, Legal

\* The first proxy marks the client.
LEMMA FirstMarks ==
    ASSUME IInv, NEW p \in Proxies, Relay(p), peer = client
    PROVE  Marked'
  <1> SUFFICES ASSUME ~obscured'
               PROVE  \E x \in Nearest' : Parsed(At(x)') = Parsed(Spelled(client))
    BY DEF Marked, Relay
  <1>0. PICK f \in {"xff", "fwd"} : \E z :
            /\ Extended(f, Spelled(peer), z)
            /\ z \in Places' /\ (f = "xff" => lines.fwd = <<>>)
    BY Relayed
  <1>1. PICK z : /\ Extended(f, Spelled(peer), z)
                 /\ z \in Places' /\ (f = "xff" => lines.fwd = <<>>)
    BY <1>0
  <1>2. client \in Hosts /\ client \notin Proxies
    BY HostsDiffer DEF IInv, TypeOK, Relay
  <1>3. At(z)' = Spelled(client) /\ ~IsTrusted(Parsed(Spelled(client)))
    BY <1>1, <1>2, Spellings DEF Extended
  <1>4. Parsed(Spelled(client)) # Opaque
    BY <1>2, Spellings, EntryAssumption
  <1>5. z \in ForwardedChain'
    BY <1>1, <1>4, ChainGrows
  <1>6. \A y \in Places : ~Later(z, y)
    <2> SUFFICES ASSUME NEW y \in Places, Later(z, y) PROVE FALSE
      OBVIOUS
    <2>1. y.head = "fwd" /\ f = "xff"
      BY <1>1 DEF Extended, Later
    <2>2. lines["fwd"] = <<>>
      BY <1>1, <2>1
    <2>3. y.line \in 1..Len(lines["fwd"])
      BY <2>1, PlaceParts DEF IInv, TypeOK
    <2> QED BY <2>2, <2>3
  <1>7. \A y \in ForwardedChain' : Later(z, y) => y \in Places
    <2>1. ~Later(z, z)
      BY <1>1 DEF Extended
    <2> QED BY <1>1, <2>1, ChainGrows DEF ForwardedChain
  <1>8. z \in Nearest'
    BY <1>3, <1>5, <1>6, <1>7 DEF Nearest, TrustedAt, Later
  <1> QED BY <1>3, <1>8

\* The next ones add proxies, after it.
LEMMA OthersKeepMark ==
    ASSUME IInv, NEW p \in Proxies, Relay(p), peer # client
    PROVE  Marked'
  <1> SUFFICES ASSUME ~obscured'
               PROVE  \E x \in Nearest' : Parsed(At(x)') = Parsed(Spelled(client))
    BY DEF Marked, Relay
  <1>0. PICK f \in {"xff", "fwd"} : \E z : Extended(f, Spelled(peer), z)
    BY Relayed
  <1>1. PICK z : Extended(f, Spelled(peer), z)
    BY <1>0
  <1>2. ~obscured /\ client # None
    BY DEF Relay
  <1>3. PICK x \in Nearest : Parsed(At(x)) = Parsed(Spelled(client))
    BY <1>2 DEF IInv, Marked
  <1>4. peer \in Proxies /\ peer \in Hosts
    BY <1>2, HostsDiffer DEF IInv, Way
  <1>5. IsTrusted(Parsed(At(z)'))
    BY <1>1, <1>4, Spellings DEF Extended
  <1>6. x \in ForwardedChain' /\ At(x)' = At(x)
    BY <1>1, ChainGrows DEF Nearest
  <1>7. \A y \in ForwardedChain' : Later(x, y) => IsTrusted(Parsed(At(y)'))
    BY <1>1, <1>5, ChainGrows DEF Nearest, TrustedAt
  <1>8. x \in Nearest'
    BY <1>6, <1>7 DEF Nearest, TrustedAt, Later
  <1> QED BY <1>3, <1>6, <1>8

\* A proxy passes the request on.
LEMMA RelayKeeps ==
    ASSUME IInv, NEW p \in Proxies, Relay(p)
    PROVE  IInv'
  <1>1. /\ client' = client /\ client # None /\ client \in Clients /\ peer' = p
        /\ client \in Hosts /\ p \in Hosts /\ p # None
    BY HostsDiffer DEF Relay, IInv, TypeOK
  <1>2. platform' = Spelled(client) /\ platform' \in Entry
    <2>1. platform' = Spelled(client)
      BY DEF Relay, IInv, Way
    <2> QED BY <1>1, <2>1, Spellings DEF Entry
  <1>3. TypeOK'
    <2>1. ClientIP' \in Addr /\ lines' \in Lines
      BY <1>1, NextState, Relayed
    <2>2. hops' \in 0..MaxHops
      BY ClientAddressAssumption DEF Relay, IInv, TypeOK
    <2>3. obscured' \in BOOLEAN
      BY DEF Relay, IInv, TypeOK
    <2> QED BY <1>1, <1>2, <2>1, <2>2 DEF IInv, TypeOK, Relay
  <1>4. Way' /\ Marked'
    BY <1>1, <1>2, FirstMarks, OthersKeepMark DEF Way
  <1>5. Own' /\ OneBucketPerClient'
    BY DEF IInv, Own, OneBucketPerClient, Relay
  <1> QED BY <1>3, <1>4, <1>5, NextState DEF IInv

\* The server counts a request in its client's bucket.
LEMMA CountKeeps ==
    ASSUME IInv, Count
    PROVE  IInv'
  <1>1. client \in Clients /\ client # None /\ client' = None /\ peer' = None
    BY DEF Count, IInv, TypeOK
  <1>2. Own'
    BY <1>1 DEF Count, IInv, ResolvesTheClient, Own
  <1>3. OneBucketPerClient'
    BY <1>2, NextState
  <1>4. TypeOK'
    <2>1. [xff |-> <<>>, fwd |-> <<>>] \in Lines
      BY DEF Lines
    <2>2. hops' \in 0..MaxHops
      BY ClientAddressAssumption DEF Count
    <2> QED BY <2>1, <2>2 DEF Count, IInv, TypeOK
  <1> QED BY <1>1, <1>2, <1>3, <1>4 DEF IInv, Way, Marked, ResolvesTheClient

-----------------------------------------------------------------------------
(* The theorems *)

LEMMA InitKeeps == Init => IInv
  <1> SUFFICES ASSUME Init PROVE IInv
    OBVIOUS
  <1>1. [xff |-> <<>>, fwd |-> <<>>] \in Lines
    BY DEF Lines
  <1>2. TypeOK
    <2>1. hops \in 0..MaxHops
      BY ClientAddressAssumption DEF Init
    <2> QED BY <1>1, <2>1 DEF Init, TypeOK
  <1>3. Own
    BY DEF Init, Own
  <1>4. Way /\ Marked /\ ResolvesTheClient
    BY DEF Init, Way, Marked, ResolvesTheClient
  <1> QED BY <1>2, <1>3, <1>4, OwnBuckets DEF IInv

LEMMA NextKeeps == IInv /\ [Next]_vars => IInv'
  <1> SUFFICES ASSUME IInv, [Next]_vars PROVE IInv'
    OBVIOUS
  <1>1. CASE Next
    BY <1>1, SendKeeps, RelayKeeps, CountKeeps DEF Next
  <1>2. CASE UNCHANGED vars
    <2>1. Places' = Places /\ \A x : At(x)' = At(x)
      BY <1>2 DEF vars, Places, ReadLines, SplitForwarded, At
    <2>2. Nearest' = Nearest
      BY <2>1 DEF Nearest, ForwardedChain, TrustedAt
    <2>3. TypeOK'
      BY <1>2, NextState DEF vars, IInv, TypeOK, Way
    <2>4. Way' /\ Own'
      BY <1>2 DEF vars, IInv, Way, Own
    <2>5. Marked'
      BY <1>2, <2>1, <2>2 DEF vars, IInv, Marked
    <2> QED BY <2>3, <2>4, <2>5, NextState DEF IInv
  <1> QED BY <1>1, <1>2

\* IInv holds in every state.
THEOREM Invariance == Spec => []IInv
  BY InitKeeps, NextKeeps, PTL DEF Spec

\* For any headers and any number of proxies the state is well formed and the resolver
\* finds one address (clientip.go:95).
THEOREM TypeCorrect == Spec => []TypeOK
  <1>1. IInv => TypeOK
    BY DEF IInv
  <1> QED BY <1>1, Invariance, PTL

\* A request that says which client sent it (Told: in the platform header, or in an entry its
\* first proxy put at the end of the chain) is resolved to that client, whatever else it
\* claimed and however many proxies follow (clientip.go:95).
THEOREM TheClientIsFound == Spec => []ResolvesTheClient
  <1>1. IInv => ResolvesTheClient
    BY DEF IInv
  <1> QED BY <1>1, Invariance, PTL

\* Over all counted requests that say which client sent them, every client has one bucket
\* and no two share one, an IPv6 /64 being one client (clientip.go:126).
THEOREM ClientsHaveTheirBuckets == Spec => []OneBucketPerClient
  <1>1. IInv => OneBucketPerClient
    BY DEF IInv
  <1> QED BY <1>1, Invariance, PTL
=============================================================================
