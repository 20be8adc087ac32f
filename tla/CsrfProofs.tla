----------------------------- MODULE CsrfProofs -----------------------------
(***************************************************************************)
(* Proofs about Csrf, for any calls and any number of boots: its types,    *)
(* the two cookie invariants, and that request() implements OneShot.       *)
(***************************************************************************)
EXTENDS Csrf, TLAPS

Under(c) == call[c].step \in {"health", "read", "send"}

JarGood == Verify(jar.token, jar.sid)

\* What a call's step says of its request and of what it was told.
Shape(c) ==
    /\ call[c].step = "idle" <=> call[c].told = "idle"
    /\ Under(c) <=> call[c].told = "pending"
    /\ wire[c].at # "none" => \/ call[c].step \in {"health", "send"}
                              \/ /\ call[c].step = "end" /\ call[c].told = "failed"
                                 /\ wire[c].at = "out"
    /\ call[c].step = "end" /\ wire[c].at = "out" => call[c].told = "failed"
    /\ call[c].step = "idle" => call[c].tries = 0

\* The endpoint has not run while its request is under way or may be sent again.
Once(c) ==
    /\ wire[c].at = "out" => runs[c] = 0
    /\ runs[c] = 1 => call[c].step = "end" \/ (call[c].step = "send" /\ wire[c].at = "back")
    /\ wire[c].at = "back" /\ call[c].step = "health" => wire[c].reply.status # "refused"
    /\ wire[c].at = "back" /\ call[c].step = "send" =>
          /\ wire[c].reply.status = "ok" => runs[c] = 1
          /\ wire[c].reply.status = "refused" => runs[c] = 0 /\ call[c].kind # "get"
    /\ call[c].told = "ok" => runs[c] = 1
    /\ call[c].told = "refused" => runs[c] = 0

\* What a request, an answer and a header have to do with the jar while nothing disturbs
\* their call.
Bound(c) ==
    /\ wire[c].at = "back" /\ wire[c].reply.cookies = "both" =>
          /\ call[c].step = "send"
          /\ wire[c].reply.token # None /\ wire[c].reply.token.sid = wire[c].reply.sid
    /\ Under(c) /\ c \notin late =>
          /\ wire[c].at = "out" => wire[c].sid = jar.sid /\ wire[c].token = jar.token
          /\ wire[c].at = "back" =>
                /\ wire[c].reply.cookies = "token" => Verify(wire[c].reply.token, jar.sid)
                /\ wire[c].reply.cookies = "keep" /\ wire[c].reply.status = "ok" /\ Safe(c)
                      => JarGood
                /\ call[c].step = "health" => wire[c].reply.status = "ok"
          /\ call[c].step = "read" => JarGood
          /\ call[c].step = "send" /\ call[c].tries = 1 =>
                /\ wire[c].at # "back" => JarGood /\ call[c].hdr = jar.token
                /\ wire[c].at = "back" => wire[c].reply.status # "refused"

Sound(c) == Shape(c) /\ Once(c) /\ Bound(c)

IInv == TypeOK /\ CookiesInStep /\ RefusedWasDisturbed /\ \A c \in Calls : Sound(c)
-----------------------------------------------------------------------------
(* Types *)

LEMMA QuietIsWire == Quiet \in Wire /\ Bare \in Reply /\ Idle \in Call
  BY DEF Quiet, Wire, Bare, Reply, Idle, Call, Kinds, Steps

\* The token minted for a request that somebody awaits.
LEMMA MintedIsToken ==
    ASSUME TypeOK, NEW c \in Calls, call[c].step \in {"health", "send"},
           NEW s \in Sids \cup {None}
    PROVE  /\ Minted(c, s) \in Token /\ Minted(c, s) # None
           /\ Minted(c, s).sid = s /\ Minted(c, s).key = key
  <1>1. call[c].tries \in {0, 1} /\ key \in 0..MaxKey
    BY CsrfAssumption DEF TypeOK, Call
  <1>2. <<c, call[c].tries, call[c].step>> \in Nonce
    BY <1>1 DEF Nonce
  <1>3. Minted(c, s) \in Token
    BY <1>1, <1>2 DEF Minted, Token
  <1> QED BY <1>3, TokenAssumption DEF Minted

\* What a safe request is answered with: a token good for the cookies it was sent with.
LEMMA EnsuredIsGood ==
    ASSUME TypeOK, NEW c \in Calls, call[c].step \in {"health", "send"}
    PROVE  /\ Ensured(c) \in Reply /\ Ensured(c).status = "error"
           /\ Ensured(c).cookies \in {"keep", "token"}
           /\ Ensured(c).cookies = "keep" => Verify(wire[c].token, wire[c].sid)
           /\ Ensured(c).cookies = "token" => Verify(Ensured(c).token, wire[c].sid)
  <1>1. wire[c].sid \in Sids \cup {None}
    BY DEF TypeOK, Wire
  <1>2. CASE StillGood(wire[c].token, wire[c].sid)
    <2>1. Ensured(c) = Bare
      BY <1>2 DEF Ensured
    <2> QED BY <1>2, <2>1, QuietIsWire DEF StillGood, Bare
  <1>3. CASE ~StillGood(wire[c].token, wire[c].sid)
    <2>1. Ensured(c) = [Bare EXCEPT !.cookies = "token", !.token = Minted(c, wire[c].sid)]
      BY <1>3 DEF Ensured
    <2>2. /\ Minted(c, wire[c].sid) \in Token /\ Minted(c, wire[c].sid) # None
          /\ Minted(c, wire[c].sid).sid = wire[c].sid /\ Minted(c, wire[c].sid).key = key
      BY <1>1, MintedIsToken
    <2> QED BY <2>1, <2>2 DEF Bare, Reply, Verify
  <1> QED BY <1>2, <1>3

-----------------------------------------------------------------------------
(* One lemma per step: it keeps IInv *)

\* A call that takes no step stays sound: what changes under it marks it as late.
LEMMA OthersKeep ==
    ASSUME IInv, NEW d \in Calls,
           call'[d] = call[d], wire'[d] = wire[d], runs'[d] = runs[d],
           d \in late => d \in late',
           (jar' = jar /\ key' = key) \/ (Under(d) => d \in late')
    PROVE  Sound(d)' /\ (call'[d].told = "refused" => d \in late')
  <1>1. Sound(d) /\ (call[d].told = "refused" => d \in late)
    BY DEF IInv, RefusedWasDisturbed
  <1>2. Shape(d)' /\ Once(d)'
    BY <1>1 DEF Sound, Shape, Once, Under
  <1>3. Bound(d)'
    BY <1>1 DEF Sound, Bound, Under, JarGood, Verify, Safe
  <1> QED BY <1>1, <1>2, <1>3 DEF Sound

\* It is enough to look at the call that takes the step.
LEMMA OneMoves ==
    ASSUME IInv, TypeOK', CookiesInStep', NEW c \in Calls,
           Sound(c)', call'[c].told = "refused" => c \in late',
           \A d \in Calls \ {c} :
              /\ call'[d] = call[d] /\ wire'[d] = wire[d] /\ runs'[d] = runs[d]
              /\ d \in late => d \in late'
              /\ (jar' = jar /\ key' = key) \/ (Under(d) => d \in late')
    PROVE  IInv'
  <1>1. \A d \in Calls \ {c} : Sound(d)' /\ (call'[d].told = "refused" => d \in late')
    BY OthersKeep
  <1> QED BY <1>1 DEF IInv, RefusedWasDisturbed

LEMMA InitKeeps == Init => IInv
  <1> SUFFICES ASSUME Init PROVE IInv
    OBVIOUS
  <1> USE CsrfAssumption
  <1>1. TypeOK
    <2>1. OldToken(0) \in Token /\ OldToken(1) \in Token
      BY DEF OldToken, Token, Sids, Nonce
    <2>2. jar \in [sid : Sids \cup {None}, token : Token \cup {None}]
      BY <2>1 DEF Init, Sids
    <2>3. key \in 1..MaxKey
      BY DEF Init
    <2>4. call \in [Calls -> Call] /\ wire \in [Calls -> Wire]
      BY QuietIsWire DEF Init
    <2>5. runs \in [Calls -> {0, 1}] /\ late \subseteq Calls /\ slip \in BOOLEAN
      BY DEF Init
    <2> QED BY <2>2, <2>3, <2>4, <2>5 DEF TypeOK
  <1>2. CookiesInStep
    BY DEF Init, CookiesInStep, OldToken
  <1>3. RefusedWasDisturbed
    BY DEF Init, RefusedWasDisturbed, Idle
  <1>4. ASSUME NEW c \in Calls PROVE Sound(c)
    BY <1>4 DEF Init, Sound, Shape, Once, Bound, Under, Idle, Quiet
  <1> QED BY <1>1, <1>2, <1>3, <1>4 DEF IInv

\* A tab sends a request, or reads the jar and goes on to.
LEMMA StartKeeps ==
    ASSUME IInv, NEW c \in Calls, Start(c)
    PROVE  IInv'
  <1>1. PICK kind \in Kinds :
          call' = [call EXCEPT ![c] =
             IF kind = "get" THEN [call[c] EXCEPT !.kind = kind, !.told = "pending", !.step = "send"]
             ELSE EnsureCsrfToken([call[c] EXCEPT !.kind = kind, !.told = "pending"], FALSE)]
    BY DEF Start
  <1>2. call[c] \in Call /\ jar.token \in Token \cup {None} /\ call[c].step = "idle"
    BY DEF IInv, TypeOK, Start
  <1>3. /\ call'[c] \in Call
        /\ call'[c].step \in {"health", "send"} /\ call'[c].told = "pending"
        /\ call'[c].tries = call[c].tries
    BY <1>1, <1>2 DEF EnsureCsrfToken, Call, Steps, IInv, TypeOK
  <1>4. TypeOK' /\ CookiesInStep'
    BY <1>1, <1>3 DEF IInv, TypeOK, CookiesInStep, Start
  <1>5. Sound(c)
    BY DEF IInv
  <1>6. wire[c].at = "none" /\ wire[c] \in Wire /\ runs[c] = 0
    BY <1>2, <1>5 DEF Sound, Shape, Once, IInv, TypeOK, Wire
  <1>7. call[c].tries = 0
    BY <1>2, <1>5 DEF Sound, Shape
  <1>8. Sound(c)'
    <2>1. wire'[c].at = "none" /\ runs'[c] = 0
      BY <1>6 DEF Start
    <2>2. Shape(c)' /\ Once(c)'
      BY <1>3, <2>1 DEF Shape, Once, Under
    <2>3. Bound(c)'
      BY <1>3, <1>7, <2>1 DEF Bound, Under
    <2> QED BY <2>2, <2>3 DEF Sound
  <1> QED BY <1>1, <1>3, <1>4, <1>8, OneMoves DEF Start, IInv, TypeOK

LEMMA TransmitKeeps ==
    ASSUME IInv, NEW c \in Calls, Transmit(c)
    PROVE  IInv'
  <1>1. /\ call[c] \in Call /\ jar \in [sid : Sids \cup {None}, token : Token \cup {None}]
        /\ wire \in [Calls -> Wire] /\ call[c].step \in {"health", "send"} /\ wire[c].at = "none"
    BY DEF IInv, TypeOK, Transmit
  <1>2. /\ wire'[c] \in Wire
        /\ wire'[c].at = "out" /\ wire'[c].sid = jar.sid /\ wire'[c].token = jar.token
    BY <1>1, QuietIsWire DEF Transmit, Wire, Quiet
  <1>3. TypeOK' /\ CookiesInStep'
    BY <1>1, <1>2 DEF IInv, TypeOK, CookiesInStep, Transmit
  <1>4. Sound(c)
    BY DEF IInv
  <1>5. Sound(c)'
    <2>1. call' = call /\ runs' = runs /\ jar' = jar /\ key' = key
      BY DEF Transmit
    <2>2. Shape(c)' /\ Once(c)'
      BY <1>1, <1>2, <1>4, <2>1 DEF Sound, Shape, Once, Under, IInv, TypeOK
    <2>3. call[c].step = "send" /\ call[c].tries = 1 => (c \in late' <=> c \in late)
      BY DEF Transmit
    <2>4. Bound(c)'
      BY <1>1, <1>2, <1>4, <2>1, <2>3 DEF Sound, Bound, Under, JarGood, Verify
    <2> QED BY <2>2, <2>4 DEF Sound
  <1>6. call'[c].told # "refused"
    BY <1>1, <1>4 DEF Sound, Shape, Under, Transmit
  <1> QED BY <1>1, <1>3, <1>5, <1>6, OneMoves DEF Transmit

LEMMA ReadKeeps ==
    ASSUME IInv, NEW c \in Calls, Read(c)
    PROVE  IInv'
  <1>1. /\ call[c] \in Call /\ jar \in [sid : Sids \cup {None}, token : Token \cup {None}]
        /\ call \in [Calls -> Call] /\ call[c].step = "read"
    BY DEF IInv, TypeOK, Read
  <1>2. Sound(c) /\ wire[c] \in Wire
    BY DEF IInv, TypeOK
  <1>3. wire[c].at = "none" /\ call[c].told = "pending" /\ runs[c] = 0
    BY <1>1, <1>2 DEF Sound, Shape, Once, Under, Wire, IInv, TypeOK
  <1>4. CASE jar.token # None
    <2>1. call'[c] = [call[c] EXCEPT !.hdr = jar.token, !.step = "send"]
      BY <1>1, <1>4 DEF Read
    <2>2. call'[c] \in Call
      BY <1>1, <1>4, <2>1 DEF Call, Steps
    <2>3. TypeOK' /\ CookiesInStep'
      BY <1>1, <2>2 DEF IInv, TypeOK, CookiesInStep, Read
    <2>4. Sound(c)'
      BY <1>1, <1>2, <1>3, <2>1 DEF Sound, Shape, Once, Bound, Under, Read, JarGood, Verify, Call
    <2>5. call'[c].told # "refused"
      BY <1>1, <1>3, <2>1 DEF Call
    <2> QED BY <2>3, <2>4, <2>5, OneMoves DEF Read, IInv, TypeOK
  <1>5. CASE jar.token = None
    <2>1. call'[c] = Ended(call[c], "failed")
      BY <1>1, <1>5 DEF Read
    <2>2. call'[c] \in Call /\ call'[c].step = "end" /\ call'[c].told = "failed"
      BY <2>1, QuietIsWire DEF Ended, Idle, Call, Steps
    <2>3. TypeOK' /\ CookiesInStep'
      BY <1>1, <2>2 DEF IInv, TypeOK, CookiesInStep, Read
    <2>4. Sound(c)'
      BY <1>2, <1>3, <2>2 DEF Sound, Shape, Once, Bound, Under, Read
    <2> QED BY <2>2, <2>3, <2>4, OneMoves DEF Read, IInv, TypeOK
  <1> QED BY <1>4, <1>5

\* The cookies of an answer that reaches the jar keep it in step, or slip says why not.
LEMMA LandedInStep ==
    ASSUME IInv, NEW c \in Calls, Receive(c)
    PROVE  /\ jar' \in [sid : Sids \cup {None}, token : Token \cup {None}]
           /\ slip' \in BOOLEAN /\ CookiesInStep'
           /\ Under(c) /\ c \notin late /\ call[c].step = "health" => Verify(jar'.token, jar'.sid)
  <1> DEFINE r == wire[c].reply
  <1>1. /\ r \in Reply /\ wire[c].at = "back" /\ jar \in [sid : Sids \cup {None}, token : Token \cup {None}]
        /\ call[c].step \in {"health", "send"} /\ Bound(c) /\ late \subseteq Calls
    BY DEF IInv, TypeOK, Receive, Wire, Sound, Shape
  <1>2. jar' = Landed(r)
    BY DEF Receive
  <1>3. CASE r.cookies = "both"
    <2>1. jar' = [sid |-> r.sid, token |-> r.token] /\ slip' = FALSE
      BY <1>2, <1>3 DEF Landed, Receive
    <2>2. r.token # None /\ r.token.sid = r.sid /\ call[c].step = "send"
      BY <1>1, <1>3 DEF Bound
    <2> QED BY <1>1, <2>1, <2>2 DEF CookiesInStep, Reply
  <1>4. CASE r.cookies = "token"
    <2>1. jar' = [sid |-> jar.sid, token |-> r.token] /\ slip' = (c \in late)
      BY <1>2, <1>4 DEF Landed, Receive
    <2>2. c \notin late => Verify(r.token, jar.sid)
      BY <1>1, <1>4 DEF Bound, Under
    <2>3. jar' \in [sid : Sids \cup {None}, token : Token \cup {None}]
      BY <1>1, <2>1 DEF Reply
    <2>4. jar'.token = r.token /\ jar'.sid = jar.sid
      BY <2>1
    <2>5. CookiesInStep'
      BY <2>1, <2>2, <2>4 DEF CookiesInStep, Verify
    <2>6. slip' \in BOOLEAN
      BY <2>1
    <2> QED BY <2>2, <2>3, <2>4, <2>5, <2>6
  <1>5. CASE r.cookies = "keep"
    <2>1. /\ jar' = jar
          /\ slip' = (slip /\ (c \in late \/ ~Safe(c) \/ r.status # "ok"))
      BY <1>2, <1>5 DEF Landed, Receive
    <2>2. c \notin late /\ Safe(c) /\ r.status = "ok" => Verify(jar.token, jar.sid)
      BY <1>1, <1>5 DEF Bound, Under, JarGood
    <2>3. c \notin late /\ call[c].step = "health" => r.status = "ok" /\ Safe(c)
      BY <1>1 DEF Bound, Under, Safe
    <2>4. slip \in BOOLEAN /\ CookiesInStep
      BY DEF IInv, TypeOK
    <2>5. slip' \in BOOLEAN
      BY <2>1, <2>4
    <2>6. CookiesInStep'
      BY <2>1, <2>2, <2>4 DEF CookiesInStep, Verify
    <2> QED BY <1>1, <2>1, <2>2, <2>3, <2>5, <2>6
  <1> QED BY <1>1, <1>3, <1>4, <1>5 DEF Reply

\* What a tab goes on with after an answer: reading the jar, a retry, or its end.
LEMMA AfterAnswer ==
    ASSUME TypeOK, NEW c \in Calls, Receive(c), call[c].step \in {"health", "send"}
    PROVE  /\ call'[c] \in Call
           /\ \/ call[c].step = "health" /\ call'[c] = [call[c] EXCEPT !.step = "read"]
              \/ /\ call[c].step = "send"
                 /\ wire[c].reply.status = "refused" /\ call[c].kind # "get" /\ call[c].tries = 0
                 /\ call'[c] = [call[c] EXCEPT !.tries = 1, !.step = "health"]
              \/ /\ call[c].step = "send"
                 /\ wire[c].reply.status = "refused" => call[c].kind = "get" \/ call[c].tries = 1
                 /\ call'[c].step = "end" /\ call'[c].told = wire[c].reply.status
  <1>1. /\ call[c] \in Call /\ wire[c].reply.status \in {"ok", "error", "refused"}
        /\ call'[c] = After(call[c], wire[c].reply.status)
    BY DEF TypeOK, Receive, Wire, Reply
  <1>2. CASE call[c].step = "health"
    BY <1>1, <1>2 DEF After, Call, Steps
  <1>3. CASE /\ call[c].step = "send" /\ wire[c].reply.status = "refused"
             /\ call[c].kind # "get" /\ call[c].tries = 0
    <2>1. call'[c] = [call[c] EXCEPT !.tries = 1, !.step = "health"]
      BY <1>1, <1>3 DEF After, Retry, EnsureCsrfToken
    <2> QED BY <1>1, <1>3, <2>1 DEF Call, Steps
  <1>4. CASE /\ call[c].step = "send"
             /\ wire[c].reply.status = "refused" => call[c].kind = "get" \/ call[c].tries = 1
    <2>1. call'[c] = Ended(call[c], wire[c].reply.status)
      BY <1>1, <1>4 DEF After
    <2>2. call'[c] = [Idle EXCEPT !.step = "end", !.told = wire[c].reply.status]
      BY <2>1 DEF Ended
    <2>3. call'[c] \in Call /\ call'[c].step = "end" /\ call'[c].told = wire[c].reply.status
      BY <1>1, <2>2 DEF Idle, Call, Steps, Kinds
    <2> QED BY <1>4, <2>3
  <1> QED BY <1>1, <1>2, <1>3, <1>4 DEF Call

LEMMA ReceiveKeeps ==
    ASSUME IInv, NEW c \in Calls, Receive(c)
    PROVE  IInv'
  <1>1. /\ wire[c].at = "back" /\ Sound(c) /\ call[c] \in Call /\ wire \in [Calls -> Wire]
        /\ call \in [Calls -> Call] /\ wire[c].reply.status \in {"ok", "error", "refused"}
    BY DEF IInv, TypeOK, Receive, Wire, Reply
  <1>2. call[c].step \in {"health", "send"} /\ Under(c) /\ call[c].told = "pending"
    BY <1>1 DEF Sound, Shape, Under
  <1>3. wire'[c] = Quiet /\ wire'[c].at = "none" /\ runs' = runs /\ key' = key
    BY <1>1 DEF Receive, Quiet
  <1>4. c \in late' <=> c \in late
    BY DEF Receive
  <1>5. TypeOK' /\ CookiesInStep'
    <2>1. call' \in [Calls -> Call]
      BY <1>1, <1>2, AfterAnswer DEF Receive, IInv
    <2>2. wire' \in [Calls -> Wire]
      BY <1>1, QuietIsWire DEF Receive
    <2>3. late' \subseteq Calls
      BY DEF Receive, IInv, TypeOK, Active
    <2> QED BY <1>3, <2>1, <2>2, <2>3, LandedInStep DEF IInv, TypeOK
  <1>6. /\ Sound(c)'
        /\ call'[c].told = "refused" => c \in late'
    <2>1. CASE call[c].step = "health" /\ call'[c] = [call[c] EXCEPT !.step = "read"]
      <3>1. call'[c].step = "read" /\ call'[c].told = "pending"
        BY <1>1, <1>2, <2>1 DEF Call
      <3>2. c \notin late => JarGood'
        BY <1>2, <1>3, <2>1, LandedInStep DEF JarGood, Verify
      <3>3. runs[c] = 0
        BY <1>1, <2>1 DEF Sound, Once, IInv, TypeOK
      <3> QED BY <1>3, <1>4, <3>1, <3>2, <3>3 DEF Sound, Shape, Once, Bound, Under
    <2>2. CASE /\ call[c].step = "send"
               /\ wire[c].reply.status = "refused" /\ call[c].kind # "get" /\ call[c].tries = 0
               /\ call'[c] = [call[c] EXCEPT !.tries = 1, !.step = "health"]
      <3>1. call'[c].step = "health" /\ call'[c].told = "pending"
        BY <1>1, <1>2, <2>2 DEF Call
      <3>2. runs[c] = 0
        BY <1>1, <2>2 DEF Sound, Once
      <3> QED BY <1>3, <3>1, <3>2 DEF Sound, Shape, Once, Bound, Under
    <2>3. CASE /\ call[c].step = "send"
               /\ wire[c].reply.status = "refused" => call[c].kind = "get" \/ call[c].tries = 1
               /\ call'[c].step = "end" /\ call'[c].told = wire[c].reply.status
      <3>1. Sound(c)'
        BY <1>1, <1>3, <2>3 DEF Sound, Shape, Once, Bound, Under
      <3>2. call'[c].told = "refused" => c \in late
        BY <1>1, <1>2, <2>3 DEF Sound, Once, Bound
      <3> QED BY <1>4, <3>1, <3>2
    <2> QED BY <1>2, <2>1, <2>2, <2>3, AfterAnswer DEF IInv
  <1>7. \A d \in Calls \ {c} :
          /\ call'[d] = call[d] /\ wire'[d] = wire[d] /\ runs'[d] = runs[d]
          /\ d \in late => d \in late'
          /\ (jar' = jar /\ key' = key) \/ (Under(d) => d \in late')
    BY <1>1, <1>3 DEF Receive, Active, Under
  <1> QED BY <1>5, <1>6, <1>7, OneMoves

LEMMA FailKeeps ==
    ASSUME IInv, NEW c \in Calls, Fail(c)
    PROVE  IInv'
  <1>1. /\ Sound(c) /\ call[c] \in Call /\ wire \in [Calls -> Wire] /\ call \in [Calls -> Call]
        /\ wire[c].at # "none" /\ call[c].step # "end"
    BY DEF IInv, TypeOK, Fail
  <1>2. call[c].step \in {"health", "send"} /\ call[c].told = "pending"
    BY <1>1 DEF Sound, Shape, Under
  <1>3. /\ call'[c] \in Call /\ call'[c].step = "end" /\ call'[c].told = "failed"
        /\ (wire'[c] = wire[c] /\ wire[c].at = "out") \/ wire'[c] = Quiet
    <2>1. CASE call[c].step = "send" /\ wire[c].at = "out"
      <3>1. call'[c] = [call[c] EXCEPT !.step = "end", !.told = "failed"] /\ wire'[c] = wire[c]
        BY <1>1, <2>1 DEF Fail, Rejected
      <3> QED BY <1>1, <2>1, <3>1 DEF Call, Steps
    <2>2. CASE ~(call[c].step = "send" /\ wire[c].at = "out")
      <3>1. call'[c] = [Idle EXCEPT !.step = "end", !.told = "failed"] /\ wire'[c] = Quiet
        BY <1>1, <2>2 DEF Fail, Rejected, Ended
      <3> QED BY <3>1 DEF Idle, Call, Steps, Kinds
    <2> QED BY <2>1, <2>2
  <1>4. wire'[c].at \in {"none", "out"} /\ (wire'[c].at = "out" => runs[c] = 0)
    BY <1>1, <1>3 DEF Quiet, Sound, Once
  <1>5. TypeOK' /\ CookiesInStep'
    <2>1. call' \in [Calls -> Call] /\ wire' \in [Calls -> Wire]
      BY <1>1, <1>3, QuietIsWire DEF Fail
    <2> QED BY <2>1 DEF IInv, TypeOK, CookiesInStep, Fail
  <1>6. Sound(c)'
    BY <1>3, <1>4 DEF Sound, Shape, Once, Bound, Under, Fail
  <1> QED BY <1>3, <1>5, <1>6, OneMoves DEF Fail, IInv, TypeOK

\* What the server may answer, and count as run.
Fitting(c, r) ==
    /\ r \in Reply
    /\ runs' = runs \/ (call[c].step # "health" /\ runs' = [runs EXCEPT ![c] = 1])
    /\ late' = late \/ late' = late \cup {c}
    /\ call[c].step = "health" => r.status # "refused"
    /\ call[c].step = "send" => /\ r.status = "ok" => runs'[c] = 1
                                /\ r.status = "refused" => runs'[c] = 0 /\ call[c].kind # "get"
    /\ r.cookies = "both" => /\ call[c].step = "send"
                             /\ r.token # None /\ r.token.sid = r.sid
    /\ Under(c) /\ c \notin late' =>
          /\ r.cookies = "token" => Verify(r.token, jar.sid)
          /\ r.cookies = "keep" /\ r.status = "ok" /\ Safe(c) => JarGood
          /\ call[c].step = "health" => r.status = "ok"
          /\ call[c].step = "send" /\ call[c].tries = 1 => r.status # "refused"

LEMMA ServedKeeps ==
    ASSUME IInv, NEW c \in Calls, wire[c].at = "out", UNCHANGED <<jar, key, call, slip>>,
           NEW r, Replied(c, r), call[c].step # "end" => Fitting(c, r),
           call[c].step = "end" => /\ runs' = runs \/ runs' = [runs EXCEPT ![c] = 1]
                                   /\ late' = late \/ late' = late \cup {c}
    PROVE  IInv'
  <1>1. /\ Sound(c) /\ call[c] \in Call /\ wire \in [Calls -> Wire] /\ runs \in [Calls -> {0, 1}]
        /\ late \subseteq Calls /\ runs[c] = 0
        /\ call[c].told = "refused" => c \in late
    BY DEF IInv, TypeOK, Sound, Once, RefusedWasDisturbed
  <1>2. call[c].step \in {"health", "send", "end"}
    BY <1>1 DEF Sound, Shape
  <1>3. runs' = runs \/ runs' = [runs EXCEPT ![c] = 1]
    BY <1>2 DEF Fitting
  <1>4. late' = late \/ late' = late \cup {c}
    BY <1>2 DEF Fitting
  <1>5. wire' \in [Calls -> Wire] /\ \A d \in Calls \ {c} : wire'[d] = wire[d]
    <2>1. CASE call[c].step = "end"
      BY <1>1, <2>1, QuietIsWire DEF Replied
    <2>2. CASE call[c].step # "end"
      <3>1. [Quiet EXCEPT !.at = "back", !.reply = r] \in Wire
        BY <2>2, QuietIsWire DEF Fitting, Wire
      <3> QED BY <1>1, <2>2, <3>1 DEF Replied
    <2> QED BY <2>1, <2>2
  <1>6. runs' \in [Calls -> {0, 1}] /\ \A d \in Calls \ {c} : runs'[d] = runs[d]
    BY <1>1, <1>3
  <1>7. TypeOK' /\ CookiesInStep'
    BY <1>1, <1>4, <1>5, <1>6 DEF IInv, TypeOK, CookiesInStep
  <1>8. Sound(c)'
    <2>1. CASE call[c].step = "end"
      <3>1. wire'[c].at = "none" /\ call[c].told = "failed"
        BY <1>1, <2>1 DEF Replied, Quiet, Sound, Shape
      <3> QED BY <1>1, <2>1, <3>1 DEF Sound, Shape, Once, Bound, Under
    <2>2. CASE call[c].step # "end"
      <3>1. wire'[c].at = "back" /\ wire'[c].reply = r
        BY <1>1, <2>2 DEF Replied, Quiet
      <3>2. Shape(c)'
        BY <1>1, <1>2, <2>2, <3>1 DEF Sound, Shape, Under
      <3>3. Once(c)'
        BY <1>1, <1>2, <2>2, <3>1 DEF Sound, Shape, Once, Under, Fitting
      <3>4. Bound(c)'
        BY <1>2, <2>2, <3>1 DEF Bound, Under, Fitting, JarGood, Verify, Safe
      <3> QED BY <3>2, <3>3, <3>4 DEF Sound
    <2> QED BY <2>1, <2>2
  <1>9. call'[c].told = "refused" => c \in late'
    BY <1>1, <1>4
  <1> QED BY <1>4, <1>5, <1>6, <1>7, <1>8, <1>9, OneMoves

LEMMA HealthKeeps ==
    ASSUME IInv, NEW c \in Calls, wire[c].at = "out", Health(c), UNCHANGED <<jar, key, call, slip>>
    PROVE  IInv'
  <1> DEFINE r == [Ensured(c) EXCEPT !.status = "ok"]
  <1>1. call[c].step = "health" /\ Replied(c, r) /\ UNCHANGED <<runs, late>>
    BY DEF Health
  <1>2. /\ Ensured(c) \in Reply /\ Ensured(c).cookies \in {"keep", "token"}
        /\ Ensured(c).cookies = "keep" => Verify(wire[c].token, wire[c].sid)
        /\ Ensured(c).cookies = "token" => Verify(Ensured(c).token, wire[c].sid)
    BY <1>1, EnsuredIsGood DEF IInv
  <1>3. /\ r \in Reply /\ r.status = "ok" /\ r.cookies = Ensured(c).cookies
        /\ r.token = Ensured(c).token
    BY <1>2 DEF Reply
  <1>4. c \notin late => wire[c].sid = jar.sid /\ wire[c].token = jar.token
    BY <1>1 DEF IInv, Sound, Bound, Under
  <1>5. Fitting(c, r)
    BY <1>1, <1>2, <1>3, <1>4 DEF Fitting, JarGood
  <1> QED BY <1>1, <1>5, ServedKeeps

LEMMA RefuseKeeps ==
    ASSUME IInv, NEW c \in Calls, wire[c].at = "out", Refuse(c), UNCHANGED <<jar, key, call, slip>>
    PROVE  IInv'
  <1> DEFINE r == [Bare EXCEPT !.status = "refused"]
  <1>1. /\ Replied(c, r) /\ UNCHANGED <<runs, late>> /\ ~Admitted(c)
        /\ call[c].step # "health" /\ call[c].kind # "get"
    BY DEF Refuse, Safe
  <1>2. r \in Reply /\ r.status = "refused" /\ r.cookies = "keep"
    BY QuietIsWire DEF Bare, Reply
  <1>3. runs[c] = 0
    BY DEF IInv, Sound, Once
  <1>4. call[c].step = "send" /\ call[c].tries = 1 => c \in late
    <2> SUFFICES ASSUME call[c].step = "send", call[c].tries = 1, c \notin late
                 PROVE  Admitted(c)
      BY <1>1
    <2>1. /\ wire[c].sid = jar.sid /\ wire[c].token = jar.token
          /\ Verify(jar.token, jar.sid) /\ call[c].hdr = jar.token
      BY DEF IInv, Sound, Bound, Under, JarGood
    <2> QED BY <2>1 DEF Admitted, Verify
  <1>5. Fitting(c, r)
    BY <1>1, <1>2, <1>3, <1>4 DEF Fitting, Safe
  <1> QED BY <1>1, <1>5, ServedKeeps

LEMMA BadGatewayKeeps ==
    ASSUME IInv, NEW c \in Calls, wire[c].at = "out", BadGateway(c),
           UNCHANGED <<jar, key, call, slip>>
    PROVE  IInv'
  <1>1. /\ Replied(c, Bare) /\ runs' = runs
        /\ late' = IF call[c].step = "health" THEN late \cup {c} ELSE late
    BY DEF BadGateway
  <1>2. Bare \in Reply /\ Bare.status = "error" /\ Bare.cookies = "keep"
    BY QuietIsWire DEF Bare
  <1>3. Fitting(c, Bare)
    BY <1>1, <1>2 DEF Fitting
  <1> QED BY <1>1, <1>3, ServedKeeps

LEMMA PassKeeps ==
    ASSUME IInv, NEW c \in Calls, wire[c].at = "out", Pass(c), UNCHANGED <<jar, key, call, slip>>
    PROVE  IInv'
  <1>1. /\ call[c].step # "health" /\ late' = late /\ call[c] \in Call
        /\ runs \in [Calls -> {0, 1}] /\ runs[c] = 0
    BY DEF Pass, IInv, TypeOK, Sound, Once
  <1>2. \/ Replied(c, Failure(c)) /\ runs' = runs
        \/ runs' = [runs EXCEPT ![c] = 1] /\ (Replied(c, Failure(c)) \/ Replied(c, Success(c)))
    BY <1>1 DEF Pass
  <1>3. ASSUME call[c].step # "end", runs' = runs \/ runs' = [runs EXCEPT ![c] = 1]
        PROVE  Fitting(c, Failure(c))
    <2>1. call[c].step = "send"
      BY <1>1, <1>3 DEF IInv, Sound, Shape
    <2>2. c \notin late => wire[c].sid = jar.sid /\ wire[c].token = jar.token
      BY <2>1 DEF IInv, Sound, Bound, Under
    <2>3. /\ Failure(c) \in Reply /\ Failure(c).status = "error"
          /\ Failure(c).cookies \in {"keep", "token"}
          /\ Failure(c).cookies = "token" => Verify(Failure(c).token, wire[c].sid)
      BY <2>1, EnsuredIsGood, QuietIsWire DEF Failure, Bare, IInv
    <2> QED BY <1>1, <1>3, <2>1, <2>2, <2>3 DEF Fitting
  <1>4. ASSUME call[c].step # "end", runs' = [runs EXCEPT ![c] = 1]
        PROVE  Fitting(c, Success(c))
    <2>1. call[c].step = "send" /\ runs'[c] = 1
      BY <1>1, <1>4 DEF IInv, Sound, Shape
    <2>2. c \notin late => wire[c].sid = jar.sid /\ wire[c].token = jar.token
      BY <2>1 DEF IInv, Sound, Bound, Under
    <2>3. ASSUME NEW s \in {c, None}
          PROVE  LET r == [status |-> "ok", cookies |-> "both", sid |-> s, token |-> Minted(c, s)]
                 IN r \in Reply /\ r.token # None /\ r.token.sid = r.sid
      <3>1. s \in Sids \cup {None}
        BY DEF Sids
      <3>2. Minted(c, s) \in Token /\ Minted(c, s) # None /\ Minted(c, s).sid = s
        BY <2>1, <3>1, MintedIsToken DEF IInv
      <3> QED BY <3>1, <3>2 DEF Reply
    <2>4. CASE call[c].kind \in {"login", "logout"}
      <3>1. /\ Success(c) \in Reply /\ Success(c).token # None
            /\ Success(c).token.sid = Success(c).sid
            /\ Success(c).status = "ok" /\ Success(c).cookies = "both"
        BY <2>3, <2>4 DEF Success, SignedIn, SignedOut
      <3> QED BY <1>1, <1>4, <2>1, <3>1 DEF Fitting
    <2>5. CASE call[c].kind = "post"
      <3>1. Success(c) = [Bare EXCEPT !.status = "ok"]
        BY <2>5 DEF Success
      <3>2. Success(c) \in Reply /\ Success(c).status = "ok" /\ Success(c).cookies = "keep"
        BY <3>1, QuietIsWire DEF Bare, Reply
      <3>3. ~Safe(c)
        BY <2>1, <2>5 DEF Safe
      <3> QED BY <1>1, <1>4, <2>1, <3>2, <3>3 DEF Fitting
    <2>6. CASE call[c].kind = "get"
      <3>1. Success(c) = [Ensured(c) EXCEPT !.status = "ok"]
        BY <2>6 DEF Success
      <3>2. /\ Ensured(c) \in Reply /\ Ensured(c).cookies \in {"keep", "token"}
            /\ Ensured(c).cookies = "keep" => Verify(wire[c].token, wire[c].sid)
            /\ Ensured(c).cookies = "token" => Verify(Ensured(c).token, wire[c].sid)
        BY <2>1, EnsuredIsGood DEF IInv
      <3>3. /\ Success(c) \in Reply /\ Success(c).status = "ok"
            /\ Success(c).cookies = Ensured(c).cookies /\ Success(c).token = Ensured(c).token
        BY <3>1, <3>2 DEF Reply
      <3> QED BY <1>1, <1>4, <2>1, <2>2, <3>2, <3>3 DEF Fitting, JarGood
    <2> QED BY <1>1, <2>4, <2>5, <2>6 DEF Call, Kinds
  <1> QED BY <1>1, <1>2, <1>3, <1>4, ServedKeeps

LEMMA ServeKeeps ==
    ASSUME IInv, NEW c \in Calls, Serve(c)
    PROVE  IInv'
  BY HealthKeeps, RefuseKeeps, PassKeeps, BadGatewayKeeps DEF Serve

\* The jar or the key changes under every call: each one under way becomes late.
LEMMA EnvironmentKeeps ==
    ASSUME IInv, ExpireCookie \/ Restart
    PROVE  IInv'
  <1>1. /\ UNCHANGED <<call, wire, runs>> /\ late' = late \cup Active
        /\ jar \in [sid : Sids \cup {None}, token : Token \cup {None}]
    BY DEF ExpireCookie, Restart, IInv, TypeOK
  <1>2. TypeOK' /\ CookiesInStep'
    <2>1. CASE ExpireCookie
      <3>1. jar' \in [sid : Sids \cup {None}, token : Token \cup {None}]
        BY <1>1, <2>1 DEF ExpireCookie
      <3> QED BY <1>1, <2>1, <3>1 DEF ExpireCookie, IInv, TypeOK, CookiesInStep, Active
    <2>2. CASE Restart
      BY <1>1, <2>2, CsrfAssumption DEF Restart, IInv, TypeOK, CookiesInStep, Active
    <2> QED BY <2>1, <2>2
  <1>3. \A d \in Calls : Sound(d)' /\ (call'[d].told = "refused" => d \in late')
    <2>1. \A d \in Calls : Under(d) => d \in late'
      BY <1>1 DEF Active, Under
    <2> QED BY <1>1, <2>1, OthersKeep
  <1> QED BY <1>2, <1>3 DEF IInv, RefusedWasDisturbed

LEMMA NextKeeps ==
    ASSUME IInv, [Next]_vars
    PROVE  IInv'
  <1>1. CASE UNCHANGED vars
    <2>1. \A d \in Calls : Sound(d)' /\ (call'[d].told = "refused" => d \in late')
      BY <1>1, OthersKeep DEF vars
    <2>2. TypeOK' /\ CookiesInStep'
      BY <1>1 DEF vars, IInv, TypeOK, CookiesInStep
    <2> QED BY <2>1, <2>2 DEF IInv, RefusedWasDisturbed
  <1>2. CASE \E c \in Calls : Start(c) \/ CallStep(c) \/ Fail(c)
    BY <1>2, StartKeeps, TransmitKeeps, ServeKeeps, ReceiveKeeps, ReadKeeps, FailKeeps
    DEF CallStep
  <1>3. CASE ExpireCookie \/ Restart
    BY <1>3, EnvironmentKeeps
  <1> QED BY <1>1, <1>2, <1>3 DEF Next

-----------------------------------------------------------------------------
(* The theorems *)

\* In every state reached, each call is sound.
THEOREM Invariance == Spec => []IInv
  <1>1. IInv /\ [Next]_vars => IInv'
    BY NextKeeps
  <1> QED BY <1>1, InitKeeps, PTL DEF Spec

\* The state stays well formed, and no endpoint runs twice for one call.
THEOREM TypeCorrect == Spec => []TypeOK
  <1>1. IInv => TypeOK
    BY DEF IInv
  <1> QED BY <1>1, Invariance, PTL

\* The two cookies of the jar belong together, or an answer has landed late
\* (session.go EnsureCSRFToken, service/auth.go Authenticate and Logout).
THEOREM CookiesStayInStep == Spec => []CookiesInStep
  <1>1. IInv => CookiesInStep
    BY DEF IInv
  <1> QED BY <1>1, Invariance, PTL

\* A 403 reaches the user only after something disturbed the retry (api.ts request).
THEOREM RefusalsWereDisturbed == Spec => []RefusedWasDisturbed
  <1>1. IInv => RefusedWasDisturbed
    BY DEF IInv
  <1> QED BY <1>1, Invariance, PTL

-----------------------------------------------------------------------------
(* Refinement *)

Outcome == [c \in Calls |-> call[c].told]

LEMMA OutcomeChanges ==
    ASSUME NEW c \in Calls, \A d \in Calls \ {c} : call'[d] = call[d]
    PROVE  Outcome' = [Outcome EXCEPT ![c] = call'[c].told]
  BY DEF Outcome

LEMMA StartBegins ==
    ASSUME IInv, NEW c \in Calls, Start(c)
    PROVE  Promise!Begin(c)
  <1>1. PICK kind \in Kinds :
          call' = [call EXCEPT ![c] =
             IF kind = "get" THEN [call[c] EXCEPT !.kind = kind, !.told = "pending", !.step = "send"]
             ELSE EnsureCsrfToken([call[c] EXCEPT !.kind = kind, !.told = "pending"], FALSE)]
    BY DEF Start
  <1>2. call[c] \in Call /\ call[c].step = "idle" /\ call[c].told = "idle"
    BY DEF IInv, TypeOK, Start, Sound, Shape
  <1>3. call'[c].told = "pending"
    BY <1>1, <1>2 DEF EnsureCsrfToken, Call, IInv, TypeOK
  <1>4. \A d \in Calls \ {c} : call'[d] = call[d]
    BY <1>1 DEF IInv, TypeOK
  <1>5. Outcome' = [Outcome EXCEPT ![c] = "pending"]
    BY <1>3, <1>4, OutcomeChanges
  <1> QED BY <1>2, <1>5 DEF Promise!Begin, Outcome, Start

\* An awaiting screen is told an outcome that agrees with what has run.
LEMMA Telling ==
    ASSUME NEW c \in Calls, \A d \in Calls \ {c} : call'[d] = call[d], runs' = runs,
           call[c].told = "pending", call'[c].told \in {"ok", "error", "refused", "failed"},
           call'[c].told = "ok" => runs[c] = 1, call'[c].told = "refused" => runs[c] = 0
    PROVE  Promise!Tell(c)
  <1>1. Outcome' = [Outcome EXCEPT ![c] = call'[c].told]
    BY OutcomeChanges
  <1> QED BY <1>1 DEF Promise!Tell, Outcome

LEMMA StepAdvances ==
    ASSUME IInv, IInv', NEW c \in Calls, Transmit(c) \/ Read(c) \/ Receive(c) \/ Fail(c)
    PROVE  Promise!Tell(c) \/ UNCHANGED <<Outcome, runs>>
  <1>1. runs' = runs /\ \A d \in Calls \ {c} : call'[d] = call[d]
    BY DEF Transmit, Read, Receive, Fail, IInv, TypeOK
  <1>2. call[c].told = "pending"
    BY DEF Transmit, Read, Receive, Fail, IInv, Sound, Shape, Under, TypeOK, Call
  <1>3. call'[c].told \in {"pending", "ok", "error", "refused", "failed"}
    <2>1. CASE Transmit(c)
      BY <1>2, <2>1 DEF Transmit
    <2>2. CASE Read(c) \/ Receive(c) \/ Fail(c)
      <3>1. CASE Receive(c)
        <4>1. call[c].step \in {"health", "send"} /\ call[c] \in Call
          BY <3>1 DEF Receive, IInv, TypeOK, Sound, Shape
        <4>2. wire[c].reply.status \in {"ok", "error", "refused"}
          BY DEF IInv, TypeOK, Wire, Reply
        <4>3. \/ call'[c] = [call[c] EXCEPT !.step = "read"]
              \/ call'[c] = [call[c] EXCEPT !.tries = 1, !.step = "health"]
              \/ call'[c].told = wire[c].reply.status
          BY <3>1, <4>1, AfterAnswer DEF IInv
        <4>4. call'[c].told \in {call[c].told, wire[c].reply.status}
          BY <4>1, <4>3 DEF Call
        <4> QED BY <1>2, <4>2, <4>4
      <3>2. CASE Read(c)
        <4>1. call'[c].told \in {call[c].told, "failed"}
          BY <3>2 DEF Read, Ended, Idle, IInv, TypeOK, Call
        <4> QED BY <1>2, <4>1
      <3>3. CASE Fail(c)
        <4>1. call'[c].told = "failed"
          BY <3>3 DEF Fail, Rejected, Ended, Idle, IInv, TypeOK, Call
        <4> QED BY <4>1
      <3> QED BY <2>2, <3>1, <3>2, <3>3
    <2> QED BY <2>1, <2>2
  <1>4. /\ call'[c].told = "ok" => runs[c] = 1
        /\ call'[c].told = "refused" => runs[c] = 0
    BY <1>1 DEF IInv, Sound, Once
  <1>5. CASE call'[c].told = "pending"
    BY <1>1, <1>2, <1>5 DEF Outcome
  <1>6. CASE call'[c].told # "pending"
    BY <1>1, <1>2, <1>3, <1>4, <1>6, Telling
  <1> QED BY <1>5, <1>6

LEMMA ServeRuns ==
    ASSUME IInv, NEW c \in Calls, Serve(c)
    PROVE  Promise!Run(c) \/ UNCHANGED <<Outcome, runs>>
  <1>1. call' = call /\ (runs' = runs \/ runs' = [runs EXCEPT ![c] = @ + 1])
    BY DEF Serve, Health, Refuse, Pass, BadGateway
  <1>2. runs[c] = 0 /\ call[c].told \in {"pending", "failed"} /\ runs \in [Calls -> {0, 1}]
    BY DEF Serve, IInv, TypeOK, Sound, Shape, Once, Under
  <1>3. Outcome' = Outcome
    BY <1>1 DEF Outcome
  <1>4. CASE runs' = [runs EXCEPT ![c] = @ + 1]
    <2>1. runs' = [runs EXCEPT ![c] = 1]
      BY <1>2, <1>4
    <2> QED BY <1>2, <1>3, <2>1 DEF Promise!Run, Outcome
  <1> QED BY <1>1, <1>3, <1>4

\* Whatever happens to cookies, keys and answers, the endpoint behind a call runs at most
\* once, and the screen is told the truth about it (api.ts request).
THEOREM ImplementsOneShot == Spec => CallsAreOneShot
  <1>1. Init => Promise!OneShotInit
    BY DEF Init, Promise!OneShotInit, Idle
  <1>2. IInv /\ IInv' /\ [Next]_vars => [Promise!OneShotNext]_<<Outcome, runs>>
    <2> SUFFICES ASSUME IInv, IInv', [Next]_vars
                 PROVE  Promise!OneShotNext \/ UNCHANGED <<Outcome, runs>>
      OBVIOUS
    <2>1. ASSUME NEW c \in Calls, Start(c) \/ CallStep(c) \/ Fail(c)
          PROVE  Promise!OneShotNext \/ UNCHANGED <<Outcome, runs>>
      BY <2>1, StartBegins, StepAdvances, ServeRuns DEF CallStep, Promise!OneShotNext
    <2>2. CASE ExpireCookie \/ Restart \/ UNCHANGED vars
      BY <2>2 DEF ExpireCookie, Restart, vars, Outcome
    <2> QED BY <2>1, <2>2 DEF Next
  <1>3. [Promise!OneShotNext]_<<Outcome, runs>>
          => [Promise!OneShotNext]_<<[c \in Calls |-> call[c].told], runs>>
    BY DEF Outcome
  <1> QED BY <1>1, <1>2, <1>3, Invariance, PTL DEF Spec, CallsAreOneShot, Promise!OneShotSpec
=============================================================================
