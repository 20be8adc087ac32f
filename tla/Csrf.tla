-------------------------------- MODULE Csrf --------------------------------
(***************************************************************************)
(* CSRF tokens: one browser whose tabs share one cookie jar, the calls     *)
(* api.ts's request() makes over it, and the server's CSRFMiddleWare and   *)
(* the handlers that change cookies.                                       *)
(*                                                                         *)
(* A call is a chain of awaits, and every other call may run in each gap:  *)
(* the token is read from the jar, the cookies are attached when the       *)
(* request leaves, the server answers by the cookies it was sent, and the  *)
(* answer's cookies land in whatever the jar has become.  The network may  *)
(* fail a call at any point and still deliver its request later.  A server *)
(* without SESSION_SECRET signs with a new key after every restart.        *)
(*                                                                         *)
(* Whether a session is live is Auth's subject: here a session is the      *)
(* binding material a token carries, and a protected endpoint may refuse   *)
(* any session.  An operator marked "Fault:" is a faulty variant of the    *)
(* one after it, never part of Spec.                                       *)
(***************************************************************************)
EXTENDS Naturals

CONSTANTS Calls,   \* calls of request(), one per use
          Old,     \* a session the browser already held
          None,    \* no cookie, no header, no token
          MaxKey   \* bound: boots of the server, one signing key each

ASSUME CsrfAssumption == /\ Old \notin Calls /\ None \notin Calls /\ Old # None
                         /\ MaxKey \in Nat \ {0}

VARIABLES jar,   \* the browser's session and CSRF cookies
          key,   \* the server's csrfSecret: the number of its boot
          call,  \* the calls of request()
          wire,  \* each call's request or answer under way
          runs,  \* history: how often each call's endpoint has run
          late,  \* history: calls under which the jar or the key has changed (see Transmit)
          slip   \* history: the two cookies come from answers that did not know of each other

vars == <<jar, key, call, wire, runs, late, slip>>

\* "logout" stands for a password change too: on success both answer with the same cookies.
\* "post" stands for the other mutating endpoints, of which sign-up needs no session.
Kinds == {"get", "post", "login", "logout"}
Steps == {"idle", "health", "read", "send", "end"}

(***************************************************************************)
(* A session id is the call that logged in.  A token carries the session   *)
(* and the key it was minted under, and a nonce: the exchange that minted  *)
(* it.                                                                     *)
(***************************************************************************)
Sids  == Calls \cup {Old}
Nonce == (Calls \X {0, 1} \X {"health", "send"}) \cup {Old}
Token == [sid : Sids \cup {None}, key : 0..MaxKey, nonce : Nonce]

ASSUME TokenAssumption == None \notin Token

Reply == [status : {"ok", "error", "refused"},
          cookies : {"keep", "token", "both"},
          sid : Sids \cup {None}, token : Token \cup {None}]

Call == [kind : Kinds, step : Steps, tries : {0, 1}, hdr : Token \cup {None},
         told : {"idle", "pending", "ok", "error", "refused", "failed"}]

Wire == [at : {"none", "out", "back"}, sid : Sids \cup {None},
         token : Token \cup {None}, reply : Reply]

Bare     == [status |-> "error", cookies |-> "keep", sid |-> None, token |-> None]
Quiet    == [at |-> "none", sid |-> None, token |-> None, reply |-> Bare]
Idle     == [kind |-> "get", step |-> "idle", tries |-> 0, hdr |-> None, told |-> "idle"]
OldToken(k) == [sid |-> Old, key |-> k, nonce |-> Old]

\* VerifyCSRFToken: signed under this server's key and bound to session s.
Verify(t, s) == t # None /\ t.key = key /\ t.sid = s

Init == /\ key = 1
        /\ jar \in {[sid |-> None, token |-> None],
                    [sid |-> Old, token |-> OldToken(0)],    \* minted before a restart
                    [sid |-> Old, token |-> OldToken(1)]}
        /\ call = [c \in Calls |-> Idle]
        /\ wire = [c \in Calls |-> Quiet]
        /\ runs = [c \in Calls |-> 0]
        /\ late = {} /\ slip = FALSE

\* The calls under way: those a change of the jar or the key disturbs.
Active == {c \in Calls : call[c].step \notin {"idle", "end"}}

-----------------------------------------------------------------------------
(* request() in a tab *)

\* ensureCsrfToken(force), up to its await.
EnsureCsrfToken(k, force) ==
    IF ~force /\ jar.token # None THEN [k EXCEPT !.hdr = jar.token, !.step = "send"]
                                  ELSE [k EXCEPT !.step = "health"]

\* request(), up to its first await: one task, which reads the jar as it finds it.
Start(c) ==
    /\ call[c].step = "idle"
    /\ \E kind \in Kinds :
          LET k == [call[c] EXCEPT !.kind = kind, !.told = "pending"] IN
          call' = [call EXCEPT ![c] = IF kind = "get" THEN [k EXCEPT !.step = "send"]
                                      ELSE EnsureCsrfToken(k, FALSE)]
    /\ UNCHANGED <<jar, key, wire, runs, late, slip>>

\* The browser attaches the jar's cookies when the request leaves.  `late` counts from
\* here; for the request of a retry, from the /health request before it.
Transmit(c) ==
    /\ call[c].step \in {"health", "send"}
    /\ wire[c].at = "none"
    /\ wire' = [wire EXCEPT ![c] = [Quiet EXCEPT !.at = "out", !.sid = jar.sid,
                                                 !.token = jar.token]]
    /\ late' = IF call[c].step = "send" /\ call[c].tries = 1 THEN late ELSE late \ {c}
    /\ UNCHANGED <<jar, key, call, runs, slip>>

\* request() returns: nothing it read is used again.
Ended(k, told) == [Idle EXCEPT !.step = "end", !.told = told]

\* The second readCookie of ensureCsrfToken, a task after the answer's cookies landed.
Read(c) ==
    /\ call[c].step = "read"
    /\ call' = [call EXCEPT ![c] =
          IF jar.token # None THEN [@ EXCEPT !.hdr = jar.token, !.step = "send"]
                              ELSE Ended(@, "failed")]
    /\ UNCHANGED <<jar, key, wire, runs, late, slip>>

\* Cookies of an answer replace the jar's.
Landed(r) == IF r.cookies = "keep" THEN jar
             ELSE [sid |-> IF r.cookies = "both" THEN r.sid ELSE jar.sid, token |-> r.token]

\* Fault: the retry sends what it has read before, and is not counted.
RetryUnforced(k) == EnsureCsrfToken(k, FALSE)

\* Fault: the retry trusts the cookie it finds.
RetryTrusting(k) == EnsureCsrfToken([k EXCEPT !.tries = 1], FALSE)

Retry(k) == EnsureCsrfToken([k EXCEPT !.tries = 1], TRUE)

After(k, status) ==
    IF k.step = "health" THEN [k EXCEPT !.step = "read"]
    ELSE IF status = "refused" /\ k.kind # "get" /\ k.tries = 0 THEN Retry(k)
    ELSE Ended(k, status)

\* The request under way is one EnsureCSRFToken has looked at.
Safe(c) == call[c].step = "health" \/ call[c].kind = "get"

Receive(c) ==
    LET r == wire[c].reply IN
    /\ wire[c].at = "back"
    /\ jar' = Landed(r)
    /\ call' = [call EXCEPT ![c] = After(@, r.status)]
    /\ wire' = [wire EXCEPT ![c] = Quiet]
    /\ late' = IF jar' = jar THEN late ELSE late \cup (Active \ {c})
    /\ slip' = CASE r.cookies = "both"  -> FALSE
                 [] r.cookies = "token" -> c \in late
                 [] r.cookies = "keep"  -> slip /\ (c \in late \/ ~Safe(c) \/ r.status # "ok")
    /\ UNCHANGED <<key, runs>>

\* Fault: a call that got no answer is sent once more.
RejectedResent(k, sent) == IF k.tries = 0 THEN Retry(k) ELSE Ended(k, "failed")

\* What fetch's caller does when it rejects; the request under way keeps its header.
Rejected(k, sent) == IF sent THEN [k EXCEPT !.step = "end", !.told = "failed"]
                             ELSE Ended(k, "failed")

\* fetch rejects.  The request under way may still reach the server.
Fail(c) ==
    LET sent == call[c].step = "send" /\ wire[c].at = "out" IN
    /\ wire[c].at # "none" /\ call[c].step # "end"
    /\ call' = [call EXCEPT ![c] = Rejected(@, sent)]
    /\ wire' = [wire EXCEPT ![c] = IF sent THEN @ ELSE Quiet]
    /\ UNCHANGED <<jar, key, runs, late, slip>>

-----------------------------------------------------------------------------
(* The server.  It answers by the cookies the request carried. *)

Minted(c, s) == [sid |-> s, key |-> key, nonce |-> <<c, call[c].tries, call[c].step>>]

\* Fault: a token is taken as still good when this server signed it, whatever its session.
StillGoodUnbound(t, s) == t # None /\ t.key = key

StillGood(t, s) == Verify(t, s)

\* EnsureCSRFToken: the cookies a safe request's answer sets.
Ensured(c) == LET w == wire[c] IN
              IF StillGood(w.token, w.sid) THEN Bare
              ELSE [Bare EXCEPT !.cookies = "token", !.token = Minted(c, w.sid)]

\* CSRFMiddleWare on a mutating request.
Admitted(c) == LET w == wire[c] IN
               /\ w.token # None /\ call[c].hdr # None
               /\ w.token = call[c].hdr
               /\ Verify(w.token, w.sid)

\* Fault: login sets the session cookie and leaves the CSRF cookie as it was.
SignedInUnbound(c) == [status |-> "ok", cookies |-> "both", sid |-> c, token |-> wire[c].token]

SignedIn(c) == [status |-> "ok", cookies |-> "both", sid |-> c, token |-> Minted(c, c)]
SignedOut(c) == [status |-> "ok", cookies |-> "both", sid |-> None, token |-> Minted(c, None)]

\* The answers of the endpoints.  The cookies of a safe request are set before they run.
Success(c) == CASE call[c].kind = "login"  -> SignedIn(c)
                [] call[c].kind = "logout" -> SignedOut(c)
                [] call[c].kind = "post"   -> [Bare EXCEPT !.status = "ok"]
                [] call[c].kind = "get"    -> [Ensured(c) EXCEPT !.status = "ok"]
Failure(c) == IF call[c].kind = "get" THEN Ensured(c) ELSE Bare

\* The answer to a call that has failed goes nowhere.
Replied(c, r) == wire' = [wire EXCEPT ![c] = IF call[c].step = "end" THEN Quiet
                                             ELSE [Quiet EXCEPT !.at = "back", !.reply = r]]

Health(c) == /\ call[c].step = "health"
             /\ Replied(c, [Ensured(c) EXCEPT !.status = "ok"])
             /\ UNCHANGED <<runs, late>>

\* CSRFMiddleWare's 403.
Refuse(c) == /\ ~Safe(c) /\ ~Admitted(c)
             /\ Replied(c, [Bare EXCEPT !.status = "refused"])
             /\ UNCHANGED <<runs, late>>

\* Past the middleware: SessionRequired's 401, or the endpoint and what it answers.
Pass(c) ==
    /\ call[c].step # "health" /\ (call[c].kind = "get" \/ Admitted(c))
    /\ \/ /\ Replied(c, Failure(c))
          /\ UNCHANGED runs
       \/ /\ call[c].kind = "get" => wire[c].sid # None
          /\ \E r \in {Success(c), Failure(c)} : Replied(c, r)
          /\ runs' = [runs EXCEPT ![c] = @ + 1]
    /\ UNCHANGED late

\* A proxy in front of a server that is down answers for it, and sets no cookie.
BadGateway(c) == /\ Replied(c, Bare)
                 /\ late' = IF call[c].step = "health" THEN late \cup {c} ELSE late
                 /\ UNCHANGED runs

Serve(c) == /\ wire[c].at = "out"
            /\ Health(c) \/ Refuse(c) \/ Pass(c) \/ BadGateway(c)
            /\ UNCHANGED <<jar, key, call, slip>>

-----------------------------------------------------------------------------
(* The environment *)

\* The session cookie reaches its MaxAge; the CSRF cookie has none.
ExpireCookie ==
    /\ jar.sid # None
    /\ jar' = [jar EXCEPT !.sid = None]
    /\ late' = late \cup Active
    /\ slip' = TRUE
    /\ UNCHANGED <<key, call, wire, runs>>

\* The server restarts without SESSION_SECRET.
Restart ==
    /\ key < MaxKey
    /\ key' = key + 1
    /\ late' = late \cup Active
    /\ UNCHANGED <<jar, call, wire, runs, slip>>

CallStep(c) == Transmit(c) \/ Serve(c) \/ Receive(c) \/ Read(c)

Next == \/ \E c \in Calls : Start(c) \/ CallStep(c) \/ Fail(c)
        \/ ExpireCookie \/ Restart

Spec == Init /\ [][Next]_vars

(***************************************************************************)
(* A request that is not lost is answered (a handler waits for nothing but *)
(* stores, whose drivers time out), and a tab's script runs on.  The       *)
(* cookie need never expire and the server never restart.                  *)
(***************************************************************************)
FairSpec == Spec /\ \A c \in Calls : WF_vars(call[c].step # "end" /\ CallStep(c))

-----------------------------------------------------------------------------
(* Properties *)

\* The state is well formed: at most one retry, one exchange at a time.
TypeOK ==
    /\ jar \in [sid : Sids \cup {None}, token : Token \cup {None}]
    /\ key \in 1..MaxKey
    /\ call \in [Calls -> Call]
    /\ wire \in [Calls -> Wire]
    /\ runs \in [Calls -> {0, 1}]
    /\ late \subseteq Calls
    /\ slip \in BOOLEAN

\* The CSRF cookie is bound to the session cookie beside it (login, logout and password
\* change replace both at once), unless an answer to cookies since replaced has landed
\* or the session cookie expired alone; the next undisturbed safe request mends that.
CookiesInStep == \/ slip
                 \/ jar.token = None
                 \/ jar.token.sid = jar.sid

\* The screen reads "Your session expired. Reload the page" only when the cookies or the
\* key changed again under the retry, or the fresh token it asked for was not to be had.
RefusedWasDisturbed == \A c \in Calls : call[c].told = "refused" => c \in late

\* The calls implement OneShot, however often a request is refused, lost or retried.
Promise == INSTANCE OneShot WITH outcome <- [c \in Calls |-> call[c].told]
CallsAreOneShot == Promise!OneShotSpec

\* Every call is told something: the retry is bounded, even while cookies change for ever.
CallsEnd == \A c \in Calls : call[c].step # "idle" ~> call[c].step = "end"
=============================================================================
