-------------------------------- MODULE Auth --------------------------------
(***************************************************************************)
(* Accounts and sessions: POST /login, POST /logout, POST /reset-password  *)
(* and the SessionRequired guard of every other endpoint, as concurrent    *)
(* requests of one server process over MongoDB and Redis.                  *)
(*                                                                         *)
(* One action per step that touches a store; the work between two of them  *)
(* is local to the request and is folded into the step before it.  Every   *)
(* store call may fail, with its effect applied (the reply was lost) or    *)
(* not.  A 429 or a 400 before the first store call leaves no trace and is *)
(* not modelled.  Time is abstracted: a Redis key that carries a TTL may   *)
(* expire in any state, one that carries none never does.                  *)
(*                                                                         *)
(* An operator marked "Fault:" is a faulty variant of the one after it,    *)
(* never part of Spec: the properties are tested against it.               *)
(***************************************************************************)
CONSTANTS Users,      \* accounts
          Passwords,  \* plaintext passwords; a stored hash is the one it was made from
          Weak,       \* the passwords enforcePasswordComplexity refuses
          Sids,       \* session ids generateNewToken can return
          Reqs,       \* requests in flight at once
          None        \* no user, no password, no session cookie

ASSUME AuthAssumption ==
    /\ Weak \subseteq Passwords
    /\ None \notin Users \cup Passwords \cup Sids

VARIABLES
    password,  \* users.password_hash in MongoDB
    owner,     \* user_id field of Redis hash session:<sid>, None when the key is absent
    ttl,       \* whether key session:<sid> carries an expiry
    req,       \* the requests in flight
    born,      \* history: session ids ever written to Redis
    issued,    \* history: session ids a Set-Cookie of a 200 carried
    ended,     \* history: session ids a 200 declared ended (logout, change-password)
    undeleted  \* history: session ids some DEL reported an error for

store   == <<password, owner, ttl>>
history == <<born, issued, ended, undeleted>>
vars    == <<store, req, history>>

(***************************************************************************)
(* A request: the handler's next step, its inputs, the user it acts for,   *)
(* the session it presents or opens, and (history) the passwords that were *)
(* that user's stored password at some moment since it began.              *)
(***************************************************************************)
Ops   == {"none", "login", "logout", "change", "read"}
Steps == {"idle", "lookup", "hset", "expire", "session", "serve",
          "verify", "edit", "del", "answer"}

Request == [step : Steps, op : Ops, user : Users \cup {None},
            pw : Passwords \cup {None}, new : Passwords \cup {None},
            sid : Sids \cup {None}, live : SUBSET Passwords]

Idle == [step |-> "idle", op |-> "none", user |-> None, pw |-> None,
         new |-> None, sid |-> None, live |-> {}]

Init ==
    /\ password \in [Users -> Passwords \ Weak]
    /\ owner = [s \in Sids |-> None]
    /\ ttl   = [s \in Sids |-> FALSE]
    /\ req   = [r \in Reqs |-> Idle]
    /\ born = {} /\ issued = {} /\ ended = {} /\ undeleted = {}

At(r, step) == req[r].step = step
Goto(r, step) == req' = [req EXCEPT ![r].step = step]
Finish(r) == req' = [req EXCEPT ![r] = Idle]

-----------------------------------------------------------------------------
(* POST /login *)

StartLogin(r) == \E u \in Users, p \in Passwords :
    /\ req[r] = Idle
    /\ req' = [req EXCEPT ![r] = [Idle EXCEPT !.step = "lookup", !.op = "login",
                                     !.user = u, !.pw = p, !.live = {password[u]}]]
    /\ UNCHANGED <<store, history>>

\* Fault: the hash is never compared.
VerifyLoginSkipped(r) ==
    /\ At(r, "lookup")
    /\ Goto(r, "hset") \/ Finish(r)
    /\ UNCHANGED <<store, history>>

\* LookupUserByEmail and VerifyPassword.  Any lookup error, an unknown address
\* and a mismatch all end in the same 401.
VerifyLogin(r) ==
    /\ At(r, "lookup")
    /\ \/ password[req[r].user] = req[r].pw /\ Goto(r, "hset")
       \/ Finish(r)
    /\ UNCHANGED <<store, history>>

\* Fault: ids are only unique among live sessions.
FreshSidsReused == {s \in Sids : owner[s] = None}

\* A version-4 UUID: never one drawn before.
FreshSids == Sids \ born

WriteHash(s, u) ==
    /\ owner' = [owner EXCEPT ![s] = u]
    /\ born' = born \cup {s}

\* Fault: CreateSession's string arguments are swapped.
CreateHashSwapped(r) ==
    /\ At(r, "hset")
    /\ \E s \in FreshSids :
          /\ WriteHash(s, req[r].pw)
          /\ req' = [req EXCEPT ![r].step = "expire", ![r].sid = s]
    /\ UNCHANGED <<password, ttl, issued, ended, undeleted>>

\* SessionStore.Create, first command: HSET session:<sid>.
CreateHash(r) ==
    /\ At(r, "hset")
    /\ \/ \E s \in FreshSids :
             /\ WriteHash(s, req[r].user)
             /\ \/ req' = [req EXCEPT ![r].step = "expire", ![r].sid = s]
                \/ Finish(r)
       \/ Finish(r) /\ UNCHANGED <<owner, born>>
    /\ UNCHANGED <<password, ttl, issued, ended, undeleted>>

\* Fault: an EXPIRE error is ignored.
SetExpirySwallowed(r) ==
    /\ At(r, "expire")
    /\ Goto(r, "answer")
    /\ ttl' \in {ttl, [ttl EXCEPT ![req[r].sid] = owner[req[r].sid] # None]}
    /\ UNCHANGED <<password, owner, history>>

\* SessionStore.Create, second command: EXPIRE session:<sid>.  It sets nothing
\* on a key that is gone, and its error fails the login.
SetExpiry(r) ==
    LET applied == [ttl EXCEPT ![req[r].sid] = owner[req[r].sid] # None] IN
    /\ At(r, "expire")
    /\ \/ ttl' = applied /\ Goto(r, "answer")
       \/ ttl' \in {ttl, applied} /\ Finish(r)
    /\ UNCHANGED <<password, owner, history>>

AnswerLogin(r) ==
    /\ At(r, "answer") /\ req[r].op = "login"
    /\ issued' = issued \cup {req[r].sid}
    /\ Finish(r)
    /\ UNCHANGED <<store, born, ended, undeleted>>

-----------------------------------------------------------------------------
(* The SessionRequired guard, and the endpoints behind it *)

\* A browser presents a cookie it was given, even one the server has since
\* tried to clear (a response on its way, another copy), or none.
StartGuarded(r) == \E s \in issued \cup {None}, op \in {"read", "change"} :
    /\ req[r] = Idle
    /\ \E p, n \in (IF op = "change" THEN Passwords ELSE {None}) :
          req' = [req EXCEPT ![r] = [Idle EXCEPT !.step = "session", !.op = op,
                                        !.sid = s, !.pw = p, !.new = n]]
    /\ UNCHANGED <<store, history>>

\* No cookie, a Redis error or an absent key: 401.
SessionRequired(r) ==
    LET s == req[r].sid IN
    /\ At(r, "session")
    /\ \/ /\ s # None /\ owner[s] # None
          /\ req' = [req EXCEPT ![r].user = owner[s],
                                ![r].live = {password[owner[s]]},
                                ![r].step = IF req[r].op = "change" THEN "verify"
                                                                    ELSE "serve"]
       \/ Finish(r)
    /\ UNCHANGED <<store, history>>

\* Any other handler: it acts for the user in its context and answers.
Serve(r) == At(r, "serve") /\ Finish(r) /\ UNCHANGED <<store, history>>

\* LookupUserByID, VerifyPassword, the identity and complexity checks.
VerifyChange(r) ==
    /\ At(r, "verify")
    /\ \/ /\ password[req[r].user] = req[r].pw
          /\ req[r].pw # req[r].new
          /\ req[r].new \notin Weak
          /\ Goto(r, "edit")
       \/ Finish(r)
    /\ UNCHANGED <<store, history>>

\* What every request in flight for r's account has seen once r's new password
\* is stored.
Observed(r) ==
    [q \in Reqs |-> IF req[q].user = req[r].user
                    THEN [req[q] EXCEPT !.live = @ \cup {req[r].new}]
                    ELSE req[q]]

\* EditPassword: UpdateOne by _id alone, whatever hash is stored by now.
EditPassword(r) ==
    LET stored == [password EXCEPT ![req[r].user] = req[r].new] IN
    /\ At(r, "edit")
    /\ \/ password' = stored /\ req' = [Observed(r) EXCEPT ![r].step = "del"]
       \/ password' = stored /\ req' = [Observed(r) EXCEPT ![r] = Idle]
       \/ UNCHANGED password /\ Finish(r)
    /\ UNCHANGED <<owner, ttl, history>>

-----------------------------------------------------------------------------
(* POST /logout, and the end of a password change *)

\* Logout has no SessionRequired in front of it: without a cookie there is
\* nothing to delete.
StartLogout(r) == \E s \in issued \cup {None} :
    /\ req[r] = Idle
    /\ req' = [req EXCEPT ![r] = [Idle EXCEPT !.op = "logout", !.sid = s,
                                     !.step = IF s = None THEN "answer" ELSE "del"]]
    /\ UNCHANGED <<store, history>>

DropKey(s) ==
    /\ owner' = [owner EXCEPT ![s] = None]
    /\ ttl'   = [ttl   EXCEPT ![s] = FALSE]

\* Fault: a password change keeps its session.
DeleteSessionSkipped(r) ==
    /\ At(r, "del")
    /\ Goto(r, "answer")
    /\ IF req[r].op = "logout" THEN DropKey(req[r].sid) ELSE UNCHANGED <<owner, ttl>>
    /\ UNCHANGED <<password, history>>

\* Fault: a DEL is repeated until it reports a deleted key, which another request
\* or the expiry may have taken.
DeleteSessionRetried(r) ==
    /\ At(r, "del") /\ owner[req[r].sid] # None
    /\ Goto(r, "answer")
    /\ DropKey(req[r].sid)
    /\ UNCHANGED <<password, history>>

\* DeleteSession.  Its error is logged and the request goes on.
DeleteSession(r) ==
    LET s == req[r].sid IN
    /\ At(r, "del")
    /\ Goto(r, "answer")
    /\ \/ DropKey(s) /\ UNCHANGED undeleted
       \/ /\ DropKey(s) \/ UNCHANGED <<owner, ttl>>
          /\ undeleted' = undeleted \cup {s}
    /\ UNCHANGED <<password, born, issued, ended>>

AnswerEnd(r) ==
    /\ At(r, "answer") /\ req[r].op \in {"logout", "change"}
    /\ ended' = ended \cup ({req[r].sid} \ {None})
    /\ Finish(r)
    /\ UNCHANGED <<store, born, issued, undeleted>>

-----------------------------------------------------------------------------
(* The environment *)

\* Redis drops a key whose TTL ran out.
SessionExpires(s) ==
    /\ ttl[s]
    /\ DropKey(s)
    /\ UNCHANGED <<password, req, history>>

\* The server process dies or is restarted: every request in flight is lost.
Crash ==
    /\ \E r \in Reqs : req[r] # Idle
    /\ req' = [r \in Reqs |-> Idle]
    /\ UNCHANGED <<store, history>>

Start(r) == StartLogin(r) \/ StartGuarded(r) \/ StartLogout(r)

Step(r) == \/ VerifyLogin(r) \/ CreateHash(r) \/ SetExpiry(r) \/ AnswerLogin(r)
           \/ SessionRequired(r) \/ Serve(r) \/ VerifyChange(r) \/ EditPassword(r)
           \/ DeleteSession(r) \/ AnswerEnd(r)

Next == \/ \E r \in Reqs : Start(r) \/ Step(r)
        \/ \E s \in Sids : SessionExpires(s)
        \/ Crash

Spec == Init /\ [][Next]_vars

\* Handlers run to their end, and Redis expires what carries a TTL.
Fairness == /\ \A r \in Reqs : WF_vars(Step(r))
            /\ \A s \in Sids : WF_vars(SessionExpires(s))

FairSpec == Spec /\ Fairness
-----------------------------------------------------------------------------
TypeOK ==
    /\ password \in [Users -> Passwords \ Weak]
    /\ owner \in [Sids -> Users \cup {None}]
    /\ ttl \in [Sids -> BOOLEAN]
    /\ req \in [Reqs -> Request]
    /\ born \subseteq Sids /\ issued \subseteq Sids
    /\ ended \subseteq Sids /\ undeleted \subseteq Sids

\* A session id that reached a browser names a key that expires: the login whose
\* EXPIRE failed, or that died before it, handed its id to nobody
\* (session_store.go Create, auth.go Authenticate).
HandedOutSessionsExpire == \A s \in issued : owner[s] # None => ttl[s]

\* A login that got past VerifyPassword, and a change about to be stored, proved
\* a password that was the account's at some moment since the request began (a
\* change: since its session was checked): a password replaced before then opens
\* nothing (auth.go Authenticate, ChangePassword).
ProvedPassword ==
    \A r \in Reqs :
        (\/ req[r].op = "login" /\ req[r].step \in {"hset", "expire", "answer"}
         \/ At(r, "edit"))
        => req[r].pw \in req[r].live

\* While a handler trusts the user SessionRequired put in its context, the
\* session it came from is that user's or gone, never another user's
\* (middleware.go SessionRequired, session.go generateNewToken).
ContextUserIsHolder ==
    \A r \in Reqs :
        (req[r].op \in {"read", "change"} /\ req[r].user # None)
            => owner[req[r].sid] \in {req[r].user, None}

\* A session whose end a 200 acknowledged is gone, unless a DEL for it reported
\* an error (auth.go Logout, ChangePassword).
EndedSessionsAreGone == \A s \in ended : owner[s] # None => s \in undeleted

\* Behind the store calls, session ids live the life SessionLifecycle promises.
Stage == [s \in Sids |-> CASE owner[s] # None -> "live"
                           [] s \in born /\ owner[s] = None -> "dead"
                           [] OTHER -> "unborn"]

Lifecycle == INSTANCE SessionLifecycle WITH stage <- Stage, holder <- owner
LifecycleSpec == Lifecycle!Spec

\* A session some login answered with is out of Redis in the end, even when its
\* user never logs out (session_store.go Create sets the TTL).
IssuedSessionsEnd == \A s \in Sids : (s \in issued) ~> (owner[s] = None)

\* Every request is answered, or lost with the process.
RequestsEnd == \A r \in Reqs : (req[r] # Idle) ~> (req[r] = Idle)

-----------------------------------------------------------------------------
(* What the repository says of the program and the code does not keep *)

\* API.md on /reset-password: "The session is destroyed on success"; auth.go on a failed DEL:
\* "nobody is authenticated regardless".
EndedSessionsAreRefused ==
    [][\A r \in Reqs : (At(r, "session") /\ req'[r].step \in {"serve", "verify"})
          => req[r].sid \notin ended]_vars
=============================================================================
