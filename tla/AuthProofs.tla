----------------------------- MODULE AuthProofs -----------------------------
(***************************************************************************)
(* Proofs about Auth, for any number of accounts, passwords, session ids   *)
(* and concurrent requests.  The properties of Auth are not inductive by   *)
(* themselves: IInv adds what a request's step says about the request      *)
(* (Shapes), that a key with a TTL exists and every session id anyone      *)
(* holds was drawn (Bookkeeping), and what each request in flight still    *)
(* has to deliver (Pending).                                               *)
(***************************************************************************)
EXTENDS Auth, TLAPS

Shape(q) ==
    /\ q.op = "none"   => q.step = "idle"
    /\ q.op = "login"  => /\ q.step \in {"lookup", "hset", "expire", "answer"}
                          /\ q.user \in Users /\ q.pw \in Passwords
                          /\ q.step \in {"expire", "answer"} => q.sid \in Sids
    /\ q.op = "read"   => q.step \in {"session", "serve"}
    /\ q.op = "change" => /\ q.step \in {"session", "verify", "edit", "del", "answer"}
                          /\ q.pw \in Passwords /\ q.new \in Passwords
    /\ q.op = "logout" => q.step \in {"del", "answer"} /\ q.user = None
    /\ q.step = "session" <=> q.op \in {"read", "change"} /\ q.user = None
    /\ q.op \in {"read", "change"} /\ q.step # "session" => q.user \in Users /\ q.sid \in Sids
    /\ q.step = "del" => q.sid \in Sids
    /\ q.step = "edit" => q.new \notin Weak
    /\ q.step = "idle" => q.user = None

Shapes == \A r \in Reqs : Shape(req[r])

Bookkeeping ==
    /\ \A s \in Sids : ttl[s] => owner[s] # None
    /\ \A s \in Sids : owner[s] # None => s \in born
    /\ issued \subseteq born /\ ended \subseteq born
    /\ \A r \in Reqs : req[r].sid \in born \cup {None}

\* What a request in flight owes: a login about to answer has an expiring key
\* or none, a logout or change about to answer has deleted its key or logged an
\* error, and the account's current password is among those seen.
Pending ==
    /\ \A r \in Reqs : (req[r].op = "login" /\ req[r].step = "answer")
          => (owner[req[r].sid] # None => ttl[req[r].sid])
    /\ \A r \in Reqs : (req[r].op \in {"logout", "change"} /\ req[r].step = "answer"
                        /\ req[r].sid # None)
          => (owner[req[r].sid] # None => req[r].sid \in undeleted)
    /\ \A r \in Reqs : req[r].user # None
          => password[req[r].user] \in req[r].live

IInv == /\ TypeOK /\ Shapes /\ Bookkeeping /\ Pending
        /\ HandedOutSessionsExpire /\ ProvedPassword
        /\ ContextUserIsHolder /\ EndedSessionsAreGone
-----------------------------------------------------------------------------
(* One lemma per step: it keeps IInv *)

LEMMA IdleIsRequest == Idle \in Request
  BY DEF Idle, Request, Steps, Ops

\* A login begins: nothing is owed yet, and the current password is seen.
LEMMA StartLoginKeeps ==
    ASSUME IInv, NEW r \in Reqs, StartLogin(r)
    PROVE  IInv'
  <1> USE AuthAssumption DEF IInv, At, Goto, Finish, store, history
  <1>1. TypeOK'
    <2>1. PICK u \in Users, p \in Passwords :
             req' = [req EXCEPT ![r] = [Idle EXCEPT !.step = "lookup", !.op = "login",
                                           !.user = u, !.pw = p, !.live = {password[u]}]]
      BY DEF StartLogin
    <2>2. password[u] \in Passwords
      BY DEF TypeOK
    <2>3. [Idle EXCEPT !.step = "lookup", !.op = "login",
                  !.user = u, !.pw = p, !.live = {password[u]}] \in Request
      BY <2>2 DEF Idle, Request, Steps, Ops
    <2> QED BY <2>1, <2>3 DEF StartLogin, TypeOK, store, history
  <1>2. Shapes'
    BY DEF StartLogin, Idle, TypeOK, Request, Shapes, Shape
  <1>3. Bookkeeping'
    BY DEF StartLogin, Idle, TypeOK, Request, Shapes, Shape, Bookkeeping
  <1>4. Pending'
    BY DEF StartLogin, Idle, TypeOK, Request, Shapes, Shape, Bookkeeping,
           Pending
  <1>5. HandedOutSessionsExpire' /\ EndedSessionsAreGone'
    BY DEF StartLogin, HandedOutSessionsExpire, EndedSessionsAreGone
  <1>6. ProvedPassword'
    BY DEF StartLogin, Idle, TypeOK, Request, Shapes, Shape, Pending,
           ProvedPassword
  <1>7. ContextUserIsHolder'
    BY DEF StartLogin, Idle, TypeOK, Request, Shapes, Shape, Bookkeeping,
           ContextUserIsHolder
  <1> QED BY <1>1, <1>2, <1>3, <1>4, <1>5, <1>6, <1>7

\* Past the comparison, the password proved is the current one, which was seen.
LEMMA VerifyLoginKeeps ==
    ASSUME IInv, NEW r \in Reqs, VerifyLogin(r)
    PROVE  IInv'
  <1> USE AuthAssumption DEF IInv, At, Goto, Finish, store, history
  <1>1. TypeOK'
    BY DEF VerifyLogin, Idle, TypeOK, Request, Steps, Ops, Shapes, Shape
  <1>2. Shapes'
    BY DEF VerifyLogin, Idle, TypeOK, Request, Shapes, Shape
  <1>3. Bookkeeping'
    BY DEF VerifyLogin, Idle, TypeOK, Request, Shapes, Shape, Bookkeeping
  <1>4. Pending'
    <2>1. \/ req' = [req EXCEPT ![r].step = "hset"]
          \/ req' = [req EXCEPT ![r] = Idle]
      BY DEF VerifyLogin, Goto, Finish
    <2>2. \A q \in Reqs :
             \/ /\ req'[q].op = req[q].op /\ req'[q].sid = req[q].sid
                /\ req'[q].user = req[q].user /\ req'[q].live = req[q].live
                /\ req'[q].step = "answer" => req[q].step = "answer"
             \/ req'[q] = Idle
      BY <2>1 DEF TypeOK, Request
    <2> QED BY <2>2 DEF VerifyLogin, Pending, Idle, store, history
  <1>5. HandedOutSessionsExpire' /\ EndedSessionsAreGone'
    BY DEF VerifyLogin, HandedOutSessionsExpire, EndedSessionsAreGone
  <1>6. ProvedPassword'
    BY DEF VerifyLogin, Idle, TypeOK, Request, Shapes, Shape, Pending,
           ProvedPassword
  <1>7. ContextUserIsHolder'
    BY DEF VerifyLogin, Idle, TypeOK, Request, Shapes, Shape, Bookkeeping,
           ContextUserIsHolder
  <1> QED BY <1>1, <1>2, <1>3, <1>4, <1>5, <1>6, <1>7

\* The key written is fresh: no request holds its id and no answer named it.
LEMMA CreateHashKeeps ==
    ASSUME IInv, NEW r \in Reqs, CreateHash(r)
    PROVE  IInv'
  <1> USE AuthAssumption DEF IInv, At, Goto, Finish, store, history
  <1>1. TypeOK'
    BY DEF CreateHash, FreshSids, WriteHash, Idle, TypeOK, Request, Steps,
           Ops, Shapes, Shape
  <1>2. Shapes'
    BY DEF CreateHash, FreshSids, WriteHash, Idle, TypeOK, Request, Shapes,
           Shape
  <1>3. Bookkeeping'
    BY DEF CreateHash, FreshSids, WriteHash, Idle, TypeOK, Request, Shapes,
           Shape, Bookkeeping
  <1>4. Pending'
    BY DEF CreateHash, FreshSids, WriteHash, Idle, TypeOK, Request, Shapes,
           Shape, Bookkeeping, Pending
  <1>5. HandedOutSessionsExpire'
    BY DEF CreateHash, FreshSids, WriteHash, Idle, TypeOK, Request, Shapes,
           Shape, Bookkeeping, Pending, HandedOutSessionsExpire
  <1>6. ProvedPassword'
    BY DEF CreateHash, FreshSids, WriteHash, Idle, TypeOK, Request, Shapes,
           Shape, Pending, ProvedPassword
  <1>7. ContextUserIsHolder'
    BY DEF CreateHash, FreshSids, WriteHash, Idle, TypeOK, Request, Shapes,
           Shape, Bookkeeping, ContextUserIsHolder
  <1>8. EndedSessionsAreGone'
    BY DEF CreateHash, FreshSids, WriteHash, Idle, TypeOK, Request, Shapes,
           Shape, Bookkeeping, Pending, EndedSessionsAreGone
  <1> QED BY <1>1, <1>2, <1>3, <1>4, <1>5, <1>6, <1>7, <1>8

\* A TTL is only ever added to a key that exists.
LEMMA SetExpiryKeeps ==
    ASSUME IInv, NEW r \in Reqs, SetExpiry(r)
    PROVE  IInv'
  <1> USE AuthAssumption DEF IInv, At, Goto, Finish, store, history
  <1>0. /\ ttl' \in {ttl, [ttl EXCEPT ![req[r].sid] = owner[req[r].sid] # None]}
        /\ \/ req' = [req EXCEPT ![r].step = "answer"]
           \/ req' = [req EXCEPT ![r] = Idle]
    BY DEF SetExpiry, Goto, Finish
  <1>1. TypeOK'
    <2>1. ttl' \in [Sids -> BOOLEAN]
      BY <1>0 DEF TypeOK
    <2>2. req' \in [Reqs -> Request]
      BY <1>0, IdleIsRequest DEF TypeOK, Request, Steps
    <2> QED BY <2>1, <2>2 DEF SetExpiry, TypeOK, history
  <1>2. Shapes'
    BY DEF SetExpiry, Idle, TypeOK, Request, Shapes, Shape
  <1>3. Bookkeeping'
    BY DEF SetExpiry, Idle, TypeOK, Request, Shapes, Shape, Bookkeeping
  <1>4. Pending'
    <2> DEFINE s == req[r].sid
    <2>1. req[r].op = "login" /\ s \in Sids
      BY DEF SetExpiry, At, TypeOK, Request, Ops, Shapes, Shape
    <2>2. \A t \in Sids : ttl[t] => ttl'[t]
      BY <1>0, <2>1 DEF TypeOK, Bookkeeping
    <2>3. \A q \in Reqs : req[q].op = "login" /\ req[q].step = "answer" => req[q].sid \in Sids
      BY DEF Shapes, Shape
    <2>4. CASE req' = [req EXCEPT ![r] = Idle]
      BY <2>2, <2>3, <2>4 DEF SetExpiry, Pending, Idle, TypeOK, history
    <2>5. CASE /\ req' = [req EXCEPT ![r].step = "answer"]
               /\ ttl' = [ttl EXCEPT ![s] = owner[s] # None]
      <3>1. \A q \in Reqs : /\ req'[q].op = req[q].op /\ req'[q].sid = req[q].sid
                            /\ req'[q].user = req[q].user /\ req'[q].live = req[q].live
                            /\ q # r => req'[q] = req[q]
        BY <2>5 DEF TypeOK, Request
      <3>2. owner[s] # None => ttl'[s]
        BY <2>1, <2>5 DEF TypeOK
      <3> QED BY <2>1, <2>2, <2>3, <3>1, <3>2 DEF SetExpiry, Pending, history
    <2> QED BY <2>4, <2>5 DEF SetExpiry, Goto, Finish
  <1>5. HandedOutSessionsExpire'
    BY DEF SetExpiry, Idle, TypeOK, Request, Shapes, Shape, Bookkeeping,
           Pending, HandedOutSessionsExpire
  <1>6. ProvedPassword'
    BY DEF SetExpiry, Idle, TypeOK, Request, Shapes, Shape, Pending,
           ProvedPassword
  <1>7. ContextUserIsHolder'
    BY DEF SetExpiry, Idle, TypeOK, Request, Shapes, Shape, Bookkeeping,
           ContextUserIsHolder
  <1>8. EndedSessionsAreGone'
    BY DEF SetExpiry, Idle, TypeOK, Request, Shapes, Shape, Bookkeeping,
           Pending, EndedSessionsAreGone
  <1> QED BY <1>1, <1>2, <1>3, <1>4, <1>5, <1>6, <1>7, <1>8

\* The id handed out is one whose key expires.
LEMMA AnswerLoginKeeps ==
    ASSUME IInv, NEW r \in Reqs, AnswerLogin(r)
    PROVE  IInv'
  <1> USE AuthAssumption DEF IInv, At, Goto, Finish, store, history
  <1>1. TypeOK'
    BY DEF AnswerLogin, Idle, TypeOK, Request, Steps, Ops, Shapes, Shape
  <1>2. Shapes'
    BY DEF AnswerLogin, Idle, TypeOK, Request, Shapes, Shape
  <1>3. Bookkeeping'
    BY DEF AnswerLogin, Idle, TypeOK, Request, Shapes, Shape, Bookkeeping
  <1>4. Pending'
    BY DEF AnswerLogin, Idle, TypeOK, Request, Shapes, Shape, Bookkeeping,
           Pending
  <1>5. HandedOutSessionsExpire'
    BY DEF AnswerLogin, Idle, TypeOK, Request, Shapes, Shape, Bookkeeping,
           Pending, HandedOutSessionsExpire
  <1>6. ProvedPassword'
    BY DEF AnswerLogin, Idle, TypeOK, Request, Shapes, Shape, Pending,
           ProvedPassword
  <1>7. ContextUserIsHolder'
    BY DEF AnswerLogin, Idle, TypeOK, Request, Shapes, Shape, Bookkeeping,
           ContextUserIsHolder
  <1>8. EndedSessionsAreGone'
    BY DEF AnswerLogin, Idle, TypeOK, Request, Shapes, Shape, Bookkeeping,
           Pending, EndedSessionsAreGone
  <1> QED BY <1>1, <1>2, <1>3, <1>4, <1>5, <1>6, <1>7, <1>8

\* A guarded request begins without a user.
LEMMA StartGuardedKeeps ==
    ASSUME IInv, NEW r \in Reqs, StartGuarded(r)
    PROVE  IInv'
  <1> USE AuthAssumption DEF IInv, At, Goto, Finish, store, history
  <1>1. TypeOK'
    <2>1. PICK s \in issued \cup {None}, op \in {"read", "change"},
               p \in Passwords \cup {None}, n \in Passwords \cup {None} :
             req' = [req EXCEPT ![r] = [Idle EXCEPT !.step = "session", !.op = op,
                                           !.sid = s, !.pw = p, !.new = n]]
      BY DEF StartGuarded
    <2>2. [Idle EXCEPT !.step = "session", !.op = op,
                  !.sid = s, !.pw = p, !.new = n] \in Request
      BY DEF Idle, Request, Steps, Ops, TypeOK
    <2> QED BY <2>1, <2>2 DEF StartGuarded, TypeOK, store, history
  <1>2. Shapes'
    BY DEF StartGuarded, Idle, TypeOK, Request, Shapes, Shape
  <1>3. Bookkeeping'
    BY DEF StartGuarded, Idle, TypeOK, Request, Shapes, Shape, Bookkeeping
  <1>4. Pending'
    BY DEF StartGuarded, Idle, TypeOK, Request, Shapes, Shape, Bookkeeping,
           Pending
  <1>5. HandedOutSessionsExpire' /\ EndedSessionsAreGone'
    BY DEF StartGuarded, HandedOutSessionsExpire, EndedSessionsAreGone
  <1>6. ProvedPassword'
    BY DEF StartGuarded, Idle, TypeOK, Request, Shapes, Shape, Pending,
           ProvedPassword
  <1>7. ContextUserIsHolder'
    BY DEF StartGuarded, Idle, TypeOK, Request, Shapes, Shape, Bookkeeping,
           ContextUserIsHolder
  <1> QED BY <1>1, <1>2, <1>3, <1>4, <1>5, <1>6, <1>7

\* The user taken from the session is its owner.
LEMMA SessionRequiredKeeps ==
    ASSUME IInv, NEW r \in Reqs, SessionRequired(r)
    PROVE  IInv'
  <1> USE AuthAssumption DEF IInv, At, Goto, Finish, store, history
  <1>1. TypeOK'
    BY DEF SessionRequired, Idle, TypeOK, Request, Steps, Ops, Shapes, Shape
  <1>2. Shapes'
    BY DEF SessionRequired, Idle, TypeOK, Request, Shapes, Shape
  <1>3. Bookkeeping'
    BY DEF SessionRequired, Idle, TypeOK, Request, Shapes, Shape, Bookkeeping
  <1>4. Pending'
    BY DEF SessionRequired, Idle, TypeOK, Request, Shapes, Shape, Bookkeeping,
           Pending
  <1>5. HandedOutSessionsExpire' /\ EndedSessionsAreGone'
    BY DEF SessionRequired, HandedOutSessionsExpire, EndedSessionsAreGone
  <1>6. ProvedPassword'
    BY DEF SessionRequired, Idle, TypeOK, Request, Shapes, Shape, Pending,
           ProvedPassword
  <1>7. ContextUserIsHolder'
    BY DEF SessionRequired, Idle, TypeOK, Request, Shapes, Shape, Bookkeeping,
           ContextUserIsHolder
  <1> QED BY <1>1, <1>2, <1>3, <1>4, <1>5, <1>6, <1>7

\* Answering forgets the request.
LEMMA ServeKeeps ==
    ASSUME IInv, NEW r \in Reqs, Serve(r)
    PROVE  IInv'
  <1> USE AuthAssumption DEF IInv, At, Goto, Finish, store, history
  <1>1. TypeOK'
    BY DEF Serve, Idle, TypeOK, Request, Steps, Ops, Shapes, Shape
  <1>2. Shapes'
    BY DEF Serve, Idle, TypeOK, Request, Shapes, Shape
  <1>3. Bookkeeping'
    BY DEF Serve, Idle, TypeOK, Request, Shapes, Shape, Bookkeeping
  <1>4. Pending'
    BY DEF Serve, Idle, TypeOK, Request, Shapes, Shape, Bookkeeping, Pending
  <1>5. HandedOutSessionsExpire' /\ EndedSessionsAreGone'
    BY DEF Serve, HandedOutSessionsExpire, EndedSessionsAreGone
  <1>6. ProvedPassword'
    BY DEF Serve, Idle, TypeOK, Request, Shapes, Shape, Pending,
           ProvedPassword
  <1>7. ContextUserIsHolder'
    BY DEF Serve, Idle, TypeOK, Request, Shapes, Shape, Bookkeeping,
           ContextUserIsHolder
  <1> QED BY <1>1, <1>2, <1>3, <1>4, <1>5, <1>6, <1>7

\* Past the comparison, the password proved is the current one, which was seen.
LEMMA VerifyChangeKeeps ==
    ASSUME IInv, NEW r \in Reqs, VerifyChange(r)
    PROVE  IInv'
  <1> USE AuthAssumption DEF IInv, At, Goto, Finish, store, history
  <1>1. TypeOK'
    BY DEF VerifyChange, Idle, TypeOK, Request, Steps, Ops, Shapes, Shape
  <1>2. Shapes'
    BY DEF VerifyChange, Idle, TypeOK, Request, Shapes, Shape
  <1>3. Bookkeeping'
    BY DEF VerifyChange, Idle, TypeOK, Request, Shapes, Shape, Bookkeeping
  <1>4. Pending'
    BY DEF VerifyChange, Idle, TypeOK, Request, Shapes, Shape, Bookkeeping,
           Pending
  <1>5. HandedOutSessionsExpire' /\ EndedSessionsAreGone'
    BY DEF VerifyChange, HandedOutSessionsExpire, EndedSessionsAreGone
  <1>6. ProvedPassword'
    <2>1. \/ /\ req' = [req EXCEPT ![r].step = "edit"]
             /\ req[r].pw = password[req[r].user]
          \/ req' = [req EXCEPT ![r] = Idle]
      BY DEF VerifyChange, Goto, Finish
    <2>2. req[r].user # None
      BY DEF VerifyChange, At, TypeOK, Request, Ops, Shapes, Shape
    <2>3. password[req[r].user] \in req[r].live
      BY <2>2 DEF Pending
    <2> QED BY <2>1, <2>3 DEF ProvedPassword, At, Idle, TypeOK, Request
  <1>7. ContextUserIsHolder'
    BY DEF VerifyChange, Idle, TypeOK, Request, Shapes, Shape, Bookkeeping,
           ContextUserIsHolder
  <1> QED BY <1>1, <1>2, <1>3, <1>4, <1>5, <1>6, <1>7

\* Storing a password changes nothing of a request but its history, and its
\* step when it is the one that stores.
LEMMA EditPasswordEffect ==
    ASSUME IInv, NEW r \in Reqs, EditPassword(r)
    PROVE  /\ req' \in [Reqs -> Request]
           /\ req[r].user \in Users /\ req[r].new \in Passwords \ Weak
           /\ req[r].sid \in Sids /\ req[r].op = "change"
           /\ \/ password' = password
              \/ password' = [password EXCEPT ![req[r].user] = req[r].new]
           /\ \A q \in Reqs :
                 \/ req'[q] = Idle
                 \/ /\ req'[q].op = req[q].op /\ req'[q].user = req[q].user
                    /\ req'[q].pw = req[q].pw /\ req'[q].new = req[q].new
                    /\ req'[q].sid = req[q].sid
                    /\ req'[q].step = req[q].step \/ (q = r /\ req'[q].step = "del")
                    /\ req[q].live \subseteq req'[q].live
                    /\ password' # password /\ req[q].user = req[r].user
                          => req[r].new \in req'[q].live
  <1> USE AuthAssumption DEF IInv
  <1> DEFINE u == req[r].user
             n == req[r].new
  <1>1. u \in Users /\ n \in Passwords \ Weak /\ req[r].sid \in Sids /\ req[r].op = "change"
    BY DEF EditPassword, At, TypeOK, Request, Ops, Shapes, Shape
  <1>2. \A q \in Reqs : [req[q] EXCEPT !.live = @ \cup {n}] \in Request
    BY <1>1 DEF TypeOK, Request
  <1>3. Observed(r) \in [Reqs -> Request]
    BY <1>2 DEF Observed, TypeOK
  <1>4. \A q \in Reqs :
           /\ Observed(r)[q].op = req[q].op /\ Observed(r)[q].user = req[q].user
           /\ Observed(r)[q].pw = req[q].pw /\ Observed(r)[q].new = req[q].new
           /\ Observed(r)[q].sid = req[q].sid /\ Observed(r)[q].step = req[q].step
           /\ req[q].live \subseteq Observed(r)[q].live
           /\ req[q].user = u => n \in Observed(r)[q].live
    BY DEF Observed, TypeOK, Request
  <1>5. CASE /\ password' = [password EXCEPT ![u] = n]
             /\ req' = [Observed(r) EXCEPT ![r].step = "del"]
    <2>1. req' \in [Reqs -> Request]
      BY <1>3, <1>5 DEF Request, Steps
    <2>2. \A q \in Reqs :
           /\ req'[q].op = Observed(r)[q].op /\ req'[q].user = Observed(r)[q].user
           /\ req'[q].pw = Observed(r)[q].pw /\ req'[q].new = Observed(r)[q].new
           /\ req'[q].sid = Observed(r)[q].sid /\ req'[q].live = Observed(r)[q].live
           /\ req'[q].step = IF q = r THEN "del" ELSE Observed(r)[q].step
      <3> TAKE q \in Reqs
      <3>1. req'[q] = IF q = r THEN [Observed(r)[r] EXCEPT !.step = "del"]
                              ELSE Observed(r)[q]
        BY <1>3, <1>5
      <3>2. Observed(r)[q] \in Request
        BY <1>3
      <3> QED BY <3>1, <3>2 DEF Request
    <2> QED BY <1>1, <1>4, <1>5, <2>1, <2>2
  <1>6. CASE /\ password' = [password EXCEPT ![u] = n]
             /\ req' = [Observed(r) EXCEPT ![r] = Idle]
    BY <1>1, <1>3, <1>4, <1>6, IdleIsRequest
  <1>7. CASE password' = password /\ req' = [req EXCEPT ![r] = Idle]
    BY <1>1, <1>7, IdleIsRequest DEF TypeOK
  <1> QED BY <1>5, <1>6, <1>7 DEF EditPassword, Finish

LEMMA EditPasswordKeeps ==
    ASSUME IInv, NEW r \in Reqs, EditPassword(r)
    PROVE  IInv'
  <1> USE AuthAssumption DEF IInv
  <1>0. At(r, "edit") /\ UNCHANGED <<owner, ttl, born, issued, ended, undeleted>>
    BY DEF EditPassword, history
  <1>1. TypeOK'
    BY <1>0, EditPasswordEffect DEF TypeOK
  <1>2. Shapes'
    BY EditPasswordEffect DEF TypeOK, Request, Shapes, Shape, Idle
  <1>3. Bookkeeping'
    BY <1>0, EditPasswordEffect DEF Bookkeeping, Idle
  <1>4. Pending'
    <2>1. \A q \in Reqs : req'[q].user # None => password'[req'[q].user] \in req'[q].live
      <3> SUFFICES ASSUME NEW q \in Reqs, req'[q].user # None
                   PROVE  password'[req'[q].user] \in req'[q].live
        OBVIOUS
      <3> DEFINE v == req[q].user
      <3>1. /\ req'[q].user = v /\ req[q].live \subseteq req'[q].live
            /\ password' # password /\ v = req[r].user => req[r].new \in req'[q].live
        BY EditPasswordEffect DEF Idle
      <3>2. v \in Users /\ password[v] \in req[q].live
        BY <3>1 DEF TypeOK, Request, Pending
      <3>3. password'[v] = password[v] \/ (password' # password /\ v = req[r].user
                                             /\ password'[v] = req[r].new)
        BY <3>2, EditPasswordEffect DEF TypeOK
      <3> QED BY <3>1, <3>2, <3>3
    <2>2. \A q \in Reqs : req'[q].step = "answer" =>
             /\ req[q].step = "answer" /\ req'[q].op = req[q].op /\ req'[q].sid = req[q].sid
      BY EditPasswordEffect DEF Idle
    <2> QED BY <1>0, <2>1, <2>2 DEF Pending
  <1>5. HandedOutSessionsExpire' /\ EndedSessionsAreGone'
    BY <1>0 DEF HandedOutSessionsExpire, EndedSessionsAreGone
  <1>6. ProvedPassword'
    BY EditPasswordEffect DEF ProvedPassword, At, Idle
  <1>7. ContextUserIsHolder'
    BY <1>0, EditPasswordEffect DEF ContextUserIsHolder, Idle
  <1> QED BY <1>1, <1>2, <1>3, <1>4, <1>5, <1>6, <1>7

\* A logout begins, for no user.
LEMMA StartLogoutKeeps ==
    ASSUME IInv, NEW r \in Reqs, StartLogout(r)
    PROVE  IInv'
  <1> USE AuthAssumption DEF IInv, At, Goto, Finish, store, history
  <1>1. TypeOK'
    <2>1. PICK s \in issued \cup {None} :
             req' = [req EXCEPT ![r] = [Idle EXCEPT !.op = "logout", !.sid = s,
                                     !.step = IF s = None THEN "answer" ELSE "del"]]
      BY DEF StartLogout
    <2>2. [Idle EXCEPT !.op = "logout", !.sid = s,
                       !.step = IF s = None THEN "answer" ELSE "del"] \in Request
      BY DEF Idle, Request, Steps, Ops, TypeOK
    <2> QED BY <2>1, <2>2 DEF StartLogout, TypeOK, store, history
  <1>2. Shapes'
    BY DEF StartLogout, Idle, TypeOK, Request, Shapes, Shape
  <1>3. Bookkeeping'
    BY DEF StartLogout, Idle, TypeOK, Request, Shapes, Shape, Bookkeeping
  <1>4. Pending'
    BY DEF StartLogout, Idle, TypeOK, Request, Shapes, Shape, Bookkeeping,
           Pending
  <1>5. HandedOutSessionsExpire' /\ EndedSessionsAreGone'
    BY DEF StartLogout, HandedOutSessionsExpire, EndedSessionsAreGone
  <1>6. ProvedPassword'
    BY DEF StartLogout, Idle, TypeOK, Request, Shapes, Shape, Pending,
           ProvedPassword
  <1>7. ContextUserIsHolder'
    BY DEF StartLogout, Idle, TypeOK, Request, Shapes, Shape, Bookkeeping,
           ContextUserIsHolder
  <1> QED BY <1>1, <1>2, <1>3, <1>4, <1>5, <1>6, <1>7

\* The key is gone, or the error is on record.
LEMMA DeleteSessionKeeps ==
    ASSUME IInv, NEW r \in Reqs, DeleteSession(r)
    PROVE  IInv'
  <1> USE AuthAssumption DEF IInv, At, Goto, Finish, store, history
  <1>1. TypeOK'
    <2>1. owner' \in [Sids -> Users \cup {None}] /\ ttl' \in [Sids -> BOOLEAN]
      BY DEF DeleteSession, DropKey, TypeOK
    <2>2. req' \in [Reqs -> Request]
      BY DEF DeleteSession, Goto, TypeOK, Request, Steps
    <2>3. undeleted' \subseteq Sids
      BY DEF DeleteSession, TypeOK, At, Shapes, Shape
    <2> QED BY <2>1, <2>2, <2>3 DEF DeleteSession, TypeOK
  <1>2. Shapes'
    BY DEF DeleteSession, DropKey, Idle, TypeOK, Request, Shapes, Shape
  <1>3. Bookkeeping'
    BY DEF DeleteSession, DropKey, Idle, TypeOK, Request, Shapes, Shape,
           Bookkeeping
  <1>4. Pending'
    BY DEF DeleteSession, DropKey, Idle, TypeOK, Request, Shapes, Shape,
           Bookkeeping, Pending
  <1>5. HandedOutSessionsExpire'
    BY DEF DeleteSession, DropKey, Idle, TypeOK, Request, Shapes, Shape,
           Bookkeeping, Pending, HandedOutSessionsExpire
  <1>6. ProvedPassword'
    BY DEF DeleteSession, DropKey, Idle, TypeOK, Request, Shapes, Shape,
           Pending, ProvedPassword
  <1>7. ContextUserIsHolder'
    BY DEF DeleteSession, DropKey, Idle, TypeOK, Request, Shapes, Shape,
           Bookkeeping, ContextUserIsHolder
  <1>8. EndedSessionsAreGone'
    BY DEF DeleteSession, DropKey, Idle, TypeOK, Request, Shapes, Shape,
           Bookkeeping, Pending, EndedSessionsAreGone
  <1> QED BY <1>1, <1>2, <1>3, <1>4, <1>5, <1>6, <1>7, <1>8

\* The session declared ended is gone, or its DEL reported an error.
LEMMA AnswerEndKeeps ==
    ASSUME IInv, NEW r \in Reqs, AnswerEnd(r)
    PROVE  IInv'
  <1> USE AuthAssumption DEF IInv, At, Goto, Finish, store, history
  <1>1. TypeOK'
    BY DEF AnswerEnd, Idle, TypeOK, Request, Steps, Ops, Shapes, Shape
  <1>2. Shapes'
    BY DEF AnswerEnd, Idle, TypeOK, Request, Shapes, Shape
  <1>3. Bookkeeping'
    BY DEF AnswerEnd, Idle, TypeOK, Request, Shapes, Shape, Bookkeeping
  <1>4. Pending'
    BY DEF AnswerEnd, Idle, TypeOK, Request, Shapes, Shape, Bookkeeping,
           Pending
  <1>5. HandedOutSessionsExpire'
    BY DEF AnswerEnd, Idle, TypeOK, Request, Shapes, Shape, Bookkeeping,
           Pending, HandedOutSessionsExpire
  <1>6. ProvedPassword'
    BY DEF AnswerEnd, Idle, TypeOK, Request, Shapes, Shape, Pending,
           ProvedPassword
  <1>7. ContextUserIsHolder'
    BY DEF AnswerEnd, Idle, TypeOK, Request, Shapes, Shape, Bookkeeping,
           ContextUserIsHolder
  <1>8. EndedSessionsAreGone'
    BY DEF AnswerEnd, Idle, TypeOK, Request, Shapes, Shape, Bookkeeping,
           Pending, EndedSessionsAreGone
  <1> QED BY <1>1, <1>2, <1>3, <1>4, <1>5, <1>6, <1>7, <1>8

\* A key that expires is gone with its TTL.
LEMMA SessionExpiresKeeps ==
    ASSUME IInv, NEW s \in Sids, SessionExpires(s)
    PROVE  IInv'
  <1> USE AuthAssumption DEF IInv, SessionExpires, DropKey, history
  <1>1. TypeOK'
    BY DEF TypeOK
  <1>2. Shapes' /\ ProvedPassword'
    BY DEF Shapes, ProvedPassword, At
  <1>3. Bookkeeping' /\ Pending'
    BY DEF Bookkeeping, Pending, TypeOK
  <1>4. HandedOutSessionsExpire' /\ ContextUserIsHolder' /\ EndedSessionsAreGone'
    BY DEF HandedOutSessionsExpire, ContextUserIsHolder, EndedSessionsAreGone, TypeOK
  <1> QED BY <1>1, <1>2, <1>3, <1>4

\* A crash loses the requests and nothing else.
LEMMA CrashKeeps ==
    ASSUME IInv, Crash
    PROVE  IInv'
  <1> USE AuthAssumption DEF IInv, Crash, store, history
  <1>1. TypeOK'
    BY IdleIsRequest DEF TypeOK
  <1>2. Shapes' /\ Bookkeeping' /\ Pending'
    BY DEF Shapes, Shape, Bookkeeping, Pending, Idle
  <1>3. HandedOutSessionsExpire' /\ EndedSessionsAreGone'
    BY DEF HandedOutSessionsExpire, EndedSessionsAreGone
  <1>4. ProvedPassword' /\ ContextUserIsHolder'
    BY DEF ProvedPassword, ContextUserIsHolder, At, Idle
  <1> QED BY <1>1, <1>2, <1>3, <1>4

LEMMA InitIInv == Init => IInv
  <1> SUFFICES ASSUME Init PROVE IInv
    OBVIOUS
  <1> USE AuthAssumption DEF Init
  <1>1. TypeOK
    BY IdleIsRequest DEF TypeOK
  <1>2. Shapes /\ Bookkeeping /\ Pending
    BY DEF Shapes, Shape, Bookkeeping, Pending, Idle
  <1>3. /\ HandedOutSessionsExpire /\ EndedSessionsAreGone
        /\ ProvedPassword /\ ContextUserIsHolder
    BY DEF HandedOutSessionsExpire, EndedSessionsAreGone, ProvedPassword,
           ContextUserIsHolder, At, Idle
  <1> QED BY <1>1, <1>2, <1>3 DEF IInv

LEMMA NextIInv == IInv /\ [Next]_vars => IInv'
  <1> SUFFICES ASSUME IInv, [Next]_vars PROVE IInv'
    OBVIOUS
  <1>1. ASSUME NEW r \in Reqs, Start(r) PROVE IInv'
    BY <1>1, StartLoginKeeps, StartGuardedKeeps, StartLogoutKeeps DEF Start
  <1>2. ASSUME NEW r \in Reqs, Step(r) PROVE IInv'
    BY <1>2, VerifyLoginKeeps, CreateHashKeeps, SetExpiryKeeps, AnswerLoginKeeps,
       SessionRequiredKeeps, ServeKeeps, VerifyChangeKeeps, EditPasswordKeeps,
       DeleteSessionKeeps, AnswerEndKeeps DEF Step
  <1>3. ASSUME NEW s \in Sids, SessionExpires(s) PROVE IInv'
    BY <1>3, SessionExpiresKeeps
  <1>4. CASE Crash
    BY <1>4, CrashKeeps
  <1>5. CASE UNCHANGED vars
    BY <1>5 DEF vars, store, history, IInv, TypeOK, Shapes, Bookkeeping, Pending,
           HandedOutSessionsExpire, ProvedPassword, ContextUserIsHolder,
           EndedSessionsAreGone, At
  <1> QED BY <1>1, <1>2, <1>3, <1>4, <1>5 DEF Next

THEOREM Invariance == Spec => []IInv
  BY InitIInv, NextIInv, PTL DEF Spec

-----------------------------------------------------------------------------
(* The properties of Auth, for every value of the constants *)

\* Every variable keeps its type.
THEOREM TypeCorrect == Spec => []TypeOK
  BY Invariance, PTL DEF IInv

\* Every session id a login answered with names a key that expires, whatever
\* fails or crashes between the HSET and the EXPIRE of any login.
THEOREM HandedOutExpire == Spec => []HandedOutSessionsExpire
  BY Invariance, PTL DEF IInv

\* No login or change goes through on a password that was replaced before it
\* began, however logins and changes interleave.
THEOREM PasswordIsProved == Spec => []ProvedPassword
  BY Invariance, PTL DEF IInv

\* A handler never acts for one user on a session that has become another's.
THEOREM ContextUser == Spec => []ContextUserIsHolder
  BY Invariance, PTL DEF IInv

\* An acknowledged logout or change leaves a session only if Redis refused it.
THEOREM EndedAreGone == Spec => []EndedSessionsAreGone
  BY Invariance, PTL DEF IInv

-----------------------------------------------------------------------------
(* Auth implements SessionLifecycle *)

\* The CASE of Stage, one session id at a time.
LEMMA StageValue ==
    ASSUME IInv, NEW s \in Sids
    PROVE  /\ Stage[s] = "live"   <=> owner[s] # None
           /\ Stage[s] = "dead"   <=> owner[s] = None /\ s \in born
           /\ Stage[s] = "unborn" <=> owner[s] = None /\ s \notin born
  BY DEF Stage

\* Writing a hash under a fresh id opens a session.
LEMMA OpenStep ==
    ASSUME IInv, IInv', NEW s \in FreshSids, NEW u \in Users, WriteHash(s, u)
    PROVE  Lifecycle!Open(s)
  <1> USE DEF IInv
  <1>1. s \in Sids /\ owner[s] = None
    BY DEF FreshSids, Bookkeeping
  <1>2. Stage[s] = "unborn"
    BY <1>1 DEF Stage, FreshSids
  <1>3. Stage' = [Stage EXCEPT ![s] = "live"]
    BY <1>1, AuthAssumption DEF Stage, WriteHash, TypeOK
  <1> QED BY <1>2, <1>3 DEF Lifecycle!Open, WriteHash

\* Dropping a key closes its session, or changes nothing when there was none.
LEMMA CloseStep ==
    ASSUME IInv, NEW s \in Sids, DropKey(s), born' = born
    PROVE  Lifecycle!Close(s) \/ UNCHANGED <<Stage, owner>>
  <1> USE DEF IInv
  <1>1. CASE owner[s] = None
    <2>1. owner' = owner
      BY <1>1 DEF DropKey, TypeOK
    <2> QED BY <2>1 DEF Stage
  <1>2. CASE owner[s] # None
    <2>1. Stage[s] = "live" /\ s \in born
      BY <1>2 DEF Stage, Bookkeeping
    <2>2. Stage' = [Stage EXCEPT ![s] = "dead"]
      BY <2>1 DEF Stage, DropKey, TypeOK
    <2> QED BY <2>1, <2>2 DEF Lifecycle!Close, DropKey
  <1> QED BY <1>1, <1>2

\* Every interleaving of logins, logouts, changes, expiries and crashes takes
\* each session id from unborn to live to dead, under one user.
THEOREM ImplementsLifecycle == Spec => LifecycleSpec
  <1>1. Init => Lifecycle!Init
    BY DEF Init, Lifecycle!Init, Stage
  <1>2. IInv /\ IInv' /\ [Next]_vars => [Lifecycle!Next]_(Lifecycle!vars)
    <2> SUFFICES ASSUME IInv, IInv', [Next]_vars
                 PROVE  Lifecycle!Next \/ UNCHANGED <<Stage, owner>>
      BY DEF Lifecycle!vars
    <2>1. ASSUME NEW r \in Reqs, CreateHash(r)
          PROVE  Lifecycle!Next \/ UNCHANGED <<Stage, owner>>
      <3>1. req[r].user \in Users
        BY <2>1 DEF CreateHash, At, IInv, TypeOK, Request, Ops, Shapes, Shape
      <3>2. CASE \E s \in FreshSids : WriteHash(s, req[r].user)
        BY <3>1, <3>2, OpenStep DEF Lifecycle!Next, FreshSids
      <3>3. CASE UNCHANGED <<owner, born>>
        BY <3>3 DEF Stage
      <3> QED BY <2>1, <3>2, <3>3 DEF CreateHash
    <2>2. ASSUME NEW r \in Reqs, DeleteSession(r)
          PROVE  Lifecycle!Next \/ UNCHANGED <<Stage, owner>>
      <3>1. req[r].sid \in Sids
        BY <2>2 DEF DeleteSession, At, IInv, Shapes, Shape
      <3>2. CASE DropKey(req[r].sid)
        BY <2>2, <3>1, <3>2, CloseStep DEF DeleteSession, Lifecycle!Next
      <3>3. CASE UNCHANGED <<owner, ttl>>
        BY <2>2, <3>3 DEF DeleteSession, Stage
      <3> QED BY <2>2, <3>2, <3>3 DEF DeleteSession
    <2>3. ASSUME NEW s \in Sids, SessionExpires(s)
          PROVE  Lifecycle!Next \/ UNCHANGED <<Stage, owner>>
      BY <2>3, CloseStep DEF SessionExpires, history, Lifecycle!Next
    <2>4. ASSUME UNCHANGED <<owner, born>>
          PROVE  UNCHANGED <<Stage, owner>>
      BY <2>4 DEF Stage
    <2>5. ASSUME NEW r \in Reqs, Start(r)
          PROVE  UNCHANGED <<owner, born>>
      BY <2>5 DEF Start, StartLogin, StartGuarded, StartLogout, store, history
    <2>6. ASSUME NEW r \in Reqs, Step(r)
          PROVE  CreateHash(r) \/ DeleteSession(r) \/ UNCHANGED <<owner, born>>
      BY <2>6 DEF Step, VerifyLogin, SetExpiry, AnswerLogin, SessionRequired, Serve,
             VerifyChange, EditPassword, AnswerEnd, store, history
    <2>7. CASE Crash \/ UNCHANGED vars
      BY <2>4, <2>7 DEF Crash, vars, store, history
    <2> QED BY <2>1, <2>2, <2>3, <2>4, <2>5, <2>6, <2>7 DEF Next
  <1> QED BY <1>1, <1>2, Invariance, PTL DEF Spec, LifecycleSpec, Lifecycle!Spec
=============================================================================
