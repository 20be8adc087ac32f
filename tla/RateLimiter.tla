---------------------------- MODULE RateLimiter ----------------------------
(***************************************************************************)
(* The fixed-window rate limiter in front of /login, /signup and           *)
(* /reset-password: concurrent requests that call Allow, do the work it    *)
(* admits and, where the endpoint says so, Reset, over one counter store   *)
(* (Redis, or process memory) that may fail, while the clock moves between *)
(* any two steps.                                                          *)
(*                                                                         *)
(* One action per store call.  Naming a bucket reads the clock before the  *)
(* store is called, so it is a step of its own.  An operator marked        *)
(* "Fault:" is a faulty variant of the one after it, never part of Spec.   *)
(***************************************************************************)
EXTENDS Integers, Sequences, FiniteSets

CONSTANTS Policy,     \* key type -> sequence of rules [limit, window]; no entry: not limited
          Endpoints,  \* [keys : sequence of keys [type, value], resets : BOOLEAN]
          Reqs,       \* the requests
          Second,     \* ticks of the clock in a second, the unit of Retry-After
          MaxTime     \* bound on the clock

RuleSeq(key) == IF key.type \in DOMAIN Policy THEN Policy[key.type] ELSE <<>>
Rules(key) == {RuleSeq(key)[j] : j \in DOMAIN RuleSeq(key)}

Keys == UNION {{e.keys[i] : i \in DOMAIN e.keys} : e \in Endpoints}
Windows == UNION {{rule.window : rule \in Rules(key)} : key \in Keys}

\* The rules of one key type differ in their windows: the window is all that
\* tells their buckets apart.
ASSUME LimiterAssumption ==
    /\ MaxTime \in Nat /\ Second \in Nat \ {0}
    /\ IsFiniteSet(Reqs)
    /\ \A e \in Endpoints : e.keys \in Seq(Keys) /\ e.resets \in BOOLEAN
    /\ \A key \in Keys :
          /\ RuleSeq(key) \in Seq([limit : Nat, window : Nat \ {0}])
          /\ \A a, b \in Rules(key) : a.window = b.window => a = b

Buckets == {b \in [key : Keys, window : Windows, start : 0 .. MaxTime] :
               \E rule \in Rules(b.key) : rule.window = b.window}

VARIABLES
    now,    \* the clock, shared by limiter and store
    count,  \* counter of each bucket in the store, 0 when the key is absent
    expiry, \* when each bucket's key expires
    req     \* the requests

vars == <<now, count, expiry, req>>

(***************************************************************************)
(* A request: its endpoint, where Allow's two loops stand, the window it   *)
(* just named, the Decision so far, the seconds a 429 told the client to   *)
(* wait (0: none) and the names Reset collected; and, as history, the      *)
(* rules it was counted under, the buckets that refused it, and those that *)
(* granted it during their window and were not reset since.                *)
(***************************************************************************)
Steps == {"name", "incr", "work", "del", "done", "refused", "unavailable"}

KeyWindows == [key : Keys, window : Windows]

Request == [step : Steps, endpoint : Endpoints, i : Nat, j : Nat, start : Nat,
            allowed : BOOLEAN, retry : Nat, after : Nat, names : SUBSET Buckets,
            counted : SUBSET KeyWindows, tripped : SUBSET Buckets, held : SUBSET Buckets]

KeyOf(q)  == q.endpoint.keys[q.i]
RuleOf(q) == RuleSeq(KeyOf(q))[q.j]

\* The keys after the one at hand that have a policy: Allow skips the others.
Later(q) == {k \in DOMAIN q.endpoint.keys : k > q.i /\ RuleSeq(q.endpoint.keys[k]) # <<>>}

\* writeTooManyRequests: the whole seconds of the wait, and at least one.
RetryAfter(wait) == IF wait < Second THEN 1 ELSE wait \div Second

\* Where Allow goes from position (i, j): the key's next rule, the next limited
\* key, or out of both loops with its decision, which the guard answers.
Advance(q) ==
    IF q.i > 0 /\ q.j < Len(RuleSeq(KeyOf(q)))
    THEN {[q EXCEPT !.step = "name", !.j = @ + 1]}
    ELSE IF Later(q) # {}
    THEN {[q EXCEPT !.step = "name", !.i = k, !.j = 1] :
             k \in {k \in Later(q) : \A l \in Later(q) : k <= l}}
    ELSE {IF q.allowed THEN [q EXCEPT !.step = "work"]
          ELSE [q EXCEPT !.step = "refused", !.after = RetryAfter(q.retry)]}

\* A request enters Allow with nothing decided.
Arrivals(e) == Advance([step |-> "name", endpoint |-> e, i |-> 0, j |-> 0, start |-> 0,
                        allowed |-> TRUE, retry |-> 0, after |-> 0, names |-> {},
                        counted |-> {}, tripped |-> {}, held |-> {}])

Init ==
    /\ now = 0
    /\ count  = [b \in Buckets |-> 0]
    /\ expiry = [b \in Buckets |-> 0]
    /\ req \in [Reqs -> UNION {Arrivals(e) : e \in Endpoints}]

At(r, step) == req[r].step = step

BucketAt(key, window, start) == [key |-> key, window |-> window, start |-> start]
WindowEnd(b) == b.start + b.window

\* A key is there until its expiry, whether or not the store has dropped it yet.
Live(b) == count[b] > 0 /\ expiry[b] > now

-----------------------------------------------------------------------------
(* Allow *)

\* Truncate counts windows from the zero time.
WindowStart(window) == now - (now % window)

\* The bucket's name carries the window the clock shows at this moment.
NameBucket(r) ==
    /\ At(r, "name")
    /\ req' = [req EXCEPT ![r].step = "incr",
                          ![r].start = WindowStart(RuleOf(req[r]).window)]
    /\ UNCHANGED <<now, count, expiry>>

Named(q) == BucketAt(KeyOf(q), RuleOf(q).window, q.start)

\* What the store's Incr leaves: one more hit, or the first of a new key.
Hits(b)   == IF Live(b) THEN count[b] + 1 ELSE 1
Expiry(b) == IF Live(b) THEN expiry[b] ELSE now + b.window

\* Fault: INCR, then PEXPIRE in a second command that may never run.
HitTwoCommands(b) ==
    /\ count'  = [count  EXCEPT ![b] = Hits(b)]
    /\ expiry' \in {[expiry EXCEPT ![b] = x] : x \in {Expiry(b), Expiry(b) + MaxTime}}

\* Fault: every hit shortens the TTL to one tick.
HitShortTtl(b) ==
    /\ count'  = [count  EXCEPT ![b] = Hits(b)]
    /\ expiry' = [expiry EXCEPT ![b] = now + 1]

\* The script, or the critical section of the memory store: count and expiry in
\* one step.
Hit(b) ==
    /\ count'  = [count  EXCEPT ![b] = Hits(b)]
    /\ expiry' = [expiry EXCEPT ![b] = Expiry(b)]

\* Fault: the wait reported is the last tripped rule's.
LongestLast(wait, other) == other

Longest(wait, other) == IF other > wait THEN other ELSE wait

\* The store answered: the request is within the rule, or trips it and goes on.
CountHit(r) ==
    LET q == req[r]
        b == Named(q)
        ok == Hits(b) <= RuleOf(q).limit
        counted == [q EXCEPT !.counted = @ \cup {[key |-> b.key, window |-> b.window]}]
        within  == [counted EXCEPT !.held = IF now < WindowEnd(b) THEN @ \cup {b} ELSE @]
        tripped == [counted EXCEPT !.allowed = FALSE,
                                   !.retry = Longest(@, Expiry(b) - now),
                                   !.tripped = @ \cup {b}]
    IN  /\ At(r, "incr")
        /\ Hit(b)
        /\ \E q2 \in Advance(IF ok THEN within ELSE tripped) : req' = [req EXCEPT ![r] = q2]
        /\ UNCHANGED now

\* Fault: an unreachable store stops nobody.
FailHitOpen(r) ==
    /\ At(r, "incr")
    /\ \E q2 \in Advance(req[r]) : req' = [req EXCEPT ![r] = q2]
    /\ UNCHANGED <<now, count, expiry>>

\* The store failed, its effect applied or not: 429 with the rule's window.
FailHit(r) ==
    /\ At(r, "incr")
    /\ Hit(Named(req[r])) \/ UNCHANGED <<count, expiry>>
    /\ req' = [req EXCEPT ![r].step = "unavailable", ![r].allowed = FALSE,
                          ![r].retry = RuleOf(req[r]).window,
                          ![r].after = RetryAfter(RuleOf(req[r]).window)]
    /\ UNCHANGED now

-----------------------------------------------------------------------------
(* The handler, and Reset *)

Checks(e) == {x \in KeyWindows : \E i \in DOMAIN e.keys :
                 x.key = e.keys[i] /\ \E rule \in Rules(e.keys[i]) : x.window = rule.window}

\* The handler failed, succeeded on an endpoint that never resets, or succeeded
\* and collects the names of the buckets of this moment.
Work(r) ==
    /\ At(r, "work")
    /\ \/ req' = [req EXCEPT ![r].step = "done"]
       \/ /\ req[r].endpoint.resets
          /\ req' = [req EXCEPT ![r].step = "del", ![r].names =
                        {BucketAt(x.key, x.window, WindowStart(x.window)) :
                            x \in Checks(req[r].endpoint)}]
    /\ UNCHANGED <<now, count, expiry>>

\* Fault: the hit is given back instead of the budget.
DelNamesDecrement(r) ==
    /\ At(r, "del")
    /\ count' = [b \in Buckets |-> IF b \in req[r].names THEN count[b] - 1 ELSE count[b]]
    /\ req' = [req EXCEPT ![r].step = "done"]
    /\ UNCHANGED <<now, expiry>>

\* DEL of all the names at once; its error is only logged.
DelNames(r) ==
    LET names == req[r].names IN
    /\ At(r, "del")
    /\ \/ /\ count' = [b \in Buckets |-> IF b \in names THEN 0 ELSE count[b]]
          /\ req' = [q \in Reqs |-> [req[q] EXCEPT !.held = @ \ names,
                                        !.step = IF q = r THEN "done" ELSE @]]
       \/ UNCHANGED count /\ req' = [req EXCEPT ![r].step = "done"]
    /\ UNCHANGED <<now, expiry>>

Tick ==
    /\ now < MaxTime
    /\ now' = now + 1
    /\ UNCHANGED <<count, expiry, req>>

Step(r) == \/ NameBucket(r) \/ CountHit(r) \/ FailHit(r) \/ Work(r) \/ DelNames(r)

Next == Tick \/ \E r \in Reqs : Step(r)

Spec == Init /\ [][Next]_vars
-----------------------------------------------------------------------------
TypeOK ==
    /\ now \in 0 .. MaxTime
    /\ count \in [Buckets -> Nat]
    /\ expiry \in [Buckets -> Nat]
    /\ req \in [Reqs -> Request]

Admitted(r) == req[r].step \in {"work", "del", "done"}

\* However requests, expiries, store errors and the clock interleave, a rule
\* admits at most its limit of requests that were counted during one of its
\* windows and not pardoned by a reset (limiter.go Allow, Rule).
WithinQuota ==
    \A b \in Buckets : \A rule \in Rules(b.key) :
        rule.window = b.window =>
            Cardinality({r \in Reqs : Admitted(r) /\ b \in req[r].held}) <= rule.limit

\* A request is admitted only once every rule of every key has counted it and
\* none refused it: an unreachable store admits nobody, and a refusal by one
\* rule does not spare the others (limiter.go Allow, middleware.go AllowRequest).
DecidedByEveryRule ==
    \A r \in Reqs : (Admitted(r) \/ At(r, "refused")) =>
        /\ req[r].counted = Checks(req[r].endpoint)
        /\ Admitted(r) <=> req[r].tripped = {}

\* A client that waits out its Retry-After, from whenever it answers.
Returns(r) == now + Second * req[r].after

\* A refused client that waits out its Retry-After is early by less than a second for
\* every rule it tripped: the header is the longest wait (limiter.go Allow) without its
\* part of a second (middleware.go writeTooManyRequests).
EarlyByLessThanASecond ==
    \A r \in Reqs : At(r, "refused") =>
        \A b \in req[r].tripped : Returns(r) + Second > WindowEnd(b)

\* No counter outlives its window's length: nobody is blocked for good by a
\* process that died half way (redis.go incrScript, memory.go Incr).
BucketsExpire == \A b \in Buckets : count[b] > 0 => expiry[b] <= now + b.window

-----------------------------------------------------------------------------
(* What the repository says of the program and the code does not keep *)

\* limiter.go Allow: "Report the longest wait across every tripped rule.  Telling
\* a caller to retry in 30s while a one-hour bucket is also exhausted just
\* invites another rejected request."  The part of a second that Retry-After leaves
\* off is not held against it here.
EveryWaitCoversRefill ==
    \A r \in Reqs : At(r, "refused") \/ At(r, "unavailable") =>
        \A b \in req[r].tripped : Returns(r) + Second > WindowEnd(b)
=============================================================================
