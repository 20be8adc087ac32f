------------------------- MODULE RateLimiterProofs -------------------------
(***************************************************************************)
(* Proofs about RateLimiter, for any policy, any endpoints, any number of  *)
(* concurrent requests and any bound on the clock.                         *)
(*                                                                         *)
(* The quota is not inductive by itself: a counter that vanished while its *)
(* window is open would admit too many.  IInv adds that a counter outlives *)
(* the window it counts (Covering), for which a bucket's window must have  *)
(* begun when it is counted (Begun), and that until then it counts at      *)
(* least the requests it granted (Counting).  Decisions says what a        *)
(* request has been counted under at each position of Allow's two loops.   *)
(***************************************************************************)
EXTENDS RateLimiter, FiniteSetTheorems, TLAPS

\* A request between two rules stands at a rule of one of its keys.
Placed(q) == /\ q.i \in DOMAIN q.endpoint.keys
             /\ q.j \in DOMAIN RuleSeq(KeyOf(q))

InAllow(q) == q.step \in {"name", "incr"}

\* The pair of a key and a window CountHit records for rule l of key k.
CheckAt(q, k, l) == [key    |-> q.endpoint.keys[k],
                     window |-> RuleSeq(q.endpoint.keys[k])[l].window]

\* Every rule before position (i, j) has counted the request.
CountedUpTo(q, i, j) ==
    \A k \in DOMAIN q.endpoint.keys : \A l \in DOMAIN RuleSeq(q.endpoint.keys[k]) :
        k < i \/ (k = i /\ l < j) => CheckAt(q, k, l) \in q.counted

Places == \A r \in Reqs : InAllow(req[r]) => Placed(req[r])

\* A bucket is named after a window that had begun.
Begun == \A r \in Reqs : At(r, "incr") => req[r].start <= now

\* A counter outlives the window it counts.
Covering == \A b \in Buckets : count[b] > 0 => expiry[b] >= WindowEnd(b)

Holders(b) == {r \in Reqs : b \in req[r].held}

\* While a window is open its counter counts at least those it granted ...
Counting == \A b \in Buckets : now < WindowEnd(b) => Cardinality(Holders(b)) <= count[b]

\* ... and a rule never granted more than its limit.
Quota == \A b \in Buckets : \A rule \in Rules(b.key) :
            rule.window = b.window => Cardinality(Holders(b)) <= rule.limit

Decision(q) ==
    /\ q.counted \subseteq Checks(q.endpoint)
    /\ InAllow(q) => CountedUpTo(q, q.i, q.j)
    /\ q.step \in {"work", "del", "done", "refused"} => Checks(q.endpoint) \subseteq q.counted
    /\ q.step # "unavailable" => (q.allowed <=> q.tripped = {})
    /\ q.step \in {"work", "del", "done"} => q.allowed
    /\ q.step = "refused" => ~q.allowed /\ q.after = RetryAfter(q.retry)

Decisions == \A r \in Reqs : Decision(req[r])

\* The wait Allow gathers reaches the end of every window tripped so far.
Waited == \A r \in Reqs : ~At(r, "unavailable") =>
              \A b \in req[r].tripped : now + req[r].retry >= WindowEnd(b)

IInv == /\ TypeOK /\ Places /\ Begun /\ Covering /\ Counting /\ Quota
        /\ Decisions /\ Waited /\ BucketsExpire
-----------------------------------------------------------------------------
(* The data *)

LEMMA SeqElement ==
    ASSUME NEW S, NEW s \in Seq(S), NEW l \in DOMAIN s
    PROVE  s[l] \in S
  <1>1. l \in 1 .. Len(s)
    OBVIOUS
  <1> QED BY <1>1

\* A rule of a key some endpoint names is well formed.
LEMMA RuleTypes ==
    ASSUME NEW key \in Keys, NEW l \in DOMAIN RuleSeq(key)
    PROVE  /\ RuleSeq(key)[l] \in Rules(key)
           /\ RuleSeq(key)[l].limit \in Nat
           /\ RuleSeq(key)[l].window \in Nat \ {0}
           /\ RuleSeq(key)[l].window \in Windows
  <1>1. RuleSeq(key) \in Seq([limit : Nat, window : Nat \ {0}])
    BY LimiterAssumption
  <1>2. RuleSeq(key)[l] \in [limit : Nat, window : Nat \ {0}]
    BY <1>1, SeqElement
  <1>3. RuleSeq(key)[l] \in Rules(key)
    BY DEF Rules
  <1> QED BY <1>2, <1>3 DEF Windows

LEMMA KeyTypes ==
    ASSUME NEW e \in Endpoints, NEW k \in DOMAIN e.keys
    PROVE  e.keys[k] \in Keys
  BY DEF Keys

LEMMA WindowTypes ==
    ASSUME NEW w \in Windows
    PROVE  w \in Nat \ {0}
  <1>1. PICK key \in Keys : \E rule \in Rules(key) : w = rule.window
    BY DEF Windows
  <1>2. PICK rule \in Rules(key) : w = rule.window
    BY <1>1
  <1>3. PICK l \in DOMAIN RuleSeq(key) : rule = RuleSeq(key)[l]
    BY <1>2 DEF Rules
  <1> QED BY <1>2, <1>3, RuleTypes

\* Whole seconds, and one more, are more than the wait.
LEMMA SecondsCover ==
    ASSUME NEW w \in Nat
    PROVE  RetryAfter(w) \in Nat /\ Second * RetryAfter(w) + Second > w
  <1>1. CASE w < Second
    BY <1>1, LimiterAssumption DEF RetryAfter
  <1>2. CASE w >= Second
    <2>1. /\ w \div Second \in Nat /\ w % Second \in 0 .. (Second - 1)
          /\ w = Second * (w \div Second) + (w % Second)
      BY LimiterAssumption
    <2>2. Second * (w \div Second) \in Nat
      BY <2>1, LimiterAssumption
    <2>3. Second * (w \div Second) + Second > w
      BY <2>1, <2>2, LimiterAssumption
    <2> QED BY <1>2, <2>1, <2>3, LimiterAssumption DEF RetryAfter
  <1> QED BY <1>1, <1>2, LimiterAssumption

\* The start of the window the clock shows is a moment already reached.
LEMMA StartTypes ==
    ASSUME NEW w \in Nat \ {0}, now \in 0 .. MaxTime
    PROVE  WindowStart(w) \in 0 .. now
  <1> USE LimiterAssumption DEF WindowStart
  <1>1. now % w \in 0 .. (w - 1)
    OBVIOUS
  <1>2. CASE now < w
    BY <1>1, <1>2
  <1>3. CASE now >= w
    BY <1>1, <1>3
  <1> QED BY <1>2, <1>3

\* The bucket of a check, at any start, is a bucket.
LEMMA BucketTypes ==
    ASSUME NEW key \in Keys, NEW rule \in Rules(key), NEW t \in 0 .. MaxTime
    PROVE  BucketAt(key, rule.window, t) \in Buckets
  <1>1. rule.window \in Windows
    BY DEF Windows
  <1> QED BY <1>1 DEF BucketAt, Buckets

LEMMA BucketFields ==
    ASSUME NEW b \in Buckets
    PROVE  /\ b.key \in Keys /\ b.window \in Nat \ {0} /\ b.start \in Nat
           /\ WindowEnd(b) \in Nat
           /\ b = BucketAt(b.key, b.window, b.start)
  BY LimiterAssumption, WindowTypes DEF Buckets, WindowEnd, BucketAt

\* Going on to the next rule leaves everything but the position alone, ends at
\* a rule or out of Allow, and skips no rule.
LEMMA AdvancePlaces ==
    ASSUME NEW q \in Request, q.i = 0 \/ Placed(q),
           NEW q2 \in Advance(q)
    PROVE  /\ q2 \in Request
           /\ q2.step \in {"name", "work", "refused"}
           /\ q2.step = "name" => Placed(q2)
           /\ q2.step = "work" => q.allowed
           /\ q2.step = "refused" => ~q.allowed /\ q2.after = RetryAfter(q2.retry)
           /\ q2.endpoint = q.endpoint /\ q2.allowed = q.allowed
           /\ q2.retry = q.retry /\ q2.counted = q.counted
           /\ q2.tripped = q.tripped /\ q2.held = q.held
  <1>1. q.endpoint \in Endpoints /\ q.i \in Nat /\ q.j \in Nat
    BY DEF Request
  <1>2. q.endpoint.keys \in Seq(Keys)
    BY <1>1, LimiterAssumption
  <1>3. CASE q.i > 0 /\ q.j < Len(RuleSeq(KeyOf(q)))
    <2>1. q2 = [q EXCEPT !.step = "name", !.j = q.j + 1]
      BY <1>3 DEF Advance, Request
    <2>2. Placed(q)
      BY <1>3
    <2>3. RuleSeq(KeyOf(q)) \in Seq([limit : Nat, window : Nat \ {0}])
      BY <1>1, <2>2, KeyTypes, LimiterAssumption DEF Placed, KeyOf
    <2>4. q2 \in Request
      <3>1. q.j + 1 \in Nat
        BY <1>1
      <3> QED BY <2>1, <3>1 DEF Request, Steps
    <2>5. KeyOf(q2) = KeyOf(q) /\ q2.i = q.i /\ q2.j = q.j + 1 /\ q2.endpoint = q.endpoint
      BY <2>1 DEF KeyOf, Request
    <2>6. Placed(q2)
      BY <1>1, <1>3, <2>2, <2>3, <2>5 DEF Placed
    <2> QED BY <2>1, <2>4, <2>6 DEF Request
  <1>4. CASE ~(q.i > 0 /\ q.j < Len(RuleSeq(KeyOf(q)))) /\ Later(q) # {}
    <2>1. PICK k \in Later(q) : q2 = [q EXCEPT !.step = "name", !.i = k, !.j = 1]
      BY <1>4 DEF Advance
    <2>2. k \in DOMAIN q.endpoint.keys /\ k \in Nat /\ RuleSeq(q.endpoint.keys[k]) # <<>>
      BY <1>2, <2>1 DEF Later
    <2>3. RuleSeq(q.endpoint.keys[k]) \in Seq([limit : Nat, window : Nat \ {0}])
      BY <1>1, <2>2, KeyTypes, LimiterAssumption
    <2>4. 1 \in DOMAIN RuleSeq(q.endpoint.keys[k])
      BY <2>2, <2>3
    <2>5. q2 \in Request
      BY <2>1, <2>2 DEF Request, Steps
    <2>6. KeyOf(q2) = q.endpoint.keys[k] /\ q2.i = k /\ q2.j = 1 /\ q2.endpoint = q.endpoint
      BY <2>1 DEF KeyOf, Request
    <2>7. Placed(q2)
      BY <2>2, <2>4, <2>6 DEF Placed
    <2> QED BY <2>1, <2>5, <2>7 DEF Request
  <1>5. CASE ~(q.i > 0 /\ q.j < Len(RuleSeq(KeyOf(q)))) /\ Later(q) = {}
    <2>1. CASE q.allowed
      <3>1. q2 = [q EXCEPT !.step = "work"]
        BY <1>5, <2>1 DEF Advance
      <3> QED BY <2>1, <3>1 DEF Request, Steps
    <2>2. CASE ~q.allowed
      <3>1. q2 = [q EXCEPT !.step = "refused", !.after = RetryAfter(q.retry)]
        BY <1>5, <2>2 DEF Advance
      <3>2. RetryAfter(q.retry) \in Nat
        BY SecondsCover DEF Request
      <3> QED BY <2>2, <3>1, <3>2 DEF Request, Steps
    <2> QED BY <2>1, <2>2
  <1> QED BY <1>3, <1>4, <1>5

\* What was counted up to a position and at it is counted up to the next one,
\* and at the end of Allow it is every check of the endpoint.
LEMMA AdvanceCounts ==
    ASSUME NEW q \in Request, q.i = 0 \/ Placed(q),
           CountedUpTo(q, q.i, q.j),
           Placed(q) => CheckAt(q, q.i, q.j) \in q.counted,
           NEW q2 \in Advance(q)
    PROVE  IF q2.step = "name" THEN CountedUpTo(q2, q2.i, q2.j)
                               ELSE Checks(q2.endpoint) \subseteq q2.counted
  <1>1. q.endpoint \in Endpoints /\ q.i \in Nat /\ q.j \in Nat
    BY DEF Request
  <1>2. q.endpoint.keys \in Seq(Keys)
    BY <1>1, LimiterAssumption
  <1>3. \A k \in DOMAIN q.endpoint.keys :
           /\ k \in Nat \ {0}
           /\ RuleSeq(q.endpoint.keys[k]) \in Seq([limit : Nat, window : Nat \ {0}])
           /\ DOMAIN RuleSeq(q.endpoint.keys[k]) \subseteq Nat \ {0}
    BY <1>1, <1>2, KeyTypes, LimiterAssumption
  <1>4. q2.endpoint = q.endpoint /\ q2.counted = q.counted
    BY AdvancePlaces
  <1>5. CASE q.i > 0 /\ q.j < Len(RuleSeq(KeyOf(q)))
    <2>1. q2.step = "name" /\ q2.i = q.i /\ q2.j = q.j + 1
      BY <1>5 DEF Advance, Request
    <2>2. Placed(q)
      BY <1>5
    <2>3. ASSUME NEW k \in DOMAIN q.endpoint.keys, NEW l \in DOMAIN RuleSeq(q.endpoint.keys[k]),
                 k < q.i \/ (k = q.i /\ l < q.j + 1)
          PROVE  CheckAt(q, k, l) \in q.counted
      <3>1. k < q.i \/ (k = q.i /\ l < q.j) \/ (k = q.i /\ l = q.j)
        BY <1>1, <1>3, <2>3
      <3> QED BY <2>2, <3>1 DEF CountedUpTo
    <2> QED BY <1>4, <2>1, <2>3 DEF CountedUpTo, CheckAt
  <1>6. ASSUME ~(q.i > 0 /\ q.j < Len(RuleSeq(KeyOf(q)))),
               NEW k \in DOMAIN q.endpoint.keys, NEW l \in DOMAIN RuleSeq(q.endpoint.keys[k]),
               k <= q.i
        PROVE  CheckAt(q, k, l) \in q.counted
    <2>1. Placed(q) /\ q.i > 0
      BY <1>1, <1>3, <1>6
    <2>2. k = q.i => l < q.j \/ l = q.j
      BY <1>1, <1>3, <1>6, <2>1 DEF Placed, KeyOf
    <2> QED BY <1>1, <1>3, <1>6, <2>1, <2>2 DEF CountedUpTo
  <1>7. CASE ~(q.i > 0 /\ q.j < Len(RuleSeq(KeyOf(q)))) /\ Later(q) # {}
    <2>1. PICK k \in Later(q) : /\ \A l \in Later(q) : k <= l
                               /\ q2 = [q EXCEPT !.step = "name", !.i = k, !.j = 1]
      BY <1>7 DEF Advance
    <2>2. q2.step = "name" /\ q2.i = k /\ q2.j = 1
      BY <2>1 DEF Request
    <2>3. \A m \in DOMAIN q.endpoint.keys :
             m < k /\ m > q.i => RuleSeq(q.endpoint.keys[m]) = <<>>
      BY <1>1, <1>3, <2>1 DEF Later
    <2>4. ASSUME NEW m \in DOMAIN q.endpoint.keys, NEW l \in DOMAIN RuleSeq(q.endpoint.keys[m]),
                 m < k \/ (m = k /\ l < 1)
          PROVE  CheckAt(q, m, l) \in q.counted
      <3>1. m < k /\ m <= q.i
        BY <1>1, <1>3, <2>1, <2>3, <2>4 DEF Later
      <3> QED BY <1>6, <1>7, <3>1
    <2> QED BY <1>4, <2>2, <2>4 DEF CountedUpTo, CheckAt
  <1>8. CASE ~(q.i > 0 /\ q.j < Len(RuleSeq(KeyOf(q)))) /\ Later(q) = {}
    <2>1. q2.step # "name"
      BY <1>8 DEF Advance, Request
    <2>2. ASSUME NEW k \in DOMAIN q.endpoint.keys, NEW l \in DOMAIN RuleSeq(q.endpoint.keys[k])
          PROVE  CheckAt(q, k, l) \in q.counted
      <3>1. k <= q.i
        BY <1>1, <1>3, <1>8 DEF Later
      <3> QED BY <1>6, <1>8, <3>1
    <2>3. ASSUME NEW x \in Checks(q.endpoint)
          PROVE  x \in q.counted
      <3>1. PICK k \in DOMAIN q.endpoint.keys :
               /\ x.key = q.endpoint.keys[k]
               /\ \E rule \in Rules(q.endpoint.keys[k]) : x.window = rule.window
        BY DEF Checks
      <3>2. PICK l \in DOMAIN RuleSeq(q.endpoint.keys[k]) :
               x.window = RuleSeq(q.endpoint.keys[k])[l].window
        BY <3>1 DEF Rules
      <3>3. x = CheckAt(q, k, l)
        BY <3>1, <3>2 DEF Checks, KeyWindows, CheckAt
      <3> QED BY <2>2, <3>3
    <2> QED BY <1>4, <2>1, <2>3
  <1> QED BY <1>5, <1>7, <1>8

\* A request begins at its first rule, or past an Allow that checks nothing.
LEMMA Arriving ==
    ASSUME NEW e \in Endpoints, NEW q \in Arrivals(e)
    PROVE  /\ q \in Request
           /\ InAllow(q) => Placed(q) /\ q.step = "name"
           /\ Decision(q) /\ q.tripped = {} /\ q.held = {}
  <1> DEFINE q0 == [step |-> "name", endpoint |-> e, i |-> 0, j |-> 0, start |-> 0,
                    allowed |-> TRUE, retry |-> 0, after |-> 0, names |-> {},
                    counted |-> {}, tripped |-> {}, held |-> {}]
  <1>1. q0 \in Request /\ q \in Advance(q0)
    BY DEF Request, Steps, Arrivals
  <1>2. q0.i = 0 /\ q0.counted = {} /\ q0.endpoint = e /\ q0.allowed /\ q0.tripped = {} /\ q0.held = {}
    OBVIOUS
  <1>3. e.keys \in Seq(Keys)
    BY LimiterAssumption
  <1>4. ~Placed(q0)
    BY <1>2, <1>3 DEF Placed
  <1>5. CountedUpTo(q0, q0.i, q0.j)
    <2>1. \A k \in DOMAIN e.keys : k > 0
      BY <1>3
    <2> QED BY <1>2, <2>1, <1>3 DEF CountedUpTo
  <1> HIDE DEF q0
  <1>6. /\ q \in Request
        /\ q.step \in {"name", "work", "refused"}
        /\ q.step = "name" => Placed(q)
        /\ q.step = "work" => q0.allowed
        /\ q.step = "refused" => ~q0.allowed
        /\ q.endpoint = q0.endpoint /\ q.allowed = q0.allowed
        /\ q.counted = q0.counted /\ q.tripped = q0.tripped /\ q.held = q0.held
    BY <1>1, <1>2, AdvancePlaces
  <1>7. IF q.step = "name" THEN CountedUpTo(q, q.i, q.j)
                           ELSE Checks(q.endpoint) \subseteq q.counted
    BY <1>1, <1>2, <1>4, <1>5, AdvanceCounts
  <1> QED BY <1>2, <1>6, <1>7 DEF Decision, InAllow

-----------------------------------------------------------------------------
(* The counters *)

LEMMA HoldersFinite ==
    ASSUME NEW b
    PROVE  IsFiniteSet(Holders(b)) /\ Cardinality(Holders(b)) \in Nat
  <1>1. Holders(b) \in SUBSET Reqs /\ IsFiniteSet(Reqs)
    BY LimiterAssumption DEF Holders
  <1> QED BY <1>1, FS_Subset, FS_CardinalityType

\* A request that is counted holds its bucket at most once.
LEMMA HoldersGrow ==
    ASSUME NEW b, NEW r, Holders(b)' \subseteq Holders(b) \cup {r}
    PROVE  Cardinality(Holders(b)') <= Cardinality(Holders(b)) + 1
  <1>1. /\ IsFiniteSet(Holders(b) \cup {r})
        /\ Cardinality(Holders(b) \cup {r}) <= Cardinality(Holders(b)) + 1
    BY HoldersFinite, FS_AddElement
  <1>2. /\ IsFiniteSet(Holders(b)')
        /\ Cardinality(Holders(b)') <= Cardinality(Holders(b) \cup {r})
    BY <1>1, FS_Subset
  <1>3. /\ Cardinality(Holders(b)') \in Nat /\ Cardinality(Holders(b)) \in Nat
        /\ Cardinality(Holders(b) \cup {r}) \in Nat
    BY <1>1, <1>2, HoldersFinite, FS_CardinalityType
  <1> QED BY <1>1, <1>2, <1>3

LEMMA HoldersShrink ==
    ASSUME NEW b, Holders(b)' \subseteq Holders(b)
    PROVE  Cardinality(Holders(b)') <= Cardinality(Holders(b))
  BY HoldersFinite, FS_Subset

\* What a request about to call the store names.
LEMMA NamedBucket ==
    ASSUME TypeOK, Begun, NEW r \in Reqs, At(r, "incr"), Placed(req[r])
    PROVE  /\ Named(req[r]) \in Buckets
           /\ Named(req[r]).start <= now
           /\ Named(req[r]).key = KeyOf(req[r])
           /\ Named(req[r]).window = RuleOf(req[r]).window
           /\ RuleOf(req[r]) \in Rules(KeyOf(req[r]))
           /\ RuleOf(req[r]).limit \in Nat /\ RuleOf(req[r]).window \in Nat \ {0}
  <1>1. req[r] \in Request
    BY DEF TypeOK
  <1>2. req[r].endpoint \in Endpoints /\ req[r].start \in Nat /\ req[r].start <= now
    BY <1>1 DEF Request, Begun
  <1>3. KeyOf(req[r]) \in Keys
    BY <1>2, KeyTypes DEF Placed, KeyOf
  <1>4. /\ RuleOf(req[r]) \in Rules(KeyOf(req[r]))
        /\ RuleOf(req[r]).limit \in Nat
        /\ RuleOf(req[r]).window \in Nat \ {0}
    BY <1>3, RuleTypes DEF Placed, RuleOf
  <1>5. req[r].start \in 0 .. MaxTime
    BY <1>2, LimiterAssumption DEF TypeOK
  <1> QED BY <1>2, <1>3, <1>4, <1>5, BucketTypes DEF Named, BucketAt

\* The store's Incr keeps the counters typed, and every counter outlives its
\* window but not by more than the window's length.
LEMMA HitCovers ==
    ASSUME TypeOK, Covering, BucketsExpire, now' = now,
           NEW b \in Buckets, b.start <= now, Hit(b)
    PROVE  /\ count' \in [Buckets -> Nat] /\ expiry' \in [Buckets -> Nat]
           /\ Covering' /\ BucketsExpire'
           /\ Expiry(b) \in Nat /\ Hits(b) \in Nat
           /\ Expiry(b) >= WindowEnd(b) /\ Expiry(b) >= now
           /\ now < WindowEnd(b) => Hits(b) = count[b] + 1
           /\ Hits(b) >= 1
  <1>1. /\ b.window \in Nat \ {0} /\ b.start \in Nat /\ WindowEnd(b) = b.start + b.window
        /\ now \in Nat /\ count[b] \in Nat /\ expiry[b] \in Nat
    BY BucketFields, LimiterAssumption DEF TypeOK, WindowEnd
  <1>2. /\ Expiry(b) \in Nat /\ Expiry(b) >= WindowEnd(b) /\ Expiry(b) >= now
        /\ Expiry(b) <= now + b.window
    BY <1>1 DEF Expiry, Live, Covering, BucketsExpire
  <1>3. Hits(b) \in Nat /\ Hits(b) >= 1 /\ (now < WindowEnd(b) => Hits(b) = count[b] + 1)
    BY <1>1 DEF Hits, Live, Covering
  <1>4. count' \in [Buckets -> Nat] /\ expiry' \in [Buckets -> Nat]
    BY <1>2, <1>3 DEF TypeOK, Hit
  <1>5. \A c \in Buckets : \/ c = b /\ count'[c] = Hits(b) /\ expiry'[c] = Expiry(b)
                           \/ c # b /\ count'[c] = count[c] /\ expiry'[c] = expiry[c]
    BY DEF TypeOK, Hit
  <1>6. Covering'
    BY <1>2, <1>5 DEF Covering, WindowEnd
  <1>7. BucketsExpire'
    BY <1>2, <1>5 DEF BucketsExpire
  <1> QED BY <1>2, <1>3, <1>4, <1>6, <1>7

-----------------------------------------------------------------------------
(* What the steps have in common *)

LEMMA LimitTypes ==
    ASSUME NEW b \in Buckets, NEW rule \in Rules(b.key)
    PROVE  rule.limit \in Nat
  <1>1. PICK l \in DOMAIN RuleSeq(b.key) : rule = RuleSeq(b.key)[l]
    BY DEF Rules
  <1> QED BY <1>1, BucketFields, RuleTypes

\* A step of one request keeps whatever IInv says of each request, if it does of
\* that one.
LEMMA OneRequestKeeps ==
    ASSUME IInv, now' = now, NEW r \in Reqs, NEW q \in Request,
           req' = [req EXCEPT ![r] = q],
           InAllow(q) => Placed(q),
           q.step = "incr" => q.start <= now,
           Decision(q),
           q.step # "unavailable" => \A b \in q.tripped : now + q.retry >= WindowEnd(b)
    PROVE  /\ req' \in [Reqs -> Request]
           /\ Places' /\ Begun' /\ Decisions' /\ Waited'
           /\ \A b : Holders(b)' = {x \in Reqs \ {r} : b \in req[x].held}
                                        \cup (IF b \in q.held THEN {r} ELSE {})
  <1>1. \A x \in Reqs : \/ x # r /\ req'[x] = req[x]
                        \/ x = r /\ req'[x] = q
    BY DEF IInv, TypeOK
  <1>2. req' \in [Reqs -> Request]
    BY DEF IInv, TypeOK
  <1>3. Places'
    BY <1>1 DEF IInv, Places
  <1>4. Begun'
    BY <1>1 DEF IInv, Begun, At
  <1>5. Decisions'
    BY <1>1 DEF IInv, Decisions
  <1>6. Waited'
    BY <1>1 DEF IInv, Waited, At, WindowEnd
  <1>7. ASSUME NEW b
        PROVE  Holders(b)' = {x \in Reqs \ {r} : b \in req[x].held}
                                \cup (IF b \in q.held THEN {r} ELSE {})
    BY <1>1 DEF Holders
  <1> QED BY <1>2, <1>3, <1>4, <1>5, <1>6, <1>7

\* Nobody new holds a bucket, and no open window's counter goes down.
LEMMA NoNewHolders ==
    ASSUME TypeOK, Counting, Quota,
           \A b \in Buckets : Holders(b)' \subseteq Holders(b),
           \A b \in Buckets : now' < WindowEnd(b) =>
               now < WindowEnd(b) /\ count'[b] \in Nat /\ count'[b] >= count[b]
    PROVE  Counting' /\ Quota'
  <1>1. ASSUME NEW b \in Buckets
        PROVE  /\ Cardinality(Holders(b)') <= Cardinality(Holders(b))
               /\ Cardinality(Holders(b)') \in Nat /\ Cardinality(Holders(b)) \in Nat
    <2>1. Holders(b)' \subseteq Holders(b)
      OBVIOUS
    <2>2. IsFiniteSet(Holders(b)) /\ Cardinality(Holders(b)) \in Nat
      BY HoldersFinite
    <2>3. IsFiniteSet(Holders(b)') /\ Cardinality(Holders(b)') <= Cardinality(Holders(b))
      BY <2>1, <2>2, FS_Subset
    <2> QED BY <2>2, <2>3, FS_CardinalityType
  <1>2. Counting'
    <2>1. ASSUME NEW b \in Buckets, now' < WindowEnd(b)
          PROVE  Cardinality(Holders(b)') <= count'[b]
      <3>1. count[b] \in Nat
        BY DEF TypeOK
      <3>2. now < WindowEnd(b) /\ count'[b] \in Nat /\ count'[b] >= count[b]
        BY <2>1
      <3>3. Cardinality(Holders(b)) <= count[b]
        BY <3>2 DEF Counting
      <3> QED BY <1>1, <3>1, <3>2, <3>3
    <2> QED BY <2>1 DEF Counting, WindowEnd
  <1>3. Quota'
    <2>1. ASSUME NEW b \in Buckets, NEW rule \in Rules(b.key), rule.window = b.window
          PROVE  Cardinality(Holders(b)') <= rule.limit
      <3>1. rule.limit \in Nat
        BY LimitTypes
      <3>2. Cardinality(Holders(b)) <= rule.limit
        BY <2>1 DEF Quota
      <3> QED BY <1>1, <3>1, <3>2
    <2> QED BY <2>1 DEF Quota
  <1> QED BY <1>2, <1>3

-----------------------------------------------------------------------------
(* One lemma per step: it keeps IInv *)

LEMMA InitHolds ==
    ASSUME Init
    PROVE  IInv
  <1>1. \A r \in Reqs : \E e \in Endpoints : req[r] \in Arrivals(e)
    BY DEF Init
  <1>2. \A r \in Reqs : /\ req[r] \in Request
                        /\ InAllow(req[r]) => Placed(req[r]) /\ req[r].step = "name"
                        /\ Decision(req[r]) /\ req[r].tripped = {} /\ req[r].held = {}
    BY <1>1, Arriving
  <1>3. TypeOK
    BY <1>2, LimiterAssumption DEF Init, TypeOK
  <1>4. Places /\ Begun /\ Decisions /\ Waited
    BY <1>2 DEF Places, Begun, At, InAllow, Decisions, Waited
  <1>5. Covering /\ BucketsExpire
    BY DEF Init, Covering, BucketsExpire
  <1>6. \A b : Holders(b) = {}
    BY <1>2 DEF Holders
  <1>7. Cardinality({}) = 0
    BY FS_EmptySet
  <1>8. Counting
    BY <1>6, <1>7 DEF Init, Counting
  <1>9. Quota
    BY <1>6, <1>7, LimitTypes DEF Quota
  <1> QED BY <1>3, <1>4, <1>5, <1>8, <1>9 DEF IInv

LEMMA NameBucketKeeps ==
    ASSUME IInv, NEW r \in Reqs, NameBucket(r)
    PROVE  IInv'
  <1> DEFINE q == req[r]
             t == WindowStart(RuleOf(q).window)
             q2 == [q EXCEPT !.step = "incr", !.start = t]
  <1>1. /\ q \in Request /\ q.step = "name" /\ InAllow(q) /\ Placed(q) /\ Decision(q)
        /\ now \in 0 .. MaxTime
    BY DEF IInv, TypeOK, NameBucket, At, InAllow, Places, Decisions
  <1>2. RuleOf(q).window \in Nat \ {0}
    <2>1. KeyOf(q) \in Keys
      BY <1>1, KeyTypes DEF Placed, KeyOf, Request
    <2> QED BY <1>1, <2>1, RuleTypes DEF Placed, RuleOf
  <1>3. t \in Nat /\ t <= now
    BY <1>1, <1>2, StartTypes, LimiterAssumption
  <1> HIDE DEF t
  <1>4. /\ q2 \in Request
        /\ q2.step = "incr" /\ q2.start = t /\ q2.i = q.i /\ q2.j = q.j
        /\ q2.endpoint = q.endpoint /\ q2.allowed = q.allowed /\ q2.retry = q.retry
        /\ q2.counted = q.counted /\ q2.tripped = q.tripped /\ q2.held = q.held
    BY <1>1, <1>3 DEF Request, Steps
  <1>5. req' = [req EXCEPT ![r] = q2] /\ UNCHANGED <<now, count, expiry>>
    BY DEF NameBucket, t
  <1>6. \A b \in q.tripped : now + q.retry >= WindowEnd(b)
    BY <1>1 DEF IInv, Waited, At
  <1> HIDE DEF q2
  <1>7. Placed(q2)
    BY <1>1, <1>4 DEF Placed, KeyOf
  <1>8. Decision(q2)
    BY <1>1, <1>4 DEF Decision, InAllow, CountedUpTo, CheckAt
  <1>9. /\ req' \in [Reqs -> Request]
        /\ Places' /\ Begun' /\ Decisions' /\ Waited'
        /\ \A b : Holders(b)' = {x \in Reqs \ {r} : b \in req[x].held}
                                     \cup (IF b \in q2.held THEN {r} ELSE {})
    BY <1>3, <1>4, <1>5, <1>6, <1>7, <1>8, OneRequestKeeps
  <1>10. \A b : Holders(b)' \subseteq Holders(b)
    BY <1>4, <1>9 DEF Holders
  <1>11. Counting' /\ Quota'
    BY <1>5, <1>10, NoNewHolders DEF IInv, TypeOK
  <1>12. TypeOK' /\ Covering' /\ BucketsExpire'
    BY <1>5, <1>9 DEF IInv, TypeOK, Covering, BucketsExpire, WindowEnd
  <1> QED BY <1>9, <1>11, <1>12 DEF IInv

\* A request that was counted under the rule at hand goes on, or leaves Allow,
\* with what it must have counted, and with its refusals as they stand.
LEMMA CountedGoesOn ==
    ASSUME NEW q \in Request, Placed(q), CountedUpTo(q, q.i, q.j),
           q.counted \subseteq Checks(q.endpoint), q.allowed <=> q.tripped = {},
           NEW qc \in Request,
           qc.endpoint = q.endpoint, qc.i = q.i, qc.j = q.j,
           qc.counted = q.counted \cup {CheckAt(q, q.i, q.j)},
           qc.allowed <=> qc.tripped = {},
           NEW q2 \in Advance(qc)
    PROVE  /\ q2 \in Request /\ Decision(q2)
           /\ q2.step \in {"name", "work", "refused"} /\ (InAllow(q2) => Placed(q2))
           /\ q2.retry = qc.retry /\ q2.tripped = qc.tripped /\ q2.held = qc.held
  <1>1. /\ Placed(qc) /\ CountedUpTo(qc, qc.i, qc.j)
        /\ CheckAt(qc, qc.i, qc.j) \in qc.counted
    BY DEF Placed, KeyOf, CountedUpTo, CheckAt
  <1>2. /\ q2 \in Request
        /\ q2.step \in {"name", "work", "refused"}
        /\ q2.step = "name" => Placed(q2)
        /\ q2.step = "work" => qc.allowed
        /\ q2.step = "refused" => ~qc.allowed /\ q2.after = RetryAfter(q2.retry)
        /\ q2.endpoint = qc.endpoint /\ q2.allowed = qc.allowed
        /\ q2.retry = qc.retry /\ q2.counted = qc.counted
        /\ q2.tripped = qc.tripped /\ q2.held = qc.held
    BY <1>1, AdvancePlaces
  <1>3. IF q2.step = "name" THEN CountedUpTo(q2, q2.i, q2.j)
                            ELSE Checks(q2.endpoint) \subseteq q2.counted
    BY <1>1, AdvanceCounts
  <1>4. CheckAt(q, q.i, q.j) \in Checks(q.endpoint)
    <2>1. q.endpoint \in Endpoints
      BY DEF Request
    <2>2. KeyOf(q) \in Keys /\ KeyOf(q) = q.endpoint.keys[q.i]
      BY <2>1, KeyTypes DEF Placed, KeyOf
    <2>3. /\ RuleSeq(KeyOf(q))[q.j] \in Rules(KeyOf(q))
          /\ RuleSeq(KeyOf(q))[q.j].window \in Windows
      BY <2>2, RuleTypes DEF Placed
    <2> QED BY <2>2, <2>3 DEF CheckAt, Checks, KeyWindows, Placed
  <1>5. q2.counted \subseteq Checks(q2.endpoint)
    BY <1>2, <1>4
  <1> QED BY <1>2, <1>3, <1>5 DEF Decision, InAllow

LEMMA CountHitKeeps ==
    ASSUME IInv, NEW r \in Reqs, CountHit(r)
    PROVE  IInv'
  <1>0. PICK b : b = Named(req[r])
    OBVIOUS
  <1> DEFINE q == req[r]
             ok == Hits(b) <= RuleOf(q).limit
             counted == [q EXCEPT !.counted = @ \cup {[key |-> b.key, window |-> b.window]}]
             within  == [counted EXCEPT !.held = IF now < WindowEnd(b) THEN @ \cup {b} ELSE @]
             tripped == [counted EXCEPT !.allowed = FALSE,
                                        !.retry = Longest(@, Expiry(b) - now),
                                        !.tripped = @ \cup {b}]
             qc == IF ok THEN within ELSE tripped
  <1>1. /\ q \in Request /\ q.step = "incr" /\ InAllow(q) /\ Placed(q) /\ Decision(q)
        /\ now \in Nat /\ UNCHANGED now /\ At(r, "incr")
    BY LimiterAssumption DEF IInv, TypeOK, CountHit, At, InAllow, Places, Decisions
  <1>2. /\ b \in Buckets /\ b.start <= now /\ b.key = KeyOf(q) /\ b.window = RuleOf(q).window
        /\ RuleOf(q) \in Rules(KeyOf(q)) /\ RuleOf(q).limit \in Nat
    BY <1>0, <1>1, NamedBucket DEF IInv
  <1>3. /\ count' \in [Buckets -> Nat] /\ expiry' \in [Buckets -> Nat]
        /\ Covering' /\ BucketsExpire'
        /\ Expiry(b) \in Nat /\ Hits(b) \in Nat
        /\ Expiry(b) >= WindowEnd(b) /\ Expiry(b) >= now
        /\ now < WindowEnd(b) => Hits(b) = count[b] + 1
    BY <1>0, <1>1, <1>2, HitCovers DEF IInv, CountHit
  <1>4. Hit(b) /\ \E q2 \in Advance(qc) : req' = [req EXCEPT ![r] = q2]
    BY <1>0 DEF CountHit
  <1>5. [key |-> b.key, window |-> b.window] = CheckAt(q, q.i, q.j)
    BY <1>2 DEF CheckAt, KeyOf, RuleOf
  <1>6. [key |-> b.key, window |-> b.window] \in KeyWindows
    BY <1>2 DEF Buckets, KeyWindows
  <1>7. /\ q.retry \in Nat /\ Longest(q.retry, Expiry(b) - now) \in Nat
        /\ Longest(q.retry, Expiry(b) - now) >= q.retry
        /\ Longest(q.retry, Expiry(b) - now) >= Expiry(b) - now
    BY <1>1, <1>3 DEF Longest, Request
  <1>8. /\ counted \in Request
        /\ counted.endpoint = q.endpoint /\ counted.i = q.i /\ counted.j = q.j
        /\ counted.counted = q.counted \cup {CheckAt(q, q.i, q.j)}
        /\ counted.allowed = q.allowed /\ counted.retry = q.retry
        /\ counted.tripped = q.tripped /\ counted.held = q.held
    BY <1>1, <1>5, <1>6 DEF Request
  <1> HIDE DEF counted, q
  <1>9. /\ within \in Request
        /\ within.endpoint = q.endpoint /\ within.i = q.i /\ within.j = q.j
        /\ within.counted = counted.counted
        /\ within.allowed = q.allowed /\ within.retry = q.retry
        /\ within.tripped = q.tripped
        /\ within.held = IF now < WindowEnd(b) THEN q.held \cup {b} ELSE q.held
    BY <1>2, <1>8 DEF Request
  <1>10. /\ tripped \in Request
         /\ tripped.endpoint = q.endpoint /\ tripped.i = q.i /\ tripped.j = q.j
         /\ tripped.counted = counted.counted
         /\ ~tripped.allowed /\ tripped.retry = Longest(q.retry, Expiry(b) - now)
         /\ tripped.tripped = q.tripped \cup {b} /\ tripped.held = q.held
    BY <1>2, <1>7, <1>8 DEF Request
  <1> HIDE DEF within, tripped
  <1>11. /\ qc \in Request
         /\ qc.endpoint = q.endpoint /\ qc.i = q.i /\ qc.j = q.j
         /\ qc.counted = q.counted \cup {CheckAt(q, q.i, q.j)}
         /\ qc.allowed <=> qc.tripped = {}
    BY <1>1, <1>8, <1>9, <1>10 DEF Decision
  <1>12. \A c \in qc.tripped : now + qc.retry >= WindowEnd(c)
    <2>1. \A c \in q.tripped : c \in Buckets /\ now + q.retry >= WindowEnd(c)
      BY <1>1 DEF IInv, Waited, At, Request, q
    <2>2. now + Longest(q.retry, Expiry(b) - now) >= WindowEnd(b)
      BY <1>1, <1>2, <1>3, <1>7, BucketFields
    <2>3. \A c \in q.tripped : now + Longest(q.retry, Expiry(b) - now) >= WindowEnd(c)
      BY <1>1, <1>7, <2>1, BucketFields
    <2> QED BY <1>9, <1>10, <2>1, <2>2, <2>3
  <1>13. qc.held \subseteq q.held \cup {b}
         /\ (qc.held # q.held => ok /\ now < WindowEnd(b))
    BY <1>9, <1>10
  <1> HIDE DEF qc, ok
  <1>14. PICK q2 \in Advance(qc) : req' = [req EXCEPT ![r] = q2]
    BY <1>4
  <1>15. /\ q2 \in Request /\ Decision(q2)
         /\ q2.step \in {"name", "work", "refused"} /\ (InAllow(q2) => Placed(q2))
         /\ q2.retry = qc.retry /\ q2.tripped = qc.tripped /\ q2.held = qc.held
    BY <1>1, <1>11, CountedGoesOn DEF Decision
  <1>16. /\ req' \in [Reqs -> Request]
         /\ Places' /\ Begun' /\ Decisions' /\ Waited'
         /\ \A c : Holders(c)' = {x \in Reqs \ {r} : c \in req[x].held}
                                      \cup (IF c \in q2.held THEN {r} ELSE {})
    BY <1>1, <1>12, <1>14, <1>15, OneRequestKeeps
  <1>17. \A c : c # b => Holders(c)' \subseteq Holders(c)
    BY <1>13, <1>15, <1>16 DEF Holders, q
  <1>18. \A c \in Buckets : c # b => count'[c] = count[c]
    BY <1>4 DEF Hit, IInv, TypeOK
  <1>19. count'[b] = Hits(b)
    BY <1>2, <1>4 DEF Hit, IInv, TypeOK
  <1>20. Counting' /\ Quota'
    <2>1. CASE qc.held = q.held
      <3>1. \A c \in Buckets : Holders(c)' \subseteq Holders(c)
        BY <1>15, <1>16, <2>1 DEF Holders, q
      <3>2. \A c \in Buckets : now' < WindowEnd(c) =>
               now < WindowEnd(c) /\ count'[c] \in Nat /\ count'[c] >= count[c]
        BY <1>1, <1>3, <1>18, <1>19 DEF IInv, TypeOK
      <3> QED BY <3>1, <3>2, NoNewHolders DEF IInv
    <2>2. CASE ok /\ now < WindowEnd(b)
      <3>1. Holders(b)' \subseteq Holders(b) \cup {r}
        BY <1>16 DEF Holders
      <3>2. /\ Cardinality(Holders(b)') <= Cardinality(Holders(b)) + 1
            /\ Cardinality(Holders(b)) \in Nat
            /\ Cardinality(Holders(b)') \in Nat
        <4>1. IsFiniteSet(Holders(b) \cup {r})
          BY HoldersFinite, FS_AddElement
        <4> QED BY <3>1, <4>1, HoldersGrow, HoldersFinite, FS_Subset, FS_CardinalityType
      <3>3. Cardinality(Holders(b)) <= count[b] /\ count[b] \in Nat
        BY <1>2, <2>2 DEF IInv, Counting, TypeOK
      <3>4. Cardinality(Holders(b)') <= count'[b] /\ count'[b] <= RuleOf(q).limit
        BY <1>3, <1>19, <2>2, <3>2, <3>3 DEF ok
      <3>5. ASSUME NEW c \in Buckets, c # b
            PROVE  /\ Cardinality(Holders(c)') <= Cardinality(Holders(c))
                   /\ Cardinality(Holders(c)') \in Nat /\ Cardinality(Holders(c)) \in Nat
        <4>1. IsFiniteSet(Holders(c)) /\ IsFiniteSet(Holders(c)')
          BY <1>17, <3>5, HoldersFinite, FS_Subset
        <4> QED BY <1>17, <3>5, <4>1, HoldersShrink, FS_CardinalityType
      <3>6. Counting'
        <4>1. ASSUME NEW c \in Buckets, now < WindowEnd(c)
              PROVE  Cardinality(Holders(c)') <= count'[c]
          <5>1. CASE c # b
            <6>1. Cardinality(Holders(c)) <= count[c] /\ count[c] \in Nat
              BY <4>1 DEF IInv, Counting, TypeOK
            <6> QED BY <1>18, <3>5, <5>1, <6>1
          <5> QED BY <3>4, <5>1
        <4> QED BY <1>1, <4>1 DEF Counting, WindowEnd
      <3>7. Quota'
        <4>1. ASSUME NEW c \in Buckets, NEW rule \in Rules(c.key), rule.window = c.window
              PROVE  Cardinality(Holders(c)') <= rule.limit
          <5>1. CASE c # b
            <6>1. Cardinality(Holders(c)) <= rule.limit /\ rule.limit \in Nat
              BY <4>1, LimitTypes DEF IInv, Quota
            <6> QED BY <3>5, <5>1, <6>1
          <5>2. CASE c = b
            <6>1. b.key \in Keys
              BY <1>2, BucketFields
            <6>2. rule = RuleOf(q)
              BY <1>2, <4>1, <5>2, <6>1, LimiterAssumption
            <6> QED BY <1>2, <1>3, <1>19, <3>2, <3>4, <5>2, <6>2
          <5> QED BY <5>1, <5>2
        <4> QED BY <4>1 DEF Quota
      <3> QED BY <3>6, <3>7
    <2> QED BY <1>13, <2>1, <2>2
  <1>21. TypeOK'
    BY <1>1, <1>3, <1>16 DEF IInv, TypeOK
  <1> QED BY <1>3, <1>16, <1>20, <1>21 DEF IInv

\* A store error refuses the request whatever became of the hit.
LEMMA FailHitKeeps ==
    ASSUME IInv, NEW r \in Reqs, FailHit(r)
    PROVE  IInv'
  <1> DEFINE q == req[r]
             q2 == [q EXCEPT !.step = "unavailable", !.allowed = FALSE,
                             !.retry = RuleOf(q).window,
                             !.after = RetryAfter(RuleOf(q).window)]
  <1>0. PICK b : b = Named(req[r])
    OBVIOUS
  <1>1. /\ q \in Request /\ q.step = "incr" /\ Placed(q) /\ Decision(q)
        /\ now \in Nat /\ UNCHANGED now /\ At(r, "incr")
    BY LimiterAssumption DEF IInv, TypeOK, FailHit, At, InAllow, Places, Decisions
  <1>2. b \in Buckets /\ b.start <= now /\ RuleOf(q).window \in Nat
    BY <1>0, <1>1, NamedBucket DEF IInv
  <1>3. /\ count' \in [Buckets -> Nat] /\ expiry' \in [Buckets -> Nat]
        /\ Covering' /\ BucketsExpire'
        /\ \A c \in Buckets : now < WindowEnd(c) => count'[c] >= count[c]
    <2>1. CASE Hit(b)
      <3>1. \A c \in Buckets : c # b => count'[c] = count[c]
        BY <2>1 DEF Hit, IInv, TypeOK
      <3>2. count'[b] = Hits(b)
        BY <1>2, <2>1 DEF Hit, IInv, TypeOK
      <3>3. \A c \in Buckets : count[c] \in Nat
        BY DEF IInv, TypeOK
      <3> QED BY <1>1, <1>2, <2>1, <3>1, <3>2, <3>3, HitCovers DEF IInv
    <2>2. CASE UNCHANGED <<count, expiry>>
      BY <1>1, <2>2 DEF IInv, TypeOK, Covering, BucketsExpire, WindowEnd
    <2> QED BY <1>0, <2>1, <2>2 DEF FailHit
  <1>4. /\ q2 \in Request /\ q2.step = "unavailable" /\ q2.endpoint = q.endpoint
        /\ q2.counted = q.counted /\ q2.held = q.held
    BY <1>1, <1>2, SecondsCover DEF Request, Steps
  <1>5. req' = [req EXCEPT ![r] = q2]
    BY DEF FailHit
  <1> HIDE DEF q2
  <1>6. Decision(q2)
    BY <1>1, <1>4 DEF Decision, InAllow
  <1>7. /\ req' \in [Reqs -> Request]
        /\ Places' /\ Begun' /\ Decisions' /\ Waited'
        /\ \A c : Holders(c)' = {x \in Reqs \ {r} : c \in req[x].held}
                                     \cup (IF c \in q2.held THEN {r} ELSE {})
    BY <1>1, <1>4, <1>5, <1>6, OneRequestKeeps DEF InAllow
  <1>8. \A c \in Buckets : Holders(c)' \subseteq Holders(c)
    BY <1>4, <1>7 DEF Holders
  <1>9. \A c \in Buckets : now' < WindowEnd(c) =>
           now < WindowEnd(c) /\ count'[c] \in Nat /\ count'[c] >= count[c]
    BY <1>1, <1>3
  <1>10. Counting' /\ Quota'
    BY <1>8, <1>9, NoNewHolders DEF IInv
  <1>11. TypeOK'
    BY <1>1, <1>3, <1>7 DEF IInv, TypeOK
  <1> QED BY <1>3, <1>7, <1>10, <1>11 DEF IInv

\* The names collected for the reset are buckets of the endpoint's own rules.
LEMMA WorkKeeps ==
    ASSUME IInv, NEW r \in Reqs, Work(r)
    PROVE  IInv'
  <1> DEFINE q == req[r]
             N == {BucketAt(x.key, x.window, WindowStart(x.window)) : x \in Checks(q.endpoint)}
             qDone == [q EXCEPT !.step = "done"]
             qDel  == [q EXCEPT !.step = "del", !.names = N]
  <1>1. /\ q \in Request /\ q.step = "work" /\ Decision(q) /\ q.endpoint \in Endpoints
        /\ now \in 0 .. MaxTime /\ UNCHANGED <<now, count, expiry>>
    BY DEF IInv, TypeOK, Work, At, Decisions, Request
  <1>2. N \subseteq Buckets
    <2>1. ASSUME NEW x \in Checks(q.endpoint)
          PROVE  BucketAt(x.key, x.window, WindowStart(x.window)) \in Buckets
      <3>1. PICK i \in DOMAIN q.endpoint.keys :
               x.key = q.endpoint.keys[i] /\ \E rule \in Rules(q.endpoint.keys[i]) : x.window = rule.window
        BY DEF Checks
      <3>2. PICK rule \in Rules(x.key) : x.window = rule.window
        BY <3>1
      <3>3. x.key \in Keys
        BY <1>1, <3>1, KeyTypes
      <3>4. x.window \in Nat \ {0}
        BY <3>2, <3>3, WindowTypes DEF Windows
      <3>5. WindowStart(x.window) \in 0 .. MaxTime
        <4>1. WindowStart(x.window) \in 0 .. now
          BY <1>1, <3>4, StartTypes
        <4> QED BY <1>1, <4>1, LimiterAssumption
      <3> QED BY <3>2, <3>3, <3>5, BucketTypes
    <2> QED BY <2>1
  <1>3. \/ req' = [req EXCEPT ![r] = qDone]
        \/ req' = [req EXCEPT ![r] = qDel]
    BY DEF Work
  <1> HIDE DEF N
  <1>4. PICK q2 \in {qDone, qDel} : req' = [req EXCEPT ![r] = q2]
    BY <1>3
  <1>5. /\ q2 \in Request /\ q2.step \in {"done", "del"} /\ q2.endpoint = q.endpoint
        /\ q2.allowed = q.allowed /\ q2.retry = q.retry /\ q2.counted = q.counted
        /\ q2.tripped = q.tripped /\ q2.held = q.held
    BY <1>1, <1>2, <1>4 DEF Request, Steps
  <1>6. Decision(q2)
    BY <1>1, <1>5 DEF Decision, InAllow
  <1>7. \A b \in q.tripped : now + q.retry >= WindowEnd(b)
    BY <1>1 DEF IInv, Waited, At
  <1>8. /\ req' \in [Reqs -> Request]
        /\ Places' /\ Begun' /\ Decisions' /\ Waited'
        /\ \A c : Holders(c)' = {x \in Reqs \ {r} : c \in req[x].held}
                                     \cup (IF c \in q2.held THEN {r} ELSE {})
    BY <1>1, <1>4, <1>5, <1>6, <1>7, OneRequestKeeps DEF InAllow
  <1>9. \A c : Holders(c)' \subseteq Holders(c)
    BY <1>5, <1>8 DEF Holders
  <1>10. Counting' /\ Quota'
    BY <1>1, <1>9, NoNewHolders DEF IInv, TypeOK
  <1>11. TypeOK' /\ Covering' /\ BucketsExpire'
    BY <1>1, <1>8 DEF IInv, TypeOK, Covering, BucketsExpire, WindowEnd
  <1> QED BY <1>8, <1>10, <1>11 DEF IInv

\* A reset empties a bucket of its count and of its holders together.
LEMMA DelNamesKeeps ==
    ASSUME IInv, NEW r \in Reqs, DelNames(r)
    PROVE  IInv'
  <1> DEFINE names == req[r].names
  <1>1. \/ /\ count' = [b \in Buckets |-> IF b \in names THEN 0 ELSE count[b]]
           /\ req' = [x \in Reqs |-> [req[x] EXCEPT !.held = @ \ names,
                                            !.step = IF x = r THEN "done" ELSE @]]
        \/ UNCHANGED count /\ req' = [req EXCEPT ![r].step = "done"]
    BY DEF DelNames
  <1>2. /\ req[r].step = "del" /\ UNCHANGED <<now, expiry>>
        /\ \A x \in Reqs : req[x] \in Request /\ Decision(req[x])
    BY DEF IInv, TypeOK, DelNames, At, Decisions
  <1>3. \A x \in Reqs :
           /\ req'[x] \in Request
           /\ IF x = r THEN req'[x].step = "done" ELSE req'[x].step = req[x].step
           /\ req'[x].endpoint = req[x].endpoint
           /\ req'[x].i = req[x].i /\ req'[x].j = req[x].j /\ req'[x].start = req[x].start
           /\ req'[x].allowed = req[x].allowed /\ req'[x].retry = req[x].retry
           /\ req'[x].after = req[x].after
           /\ req'[x].counted = req[x].counted /\ req'[x].tripped = req[x].tripped
           /\ req'[x].held \subseteq req[x].held
    <2>1. CASE req' = [x \in Reqs |-> [req[x] EXCEPT !.held = @ \ names,
                                                    !.step = IF x = r THEN "done" ELSE @]]
      BY <1>2, <2>1 DEF Request, Steps
    <2>2. CASE req' = [req EXCEPT ![r].step = "done"]
      BY <1>2, <2>2 DEF IInv, TypeOK, Request, Steps
    <2> QED BY <1>1, <2>1, <2>2
  <1>4. \A b \in Buckets :
           \/ count'[b] = count[b]
           \/ count'[b] = 0 /\ Holders(b)' = {}
    <2>1. CASE UNCHANGED count
      BY <2>1
    <2>2. CASE /\ count' = [b \in Buckets |-> IF b \in names THEN 0 ELSE count[b]]
               /\ req' = [x \in Reqs |-> [req[x] EXCEPT !.held = @ \ names,
                                                !.step = IF x = r THEN "done" ELSE @]]
      <3>1. \A x \in Reqs : req'[x].held = req[x].held \ names
        BY <1>2, <2>2 DEF Request
      <3> QED BY <2>2, <3>1 DEF Holders
    <2> QED BY <1>1, <2>1, <2>2
  <1>5. count' \in [Buckets -> Nat] /\ req' \in [Reqs -> Request]
    <2>1. DOMAIN count' = Buckets /\ count' = [b \in Buckets |-> count'[b]]
      BY DEF DelNames, IInv, TypeOK
    <2>2. req' = [x \in Reqs |-> req'[x]]
      BY DEF DelNames, IInv, TypeOK
    <2>3. \A b \in Buckets : count'[b] \in Nat
      BY <1>4 DEF IInv, TypeOK
    <2> QED BY <1>3, <2>1, <2>2, <2>3
  <1>6. TypeOK'
    BY <1>2, <1>5 DEF IInv, TypeOK
  <1>7. Places'
    BY <1>3 DEF IInv, Places, InAllow, Placed, KeyOf
  <1>8. Begun'
    BY <1>2, <1>3 DEF IInv, Begun, At
  <1>9. Covering' /\ BucketsExpire'
    BY <1>2, <1>4 DEF IInv, TypeOK, Covering, BucketsExpire, WindowEnd
  <1>10. Waited'
    BY <1>2, <1>3 DEF IInv, Waited, At, WindowEnd
  <1>11. Decisions'
    <2>1. ASSUME NEW x \in Reqs
          PROVE  Decision(req'[x])
      <3>1. /\ InAllow(req'[x]) <=> InAllow(req[x]) /\ x # r
            /\ CountedUpTo(req'[x], req'[x].i, req'[x].j)
                   <=> CountedUpTo(req[x], req[x].i, req[x].j)
        BY <1>2, <1>3 DEF InAllow, CountedUpTo, CheckAt
      <3> QED BY <1>2, <1>3, <3>1 DEF Decision
    <2> QED BY <2>1 DEF Decisions
  <1>12. \A b : Holders(b)' \subseteq Holders(b)
    BY <1>3 DEF Holders
  <1>13. Counting' /\ Quota'
    <2>1. ASSUME NEW b \in Buckets
          PROVE  /\ Cardinality(Holders(b)') <= Cardinality(Holders(b))
                 /\ Cardinality(Holders(b)') \in Nat /\ Cardinality(Holders(b)) \in Nat
                 /\ count'[b] = 0 /\ count'[b] # count[b] => Cardinality(Holders(b)') = 0
      BY <1>4, <1>12, HoldersFinite, HoldersShrink, FS_Subset, FS_CardinalityType, FS_EmptySet
    <2>2. Counting'
      <3>1. ASSUME NEW b \in Buckets, now < WindowEnd(b)
            PROVE  Cardinality(Holders(b)') <= count'[b]
        BY <1>4, <2>1, <3>1 DEF IInv, Counting, TypeOK
      <3> QED BY <1>2, <3>1 DEF Counting, WindowEnd
    <2>3. Quota'
      <3>1. ASSUME NEW b \in Buckets, NEW rule \in Rules(b.key), rule.window = b.window
            PROVE  Cardinality(Holders(b)') <= rule.limit
        <4>1. Cardinality(Holders(b)) <= rule.limit /\ rule.limit \in Nat
          BY <3>1, LimitTypes DEF IInv, Quota
        <4> QED BY <2>1, <4>1
      <3> QED BY <3>1 DEF Quota
    <2> QED BY <2>2, <2>3
  <1> QED BY <1>6, <1>7, <1>8, <1>9, <1>10, <1>11, <1>13 DEF IInv

\* Time opens no closed window and shortens no wait.
LEMMA TickKeeps ==
    ASSUME IInv, Tick
    PROVE  IInv'
  <1>1. /\ now' = now + 1 /\ now \in Nat /\ now' \in 0 .. MaxTime
        /\ UNCHANGED <<count, expiry, req>>
    BY LimiterAssumption DEF Tick, IInv, TypeOK
  <1>2. TypeOK' /\ Places' /\ Covering'
    BY <1>1 DEF IInv, TypeOK, Places, Covering, WindowEnd
  <1>3. Decisions'
    BY <1>1 DEF IInv, Decisions
  <1>4. Begun'
    BY <1>1 DEF IInv, Begun, At, TypeOK, Request
  <1>5. BucketsExpire'
    BY <1>1, BucketFields DEF IInv, BucketsExpire, TypeOK
  <1>6. Waited'
    <2>1. ASSUME NEW r \in Reqs, ~At(r, "unavailable"), NEW b \in req[r].tripped
          PROVE  now + 1 + req[r].retry >= WindowEnd(b)
      <3>1. b \in Buckets /\ req[r].retry \in Nat
        BY DEF IInv, TypeOK, Request
      <3>2. now + req[r].retry >= WindowEnd(b)
        BY <2>1 DEF IInv, Waited
      <3> QED BY <1>1, <3>1, <3>2, BucketFields
    <2> QED BY <1>1, <2>1 DEF Waited, At, WindowEnd
  <1>7. \A b \in Buckets : Holders(b)' \subseteq Holders(b)
    BY <1>1 DEF Holders
  <1>8. \A b \in Buckets : now' < WindowEnd(b) =>
           now < WindowEnd(b) /\ count'[b] \in Nat /\ count'[b] >= count[b]
    BY <1>1, BucketFields DEF IInv, TypeOK
  <1>9. Counting' /\ Quota'
    BY <1>7, <1>8, NoNewHolders DEF IInv
  <1> QED BY <1>2, <1>3, <1>4, <1>5, <1>6, <1>9 DEF IInv

LEMMA StutterKeeps ==
    ASSUME IInv, UNCHANGED vars
    PROVE  IInv'
  <1>1. TypeOK' /\ Places' /\ Begun' /\ Covering' /\ Decisions'
    BY DEF IInv, vars, TypeOK, Places, Begun, At, Covering, WindowEnd, Decisions
  <1>2. Counting' /\ Quota'
    BY DEF IInv, vars, Counting, Quota, Holders, WindowEnd
  <1>3. Waited' /\ BucketsExpire'
    BY DEF IInv, vars, Waited, At, WindowEnd, BucketsExpire
  <1> QED BY <1>1, <1>2, <1>3 DEF IInv

-----------------------------------------------------------------------------
(* The theorems *)

\* IInv holds in every state of every behaviour.
THEOREM Invariance == Spec => []IInv
  <1>1. Init => IInv
    BY InitHolds
  <1>2. IInv /\ [Next]_vars => IInv'
    BY NameBucketKeeps, CountHitKeeps, FailHitKeeps, WorkKeeps, DelNamesKeeps,
       TickKeeps, StutterKeeps DEF Next, Step
  <1> QED BY <1>1, <1>2, PTL DEF Spec

\* Every variable keeps its type.
THEOREM TypeCorrect == Spec => []TypeOK
  <1>1. IInv => TypeOK
    BY DEF IInv
  <1> QED BY <1>1, Invariance, PTL

\* No rule admits more than its limit of requests per window (limiter.go Allow):
\* a subset of the holders, who are at most the limit.
THEOREM QuotaIsKept == Spec => []WithinQuota
  <1>1. ASSUME IInv, NEW b \in Buckets, NEW rule \in Rules(b.key), rule.window = b.window
        PROVE  Cardinality({r \in Reqs : Admitted(r) /\ b \in req[r].held}) <= rule.limit
    <2>1. {r \in Reqs : Admitted(r) /\ b \in req[r].held} \in SUBSET Holders(b)
      BY DEF Holders
    <2>2. Cardinality(Holders(b)) <= rule.limit /\ rule.limit \in Nat
      BY <1>1, LimitTypes DEF IInv, Quota
    <2> HIDE DEF Admitted
    <2> QED BY <2>1, <2>2, HoldersFinite, FS_Subset, FS_CardinalityType
  <1>2. IInv => WithinQuota
    BY <1>1 DEF WithinQuota
  <1> QED BY <1>2, Invariance, PTL

\* Nobody is admitted or refused before every rule has counted the request, and
\* nobody is admitted whom one refused (limiter.go Allow).
THEOREM EveryRuleDecides == Spec => []DecidedByEveryRule
  <1>1. IInv => DecidedByEveryRule
    BY DEF IInv, Decisions, Decision, DecidedByEveryRule, Admitted, At
  <1> QED BY <1>1, Invariance, PTL

\* A refused client that waits out its Retry-After is early by less than a second for every
\* window that caused the refusal (limiter.go Allow, middleware.go writeTooManyRequests).
THEOREM WaitsAreNearlyWhole == Spec => []EarlyByLessThanASecond
  <1>1. IInv => EarlyByLessThanASecond
    <2> SUFFICES ASSUME IInv, NEW r \in Reqs, At(r, "refused"), NEW b \in req[r].tripped
                 PROVE  Returns(r) + Second > WindowEnd(b)
      BY DEF EarlyByLessThanASecond
    <2>1. req[r] \in Request /\ b \in Buckets /\ now \in Nat
      BY LimiterAssumption DEF IInv, TypeOK, Request
    <2>2. req[r].retry \in Nat /\ req[r].after = RetryAfter(req[r].retry)
      BY <2>1 DEF IInv, Decisions, Decision, At, Request
    <2>3. now + req[r].retry >= WindowEnd(b) /\ WindowEnd(b) \in Nat
      BY <2>1, BucketFields DEF IInv, Waited, At
    <2>4. /\ RetryAfter(req[r].retry) \in Nat
          /\ Second * RetryAfter(req[r].retry) + Second > req[r].retry
      BY <2>2, SecondsCover
    <2>5. Second * RetryAfter(req[r].retry) \in Nat
      BY <2>4, LimiterAssumption
    <2> QED BY <2>1, <2>2, <2>3, <2>4, <2>5, LimiterAssumption DEF Returns
  <1> QED BY <1>1, Invariance, PTL

\* No counter stays for longer than its window's length (redis.go incrScript).
THEOREM CountersEnd == Spec => []BucketsExpire
  <1>1. IInv => BucketsExpire
    BY DEF IInv
  <1> QED BY <1>1, Invariance, PTL
=============================================================================
