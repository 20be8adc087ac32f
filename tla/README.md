# JSM in TLA+

JSM is a job-application tracker: a Go server over MongoDB and Redis, a
TypeScript client, a stub of a browser extension. This directory models the parts of it
whose correctness depends on what happens *between* the steps of its handlers:
other requests, store errors, expiring keys, a process that dies, a clock that
moves.

Paths below are relative to the repository; `internal/` stands for
`backend/internal/`.

## The system

| Component | Code | State it keeps | Operations | What makes it correct |
|---|---|---|---|---|
| Accounts and sessions | `internal/service/auth.go`, `internal/http/handlers/auth.go`, `internal/authentication/`, `internal/store/redis/session_store.go` | `users.password_hash` (MongoDB), hashes `session:<sid>` with a TTL (Redis) | login, logout, password change, the guard in front of every other endpoint | a session is its user's, ends, and stays ended; a password change needs the old password |
| Rate limiter | `internal/rate-limiter/` | counters `rl:<scope>:<type>:<value>:<window>:<start>` with an expiry (Redis or process memory) | Allow, Reset | at most the limit per window; a store that fails admits nobody; no counter stays for good |
| Client address | `internal/rate-limiter/clientip.go` | none | resolve the address behind forwarding headers | the address found is that of the host outside the deployment that sent the request; one bucket per client |
| CSRF and cookie jar | `internal/authentication/csrf.go`, `middleware.go`, `frontend/src/api.ts` | two cookies per browser, the server's secret | mint, verify, reissue; the client's single retry | a token is good for its own session only; a mutation runs at most once |
| Sign-up | `internal/service/auth.go` CreateUser, `internal/common/mongoWrap/query.go` | `users` documents | create | one account per normalised address |
| Startup | `internal/common/mongoWrap/client.go` EnsureIndexes, `backend/cmd/api/main.go` | indexes, `email_normalized` of old documents | migrate, index, serve, shut down | reruns converge; the address is unique once the server serves |
| Applications | `internal/service/application.go`, `internal/common/mongoWrap/application.go` | `applications` documents, each with its owner | create, get, list by page, update, delete | nobody reaches another's document; an update touches what it mentions |
| Dashboard | `frontend/src/dashboard.ts`, `api.ts` | list on the screen, row in the editor, dialogs | refresh, edit, save, delete, change password | what is on the screen is what the user acted on |
| Health, profile, router, recover, logging, config, mailer, landing page, extension | the rest | none that a property is about | | |

How they interact. Every request passes the router's chain: recover, logging,
CSRF, then SessionRequired except for `/login`, `/signup`, `/logout` and
`/health`. A handler asks the limiter's Guard before it does anything expensive,
then calls its service, which calls the stores one command at a time. The server
holds no state of its own between requests: whatever two requests share is a
document in MongoDB or a key in Redis, and every interleaving of their commands
is possible. On the client, event handlers share the module's variables and
interleave at every `await`.

What is hard about it: no transaction spans two store commands, so each handler
is a sequence of steps with a gap after each; a command can fail with its effect
applied; Redis drops keys by itself; a bucket is named by the clock of one
moment and counted at another; responses carry cookies and may arrive in an
order other than the one they were sent in.

## The modules

| Module | Models | State |
|---|---|---|
| `SessionLifecycle` | what sessions promise: an id is born once, has one holder while it lives, stays dead | `stage`, `holder` |
| `Auth` | login, logout, password change, SessionRequired over MongoDB and Redis | `password`, `owner`, `ttl` (the stores), `req` (requests in flight), four history variables |
| `AuthProofs` | theorems about `Auth` | |
| `MCAuth` | `Auth` on a small instance | |
| `RateLimiter` | Allow, the handler's work, Reset over a counter store and a clock | `now`, `count`, `expiry`, `req` |
| `RateLimiterProofs` | theorems about `RateLimiter` | |
| `MCRateLimiter` | `RateLimiter` on a small instance | |
| `Accounts` | EnsureIndexes of several processes, and POST /signup | `docs`, `unique`, `apps` (the database), `step`, `work`, `failed` (the processes) |
| `AccountsProofs` | theorems about `Accounts` | |
| `MCAccounts` | `Accounts` on a small instance | |
| `ApplicationData` | a job application and the bodies of POST and PATCH: what is refused, what is stored | |
| `PrivateStore` | what multi-tenancy promises: one user's store with nobody else in it | `mine`, `answer` |
| `Applications` | /applications of several users over one collection | `owner`, `content`, `born` (the documents), `answer` |
| `ApplicationsProofs` | theorems about `Applications` | |
| `MCApplications` | `Applications` on a small instance | |
| `Listing` | the client's paging loop against changing documents | `applied` (the documents), `list` (the loop), three history variables |
| `ListingProofs` | theorems about `Listing` | |
| `MCListing` | `Listing` on a small instance | |
| `OneShot` | what a call of `request()` promises: its endpoint runs at most once, and the caller is told the truth | `outcome`, `runs` |
| `Csrf` | cookie jar, tokens, `request()` and its retry, CSRFMiddleWare, the handlers that set cookies | `jar`, `key`, `call`, `wire`, three history variables |
| `CsrfProofs` | theorems about `Csrf` | |
| `MCCsrf` | `Csrf` on a small instance | |
| `ClientAddress` | ClientIP, behind chains of proxies, and the bucket of its answer | `header` (configuration), `client`, `peer`, `hops`, `lines`, `platform` (a request on its way), two history variables |
| `ClientAddressProofs` | theorems about `ClientAddress` | |
| `MCClientAddress` | `ClientAddress` on a small instance | |
| `Dashboard` | the board, the editor dialog, the calls under way, another tab | `docs`, `used` (the server), `all`, `load`, `open`, `editing`, `draft`, `save`, `del`, `stray` (the tab), five history variables |
| `DashboardProofs` | theorems about `Dashboard` | |
| `MCDashboard` | `Dashboard` on a small instance | |

### Auth

A request is a record in `req[r]` with the step it is about to take. Each
action is one store command together with the local work before the next one:

| Action | Code |
|---|---|
| `StartLogin`, `VerifyLogin` | handler `Authenticate` up to `LookupUserByEmail` and `VerifyPassword` |
| `CreateHash`, `SetExpiry` | `SessionStore.Create`: HSET, then EXPIRE, two commands |
| `AnswerLogin` | the 200 with its cookies |
| `StartGuarded`, `SessionRequired`, `Serve` | any endpoint behind the guard, from its cookie to its answer |
| `VerifyChange`, `EditPassword` | `ChangePassword`: lookup and checks, then `UpdateOne` by `_id` |
| `StartLogout`, `DeleteSession`, `AnswerEnd` | `Logout`, and the end of `ChangePassword`: DEL, error logged, 200 |
| `SessionExpires` | Redis drops a key whose TTL ran out |
| `Crash` | the process dies; requests in flight are lost, the stores are not |

Every store command has three outcomes: it worked, it failed, it worked and its
reply was lost. A password is a model value and its hash is the password itself
(bcrypt is taken to be injective on the passwords used). The set `Weak` is what
`enforcePasswordComplexity` refuses. A session id is drawn from those never
drawn before, because it is a random UUID. Time is abstracted: a key with a TTL
may go in any state, one without never does. Accounts are never deleted: no code
deletes one. What only random-number or JSON failures reach (no token, no CSRF
cookie) is left out, and so are CSRF, which is checked before any of this, and
the 400s and 429s that touch no store.

The history variables record what no single state shows: ids ever written
(`born`), ids a 200 handed out (`issued`), ids a 200 declared ended (`ended`),
ids a DEL reported an error for (`undeleted`), and per request the passwords the
account had while it ran (`live`).

### RateLimiter

`Allow` runs two loops, over keys and over rules; `i` and `j` in a request are
its position. `NameBucket` reads the clock and builds the bucket's name,
`CountHit` is the store's Incr and the comparison after it, `FailHit` the store
error with its effect applied or not. `Work` is the handler the request was
admitted to, which then collects the names to reset, `DelNames` the DEL. `Tick`
moves the clock between any two steps. The Lua script and the memory store's
critical section are both one step, so one module stands for both stores; a
bucket is absent when its count is 0 or its expiry has passed, which is when
`sweep` or Redis removes it.

`Policy` and `Endpoints` are constants: rules per key type, and for each endpoint the
keys it passes and whether it resets. A key type without rules is skipped, as
the code does. `LimiterAssumption` asks that the rules of one key type have
different windows, as all in `DefaultPolicy` do: two with one window would share
a counter.

History per request: the checks that counted it, the buckets that refused it,
and the buckets that granted it during their window and were not reset since. `Second` is the
length of a second in ticks: the header's wait (`RetryAfter`) is in seconds and the clock is finer.

### Accounts

Server processes start, run EnsureIndexes one MongoDB command per action, and
serve sign-ups:

| Action | Code |
|---|---|
| `Start` | `run` up to EnsureIndexes |
| `ListApps`, `DropApps` | `dropLegacyUniqueAppIndex`: list, then drop by name |
| `Find`, `Backfill`, `BackfillDone` | `migrateUserEmailNormalized`: read all users without `email_normalized`, then update them one by one |
| `ListUsers`, `DropUsers` | `dropIndexIfPresent` on the old unique index on `email` |
| `CreateUsers`, `CreateApps` | `CreateOne` of the unique index, then of the applications' index; an error does not stop the loop but ends the process after it |
| `SignUp` | the handler's insert: the unique index alone decides between 201 and 409 |
| `Die` | a command failed (before or after its effect), the process crashed or was stopped |

The database at the start is empty or an earlier version's: typed addresses
distinct under the old index, folded ones not necessarily, no
`email_normalized`, the applications' index unique or not. `Fold` is the constant
function NormalizeEmail computes. A missing field counts as a value, as it does
in a MongoDB unique index; building an index is atomic. The updates of a backfill
are taken in any order. That one of them collides is modelled, since the code
returns that error, though no reachable state has such a collision. Indexes
that constrain nothing are left out, and so are the checks of a sign-up that
touch no store. `UsersCollection` is the configured collection; the stores use
`users` in any case (`Managed`).

### Applications

Every request is one MongoDB command, so one action: `Create`, `Get`, `Update`,
`Delete` and `List`, each with its refusals before the command, and `Fail` for a
command that failed without effect. A write whose reply was lost is answered
500 too. `ScopeFilter` is the filter of every command on one document; there is no
other check of the owner. A malformed id (`Malformed`) and an id of someone
else get the answer of an id that never was.

The fields of a document stand for classes: `company` for the required texts,
`status`, `applied` for the plain date, `follow_up` for what null clears. A null
in any other field decodes to the same nil pointer as an absent field, and
`Mentions` says so. `Clean` is a constant function, since trimming, escaping and
cutting is what the service does to a text: it may map a text to nothing, and
it is not idempotent. An update that mentions nothing is a read in the code and leaves
the document as it is in the model. Optional texts, lists, the link, and the
filters by tag and text add no control and are left out.

`Mine` maps the collection to the store of `Me`, who is any one of the users.

### Listing

`listAllApplications` asks for page after page. Each is two commands, `Count` and
`Find`, with requests between them: `Enter` (created, or its status now matches),
`Leave` (deleted, or matches no more), `Redate`. `Rank` is the position in the sort
by date and id, `PageSize` the server's bounds on what the client asks for,
`Ends` the three ways out of the loop. `FailPage` is any error of a page, which
throws the collected rows away. `kept` and `seen` record the documents that matched
during the whole loop and at some moment of it, `moves` what kinds of change it met.

### Csrf

One browser, whose tabs share `jar`, and the calls of `request()` in any of them:

| Action | Code |
|---|---|
| `Start` | `request()` up to its first await: the token is read from the jar, or /health is asked for one |
| `Transmit` | fetch: the browser attaches the cookies as they are when the request leaves |
| `Health` | GET /health with EnsureCSRFToken: a token that is still good is kept |
| `Refuse`, `Pass` | CSRFMiddleWare: a 403, or the endpoint behind it, which may sign in, sign out or fail |
| `Receive` | the answer's cookies land in the jar as it is by then, and the call goes on: done, an error, or the one retry after a 403 (`Retry`, `After`) |
| `Read` | the token is read again after /health |
| `Fail` | fetch rejects; the request may still be served |
| `BadGateway` | a proxy answers for a server that is down |
| `ExpireCookie`, `Restart` | the session cookie runs out; the process comes back with another random key |

A token is a record: the session and the key it was minted under, and a nonce.
`Verify` is VerifyCSRFToken. Whether a session is live is `Auth`'s subject, so a
protected endpoint may refuse any. `"post"` stands for every other mutating endpoint, sign-up among
them, so it may succeed without a session; `"get"` needs one. A password change that succeeds answers with
the same cookies as a logout and is the kind `"logout"`. The token of a login is minted for the
new session, so the two cookies of an answer agree; what can separate them is an
answer to cookies that have since been replaced. `slip` records that such an answer landed,
and `late` the calls whose cookies, or the server's key, have changed since they
were sent. The redirect cookie of csrf.go, which nothing calls, is left out.

`OneShot` has two variables. `CallsAreOneShot` is the refinement: `Pass` runs
an endpoint, `Receive`, `Read` and `Fail` tell.

### ClientAddress

A request starts at a client with whatever the two forwarding headers already
held (`Claims`), passes any chain of trusted proxies, each of which adds the
peer it was reached from to one header, on a line of its own (`Appended`) or at the
end of the last (`Joined`), and is counted by the Guard. The operators between
`Trusted` and `BucketValue` are the functions of clientip.go, over
entries instead of text: an address with its spelling (`mapped` is `::ffff:a.b.c.d`), an
entry that is no address, a line whose quotes do not close. The list `forwardedChain` returns is a
set of places (header, line, entry) and their order, `Later`; the walk from its right end
stops at `Nearest`. Proxies are not in
the repository; they do what clientip.go's comments expect of them.

Two arrangements leave the resolver no way to tell the client's entry, and
`obscured` marks them: `forwardedChain` puts every X-Forwarded-For line before every
Forwarded line, although its comment says "earliest hop first", so a
Forwarded line the client sent stands after the entry a proxy then writes to
X-Forwarded-For; and what a
proxy joins to a Forwarded line with an open quote is dropped with that line. The
platform header avoids both. `Told` says of a request that neither happened to it or that the
platform header is configured, and the two properties that hold are about such requests only.
The others are counted as well, in whatever bucket their headers lead to; the run
`client_address_order` shows the first kind. A trusted proxy configured in its `::ffff:` form
never matches, since parsed addresses are unmapped; `Trusted` assumes plain ones.

### Dashboard

| Action | Code |
|---|---|
| `OpenEditor`, `CloseEditor` | `openEditor` for a card or a new application; cancel, cross, backdrop, Escape |
| `Submit`, `AskDelete` | the form's submit and the confirmed delete, up to their awaits; each disables its button |
| `CountPage`, `FindPage` | one page of `listAllApplications`: the server counts, then finds, and the loop stops or asks for the next |
| `ServeSave`, `ServeDelete` | the server runs the request |
| `LoadAnswered`, `SaveAnswered`, `DeleteAnswered` | the handlers after their awaits |
| `Refused` | a 4xx: shown in the dialog, which stays |
| `LoadFails`, `SaveFails`, `DeleteFails`, `ServeStray` | no answer, or a 500; the request may have been served or may be later |
| `Elsewhere` | another tab creates, edits or deletes an application |

`all` maps an id to the texts of its rows on the board, so that a row that is missing,
doubled or outdated shows; the order of the cards is left out, and so are filters
and statistics, which follow `all` in the same task. The sort is left out too: `PageOf` lets
a page hold any documents, as many as the sort would put there and, while nothing moved,
none of an earlier page. `Put`, which every change of a document goes through, notes in
`crossed` the ids changed behind a list that has been read in part, and in `moved` that a
change met a load of more than one page. `Clean` is the service's
cleaning as in `ApplicationData`, and it need not be idempotent: the editor sends what it was
shown, so each save escapes the text once more (`internal/service/application.go:67`), and it sends
every field as it was when the dialog opened (`dashboard.ts:454`). Neither contradicts
a document of the repository and no property is about them.

The delete handler reads `editing` again after its await (`dashboard.ts:520`). The
document deleted is the one confirmed (`OnlyAskedChanges`), but the row that leaves the
board is that of the dialog open by then, and with a new application in it the filter throws and
the deleted row stays. `raced` names the ids this
happened to, and those changed, by this tab or another, while the first list was being read; `RowsAreDocs`
excepts them. It also claims less of a load that changes met between its pages (`moved`):
pages are numbered, so a create by this very tab can then list a row it has
nothing to do with twice, and a delete can leave one out. No row is outdated even so. The
exceptions are what `AllIsTheServersSet` forbids: the first load that overwrites a new row, which is
the trace of `dashboard_board`, and the delete handler's wrong row, which violates it as well.

### Faulty variants

A definition marked `Fault:` is a variant of the definition after it with the
kind of mistake the property named in `PROJECT.json` guards against: an ignored
error, a dropped comparison, two commands for one. None is part of a
specification. Each property of a passing run is violated when the variant
takes the place of the original.

## What the runs check

| Run | States | Shows |
|---|---|---|
| `auth` | 195,488 | `TypeOK`; `HandedOutSessionsExpire`: an id that reached a browser has a TTL; `ProvedPassword`: nobody is past the comparison with a password that was not the account's during the request; `ContextUserIsHolder`: the user in a handler's context holds the session or the session is gone; `EndedSessionsAreGone`: an acknowledged end is real unless a DEL reported an error; `LifecycleSpec`: `Auth` implements `SessionLifecycle`; under fairness, `IssuedSessionsEnd` and `RequestsEnd` |
| `limiter` | 680,694 | `TypeOK`; `WithinQuota`; `DecidedByEveryRule`; `EarlyByLessThanASecond`: a client that waits out its Retry-After meets no rule it tripped more than a part of a second before its window ends; `BucketsExpire` |
| `accounts` | 248,586 | `OneAccountPerAddress`; `EveryAccountIsFound`; `SecondApplicationAllowed`; `SignUpAnswersAreTrue`: a 201 names the one account of its address for good, a 409's address has one; `OnlyDuplicatesBlock`: the new index is rejected for real duplicates only; `RestartsConverge`: under fairness and unless old accounts share an address, all processes end up serving |
| `applications` | 17,412 | `TypeOK`; `PrivateSpec`: `Applications` implements `PrivateStore` |
| `listing` | 441,474 | `TypeOK`; `ListingIsExact`: with no change during the loop, each match once; `ArrivalsHideNothing`: documents that enter between pages may repeat rows but hide none; `DeparturesRepeatNothing`; under fairness, `ListingEnds` |
| `csrf` | 752,334 | `TypeOK`; `CookiesInStep`: the token in the jar is for the session in the jar, unless an answer to replaced cookies landed or the session cookie expired alone; `RefusedWasDisturbed`: a call is told of a 403 only when cookies or key changed under its retry or no fresh token was to be had; `CallsAreOneShot`: `Csrf` implements `OneShot`; under fairness, `CallsEnd` |
| `client_address` | 1,482,488 | `TypeOK`, with an address found in every state; `ResolvesTheClient`: of a request that says which host outside the deployment sent it (`Told`), that host; `OneBucketPerClient`: of the requests counted, those have one bucket per client |
| `dashboard` | 5,030,111 | `TypeOK`; `RowsAreDocs`: no row on the board is outdated, and without changes between the pages of its load each application has one; `OneDocPerDraft`: one opening of the dialog makes one application; `OnlyAskedChanges`: only what the user asked for changes |

Two runs show where the code does not do what the repository says:

* `auth_ended`. API.md says the session is destroyed on success, and a comment
  that after a failed DEL nobody is authenticated anyway. The error is logged,
  the answer is 200, and the cookie works again as soon as Redis does.
* `dashboard_board`. A comment says `all` is the set fetched from the server. An
  application created while the first list is on its way disappears from the board
  when the older list arrives.

and two a defect:

* `limiter_wait`. `Allow` means to report the longest wait of all tripped rules,
  but a store error for a later rule answers with that rule's window alone. The part
  of a second that Retry-After leaves off is not what this run counts.
* `client_address_order`. A comment says that spoofed entries are never reached. Behind
  a proxy that writes X-Forwarded-For, the entry of a Forwarded line the client brought
  comes last in the chain and is taken for the client.

Known from the models, without a run of their own:

* `SessionStore.Create` is HSET then EXPIRE: a crash between the two leaves a
  hash without the TTL DATABASE.md promises. Nobody holds its id
  (`HandedOutSessionsExpire`).
* Two overlapping password changes both prove the same old password, and the
  second write wins. What holds is `ProvedPassword`: the password was current at some moment
  since the session was checked.
* With `MONGO_USERS_COLLECTION` other than `users`, EnsureIndexes migrates and indexes
  a collection no store uses. The properties of `Accounts` are for `Managed` configurations.
  The same goes for applications: the index that is dropped and made is that of
  `MONGO_APPLICATIONS_COLLECTION` (`client.go:88`), and the store's collection has a fixed name
  (`internal/store/mongo/application.go:22`). `SecondApplicationAllowed` is about the first and
  reaches the stores' documents only if the two are one.
* Retry-After is cut to whole seconds, where API.md:35 speaks of the whole seconds until the
  budget refills: a client that honours it can be early. `EarlyByLessThanASecond` is
  how early.
* What a PATCH leaves alone is the same operator of `ApplicationData` in the specification and
  in the implementation, so `PrivateSpec` checks whose documents it changes and not
  which fields.
* A listing of more than MAX_PAGES pages is cut short without a word.
* Pages are numbered, not anchored: a document that leaves between two pages moves
  another into the page already read, and one that enters between the count and the
  rows takes the place of the last. `ListingIsExact` and `ArrivalsHideNothing` say
  when every match is listed.

### Bounds

`auth`: two accounts, so that a session can belong to the wrong one; two
passwords and a weak one, so that a change can be right, wrong, identical or
refused; two requests, so that every pair of operations overlaps. One session id,
used up when drawn: runs are long enough for login, use, change, logout and a late request
with the old cookie, and a second login finds no id. Two sessions side by side are
in the proofs, which are for any number of ids, and not in this run. No symmetry, because two of its
properties are about liveness.

`limiter`: a login endpoint with two keys and one rule each, and a password
endpoint with an unlimited key and a two-tier key, with limits 1 and 2 and windows
of one second and two, so that limits are met and passed and windows both coincide and
straddle; three requests, one more than the largest limit; two ticks a second (`Second`), so that a wait
need not be whole seconds; `MaxTime` 3, so that a bucket ends, expires and is named late.
Its requests are one-shot and its clock stops, hence `CHECK_DEADLOCK FALSE`.

`accounts`: two spellings of one address and another, three documents so that
an old database can hold duplicates or leave room for a sign-up, two processes, and
`MaxDeaths` 2, so that each can be lost once half-way and one of them twice. No
symmetry, because one of its properties is liveness.

`applications`: two users and two documents, so that a document can be another's
or nobody's; a text that is escaped twice and one nothing is left of; bodies that
mention nothing, that clear, that set, that are refused, and two statuses to filter by.

`listing`: four documents on pages of one row, three pages at most, so that the cap
is met as well as the two other ends of the loop, a middle page exists, and documents
can move across pages in both directions; two dates, so that both dates and ids decide.
The client asks for 5 rows, more than `MaxSize`, as 200 would be under a lower maximum.

`csrf`: two calls, so that one of any kind runs in every gap of another, over a
jar that starts empty, with a session and its token, or with a token of an earlier
boot; two keys, so that a restart can come at any point. A third call would only
be another disturbance, which `late` and `slip` already allow once. A call is used once,
hence `CHECK_DEADLOCK FALSE`.

`client_address`: three clients, two of them IPv6 in one /64 and one IPv4 that is spelled
as mapped, two proxies, one of them spelled as mapped, three hops, and up to one line of
up to two entries in each header at the start: a proxy's entry, a client's, one that is
no address, and a Forwarded line that cannot be split. Two requests are counted
(`MaxCounted`), since `OneBucketPerClient` relates two; after the second none is sent, hence
`CHECK_DEADLOCK FALSE`.

`dashboard`: two applications, so that the dialog can show another than the one a call is
for; pages of one, so that the first load takes two and everything else can come between them and
between a page's count and its rows; two openings for a new one; one failure or change elsewhere,
since each excepts the id it concerns; a text that cleaning changes twice. A third page cannot
be reached with two applications; that the cap cuts a list off is in `listing`.
Applications are interchangeable (symmetry; the run has no liveness property). Calls and
drafts run out, hence `CHECK_DEADLOCK FALSE`.

### Fairness

`Auth` assumes weak fairness of each request's own steps, since a handler goroutine
is scheduled until it returns and every store call ends, with an answer, with the driver's
own error or with the process (a request's context carries no deadline of ours), and of the expiry of each key that has a TTL, which is what Redis
guarantees. Nothing is assumed of the start of requests, nor that a store call
succeeds. `Accounts` assumes that a started process runs on and that a
process that ended is started again: nothing in the repository restarts the
server, so `RestartsConverge` is about whoever runs it and tries again. Sign-ups
and deaths are not assumed. `Listing` assumes that a page that was requested is answered, with rows or an
error: fetch ends one way or the other. `ListingEnds` therefore rests on the loop's bounds
and not on a quiet collection. `Csrf` assumes of each call
that its tab's script runs on and that a request is answered or fails; expiry,
restarts and the other calls are not assumed, and may disturb a call for ever.
`CallsEnd` rests on the retry being one. The runs of the limiter, of `Applications`,
`ClientAddress` and `Dashboard` are about safety and assume nothing.

## What is proved

For every value of the constants that satisfies the modules' assumptions,
checked by TLAPS:

* `AuthProofs`: `TypeCorrect`, `HandedOutExpire`, `PasswordIsProved`,
  `ContextUser`, `EndedAreGone`, each `Spec => []P` for the property of the same
  subject in `Auth`, and `ImplementsLifecycle`, that `Auth` implements
  `SessionLifecycle` under the mapping `Stage`.
* `RateLimiterProofs`: `TypeCorrect`, `QuotaIsKept`, `EveryRuleDecides`,
  `WaitsAreNearlyWhole`, `CountersEnd`.
* `AccountsProofs`, for processes that manage the collection the stores use
  (`Managed`): `TypeCorrect`, `AddressesAreUnique`, `AccountsAreFound`,
  `ApplicationsAreFree`, `AnswersStayTrue`, `DuplicatesBlock`.
* `ApplicationsProofs`: `TypeCorrect`, and `EachHasAPrivateStore`, that `Applications`
  implements `PrivateStore` under the mapping `Mine`.
* `CsrfProofs`: `TypeCorrect`, `CookiesStayInStep`, `RefusalsWereDisturbed`, and
  `ImplementsOneShot`, that `Csrf` implements `OneShot`.
* `DashboardProofs`: `TypeCorrect`, `RowsStayDocs`, `OneDocument`, and the action property
  `OnlyAsked`.
* `ListingProofs`: `TypeCorrect`, `QuietListingsAreExact`, `ArrivalsAreHarmless`,
  `DeparturesAreNotRepeated`.
* `ClientAddressProofs`: `TypeCorrect`, `TheClientIsFound`, `ClientsHaveTheirBuckets`.

The argument is the same in all but `ApplicationsProofs`: an inductive invariant `IInv`, one lemma per
action that the action keeps it, `Invariance`, and a corollary per property.
TLC found `IInv` to hold on the instances above before it was proved.

In `Auth`, `IInv` adds to the properties what a step says of its request
(`Shapes`), that ids held by anyone were drawn and keys with a TTL exist
(`Bookkeeping`), and what a request still owes (`Pending`): a login about to
answer has an expiring key or none, a logout about to answer has deleted its key or
logged an error, and the account's current password is among those the
request has seen. The refinement uses `Bookkeeping` for the one delicate step:
`CreateHash` draws an id outside `born`, which the mapping sees as unborn.

In `RateLimiter`, the quota rests on `Covering`, that a counter outlives the
window it counts: `Counting` can then say that while a window is open its
counter is at least the number of requests it granted, and a hit that is within
the limit makes that number at most the limit. `Covering` in turn needs `Begun`,
that a bucket is counted only after its window began. `Decisions` carries what
has been counted at each position of the two loops. `Waited` says that the wait
gathered so far reaches the end of every window tripped; `RetryAfter` takes less than a
second off (`WaitsAreNearlyWhole`).

In `Accounts`, the order of the commands is the argument: `ToFill` says that a
process in its backfill still has every user without `email_normalized` on its
list, since sign-ups insert none and the list was complete when read. So past
any backfill no such user is left (`Filled`), the new index compares folded
addresses only (`Folded`), and once made it is never dropped (`Ready`,
`Indexed`). `Granted` and `Refused` carry the answers.

In `Applications`, `Sound` (a document has an owner and well-formed fields, an id
in use was born) is inductive. For a user other than `Me` each action is a stutter of
`Me`'s store: a new id was nobody's, and a filtered command changes that user's
document only. For `Me` each action is the action of the store, because
`ScopeFilter` finds exactly what the store has (`MineIsFound`). `Me` is an
arbitrary constant in `Users`, so the theorem is about every user.

In `Csrf`, `IInv` says three things of each call. `Shape`: what a step of the client
may have on the wire. `Once`: an endpoint that has run has left its answer on the
wire or its call ended, so a 403, which runs nothing, is the only answer that leads to a second
request. `Bound`: unless the call is in `late`, its request
carries what the jar holds, and the token a retry has read is good. So a retry that was not disturbed
passes the middleware (`RefusedWasDisturbed`), and a landing answer keeps the
cookies in step (`LandedInStep`).

In `Dashboard`, `Known` says that every id the tab has heard of was given out by the
server, so a new document meets no row, dialog or call of its id. `Drafts` follows a draft
from the open dialog to the save that is served. `Paged` is about the load: while nothing moved, each
page read so far was full and held what no earlier one did, so that when the count is reached
the rows received are as many as the documents and hence all of them (from the theorems on finite
sets). `Answers` and `Board` say how
a row may differ from its document while an answer about it is on its way, and
`RowsAreDocs` follows when none is.

In `Listing`, everything is about ranks. The ranks of the matching documents are all numbers
below their count, one each (`RanksDiffer`, `RanksAreAll`, from the theorems on finite sets), so a
page is the documents of an interval of ranks and an empty page is past the last one.
`Hidden` says that while documents only arrive, which moves the others to later
pages, every document that matched all along and is ranked before the next page has been
received; `Repeated` says that while documents only leave, which moves the others to
earlier pages, what was received is ranked before the next page, so is not met again. With no change
both hold, and where the loop stops, by `Counted` or on an empty page, no match is ranked
later.

In `ClientAddress`, `Way` and `Marked` say what every proxy leaves for the next: the platform header
names the client, and so does the last place of the chain that is not a proxy's. The
first proxy writes the client's place after all others, or where `obscured` says that it
did not; every later one adds a proxy's place or one that is not read (`Extended`, `ChainGrows`).
`OneNearest` says that the walk has one place to stop at. `Own` carries
the answer to the buckets. All of it is about requests that are `Told`: nothing is proved of the
others, and `client_address_order` shows that nothing could be.

Assumed: `AuthAssumption` (weak passwords are passwords, `None` is none of the
values), `AccountsAssumption` (`Fold` is a function on the addresses, `None` is no
document), `CsrfAssumption` and `TokenAssumption` (calls, the old session and `None` are different, no
token is `None`), `DashboardAssumption` (`Clean` is a function on the texts, the ids are finitely many, a page holds
something, the bounds are numbers),
`ListingAssumption` (finitely many ids, which are numbers, dates are numbers, the bounds are positive),
`ClientAddressAssumption` and `EntryAssumption` (clients, proxies and the special values are
different, an allocation belongs to clients, a request's first headers are lines of entries),
`DataAssumption` and `ApplicationsAssumption` (`Clean` is a function on the texts,
the special values are told apart, bodies are bodies) and `LimiterAssumption` (a bounded clock, a second of some ticks, finitely many requests, well
formed rules with distinct windows per key type). TLC evaluates them.

Only model-checked: the liveness properties (`IssuedSessionsEnd`, `RequestsEnd`, `RestartsConverge`,
`ListingEnds`, `CallsEnd`), since TLAPS proves neither `ENABLED` nor what follows from fairness. Every
safety and action property that a passing run checks is a theorem. Not provable are the formulas of the
violation runs: they do not hold.

## Plan

Done, in this order: `SessionLifecycle`, `Auth`, `RateLimiter`, `Accounts`,
`Applications` and their proofs, `Listing`; then `OneShot`, `Csrf` and `CsrfProofs`,
`ClientAddress`, `Dashboard` and `DashboardProofs`; then `ListingProofs` and
`ClientAddressProofs`. What is left:

1. `Csrf` over `Auth`: sessions that end in Redis while the jar keeps their cookie, in place
   of endpoints that may refuse any session.
2. The password dialog of the dashboard, whose call is `Auth`'s and `Csrf`'s.

## Not modelled

* Shutdown. Draining is `http.Server.Shutdown`'s. If it times out, a handler finds
  its stores closed, which is what it does when they fail, and `Auth`, `Applications`
  and `RateLimiter` let every command fail. A process that stops between two commands is `Crash`,
  `Die` and `Restart`.
* Health and profile endpoints: they only read. What /health does to cookies is in `Csrf`.
* Router and recover: the order of the chain is in `Csrf` and `Auth`; logging changes
  nothing.
* Configuration, logging, error codes, JSON helpers: formatting and startup checks.
* Mailer: no caller.
* Landing page, motion, styling, mock data, extension: no behaviour a property could be about.
