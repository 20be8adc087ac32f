------------------------------ MODULE Accounts ------------------------------
(***************************************************************************)
(* Accounts and the database they live in: server processes that run       *)
(* EnsureIndexes before they serve, and POST /signup of those that serve.  *)
(* The database may come from a version that had no email_normalized and a *)
(* unique index on email.                                                  *)
(*                                                                         *)
(* One action per MongoDB command.  A command that fails, with its effect  *)
(* applied or not, ends the process, as a crash does: that is Die, before  *)
(* the command or after it.  The plain indexes that constrain nothing are  *)
(* left out.  An operator marked "Fault:" is a faulty variant of the one   *)
(* after it, never part of Spec.                                           *)
(***************************************************************************)
EXTENDS Naturals, FiniteSets

CONSTANTS Addresses,        \* e-mail addresses as typed
          Fold,             \* NormalizeEmail: typed address -> folded address
          Ids,              \* user documents
          Procs,            \* server processes
          UsersCollection,  \* the collection EnsureIndexes is told to manage
          MaxDeaths,        \* bound on the process deaths of a behaviour
          None

ASSUME AccountsAssumption ==
    /\ Addresses = DOMAIN Fold
    /\ \A a \in Addresses : Fold[a] # None
    /\ None \notin [email : Addresses, normalized : {Fold[a] : a \in Addresses} \cup {None}]
    /\ MaxDeaths \in Nat

VARIABLES
    docs,     \* collection "users": [email, normalized], None where there is no document
    unique,   \* fields of "users" under a unique index
    apps,     \* index user_id_1_status_1 of the applications: "none", "unique", "plain"
    step,     \* what each process does next
    work,     \* users a process read as lacking email_normalized, still to update
    failed,   \* whether one of the CreateOne of a process failed
    deaths,   \* how many processes died
    granted,  \* history: [address, id] of every 201
    refused   \* history: addresses answered 409

process == <<step, work, failed, deaths>>
history == <<granted, refused>>
vars    == <<docs, unique, apps, process, history>>

Steps == {"down", "listApps", "dropApps", "find", "backfill", "listUsers",
          "dropUsers", "createUsers", "createApps", "serve"}

\* normalized is None where the field is missing.
Document == [email : Addresses, normalized : {Fold[a] : a \in Addresses} \cup {None}]

Legacy(a) == [email |-> a, normalized |-> None]

Present == {d \in Ids : docs[d] # None}

\* Whether the documents agree on some field a unique index would cover.
Repeats(field) == \E d, e \in Present : d # e /\ docs[d][field] = docs[e][field]

\* An empty database, or one an earlier version left: typed addresses are
\* distinct there, folded ones need not be.
Init ==
    /\ \/ /\ docs \in [Ids -> {Legacy(a) : a \in Addresses} \cup {None}]
          /\ ~Repeats("email")
          /\ unique = {"email"}
          /\ apps \in {"unique", "plain"}
       \/ docs = [d \in Ids |-> None] /\ unique = {} /\ apps = "none"
    /\ step   = [p \in Procs |-> "down"]
    /\ work   = [p \in Procs |-> {}]
    /\ failed = [p \in Procs |-> FALSE]
    /\ deaths = 0
    /\ granted = {} /\ refused = {}

\* The stores use the collection "users" whatever the configuration says.
Managed == UsersCollection = "users"

At(p, s) == step[p] = s
Goto(p, s) == step' = [step EXCEPT ![p] = s]

-----------------------------------------------------------------------------
(* EnsureIndexes *)

Start(p) ==
    /\ At(p, "down")
    /\ Goto(p, "listApps")
    /\ work'   = [work   EXCEPT ![p] = {}]
    /\ failed' = [failed EXCEPT ![p] = FALSE]
    /\ UNCHANGED <<docs, unique, apps, deaths, history>>

ListApps(p) ==
    /\ At(p, "listApps")
    /\ Goto(p, IF apps = "unique" THEN "dropApps" ELSE "find")
    /\ UNCHANGED <<docs, unique, apps, work, failed, deaths, history>>

\* DropOne goes by name: it drops whichever index has it by now, and fails when
\* none does.
DropApps(p) ==
    /\ At(p, "dropApps")
    /\ Goto(p, IF apps = "none" THEN "down" ELSE "find")
    /\ apps' = "none"
    /\ UNCHANGED <<docs, unique, work, failed, deaths, history>>

Find(p) ==
    /\ At(p, "find")
    /\ Goto(p, "backfill")
    /\ work' = [work EXCEPT ![p] =
                   IF Managed THEN {d \in Present : docs[d].normalized = None} ELSE {}]
    /\ UNCHANGED <<docs, unique, apps, failed, deaths, history>>

\* The update of document d to doc breaks a unique index.
Collides(d, doc) ==
    \E e \in Present \ {d} : \E field \in unique : docs[e][field] = doc[field]

Normalized(a) == [email |-> a, normalized |-> Fold[a]]

Backfill(p) == \E d \in work[p] :
    LET doc == Normalized(docs[d].email) IN
    /\ At(p, "backfill")
    /\ IF Collides(d, doc)
       THEN Goto(p, "down") /\ UNCHANGED <<docs, work>>
       ELSE /\ docs' = [docs EXCEPT ![d] = doc]
            /\ work' = [work EXCEPT ![p] = @ \ {d}]
            /\ UNCHANGED step
    /\ UNCHANGED <<unique, apps, failed, deaths, history>>

\* Fault: the old index is dropped, and the new one made, before the backfill.
BackfillDoneEarly(p) ==
    /\ At(p, "backfill")
    /\ Goto(p, "listUsers")
    /\ UNCHANGED <<docs, unique, apps, work, failed, deaths, history>>

BackfillDone(p) ==
    /\ At(p, "backfill") /\ work[p] = {}
    /\ Goto(p, "listUsers")
    /\ UNCHANGED <<docs, unique, apps, work, failed, deaths, history>>

\* Fault: the absence of the old index is not tolerated.
ListUsersUnchecked(p) ==
    /\ At(p, "listUsers")
    /\ Goto(p, "dropUsers")
    /\ UNCHANGED <<docs, unique, apps, work, failed, deaths, history>>

ListUsers(p) ==
    /\ At(p, "listUsers")
    /\ Goto(p, IF Managed /\ "email" \in unique THEN "dropUsers" ELSE "createUsers")
    /\ UNCHANGED <<docs, unique, apps, work, failed, deaths, history>>

\* Another process may have dropped it since: DropOne fails.
DropUsers(p) ==
    /\ At(p, "dropUsers")
    /\ Goto(p, IF "email" \in unique THEN "createUsers" ELSE "down")
    /\ unique' = unique \ {"email"}
    /\ UNCHANGED <<docs, apps, work, failed, deaths, history>>

\* Fault: an error of CreateOne is forgotten.
CreateUsersSwallowed(p) ==
    /\ At(p, "createUsers")
    /\ Goto(p, "createApps")
    /\ unique' \in {unique, unique \cup {"normalized"}}
    /\ UNCHANGED <<docs, apps, work, failed, deaths, history>>

\* CreateOne: nothing to do when the index is there, an error when the documents
\* repeat a value (a missing field counts as one), and on to the next index.
CreateUsers(p) ==
    /\ At(p, "createUsers")
    /\ Goto(p, "createApps")
    /\ \/ /\ Managed => "normalized" \in unique \/ ~Repeats("normalized")
          /\ unique' = IF Managed THEN unique \cup {"normalized"} ELSE unique
          /\ UNCHANGED failed
       \/ /\ Managed /\ "normalized" \notin unique /\ Repeats("normalized")
          /\ failed' = [failed EXCEPT ![p] = TRUE]
          /\ UNCHANGED unique
    /\ UNCHANGED <<docs, apps, work, deaths, history>>

\* Fault: the index of the applications is made unique, as an earlier version did.
CreateAppsUnique(p) ==
    /\ At(p, "createApps")
    /\ apps' = IF apps = "none" THEN "unique" ELSE apps
    /\ Goto(p, IF failed[p] THEN "down" ELSE "serve")
    /\ UNCHANGED <<docs, unique, work, failed, deaths, history>>

\* An index of the same name and other options is an error; any error ends the
\* process before it serves.
CreateApps(p) ==
    /\ At(p, "createApps")
    /\ apps' = IF apps = "none" THEN "plain" ELSE apps
    /\ Goto(p, IF failed[p] \/ apps = "unique" THEN "down" ELSE "serve")
    /\ UNCHANGED <<docs, unique, work, failed, deaths, history>>

-----------------------------------------------------------------------------
(* POST /signup *)

\* Fault: the folded address is the typed one.
InsertTyped(d, a) == docs' = [docs EXCEPT ![d] = [email |-> a, normalized |-> a]]

Insert(d, a) == docs' = [docs EXCEPT ![d] = Normalized(a)]

\* Fault: any failed insert is answered 409.
SignUpTaken(p) == \E a \in Addresses :
    /\ At(p, "serve")
    /\ refused' = refused \cup {a}
    /\ UNCHANGED <<docs, unique, apps, process, granted>>

\* The index decides: 201, 409, or a failed insert that is a 500, its effect
\* applied or not.
SignUp(p) == \E a \in Addresses, d \in Ids \ Present :
    /\ At(p, "serve")
    /\ IF Collides(d, Normalized(a))
       THEN refused' = refused \cup {a} /\ UNCHANGED <<docs, granted>>
       ELSE /\ Insert(d, a)
            /\ granted' \in {granted, granted \cup {[address |-> a, id |-> d]}}
            /\ UNCHANGED refused
    /\ UNCHANGED <<unique, apps, process>>

-----------------------------------------------------------------------------
(* A command failed, the process crashed or was stopped. *)
Die(p) ==
    /\ ~At(p, "down") /\ deaths < MaxDeaths
    /\ Goto(p, "down")
    /\ deaths' = deaths + 1
    /\ UNCHANGED <<docs, unique, apps, work, failed, history>>

Run(p) == \/ ListApps(p) \/ DropApps(p) \/ Find(p) \/ Backfill(p) \/ BackfillDone(p)
          \/ ListUsers(p) \/ DropUsers(p) \/ CreateUsers(p) \/ CreateApps(p)

Next == \E p \in Procs : Start(p) \/ Run(p) \/ SignUp(p) \/ Die(p)

Spec == Init /\ [][Next]_vars

\* A started process runs on, and whoever runs the server starts it again.
FairSpec == Spec /\ \A p \in Procs : WF_vars(Start(p)) /\ WF_vars(Run(p))
-----------------------------------------------------------------------------
TypeOK ==
    /\ docs \in [Ids -> Document \cup {None}]
    /\ unique \subseteq {"email", "normalized"}
    /\ apps \in {"none", "unique", "plain"}
    /\ step \in [Procs -> Steps]
    /\ work \in [Procs -> SUBSET Ids]
    /\ failed \in [Procs -> BOOLEAN]
    /\ deaths \in 0 .. MaxDeaths
    /\ granted \subseteq [address : Addresses, id : Ids]
    /\ refused \subseteq Addresses

Serving == \E p \in Procs : At(p, "serve")

\* Once any process serves, no two accounts share an address, however it is
\* spelled and whichever version made them (client.go EnsureIndexes, query.go CreateUser).
OneAccountPerAddress ==
    Serving => \A d, e \in Present : Fold[docs[d].email] = Fold[docs[e].email] => d = e

\* Once any process serves, a login finds every account by the folded form of
\* the address it was made with (client.go migrateUserEmailNormalized).
EveryAccountIsFound ==
    Serving => \A d \in Present : docs[d].normalized = Fold[docs[d].email]

\* Once any process serves, no index keeps a user from a second application in
\* the same status (client.go dropLegacyUniqueAppIndex), in the collection that is
\* configured: the store uses one of a fixed name.
SecondApplicationAllowed == Serving => apps # "unique"

\* What sign-up told people stays true: a 201's address leads to its account and no
\* other, and a 409's address has one (handlers/auth.go SignUp).
SignUpAnswersAreTrue ==
    /\ \A g \in granted :
          {d \in Present : docs[d].normalized = Fold[g.address]} = {g.id}
    /\ \A a \in refused : \E d \in Present : docs[d].normalized = Fold[a]

\* When CreateOne rejects the new index, some two accounts really share an
\* address: never for want of email_normalized (client.go migrateUserEmailNormalized).
OnlyDuplicatesBlock ==
    \A p \in Procs : failed[p] =>
        \E d, e \in Present : d # e /\ Fold[docs[d].email] = Fold[docs[e].email]

\* Unless two old accounts share an address, restarts end in all processes
\* serving, whatever each interrupted run left half done (client.go EnsureIndexes).
RestartsConverge ==
    (\A d, e \in Present : Fold[docs[d].email] = Fold[docs[e].email] => d = e)
        => <>[](\A p \in Procs : At(p, "serve"))
=============================================================================
