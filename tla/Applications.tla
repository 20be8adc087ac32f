---------------------------- MODULE Applications ----------------------------
(***************************************************************************)
(* /applications: requests of several users to the one collection.  Each   *)
(* is one MongoDB command and so one action.  An operator marked "Fault:"  *)
(* is a faulty variant of the one after it, never part of Spec.            *)
(***************************************************************************)
EXTENDS ApplicationData

CONSTANTS Ids,             \* ids of applications
          Malformed,       \* a path segment that is no id
          Posts, Patches,  \* the bodies requests carry
          Users,
          Me,              \* any one of them, whose view PrivateStore describes
          AllStatuses      \* the status filter that filters nothing

ASSUME ApplicationsAssumption ==
    /\ Malformed \notin Ids
    /\ Posts \subseteq Body /\ Patches \subseteq Body
    /\ Me \in Users
    /\ None \notin Users \cup Content
    /\ AllStatuses \notin Statuses

VARIABLES
    owner,    \* user_id of each document; None where there is none
    content,  \* its other fields; None where there is none
    born,     \* ids ever used
    answer    \* the last answer to a request of Me

vars == <<owner, content, born, answer>>

Documents == {i \in Ids : owner[i] # None}

Init ==
    /\ owner \in [Ids -> Users \cup {None}]
    /\ content \in [Ids -> Content \cup {None}]
    /\ \A i \in Ids : content[i] = None <=> owner[i] = None
    /\ born = Documents
    /\ answer = None

-----------------------------------------------------------------------------
(* Requests *)

\* The answers: one document, or those of a list.
Answer(status, i, c) == [status |-> status, id |-> i, content |-> c]
NotFound == Answer(404, None, None)
Invalid  == Answer(400, None, None)
Failed   == Answer(500, None, None)
Rows(docs) == [status |-> 200, rows |-> docs]

\* The answer to a request of u.
Reply(u, a) == answer' = IF u = Me THEN a ELSE answer

Keep == UNCHANGED <<owner, content, born>>

\* Fault: the filter is the id alone.
ScopeFilterById(i, u) == i \in Documents

\* Whether the filter of a request of u for i matches a document.
ScopeFilter(i, u) == i \in Documents /\ owner[i] = u

Create(u) == \E b \in Posts :
    \/ RefusesNew(b) /\ Reply(u, Invalid) /\ Keep
    \/ \E i \in Ids \ born, now \in Dates :
          /\ ~RefusesNew(b)
          /\ owner'   = [owner   EXCEPT ![i] = u]
          /\ content' = [content EXCEPT ![i] = Fresh(b, now)]
          /\ born' = born \cup {i}
          /\ Reply(u, Answer(201, i, Fresh(b, now))) \/ Reply(u, Failed)

Get(u) == \E i \in Ids \cup {Malformed} :
    /\ Reply(u, IF ScopeFilter(i, u) THEN Answer(200, i, content[i]) ELSE NotFound)
    /\ Keep

Update(u) == \E i \in Ids \cup {Malformed}, b \in Patches :
    \/ i # Malformed /\ Refuses(b) /\ Reply(u, Invalid) /\ Keep
    \/ /\ ~ScopeFilter(i, u) /\ (i # Malformed => ~Refuses(b))
       /\ Reply(u, NotFound) /\ Keep
    \/ /\ ScopeFilter(i, u) /\ ~Refuses(b)
       /\ content' = [content EXCEPT ![i] = Patched(@, b)]
       /\ Reply(u, Answer(200, i, content'[i])) \/ Reply(u, Failed)
       /\ UNCHANGED <<owner, born>>

Delete(u) == \E i \in Ids \cup {Malformed} :
    \/ ~ScopeFilter(i, u) /\ Reply(u, NotFound) /\ Keep
    \/ /\ ScopeFilter(i, u)
       /\ owner'   = [owner   EXCEPT ![i] = None]
       /\ content' = [content EXCEPT ![i] = None]
       /\ Reply(u, Answer(204, i, None)) \/ Reply(u, Failed)
       /\ UNCHANGED born

ListFilter(u, f) ==
    {i \in Documents : owner[i] = u /\ (f = AllStatuses \/ content[i].status = f)}

\* GET /applications, paging aside (Listing has it): the rows of one Find.
List(u) == \E f \in Statuses \cup {AllStatuses, Bad} :
    /\ Reply(u, IF f = Bad THEN Invalid
                ELSE Rows([i \in ListFilter(u, f) |-> content[i]]))
    /\ Keep

\* The command of a request failed without effect.
Fail(u) == Reply(u, Failed) /\ Keep

Next == \E u \in Users : Create(u) \/ Get(u) \/ Update(u) \/ Delete(u) \/ List(u) \/ Fail(u)

Spec == Init /\ [][Next]_vars
-----------------------------------------------------------------------------
TypeOK ==
    /\ owner \in [Ids -> Users \cup {None}]
    /\ content \in [Ids -> Content \cup {None}]
    /\ \A i \in Ids : content[i] = None <=> owner[i] = None
    /\ Documents \subseteq born /\ born \subseteq Ids
    /\ answer = None \/ answer.status \in {200, 201, 204, 400, 404, 500}

Mine == [i \in Ids |-> IF owner[i] = Me THEN content[i] ELSE None]

Private == INSTANCE PrivateStore WITH mine <- Mine

\* To each user the collection is a store of their own: other users' requests
\* change nothing in it, and no answer tells that there is more
\* (mongoWrap/application.go scopeFilter).
PrivateSpec == Private!Spec
=============================================================================
