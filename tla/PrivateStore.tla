---------------------------- MODULE PrivateStore ----------------------------
(* What multi-tenancy promises a user: a store with nobody else in it.  Its  *)
(* documents change by the user's own requests only, and their answers are   *)
(* those of these documents.                                                 *)
EXTENDS ApplicationData

CONSTANTS Ids,        \* ids of applications
          Malformed,  \* a path segment that is no id
          Posts, Patches,  \* the bodies requests carry
          AllStatuses      \* the status filter that filters nothing

VARIABLES mine,   \* the user's documents: contents, or None
          answer  \* the answer to the user's last request

privateVars == <<mine, answer>>

Answer(status, i, c) == [status |-> status, id |-> i, content |-> c]
NotFound == Answer(404, None, None)
Invalid  == Answer(400, None, None)
Failed   == Answer(500, None, None)
Rows(docs) == [status |-> 200, rows |-> docs]

Init == /\ mine \in [Ids -> Content \cup {None}]
        /\ answer = None

Has(i) == i \in Ids /\ mine[i] # None

Keep == UNCHANGED mine

Post == \E b \in Posts :
    \/ RefusesNew(b) /\ answer' = Invalid /\ Keep
    \/ \E i \in Ids, now \in Dates :
          /\ ~RefusesNew(b) /\ ~Has(i)
          /\ mine' = [mine EXCEPT ![i] = Fresh(b, now)]
          /\ answer' \in {Answer(201, i, Fresh(b, now)), Failed}

Get == \E i \in Ids \cup {Malformed} :
    /\ Keep
    /\ answer' = IF Has(i) THEN Answer(200, i, mine[i]) ELSE NotFound

Patch == \E i \in Ids \cup {Malformed}, b \in Patches :
    \/ i # Malformed /\ Refuses(b) /\ answer' = Invalid /\ Keep
    \/ ~Has(i) /\ (i # Malformed => ~Refuses(b)) /\ answer' = NotFound /\ Keep
    \/ /\ Has(i) /\ ~Refuses(b)
       /\ mine' = [mine EXCEPT ![i] = Patched(@, b)]
       /\ answer' \in {Answer(200, i, mine'[i]), Failed}

Delete == \E i \in Ids \cup {Malformed} :
    \/ ~Has(i) /\ answer' = NotFound /\ Keep
    \/ /\ Has(i)
       /\ mine' = [mine EXCEPT ![i] = None]
       /\ answer' \in {Answer(204, i, None), Failed}

\* The rows of a list are the user's own that match, all of them.
List == \E f \in Statuses \cup {AllStatuses, Bad} :
    /\ Keep
    /\ answer' =
          IF f = Bad THEN Invalid
          ELSE Rows([i \in {j \in Ids : /\ mine[j] # None
                                        /\ f \in {AllStatuses, mine[j].status}} |-> mine[i]])

\* A request whose command failed without effect.
Fail == answer' = Failed /\ Keep

Next == Post \/ Get \/ Patch \/ Delete \/ List \/ Fail

Spec == Init /\ [][Next]_privateVars
=============================================================================
