------------------------- MODULE ApplicationsProofs -------------------------
(* Theorems about Applications: its types, and that it implements the       *)
(* private store of any one user.                                           *)
EXTENDS Applications, TLAPS

USE DataAssumption, ApplicationsAssumption

-----------------------------------------------------------------------------
(* Documents *)

\* A document whose company may still be anything.
Draft == [company : Texts, status : Statuses, applied : Dates, follow_up : Dates \cup {None}]

\* A body that is not refused makes a well-formed document of a draft, if one of
\* the two has a company (ApplicationData Patched).
LEMMA PatchedIsContent ==
    ASSUME NEW b \in Body, NEW c \in Draft, ~Refuses(b),
           "company" \in Mentions(b) \/ c.company \in {Clean[t] : t \in Texts} \ {Empty}
    PROVE  Patched(c, b) \in Content
<1> DEFINE d == Patched(c, b)
<1>1. d.company \in {Clean[t] : t \in Texts} \ {Empty}
  <2>1. CASE "company" \in Mentions(b)
    <3>1. b.company \in Texts
      BY <2>1 DEF Mentions, Body
    <3>2. d.company = Clean[b.company]
      BY <2>1 DEF Patched
    <3> QED  BY <2>1, <3>1, <3>2 DEF Refuses
  <2>2. CASE "company" \notin Mentions(b)
    BY <2>2 DEF Patched
  <2> QED  BY <2>1, <2>2
<1>2. d.status \in Statuses
  BY DEF Patched, Take, Refuses, Draft
<1>3. d.applied \in Dates
  BY DEF Patched, Take, Mentions, Fields, Body, Draft
<1>4. d.follow_up \in Dates \cup {None}
  BY DEF Patched, Take, Mentions, Fields, Body, Draft
<1> QED  BY <1>1, <1>2, <1>3, <1>4 DEF Content, Patched

\* What a PATCH that is not refused leaves is well formed.
LEMMA UpdateIsContent ==
    ASSUME NEW b \in Body, NEW c \in Content, ~Refuses(b)
    PROVE  Patched(c, b) \in Content
<1>1. c \in Draft /\ c.company \in {Clean[t] : t \in Texts} \ {Empty}
  BY DEF Content, Draft
<1> QED  BY <1>1, PatchedIsContent

\* What a POST that is not refused creates is well formed.
LEMMA FreshIsContent ==
    ASSUME NEW b \in Body, NEW now \in Dates, ~RefusesNew(b)
    PROVE  Fresh(b, now) \in Content
<1>1. [company |-> Empty, status |-> "applied", applied |-> now, follow_up |-> None] \in Draft
  BY DEF Draft
<1> QED  BY <1>1, PatchedIsContent DEF Fresh, RefusesNew

-----------------------------------------------------------------------------
(* The store *)

\* TypeOK but for the answer.
Sound ==
    /\ owner \in [Ids -> Users \cup {None}]
    /\ content \in [Ids -> Content \cup {None}]
    /\ \A i \in Ids : content[i] = None <=> owner[i] = None
    /\ Documents \subseteq born /\ born \subseteq Ids

LEMMA KeepSound == ASSUME Sound, Keep PROVE Sound'
BY DEF Sound, Keep, Documents

LEMMA CreateSound == ASSUME Sound, NEW u \in Users, Create(u) PROVE Sound'
<1>1. PICK b \in Posts :
          \/ RefusesNew(b) /\ Reply(u, Invalid) /\ Keep
          \/ \E i \in Ids \ born, now \in Dates :
                /\ ~RefusesNew(b)
                /\ owner'   = [owner   EXCEPT ![i] = u]
                /\ content' = [content EXCEPT ![i] = Fresh(b, now)]
                /\ born' = born \cup {i}
                /\ Reply(u, Answer(201, i, Fresh(b, now))) \/ Reply(u, Failed)
  BY DEF Create
<1>2. CASE Keep
  BY <1>2, KeepSound
<1>3. ASSUME NEW i \in Ids \ born, NEW now \in Dates, ~RefusesNew(b),
             owner'   = [owner   EXCEPT ![i] = u],
             content' = [content EXCEPT ![i] = Fresh(b, now)],
             born' = born \cup {i}
      PROVE  Sound'
  <2>1. Fresh(b, now) \in Content
    BY <1>3, FreshIsContent
  <2>2. owner' \in [Ids -> Users \cup {None}] /\ content' \in [Ids -> Content \cup {None}]
    BY <1>3, <2>1 DEF Sound
  <2>3. \A k \in Ids : content'[k] = None <=> owner'[k] = None
    BY <1>3, <2>1 DEF Sound
  <2>4. Documents' \subseteq born' /\ born' \subseteq Ids
    BY <1>3 DEF Sound, Documents
  <2> QED  BY <2>2, <2>3, <2>4 DEF Sound
<1> QED  BY <1>1, <1>2, <1>3

LEMMA UpdateSound == ASSUME Sound, NEW u \in Users, Update(u) PROVE Sound'
<1>1. PICK i \in Ids \cup {Malformed}, b \in Patches :
          \/ i # Malformed /\ Refuses(b) /\ Reply(u, Invalid) /\ Keep
          \/ /\ ~ScopeFilter(i, u) /\ (i # Malformed => ~Refuses(b))
             /\ Reply(u, NotFound) /\ Keep
          \/ /\ ScopeFilter(i, u) /\ ~Refuses(b)
             /\ content' = [content EXCEPT ![i] = Patched(@, b)]
             /\ Reply(u, Answer(200, i, content'[i])) \/ Reply(u, Failed)
             /\ UNCHANGED <<owner, born>>
  BY DEF Update
<1>2. CASE Keep
  BY <1>2, KeepSound
<1>3. ASSUME ScopeFilter(i, u), ~Refuses(b),
             content' = [content EXCEPT ![i] = Patched(@, b)],
             UNCHANGED <<owner, born>>
      PROVE  Sound'
  <2>1. i \in Ids /\ owner[i] # None /\ content[i] \in Content
    BY <1>3 DEF ScopeFilter, Documents, Sound
  <2>2. Patched(content[i], b) \in Content
    BY <1>3, <2>1, UpdateIsContent
  <2>3. content' \in [Ids -> Content \cup {None}]
    BY <1>3, <2>1, <2>2 DEF Sound
  <2>4. \A k \in Ids : content'[k] = None <=> owner'[k] = None
    BY <1>3, <2>1, <2>2 DEF Sound
  <2> QED  BY <1>3, <2>3, <2>4 DEF Sound, Documents
<1> QED  BY <1>1, <1>2, <1>3

LEMMA DeleteSound == ASSUME Sound, NEW u \in Users, Delete(u) PROVE Sound'
<1>1. PICK i \in Ids \cup {Malformed} :
          \/ ~ScopeFilter(i, u) /\ Reply(u, NotFound) /\ Keep
          \/ /\ ScopeFilter(i, u)
             /\ owner'   = [owner   EXCEPT ![i] = None]
             /\ content' = [content EXCEPT ![i] = None]
             /\ Reply(u, Answer(204, i, None)) \/ Reply(u, Failed)
             /\ UNCHANGED born
  BY DEF Delete
<1>2. CASE Keep
  BY <1>2, KeepSound
<1>3. CASE /\ owner'   = [owner   EXCEPT ![i] = None]
           /\ content' = [content EXCEPT ![i] = None]
           /\ UNCHANGED born
  BY <1>3 DEF Sound, Documents
<1> QED  BY <1>1, <1>2, <1>3

LEMMA NextSound == ASSUME Sound, [Next]_vars PROVE Sound'
<1>1. CASE UNCHANGED vars
  BY <1>1, KeepSound DEF vars, Keep
<1>2. ASSUME NEW u \in Users,
             Create(u) \/ Get(u) \/ Update(u) \/ Delete(u) \/ List(u) \/ Fail(u)
      PROVE  Sound'
  <2>1. CASE Get(u) \/ List(u) \/ Fail(u)
    BY <2>1, KeepSound DEF Get, List, Fail
  <2> QED  BY <1>2, <2>1, CreateSound, UpdateSound, DeleteSound
<1> QED  BY <1>1, <1>2 DEF Next

LEMMA InitSound == Init => Sound
BY DEF Init, Sound, Documents

LEMMA Soundness == Spec => []Sound
<1> QED  BY InitSound, NextSound, PTL DEF Spec

-----------------------------------------------------------------------------
(* Types *)

\* What TypeOK says of the answer.
Answered == answer = None \/ answer.status \in {200, 201, 204, 400, 404, 500}

LEMMA ReplyAnswered ==
    ASSUME Answered, NEW u, NEW a, a.status \in {200, 201, 204, 400, 404, 500}, Reply(u, a)
    PROVE  Answered'
BY DEF Answered, Reply

LEMMA NextAnswered == ASSUME Answered, [Next]_vars PROVE Answered'
<1> USE ReplyAnswered DEF Answer, NotFound, Invalid, Failed, Rows
<1>1. CASE UNCHANGED vars
  BY <1>1 DEF vars, Answered
<1>2. ASSUME NEW u \in Users, Create(u)  PROVE Answered'
  <2>1. \E i, c : answer' \in {answer, Invalid, Failed, Answer(201, i, c)}
    BY <1>2 DEF Create, Reply
  <2> QED  BY <2>1 DEF Answered
<1>3. ASSUME NEW u \in Users, Get(u)  PROVE Answered'
  <2>1. PICK i : Reply(u, IF ScopeFilter(i, u) THEN Answer(200, i, content[i]) ELSE NotFound)
    BY <1>3 DEF Get
  <2> QED  BY <2>1 DEF Reply, Answered
<1>4. ASSUME NEW u \in Users, Update(u)  PROVE Answered'
  BY <1>4 DEF Update
<1>5. ASSUME NEW u \in Users, Delete(u)  PROVE Answered'
  BY <1>5 DEF Delete
<1>6. ASSUME NEW u \in Users, List(u)  PROVE Answered'
  BY <1>6 DEF List
<1>7. ASSUME NEW u \in Users, Fail(u)  PROVE Answered'
  BY <1>7 DEF Fail
<1> QED  BY <1>1, <1>2, <1>3, <1>4, <1>5, <1>6, <1>7 DEF Next

\* Every document has an owner and well-formed fields, and no id is used twice
\* (service/application.go).
THEOREM TypeCorrect == Spec => []TypeOK
<1>1. Init => Answered
  BY DEF Init, Answered
<1>2. Sound /\ Answered => TypeOK
  BY DEF Sound, Answered, TypeOK
<1> QED  BY <1>1, <1>2, NextAnswered, Soundness, PTL DEF Spec

-----------------------------------------------------------------------------
(* The private store *)

\* What a request of Me finds is what Me's store has.
LEMMA MineIsFound ==
    ASSUME Sound
    PROVE  /\ \A i : Private!Has(i) <=> ScopeFilter(i, Me)
           /\ \A i : ScopeFilter(i, Me) => i \in Ids /\ Mine[i] = content[i]
BY DEF Sound, Mine, ScopeFilter, Documents, Private!Has

\* A request of anyone else neither changes Me's store nor answers Me.
LEMMA OthersStutter ==
    ASSUME Sound, NEW u \in Users \ {Me},
           Create(u) \/ Get(u) \/ Update(u) \/ Delete(u) \/ List(u) \/ Fail(u)
    PROVE  UNCHANGED <<Mine, answer>>
<1>1. answer' = answer
  BY DEF Create, Get, Update, Delete, List, Fail, Reply
<1>2. CASE Keep
  BY <1>1, <1>2 DEF Keep, Mine
<1>3. CASE Create(u) /\ ~Keep
  <2>1. PICK i \in Ids \ born : \E c :
            owner' = [owner EXCEPT ![i] = u] /\ content' = [content EXCEPT ![i] = c]
    BY <1>3 DEF Create
  <2>2. owner[i] = None
    BY <2>1 DEF Sound, Documents
  <2>3. \A k \in Ids : (owner'[k] = Me <=> owner[k] = Me)
                     /\ (owner[k] = Me => content'[k] = content[k])
    BY <2>1, <2>2 DEF Sound
  <2> QED  BY <1>1, <2>3 DEF Mine
<1>4. CASE Update(u) /\ ~Keep
  <2>1. PICK i : ScopeFilter(i, u) /\ owner' = owner
                 /\ \E c : content' = [content EXCEPT ![i] = c]
    BY <1>4 DEF Update
  <2>2. \A k \in Ids : owner[k] = Me => content'[k] = content[k]
    BY <2>1 DEF Sound, ScopeFilter
  <2> QED  BY <1>1, <2>1, <2>2 DEF Mine
<1>5. CASE Delete(u) /\ ~Keep
  <2>1. PICK i : /\ ScopeFilter(i, u)
                 /\ owner'   = [owner   EXCEPT ![i] = None]
                 /\ content' = [content EXCEPT ![i] = None]
    BY <1>5 DEF Delete
  <2>2. \A k \in Ids : (owner'[k] = Me <=> owner[k] = Me)
                     /\ (owner[k] = Me => content'[k] = content[k])
    BY <2>1 DEF Sound, ScopeFilter
  <2> QED  BY <1>1, <2>2 DEF Mine
<1> QED  BY <1>2, <1>3, <1>4, <1>5 DEF Get, List, Fail

\* A request that keeps the documents keeps Me's.
LEMMA KeepMine == ASSUME Keep PROVE UNCHANGED Mine
BY DEF Keep, Mine

\* The store reads bodies as the service does.
LEMMA SameData ==
    /\ Private!Content = Content
    /\ \A b : Private!Refuses(b) <=> Refuses(b)
    /\ \A b : Private!RefusesNew(b) <=> RefusesNew(b)
    /\ \A b, c : Private!Patched(c, b) = Patched(c, b)
    /\ \A b, now : Private!Fresh(b, now) = Fresh(b, now)
<1> USE DEF Private!Mentions, Mentions, Private!Fields, Fields, Private!Refuses, Refuses,
            Private!Patched, Patched, Private!Take, Take
<1>1. Private!Content = Content
  BY DEF Private!Content, Content
<1>2. \A b : Private!Refuses(b) <=> Refuses(b)
  OBVIOUS
<1>3. \A b : Private!RefusesNew(b) <=> RefusesNew(b)
  BY DEF Private!RefusesNew, RefusesNew
<1>4. \A b, c : Private!Patched(c, b) = Patched(c, b)
  OBVIOUS
<1>5. \A b, now : Private!Fresh(b, now) = Fresh(b, now)
  BY DEF Private!Fresh, Fresh
<1> QED  BY <1>1, <1>2, <1>3, <1>4, <1>5

LEMMA CreateIsPost == ASSUME Sound, Create(Me) PROVE Private!Post
<1> USE DEF Reply, Private!Answer, Answer, Private!Invalid, Invalid, Private!Failed, Failed
<1>1. PICK b \in Posts :
          \/ RefusesNew(b) /\ Reply(Me, Invalid) /\ Keep
          \/ \E i \in Ids \ born, now \in Dates :
                /\ ~RefusesNew(b)
                /\ owner'   = [owner   EXCEPT ![i] = Me]
                /\ content' = [content EXCEPT ![i] = Fresh(b, now)]
                /\ born' = born \cup {i}
                /\ Reply(Me, Answer(201, i, Fresh(b, now))) \/ Reply(Me, Failed)
  BY DEF Create
<1>2. CASE RefusesNew(b) /\ Reply(Me, Invalid) /\ Keep
  BY <1>2, KeepMine, SameData DEF Private!Post, Private!Keep
<1>3. CASE ~(RefusesNew(b) /\ Reply(Me, Invalid) /\ Keep)
  <2>1. PICK i \in Ids \ born, now \in Dates :
            /\ ~RefusesNew(b)
            /\ owner'   = [owner   EXCEPT ![i] = Me]
            /\ content' = [content EXCEPT ![i] = Fresh(b, now)]
            /\ Reply(Me, Answer(201, i, Fresh(b, now))) \/ Reply(Me, Failed)
    BY <1>1, <1>3
  <2>2. ~Private!Has(i)
    BY <2>1, MineIsFound DEF Sound, ScopeFilter
  <2>3. Mine' = [Mine EXCEPT ![i] = Fresh(b, now)]
    BY <2>1 DEF Mine, Sound
  <2>4. answer' \in {Private!Answer(201, i, Private!Fresh(b, now)), Private!Failed}
    BY <2>1, SameData
  <2>5. ~Private!RefusesNew(b) /\ Mine' = [Mine EXCEPT ![i] = Private!Fresh(b, now)]
    BY <2>1, <2>3, SameData
  <2> QED  BY <2>2, <2>4, <2>5 DEF Private!Post
<1> QED  BY <1>2, <1>3

LEMMA GetIsGet == ASSUME Sound, Get(Me) PROVE Private!Get
<1>1. PICK i \in Ids \cup {Malformed} :
          /\ Reply(Me, IF ScopeFilter(i, Me) THEN Answer(200, i, content[i]) ELSE NotFound)
          /\ Keep
  BY DEF Get
<1>2. answer' = IF Private!Has(i) THEN Private!Answer(200, i, Mine[i]) ELSE Private!NotFound
  BY <1>1, MineIsFound DEF Reply, Answer, NotFound, Private!Answer, Private!NotFound
<1> QED  BY <1>1, <1>2, KeepMine DEF Private!Get, Private!Keep

LEMMA UpdateIsPatch == ASSUME Sound, Update(Me) PROVE Private!Patch
<1> USE DEF Reply, Private!Answer, Answer, Private!Invalid, Invalid, Private!NotFound, NotFound,
            Private!Failed, Failed
<1>1. PICK i \in Ids \cup {Malformed}, b \in Patches :
          \/ i # Malformed /\ Refuses(b) /\ Reply(Me, Invalid) /\ Keep
          \/ /\ ~ScopeFilter(i, Me) /\ (i # Malformed => ~Refuses(b))
             /\ Reply(Me, NotFound) /\ Keep
          \/ /\ ScopeFilter(i, Me) /\ ~Refuses(b)
             /\ content' = [content EXCEPT ![i] = Patched(@, b)]
             /\ Reply(Me, Answer(200, i, content'[i])) \/ Reply(Me, Failed)
             /\ UNCHANGED <<owner, born>>
  BY DEF Update
<1>2. CASE i # Malformed /\ Refuses(b) /\ Reply(Me, Invalid) /\ Keep
  BY <1>2, KeepMine, SameData DEF Private!Patch, Private!Keep
<1>3. CASE /\ ~ScopeFilter(i, Me) /\ (i # Malformed => ~Refuses(b))
           /\ Reply(Me, NotFound) /\ Keep
  BY <1>3, KeepMine, MineIsFound, SameData DEF Private!Patch, Private!Keep
<1>4. CASE /\ ScopeFilter(i, Me) /\ ~Refuses(b)
           /\ content' = [content EXCEPT ![i] = Patched(@, b)]
           /\ Reply(Me, Answer(200, i, content'[i])) \/ Reply(Me, Failed)
           /\ UNCHANGED <<owner, born>>
  <2>1. i \in Ids /\ owner[i] = Me /\ Mine[i] = content[i] /\ Private!Has(i)
    BY <1>4, MineIsFound DEF ScopeFilter
  <2>2. Mine' = [Mine EXCEPT ![i] = Patched(@, b)]
    BY <1>4, <2>1 DEF Mine, Sound
  <2>3. Mine'[i] = content'[i]
    BY <1>4, <2>1 DEF Mine
  <2>4. answer' \in {Private!Answer(200, i, Mine'[i]), Private!Failed}
    BY <1>4, <2>3
  <2>5. ~Private!Refuses(b) /\ Mine' = [Mine EXCEPT ![i] = Private!Patched(@, b)]
    BY <1>4, <2>2, SameData
  <2> QED  BY <2>1, <2>4, <2>5 DEF Private!Patch
<1> QED  BY <1>1, <1>2, <1>3, <1>4

LEMMA DeleteIsDelete == ASSUME Sound, Delete(Me) PROVE Private!Delete
<1> USE DEF Reply, Private!Answer, Answer, Private!NotFound, NotFound, Private!Failed, Failed
<1>1. PICK i \in Ids \cup {Malformed} :
          \/ ~ScopeFilter(i, Me) /\ Reply(Me, NotFound) /\ Keep
          \/ /\ ScopeFilter(i, Me)
             /\ owner'   = [owner   EXCEPT ![i] = None]
             /\ content' = [content EXCEPT ![i] = None]
             /\ Reply(Me, Answer(204, i, None)) \/ Reply(Me, Failed)
             /\ UNCHANGED born
  BY DEF Delete
<1>2. CASE ~ScopeFilter(i, Me) /\ Reply(Me, NotFound) /\ Keep
  BY <1>2, KeepMine, MineIsFound DEF Private!Delete, Private!Keep
<1>3. CASE /\ ScopeFilter(i, Me)
           /\ owner'   = [owner   EXCEPT ![i] = None]
           /\ content' = [content EXCEPT ![i] = None]
           /\ Reply(Me, Answer(204, i, None)) \/ Reply(Me, Failed)
  <2>1. i \in Ids /\ Private!Has(i)
    BY <1>3, MineIsFound
  <2>2. Mine' = [Mine EXCEPT ![i] = None]
    BY <1>3, <2>1 DEF Mine, Sound
  <2>3. answer' \in {Private!Answer(204, i, None), Private!Failed}
    BY <1>3
  <2> QED  BY <2>1, <2>2, <2>3 DEF Private!Delete
<1> QED  BY <1>1, <1>2, <1>3

LEMMA ListIsList == ASSUME Sound, List(Me) PROVE Private!List
<1>1. PICK f \in Statuses \cup {AllStatuses, Bad} :
          /\ Reply(Me, IF f = Bad THEN Invalid
                       ELSE Rows([i \in ListFilter(Me, f) |-> content[i]]))
          /\ Keep
  BY DEF List
<1> DEFINE matches == {j \in Ids : /\ Mine[j] # None
                                   /\ f \in {AllStatuses, Mine[j].status}}
<1>2. matches = ListFilter(Me, f)
  BY DEF Mine, Sound, Documents, ListFilter
<1>3. [i \in ListFilter(Me, f) |-> content[i]] = [i \in matches |-> Mine[i]]
  BY <1>2 DEF Mine, ListFilter, Documents
<1>4. answer' = IF f = Bad THEN Private!Invalid ELSE Private!Rows([i \in matches |-> Mine[i]])
  BY <1>1, <1>3 DEF Reply, Rows, Private!Rows, Answer, Private!Answer, Invalid, Private!Invalid
<1> QED  BY <1>1, <1>4, KeepMine DEF Private!List, Private!Keep

\* Each step is one of Me's store, or a step of another that it does not see.
LEMMA NextIsPrivate == ASSUME Sound, [Next]_vars PROVE [Private!Next]_<<Mine, answer>>
<1>1. CASE UNCHANGED vars
  BY <1>1, KeepMine DEF vars, Keep
<1>2. ASSUME NEW u \in Users,
             Create(u) \/ Get(u) \/ Update(u) \/ Delete(u) \/ List(u) \/ Fail(u)
      PROVE  [Private!Next]_<<Mine, answer>>
  <2>1. CASE u # Me
    BY <1>2, <2>1, OthersStutter
  <2>2. CASE u = Me /\ Fail(Me)
    BY <2>2, KeepMine DEF Fail, Reply, Failed, Answer, Private!Fail, Private!Keep, Private!Failed,
                          Private!Answer, Private!Next
  <2>3. CASE u = Me /\ ~Fail(Me)
    BY <1>2, <2>3, CreateIsPost, GetIsGet, UpdateIsPatch, DeleteIsDelete, ListIsList
       DEF Private!Next
  <2> QED  BY <2>1, <2>2, <2>3
<1> QED  BY <1>1, <1>2 DEF Next

\* Whoever Me is: the collection all users share is to them a store of their own
\* (mongoWrap/application.go scopeFilter).
THEOREM EachHasAPrivateStore == Spec => PrivateSpec
<1>1. Init => Private!Init
  BY SameData DEF Init, Private!Init, Mine
<1>2. Sound /\ [Next]_vars => [Private!Next]_(Private!privateVars)
  BY NextIsPrivate DEF Private!privateVars
<1> QED  BY <1>1, <1>2, Soundness, PTL DEF Spec, PrivateSpec, Private!Spec
=============================================================================
