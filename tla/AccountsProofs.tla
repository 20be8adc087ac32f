--------------------------- MODULE AccountsProofs ---------------------------
(***************************************************************************)
(* Proofs about Accounts, for any addresses, documents and processes, when *)
(* EnsureIndexes manages the collection the stores use.                    *)
(*                                                                         *)
(* That no two accounts share an address needs the index (Indexed, Ready)  *)
(* and that no document escapes it, which rests on the order of the        *)
(* commands: a process that read the users without email_normalized still  *)
(* knows all of them (ToFill), so that past its backfill none is left      *)
(* (Filled), whatever other processes and sign-ups did meanwhile.          *)
(***************************************************************************)
EXTENDS Accounts, TLAPS

\* The steps after the backfill.
Filling == {"listUsers", "dropUsers", "createUsers", "createApps", "serve"}

\* The steps before the applications' old index is gone.
Before == {"down", "listApps", "dropApps"}

\* A document's folded address is missing or its address folded.
Folded == \A d \in Present : docs[d].normalized \in {None, Fold[docs[d].email]}

ToFill == \A p \in Procs : At(p, "backfill") =>
    /\ work[p] \subseteq Present
    /\ \A d \in Present : docs[d].normalized = None => d \in work[p]

Filled == (\E p \in Procs : step[p] \in Filling)
              => \A d \in Present : docs[d].normalized # None

Indexed == "normalized" \in unique =>
    \A d, e \in Present : docs[d].normalized = docs[e].normalized => d = e

Ready == \A p \in Procs :
    At(p, "serve") \/ (At(p, "createApps") /\ ~failed[p]) => "normalized" \in unique

AppsFree == apps = "unique" => \A p \in Procs : step[p] \in Before

Granted == \A g \in granted : /\ g.id \in Present
                              /\ docs[g.id] = Normalized(g.address)
                              /\ "normalized" \in unique

Refused == \A a \in refused : \E d \in Present : docs[d].normalized = Fold[a]

IInv == /\ TypeOK /\ Folded /\ ToFill /\ Filled /\ Indexed /\ Ready /\ AppsFree
        /\ Granted /\ Refused /\ OnlyDuplicatesBlock
-----------------------------------------------------------------------------
(* The data *)

\* Every folded document is one, and is not the absence of one.
LEMMA NormalizedTypes ==
    ASSUME NEW a \in Addresses
    PROVE  /\ Normalized(a) \in Document /\ Legacy(a) \in Document
           /\ Normalized(a) # None /\ Legacy(a) # None
           /\ Normalized(a).email = a /\ Normalized(a).normalized = Fold[a]
           /\ Fold[a] # None
  BY AccountsAssumption DEF Normalized, Legacy, Document

LEMMA PresentTypes ==
    ASSUME TypeOK, NEW d \in Present
    PROVE  /\ d \in Ids /\ docs[d] \in Document /\ docs[d].email \in Addresses
  BY DEF TypeOK, Present, Document

LEMMA InitIInv == Init => IInv
  <1> SUFFICES ASSUME Init PROVE IInv
    OBVIOUS
  <1>1. docs \in [Ids -> Document \cup {None}]
    BY NormalizedTypes DEF Init
  <1>2. \A d \in Present : docs[d].normalized = None
    BY DEF Init, Present, Legacy
  <1>3. TypeOK
    BY <1>1, AccountsAssumption DEF Init, TypeOK, Steps
  <1> QED
    BY <1>2, <1>3 DEF Init, IInv, Folded, ToFill, Filled, Indexed, Ready, AppsFree,
                      Granted, Refused, OnlyDuplicatesBlock, At, Filling, Before
-----------------------------------------------------------------------------
(* The steps *)

\* A step that leaves the documents and the indexes of the users alone keeps
\* IInv when its process goes where the invariant allows.
LEMMA Moves ==
    ASSUME IInv, NEW p \in Procs, NEW s \in Steps,
           step' = [step EXCEPT ![p] = s], UNCHANGED <<docs, unique, history>>,
           TypeOK',
           \A q \in Procs \ {p} : work'[q] = work[q] /\ failed'[q] = failed[q],
           s = "backfill" => ToFill',
           s \in Filling => (step[p] \in Filling
                             \/ \A d \in Present : docs[d].normalized # None),
           s = "serve" \/ (s = "createApps" /\ ~failed'[p]) => "normalized" \in unique,
           apps' = "unique" => apps = "unique" /\ s \in Before,
           failed'[p] => failed[p]
    PROVE  IInv'
  <1> USE DEF At
  <1>1. Present' = Present
    BY DEF Present
  <1>2. \A q \in Procs \ {p} : step'[q] = step[q]
    BY DEF IInv, TypeOK
  <1>3. step'[p] = s
    BY DEF IInv, TypeOK
  <1>4. Folded' /\ Indexed' /\ Granted' /\ Refused'
    BY <1>1 DEF IInv, Folded, Indexed, Granted, Refused, history
  <1>5. ToFill'
    <2>1. CASE s = "backfill"
      BY <2>1
    <2>2. CASE s # "backfill"
      BY <1>1, <1>2, <1>3, <2>2 DEF IInv, ToFill
    <2> QED BY <2>1, <2>2
  <1>6. Filled'
    BY <1>1, <1>2, <1>3 DEF IInv, Filled
  <1>7. Ready'
    BY <1>2, <1>3 DEF IInv, Ready
  <1>8. AppsFree'
    BY <1>2, <1>3 DEF IInv, AppsFree
  <1>9. OnlyDuplicatesBlock'
    BY <1>1, <1>2 DEF IInv, OnlyDuplicatesBlock
  <1> QED BY <1>4, <1>5, <1>6, <1>7, <1>8, <1>9 DEF IInv

LEMMA StartIInv ==
    ASSUME IInv, NEW p \in Procs, Start(p)
    PROVE  IInv'
  <1> USE DEF Start, Goto, At, history
  <1>1. TypeOK'
    BY DEF IInv, TypeOK, Steps
  <1> QED
    BY <1>1, Moves DEF IInv, TypeOK, Steps, Filling, Before

LEMMA ListAppsIInv ==
    ASSUME IInv, NEW p \in Procs, ListApps(p)
    PROVE  IInv'
  <1> USE DEF ListApps, Goto, At, history
  <1>1. TypeOK'
    BY DEF IInv, TypeOK, Steps
  <1> QED
    BY <1>1, Moves DEF IInv, TypeOK, Steps, Filling, Before

LEMMA DropAppsIInv ==
    ASSUME IInv, NEW p \in Procs, DropApps(p)
    PROVE  IInv'
  <1> USE DEF DropApps, Goto, At, history
  <1>1. TypeOK'
    BY DEF IInv, TypeOK, Steps
  <1> QED
    BY <1>1, Moves DEF IInv, TypeOK, Steps, Filling, Before

LEMMA FindIInv ==
    ASSUME IInv, Managed, NEW p \in Procs, Find(p)
    PROVE  IInv'
  <1> USE DEF Find, Goto, At, history
  <1>1. TypeOK'
    BY DEF IInv, TypeOK, Steps, Present
  <1>2. ToFill'
    BY DEF IInv, TypeOK, ToFill, Present
  <1>3. apps # "unique"
    BY DEF IInv, AppsFree, Before
  <1> QED
    BY <1>1, <1>2, <1>3, Moves DEF IInv, TypeOK, Steps, Filling, Before

LEMMA BackfillDoneIInv ==
    ASSUME IInv, NEW p \in Procs, BackfillDone(p)
    PROVE  IInv'
  <1> USE DEF BackfillDone, Goto, At, history
  <1>1. TypeOK'
    BY DEF IInv, TypeOK, Steps
  <1>2. \A d \in Present : docs[d].normalized # None
    BY DEF IInv, ToFill
  <1>3. apps # "unique"
    BY DEF IInv, AppsFree, Before
  <1> QED
    BY <1>1, <1>2, <1>3, Moves DEF IInv, TypeOK, Steps, Filling, Before

LEMMA ListUsersIInv ==
    ASSUME IInv, NEW p \in Procs, ListUsers(p)
    PROVE  IInv'
  <1> USE DEF ListUsers, Goto, At, history
  <1>1. TypeOK'
    BY DEF IInv, TypeOK, Steps
  <1>3. apps # "unique"
    BY DEF IInv, AppsFree, Before
  <1> QED
    BY <1>1, <1>3, Moves DEF IInv, TypeOK, Steps, Filling, Before

LEMMA CreateAppsIInv ==
    ASSUME IInv, NEW p \in Procs, CreateApps(p)
    PROVE  IInv'
  <1> USE DEF CreateApps, Goto, At, history
  <1>1. TypeOK'
    BY DEF IInv, TypeOK, Steps
  <1>2. apps # "unique"
    BY DEF IInv, AppsFree, Before
  <1>3. ~failed[p] => "normalized" \in unique
    BY DEF IInv, Ready
  <1> QED
    BY <1>1, <1>2, <1>3, Moves DEF IInv, TypeOK, Steps, Filling, Before

LEMMA DieIInv ==
    ASSUME IInv, NEW p \in Procs, Die(p)
    PROVE  IInv'
  <1> USE DEF Die, Goto, At, history
  <1>1. TypeOK'
    BY AccountsAssumption DEF IInv, TypeOK, Steps
  <1> QED
    BY <1>1, Moves DEF IInv, TypeOK, Steps, Filling, Before

\* The new index is never dropped ...
LEMMA DropUsersIInv ==
    ASSUME IInv, NEW p \in Procs, DropUsers(p)
    PROVE  IInv'
  <1> USE DEF DropUsers, Goto, At, history
  <1>1. TypeOK'
    BY DEF IInv, TypeOK, Steps
  <1>2. "normalized" \in unique' <=> "normalized" \in unique
    OBVIOUS
  <1>3. Present' = Present /\ docs' = docs
    BY DEF Present
  <1>4. \A q \in Procs : step'[q] = step[q]
                         \/ (q = p /\ step'[q] \in {"createUsers", "down"})
    BY DEF IInv, TypeOK
  <1>5. step[p] \in Filling
    BY DEF Filling
  <1>6. Folded' /\ Indexed' /\ Granted' /\ Refused' /\ OnlyDuplicatesBlock'
    BY <1>2, <1>3 DEF IInv, Folded, Indexed, Granted, Refused, OnlyDuplicatesBlock
  <1>7. ToFill' /\ Ready'
    BY <1>2, <1>3, <1>4 DEF IInv, ToFill, Ready
  <1>8. Filled'
    BY <1>3, <1>4, <1>5 DEF IInv, Filled
  <1>9. AppsFree'
    BY <1>4, <1>5 DEF IInv, AppsFree, Filling, Before
  <1> QED BY <1>1, <1>6, <1>7, <1>8, <1>9 DEF IInv

\* ... and none is made over repeats.
LEMMA CreateUsersIInv ==
    ASSUME IInv, Managed, NEW p \in Procs, CreateUsers(p)
    PROVE  IInv'
  <1> USE DEF CreateUsers, Goto, At, history
  <1>1. TypeOK'
    BY DEF IInv, TypeOK, Steps
  <1>2. Present' = Present /\ docs' = docs
    BY DEF Present
  <1>3. \A q \in Procs : step'[q] = step[q] \/ (q = p /\ step'[q] = "createApps")
    BY DEF IInv, TypeOK
  <1>4. step[p] \in Filling
    BY DEF Filling
  <1>5. \A d \in Present : docs[d].normalized = Fold[docs[d].email]
    BY <1>4 DEF IInv, Filled, Folded
  <1>6. Folded' /\ ToFill' /\ Filled' /\ AppsFree' /\ Refused' /\ Granted'
    BY <1>2, <1>3, <1>4 DEF IInv, Folded, ToFill, Filled, AppsFree, Refused, Granted,
                            Filling, Before
  <1>7. CASE "normalized" \in unique \/ ~Repeats("normalized")
    <2>1. "normalized" \in unique' /\ failed' = failed
      BY <1>7
    <2>2. Indexed'
      BY <1>2, <1>7 DEF IInv, Indexed, Repeats
    <2>3. Ready' /\ OnlyDuplicatesBlock'
      BY <1>2, <1>3, <2>1 DEF IInv, Ready, OnlyDuplicatesBlock
    <2> QED BY <1>1, <1>6, <2>2, <2>3 DEF IInv
  <1>8. CASE ~("normalized" \in unique \/ ~Repeats("normalized"))
    <2>1. unique' = unique /\ failed' = [failed EXCEPT ![p] = TRUE]
      BY <1>8
    <2>2. \E d, e \in Present : d # e /\ Fold[docs[d].email] = Fold[docs[e].email]
      <3>1. PICK d, e \in Present : d # e /\ docs[d].normalized = docs[e].normalized
        BY <1>8 DEF Repeats
      <3> QED BY <1>5, <3>1
    <2>3. OnlyDuplicatesBlock'
      BY <1>2, <2>2 DEF OnlyDuplicatesBlock
    <2>4. Indexed'
      BY <1>2, <2>1 DEF IInv, Indexed
    <2>5. Ready'
      BY <1>3, <2>1 DEF IInv, Ready, TypeOK
    <2> QED BY <1>1, <1>6, <2>3, <2>4, <2>5 DEF IInv
  <1> QED BY <1>7, <1>8

\* A write the unique indexes let through repeats no folded address.
LEMMA NoCollision ==
    ASSUME TypeOK, NEW d \in Ids, NEW a \in Addresses, ~Collides(d, Normalized(a)),
           "normalized" \in unique
    PROVE  \A e \in Present \ {d} : docs[e].normalized # Fold[a]
  BY NormalizedTypes DEF Collides

LEMMA BackfillIInv ==
    ASSUME IInv, NEW p \in Procs, Backfill(p)
    PROVE  IInv'
  <1> USE DEF Goto, At, history
  <1>1. PICK d \in work[p] : Backfill(p)!(d)
    BY DEF Backfill
  <1> DEFINE a == docs[d].email
  <1>2. /\ step[p] = "backfill" /\ d \in Present /\ d \in Ids
        /\ docs[d] \in Document /\ a \in Addresses
    BY <1>1, PresentTypes DEF IInv, ToFill
  <1>3. UNCHANGED <<unique, apps, failed, deaths, history>>
    BY <1>1
  <1>4. CASE Collides(d, Normalized(a))
    <2>1. step' = [step EXCEPT ![p] = "down"] /\ UNCHANGED <<docs, work>>
      BY <1>1, <1>4
    <2>2. TypeOK'
      BY <1>3, <2>1 DEF IInv, TypeOK, Steps
    <2> QED
      BY <1>3, <2>1, <2>2, Moves DEF IInv, TypeOK, Steps, Filling, Before
  <1>5. CASE ~Collides(d, Normalized(a))
    <2>1. /\ docs' = [docs EXCEPT ![d] = Normalized(a)]
          /\ work' = [work EXCEPT ![p] = @ \ {d}]
          /\ UNCHANGED step
      BY <1>1, <1>5
    <2>2. TypeOK'
      BY <1>2, <1>3, <2>1, NormalizedTypes DEF IInv, TypeOK
    <2>3. Present' = Present
      BY <1>2, <2>1, NormalizedTypes DEF IInv, TypeOK, Present
    <2>4. /\ docs'[d].email = a /\ docs'[d].normalized = Fold[a] /\ Fold[a] # None
          /\ \A e \in Present \ {d} : docs'[e] = docs[e]
      BY <1>2, <2>1, NormalizedTypes DEF IInv, TypeOK, Present
    <2>5. \A e \in Present : docs'[e].email = docs[e].email
      BY <2>4
    <2>6. Folded'
      BY <2>3, <2>4 DEF IInv, Folded
    <2>7. ToFill'
      BY <1>2, <2>1, <2>3, <2>4 DEF IInv, ToFill, TypeOK
    <2>8. Filled' /\ Ready' /\ AppsFree'
      BY <1>3, <2>1, <2>3, <2>4 DEF IInv, Filled, Ready, AppsFree
    <2>9. Indexed'
      <3> SUFFICES ASSUME "normalized" \in unique, NEW x \in Present, NEW y \in Present,
                          docs'[x].normalized = docs'[y].normalized
                   PROVE  x = y
        BY <1>3, <2>3 DEF Indexed
      <3>1. \A e \in Present \ {d} : docs[e].normalized # Fold[a]
        BY <1>2, <1>5, NoCollision DEF IInv
      <3> QED BY <2>4, <3>1 DEF IInv, Indexed
    <2>10. Granted'
      <3>1. \A g \in granted : g.address \in Addresses
        BY DEF IInv, TypeOK
      <3> QED
        BY <1>3, <2>1, <2>3, <2>4, <3>1, NormalizedTypes DEF IInv, Granted, TypeOK
    <2>11. Refused'
      <3>1. \A e \in Present : docs[e].normalized # None
                                  => docs'[e].normalized = docs[e].normalized
        BY <1>2, <2>4 DEF IInv, Folded
      <3>2. \A x \in refused : Fold[x] # None
        BY AccountsAssumption DEF IInv, TypeOK
      <3> QED
        BY <1>3, <2>3, <3>1, <3>2 DEF IInv, Refused
    <2>12. OnlyDuplicatesBlock'
      BY <1>3, <2>3, <2>5 DEF IInv, OnlyDuplicatesBlock
    <2> QED
      BY <2>2, <2>6, <2>7, <2>8, <2>9, <2>10, <2>11, <2>12 DEF IInv
  <1> QED BY <1>4, <1>5

LEMMA SignUpIInv ==
    ASSUME IInv, NEW p \in Procs, SignUp(p)
    PROVE  IInv'
  <1> USE DEF At, history, process
  <1>1. PICK a \in Addresses, d \in Ids \ Present : SignUp(p)!(a, d)
    BY DEF SignUp
  <1>2. step[p] = "serve" /\ UNCHANGED <<unique, apps, process>>
    BY <1>1
  <1>3. /\ "normalized" \in unique
        /\ \A e \in Present : docs[e].normalized # None
    BY <1>2 DEF IInv, Ready, Filled, Filling
  <1>4. CASE Collides(d, Normalized(a))
    <2>1. refused' = refused \cup {a} /\ UNCHANGED <<docs, granted>>
      BY <1>1, <1>4
    <2>2. Present' = Present
      BY <2>1 DEF Present
    <2>3. \E e \in Present : docs[e].normalized = Fold[a]
      <3>1. PICK e \in Present, field \in unique :
                docs[e][field] = Normalized(a)[field]
        BY <1>4 DEF Collides
      <3>2. docs[e].normalized = Fold[docs[e].email]
        BY <1>3 DEF IInv, Folded
      <3>3. field = "email" \/ field = "normalized"
        BY DEF IInv, TypeOK
      <3> QED BY <3>1, <3>2, <3>3, NormalizedTypes
    <2>4. Refused'
      BY <2>1, <2>2, <2>3 DEF IInv, Refused
    <2>5. TypeOK'
      BY <1>2, <2>1 DEF IInv, TypeOK
    <2> QED
      BY <1>2, <2>1, <2>2, <2>4, <2>5 DEF IInv, Folded, ToFill, Filled, Indexed, Ready,
                                        AppsFree, Granted, OnlyDuplicatesBlock
  <1>5. CASE ~Collides(d, Normalized(a))
    <2>1. /\ docs' = [docs EXCEPT ![d] = Normalized(a)] /\ UNCHANGED refused
          /\ granted' \in {granted, granted \cup {[address |-> a, id |-> d]}}
      BY <1>1, <1>5 DEF Insert
    <2>2. TypeOK'
      BY <1>2, <2>1, NormalizedTypes DEF IInv, TypeOK
    <2>3. Present' = Present \cup {d}
      BY <2>1, NormalizedTypes DEF IInv, TypeOK, Present
    <2>4. /\ docs'[d].email = a /\ docs'[d].normalized = Fold[a] /\ Fold[a] # None
          /\ docs'[d] = Normalized(a)
          /\ \A e \in Present : docs'[e] = docs[e]
      BY <2>1, NormalizedTypes DEF IInv, TypeOK, Present
    <2>5. \A e \in Present' : docs'[e].normalized # None
      BY <1>3, <2>3, <2>4
    <2>6. Folded' /\ Refused'
      BY <2>1, <2>3, <2>4 DEF IInv, Folded, Refused
    <2>7. ToFill' /\ Filled' /\ Ready' /\ AppsFree'
      BY <1>2, <2>3, <2>5 DEF IInv, ToFill, Filled, Ready, AppsFree
    <2>8. Indexed'
      <3>1. \A e \in Present : docs[e].normalized # Fold[a]
        BY <1>3, <1>5, NoCollision DEF IInv
      <3> QED BY <1>2, <2>3, <2>4, <3>1 DEF IInv, Indexed
    <2>9. Granted'
      <3>1. \A g \in granted' : g \in granted \/ g = [address |-> a, id |-> d]
        BY <2>1
      <3> QED BY <1>2, <1>3, <2>3, <2>4, <3>1 DEF IInv, Granted, Normalized
    <2>10. OnlyDuplicatesBlock'
      BY <1>2, <2>3, <2>4 DEF IInv, OnlyDuplicatesBlock
    <2> QED
      BY <2>2, <2>6, <2>7, <2>8, <2>9, <2>10 DEF IInv
  <1> QED BY <1>4, <1>5
-----------------------------------------------------------------------------
(* The theorems *)

\* IInv is an invariant of Accounts (client.go EnsureIndexes, query.go CreateUser).
THEOREM Invariance ==
    ASSUME Managed
    PROVE  Spec => []IInv
  <1>1. ASSUME IInv, [Next]_vars PROVE IInv'
    <2>1. CASE UNCHANGED vars
      BY <1>1, <2>1 DEF IInv, TypeOK, Folded, ToFill, Filled, Indexed, Ready, AppsFree,
                        Granted, Refused, OnlyDuplicatesBlock, Present, At, vars,
                        process, history
    <2>2. CASE Next
      <3>1. PICK p \in Procs : Start(p) \/ Run(p) \/ SignUp(p) \/ Die(p)
        BY <2>2 DEF Next
      <3>2. CASE Run(p)
        BY <1>1, <3>2, ListAppsIInv, DropAppsIInv, FindIInv, BackfillIInv, BackfillDoneIInv,
           ListUsersIInv, DropUsersIInv, CreateUsersIInv, CreateAppsIInv DEF Run
      <3> QED
        BY <1>1, <3>1, <3>2, StartIInv, SignUpIInv, DieIInv
    <2> QED BY <1>1, <2>1, <2>2
  <1> QED BY InitIInv, <1>1, PTL DEF Spec

\* Every variable keeps its type (client.go EnsureIndexes, query.go CreateUser).
THEOREM TypeCorrect ==
    ASSUME Managed
    PROVE  Spec => []TypeOK
  <1>1. IInv => TypeOK
    BY DEF IInv
  <1> QED BY Invariance, <1>1, PTL

\* Once a process serves, no two accounts share an address (client.go
\* EnsureIndexes, query.go CreateUser).
THEOREM AddressesAreUnique ==
    ASSUME Managed
    PROVE  Spec => []OneAccountPerAddress
  <1>1. IInv => OneAccountPerAddress
    BY DEF IInv, OneAccountPerAddress, Serving, At, Ready, Filled, Filling, Folded, Indexed
  <1> QED BY Invariance, <1>1, PTL

\* Once a process serves, a login finds every account (client.go
\* migrateUserEmailNormalized).
THEOREM AccountsAreFound ==
    ASSUME Managed
    PROVE  Spec => []EveryAccountIsFound
  <1>1. IInv => EveryAccountIsFound
    BY DEF IInv, EveryAccountIsFound, Serving, At, Filled, Filling, Folded
  <1> QED BY Invariance, <1>1, PTL

\* Once a process serves, no index limits a user to one application per status
\* (client.go dropLegacyUniqueAppIndex).
THEOREM ApplicationsAreFree ==
    ASSUME Managed
    PROVE  Spec => []SecondApplicationAllowed
  <1>1. IInv => SecondApplicationAllowed
    BY DEF IInv, SecondApplicationAllowed, Serving, At, AppsFree, Before
  <1> QED BY Invariance, <1>1, PTL

\* What sign-up answered stays true (handlers/auth.go SignUp).
THEOREM AnswersStayTrue ==
    ASSUME Managed
    PROVE  Spec => []SignUpAnswersAreTrue
  <1>1. ASSUME IInv PROVE SignUpAnswersAreTrue
    <2>1. ASSUME NEW g \in granted
          PROVE  {d \in Present : docs[d].normalized = Fold[g.address]} = {g.id}
      <3>1. g.address \in Addresses
        BY <1>1, <2>1 DEF IInv, TypeOK
      <3>2. docs[g.id].normalized = Fold[g.address] /\ g.id \in Present
        BY <1>1, <2>1, <3>1, NormalizedTypes DEF IInv, Granted
      <3> QED BY <1>1, <2>1, <3>2 DEF IInv, Granted, Indexed
    <2> QED BY <1>1, <2>1 DEF IInv, Refused, SignUpAnswersAreTrue
  <1> QED BY Invariance, <1>1, PTL

\* The new index is rejected only when two accounts share an address (client.go
\* migrateUserEmailNormalized).
THEOREM DuplicatesBlock ==
    ASSUME Managed
    PROVE  Spec => []OnlyDuplicatesBlock
  <1>1. IInv => OnlyDuplicatesBlock
    BY DEF IInv
  <1> QED BY Invariance, <1>1, PTL
=============================================================================
