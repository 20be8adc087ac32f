-------------------------- MODULE ApplicationData --------------------------
(* A job application and the bodies of POST and PATCH /applications.        *)
(* company stands for the required texts, follow_up for the fields that may *)
(* be null.                                                                 *)
EXTENDS Naturals

CONSTANTS Texts,     \* free texts
          Clean,     \* clean: a text as sent -> trimmed, escaped and capped
          Empty,     \* the text nothing is left of
          Statuses,  \* the statuses, "applied" among them
          Bad,       \* a status that is none (and not blank, which a POST takes as Absent)
          Dates,     \* moments, later ones larger
          Absent,    \* a field the body does not mention
          None       \* null

ASSUME DataAssumption ==
    /\ Clean \in [Texts -> Texts]
    /\ Empty \in Texts
    /\ "applied" \in Statuses
    /\ Dates \subseteq Nat
    /\ Bad \notin Statuses
    /\ \A x \in {Absent, None} : x \notin Texts /\ x \notin Statuses \cup {Bad} /\ x \notin Dates
    /\ Absent # None

\* What is stored of an application, but for its id and its user.
Content == [company   : {Clean[t] : t \in Texts} \ {Empty},
            status    : Statuses,
            applied   : Dates,
            follow_up : Dates \cup {None}]

Fields == {"company", "status", "applied", "follow_up"}

\* A JSON body: each field absent, null or a value.
Body == [company   : Texts \cup {Absent, None},
         status    : Statuses \cup {Bad, Absent, None},
         applied   : Dates \cup {Absent, None},
         follow_up : Dates \cup {Absent, None}]

\* The fields a PATCH sets.  A null in a plain field decodes to the same nil
\* pointer as no field; only a nullable field tells the two apart.
Mentions(b) == {f \in Fields : b[f] # Absent /\ (b[f] # None \/ f = "follow_up")}

\* Fault: the text is checked before it is cleaned.
RefusesUncleaned(b) ==
    \/ "company" \in Mentions(b) /\ b.company = Empty
    \/ "status" \in Mentions(b) /\ b.status \notin Statuses

\* A 400.
Refuses(b) ==
    \/ "company" \in Mentions(b) /\ Clean[b.company] = Empty
    \/ "status" \in Mentions(b) /\ b.status \notin Statuses

Take(b, f, old) == IF f \in Mentions(b) THEN b[f] ELSE old

\* The document after a PATCH.
Patched(c, b) ==
    [company   |-> IF "company" \in Mentions(b) THEN Clean[b.company] ELSE c.company,
     status    |-> Take(b, "status", c.status),
     applied   |-> Take(b, "applied", c.applied),
     follow_up |-> Take(b, "follow_up", c.follow_up)]

\* A POST without a company is refused like one whose company is empty.
RefusesNew(b) == "company" \notin Mentions(b) \/ Refuses(b)

\* The document of a POST at moment now.
Fresh(b, now) == Patched([company |-> Empty, status |-> "applied", applied |-> now,
                          follow_up |-> None], b)
=============================================================================
