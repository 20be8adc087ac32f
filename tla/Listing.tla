------------------------------- MODULE Listing -------------------------------
(***************************************************************************)
(* listAllApplications: the client's loop that collects the documents a    *)
(* query matches page by page, while requests of Applications make         *)
(* documents enter, leave and move.  A page is two MongoDB commands,       *)
(* CountDocuments and Find.  An operator marked "Fault:" is a faulty       *)
(* variant of the one after it, never part of Spec.                        *)
(***************************************************************************)
EXTENDS Naturals, FiniteSets

CONSTANTS Ids,        \* ids of applications
          Dates,      \* values of applied_at, later ones larger
          AskedSize,  \* PAGE_SIZE of the client
          DefaultSize, MaxSize,  \* the server's defaultPageSize and maxPageSize
          MaxPages,   \* MAX_PAGES of the client
          None

ASSUME ListingAssumption ==
    /\ Ids \subseteq Nat /\ IsFiniteSet(Ids)
    /\ Dates \subseteq Nat /\ None \notin Dates
    /\ AskedSize \in Nat /\ DefaultSize \in Nat \ {0} /\ MaxSize \in Nat \ {0}
    /\ MaxPages \in Nat \ {0}

VARIABLES
    applied,  \* applied_at of the documents the query matches, None for all others
    list,     \* the loop: step, page, total of the last page, rows received
              \* (length counts repeats)
    kept, seen, moves  \* history of the loop: documents that matched all along, or
                       \* at some moment, and how the matching ones changed so far

history == <<kept, seen, moves>>
vars    == <<applied, list, history>>

\* No change; documents that entered between two pages; that left; any other mix.
Moves == {"none", "entered", "left", "mixed"}

Loop == [step   : {"idle", "count", "find", "done", "failed"},
         page   : 1 .. MaxPages,
         total  : Nat,
         length : Nat,
         rows   : SUBSET Ids]

NoLoop == [step |-> "idle", page |-> 1, total |-> 0, length |-> 0, rows |-> {}]

Matching == {i \in Ids : applied[i] # None}

Listed == list.step \in {"count", "find"}

Init ==
    /\ applied \in [Ids -> Dates \cup {None}]
    /\ list = NoLoop
    /\ kept = {} /\ seen = {} /\ moves = "none"

-----------------------------------------------------------------------------
(* What requests do to the documents the query matches *)

Note(m) == moves' = IF ~Listed THEN moves ELSE IF moves \in {"none", m} THEN m ELSE "mixed"

\* A POST, or a PATCH to a status the query asks for.
Enter(i, t) ==
    /\ applied[i] = None
    /\ applied' = [applied EXCEPT ![i] = t]
    /\ seen' = IF Listed THEN seen \cup {i} ELSE seen
    /\ Note(IF list.step = "find" THEN "mixed" ELSE "entered")
    /\ UNCHANGED <<list, kept>>

\* A DELETE, or a PATCH to another status.
Leave(i) ==
    /\ applied[i] # None
    /\ applied' = [applied EXCEPT ![i] = None]
    /\ kept' = kept \ (IF Listed THEN {i} ELSE {})
    /\ Note("left")
    /\ UNCHANGED <<list, seen>>

\* A PATCH of applied_at.
Redate(i, t) ==
    /\ applied[i] \notin {None, t}
    /\ applied' = [applied EXCEPT ![i] = t]
    /\ Note("mixed")
    /\ UNCHANGED <<list, kept, seen>>

-----------------------------------------------------------------------------
(* A page *)

PageSize == IF AskedSize < 1 THEN DefaultSize
            ELSE IF AskedSize > MaxSize THEN MaxSize ELSE AskedSize

\* Newest first; the id breaks ties.
Before(i, j) == applied[i] > applied[j] \/ (applied[i] = applied[j] /\ i > j)

Rank(i) == Cardinality({j \in Matching : Before(j, i)})

\* Fault: the first page is page 0.
SkipFromZero(page) == page * PageSize

\* Fault: one row too few is skipped.
SkipOverlapping(page) == IF page = 1 THEN 0 ELSE (page - 1) * PageSize - 1

Skip(page) == (page - 1) * PageSize

PageOf(page) ==
    {i \in Matching : Skip(page) <= Rank(i) /\ Rank(i) < Skip(page) + PageSize}

\* Fault: the total of the first page is kept.
CountOnce ==
    /\ list.step = "count"
    /\ list' = [list EXCEPT !.step = "find",
                            !.total = IF list.page = 1 THEN Cardinality(Matching) ELSE @]
    /\ UNCHANGED <<applied, history>>

Count ==
    /\ list.step = "count"
    /\ list' = [list EXCEPT !.step = "find", !.total = Cardinality(Matching)]
    /\ UNCHANGED <<applied, history>>

-----------------------------------------------------------------------------
(* The loop *)

Start ==
    /\ ~Listed
    /\ list' = [NoLoop EXCEPT !.step = "count"]
    /\ kept' = Matching /\ seen' = Matching /\ moves' = "none"
    /\ UNCHANGED applied

\* Fault: MAX_PAGES is no bound.
EndsUncapped(rows, length) == rows = {} \/ length >= list.total

\* After a page of these rows, and that many in all.
Ends(rows, length) == rows = {} \/ length >= list.total \/ list.page = MaxPages

\* Fault: an empty page is fetched again.
FindPatient ==
    LET rows   == PageOf(list.page)
        length == list.length + Cardinality(rows)
        ends   == rows # {} /\ Ends(rows, length)
    IN
    /\ list.step = "find"
    /\ list' = [list EXCEPT !.step = IF ends THEN "done" ELSE "count",
                            !.page = IF ends \/ rows = {} THEN @ ELSE @ + 1,
                            !.length = length,
                            !.rows = @ \cup rows]
    /\ UNCHANGED <<applied, history>>

Find ==
    LET rows   == PageOf(list.page)
        length == list.length + Cardinality(rows)
        ends   == Ends(rows, length)
    IN
    /\ list.step = "find"
    /\ list' = [list EXCEPT !.step = IF ends THEN "done" ELSE "count",
                            !.page = IF ends THEN @ ELSE @ + 1,
                            !.length = length,
                            !.rows = @ \cup rows]
    /\ UNCHANGED <<applied, history>>

\* A page that fails ends the loop, and its rows are lost.
FailPage ==
    /\ Listed
    /\ list' = [NoLoop EXCEPT !.step = "failed"]
    /\ kept' = {} /\ seen' = {} /\ moves' = "none"
    /\ UNCHANGED applied

-----------------------------------------------------------------------------
Change == \E i \in Ids : Leave(i) \/ \E t \in Dates : Enter(i, t) \/ Redate(i, t)

Collect == Count \/ Find

Next == Change \/ Start \/ Collect \/ FailPage

Spec == Init /\ [][Next]_vars

\* A page that was requested is answered, with rows or an error.
FairSpec == Spec /\ WF_vars(Collect)
-----------------------------------------------------------------------------
TypeOK ==
    /\ applied \in [Ids -> Dates \cup {None}]
    /\ list \in Loop
    /\ kept \subseteq Ids /\ seen \subseteq Ids /\ moves \in Moves

Done == list.step = "done"

\* MAX_PAGES pages hold all there was.
WithinPages == Cardinality(seen) <= MaxPages * PageSize

\* A listing during which nothing changed returns each match once, and nothing
\* else (mongoWrap/application.go ListApplications, api.ts listAllApplications).
ListingIsExact ==
    Done /\ moves = "none" /\ WithinPages => list.rows = kept /\ list.length = Cardinality(kept)

\* Documents that enter between two pages may repeat rows but hide none
\* (api.ts listAllApplications).
ArrivalsHideNothing ==
    Done /\ moves \in {"none", "entered"} /\ WithinPages => kept \subseteq list.rows

\* Documents that leave may hide rows but repeat none (api.ts listAllApplications).
DeparturesRepeatNothing ==
    Done /\ moves \in {"none", "left"} => list.length = Cardinality(list.rows)

\* A listing ends, whatever comes and goes (api.ts listAllApplications).
ListingEnds == Listed ~> ~Listed
=============================================================================
