---------------------------- MODULE ListingProofs ----------------------------
(***************************************************************************)
(* Proofs about Listing, for any ids, dates and sizes of pages.  Ranks are *)
(* counted with the theorems on finite sets.  IInv adds what the rows      *)
(* received so far have to do with the ranks of the documents: those of    *)
(* kept documents ranked before the next page (Hidden), and what is ranked *)
(* before the next page of those received (Repeated).                      *)
(***************************************************************************)
EXTENDS Listing, FiniteSetTheorems, TLAPS

\* The loop's history and its rows.
Tracked ==
    Listed => /\ kept \subseteq Matching /\ Matching \subseteq seen
              /\ list.length <= Skip(list.page)
              /\ moves = "none" => kept = Matching /\ list.rows \subseteq kept

\* The total a page is judged by is that of its rows, unless a document came or went.
Counted ==
    list.step = "find" /\ moves \in {"none", "entered"} => list.total = Cardinality(Matching)

\* Arrivals move documents to later pages only: what is ranked before the next page was received.
Hidden ==
    Listed /\ moves \in {"none", "entered"} =>
        \A i \in kept : Rank(i) < Skip(list.page) => i \in list.rows

\* Departures move documents to earlier pages only: what was received is not met again.
Repeated ==
    Listed /\ moves \in {"none", "left"} =>
        /\ list.length = Cardinality(list.rows)
        /\ \A i \in list.rows \cap Matching : Rank(i) < Skip(list.page)

IInv == /\ TypeOK /\ Tracked /\ Counted /\ Hidden /\ Repeated
        /\ ListingIsExact /\ ArrivalsHideNothing /\ DeparturesRepeatNothing
-----------------------------------------------------------------------------
(* Pages *)

\* A page holds rows, and the next one begins where it ends.
LEMMA Pages ==
    ASSUME NEW p \in Nat \ {0}
    PROVE  /\ PageSize \in Nat \ {0} /\ Skip(p) \in Nat
           /\ Skip(p + 1) = Skip(p) + PageSize
  <1>1. PageSize \in Nat \ {0}
    BY ListingAssumption DEF PageSize
  <1>2. (p - 1) * PageSize \in Nat /\ p * PageSize = (p - 1) * PageSize + PageSize
    BY <1>1
  <1>3. (p + 1) - 1 = p
    OBVIOUS
  <1> QED BY <1>1, <1>2, <1>3 DEF Skip

-----------------------------------------------------------------------------
(* Ranks: the matching documents are numbered from 0, each by its place in the sort *)

\* Those before a document are finitely many.
LEMMA Ranked ==
    ASSUME NEW i
    PROVE  /\ IsFiniteSet(Matching) /\ Cardinality(Matching) \in Nat
           /\ IsFiniteSet({j \in Matching : Before(j, i)}) /\ Rank(i) \in Nat
  <1>1. Matching \subseteq Ids /\ {j \in Matching : Before(j, i)} \subseteq Ids
    BY DEF Matching
  <1>2. \A S \in SUBSET Ids : IsFiniteSet(S) /\ Cardinality(S) \in Nat
    BY FS_Subset, FS_CardinalityType, ListingAssumption
  <1> QED BY <1>1, <1>2 DEF Rank

\* A document before another has the smaller rank.
LEMMA RanksGrow ==
    ASSUME TypeOK, NEW i \in Matching, NEW j \in Matching, Before(i, j)
    PROVE  Rank(i) < Rank(j)
  <1> DEFINE Above(k) == {m \in Matching : Before(m, k)}
  <1>1. \A m \in Matching : m \in Nat /\ applied[m] \in Nat
    BY ListingAssumption DEF Matching, TypeOK
  <1>2. i \notin Above(i) /\ i \in Above(j)
    BY <1>1 DEF Before
  <1>3. \A m \in Above(i) : m \in Above(j)
    BY <1>1 DEF Before
  <1>4. IsFiniteSet(Above(j)) /\ Above(i) \in SUBSET Above(j) /\ Above(i) # Above(j)
    BY <1>2, <1>3, Ranked
  <1>5. Cardinality(Above(i)) <= Cardinality(Above(j)) /\ Cardinality(Above(i)) # Cardinality(Above(j))
    BY <1>4, FS_Subset
  <1>6. Rank(i) = Cardinality(Above(i)) /\ Rank(j) = Cardinality(Above(j))
    BY DEF Rank
  <1> QED BY <1>5, <1>6, Ranked

\* Two documents have two ranks.
LEMMA RanksDiffer ==
    ASSUME TypeOK, NEW i \in Matching, NEW j \in Matching, i # j
    PROVE  Rank(i) # Rank(j)
  <1>1. i \in Nat /\ j \in Nat /\ applied[i] \in Nat /\ applied[j] \in Nat
    BY ListingAssumption DEF Matching, TypeOK
  <1>2. Before(i, j) \/ Before(j, i)
    BY <1>1 DEF Before
  <1>3. Rank(i) \in Nat /\ Rank(j) \in Nat
    BY Ranked
  <1> QED BY <1>2, <1>3, RanksGrow

\* A rank is below the number of documents.
LEMMA RanksAreBelow ==
    ASSUME TypeOK, NEW i \in Matching
    PROVE  Rank(i) < Cardinality(Matching)
  <1> DEFINE Above == {j \in Matching : Before(j, i)}
  <1>1. i \in Nat /\ applied[i] \in Nat
    BY ListingAssumption DEF Matching, TypeOK
  <1>2. i \notin Above
    BY <1>1 DEF Before
  <1>3. Cardinality(Above) <= Cardinality(Matching) /\ Cardinality(Above) # Cardinality(Matching)
    BY <1>2, FS_Subset, Ranked
  <1> QED BY <1>3, Ranked DEF Rank

\* Every number below the number of documents is a rank.
LEMMA RanksAreAll ==
    ASSUME TypeOK, NEW n \in Nat, n < Cardinality(Matching)
    PROVE  \E i \in Matching : Rank(i) = n
  <1> DEFINE count == Cardinality(Matching)
             numbers == 0 .. (count - 1)
             rank == [i \in Matching |-> Rank(i)]
  <1>1. count \in Nat /\ \A i \in Matching : Rank(i) \in numbers
    <2>1. count \in Nat
      BY Ranked
    <2>2. ASSUME NEW i \in Matching PROVE Rank(i) \in numbers
      <3>1. Rank(i) \in Nat /\ Rank(i) < count
        BY Ranked, RanksAreBelow
      <3> QED BY <2>1, <3>1
    <2> QED BY <2>1, <2>2
  <1>2. IsFiniteSet(numbers) /\ Cardinality(numbers) = count
    <2>1. 0 \in Int /\ count - 1 \in Int
      BY <1>1
    <2>2. /\ IsFiniteSet(numbers)
          /\ Cardinality(numbers) = IF 0 > count - 1 THEN 0 ELSE (count - 1) - 0 + 1
      BY <2>1, FS_Interval
    <2> QED BY <1>1, <2>2
  <1>3. rank \in Injection(Matching, numbers)
    BY <1>1, RanksDiffer DEF Injection, IsInjective
  <1>4. rank \in Surjection(Matching, numbers)
    BY <1>2, <1>3, FS_Injection
  <1>5. n \in numbers
    BY <1>1
  <1> QED BY <1>4, <1>5 DEF Surjection

\* A page holds at most PageSize documents.
LEMMA PagesAreBounded ==
    ASSUME TypeOK, NEW p \in Nat \ {0}
    PROVE  /\ IsFiniteSet(PageOf(p)) /\ Cardinality(PageOf(p)) \in Nat
           /\ Cardinality(PageOf(p)) <= PageSize
  <1> DEFINE numbers == Skip(p) .. (Skip(p) + PageSize - 1)
             rank == [i \in PageOf(p) |-> Rank(i)]
  <1>1. IsFiniteSet(numbers) /\ Cardinality(numbers) = PageSize
    <2>1. Skip(p) \in Nat /\ PageSize \in Nat \ {0}
      BY Pages
    <2>2. Skip(p) \in Int /\ Skip(p) + PageSize - 1 \in Int
      BY <2>1
    <2>3. /\ IsFiniteSet(numbers)
          /\ Cardinality(numbers) = IF Skip(p) > Skip(p) + PageSize - 1 THEN 0
                                    ELSE (Skip(p) + PageSize - 1) - Skip(p) + 1
      BY <2>2, FS_Interval
    <2> QED BY <2>1, <2>3
  <1>2. \A i \in PageOf(p) : i \in Matching /\ Rank(i) \in numbers
    <2>1. Skip(p) \in Nat /\ PageSize \in Nat \ {0}
      BY Pages
    <2>2. ASSUME NEW i \in PageOf(p) PROVE i \in Matching /\ Rank(i) \in numbers
      <3>1. Rank(i) \in Nat
        BY Ranked
      <3> QED BY <2>1, <3>1 DEF PageOf
    <2> QED BY <2>2
  <1>3. rank \in Injection(PageOf(p), numbers)
    BY <1>2, RanksDiffer DEF Injection, IsInjective
  <1> QED BY <1>1, <1>3, FS_Injection, FS_CardinalityType

\* Nothing is ranked after an empty page.
LEMMA EmptyPageIsLast ==
    ASSUME TypeOK, NEW p \in Nat \ {0}, PageOf(p) = {}, NEW i \in Matching
    PROVE  Rank(i) < Skip(p)
  <1> SUFFICES ASSUME ~(Rank(i) < Skip(p)) PROVE FALSE
    OBVIOUS
  <1>1. Skip(p) < Cardinality(Matching)
    <2>1. Rank(i) \in Nat /\ Cardinality(Matching) \in Nat
      BY Ranked
    <2>2. Skip(p) \in Nat
      BY Pages
    <2> QED BY <2>1, <2>2, RanksAreBelow
  <1>2. PICK j \in Matching : Rank(j) = Skip(p)
    BY <1>1, Pages, RanksAreAll
  <1>3. j \in PageOf(p)
    BY <1>2, Pages DEF PageOf
  <1> QED BY <1>3

\* When documents leave, ranks fall.
LEMMA RanksFall ==
    ASSUME \A j \in Matching' : j \in Matching /\ applied'[j] = applied[j], NEW i \in Matching'
    PROVE  Rank(i)' \in Nat /\ Rank(i)' <= Rank(i)
  <1> DEFINE Above == {j \in Matching : Before(j, i)}
  <1>1. Above' \subseteq Above
    BY DEF Before
  <1>2. Cardinality(Above') <= Cardinality(Above) /\ Cardinality(Above') \in Nat
    BY <1>1, Ranked, FS_Subset, FS_CardinalityType
  <1> QED BY <1>2 DEF Rank

\* When documents enter, ranks rise.
LEMMA RanksRise ==
    ASSUME \A j \in Matching : j \in Matching' /\ applied'[j] = applied[j], NEW i \in Matching
    PROVE  Rank(i)' \in Nat /\ Rank(i) <= Rank(i)'
  <1> DEFINE Above == {j \in Matching : Before(j, i)}
  <1>1. Above \subseteq Above' /\ Above' \subseteq Ids
    BY DEF Before, Matching
  <1>2. IsFiniteSet(Above') /\ Cardinality(Above') \in Nat
    BY <1>1, FS_Subset, FS_CardinalityType, ListingAssumption
  <1>3. Cardinality(Above) <= Cardinality(Above')
    BY <1>1, <1>2, FS_Subset
  <1> QED BY <1>2, <1>3 DEF Rank

-----------------------------------------------------------------------------
(* One lemma per step: it keeps IInv *)

Promises == ListingIsExact /\ ArrivalsHideNothing /\ DeparturesRepeatNothing

\* A change of the documents does not touch a listing that is over.
LEMMA ChangesKeepPromises ==
    ASSUME IInv, NEW m \in {"entered", "left", "mixed"}, Note(m), list' = list,
           ~Listed => UNCHANGED <<kept, seen>>
    PROVE  Promises'
  BY DEF IInv, Promises, Note, Listed, Done, WithinPages,
         ListingIsExact, ArrivalsHideNothing, DeparturesRepeatNothing

\* Between two pages an arrival moves documents down, and it is not one of kept.
LEMMA EnterKeeps ==
    ASSUME IInv, NEW i \in Ids, NEW t \in Dates, Enter(i, t)
    PROVE  IInv'
  <1> USE DEF IInv, Enter, Listed
  <1>1. TypeOK'
    BY DEF TypeOK, Note, Moves
  <1>2. /\ t \in Nat /\ t # None
        /\ Matching' = Matching \cup {i} /\ i \notin Matching
        /\ \A j \in Matching : applied'[j] = applied[j]
    BY ListingAssumption DEF TypeOK, Matching
  <1>3. \A j \in Matching : Rank(j) \in Nat /\ Rank(j)' \in Nat /\ Rank(j) <= Rank(j)'
    BY <1>2, Ranked, RanksRise
  <1>4. Tracked'
    BY <1>2 DEF Tracked, Note, TypeOK, Skip, PageSize
  <1>5. Counted'
    BY DEF Counted, Note
  <1>6. Hidden'
    <2> SUFFICES ASSUME Listed, moves' \in {"none", "entered"},
                        NEW j \in kept, Rank(j)' < Skip(list.page)
                 PROVE  j \in list.rows
      BY DEF Hidden, Skip, PageSize
    <2>1. moves \in {"none", "entered"} /\ j \in Matching
      BY DEF Note, Tracked
    <2>2. Skip(list.page) \in Nat
      BY Pages DEF TypeOK, Loop
    <2>3. Rank(j) < Skip(list.page)
      BY <1>3, <2>1, <2>2
    <2> QED BY <2>1, <2>3 DEF Hidden
  <1>7. Repeated'
    BY DEF Repeated, Note
  <1>8. Promises'
    BY ChangesKeepPromises
  <1> QED BY <1>1, <1>4, <1>5, <1>6, <1>7, <1>8 DEF Promises

\* A departure moves documents up.
LEMMA LeaveKeeps ==
    ASSUME IInv, NEW i \in Ids, Leave(i)
    PROVE  IInv'
  <1> USE DEF IInv, Leave, Listed
  <1>1. TypeOK'
    BY DEF TypeOK, Note, Moves
  <1>2. /\ Matching' = Matching \ {i}
        /\ \A j \in Matching' : j \in Matching /\ applied'[j] = applied[j]
    BY DEF TypeOK, Matching
  <1>3. \A j \in Matching' : Rank(j) \in Nat /\ Rank(j)' \in Nat /\ Rank(j)' <= Rank(j)
    BY <1>2, Ranked, RanksFall
  <1>4. Tracked'
    BY <1>2 DEF Tracked, Note, TypeOK, Skip, PageSize
  <1>5. Counted'
    BY DEF Counted, Note
  <1>6. Hidden'
    BY DEF Hidden, Note
  <1>7. Repeated'
    <2> SUFFICES ASSUME Listed, moves' \in {"none", "left"}
                 PROVE  /\ list.length = Cardinality(list.rows)
                        /\ \A j \in list.rows \cap Matching' : Rank(j)' < Skip(list.page)
      BY DEF Repeated, Skip, PageSize
    <2>1. moves \in {"none", "left"}
      BY DEF Note
    <2>2. Skip(list.page) \in Nat
      BY Pages DEF TypeOK, Loop
    <2> QED BY <1>2, <1>3, <2>1, <2>2 DEF Repeated
  <1>8. Promises'
    BY ChangesKeepPromises
  <1> QED BY <1>1, <1>4, <1>5, <1>6, <1>7, <1>8 DEF Promises

LEMMA RedateKeeps ==
    ASSUME IInv, NEW i \in Ids, NEW t \in Dates, Redate(i, t)
    PROVE  IInv'
  <1> USE DEF IInv, Redate, Listed
  <1>1. TypeOK'
    BY DEF TypeOK, Note, Moves
  <1>2. Matching' = Matching
    BY ListingAssumption DEF TypeOK, Matching
  <1>3. Tracked'
    BY <1>2 DEF Tracked, Note, TypeOK, Skip, PageSize
  <1>4. Counted' /\ Hidden' /\ Repeated'
    BY DEF Counted, Hidden, Repeated, Note
  <1>5. Promises'
    BY ChangesKeepPromises
  <1> QED BY <1>1, <1>3, <1>4, <1>5 DEF Promises

\* A loop that has received nothing.
LEMMA EmptyLoop ==
    ASSUME NEW step \in {"idle", "count", "find", "done", "failed"}
    PROVE  [step |-> step, page |-> 1, total |-> 0, length |-> 0, rows |-> {}] \in Loop
  <1>1. 1 \in 1 .. MaxPages
    BY ListingAssumption
  <1> QED BY <1>1 DEF Loop

LEMMA StartKeeps ==
    ASSUME IInv, Start
    PROVE  IInv'
  <1> USE DEF IInv, Start, Listed
  <1>1. list' = [step |-> "count", page |-> 1, total |-> 0, length |-> 0, rows |-> {}]
    BY DEF NoLoop
  <1>2. TypeOK' /\ Matching' = Matching
    <2>1. Matching' = Matching /\ Matching \subseteq Ids
      BY DEF Matching
    <2> QED BY <1>1, <2>1, EmptyLoop DEF TypeOK, Moves
  <1>3. Skip(1) = 0
    <2>1. 1 \in Nat \ {0}
      OBVIOUS
    <2>2. PageSize \in Nat
      BY <2>1, Pages
    <2> QED BY <2>2 DEF Skip
  <1>4. Tracked' /\ Counted' /\ Promises'
    BY <1>1, <1>2, <1>3 DEF Tracked, Counted, Promises, Done, Skip, PageSize,
           ListingIsExact, ArrivalsHideNothing, DeparturesRepeatNothing
  <1>5. Hidden' /\ Repeated'
    <2>1. Skip(list.page)' = 0 /\ Cardinality({}) = 0
      BY <1>1, <1>3, FS_EmptySet DEF Skip, PageSize
    <2>2. \A i \in Matching : Rank(i)' = Rank(i) /\ Rank(i) \in Nat
      BY Ranked DEF Rank, Before, Matching
    <2> QED BY <1>1, <2>1, <2>2 DEF Hidden, Repeated
  <1> QED BY <1>2, <1>4, <1>5 DEF Promises

LEMMA CountKeeps ==
    ASSUME IInv, Count
    PROVE  IInv'
  <1> USE DEF IInv, Count, Listed, history
  <1>1. list' = [step |-> "find", page |-> list.page, total |-> Cardinality(Matching),
                 length |-> list.length, rows |-> list.rows]
    BY DEF TypeOK, Loop
  <1>2. TypeOK' /\ Matching' = Matching
    BY <1>1, Ranked DEF TypeOK, Matching, Loop
  <1>3. Tracked' /\ Counted' /\ Promises'
    BY <1>1, <1>2 DEF Tracked, Counted, Promises, Done, Skip, PageSize,
           ListingIsExact, ArrivalsHideNothing, DeparturesRepeatNothing
  <1>4. Hidden' /\ Repeated'
    BY <1>1, <1>2 DEF Hidden, Repeated, Rank, Before, Matching, Skip, PageSize
  <1> QED BY <1>2, <1>3, <1>4 DEF Promises

LEMMA FailPageKeeps ==
    ASSUME IInv, FailPage
    PROVE  IInv'
  <1> USE DEF IInv, FailPage, Listed
  <1>1. list' = [step |-> "failed", page |-> 1, total |-> 0, length |-> 0, rows |-> {}]
    BY DEF NoLoop
  <1>2. TypeOK'
    BY <1>1, EmptyLoop DEF TypeOK, Moves
  <1>3. Tracked' /\ Counted' /\ Hidden' /\ Repeated' /\ Promises'
    BY <1>1 DEF Tracked, Counted, Hidden, Repeated, Promises, Done,
           ListingIsExact, ArrivalsHideNothing, DeparturesRepeatNothing
  <1> QED BY <1>2, <1>3 DEF Promises

\* A page that is full goes on where the last one ended.  One that ends the loop has
\* reached every rank: no document is left behind it, the total of its own moment is
\* reached, or the last page allowed is.
LEMMA FindKeeps ==
    ASSUME IInv, Find
    PROVE  IInv'
  <1> USE DEF IInv, Listed
  <1> DEFINE p == list.page
             S == PageOf(p)
             rows == list.rows \cup S
             length == list.length + Cardinality(S)
             end == Skip(p) + PageSize
  <1>1. /\ list.step = "find" /\ Listed
        /\ list' = [step |-> IF Ends(S, length) THEN "done" ELSE "count",
                    page |-> IF Ends(S, length) THEN p ELSE p + 1,
                    total |-> list.total, length |-> length, rows |-> rows]
        /\ UNCHANGED <<applied, kept, seen, moves>>
    BY DEF Find, TypeOK, Loop, history
  <1>2. /\ p \in 1 .. MaxPages /\ p \in Nat \ {0} /\ MaxPages \in Nat
        /\ list.total \in Nat /\ list.length \in Nat /\ list.rows \subseteq Ids
    BY ListingAssumption DEF TypeOK, Loop
  <1>3. /\ PageSize \in Nat \ {0} /\ Skip(p) \in Nat /\ end \in Nat
        /\ Skip(p + 1) = end
    BY <1>2, Pages
  <1>4. S \subseteq Matching /\ Matching \subseteq Ids
    BY DEF PageOf, Matching
  <1>5. IsFiniteSet(S) /\ Cardinality(S) \in Nat /\ Cardinality(S) <= PageSize
    BY <1>2, PagesAreBounded
  <1>6. \A i \in Matching : Rank(i) \in Nat
    BY Ranked
  <1>7. TypeOK'
    <2>1. ~Ends(S, length) => p + 1 \in 1 .. MaxPages
      BY <1>2 DEF Ends
    <2>2. list' \in Loop
      BY <1>1, <1>2, <1>4, <1>5, <2>1 DEF Loop
    <2> QED BY <1>1, <2>2 DEF TypeOK
  <1>8. length <= end
    BY <1>1, <1>2, <1>3, <1>5 DEF Tracked
  <1>9. ASSUME moves \in {"none", "entered"}, NEW i \in kept, Rank(i) < end
        PROVE  i \in rows
    <2>1. i \in Matching
      BY <1>1 DEF Tracked
    <2>2. CASE Rank(i) < Skip(p)
      BY <1>1, <1>9, <2>2 DEF Hidden
    <2>3. CASE ~(Rank(i) < Skip(p))
      BY <1>3, <1>6, <1>9, <2>1, <2>3 DEF PageOf
    <2> QED BY <2>2, <2>3
  <1>10. ASSUME moves \in {"none", "left"}
         PROVE  /\ length = Cardinality(rows)
                /\ \A i \in rows \cap Matching : Rank(i) < end
    <2>1. \A i \in list.rows \cap Matching : Rank(i) < Skip(p)
      BY <1>1, <1>10 DEF Repeated
    <2>2. \A i \in S : Skip(p) <= Rank(i) /\ Rank(i) < end
      BY DEF PageOf
    <2>3. list.rows \cap S = {}
      BY <1>3, <1>4, <1>6, <2>1, <2>2
    <2>4. IsFiniteSet(list.rows)
      BY <1>2, FS_Subset, ListingAssumption
    <2>5. Cardinality(rows) = Cardinality(list.rows) + Cardinality(S) - Cardinality({})
      BY <1>5, <2>3, <2>4, FS_Union
    <2>6. list.length = Cardinality(list.rows) /\ Cardinality({}) = 0
      BY <1>1, <1>10, FS_EmptySet DEF Repeated
    <2>7. length = Cardinality(rows)
      BY <1>2, <1>5, <2>5, <2>6
    <2>8. \A i \in rows \cap Matching : Rank(i) < end
      BY <1>3, <1>4, <1>6, <2>1, <2>2
    <2> QED BY <2>7, <2>8
  <1>11. CASE ~Ends(S, length)
    <2>1. list'.step = "count" /\ list'.page = p + 1 /\ Skip(list.page)' = end
      BY <1>1, <1>3, <1>11 DEF Skip, PageSize
    <2>2. Matching' = Matching /\ \A i : Rank(i)' = Rank(i)
      BY <1>1 DEF Matching, Rank, Before
    <2>3. Tracked'
      BY <1>1, <1>4, <1>8, <2>1, <2>2 DEF Tracked
    <2>4. Hidden'
      BY <1>1, <1>9, <2>1, <2>2 DEF Hidden
    <2>5. Repeated'
      BY <1>1, <1>10, <2>1, <2>2 DEF Repeated
    <2>6. Counted' /\ Promises'
      BY <2>1 DEF Counted, Promises, Done,
             ListingIsExact, ArrivalsHideNothing, DeparturesRepeatNothing
    <2> QED BY <1>7, <2>3, <2>4, <2>5, <2>6 DEF Promises
  <1>12. CASE Ends(S, length)
    <2>1. list'.step = "done"
      BY <1>1, <1>12
    <2>2. ASSUME moves \in {"none", "entered"}, WithinPages, NEW i \in kept
          PROVE  i \in rows
      <3>1. i \in Matching /\ Rank(i) \in Nat /\ Rank(i) < Cardinality(Matching)
        BY <1>1, <1>6, RanksAreBelow DEF Tracked
      <3>2. Cardinality(Matching) \in Nat
        BY Ranked
      <3>3. CASE S = {}
        BY <1>2, <1>3, <1>9, <2>2, <3>1, <3>3, EmptyPageIsLast
      <3>4. CASE length >= list.total
        <4>1. list.total = Cardinality(Matching)
          BY <1>1, <2>2 DEF Counted
        <4>2. Rank(i) < end
          BY <1>2, <1>3, <1>5, <1>8, <3>1, <3>4, <4>1
        <4> QED BY <1>9, <2>2, <4>2
      <3>5. CASE p = MaxPages
        <4>1. Matching \subseteq seen /\ IsFiniteSet(seen) /\ Cardinality(seen) \in Nat
          BY <1>1, FS_Subset, FS_CardinalityType, ListingAssumption DEF Tracked, TypeOK
        <4>2. Cardinality(Matching) <= Cardinality(seen)
          BY <4>1, FS_Subset
        <4>3. Cardinality(seen) <= MaxPages * PageSize
          BY <2>2 DEF WithinPages
        <4>4. (MaxPages + 1) - 1 = MaxPages
          BY <1>2
        <4>5. MaxPages * PageSize = end
          BY <1>3, <3>5, <4>4 DEF Skip
        <4>6. Rank(i) < end
          BY <1>3, <3>1, <3>2, <4>1, <4>2, <4>3, <4>5
        <4> QED BY <1>9, <2>2, <4>6
      <3> QED BY <1>12, <3>3, <3>4, <3>5 DEF Ends
    <2>3. ArrivalsHideNothing'
      BY <1>1, <2>2 DEF ArrivalsHideNothing, WithinPages, PageSize
    <2>4. DeparturesRepeatNothing'
      BY <1>1, <1>10 DEF DeparturesRepeatNothing
    <2>5. moves = "none" => rows \subseteq kept
      BY <1>1, <1>4 DEF Tracked
    <2>6. ListingIsExact'
      BY <1>1, <1>10, <2>2, <2>5 DEF ListingIsExact, WithinPages, PageSize
    <2>7. Tracked' /\ Counted' /\ Hidden' /\ Repeated'
      BY <2>1 DEF Tracked, Counted, Hidden, Repeated
    <2> QED BY <1>7, <2>3, <2>4, <2>6, <2>7
  <1> QED BY <1>11, <1>12

-----------------------------------------------------------------------------
(* The theorems *)

LEMMA InitKeeps == Init => IInv
  <1> SUFFICES ASSUME Init PROVE IInv
    OBVIOUS
  <1>1. TypeOK
    BY EmptyLoop DEF Init, TypeOK, NoLoop, Moves
  <1> QED BY <1>1 DEF Init, IInv, NoLoop, Tracked, Counted, Hidden, Repeated, Listed,
                     Done, ListingIsExact, ArrivalsHideNothing, DeparturesRepeatNothing

LEMMA NextKeeps == IInv /\ [Next]_vars => IInv'
  <1> SUFFICES ASSUME IInv, [Next]_vars PROVE IInv'
    OBVIOUS
  <1>1. CASE Next
    BY <1>1, EnterKeeps, LeaveKeeps, RedateKeeps, StartKeeps, CountKeeps, FindKeeps, FailPageKeeps
       DEF Next, Change, Collect
  <1>2. CASE UNCHANGED vars
    BY <1>2 DEF vars, history, IInv, TypeOK, Tracked, Counted, Hidden, Repeated, Listed, Done,
           Matching, Rank, Before, Skip, PageSize, WithinPages,
           ListingIsExact, ArrivalsHideNothing, DeparturesRepeatNothing
  <1> QED BY <1>1, <1>2

\* IInv holds in every state.
THEOREM Invariance == Spec => []IInv
  BY InitKeeps, NextKeeps, PTL DEF Spec

\* The loop's page stays within MAX_PAGES and its rows are documents
\* (api.ts listAllApplications).
THEOREM TypeCorrect == Spec => []TypeOK
  <1>1. IInv => TypeOK
    BY DEF IInv
  <1> QED BY <1>1, Invariance, PTL

\* A listing during which nothing changed is the set of matches, each once, however many
\* there are up to MAX_PAGES full pages (api.ts listAllApplications).
THEOREM QuietListingsAreExact == Spec => []ListingIsExact
  <1>1. IInv => ListingIsExact
    BY DEF IInv
  <1> QED BY <1>1, Invariance, PTL

\* Documents that enter between pages hide none of those that matched all along
\* (api.ts listAllApplications).
THEOREM ArrivalsAreHarmless == Spec => []ArrivalsHideNothing
  <1>1. IInv => ArrivalsHideNothing
    BY DEF IInv
  <1> QED BY <1>1, Invariance, PTL

\* Documents that leave, at any moment, repeat none (api.ts listAllApplications).
THEOREM DeparturesAreNotRepeated == Spec => []DeparturesRepeatNothing
  <1>1. IInv => DeparturesRepeatNothing
    BY DEF IInv
  <1> QED BY <1>1, Invariance, PTL
=============================================================================
