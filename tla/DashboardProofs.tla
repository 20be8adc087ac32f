-------------------------- MODULE DashboardProofs --------------------------
(***************************************************************************)
(* Proofs about Dashboard, for any applications, texts and number of       *)
(* drafts, failures and changes in the other tab.  IInv adds to the        *)
(* properties what a call under way holds (Shapes), that whatever the tab  *)
(* knows of was given out by the server (Known), which drafts can still    *)
(* make a document (Drafts), what the pages read so far hold (Paged), and  *)
(* how the rows differ from the documents while answers are on their way   *)
(* (Board).                                                                *)
(***************************************************************************)
EXTENDS Dashboard, FiniteSetTheorems, TLAPS

Shapes ==
    /\ save.at = "out" => save.text \in Texts /\ (save.draft # 0 => save.id = None)
    /\ save.at = "back" => save.id \in Ids /\ save.text \in Stored
    /\ del.at # "none" => del.id \in Ids /\ del.draft = 0 /\ del.text = None
    /\ stray.draft # 0 => stray.text \in Texts

Known ==
    /\ \A i \in Ids : Exists(i) \/ all[i] # <<>> \/ load.rows[i] # <<>> => i \in used
    /\ editing # None => editing \in used
    /\ save.at # "none" /\ save.id # None => save.id \in used
    /\ del.at # "none" => del.id \in used

\* A draft that is still open, or under way and not served, has made nothing yet.
Drafts ==
    /\ save.draft <= draft /\ stray.draft <= draft
    /\ stray.draft # 0 => stray.draft \in unsure
    /\ \A d \in 1..MaxDrafts : d > draft => made[d] = 0
    /\ save.at = "out" /\ save.draft \notin unsure \cup {0} => made[save.draft] = 0
    /\ open /\ editing = None => draft # 0
    /\ open /\ editing = None /\ draft \notin unsure
            /\ ~(save.at = "back" /\ save.draft = draft) => made[draft] = 0

Beyond == raced \cup foreign

Saving(i)   == save.at = "back" /\ save.id = i
Deleting(i) == del.at = "back" /\ del.id = i

\* What the answer to a save or a delete finds.
Answers ==
    /\ \A i \in Ids \ Beyond : Saving(i) /\ save.draft # 0 =>
          /\ docs[i] = save.text /\ all[i] = <<>>
          /\ editing # i /\ (del.at # "none" => del.id # i)
          /\ Reading \/ load.at = "back" => i \in load.crossed
    /\ \A i \in Ids \ Beyond : Saving(i) => docs[i] \in {save.text, None}
    /\ \A i \in Ids \ Beyond : Deleting(i) => docs[i] = None

Received == {i \in Ids : load.rows[i] # <<>>}

\* What the pages read so far hold, unless documents have moved: the first one all there
\* was, or each as many as fit, none twice.
Paged ==
    /\ load.page = 1 /\ load.at \in {"count", "find"} => load.rows = NoRows /\ load.length = 0
    /\ Reading /\ ~load.moved =>
         IF Cardinality(Existing) <= PageSize
         THEN load.page > 1 =>
                \A i \in Ids \ (Beyond \cup load.crossed) : load.rows[i] = Listed(i)
         ELSE /\ load.length = (load.page - 1) * PageSize /\ Cardinality(Received) = load.length
              /\ \A i \in Received : load.rows[i] = Listed(i)
              /\ load.at = "find" => load.total = Cardinality(Existing)

\* What a list on its way shows, and the board.
Board ==
    /\ Reading \/ load.at = "back" =>
          \A i \in Ids \ (Beyond \cup load.crossed) : Current(load.rows[i], i)
    /\ load.at = "back" /\ ~load.moved =>
          \A i \in Ids \ (Beyond \cup load.crossed) : load.rows[i] = Listed(i)
    /\ load.at = "shown" => \A i \in Ids \ Beyond : ~Deleting(i) =>
          /\ ~Saving(i) => Current(all[i], i)
          /\ ~Exists(i) => all[i] = <<>>
          /\ ~Saving(i) /\ ~load.moved => all[i] = Listed(i)
          /\ Saving(i) /\ save.draft = 0 /\ ~load.moved => Len(all[i]) = Len(Listed(i))

IInv == TypeOK /\ Shapes /\ Known /\ Drafts /\ OneDocPerDraft /\ Answers /\ Paged /\ Board

-----------------------------------------------------------------------------
(* Facts the steps share *)

\* A call's fields.
LEMMA CallFields ==
    ASSUME NEW k \in Call
    PROVE  /\ k.id \in Ids \cup {None} /\ k.draft \in 0..MaxDrafts
           /\ k = [at |-> k.at, id |-> k.id, text |-> k.text, draft |-> k.draft]
  BY DEF Call

\* The texts of a row after an edit: as many, each the one saved.
LEMMA Edited ==
    ASSUME NEW S, NEW rows \in Seq(S), NEW text \in S
    PROVE  /\ [n \in DOMAIN rows |-> text] \in Seq(S)
           /\ Len([n \in DOMAIN rows |-> text]) = Len(rows)
           /\ rows = <<>> => [n \in DOMAIN rows |-> text] = <<>>
           /\ Len(rows) = 1 => [n \in DOMAIN rows |-> text] = <<text>>
           /\ \A n \in DOMAIN [m \in DOMAIN rows |-> text] : [m \in DOMAIN rows |-> text][n] = text
  <1>1. DOMAIN rows = 1..Len(rows) /\ Len(rows) \in Nat
    OBVIOUS
  <1> DEFINE edited == [n \in 1..Len(rows) |-> text]
  <1>2. edited \in Seq(S) /\ Len(edited) = Len(rows)
    BY <1>1
  <1>3. rows = <<>> => edited = <<>>
    BY <1>2
  <1>4. Len(rows) = 1 => edited = <<text>>
    BY <1>2
  <1> QED BY <1>1, <1>2, <1>3, <1>4

\* What a change of a document leaves well formed.
LEMMA PutTypes ==
    ASSUME TypeOK, NEW i \in Ids, NEW v \in Stored \cup {None}, Put(i, v)
    PROVE  docs' \in [Ids -> Stored \cup {None}] /\ used' \subseteq Ids /\ load' \in Load
  <1>1. docs' \in [Ids -> Stored \cup {None}] /\ used' \subseteq Ids
    BY DEF TypeOK, Put
  <1>2. load' \in Load
    BY DEF TypeOK, Put, Load, Reading
  <1> QED BY <1>1, <1>2

\* There are finitely many documents, and a page is some of them.
LEMMA Counted ==
    ASSUME NEW S, S \in SUBSET Ids
    PROVE  /\ IsFiniteSet(S) /\ Cardinality(S) \in Nat
           /\ \A T \in SUBSET S : /\ IsFiniteSet(T) /\ Cardinality(T) \in Nat
                                  /\ Cardinality(T) <= Cardinality(S)
                                  /\ Cardinality(T) = Cardinality(S) => T = S
  <1>1. IsFiniteSet(Ids)
    BY DashboardAssumption
  <1>2. IsFiniteSet(S)
    BY <1>1, FS_Subset
  <1> QED BY <1>2, FS_Subset, FS_CardinalityType

\* A change of a document while the list is read is marked.
LEMMA PutKeepsPaged ==
    ASSUME TypeOK, Paged, NEW i \in Ids, NEW v \in Stored \cup {None}, Put(i, v),
           Beyond \subseteq Beyond'
    PROVE  Paged'
  <1>1. /\ load'.at = load.at /\ load'.page = load.page /\ load'.rows = load.rows
        /\ load'.length = load.length /\ Reading' = Reading
        /\ Reading => load'.crossed = load.crossed \cup {i}
        /\ load'.moved = (load.moved \/ (Reading /\ Cardinality(Existing \cup {i}) > PageSize))
    BY DEF TypeOK, Load, Put, Reading
  <1>2. \A j \in Ids : j # i => Listed(j)' = Listed(j)
    BY DEF TypeOK, Put, Listed, Exists
  <1>3. ASSUME Reading, ~load'.moved
        PROVE  Cardinality(Existing) <= PageSize /\ Cardinality(Existing') <= PageSize
    <2>1. /\ Existing \cup {i} \in SUBSET Ids
          /\ Existing \subseteq Existing \cup {i} /\ Existing' \subseteq Existing \cup {i}
      BY DEF TypeOK, Put, Existing, Exists
    <2>2. /\ Cardinality(Existing \cup {i}) \in Nat
          /\ Cardinality(Existing) <= Cardinality(Existing \cup {i}) /\ Cardinality(Existing) \in Nat
          /\ Cardinality(Existing') <= Cardinality(Existing \cup {i}) /\ Cardinality(Existing') \in Nat
      BY <2>1, Counted
    <2>3. ~(Cardinality(Existing \cup {i}) > PageSize) /\ PageSize \in Nat
      BY <1>1, <1>3, DashboardAssumption
    <2> QED BY <2>2, <2>3
  <1> QED BY <1>1, <1>2, <1>3 DEF Paged

-----------------------------------------------------------------------------
(* One lemma per step: it keeps IInv *)

\* A new draft has made nothing.
LEMMA OpenEditorKeeps ==
    ASSUME IInv, NEW i \in {None} \cup {j \in Ids : all[j] # <<>>}, OpenEditor(i)
    PROVE  IInv'
  <1> USE DashboardAssumption DEF IInv, OpenEditor, server, dialog, history
  <1>1. TypeOK'
    BY DEF TypeOK
  <1>2. Shapes'
    BY DEF Shapes, TypeOK, Quiet
  <1>3. Known'
    BY DEF Known, Exists, Load, Loaded, NoRows
  <1>4. Drafts' /\ OneDocPerDraft'
    BY DEF Drafts, OneDocPerDraft, TypeOK, Call
  <1>5. Answers'
    BY DEF Answers, Beyond, Reading, Saving, Deleting
  <1>6. Board'
    BY DEF Board, Current, Reading, Beyond, Saving, Deleting, Listed, Exists, Answers
  <1>7. Paged'
    BY DEF Paged, Beyond, Reading, Received, Listed, Existing, Exists
  <1> QED BY <1>1, <1>2, <1>3, <1>4, <1>5, <1>6, <1>7

LEMMA CloseEditorKeeps ==
    ASSUME IInv, CloseEditor
    PROVE  IInv'
  <1> USE DashboardAssumption DEF IInv, CloseEditor, server, dialog, history
  <1>1. TypeOK'
    BY DEF TypeOK
  <1>2. Shapes'
    BY DEF Shapes, TypeOK, Quiet
  <1>3. Known'
    BY DEF Known, Exists, Load, Loaded, NoRows
  <1>4. Drafts' /\ OneDocPerDraft'
    BY DEF Drafts, OneDocPerDraft
  <1>5. Answers'
    BY DEF Answers, Beyond, Reading, Saving, Deleting
  <1>6. Board'
    BY DEF Board, Current, Reading, Beyond, Saving, Deleting, Listed, Exists, Answers
  <1>7. Paged'
    BY DEF Paged, Beyond, Reading, Received, Listed, Existing, Exists
  <1> QED BY <1>1, <1>2, <1>3, <1>4, <1>5, <1>6, <1>7

\* A save is of a draft that has made nothing, or of an application the server knows.
LEMMA SubmitKeeps ==
    ASSUME IInv, NEW t \in Texts, Submit(t)
    PROVE  IInv'
  <1> USE DashboardAssumption DEF IInv, Submit, MaySubmit, server, dialog, history
  <1>1. TypeOK'
    <2>1. save' \in Call
      BY DEF TypeOK, Call
    <2>2. stray' \in Call
      BY DEF TypeOK
    <2> QED BY <2>1, <2>2 DEF TypeOK
  <1>2. Shapes'
    BY DEF Shapes, TypeOK, Quiet
  <1>3. Known'
    BY DEF Known, Exists, Load, Loaded, NoRows
  <1>4. Drafts' /\ OneDocPerDraft'
    BY DEF Drafts, OneDocPerDraft, TypeOK
  <1>5. Answers'
    BY DEF Answers, Beyond, Reading, Saving, Deleting
  <1>6. Board'
    BY DEF Board, Current, Reading, Beyond, Saving, Deleting, Listed, Exists, Answers
  <1>7. Paged'
    BY DEF Paged, Beyond, Reading, Received, Listed, Existing, Exists
  <1> QED BY <1>1, <1>2, <1>3, <1>4, <1>5, <1>6, <1>7

LEMMA AskDeleteKeeps ==
    ASSUME IInv, AskDelete
    PROVE  IInv'
  <1> USE DashboardAssumption DEF IInv, AskDelete, server, dialog, history
  <1>1. TypeOK'
    <2>1. del' = [at |-> "out", id |-> editing, text |-> None, draft |-> 0]
      BY DEF Quiet
    <2>2. del' \in Call
      BY <2>1 DEF TypeOK, Call
    <2> QED BY <2>2 DEF TypeOK
  <1>2. Shapes'
    BY DEF Shapes, TypeOK, Quiet
  <1>3. Known'
    BY DEF Known, Exists, Load, Loaded, NoRows
  <1>4. Drafts' /\ OneDocPerDraft'
    BY DEF Drafts, OneDocPerDraft
  <1>5. Answers'
    BY DEF Answers, Beyond, Reading, Saving, Deleting
  <1>6. Board'
    BY DEF Board, Current, Reading, Beyond, Saving, Deleting, Listed, Exists, Answers
  <1>7. Paged'
    BY DEF Paged, Beyond, Reading, Received, Listed, Existing, Exists
  <1> QED BY <1>1, <1>2, <1>3, <1>4, <1>5, <1>6, <1>7

LEMMA CountPageKeeps ==
    ASSUME IInv, CountPage
    PROVE  IInv'
  <1> USE DashboardAssumption DEF IInv, CountPage, server, dialog, history
  <1>1. /\ load'.at = "find" /\ load'.page = load.page /\ load'.rows = load.rows
        /\ load'.length = load.length /\ load'.moved = load.moved
        /\ load'.total = Cardinality(Existing) /\ load'.total \in Nat
        /\ load.page > 1 => load'.crossed = load.crossed
        /\ save.at = "back" /\ save.draft # 0 /\ load.page = 1 => load'.crossed = {save.id}
        /\ load' \in Load
    <2>1. Cardinality(Existing) \in Nat
      BY Counted DEF Existing
    <2>2. load \in Load /\ (save.at = "back" => save.id \in Ids)
      BY DEF TypeOK, Shapes
    <2>3. load' = [at |-> "find", page |-> load.page, total |-> Cardinality(Existing),
                   length |-> load.length, rows |-> load.rows,
                   crossed |-> IF load.page = 1 /\ save.at = "back" /\ save.draft # 0
                               THEN {save.id} ELSE load.crossed,
                   moved |-> load.moved]
      BY <2>2 DEF Load
    <2>4. load'.crossed \subseteq Ids
      BY <2>2, <2>3 DEF Load
    <2>5. load' \in Load
      BY <2>1, <2>2, <2>3, <2>4 DEF Load
    <2>6. load.page \in Nat
      BY <2>2 DEF Load
    <2> QED BY <2>1, <2>3, <2>5, <2>6
  <1>2. /\ Reading' /\ load.page \in Nat \ {0}
        /\ load.page # 1 => load.page > 1
        /\ load.page > 1 => Reading
    BY DEF Reading, TypeOK, Load
  <1>3. TypeOK'
    BY <1>1 DEF TypeOK
  <1>4. Shapes'
    BY DEF Shapes
  <1>5. Known'
    BY <1>1 DEF Known, Exists
  <1>6. Drafts' /\ OneDocPerDraft'
    BY DEF Drafts, OneDocPerDraft
  <1>7. Answers'
    <2>1. \A i \in Ids \ Beyond : Saving(i) /\ save.draft # 0 => i \in load'.crossed
      <3>1. CASE load.page = 1
        BY <1>1, <3>1 DEF Saving
      <3>2. CASE load.page > 1
        <4>1. Reading /\ load'.crossed = load.crossed
          BY <1>1, <1>2, <3>2
        <4> QED BY <4>1 DEF Answers
      <3> QED BY <1>2, <3>1, <3>2
    <2> QED BY <2>1 DEF Answers, Beyond, Saving, Deleting
  <1>8. load.page = 1 => load'.rows = NoRows /\ load'.length = 0
    BY <1>1 DEF Paged
  <1>9. load.page = 1 => Received' = {} /\ Cardinality({}) = 0 /\ (load.page - 1) * PageSize = 0
    BY <1>8, FS_EmptySet DEF Received, NoRows
  <1>10. Paged'
    <2>1. CASE load.page = 1
      <3>1. load'.page = 1 /\ ~(load'.page > 1) /\ Received' = {}
            /\ (load'.page - 1) * PageSize = 0
        BY <1>1, <1>9, <2>1
      <3>2. Existing' = Existing
        BY DEF Existing, Exists
      <3> QED BY <1>1, <1>8, <1>9, <2>1, <3>1, <3>2 DEF Paged
    <2>2. CASE load.page > 1
      <3>1. load.page # 1 /\ Reading
        BY <1>2, <2>2
      <3>2. Received' = Received /\ Existing' = Existing /\ Beyond' = Beyond
            /\ \A i : Listed(i)' = Listed(i)
        BY <1>1 DEF Received, Existing, Exists, Beyond, Listed
      <3>3. load'.page # 1 /\ load'.crossed = load.crossed
        BY <1>1, <2>2, <3>1
      <3> QED BY <1>1, <3>1, <3>2, <3>3 DEF Paged
    <2> QED BY <1>2, <2>1, <2>2
  <1>11. Board'
    <2>1. CASE load.page = 1
      <3>1. \A i \in Ids : load'.rows[i] = <<>> /\ DOMAIN load'.rows[i] = {}
        BY <1>8, <2>1 DEF NoRows
      <3> QED BY <1>1, <3>1 DEF Board, Current
    <2>2. CASE load.page > 1
      <3>1. Reading /\ load'.crossed = load.crossed
        BY <1>1, <1>2, <2>2
      <3> QED BY <1>1, <3>1 DEF Board, Current, Beyond
    <2> QED BY <1>2, <2>1, <2>2
  <1> QED BY <1>3, <1>4, <1>5, <1>6, <1>7, <1>10, <1>11

\* A page has the rows its place and the number of documents leave it.
LEMMA PageSizes ==
    ASSUME IInv, load.at = "find", NEW S \in PageOf(load.page)
    PROVE  /\ S \subseteq Existing /\ IsFiniteSet(S) /\ Cardinality(S) \in Nat
           /\ LET left == Cardinality(Existing) - (load.page - 1) * PageSize
              IN  Cardinality(S) = IF left < 0 THEN 0 ELSE IF left < PageSize THEN left ELSE PageSize
           /\ ~load.moved => \A i \in S : load.rows[i] = <<>>
  <1>1. S \in SUBSET Existing /\ Existing \in SUBSET Ids
    BY DEF PageOf, Existing
  <1>2. IsFiniteSet(S) /\ Cardinality(S) \in Nat
    BY <1>1, Counted
  <1> QED BY <1>1, <1>2 DEF PageOf

\* Unless documents moved, a load that ends has every document: its one page has, or
\* the pages before were full, none met a document twice, and the total is the documents'.
LEMMA FindPageKeeps ==
    ASSUME IInv, FindPage
    PROVE  IInv'
  <1> USE DashboardAssumption
  <1> DEFINE p == load.page
             n == Cardinality(Existing)
  <1>1. PICK S \in PageOf(p) :
          LET length == load.length + Cardinality(S)
              ends   == S = {} \/ length >= load.total
              stops  == ends \/ load.page = MaxPages
          IN load' = [load EXCEPT !.at = IF stops THEN "back" ELSE "count",
                                  !.page = IF stops THEN @ ELSE @ + 1,
                                  !.length = length,
                                  !.rows = [i \in Ids |-> IF i \in S THEN Append(@[i], docs[i])
                                                                     ELSE @[i]],
                                  !.moved = @ \/ (stops /\ ~ends)]
    BY DEF FindPage
  <1> DEFINE c == Cardinality(S)
             length == load.length + c
             ends == S = {} \/ length >= load.total
             stops == ends \/ p = MaxPages
  <1>2. /\ load.at = "find" /\ Reading
        /\ UNCHANGED <<docs, used, made, all, open, editing, draft, save, del, stray, trouble,
                       unsure, raced, foreign>>
    BY DEF FindPage, Reading, server, dialog, history
  <1>3. /\ p \in 1..MaxPages /\ p \in Nat \ {0} /\ load.length \in Nat /\ load.total \in Nat
        /\ load.rows \in Rows /\ load \in Load
    BY DEF IInv, TypeOK, Load
  <1>4. /\ load'.at = (IF stops THEN "back" ELSE "count")
        /\ load'.page = (IF stops THEN p ELSE p + 1)
        /\ load'.total = load.total /\ load'.length = length /\ load'.crossed = load.crossed
        /\ load'.rows = [i \in Ids |-> IF i \in S THEN Append(load.rows[i], docs[i])
                                                  ELSE load.rows[i]]
        /\ load'.moved = (load.moved \/ (stops /\ ~ends))
    BY <1>1, <1>3 DEF Load
  <1>5. /\ S \subseteq Existing /\ Existing \subseteq Ids /\ IsFiniteSet(S) /\ c \in Nat
        /\ c = LET left == n - (p - 1) * PageSize
               IN  IF left < 0 THEN 0 ELSE IF left < PageSize THEN left ELSE PageSize
        /\ ~load.moved => \A i \in S : load.rows[i] = <<>>
    BY <1>2, PageSizes DEF Existing
  <1>6. n \in Nat /\ IsFiniteSet(Existing) /\ \A T \in SUBSET Existing :
           Cardinality(T) <= n /\ (Cardinality(T) = n => T = Existing)
    BY <1>5, Counted
  <1>7. ~stops => p + 1 \in 1..MaxPages /\ p + 1 > 1
    BY <1>3
  <1>8. \A i \in S : docs[i] \in Stored
    BY <1>5 DEF IInv, TypeOK, Existing, Exists
  <1>9. load'.rows \in Rows
    <2>1. \A i \in S : Append(load.rows[i], docs[i]) \in Seq(Stored)
      BY <1>3, <1>5, <1>8 DEF Rows
    <2> QED BY <1>3, <1>4, <2>1 DEF Rows
  <1>10. TypeOK'
    <2>1. load' = [at |-> load'.at, page |-> load'.page, total |-> load'.total,
                   length |-> load'.length, rows |-> load'.rows, crossed |-> load'.crossed,
                   moved |-> load'.moved]
      BY <1>1, <1>3 DEF Load
    <2>2. load'.page \in 1..MaxPages /\ load'.length \in Nat /\ load'.moved \in BOOLEAN
      BY <1>3, <1>4, <1>5, <1>7 DEF Load
    <2>3. load' \in Load
      BY <1>3, <1>4, <1>9, <2>1, <2>2 DEF Load
    <2> QED BY <1>2, <2>3 DEF IInv, TypeOK
  <1>11. Shapes'
    BY <1>2 DEF IInv, Shapes
  <1>12. Known'
    <2>1. \A i \in Ids : load'.rows[i] # <<>> => Exists(i) \/ load.rows[i] # <<>>
      BY <1>4, <1>5 DEF Existing
    <2> QED BY <1>2, <2>1 DEF IInv, Known, Exists
  <1>13. Drafts' /\ OneDocPerDraft'
    BY <1>2 DEF IInv, Drafts, OneDocPerDraft
  <1>14. Answers'
    BY <1>2, <1>4 DEF IInv, Answers, Beyond, Saving, Deleting
  <1>15. Beyond' = Beyond /\ Existing' = Existing /\ \A i : Listed(i)' = Listed(i)
    BY <1>2 DEF Beyond, Existing, Listed, Exists
  <1>16. ASSUME NEW i \in Ids \ (Beyond \cup load.crossed)
         PROVE  Current(load'.rows[i], i)
    <2>1. Current(load.rows[i], i) /\ load.rows[i] \in Seq(Stored)
      BY <1>2, <1>3 DEF IInv, Board, Rows
    <2>2. CASE i \in S
      <3>1. load'.rows[i] = Append(load.rows[i], docs[i])
        BY <1>4, <2>2
      <3> QED BY <2>1, <3>1 DEF Current
    <2>3. CASE i \notin S
      BY <1>4, <2>1, <2>3
    <2> QED BY <2>2, <2>3
  <1>17. ASSUME ~load.moved, n <= PageSize, NEW i \in Ids \ (Beyond \cup load.crossed)
         PROVE  load'.rows[i] = Listed(i)
    <2>1. CASE p = 1
      <3>1. (p - 1) * PageSize = 0
        BY <2>1
      <3>2. c = n
        BY <1>5, <1>6, <1>17, <3>1
      <3>3. S = Existing
        BY <1>5, <1>6, <3>2
      <3>4. load.rows[i] = <<>>
        BY <1>2, <2>1 DEF IInv, Paged, NoRows
      <3>5. Append(<<>>, docs[i]) = <<docs[i]>>
        OBVIOUS
      <3> QED BY <1>4, <3>3, <3>4, <3>5 DEF Listed, Existing
    <2>2. CASE p > 1
      <3>1. (p - 1) * PageSize >= PageSize
        <4>1. (p - 1) * PageSize = (p - 2) * PageSize + PageSize /\ (p - 2) * PageSize \in Nat
          BY <1>3, <2>2
        <4> QED BY <4>1
      <3>2. c = 0 /\ (p - 1) * PageSize \in Nat
        BY <1>3, <1>5, <1>6, <1>17, <3>1
      <3>3. S = {}
        BY <1>5, <3>2, FS_EmptySet
      <3> QED BY <1>2, <1>4, <1>17, <2>2, <3>3 DEF IInv, Paged
    <2> QED BY <1>3, <2>1, <2>2
  <1>18. ASSUME ~load.moved, ~(n <= PageSize)
         PROVE  /\ Cardinality(Received') = length /\ length <= n
                /\ length < n => length = p * PageSize
                /\ \A i \in Received' : load'.rows[i] = Listed(i) /\ i \in Existing
                /\ load.total = n
    <2>1. /\ load.length = (p - 1) * PageSize /\ Cardinality(Received) = load.length
          /\ \A i \in Received : load.rows[i] = Listed(i)
          /\ load.total = n
      BY <1>2, <1>18 DEF IInv, Paged
    <2>2. Received \subseteq Existing
      BY <2>1 DEF Received, Existing, Listed
    <2>3. Received' = Received \cup S /\ Received \cap S = {}
      <3>1. \A i \in S : Append(load.rows[i], docs[i]) # <<>>
        <4>1. \A i \in S : load.rows[i] = <<>>
          BY <1>5, <1>18
        <4>2. \A i \in S : Append(<<>>, docs[i]) = <<docs[i]>> /\ <<docs[i]>> # <<>>
          OBVIOUS
        <4> QED BY <4>1, <4>2
      <3> QED BY <1>4, <1>5, <1>18, <3>1 DEF Received
    <2>4. Cardinality(Received') = length
      <3>1. IsFiniteSet(Received)
        BY <1>5, <2>2, Counted DEF Received
      <3>2. Cardinality(Received \cup S) = Cardinality(Received) + c - Cardinality({})
        BY <1>5, <2>3, <3>1, FS_Union
      <3> QED BY <1>3, <1>5, <2>1, <2>3, <3>2, FS_EmptySet
    <2>5. Received' \in SUBSET Existing
      BY <1>5, <2>2, <2>3
    <2>6. length <= n
      BY <1>6, <2>4, <2>5
    <2>7. p * PageSize = (p - 1) * PageSize + PageSize /\ (p - 1) * PageSize \in Nat
      BY <1>3
    <2>8. length < n => length = p * PageSize
      BY <1>5, <1>6, <2>1, <2>7
    <2>9. \A i \in Received' : load'.rows[i] = Listed(i) /\ i \in Existing
      <3>1. Append(<<>>, <<>>) = <<<<>>>> /\ \A i \in Ids : Append(<<>>, docs[i]) = <<docs[i]>>
        OBVIOUS
      <3>2. \A i \in S : load'.rows[i] = <<docs[i]>>
        BY <1>4, <1>5, <1>18, <3>1
      <3>3. \A i \in Received : load'.rows[i] = load.rows[i]
        BY <1>4, <2>3 DEF Received
      <3> QED BY <1>5, <2>1, <2>2, <2>3, <3>2, <3>3 DEF Listed, Existing
    <2> QED BY <2>1, <2>4, <2>6, <2>8, <2>9
  <1>19. ASSUME stops, ~load'.moved, NEW i \in Ids \ (Beyond \cup load.crossed)
         PROVE  load'.rows[i] = Listed(i)
    <2>1. ~load.moved /\ ends
      BY <1>4, <1>19
    <2>2. CASE ~(n <= PageSize)
      <3>1. /\ Cardinality(Received') = length /\ length <= n
            /\ \A j \in Received' : load'.rows[j] = Listed(j) /\ j \in Existing
            /\ load.total = n
        BY <1>18, <2>1, <2>2
      <3>2. length \in Nat /\ length >= n
        <4>1. CASE S = {}
          <5>1. c = 0
            BY <4>1, FS_EmptySet
          <5>2. load.length = (p - 1) * PageSize /\ length = load.length
            BY <1>2, <1>3, <2>1, <2>2, <5>1 DEF IInv, Paged
          <5> QED BY <1>3, <1>5, <1>6, <5>1, <5>2
        <4>2. CASE length >= load.total
          BY <1>3, <1>5, <3>1, <4>2
        <4> QED BY <2>1, <4>1, <4>2
      <3>3. Received' = Existing
        BY <1>6, <3>1, <3>2
      <3>4. i \notin Existing => load'.rows[i] = <<>>
        BY <3>3 DEF Received
      <3> QED BY <3>1, <3>3, <3>4 DEF Listed, Existing
    <2> QED BY <1>17, <2>1, <2>2
  <1>20. Paged'
    <2>1. CASE stops
      BY <1>4, <2>1 DEF Paged, Reading
    <2>2. CASE ~stops
      <3>1. load'.at = "count" /\ load'.page = p + 1 /\ load'.page > 1 /\ load'.page # 1
            /\ load'.moved = load.moved /\ (p + 1) - 1 = p
        BY <1>3, <1>4, <1>7, <2>2 DEF Load
      <3>2. ~(n <= PageSize) /\ ~load.moved => length < n
        BY <1>3, <1>5, <1>6, <1>18, <2>2
      <3> QED BY <1>4, <1>15, <1>17, <1>18, <3>1, <3>2 DEF Paged
    <2> QED BY <2>1, <2>2
  <1>21. Board'
    <2>1. \A i \in Ids \ (Beyond \cup load.crossed) :
             \A m \in DOMAIN load'.rows[i] : load'.rows[i][m] = docs'[i]
      BY <1>2, <1>16 DEF Current
    <2> QED BY <1>4, <1>15, <1>19, <2>1 DEF Board, Current
  <1> QED BY <1>10, <1>11, <1>12, <1>13, <1>14, <1>20, <1>21 DEF IInv

LEMMA LoadAnsweredKeeps ==
    ASSUME IInv, LoadAnswered
    PROVE  IInv'
  <1> USE DashboardAssumption DEF IInv, LoadAnswered, server, dialog, history
  <1>0. load' = [at |-> "shown", page |-> 1, total |-> 0, length |-> 0, rows |-> NoRows,
                 crossed |-> {}, moved |-> load.moved]
    BY DEF Loaded
  <1>1. TypeOK'
    <2>1. load' \in Load
      <3>1. NoRows \in Rows /\ 1 \in 1..MaxPages /\ load.moved \in BOOLEAN
        BY DEF Rows, NoRows, TypeOK, Load
      <3> QED BY <1>0, <3>1 DEF Load
    <2>2. all' \in Rows /\ load.crossed \subseteq Ids
      BY DEF TypeOK, Load
    <2> QED BY <2>1, <2>2 DEF TypeOK
  <1>2. Shapes'
    BY DEF Shapes, TypeOK, Quiet
  <1>3. Known'
    BY <1>0 DEF Known, Exists, NoRows
  <1>4. Drafts' /\ OneDocPerDraft'
    BY DEF Drafts, OneDocPerDraft
  <1>5. Answers'
    BY <1>0 DEF Answers, Beyond, Reading, Saving, Deleting
  <1>6. Board'
    <2>1. \A i \in Ids \ Beyond' : /\ Current(load.rows[i], i)
                                   /\ ~load.moved => load.rows[i] = Listed(i)
      BY DEF Board, Beyond
    <2>2. ASSUME NEW i \in Ids, Current(load.rows[i], i), ~Exists(i)
          PROVE  load.rows[i] = <<>>
      <3>1. load.rows[i] \in Seq(Stored) /\ None \notin Stored
        BY DEF TypeOK, Load, Rows, Stored
      <3>2. \A m \in 1..Len(load.rows[i]) : load.rows[i][m] \in Stored /\ load.rows[i][m] = None
        BY <2>2, <3>1 DEF Current, Exists
      <3>3. Len(load.rows[i]) = 0
        BY <3>1, <3>2
      <3> QED BY <3>1, <3>3
    <2>3. load'.at = "shown" /\ ~Reading' /\ load'.moved = load.moved /\ all' = load.rows
      BY <1>0 DEF Reading
    <2>4. \A i \in Ids \ Beyond' : /\ \A m \in DOMAIN all'[i] : all'[i][m] = docs'[i]
                                   /\ ~(Exists(i)') => all'[i] = <<>>
                                   /\ ~load'.moved => all'[i] = Listed(i)'
      BY <2>1, <2>2, <2>3 DEF Current, Listed, Exists
    <2> QED BY <2>3, <2>4 DEF Board, Current
  <1>7. Paged'
    BY <1>0 DEF Paged, Reading
  <1> QED BY <1>1, <1>2, <1>3, <1>4, <1>5, <1>6, <1>7

\* A new row meets no other of its id, and an edited one is the document's only row.
LEMMA SaveAnsweredKeeps ==
    ASSUME IInv, SaveAnswered
    PROVE  IInv'
  <1> USE DashboardAssumption DEF IInv, SaveAnswered, server, dialog, history
  <1>1. TypeOK'
    <2>1. save' \in Call
      BY DEF Call, Quiet
    <2>2. save.id \in Ids /\ save.text \in Stored /\ all[save.id] \in Seq(Stored)
      BY DEF TypeOK, Shapes, Rows
    <2>3. <<save.text>> \o all[save.id] \in Seq(Stored)
      BY <2>2
    <2>4. [n \in DOMAIN all[save.id] |-> save.text] \in Seq(Stored)
      BY <2>2, Edited
    <2>5. all' \in Rows
      BY <2>2, <2>3, <2>4 DEF Saved, TypeOK, Rows
    <2> QED BY <2>1, <2>5 DEF TypeOK
  <1>2. Shapes'
    BY DEF Shapes, TypeOK, Quiet
  <1>3. Known'
    BY DEF Known, Exists, Rows, Quiet, Saved
  <1>4. Drafts' /\ OneDocPerDraft'
    BY DEF Drafts, OneDocPerDraft, TypeOK, Quiet
  <1>5. Answers'
    BY DEF Answers, Beyond, Reading, Saving, Deleting, Quiet, Saved
  <1>6. Board'
    <2>1. /\ Reading' \/ load'.at = "back" =>
                \A i \in Ids \ (Beyond' \cup load'.crossed) : Current(load.rows[i], i)
          /\ load'.at = "back" /\ ~load'.moved =>
                \A i \in Ids \ (Beyond' \cup load'.crossed) : load'.rows[i] = Listed(i)'
      BY DEF Board, Beyond, Current, Reading, Listed, Exists
    <2>2. ASSUME load.at = "shown", NEW i \in Ids \ Beyond, ~Deleting(i)
          PROVE  /\ Current(all'[i], i) /\ (~Exists(i) => all'[i] = <<>>)
                 /\ ~load.moved => all'[i] = Listed(i)
      <3>1. CASE i # save.id
        <4>1. all'[i] = all[i]
          BY <3>1 DEF Saved
        <4> QED BY <2>2, <3>1, <4>1 DEF Board, Saving
      <3>2. CASE i = save.id /\ save.draft # 0
        <4>1. docs[i] = save.text /\ all[i] = <<>> /\ save.text \in Stored
          BY <3>2, <2>2 DEF Answers, Saving, Shapes
        <4>2. all'[i] = <<save.text>> \o all[i]
          BY <3>2 DEF Saved, TypeOK, Rows
        <4>3. <<save.text>> \o <<>> = <<save.text>>
          OBVIOUS
        <4>4. Exists(i) /\ all'[i] = <<docs[i]>>
          BY <4>1, <4>2, <4>3 DEF Exists, Stored
        <4> QED BY <4>4 DEF Listed, Current
      <3>3. CASE i = save.id /\ save.draft = 0
        <4>1. all[i] \in Seq(Stored) /\ save.text \in Stored
          BY <3>3 DEF TypeOK, Rows, Shapes
        <4>2. all'[i] = [m \in DOMAIN all[i] |-> save.text]
          BY <3>3 DEF Saved, TypeOK, Rows
        <4>3. /\ docs[i] \in {save.text, None} /\ (~Exists(i) => all[i] = <<>>)
              /\ ~load.moved => Len(all[i]) = Len(Listed(i))
          BY <3>3, <2>2 DEF Board, Answers, Saving
        <4>4. CASE ~Exists(i)
          <5>1. all'[i] = <<>>
            BY <4>1, <4>2, <4>3, <4>4, Edited
          <5> QED BY <4>4, <5>1 DEF Listed, Current
        <4>5. CASE Exists(i)
          <5>1. docs[i] = save.text /\ Len(Listed(i)) = 1
            BY <4>3, <4>5 DEF Exists, Listed
          <5>2. Current(all'[i], i)
            BY <4>1, <4>2, <5>1, Edited DEF Current
          <5>3. ~load.moved => all'[i] = Listed(i)
            BY <4>1, <4>2, <4>3, <4>5, <5>1, Edited DEF Listed
          <5> QED BY <4>5, <5>2, <5>3
        <4> QED BY <4>4, <4>5
      <3> QED BY <3>1, <3>2, <3>3
    <2> QED BY <2>1, <2>2 DEF Board, Beyond, Saving, Deleting, Current, Reading, Listed, Exists, Quiet
  <1>7. Paged'
    BY DEF Paged, Beyond, Reading, Received, Listed, Existing, Exists
  <1> QED BY <1>1, <1>2, <1>3, <1>4, <1>5, <1>6, <1>7

\* The row filtered out is the deleted one's, or both ids are out of step (raced).
LEMMA DeleteAnsweredKeeps ==
    ASSUME IInv, DeleteAnswered
    PROVE  IInv'
  <1> USE DashboardAssumption DEF IInv, DeleteAnswered, server, dialog, history
  <1>1. TypeOK'
    <2>1. del' \in Call /\ del.id \in Ids
      BY DEF Call, Quiet, Shapes
    <2>2. all' \in Rows
      <3>1. CASE editing = None
        BY <3>1 DEF TypeOK
      <3>2. CASE editing # None
        <4>1. <<>> \in Seq(Stored)
          OBVIOUS
        <4> QED BY <4>1, <3>2 DEF TypeOK, Rows
      <3> QED BY <3>1, <3>2
    <2>3. open' \in BOOLEAN /\ raced' \subseteq Ids
      BY <2>1 DEF TypeOK
    <2> QED BY <2>1, <2>2, <2>3 DEF TypeOK
  <1>2. Shapes'
    BY DEF Shapes, Quiet
  <1>3. Known'
    <2>1. \A i \in Ids : all'[i] \in {all[i], <<>>}
      BY DEF TypeOK, Rows
    <2> QED BY <2>1 DEF Known, Exists, Quiet
  <1>4. Drafts' /\ OneDocPerDraft'
    BY DEF Drafts, OneDocPerDraft
  <1>5. Answers'
    <2>1. \A i \in Ids : all'[i] \in {all[i], <<>>}
      BY DEF TypeOK, Rows
    <2> QED BY <2>1 DEF Answers, Beyond, Reading, Saving, Deleting, Quiet
  <1>6. Board'
    <2>1. /\ Reading' \/ load'.at = "back" =>
                \A i \in Ids \ (Beyond' \cup load'.crossed) : Current(load.rows[i], i)
          /\ load'.at = "back" /\ ~load'.moved =>
                \A i \in Ids \ (Beyond' \cup load'.crossed) : load'.rows[i] = Listed(i)'
      BY DEF Board, Beyond, Current, Reading, Listed, Exists
    <2>2. ASSUME NEW i \in Ids \ Beyond'
          PROVE  IF Deleting(i) THEN all'[i] = <<>> /\ ~Exists(i) ELSE all'[i] = all[i]
      BY <2>2 DEF Answers, Beyond, Deleting, Exists, TypeOK, Rows
    <2> QED BY <2>1, <2>2 DEF Board, Beyond, Saving, Current, Reading, Listed, Exists
  <1>7. Paged'
    BY DEF Paged, Beyond, Reading, Received, Listed, Existing, Exists
  <1> QED BY <1>1, <1>2, <1>3, <1>4, <1>5, <1>6, <1>7

LEMMA RefusedKeeps ==
    ASSUME IInv, Refused
    PROVE  IInv'
  <1> USE DashboardAssumption DEF IInv, Refused, server, dialog, history
  <1>1. TypeOK'
    <2>1. save' \in Call
      BY DEF TypeOK, Call, Quiet
    <2>2. del' \in Call
      BY DEF TypeOK, Call, Quiet
    <2> QED BY <2>1, <2>2 DEF TypeOK
  <1>2. Shapes'
    BY DEF Shapes, TypeOK, Quiet
  <1>3. Known'
    BY DEF Known, Exists, Load, Loaded, NoRows, Quiet
  <1>4. Drafts' /\ OneDocPerDraft'
    BY DEF Drafts, OneDocPerDraft, TypeOK, Quiet
  <1>5. Answers'
    BY DEF Answers, Beyond, Reading, Saving, Deleting, Quiet
  <1>6. Board'
    BY DEF Board, Current, Reading, Beyond, Saving, Deleting, Listed, Exists, Quiet, Answers
  <1>7. Paged'
    BY DEF Paged, Beyond, Reading, Received, Listed, Existing, Exists
  <1> QED BY <1>1, <1>2, <1>3, <1>4, <1>5, <1>6, <1>7

LEMMA LoadFailsKeeps ==
    ASSUME IInv, LoadFails
    PROVE  IInv'
  <1> USE DashboardAssumption DEF IInv, LoadFails, Trouble, server, dialog, history
  <1>1. TypeOK'
    <2>1. load' \in Load
      <3>1. NoRows \in Rows /\ 1 \in 1..MaxPages
        BY DEF Rows, NoRows
      <3> QED BY <3>1 DEF Load, Loaded
    <2> QED BY <2>1 DEF TypeOK
  <1>2. Shapes'
    BY DEF Shapes, TypeOK, Quiet
  <1>3. Known'
    BY DEF Known, Exists, Load, Loaded, NoRows
  <1>4. Drafts' /\ OneDocPerDraft'
    BY DEF Drafts, OneDocPerDraft
  <1>5. Answers'
    BY DEF Answers, Beyond, Reading, Saving, Deleting, Loaded
  <1>6. Board'
    BY DEF Board, Reading, Loaded
  <1>7. Paged'
    BY DEF Paged, Reading, Loaded
  <1> QED BY <1>1, <1>2, <1>3, <1>4, <1>5, <1>6, <1>7

\* The draft may have made its document, and may yet: it is unsure.
LEMMA SaveFailsKeeps ==
    ASSUME IInv, SaveFails
    PROVE  IInv'
  <1> USE DashboardAssumption DEF IInv, SaveFails, Trouble, server, dialog, history
  <1>1. TypeOK'
    <2>1. save' \in Call /\ stray' \in Call
      BY DEF TypeOK, Call, Quiet
    <2>2. save.draft \in 0..MaxDrafts /\ save.id \in Ids \cup {None}
      BY DEF TypeOK, Call
    <2>3. save.draft # 0 => save.draft \in 1..MaxDrafts
      BY <2>2
    <2>4. unsure' \subseteq 1..MaxDrafts
      BY <2>3 DEF TypeOK
    <2>5. foreign' \subseteq Ids
      BY <2>2 DEF TypeOK
    <2> QED BY <2>1, <2>4, <2>5 DEF TypeOK
  <1>2. Shapes'
    BY DEF Shapes, TypeOK, Quiet
  <1>3. Known'
    BY DEF Known, Exists, Load, Loaded, NoRows, Quiet
  <1>4. Drafts' /\ OneDocPerDraft'
    BY DEF Drafts, OneDocPerDraft, TypeOK, Quiet
  <1>5. Answers'
    BY DEF Answers, Beyond, Reading, Saving, Deleting, Quiet
  <1>6. Board'
    <2>1. \A i \in Ids \ Beyond' : i \notin Beyond /\ ~Saving(i)
      BY DashboardAssumption DEF Beyond, Saving
    <2>2. ~Saving(None) /\ \A i \in Ids : ~Saving(i)'
      BY DEF Saving, Quiet, TypeOK, Shapes
    <2> QED BY <2>1, <2>2 DEF Board, Current, Reading, Beyond, Deleting, Listed, Exists
  <1>7. Paged'
    BY DEF Paged, Beyond, Reading, Received, Listed, Existing, Exists
  <1> QED BY <1>1, <1>2, <1>3, <1>4, <1>5, <1>6, <1>7

LEMMA DeleteFailsKeeps ==
    ASSUME IInv, DeleteFails
    PROVE  IInv'
  <1> USE DashboardAssumption DEF IInv, DeleteFails, Trouble, server, dialog, history
  <1>1. TypeOK'
    <2>1. del' \in Call /\ stray' \in Call /\ foreign' \subseteq Ids
      BY DEF TypeOK, Call, Quiet, Shapes
    <2> QED BY <2>1 DEF TypeOK
  <1>2. Shapes'
    BY DEF Shapes, TypeOK, Quiet
  <1>3. Known'
    BY DEF Known, Exists, Load, Loaded, NoRows, Quiet
  <1>4. Drafts' /\ OneDocPerDraft'
    BY DEF Drafts, OneDocPerDraft, TypeOK, Shapes
  <1>5. Answers'
    BY DEF Answers, Beyond, Reading, Saving, Deleting, Quiet
  <1>6. Board'
    BY DEF Board, Current, Reading, Beyond, Saving, Deleting, Listed, Exists, Answers
  <1>7. Paged'
    BY DEF Paged, Beyond, Reading, Received, Listed, Existing, Exists
  <1> QED BY <1>1, <1>2, <1>3, <1>4, <1>5, <1>6, <1>7

\* A created document has no row yet, an updated one the rows it had.
LEMMA ServeSaveKeeps ==
    ASSUME IInv, ServeSave
    PROVE  IInv'
  <1> USE DashboardAssumption
  <1> DEFINE text == Clean[save.text]
  <1>1. PICK i \in Ids :
          /\ Create(save, i) \/ Update(save, i)
          /\ save' = [save EXCEPT !.at = "back", !.id = i, !.text = docs'[i]]
    BY DEF ServeSave, Returned
  <1>2. /\ save.at = "out" /\ save.text \in Texts /\ text \in Stored
        /\ UNCHANGED <<all, open, editing, draft, del, stray, trouble, unsure, raced, foreign>>
    BY <1>1 DEF ServeSave, IInv, Shapes, Stored, dialog, history
  <1>3. Put(i, text)
    BY <1>1 DEF Create, Update
  <1>4. \/ /\ save.draft # 0 /\ save.id = None /\ i \notin used
           /\ made' = [made EXCEPT ![save.draft] = @ + 1]
        \/ save.draft = 0 /\ save.id = i /\ docs[i] # None /\ made' = made
    BY <1>1, <1>2 DEF Create, Update, Exists, IInv, Shapes
  <1>5. /\ docs' = [docs EXCEPT ![i] = text] /\ docs'[i] = text
        /\ used' = used \cup {i} /\ load'.rows = load.rows /\ load'.at = load.at
        /\ Reading \/ load.at = "back" => load'.crossed = load.crossed \cup {i}
        /\ Reading' = Reading /\ load'.page = load.page /\ (load.moved => load'.moved)
    BY <1>3 DEF Put, IInv, TypeOK, Load, Reading
  <1>6. save' = [at |-> "back", id |-> i, text |-> text, draft |-> save.draft]
    <2>1. save = [at |-> save.at, id |-> save.id, text |-> save.text, draft |-> save.draft]
      BY CallFields DEF IInv, TypeOK
    <2> QED BY <1>1, <1>5, <2>1
  <1>7. TypeOK'
    <2>1. save' \in Call
      BY <1>2, <1>6, CallFields DEF IInv, TypeOK, Call
    <2>2. made' \in [1..MaxDrafts -> Nat]
      BY <1>4, CallFields DEF IInv, TypeOK
    <2> QED BY <1>2, <1>3, <2>1, <2>2, PutTypes DEF IInv, TypeOK
  <1>8. Shapes'
    BY <1>2, <1>6 DEF IInv, Shapes
  <1>9. Known'
    BY <1>2, <1>5, <1>6 DEF IInv, Known, Exists, TypeOK
  <1>10. Drafts' /\ OneDocPerDraft'
    <2>1. save.draft \in 0..MaxDrafts
      BY CallFields DEF IInv, TypeOK
    <2>2. CASE save.draft = 0
      BY <2>2, <1>2, <1>4, <1>6 DEF IInv, Drafts, OneDocPerDraft
    <2>3. CASE save.draft # 0
      BY <2>1, <2>3, <1>2, <1>4, <1>6 DEF IInv, Drafts, OneDocPerDraft, TypeOK
    <2> QED BY <2>2, <2>3
  <1>11. Answers'
    BY <1>2, <1>4, <1>5, <1>6
       DEF IInv, Answers, Beyond, Saving, Deleting, Known, Exists, TypeOK
  <1>12. Board'
    <2>1. \A j \in Ids : j # i => Listed(j)' = Listed(j)
      BY <1>5 DEF Listed, Exists
    <2>2. Listed(i)' = <<text>>
      BY <1>2, <1>5 DEF Listed, Exists
    <2>3. docs[i] # None => Len(Listed(i)) = 1
      BY DEF Listed, Exists
    <2>4. Saving(i)' /\ Beyond' = Beyond /\ \A j \in Ids : Deleting(j)' = Deleting(j)
      BY <1>2, <1>6 DEF Saving, Deleting, Beyond
    <2>5. \A j \in Ids : j # i => ~Saving(j) /\ ~Saving(j)' /\ docs'[j] = docs[j]
      BY <1>2, <1>5, <1>6 DEF Saving
    <2>6. Reading \/ load.at = "back" =>
             \A j \in Ids \ (Beyond \cup load'.crossed) :
                /\ \A m \in DOMAIN load.rows[j] : load.rows[j][m] = docs'[j]
                /\ load.at = "back" /\ ~load.moved => load.rows[j] = Listed(j)'
      BY <1>5, <2>1, <2>5 DEF IInv, Board, Current
    <2>7. ASSUME load.at = "shown", NEW j \in Ids \ Beyond, ~Deleting(j)
          PROVE  /\ j # i => \A m \in DOMAIN all[j] : all[j][m] = docs'[j]
                 /\ j # i => (docs'[j] = None => all[j] = <<>>)
                 /\ j # i /\ ~load.moved => all[j] = Listed(j)'
                 /\ j = i /\ save.draft = 0 /\ ~load.moved => Len(all[j]) = Len(Listed(j)')
      <3>1. CASE j # i
        BY <2>1, <2>5, <2>7, <3>1 DEF IInv, Board, Current, Exists
      <3>2. CASE j = i
        <4>1. ~Saving(j)
          BY <1>2 DEF Saving
        <4>2. save.draft = 0 /\ ~load.moved => Len(Listed(j)) = 1 /\ all[j] = Listed(j)
          BY <1>4, <2>3, <2>7, <3>2, <4>1 DEF IInv, Board
        <4> QED BY <2>2, <3>2, <4>2
      <3> QED BY <3>1, <3>2
    <2>8. docs'[i] # None
      BY <1>2, <1>5 DEF Stored
    <2> QED BY <1>2, <1>5, <1>6, <2>4, <2>5, <2>6, <2>7, <2>8 DEF Board, Current, Exists
  <1>13. Paged'
    BY <1>2, <1>3, PutKeepsPaged DEF IInv, Beyond
  <1> QED BY <1>7, <1>8, <1>9, <1>10, <1>11, <1>12, <1>13 DEF IInv

LEMMA ServeDeleteKeeps ==
    ASSUME IInv, ServeDelete
    PROVE  IInv'
  <1> USE DashboardAssumption DEF IInv, ServeDelete, Delete, Target, dialog, history
  <1>1. PICK i \in Ids : Put(i, None) /\ del.id = i /\ Exists(i)
    OBVIOUS
  <1>2. del' \in Call
    BY DEF TypeOK, Call
  <1>3. TypeOK'
    BY <1>1, <1>2, PutTypes DEF TypeOK
  <1>4. Shapes'
    BY DEF Shapes, TypeOK
  <1>5. Known'
    BY <1>1 DEF Known, Put, Exists
  <1>6. Drafts' /\ OneDocPerDraft'
    BY DEF Drafts, OneDocPerDraft
  <1>7. Answers'
    BY <1>1 DEF Answers, Put, Load, Reading, Beyond, Saving, Deleting, TypeOK, Shapes
  <1>8. Board'
    BY <1>1 DEF Board, Put, Load, Reading, Current, TypeOK, Beyond, Saving, Deleting, Listed, Exists, Answers
  <1>9. Paged'
    BY <1>1, PutKeepsPaged DEF Beyond
  <1> QED BY <1>3, <1>4, <1>5, <1>6, <1>7, <1>8, <1>9

\* What arrives late is of an unsure draft, or of an id that counts as changed elsewhere.
LEMMA ServeStrayKeeps ==
    ASSUME IInv, ServeStray
    PROVE  IInv'
  <1> USE DashboardAssumption
  <1>1. PICK i \in Ids : /\ Create(stray, i) \/ Update(stray, i) \/ Delete(stray, i)
                         /\ foreign' = foreign \cup {i}
    BY DEF ServeStray
  <1>2. /\ stray' = Quiet
        /\ UNCHANGED <<all, open, editing, draft, save, del, trouble, unsure, raced>>
    BY DEF ServeStray, dialog
  <1>3. PICK v \in Stored \cup {None} : Put(i, v)
    BY <1>1 DEF Create, Update, Delete, Stored, IInv, Shapes, TypeOK, Call
  <1>4. \/ /\ stray.draft # 0 /\ made' = [made EXCEPT ![stray.draft] = @ + 1]
        \/ made' = made
    BY <1>1 DEF Create, Update, Delete
  <1>5. TypeOK'
    <2>1. stray' \in Call
      BY <1>2 DEF Call, Quiet
    <2>2. made' \in [1..MaxDrafts -> Nat]
      BY <1>4, CallFields DEF IInv, TypeOK
    <2> QED BY <1>1, <1>2, <1>3, <2>1, <2>2, PutTypes DEF IInv, TypeOK
  <1>6. Shapes'
    BY <1>2 DEF IInv, Shapes, Quiet
  <1>7. Known'
    BY <1>2, <1>3 DEF IInv, Known, Put, Exists, TypeOK
  <1>8. Drafts' /\ OneDocPerDraft'
    <2>1. stray.draft \in 0..MaxDrafts /\ save.draft \in 0..MaxDrafts /\ stray'.draft = 0
      BY <1>2, CallFields DEF IInv, TypeOK, Quiet
    <2>2. CASE made' = made
      BY <2>1, <2>2, <1>2 DEF IInv, Drafts, OneDocPerDraft, TypeOK
    <2>3. CASE stray.draft # 0 /\ made' = [made EXCEPT ![stray.draft] = @ + 1]
      BY <2>1, <2>3, <1>2 DEF IInv, Drafts, OneDocPerDraft, TypeOK
    <2> QED BY <1>4, <2>2, <2>3
  <1>9. Answers'
    BY <1>1, <1>2, <1>3 DEF IInv, Answers, Put, Load, Reading, Beyond, Saving, Deleting, TypeOK
  <1>10. Board'
    BY <1>1, <1>2, <1>3 DEF IInv, Board, Put, Load, Reading, Current, TypeOK, Beyond, Saving, Deleting, Listed, Exists
  <1>11. Paged'
    BY <1>1, <1>2, <1>3, PutKeepsPaged DEF IInv, Beyond
  <1> QED BY <1>5, <1>6, <1>7, <1>8, <1>9, <1>10, <1>11 DEF IInv

LEMMA ElsewhereKeeps ==
    ASSUME IInv, NEW i \in Ids, Elsewhere(i)
    PROVE  IInv'
  <1> USE DashboardAssumption DEF IInv, Elsewhere, Trouble, dialog, history
  <1>1. PICK v \in Stored \cup {None} : Put(i, v)
    OBVIOUS
  <1>2. TypeOK'
    BY <1>1, PutTypes DEF TypeOK
  <1>3. Shapes'
    BY DEF Shapes
  <1>4. Known'
    BY <1>1 DEF Known, Put, Exists, TypeOK
  <1>5. Drafts' /\ OneDocPerDraft'
    BY DEF Drafts, OneDocPerDraft
  <1>6. Answers'
    BY <1>1 DEF Answers, Put, Load, Reading, Beyond, Saving, Deleting, TypeOK
  <1>7. Board'
    BY <1>1 DEF Board, Put, Load, Reading, Current, TypeOK, Beyond, Saving, Deleting, Listed, Exists
  <1>8. Paged'
    BY <1>1, PutKeepsPaged DEF Beyond
  <1> QED BY <1>2, <1>3, <1>4, <1>5, <1>6, <1>7, <1>8

-----------------------------------------------------------------------------
(* The theorems *)

LEMMA InitKeeps == Init => IInv
  <1> SUFFICES ASSUME Init PROVE IInv
    OBVIOUS
  <1> USE DashboardAssumption
  <1>1. NoRows \in Rows /\ \A i \in Ids : NoRows[i] = <<>>
    BY DEF NoRows, Rows
  <1>2. load \in Load
    BY <1>1 DEF Init, Load, Loaded
  <1>3. Quiet \in Call
    BY DEF Quiet, Call
  <1>4. TypeOK
    <2>1. 0 \in 0..MaxDrafts /\ 0 \in 0..MaxTrouble /\ made \in [1..MaxDrafts -> Nat]
      BY DEF Init
    <2>2. docs \in [Ids -> Stored \cup {None}] /\ used \subseteq Ids
      BY DEF Init
    <2> QED BY <1>1, <1>2, <1>3, <2>1, <2>2 DEF Init, TypeOK
  <1>5. Shapes /\ Drafts /\ OneDocPerDraft /\ Answers /\ Board
    BY DEF Init, Shapes, Drafts, OneDocPerDraft, Answers, Board, Reading, Saving, Deleting, Quiet, Loaded
  <1>6. Known
    BY <1>1 DEF Init, Known, Exists, Quiet, Loaded
  <1>7. Paged
    BY DEF Init, Paged, Reading, Loaded
  <1> QED BY <1>4, <1>5, <1>6, <1>7 DEF IInv

LEMMA NextKeeps == IInv /\ [Next]_vars => IInv'
  <1> SUFFICES ASSUME IInv, [Next]_vars PROVE IInv'
    OBVIOUS
  <1>1. CASE Next
    BY <1>1, OpenEditorKeeps, CloseEditorKeeps, SubmitKeeps, AskDeleteKeeps, CountPageKeeps, FindPageKeeps,
       ServeSaveKeeps, ServeDeleteKeeps, ServeStrayKeeps, ElsewhereKeeps, LoadAnsweredKeeps,
       SaveAnsweredKeeps, DeleteAnsweredKeeps, RefusedKeeps, LoadFailsKeeps, SaveFailsKeeps,
       DeleteFailsKeeps
       DEF Next
  <1>2. CASE UNCHANGED vars
    <2> USE <1>2 DEF IInv, vars, server, dialog, history
    <2>1. TypeOK' /\ Shapes' /\ Drafts' /\ OneDocPerDraft'
      BY DEF TypeOK, Shapes, Drafts, OneDocPerDraft
    <2>2. Known' /\ Answers' /\ Paged' /\ Board'
      BY DEF Known, Answers, Paged, Board, Current, Reading, Received, Existing, Beyond, Saving,
             Deleting, Listed, Exists
    <2> QED BY <2>1, <2>2
  <1> QED BY <1>1, <1>2

\* IInv holds in every state.
THEOREM Invariance == Spec => []IInv
  BY InitKeeps, NextKeeps, PTL DEF Spec

\* The state is well formed, whatever the order of calls, answers and clicks.
THEOREM TypeCorrect == Spec => []TypeOK
  <1>1. IInv => TypeOK
    BY DEF IInv
  <1> QED BY <1>1, Invariance, PTL

\* However many pages the first load takes: no row on the board is outdated, and when no
\* document moved between those pages and MAX_PAGES cut none off, each application has
\* its one row.  Only other tabs, failures and answers that meet a screen which has moved
\* on make exceptions (api.ts listAllApplications; dashboard.ts submit, the delete handler, init).
THEOREM RowsStayDocs == Spec => []RowsAreDocs
  <1>1. IInv => RowsAreDocs
    BY DEF IInv, Board, RowsAreDocs, Answering, Beyond, Saving, Deleting
  <1> QED BY <1>1, Invariance, PTL

\* The disabled button is enough: one opening of the dialog makes one application
\* (dashboard.ts submit).
THEOREM OneDocument == Spec => []OneDocPerDraft
  <1>1. IInv => OneDocPerDraft
    BY DEF IInv
  <1> QED BY <1>1, Invariance, PTL

\* Whatever the dialog shows when a request is served, only the application the user
\* asked for changes (dashboard.ts submit and the delete handler).
THEOREM OnlyAsked == Spec => OnlyAskedChanges
  <1> DEFINE Asked(i) == (\E k \in {save, del, stray} : k.id = i) \/ trouble' # trouble
  <1>1. ASSUME IInv, [Next]_vars, NEW i \in Ids, Exists(i), docs'[i] # docs[i]
        PROVE  Asked(i)
    <2>1. i \in used
      BY <1>1 DEF IInv, Known
    <2>2. ASSUME NEW k, k \in {save, del, stray}, NEW j \in Ids,
                 Create(k, j) \/ Update(k, j) \/ Delete(k, j)
          PROVE  Asked(i)
      <3>1. \E v : docs' = [docs EXCEPT ![j] = v]
        BY <2>2 DEF Create, Update, Delete, Put
      <3>2. i = j
        BY <1>1, <3>1 DEF IInv, TypeOK
      <3>3. k.id = j
        BY <2>1, <2>2, <3>2 DEF Create, Update, Delete, Target
      <3> QED BY <2>2, <3>2, <3>3
    <2>3. CASE ServeSave
      BY <2>2, <2>3 DEF ServeSave
    <2>4. CASE ServeDelete
      BY <2>2, <2>4 DEF ServeDelete
    <2>5. CASE ServeStray
      BY <2>2, <2>5 DEF ServeStray
    <2>6. CASE \E j \in Ids : Elsewhere(j)
      <3>1. trouble' = trouble + 1 /\ trouble \in Nat
        BY <1>1, <2>6, DashboardAssumption DEF Elsewhere, Trouble, IInv, TypeOK
      <3> QED BY <3>1
    <2>7. CASE docs' = docs
      BY <1>1, <2>7
    <2> QED BY <1>1, <2>3, <2>4, <2>5, <2>6, <2>7
            DEF Next, OpenEditor, CloseEditor, AskDelete, Submit, CountPage, FindPage, LoadAnswered,
                SaveAnswered, DeleteAnswered, Refused, LoadFails, SaveFails, DeleteFails,
                vars, server
  <1>2. IInv /\ [Next]_vars
          => [\A i \in Ids : Exists(i) /\ docs'[i] # docs[i]
                => (\E k \in {save, del, stray} : k.id = i) \/ trouble' # trouble]_vars
    BY <1>1
  <1> QED BY <1>2, Invariance, PTL DEF Spec, OnlyAskedChanges

=============================================================================
