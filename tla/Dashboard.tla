----------------------------- MODULE Dashboard -----------------------------
(***************************************************************************)
(* The dashboard of one tab (dashboard.ts) over the user's applications:   *)
(* the first load, the editor dialog and its save and delete, beside       *)
(* another tab that changes the same applications.                         *)
(*                                                                         *)
(* Every handler awaits one call of api.ts; meanwhile the user may close   *)
(* the dialog and open it on another card.  What a call does to the        *)
(* documents is Applications' and OneShot's subject and is one step here:  *)
(* it runs at most once, and a call that fails may have run or still run.  *)
(* A row is its id and one text, standing for the fields the form holds,   *)
(* and `all` is kept by id: the order of the rows on the board is left     *)
(* out, and the order the pages of the first load follow is any (Listing   *)
(* has the sort).  Filters and rendering follow `all` in the same task     *)
(* and are left out.                                                       *)
(*                                                                         *)
(* An operator marked "Fault:" is a faulty variant of the one after it.    *)
(***************************************************************************)
EXTENDS Naturals, Sequences, FiniteSets

CONSTANTS Ids,        \* ids of applications
          Texts,      \* what a form field can hold
          Clean,      \* service clean: a text as sent -> the text stored
          None,       \* no application, no document
          PageSize, MaxPages,  \* PAGE_SIZE and MAX_PAGES of the first load
          MaxDrafts,  \* bound: times the dialog is opened for a new application
          MaxTrouble  \* bound: changes made by the other tab and calls that fail

ASSUME DashboardAssumption == /\ Clean \in [Texts -> Texts]
                              /\ None \notin Ids \cup Texts
                              /\ IsFiniteSet(Ids)
                              /\ PageSize \in Nat \ {0} /\ MaxPages \in Nat \ {0}
                              /\ MaxDrafts \in Nat /\ MaxTrouble \in Nat

VARIABLES docs,      \* the user's applications on the server
          used,      \* ids the server has given out
          all,       \* the rows the tab holds: the texts of those with one id, for each id
          load,      \* the first load: the page it is at, the rows received (length counts
                     \* repeats), the ids changed since it began, and whether documents
                     \* may have moved between its pages
          open,      \* the editor is on the screen
          editing,   \* the application it was last opened for, None for a new one
          draft,     \* openings for a new application
          save,      \* the save under way: its button is disabled
          del,       \* the delete under way: its button is disabled
          stray,     \* a failed call whose request may still be served (bound: the last one)
          trouble,   \* changes made by the other tab and calls that failed
          made,      \* history: how many documents each draft made
          unsure,    \* history: drafts a save of which failed
          raced,     \* history: ids an answer to which met a screen that had moved on
          foreign    \* history: ids changed behind the tab's back

server  == <<docs, used, made>>
dialog  == <<open, editing, draft>>
history == <<unsure, raced, foreign>>
vars    == <<server, all, load, dialog, save, del, stray, trouble, history>>

Stored == {Clean[t] : t \in Texts}
Rows   == [Ids -> Seq(Stored)]
NoRows == [i \in Ids |-> <<>>]

\* A save (of a draft, or else of an application) or a delete (no text).  Once served, it
\* holds the row the answer holds.
Call  == [at : {"none", "out", "back"}, id : Ids \cup {None}, text : Texts \cup Stored \cup {None},
          draft : 0..MaxDrafts]
Quiet == [at |-> "none", id |-> None, text |-> None, draft |-> 0]

Load == [at : {"count", "find", "back", "shown", "failed"}, page : 1..MaxPages, total : Nat,
         length : Nat, rows : Rows, crossed : SUBSET Ids, moved : BOOLEAN]
Loaded(at) == [at |-> at, page |-> 1, total |-> 0, length |-> 0, rows |-> NoRows,
               crossed |-> {}, moved |-> FALSE]

Exists(i) == docs[i] # None
Existing  == {i \in Ids : Exists(i)}

Init == /\ docs \in [Ids -> Stored \cup {None}]
        /\ used = {i \in Ids : Exists(i)} /\ made = [d \in 1..MaxDrafts |-> 0]
        /\ all = NoRows /\ load = Loaded("count")
        /\ open = FALSE /\ editing = None /\ draft = 0
        /\ save = Quiet /\ del = Quiet /\ stray = Quiet /\ trouble = 0
        /\ unsure = {} /\ raced = {} /\ foreign = {}

-----------------------------------------------------------------------------
(* The dialog *)

\* openEditor: the new-application button, or a card.
OpenEditor(i) ==
    /\ ~open /\ open' = TRUE
    /\ editing' = i
    /\ i = None => draft < MaxDrafts
    /\ draft' = IF i = None THEN draft + 1 ELSE draft
    /\ UNCHANGED <<server, all, load, save, del, stray, trouble, history>>

\* Cancel, the cross, the backdrop or Escape: `editing` stays.
CloseEditor ==
    /\ open /\ open' = FALSE
    /\ UNCHANGED <<server, all, load, editing, draft, save, del, stray, trouble, history>>

\* Fault: the button is not disabled while a save is under way.
MaySubmitAgain == TRUE

MaySubmit == save.at = "none"

\* submit: the form's text goes to the application `editing`, or makes a new one.
Submit(t) ==
    /\ open /\ MaySubmit
    /\ save' = [at |-> "out", id |-> editing, text |-> t,
                draft |-> IF editing = None THEN draft ELSE 0]
    /\ stray' = IF save.at = "none" THEN stray ELSE save
    /\ UNCHANGED <<server, all, load, dialog, del, trouble, history>>

\* A confirmed click on the delete button, which a new application has not.
AskDelete ==
    /\ open /\ editing # None /\ del.at = "none"
    /\ del' = [Quiet EXCEPT !.at = "out", !.id = editing]
    /\ UNCHANGED <<server, all, load, dialog, save, stray, trouble, history>>

-----------------------------------------------------------------------------
(* The server *)

\* Some of the list has been read, the rest not.
Reading == load.at = "find" \/ (load.at = "count" /\ load.page > 1)

\* A document changes.  What has been read of the list does not know, and when the documents
\* fill more than one page, the pages not yet read may shift.
Put(i, text) ==
    /\ docs' = [docs EXCEPT ![i] = text]
    /\ used' = used \cup {i}
    /\ load' = [load EXCEPT
         !.crossed = IF Reading \/ load.at = "back" THEN @ \cup {i} ELSE @,
         !.moved = @ \/ (Reading /\ Cardinality(Existing \cup {i}) > PageSize)]

Create(k, i) == /\ k.draft # 0 /\ i \notin used
                /\ Put(i, Clean[k.text])
                /\ made' = [made EXCEPT ![k.draft] = @ + 1]

Update(k, i) == /\ k.draft = 0 /\ k.text # None /\ k.id = i /\ Exists(i)
                /\ Put(i, Clean[k.text])
                /\ UNCHANGED made

\* Fault: the id is read when the request leaves, not when the user confirmed.
TargetNow(k) == editing

\* The application a delete is for.
Target(k) == k.id

Delete(k, i) == /\ k.draft = 0 /\ k.text = None /\ Target(k) = i /\ Exists(i)
                /\ Put(i, None)
                /\ UNCHANGED made

\* A page of the first load is two commands: the number of documents, then the page.
CountPage ==
    /\ load.at = "count"
    /\ load' = [load EXCEPT !.at = "find", !.total = Cardinality(Existing),
                            !.crossed = IF load.page = 1 /\ save.at = "back" /\ save.draft # 0
                                        THEN {save.id} ELSE @]
    /\ UNCHANGED <<server, all, dialog, save, del, stray, trouble, history>>

\* As many documents as are left for a page, whichever the order puts there: unless
\* documents have moved, none that an earlier page held.
PageOf(page) ==
    LET left == Cardinality(Existing) - (page - 1) * PageSize
        size == IF left < 0 THEN 0 ELSE IF left < PageSize THEN left ELSE PageSize
    IN {S \in SUBSET Existing : /\ Cardinality(S) = size
                                /\ load.moved \/ \A i \in S : load.rows[i] = <<>>}

\* listAllApplications goes on until a page is empty, the total is reached or, with rows
\* left behind, MAX_PAGES are read.
FindPage ==
    /\ load.at = "find"
    /\ \E S \in PageOf(load.page) :
         LET length == load.length + Cardinality(S)
             ends   == S = {} \/ length >= load.total
             stops  == ends \/ load.page = MaxPages
         IN load' = [load EXCEPT !.at = IF stops THEN "back" ELSE "count",
                                 !.page = IF stops THEN @ ELSE @ + 1,
                                 !.length = length,
                                 !.rows = [i \in Ids |-> IF i \in S THEN Append(@[i], docs[i])
                                                                  ELSE @[i]],
                                 !.moved = @ \/ (stops /\ ~ends)]
    /\ UNCHANGED <<server, all, dialog, save, del, stray, trouble, history>>

\* Fault: the answer holds the text as it was sent.
ReturnedAsSent(i) == save.text

\* The answer to a save holds the text as it is stored.
Returned(i) == docs'[i]

ServeSave ==
    /\ save.at = "out"
    /\ \E i \in Ids : /\ Create(save, i) \/ Update(save, i)
                      /\ save' = [save EXCEPT !.at = "back", !.id = i, !.text = Returned(i)]
    /\ UNCHANGED <<all, dialog, del, stray, trouble, history>>

ServeDelete ==
    /\ del.at = "out"
    /\ \E i \in Ids : Delete(del, i)
    /\ del' = [del EXCEPT !.at = "back"]
    /\ UNCHANGED <<all, dialog, save, stray, trouble, history>>

\* What a failed call has sent arrives after all.
ServeStray ==
    /\ stray # Quiet /\ stray' = Quiet
    /\ \E i \in Ids : /\ Create(stray, i) \/ Update(stray, i) \/ Delete(stray, i)
                      /\ foreign' = foreign \cup {i}
    /\ UNCHANGED <<all, dialog, save, del, trouble, unsure, raced>>

Trouble == trouble < MaxTrouble /\ trouble' = trouble + 1

\* The other tab creates, edits or deletes an application.
Elsewhere(i) ==
    /\ Trouble
    /\ i \in used => Exists(i)
    /\ \E v \in (Stored \cup {None}) \ {docs[i]} : Put(i, v)
    /\ foreign' = foreign \cup {i}
    /\ UNCHANGED <<made, all, dialog, save, del, stray, unsure, raced>>

-----------------------------------------------------------------------------
(* The answers *)

\* init: the list replaces the rows.
LoadAnswered ==
    /\ load.at = "back" /\ load' = [Loaded("shown") EXCEPT !.moved = load.moved]
    /\ all' = load.rows
    /\ raced' = raced \cup load.crossed
    /\ UNCHANGED <<server, dialog, save, del, stray, trouble, unsure, foreign>>

\* Fault: an edited row is added like a new one.
SavedFirst(k) == [all EXCEPT ![k.id] = <<k.text>> \o @]

\* A new row is added, an edited one replaced where it is.
Saved(k) == [all EXCEPT ![k.id] = IF k.draft # 0 THEN <<k.text>> \o @
                                  ELSE [n \in DOMAIN @ |-> k.text]]

SaveAnswered ==
    /\ save.at = "back" /\ save' = Quiet
    /\ all' = Saved(save)
    /\ open' = FALSE
    /\ UNCHANGED <<server, load, editing, draft, del, stray, trouble, history>>

\* The row filtered out is the one `editing` is now; with none, the filter throws at the
\* first row it meets.
DeleteAnswered ==
    /\ del.at = "back" /\ del' = Quiet
    /\ IF editing = None
         THEN UNCHANGED all /\ open' = (open /\ all # NoRows)
         ELSE /\ all' = [all EXCEPT ![editing] = <<>>]
              /\ open' = FALSE
    /\ raced' = IF editing = del.id THEN raced ELSE raced \cup ({del.id, editing} \ {None})
    /\ UNCHANGED <<server, load, editing, draft, save, stray, trouble, unsure, foreign>>

\* The server refuses (400, 401, 404): the dialog shows it and stays.
Refused ==
    /\ \/ save.at = "out" /\ save' = Quiet /\ UNCHANGED del
       \/ del.at = "out" /\ del' = Quiet /\ UNCHANGED save
    /\ UNCHANGED <<server, all, load, dialog, stray, trouble, history>>

\* No answer, or a 500 after the change: the dialog shows an error, too.
LoadFails ==
    /\ load.at \in {"count", "find", "back"} /\ load' = Loaded("failed") /\ Trouble
    /\ UNCHANGED <<server, all, dialog, save, del, stray, history>>

SaveFails ==
    /\ save.at # "none" /\ save' = Quiet /\ Trouble
    /\ stray' = IF save.at = "out" THEN save ELSE stray
    /\ unsure' = unsure \cup ({save.draft} \ {0})
    /\ foreign' = foreign \cup ({save.id} \ {None})
    /\ UNCHANGED <<server, all, load, dialog, del, raced>>

DeleteFails ==
    /\ del.at # "none" /\ del' = Quiet /\ Trouble
    /\ stray' = IF del.at = "out" THEN del ELSE stray
    /\ foreign' = foreign \cup {del.id}
    /\ UNCHANGED <<server, all, load, dialog, save, unsure, raced>>

Next == \/ \E i \in {None} \cup {j \in Ids : all[j] # <<>>} : OpenEditor(i)
        \/ CloseEditor \/ AskDelete
        \/ \E t \in Texts : Submit(t)
        \/ CountPage \/ FindPage \/ ServeSave \/ ServeDelete \/ ServeStray
        \/ \E i \in Ids : Elsewhere(i)
        \/ LoadAnswered \/ SaveAnswered \/ DeleteAnswered
        \/ Refused \/ LoadFails \/ SaveFails \/ DeleteFails

Spec == Init /\ [][Next]_vars

-----------------------------------------------------------------------------
(* Properties *)

\* The state is well formed.
TypeOK ==
    /\ docs \in [Ids -> Stored \cup {None}] /\ used \subseteq Ids
    /\ all \in Rows /\ load \in Load
    /\ open \in BOOLEAN /\ editing \in Ids \cup {None} /\ draft \in 0..MaxDrafts
    /\ save \in Call /\ del \in Call /\ stray \in Call /\ trouble \in 0..MaxTrouble
    /\ made \in [1..MaxDrafts -> Nat] /\ unsure \subseteq 1..MaxDrafts
    /\ raced \subseteq Ids /\ foreign \subseteq Ids

\* An answer about i is on its way.
Answering(i) == \E k \in {save, del} : k.at = "back" /\ k.id = i

\* The rows of i in a list of every application.
Listed(i) == IF Exists(i) THEN <<docs[i]>> ELSE <<>>

\* Of these rows of i none is outdated.
Current(rows, i) == \A n \in DOMAIN rows : rows[n] = docs[i]

\* Once loaded, no row on the board is outdated, and unless documents moved between the
\* pages of the load or filled more than MAX_PAGES, every application has its one row.
\* Excepted are those an answer to which has met a later load or a dialog opened since,
\* those changed in another tab, and those a failed call was for (dashboard.ts:40).
RowsAreDocs ==
    load.at = "shown" =>
        \A i \in Ids \ (raced \cup foreign) :
            \/ Answering(i)
            \/ IF load.moved THEN Current(all[i], i) ELSE all[i] = Listed(i)

\* An application changes only by a request the user made for it, whatever the dialog
\* shows by the time that is served (dashboard.ts:520), or in the other tab.
OnlyAskedChanges ==
    [][\A i \in Ids : Exists(i) /\ docs'[i] # docs[i]
           => (\E k \in {save, del, stray} : k.id = i) \/ trouble' # trouble]_vars

\* One opening of the dialog makes one application, unless the user saw a save fail.
OneDocPerDraft == \A d \in 1..MaxDrafts \ unsure : made[d] <= 1

\* dashboard.ts:40: "`all` is the unfiltered set fetched from the server": with no other
\* tab, no failure and nothing under way.
AllIsTheServersSet ==
    load.at = "shown" /\ foreign = {} /\ save.at = "none" /\ del.at = "none"
        => \A i \in Ids : all[i] = Listed(i)
=============================================================================
