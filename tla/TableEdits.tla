----------------------------- MODULE TableEdits -----------------------------
(* The table editor of the database workbench (src/frontend/src/features/  *)
(* table-data/TableDataEditor.tsx): pages, row edits and their commit.     *)
(*                                                                         *)
(* A page of the table has one row of its own. Values are numbered in the  *)
(* order in which the user enters them, and 0 is what was there before; a  *)
(* row the user adds is known by its number. Calls are answered in any     *)
(* order, and nobody else writes to the table.                             *)
EXTENDS Naturals, FiniteSets

CONSTANTS
  Pages,       \* page numbers
  Requests,    \* slots for calls of the back end
  MaxEdits,    \* bound: values entered
  Gone, None   \* a deleted row; no page, row, value or call

ASSUME TableAssumption ==
  /\ 1 \in Pages /\ MaxEdits \in Nat /\ IsFiniteSet(Requests)
  /\ Gone \notin Nat /\ None \notin Nat \cup {Gone} \cup Pages \cup Requests

VARIABLES
  table,      \* table[p]: the row of page p
  inserted,   \* inserted[v]: copies of the added row v
  pageNum,    \* the page the user chose
  page,       \* the page the editor shows, None while it loads
  row,        \* its row: the state and the value
  added,      \* the row the user has added, None if there is none
  loadSeq,    \* the slot of the latest load, whose answer alone is taken
  request,    \* request[r]: the call in slot r
  edits,      \* values entered so far
  doubled,    \* added rows that two commits in flight had in their batches
  strayed     \* the latest load was that of a commit clicked on another page

tableVars == <<table, inserted, pageNum, page, row, added, loadSeq, request,
               edits, doubled, strayed>>
serverVars == <<table, inserted>>

Values == 0..MaxEdits
Batches == [state : {"clean", "modified", "deleted"}, value : Values \cup {Gone},
            insert : Values \cup {None}, rowPage : Pages]
Loads == [kind : {"load"}, page : Pages, phase : {"sent"}]
           \cup [kind : {"load"}, page : Pages, phase : {"read"}, value : Values \cup {Gone}]
Commits == [kind : {"commit"}, page : Pages, phase : {"sent", "applied", "refused"}, batch : Batches]

ASSUME NoneIsNoCall == None \notin Loads \cup Commits

TableTypeOK ==
  /\ table \in [Pages -> Values \cup {Gone}]
  /\ inserted \in [Values -> 0..Cardinality(Requests)]
  /\ pageNum \in Pages /\ page \in Pages \cup {None}
  /\ row \in [state : {"clean", "modified", "deleted"}, value : Values \cup {Gone}]
  /\ added \in Values \cup {None} /\ edits \in Values /\ doubled \subseteq Values
  /\ loadSeq \in Requests
  /\ request \in [Requests -> {None} \cup Loads \cup Commits]
  /\ strayed \in BOOLEAN

Load(p) == [kind |-> "load", page |-> p, phase |-> "sent"]
EmptyRow == [state |-> "clean", value |-> Gone]

TableInit ==
  /\ table = [p \in Pages |-> 0] /\ inserted = [v \in Values |-> 0]
  /\ pageNum = 1 /\ page = None /\ row = EmptyRow /\ added = None
  /\ loadSeq \in Requests
  /\ request = [r \in Requests |-> IF r = loadSeq THEN Load(1) ELSE None]
  /\ edits = 0 /\ doubled = {} /\ strayed = FALSE

InFlight(kind) == {r \in Requests : request[r] # None /\ request[r].kind = kind}
-----------------------------------------------------------------------------
(* load takes a number and empties the editor before it asks.              *)
StartLoad(r, p) ==
  /\ request' = [request EXCEPT ![r] = Load(p)]
  /\ loadSeq' = r
  /\ page' = None /\ row' = EmptyRow /\ added' = None
  /\ strayed' = (p # pageNum')
  /\ UNCHANGED <<serverVars, edits, doubled>>

\* The page buttons and the refresh are disabled while a load runs only; after a
\* load that failed the same page can be loaded again.
ChoosePage(r, p) ==
  /\ request[r] = None /\ InFlight("load") = {}
  /\ page # None \/ p = pageNum
  /\ pageNum' = p /\ StartLoad(r, p)

LoadReads(r) ==
  /\ r \in InFlight("load") /\ request[r].phase = "sent"
  /\ request' = [request EXCEPT ![r] =
       [kind |-> "load", page |-> @.page, phase |-> "read", value |-> table[@.page]]]
  /\ UNCHANGED <<serverVars, pageNum, page, row, added, loadSeq, edits, doubled, strayed>>

IsLatest_Any(r) == TRUE
IsLatest(r) == r = loadSeq

LoadReturns(r) ==
  /\ r \in InFlight("load") /\ request[r].phase = "read"
  /\ request' = [request EXCEPT ![r] = None]
  /\ IF IsLatest(r)
       THEN /\ page' = request[r].page /\ added' = None
            /\ row' = [state |-> "clean", value |-> request[r].value]
       ELSE UNCHANGED <<page, row, added>>
  /\ UNCHANGED <<serverVars, pageNum, loadSeq, edits, doubled, strayed>>

\* The error takes the place of the editor, with a button that loads again.
LoadFails(r) ==
  /\ r \in InFlight("load")
  /\ request' = [request EXCEPT ![r] = None]
  /\ UNCHANGED <<serverVars, pageNum, page, row, added, loadSeq, edits, doubled, strayed>>
-----------------------------------------------------------------------------
(* The user's edits.                                                       *)
EditsTo(newRow, newAdded) ==
  /\ page # None /\ row' = newRow /\ added' = newAdded
  /\ UNCHANGED <<serverVars, pageNum, page, loadSeq, request, doubled, strayed>>

\* A cell of a row that is marked deleted can be edited: it is modified then.
UpdateCell ==
  /\ row.value # Gone /\ edits < MaxEdits /\ edits' = edits + 1
  /\ EditsTo([state |-> "modified", value |-> edits'], added)

AddRow ==
  /\ added = None /\ edits < MaxEdits /\ edits' = edits + 1
  /\ EditsTo(row, edits')

DeleteRow ==
  /\ row.value # Gone /\ row.state # "deleted"
  /\ EditsTo([row EXCEPT !.state = "deleted"], added) /\ UNCHANGED edits

DropAdded == added # None /\ EditsTo(row, None) /\ UNCHANGED edits
-----------------------------------------------------------------------------
(* commit sends a batch of what differs, and loads with the page number it *)
(* was clicked on. Its button is not disabled while one is in flight.      *)
Commit(r) ==
  /\ request[r] = None /\ page # None
  /\ row.state # "clean" \/ added # None
  /\ request' = [request EXCEPT ![r] =
       [kind |-> "commit", page |-> pageNum, phase |-> "sent",
        batch |-> [state |-> row.state, value |-> row.value, insert |-> added, rowPage |-> page]]]
  /\ doubled' = IF \E s \in InFlight("commit") : request[s].batch.insert = added
                  THEN doubled \cup ({added} \ {None}) ELSE doubled
  /\ UNCHANGED <<serverVars, pageNum, page, row, added, loadSeq, edits, strayed>>

\* ApplyMutations is one transaction.
ApplyMutations(r) ==
  /\ r \in InFlight("commit") /\ request[r].phase = "sent"
  /\ LET b == request[r].batch IN
     \/ /\ table' = [table EXCEPT ![b.rowPage] =
             CASE b.state = "deleted" -> Gone
               [] b.state = "modified" /\ @ # Gone -> b.value
               [] OTHER -> @]
        /\ inserted' = [v \in Values |-> inserted[v] + IF v = b.insert THEN 1 ELSE 0]
        /\ request' = [request EXCEPT ![r].phase = "applied"]
     \/ request' = [request EXCEPT ![r].phase = "refused"] /\ UNCHANGED serverVars
  /\ UNCHANGED <<pageNum, page, row, added, loadSeq, edits, doubled, strayed>>

CommitReturns(r) ==
  /\ r \in InFlight("commit") /\ request[r].phase = "applied"
  /\ UNCHANGED pageNum /\ StartLoad(r, request[r].page)

CommitRefused(r) ==
  /\ r \in InFlight("commit") /\ request[r].phase = "refused"
  /\ request' = [request EXCEPT ![r] = None]
  /\ UNCHANGED <<serverVars, pageNum, page, row, added, loadSeq, edits, doubled, strayed>>

TableNext ==
  \/ UpdateCell \/ AddRow \/ DeleteRow \/ DropAdded
  \/ \E r \in Requests :
       \/ LoadReads(r) \/ LoadReturns(r) \/ LoadFails(r)
       \/ Commit(r) \/ ApplyMutations(r) \/ CommitReturns(r) \/ CommitRefused(r)
       \/ \E p \in Pages : ChoosePage(r, p)

TableSpec == TableInit /\ [][TableNext]_tableVars
-----------------------------------------------------------------------------
\* The editor shows the page the user chose, unless a commit that was clicked on
\* another page has loaded that page again.
ShowsChosenPage == page # None /\ ~strayed => page = pageNum

\* When no call is in flight, a row without edits is as the table has it: the last
\* load that was taken came after every commit.
CleanIsFresh ==
  (page # None /\ row.state = "clean" /\ \A r \in Requests : request[r] = None)
    => row.value = table[page]

\* An added row is inserted once, unless the user committed it again before the
\* first commit had returned.
InsertedOnce == \A v \in Values \ doubled : inserted[v] <= 1

\* What the table editor promises.
TableSafe == ShowsChosenPage /\ CleanIsFresh /\ InsertedOnce
=============================================================================
