-------------------------------- MODULE Reads --------------------------------
(***************************************************************************)
(* The reads of cards (query.go, loadCard and Notes of card.go, and the    *)
(* commands show, list, ready and ready --explain).  None of them runs in  *)
(* a transaction: each statement sees the database as it is at that        *)
(* moment, and calls that change cards (the steps of CardStore) commit     *)
(* between two statements of one read.                                     *)
(*                                                                         *)
(* Text, its matching, the order of a page and its limit are left out.     *)
(***************************************************************************)
EXTENDS CardStore

CONSTANTS
  PageOptions,  \* the filters pages are asked for with
  NoRow         \* no row read

PageOption ==
  [statuses : SUBSET Status, categories : SUBSET Categories,
   types : SUBSET Type, labels : SUBSET AllLabel, all : BOOLEAN,
   parents : SUBSET CardId,    \* Parent: at most one
   children : SUBSET CardId]   \* Child: at most one

ASSUME PageOptionsAssumption == PageOptions \subseteq PageOption

VARIABLE reader   \* the one read under way

readVars == <<vars, reader>>

Idle ==
  [pc |-> "idle", op |-> "none", opts |-> NoRow,
   id |-> NoRow, row |-> NoRow, labels |-> {},   \* the card being loaded
   category |-> "none",
   page |-> [c \in {} |-> NoRow],  \* the rows of a page
   gone |-> {}]                    \* cards deleted meanwhile (a ghost)

ReadInit == Init /\ reader = Idle

-----------------------------------------------------------------------------
(* The conditions of a page.                                               *)

\* The names of status_definitions, by category.
StatusesIn(cats) ==
  {s \in BuiltinStatus \cup DOMAIN statusDefs :
     statusCategory(statusDefs, s) \in cats}

LabelsOf(c) == {l \in AllLabel : <<c, l>> \in labels}

\* The WHERE clause of ListCards.  Without statuses or categories and
\* without All, cards that are done are left out.
ListConds(o, c) ==
  /\ o.statuses # {} => cards[c].status \in o.statuses
  /\ o.categories # {} => cards[c].status \in StatusesIn(o.categories)
  /\ o.statuses \cup o.categories = {} /\ ~o.all =>
       cards[c].status \in StatusesIn(Categories \ {"done"})
  /\ o.types # {} => cards[c].type \in o.types
  /\ o.labels \subseteq LabelsOf(c)
  /\ \A p \in o.parents : <<p, c>> \in edges
  /\ \A d \in o.children : <<c, d>> \in edges

\* The join of unfinishedParents, which readyConds negates.
UnfinishedParents(c) ==
  {p \in Live :
     <<p, c>> \in edges /\ cards[p].status \notin StatusesIn({"done"})}

readyConds(c) ==
  /\ cards[c].status \in StatusesIn({"active"})
  /\ cards[c].assignee = Nobody
  /\ <<c, HumanLabel>> \notin labels
  /\ UnfinishedParents(c) = {}

ReadyConds(o, c) == readyConds(c) /\ o.labels \subseteq LabelsOf(c)

\* What excludes a card by itself, from a row, its category and labels.
OwnReasons(row, category, lbls) ==
  (IF category # "active" THEN {"status"} ELSE {})
    \cup (IF row.assignee # Nobody THEN {"assigned"} ELSE {})
    \cup (IF HumanLabel \in lbls THEN {"human"} ELSE {})

-----------------------------------------------------------------------------
(* Statements.                                                             *)

\* The next statement of the read under way.
Statement(pc, next) == reader.pc = pc /\ reader' = next /\ UNCHANGED vars

BeginCard(op, id) ==
  /\ reader = Idle
  /\ reader' = [Idle EXCEPT !.pc = "row", !.op = op, !.id = id]
  /\ UNCHANGED vars

\* loadCard: the row, then the labels.  (The parents and children it reads
\* after them are only shown.)
ReadRow ==
  Statement("row",
    IF reader.id \in Live
    THEN [reader EXCEPT !.pc = "labels", !.row = cards[reader.id],
                        !.gone = {}]
    ELSE Idle)

ReadLabels ==
  Statement("labels",
    [reader EXCEPT !.pc = IF reader.op = "show" THEN "exists" ELSE "category",
                   !.labels = LabelsOf(reader.id)])

\* Notes: is there such a card, then its notes.
ReadExists ==
  Statement("exists", IF reader.id \in Live
                      THEN [reader EXCEPT !.pc = "notes"] ELSE Idle)

ReadNotes == Statement("notes", Idle)

\* statusCategory of the status that was read with the row.
ReadCategory ==
  LET s == reader.row.status IN
  Statement("category",
    IF KnownStatus(statusDefs, s)
    THEN [reader EXCEPT !.pc = "unfinished",
                        !.category = statusCategory(statusDefs, s)]
    ELSE Idle)

\* The reasons ExplainReady returns: all but the unfinished parents rest on
\* what earlier statements found.
ReasonsFound(id) ==
  OwnReasons(reader.row, reader.category, reader.labels)
    \cup (IF UnfinishedParents(id) # {} THEN {"parents"} ELSE {})

ReadUnfinished == Statement("unfinished", Idle)

OnlyLabels(lbls) ==
  [statuses |-> {}, categories |-> {}, types |-> {}, labels |-> lbls,
   all |-> FALSE, parents |-> {}, children |-> {}]

\* ready filters by labels only; for list,
\* validateListOptions looks up the statuses and types that are asked for.
BeginPage(op, o) ==
  /\ reader = Idle
  /\ IF op = "list" THEN /\ o.statuses \subseteq StatusesIn(Categories)
                         /\ \A t \in o.types : TypeDefined(t)
     ELSE o = OnlyLabels(o.labels)
  /\ reader' = [Idle EXCEPT !.pc = "rows", !.op = op, !.opts = o]
  /\ UNCHANGED vars

\* The rows of a page: one statement.
ReadRows ==
  LET o == reader.opts
      Selected == {c \in Live : IF reader.op = "ready" THEN ReadyConds(o, c)
                                                       ELSE ListConds(o, c)}
  IN  Statement("rows",
        [reader EXCEPT !.pc = "page labels", !.gone = {},
                       !.page = [c \in Selected |-> cards[c]]])

\* loadLabelsBatch: their labels, in one statement.
ReadPageLabels == Statement("page labels", Idle)

\* A call that changes cards commits.
Commit ==
  /\ Next
  /\ reader' = [reader EXCEPT !.gone = @ \cup (Live \ Live')]

ReadNext ==
  \/ \E op \in {"show", "explain"}, id \in CardId : BeginCard(op, id)
  \/ \E op \in {"list", "ready"}, o \in PageOptions : BeginPage(op, o)
  \/ ReadRow \/ ReadLabels \/ ReadExists \/ ReadNotes
  \/ ReadCategory \/ ReadUnfinished
  \/ ReadRows \/ ReadPageLabels
  \/ Commit

ReadSpec == ReadInit /\ [][ReadNext]_readVars

-----------------------------------------------------------------------------
Pages == UNION {[D -> Row] : D \in SUBSET CardId}

ReadState ==
  [pc : {"idle", "row", "labels", "exists", "notes", "category",
         "unfinished", "rows", "page labels"},
   op : {"none", "show", "explain", "list", "ready"},
   opts : PageOptions \cup {NoRow},
   id : CardId \cup {NoRow},
   row : Row \cup {NoRow},
   labels : SUBSET AllLabel,
   category : Categories \cup {"none"},
   page : Pages,
   gone : SUBSET CardId]

ReadTypeOK == reader \in ReadState

\* "ExplainReady re-checks the same five conditions": at every moment, a
\* card without reasons is one that ReadyCards lists, and both are what
\* CardStore calls ready.
SameConditions ==
  \A c \in Live :
    LET reasons == OwnReasons(cards[c], Category(c), LabelsOf(c)) IN
    /\ readyConds(c) <=> Ready(c)
    /\ readyConds(c) <=> reasons = {} /\ UnfinishedParents(c) = {}

\* The card c is still the one of which row was read: it has the revision
\* of the row, and was not deleted and made anew, which starts over at 1.
Unchanged(c, row) ==
  c \in Live \ reader.gone /\ cards[c].revision = row.revision

\* The revision a caller is shown vouches for all that is shown with it,
\* though the statements run at different moments: as long as it is the
\* revision of the card, what was read of the card is what is there.  On a
\* page this holds card by card: a card listed as ready that is shown with
\* the human label, or is claimed since, has another revision.
ShownWithRevision ==
  /\ reader.row # NoRow /\ Unchanged(reader.id, reader.row) =>
       /\ reader.row = cards[reader.id]
       /\ reader.pc # "labels" => reader.labels = LabelsOf(reader.id)
  /\ \A c \in DOMAIN reader.page :
       Unchanged(c, reader.page[c]) =>
         /\ reader.page[c] = cards[c]
         /\ reader.op = "ready" =>
              /\ OwnReasons(cards[c], Category(c), LabelsOf(c)) = {}
              /\ reader.opts.labels \subseteq LabelsOf(c)

\* A verdict of ExplainReady rests on five statements.  If the card still
\* has the revision of the row, it is the truth as the last one runs,
\* whatever happened to the parents and to the definition of the status in
\* between; and the status was known.
VerdictWithRevision ==
  reader.row # NoRow /\ Unchanged(reader.id, reader.row) =>
    /\ reader.pc = "category" => KnownStatus(statusDefs, reader.row.status)
    /\ reader.pc = "unfinished" =>
         (ReasonsFound(reader.id) = {} <=> Ready(reader.id))
=============================================================================
