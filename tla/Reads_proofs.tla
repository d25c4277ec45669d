----------------------------- MODULE Reads_proofs -----------------------------
(***************************************************************************)
(* Theorems of Reads: what a read shows of a card is true as long as the   *)
(* card has the revision that is shown, whatever commits between the       *)
(* statements of the read.                                                 *)
(***************************************************************************)
EXTENDS Reads, CardStore_proofs

\* What has been loaded of a card is what the card was at the revision of the
\* row: the card has moved on, or all of it still stands.  A card that was
\* not deleted since is there.
LoadedStands ==
  reader.row # NoRow /\ reader.id \notin reader.gone =>
    /\ reader.id \in Live
    /\ \/ reader.row.revision < cards[reader.id].revision
       \/ /\ reader.row = cards[reader.id]
          /\ reader.pc # "labels" => reader.labels = LabelsOf(reader.id)
          /\ reader.pc = "unfinished" => reader.category = Category(reader.id)

\* The same of each row of a page.
PageStands ==
  \A c \in DOMAIN reader.page :
    c \notin reader.gone =>
      /\ c \in Live
      /\ \/ reader.page[c].revision < cards[c].revision
         \/ /\ reader.page[c] = cards[c]
            /\ reader.op = "ready" =>
                 /\ OwnReasons(cards[c], Category(c), LabelsOf(c)) = {}
                 /\ reader.opts.labels \subseteq LabelsOf(c)

\* A read loads one card or one page.
OneRead ==
  /\ reader.pc # "page labels" => DOMAIN reader.page = {}
  /\ reader.pc \in {"row", "rows", "page labels"} => reader.row = NoRow

ReadInv == /\ StoreInv /\ ReadTypeOK
           /\ OneRead /\ LoadedStands /\ PageStands

-----------------------------------------------------------------------------
\* A card that survives a step has moved on to the next revision, or all that
\* is shown of it is what it was.
LEMMA CardStands ==
  ASSUME StoreInv, [Next]_vars, NEW c \in Live, c \in Live'
  PROVE  /\ cards[c].revision \in Nat
         /\ \/ cards'[c].revision = cards[c].revision + 1
            \/ /\ cards'[c] = cards[c]
               /\ LabelsOf(c)' = LabelsOf(c)
               /\ Category(c)' = Category(c)
<1>1. cards[c].revision \in Nat
  BY DEF StoreInv, TypeOK, Row
<1>2. CASE Untouched(c)
  <2>1. LabelsOf(c)' = LabelsOf(c)
    <3>1. {l \in labels' : l[1] = c} = {l \in labels : l[1] = c}
      BY <1>2 DEF Untouched, LabelsOn
    <3>2. \A l \in AllLabel : <<c, l>> \in labels' <=> <<c, l>> \in labels
      BY <3>1
    <3> QED
      BY <3>2 DEF LabelsOf
  <2>2. Category(c)' = Category(c)
    BY <1>2, CategoriesKept DEF Untouched, Category
  <2> QED
    BY <1>1, <1>2, <2>1, <2>2 DEF Untouched
<1> QED
  BY <1>1, <1>2, StepOfCard

\* The page of ready is exactly the cards without reasons, at every moment.
LEMMA ReadyConditions ==
  ASSUME StoreInv, NEW c \in Live
  PROVE  /\ readyConds(c) <=> Ready(c)
         /\ readyConds(c) <=>
              /\ OwnReasons(cards[c], Category(c), LabelsOf(c)) = {}
              /\ UnfinishedParents(c) = {}
<1>1. ASSUME NEW d \in Live, NEW cat \in Categories
      PROVE  cards[d].status \in StatusesIn({cat}) <=> Category(d) = cat
  <2>1. KnownStatus(statusDefs, cards[d].status)
    BY DEF StoreInv, ReferentialIntegrity
  <2> QED
    BY <2>1 DEF StatusesIn, Category, KnownStatus
<1>2. /\ cards[c].status \in StatusesIn({"active"}) <=> Category(c) = "active"
      /\ \A d \in Live :
           cards[d].status \in StatusesIn({"done"}) <=> Done(d)
  BY <1>1 DEF Categories, Done
<1>3. \A p \in CardId : <<p, c>> \in edges => p \in Live
  BY DEF StoreInv, ReferentialIntegrity
<1>4. Live \subseteq CardId
  BY DEF StoreInv, TypeOK
<1>5. UnfinishedParents(c) = {} <=> \A p \in Parents(c) : Done(p)
  BY <1>2, <1>3, <1>4 DEF UnfinishedParents, Parents
<1>6. OwnReasons(cards[c], Category(c), LabelsOf(c)) = {} <=>
        /\ Category(c) = "active"
        /\ cards[c].assignee = Nobody
        /\ <<c, HumanLabel>> \notin labels
  BY DEF OwnReasons, LabelsOf, AllLabel
<1> QED
  BY <1>2, <1>5, <1>6 DEF readyConds, Ready

-----------------------------------------------------------------------------
(* The steps of a read.                                                    *)

\* A step of the reader changes no table, and every step is one of CardStore
\* or leaves the tables alone.
LEMMA ReadStepsOfStore ==
  ASSUME [ReadNext]_readVars
  PROVE  [Next]_vars
  BY DEF ReadNext, readVars, BeginCard, BeginPage, ReadRow, ReadLabels,
         ReadExists, ReadNotes, ReadCategory, ReadUnfinished, ReadRows,
         ReadPageLabels, Statement, Commit

\* No read under way is a state of the reader.
LEMMA IdleType == Idle \in ReadState
<1>1. [c \in {} |-> NoRow] \in [{} -> Row]
  OBVIOUS
<1>2. [c \in {} |-> NoRow] \in Pages
  BY <1>1 DEF Pages
<1> DEFINE empty == [c \in {} |-> NoRow]
<1>3. Idle = [pc |-> "idle", op |-> "none", opts |-> NoRow, id |-> NoRow,
              row |-> NoRow, labels |-> {}, category |-> "none",
              page |-> empty, gone |-> {}]
  BY DEF Idle
<1>4. empty \in Pages
  BY <1>2
<1> HIDE DEF empty
<1> QED
  BY <1>3, <1>4 DEF ReadState

\* What the reader has in hand is of its type.
LEMMA ReadTypes ==
  ASSUME StoreInv, ReadTypeOK, [ReadNext]_readVars
  PROVE  ReadTypeOK'
<1>1. Live \in SUBSET CardId /\ cards \in [Live -> Row]
  BY DEF StoreInv, TypeOK
<1>2. Idle \in ReadState
  BY IdleType
<1>3. ASSUME NEW c \in CardId PROVE LabelsOf(c) \subseteq AllLabel
  BY DEF LabelsOf
<1>4. CASE \E op \in {"show", "explain"}, id \in CardId : BeginCard(op, id)
  <2>1. PICK op \in {"show", "explain"}, id \in CardId : BeginCard(op, id)
    BY <1>4
  <2>2. reader' = [Idle EXCEPT !.pc = "row", !.op = op, !.id = id]
    BY <2>1 DEF BeginCard
  <2> QED
    BY <1>2, <2>2 DEF ReadTypeOK, ReadState
<1>5. CASE \E op \in {"list", "ready"}, o \in PageOptions : BeginPage(op, o)
  <2>1. PICK op \in {"list", "ready"}, o \in PageOptions : BeginPage(op, o)
    BY <1>5
  <2>2. reader' = [Idle EXCEPT !.pc = "rows", !.op = op, !.opts = o]
    BY <2>1 DEF BeginPage
  <2> QED
    BY <1>2, <2>2 DEF ReadTypeOK, ReadState
<1>6. reader' = Idle => ReadTypeOK'
  BY <1>2 DEF ReadTypeOK
<1>7. CASE ReadRow
  BY <1>1, <1>6, <1>7 DEF ReadRow, Statement, ReadTypeOK, ReadState
<1>8. CASE ReadLabels
  <2> DEFINE found == LabelsOf(reader.id)
             next == IF reader.op = "show" THEN "exists" ELSE "category"
  <2>1. reader' = [reader EXCEPT !.pc = next, !.labels = found]
    BY <1>8 DEF ReadLabels, Statement
  <2>2. found \in SUBSET AllLabel
    BY DEF LabelsOf
  <2>3. next \in {"exists", "category"}
    OBVIOUS
  <2> HIDE DEF found, next
  <2> QED
    BY <2>1, <2>2, <2>3 DEF ReadTypeOK, ReadState
<1>9. CASE ReadExists \/ ReadNotes \/ ReadUnfinished \/ ReadPageLabels
  <2>1. CASE ReadExists
    BY <1>6, <2>1 DEF ReadExists, Statement, ReadTypeOK, ReadState
  <2>2. CASE ReadNotes
    BY <1>6, <2>2 DEF ReadNotes, Statement, ReadTypeOK, ReadState
  <2>3. CASE ReadUnfinished
    BY <1>6, <2>3 DEF ReadUnfinished, Statement, ReadTypeOK, ReadState
  <2>4. CASE ReadPageLabels
    BY <1>6, <2>4 DEF ReadPageLabels, Statement, ReadTypeOK, ReadState
  <2> QED
    BY <1>9, <2>1, <2>2, <2>3, <2>4
<1>10. CASE ReadCategory
  <2>1. ASSUME NEW s, KnownStatus(statusDefs, s)
        PROVE  statusCategory(statusDefs, s) \in Categories
    BY <2>1 DEF KnownStatus, statusCategory, BuiltinStatus,
                BuiltinStatusCategories, Categories, StoreInv, TypeOK
  <2> QED
    BY <1>6, <1>10, <2>1 DEF ReadCategory, Statement, ReadTypeOK, ReadState
<1>11. CASE ReadRows
  <2> DEFINE Selected == {c \in Live : IF reader.op = "ready"
                                       THEN ReadyConds(reader.opts, c)
                                       ELSE ListConds(reader.opts, c)}
  <2>1. [c \in Selected |-> cards[c]] \in [Selected -> Row]
    BY <1>1
  <2>2. [c \in Selected |-> cards[c]] \in Pages
    BY <1>1, <2>1 DEF Pages
  <2>3. reader' = [reader EXCEPT !.pc = "page labels", !.gone = {},
                                 !.page = [c \in Selected |-> cards[c]]]
    BY <1>11 DEF ReadRows, Statement
  <2> HIDE DEF Selected
  <2> QED
    BY <2>2, <2>3 DEF ReadTypeOK, ReadState
<1>12. CASE Commit
  BY <1>1, <1>12 DEF Commit, ReadTypeOK, ReadState
<1>13. CASE UNCHANGED readVars
  BY <1>13 DEF readVars, ReadTypeOK
<1> QED
  BY <1>4, <1>5, <1>7, <1>8, <1>9, <1>10, <1>11, <1>12, <1>13 DEF ReadNext

\* A commit between two statements leaves what was loaded standing.
LEMMA CommitStands ==
  ASSUME StoreInv, ReadTypeOK, LoadedStands, PageStands, Commit
  PROVE  LoadedStands' /\ PageStands'
<1>1. /\ [Next]_vars
      /\ reader' = [reader EXCEPT !.gone = @ \cup (Live \ Live')]
  BY DEF Commit
<1>2. /\ reader'.pc = reader.pc /\ reader'.op = reader.op
      /\ reader'.opts = reader.opts /\ reader'.id = reader.id
      /\ reader'.row = reader.row /\ reader'.labels = reader.labels
      /\ reader'.category = reader.category /\ reader'.page = reader.page
      /\ reader'.gone = reader.gone \cup (Live \ Live')
  BY <1>1 DEF ReadTypeOK, ReadState
<1>3. LoadedStands'
  <2> SUFFICES ASSUME reader.row # NoRow, reader.id \notin reader'.gone
               PROVE  /\ reader.id \in Live'
                      /\ \/ reader.row.revision < cards'[reader.id].revision
                         \/ /\ reader.row = cards'[reader.id]
                            /\ reader.pc # "labels" =>
                                 reader.labels = LabelsOf(reader.id)'
                            /\ reader.pc = "unfinished" =>
                                 reader.category = Category(reader.id)'
    BY <1>2 DEF LoadedStands, LabelsOf, Category
  <2>1. reader.id \in Live /\ reader.id \in Live'
    BY <1>2 DEF LoadedStands
  <2> DEFINE c == reader.id
  <2>2. /\ cards[c].revision \in Nat
        /\ \/ cards'[c].revision = cards[c].revision + 1
           \/ /\ cards'[c] = cards[c]
              /\ LabelsOf(c)' = LabelsOf(c)
              /\ Category(c)' = Category(c)
    BY <1>1, <2>1, CardStands
  <2>3. reader.row.revision \in Nat
    BY DEF ReadTypeOK, ReadState, Row
  <2> QED
    BY <1>2, <2>1, <2>2, <2>3 DEF LoadedStands
<1>4. PageStands'
  <2> SUFFICES ASSUME NEW c \in DOMAIN reader.page, c \notin reader'.gone
               PROVE  /\ c \in Live'
                      /\ \/ reader.page[c].revision < cards'[c].revision
                         \/ /\ reader.page[c] = cards'[c]
                            /\ reader.op = "ready" =>
                                 /\ OwnReasons(cards'[c], Category(c)',
                                               LabelsOf(c)') = {}
                                 /\ reader.opts.labels \subseteq LabelsOf(c)'
    BY <1>2 DEF PageStands, OwnReasons, LabelsOf, Category
  <2>1. c \in Live /\ c \in Live'
    BY <1>2 DEF PageStands
  <2>2. /\ cards[c].revision \in Nat
        /\ \/ cards'[c].revision = cards[c].revision + 1
           \/ /\ cards'[c] = cards[c]
              /\ LabelsOf(c)' = LabelsOf(c)
              /\ Category(c)' = Category(c)
    BY <1>1, <2>1, CardStands
  <2>3. reader.page[c].revision \in Nat
    <3>1. PICK D \in SUBSET CardId : reader.page \in [D -> Row]
      BY DEF ReadTypeOK, ReadState, Pages
    <3>2. reader.page[c] \in Row
      BY <3>1
    <3> QED
      BY <3>2 DEF Row
  <2>4. /\ c \in Live
        /\ \/ reader.page[c].revision < cards[c].revision
           \/ /\ reader.page[c] = cards[c]
              /\ reader.op = "ready" =>
                   /\ OwnReasons(cards[c], Category(c), LabelsOf(c)) = {}
                   /\ reader.opts.labels \subseteq LabelsOf(c)
    BY <1>2 DEF PageStands
  <2>5. CASE reader.page[c].revision < cards[c].revision
    BY <2>1, <2>2, <2>3, <2>5
  <2>6. CASE cards'[c].revision = cards[c].revision + 1
    BY <2>1, <2>2, <2>3, <2>4, <2>6
  <2>7. CASE /\ cards'[c] = cards[c]
             /\ LabelsOf(c)' = LabelsOf(c)
             /\ Category(c)' = Category(c)
    BY <2>1, <2>4, <2>7
  <2> QED
    BY <2>2, <2>5, <2>6, <2>7
<1> QED
  BY <1>3, <1>4

\* What the statements find stands at the moment they run.
LEMMA StatementStands ==
  ASSUME ReadInv, ReadNext, ~Commit, UNCHANGED vars
  PROVE  OneRead' /\ LoadedStands' /\ PageStands'
<1> DEFINE Stands == OneRead' /\ LoadedStands' /\ PageStands'
<1> USE DEF ReadInv
<1>1. /\ Live' = Live /\ cards' = cards
      /\ \A c : LabelsOf(c)' = LabelsOf(c) /\ Category(c)' = Category(c)
  BY DEF vars, Live, LabelsOf, Category
<1>2. ASSUME reader'.row = NoRow, DOMAIN reader'.page = {}
      PROVE  Stands
  BY <1>2 DEF OneRead, LoadedStands, PageStands
<1> DEFINE empty == [c \in {} |-> NoRow]
<1>i. Idle.row = NoRow /\ Idle.page = empty /\ DOMAIN empty = {}
  BY DEF Idle
<1>3. CASE \E op \in {"show", "explain"}, id \in CardId : BeginCard(op, id)
  <2>1. PICK op \in {"show", "explain"}, id \in CardId :
          reader' = [Idle EXCEPT !.pc = "row", !.op = op, !.id = id]
    BY <1>3 DEF BeginCard
  <2>2. reader'.row = Idle.row /\ reader'.page = Idle.page
    BY <2>1, IdleType DEF ReadState
  <2> QED
    BY <1>2, <1>i, <2>2
<1>4. CASE \E op \in {"list", "ready"}, o \in PageOptions : BeginPage(op, o)
  <2>1. PICK op \in {"list", "ready"}, o \in PageOptions :
          reader' = [Idle EXCEPT !.pc = "rows", !.op = op, !.opts = o]
    BY <1>4 DEF BeginPage
  <2>2. reader'.row = Idle.row /\ reader'.page = Idle.page
    BY <2>1, IdleType DEF ReadState
  <2> QED
    BY <1>2, <1>i, <2>2
<1>5. CASE ReadRow /\ reader.id \in Live
  <2>1. /\ reader' = [reader EXCEPT !.pc = "labels", !.row = cards[reader.id],
                                   !.gone = {}]
        /\ reader.pc = "row"
    BY <1>5 DEF ReadRow, Statement
  <2>2. /\ reader'.pc = "labels" /\ reader'.row = cards[reader.id]
        /\ reader'.id = reader.id /\ reader'.page = reader.page
    BY <2>1 DEF ReadTypeOK, ReadState
  <2> QED
    BY <1>1, <1>5, <2>1, <2>2 DEF OneRead, LoadedStands, PageStands
<1>6. CASE ReadLabels
  <2>1. /\ reader' = [reader EXCEPT
            !.pc = IF reader.op = "show" THEN "exists" ELSE "category",
            !.labels = LabelsOf(reader.id)]
        /\ reader.pc = "labels"
    BY <1>6 DEF ReadLabels, Statement
  <2>2. /\ reader'.pc \in {"exists", "category"}
        /\ reader'.row = reader.row /\ reader'.id = reader.id
        /\ reader'.labels = LabelsOf(reader.id)
        /\ reader'.page = reader.page /\ reader'.gone = reader.gone
    BY <2>1 DEF ReadTypeOK, ReadState
  <2> QED
    BY <1>1, <2>1, <2>2 DEF OneRead, LoadedStands, PageStands
<1>7. CASE ReadExists /\ reader.id \in Live
  <2>1. reader' = [reader EXCEPT !.pc = "notes"] /\ reader.pc = "exists"
    BY <1>7 DEF ReadExists, Statement
  <2>2. /\ reader'.pc = "notes" /\ reader'.labels = reader.labels
        /\ reader'.row = reader.row /\ reader'.id = reader.id
        /\ reader'.page = reader.page /\ reader'.gone = reader.gone
    BY <2>1 DEF ReadTypeOK, ReadState
  <2> QED
    BY <1>1, <2>1, <2>2 DEF OneRead, LoadedStands, PageStands
<1>8. CASE ReadCategory /\ KnownStatus(statusDefs, reader.row.status)
  <2>1. /\ reader' = [reader EXCEPT !.pc = "unfinished",
              !.category = statusCategory(statusDefs, reader.row.status)]
        /\ reader.pc = "category"
    BY <1>8 DEF ReadCategory, Statement
  <2>2. /\ reader'.pc = "unfinished" /\ reader'.labels = reader.labels
        /\ reader'.row = reader.row /\ reader'.id = reader.id
        /\ reader'.category = statusCategory(statusDefs, reader.row.status)
        /\ reader'.page = reader.page /\ reader'.gone = reader.gone
    BY <2>1 DEF ReadTypeOK, ReadState
  <2>3. reader.row = cards[reader.id] => reader'.category = Category(reader.id)
    BY <2>2 DEF Category
  <2> QED
    BY <1>1, <2>1, <2>2, <2>3 DEF OneRead, LoadedStands, PageStands
<1>9. CASE ReadRows
  <2> DEFINE Selected == {c \in Live : IF reader.op = "ready"
                                       THEN ReadyConds(reader.opts, c)
                                       ELSE ListConds(reader.opts, c)}
             rows == [c \in Selected |-> cards[c]]
  <2>1. /\ reader' = [reader EXCEPT !.pc = "page labels", !.gone = {},
                                   !.page = rows]
        /\ reader.pc = "rows"
    BY <1>9 DEF ReadRows, Statement
  <2>2. ASSUME NEW c \in DOMAIN rows
        PROVE  /\ c \in Live /\ rows[c] = cards[c]
               /\ reader.op = "ready" =>
                    /\ OwnReasons(cards[c], Category(c), LabelsOf(c)) = {}
                    /\ reader.opts.labels \subseteq LabelsOf(c)
    <3>1. c \in Selected /\ rows[c] = cards[c]
      BY <2>2
    <3>2. reader.op = "ready" => /\ readyConds(c)
                                 /\ reader.opts.labels \subseteq LabelsOf(c)
      BY <3>1 DEF ReadyConds
    <3> QED
      BY <3>1, <3>2, ReadyConditions
  <2> HIDE DEF rows
  <2>3. /\ reader'.pc = "page labels" /\ reader'.row = reader.row
        /\ reader'.page = rows /\ reader'.op = reader.op
        /\ reader'.opts = reader.opts
    BY <2>1 DEF ReadTypeOK, ReadState
  <2>4. OneRead' /\ LoadedStands'
    BY <2>1, <2>3 DEF OneRead, LoadedStands
  <2>5. PageStands'
    BY <1>1, <2>2, <2>3 DEF PageStands
  <2> QED
    BY <2>4, <2>5
<1>10. CASE \/ ReadNotes \/ ReadUnfinished \/ ReadPageLabels
            \/ ReadRow /\ reader.id \notin Live
            \/ ReadExists /\ reader.id \notin Live
            \/ ReadCategory /\ ~KnownStatus(statusDefs, reader.row.status)
  <2>1. reader' = Idle
    BY <1>10 DEF ReadNotes, ReadUnfinished, ReadPageLabels, ReadRow,
                 ReadExists, ReadCategory, Statement
  <2> QED
    BY <1>2, <1>i, <2>1
<1> QED
  BY <1>3, <1>4, <1>5, <1>6, <1>7, <1>8, <1>9, <1>10 DEF ReadNext

\* ReadInv is inductive.
LEMMA ReadStep ==
  ASSUME ReadInv, [ReadNext]_readVars
  PROVE  ReadInv'
<1>1. ReadTypeOK'
  BY ReadTypes DEF ReadInv
<1>2. StoreInv'
  BY ReadStepsOfStore, StoreStep DEF ReadInv
<1>3. CASE UNCHANGED readVars
  <2>1. UNCHANGED <<reader, vars>>
    BY <1>3 DEF readVars
  <2> QED
    BY <1>1, <1>2, <2>1 DEF ReadInv, OneRead, LoadedStands, PageStands, vars,
                            Live, LabelsOf, Category
<1>4. CASE Commit
  <2>1. LoadedStands' /\ PageStands'
    BY <1>4, CommitStands DEF ReadInv
  <2>2. reader' = [reader EXCEPT !.gone = @ \cup (Live \ Live')]
    BY <1>4 DEF Commit
  <2>3. /\ reader'.pc = reader.pc /\ reader'.row = reader.row
        /\ reader'.page = reader.page
    BY <2>2 DEF ReadInv, ReadTypeOK, ReadState
  <2>4. OneRead'
    BY <2>3 DEF ReadInv, OneRead
  <2> QED
    BY <1>1, <1>2, <2>1, <2>4 DEF ReadInv
<1>5. CASE ReadNext /\ ~Commit
  <2>1. UNCHANGED vars
    BY <1>5 DEF ReadNext, BeginCard, BeginPage, ReadRow, ReadLabels,
         ReadExists, ReadNotes, ReadCategory, ReadUnfinished, ReadRows,
         ReadPageLabels, Statement
  <2> QED
    BY <1>1, <1>2, <1>5, <2>1, StatementStands DEF ReadInv
<1> QED
  BY <1>3, <1>4, <1>5

-----------------------------------------------------------------------------
(* The theorems.                                                           *)

\* ReadInv holds of every reachable state.
THEOREM ReadInvariant == ReadSpec => []ReadInv
<1>1. ReadInit => ReadInv
  <2> SUFFICES ASSUME ReadInit PROVE ReadInv
    OBVIOUS
  <2>1. StoreInv
    BY StoreInit DEF ReadInit
  <2>2. reader = Idle
    BY DEF ReadInit
  <2>3. Idle.row = NoRow /\ DOMAIN Idle.page = {}
    BY DEF Idle
  <2> QED
    BY <2>1, <2>2, <2>3, IdleType
    DEF ReadInv, ReadTypeOK, OneRead, LoadedStands, PageStands
<1> QED
  BY <1>1, ReadStep, PTL DEF ReadSpec

\* The revision that is shown vouches for the row, the labels and the place
\* on the page that are shown with it.
THEOREM RevisionVouches == ReadSpec => []ShownWithRevision
<1>1. ASSUME ReadInv PROVE ShownWithRevision
  <2>1. \A c \in Live : ~(cards[c].revision < cards[c].revision)
    BY <1>1 DEF ReadInv, StoreInv, TypeOK, Row
  <2>2. reader.row # NoRow /\ Unchanged(reader.id, reader.row) =>
          /\ reader.row = cards[reader.id]
          /\ reader.pc # "labels" => reader.labels = LabelsOf(reader.id)
    BY <1>1, <2>1 DEF ReadInv, LoadedStands, Unchanged
  <2>3. ASSUME NEW c \in DOMAIN reader.page, Unchanged(c, reader.page[c])
        PROVE  /\ reader.page[c] = cards[c]
               /\ reader.op = "ready" =>
                    /\ OwnReasons(cards[c], Category(c), LabelsOf(c)) = {}
                    /\ reader.opts.labels \subseteq LabelsOf(c)
    BY <1>1, <2>1, <2>3 DEF ReadInv, PageStands, Unchanged
  <2> QED
    BY <2>2, <2>3 DEF ShownWithRevision
<1> QED
  BY <1>1, ReadInvariant, PTL

\* A verdict of ExplainReady about a card that still has the revision of the
\* row it read is the truth.
THEOREM VerdictsTrue == ReadSpec => []VerdictWithRevision
<1>1. ASSUME ReadInv PROVE VerdictWithRevision
  <2> DEFINE c == reader.id
  <2> SUFFICES ASSUME reader.row # NoRow, Unchanged(c, reader.row)
               PROVE  /\ reader.pc = "category" =>
                           KnownStatus(statusDefs, reader.row.status)
                      /\ reader.pc = "unfinished" =>
                           (ReasonsFound(c) = {} <=> Ready(c))
    BY DEF VerdictWithRevision
  <2>1. c \in Live /\ c \notin reader.gone
        /\ cards[c].revision = reader.row.revision
    BY DEF Unchanged
  <2>2. cards[c].revision \in Nat /\ KnownStatus(statusDefs, cards[c].status)
    BY <1>1, <2>1 DEF ReadInv, StoreInv, TypeOK, ReferentialIntegrity, Row
  <2>3. /\ reader.row = cards[c]
        /\ reader.pc # "labels" => reader.labels = LabelsOf(c)
        /\ reader.pc = "unfinished" => reader.category = Category(c)
    BY <1>1, <2>1, <2>2 DEF ReadInv, LoadedStands
  <2>4. ASSUME reader.pc = "unfinished"
        PROVE  ReasonsFound(c) = {} <=> Ready(c)
    <3>1. ReasonsFound(c) =
            OwnReasons(cards[c], Category(c), LabelsOf(c))
              \cup (IF UnfinishedParents(c) # {} THEN {"parents"} ELSE {})
      BY <2>3, <2>4 DEF ReasonsFound
    <3>2. Ready(c) <=>
            /\ OwnReasons(cards[c], Category(c), LabelsOf(c)) = {}
            /\ UnfinishedParents(c) = {}
      BY <1>1, <2>1, ReadyConditions DEF ReadInv
    <3> QED
      BY <3>1, <3>2
  <2> QED
    BY <2>2, <2>3, <2>4
<1> QED
  BY <1>1, ReadInvariant, PTL

\* ready and ready --explain agree, and both with what CardStore calls ready.
THEOREM ExplainAgrees == ReadSpec => []SameConditions
<1>1. ReadInv => SameConditions
  BY ReadyConditions DEF ReadInv, SameConditions
<1> QED
  BY <1>1, ReadInvariant, PTL
=============================================================================
