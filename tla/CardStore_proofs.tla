--------------------------- MODULE CardStore_proofs ---------------------------
(***************************************************************************)
(* Theorems of CardStore, for every set of cards, actors, statuses, types  *)
(* and update arguments: type correctness, the references between tables,  *)
(* that the blocking graph stays acyclic, so work never gridlocks, and     *)
(* what may happen to a card in its life.                                  *)
(***************************************************************************)
EXTENDS CardStore, TLAPS

-----------------------------------------------------------------------------
(* Rows.                                                                   *)

\* Every row operation turns a row of the cards table into a row of it.
LEMMA RowOperations ==
  ASSUME NEW row \in Row
  PROVE  /\ Bumped(row) \in Row
         /\ \A a \in Actor : ClaimedBy(row, a) \in Row
         /\ Closed(row) \in Row
         /\ Released(row) \in Row
         /\ Reopened(row) \in Row
         /\ \A u \in BOOLEAN : Deferred(row, u) \in Row
<1> DEFINE b == Bumped(row)
<1>1. b \in Row
  BY DEF Row, Bumped
<1>2. {"open", "in_progress", "closed", "deferred"} \subseteq Status
  BY DEF Status, BuiltinStatus
<1> HIDE DEF b
<1>3. /\ \A a \in Actor : [b EXCEPT !.status = "in_progress", !.assignee = a,
                                    !.started = TRUE] \in Row
      /\ [b EXCEPT !.status = "closed", !.closed = TRUE] \in Row
      /\ [b EXCEPT !.status = "open", !.assignee = Nobody,
                   !.started = FALSE] \in Row
      /\ [b EXCEPT !.status = "open", !.assignee = Nobody,
                   !.started = FALSE, !.closed = FALSE] \in Row
      /\ \A u \in BOOLEAN :
           [b EXCEPT !.status = "deferred", !.deferred = u] \in Row
  BY <1>1, <1>2 DEF Row
<1> QED
  BY <1>1, <1>3 DEF b, ClaimedBy, Closed, Released, Reopened, Deferred

\* CreateCard inserts a row of the table.
LEMMA NewRowInRow == ASSUME NEW type \in Type PROVE NewRow(type) \in Row
  BY DEF NewRow, Row, Status, BuiltinStatus

\* The fields UpdateCard supplies leave a row a row.
LEMMA UpdatedRowInRow ==
  ASSUME TypeOK, NEW id \in Live, NEW in \in UpdateInput
  PROVE  UpdatedRow(id, in) \in Row
<1> DEFINE base == IF Claiming(id, in) THEN ClaimedBy(cards[id], in.claim)
                                       ELSE Bumped(cards[id])
<1>1. in \in Update
  BY UpdateInputAssumption
<1>2. cards[id] \in Row
  BY DEF TypeOK
<1>3. Claiming(id, in) => in.claim \in Actor
  BY <1>1 DEF Claiming, Update
<1>4. base \in Row
  BY <1>2, <1>3, RowOperations
<1>5. /\ in.status # Keep => in.status \in Status
      /\ in.type # Keep => in.type \in Type
  BY <1>1 DEF Update
<1> HIDE DEF base
<1>6. [base EXCEPT !.status = IF in.status = Keep THEN @ ELSE in.status,
                   !.type   = IF in.type = Keep THEN @ ELSE in.type] \in Row
  BY <1>4, <1>5 DEF Row
<1> QED
  BY <1>6 DEF base, UpdatedRow

-----------------------------------------------------------------------------
(* Type correctness.                                                       *)

\* The shared effect of the lifecycle calls keeps the types of what it writes.
LEMMA WriteTypes ==
  ASSUME TypeOK, NEW id \in Live, NEW row \in Row,
         NEW action \in EventAction, NEW reason \in BOOLEAN,
         Write(id, row, action, reason)
  PROVE  /\ Live' = Live
         /\ cards' \in [Live -> Row]
         /\ notes' \in [CardId -> Nat]
         /\ lastEvent' \in [CardId -> [action : EventAction, revision : Nat]]
         /\ cards'[id] = row
         /\ \A c \in Live : c # id => cards'[c] = cards[c]
         /\ \A c \in CardId : c # id => notes'[c] = notes[c]
<1>1. /\ id \in CardId
      /\ cards' = [cards EXCEPT ![id] = row]
      /\ cards \in [Live -> Row]
  BY DEF TypeOK, Write
<1>2. /\ cards' \in [Live -> Row]
      /\ cards'[id] = row
      /\ \A c \in Live : c # id => cards'[c] = cards[c]
  BY <1>1
<1>3. Live' = Live
  BY <1>2 DEF Live
<1>4. /\ notes' \in [CardId -> Nat]
      /\ \A c \in CardId : c # id => notes'[c] = notes[c]
  BY <1>1 DEF TypeOK, Write, NoteOn
<1>5. row.revision \in Nat
  BY DEF Row
<1>6. Event(action, row.revision) \in [action : EventAction, revision : Nat]
  BY <1>5 DEF Event
<1>7. lastEvent' \in [CardId -> [action : EventAction, revision : Nat]]
  BY <1>1, <1>2, <1>6 DEF TypeOK, Write, Log
<1> QED
  BY <1>2, <1>3, <1>4, <1>7

\* Edge events are events, provided both ends of each edge are live.
LEMMA EdgeLogType ==
  ASSUME TypeOK, Live' \subseteq CardId, cards' \in [Live' -> Row],
         NEW E, \A e \in E : {e[1], e[2]} \subseteq Live'
  PROVE  EdgeLog(E) \in [CardId -> [action : EventAction, revision : Nat]]
<1>1. ASSUME NEW c \in CardId, NEW e \in E, c \in {e[1], e[2]}
      PROVE  Event("edge", cards'[c].revision)
               \in [action : EventAction, revision : Nat]
  <2>1. c \in Live'
    BY <1>1
  <2>2. cards'[c] \in Row
    BY <2>1
  <2>3. cards'[c].revision \in Nat
    BY <2>2 DEF Row
  <2> QED
    BY <2>3 DEF Event, EventAction
<1> QED
  BY <1>1 DEF EdgeLog, TypeOK

\* A card's events are events whatever the last one is replaced by.
LEMMA EventType ==
  ASSUME NEW action \in EventAction, NEW revision \in Nat
  PROVE  Event(action, revision) \in [action : EventAction, revision : Nat]
  BY DEF Event

\* The initial tables hold rows of their types.
LEMMA InitTypes == Init => TypeOK
  BY DEF Init, TypeOK, Live, NoEvent, EventAction, Event

\* The calls that write the row of one card and nothing else but a note and,
\* for HumanCard, a label.
LifecycleCall(id) ==
  \/ \E actor \in Actor : ClaimCard(id, actor)
  \/ \E reason \in Reasons : CloseCard(id, reason)
  \/ \E reason \in Reasons : ReleaseCard(id, reason)
  \/ ReopenCard(id)
  \/ \E until \in BOOLEAN : DeferCard(id, until)
  \/ \E reason \in Reasons : HumanCard(id, reason)
  \/ AddNote(id)

\* What those calls have in common.
LEMMA LifecycleWrites ==
  ASSUME TypeOK, NEW id \in CardId, LifecycleCall(id)
  PROVE  /\ id \in Live
         /\ \E row \in Row, action \in EventAction \ {"none", "delete"},
               noted \in BOOLEAN :
              /\ Write(id, row, action, noted)
              /\ row.type = cards[id].type
              /\ row.revision = cards[id].revision + 1
              /\ \/ row.status = cards[id].status
                 \/ row.status \in BuiltinStatus
         /\ labels' = labels \/ labels' = labels \cup {<<id, HumanLabel>>}
         /\ UNCHANGED <<edges, statusDefs, typeDefs>>
<1> DEFINE Kept(row) == /\ row \in Row
                        /\ row.type = cards[id].type
                        /\ row.revision = cards[id].revision + 1
                        /\ \/ row.status = cards[id].status
                           \/ row.status \in BuiltinStatus
           Good(action) == \E row \in Row, noted \in BOOLEAN :
                             Write(id, row, action, noted) /\ Kept(row)
<1>1. id \in Live /\ cards[id] \in Row
  BY DEF TypeOK, LifecycleCall, ClaimCard, CloseCard, ReleaseCard, ReopenCard,
         DeferCard, HumanCard, AddNote, Writable
<1>2. /\ Kept(Bumped(cards[id]))
      /\ \A a \in Actor : Kept(ClaimedBy(cards[id], a))
      /\ Kept(Closed(cards[id]))
      /\ Kept(Released(cards[id]))
      /\ Kept(Reopened(cards[id]))
      /\ \A u \in BOOLEAN : Kept(Deferred(cards[id], u))
  <2>1. /\ Bumped(cards[id]) \in Row
        /\ \A a \in Actor : ClaimedBy(cards[id], a) \in Row
        /\ Closed(cards[id]) \in Row
        /\ Released(cards[id]) \in Row
        /\ Reopened(cards[id]) \in Row
        /\ \A u \in BOOLEAN : Deferred(cards[id], u) \in Row
    BY <1>1, RowOperations
  <2> QED
    BY <1>1, <2>1, ZenonT(40) DEF Row, Bumped, ClaimedBy, Closed, Released, Reopened,
                      Deferred, BuiltinStatus
<1> HIDE DEF Kept
<1>3. CASE \E actor \in Actor : ClaimCard(id, actor)
  <2>1. Good("claim")
    BY <1>2, <1>3 DEF ClaimCard, Kept
  <2> QED
    BY <1>1, <1>3, <2>1 DEF ClaimCard, EventAction, Kept
<1>4. CASE \E reason \in Reasons : CloseCard(id, reason)
  <2>1. Good("close")
    BY <1>2, <1>4, ReasonsAssumption DEF CloseCard, Kept
  <2> QED
    BY <1>1, <1>4, <2>1 DEF CloseCard, EventAction, Kept
<1>5. CASE \E reason \in Reasons : ReleaseCard(id, reason)
  <2>1. Good("release")
    BY <1>2, <1>5, ReasonsAssumption DEF ReleaseCard, Kept
  <2> QED
    BY <1>1, <1>5, <2>1 DEF ReleaseCard, EventAction, Kept
<1>6. CASE ReopenCard(id)
  <2>1. Good("reopen")
    BY <1>2, <1>6 DEF ReopenCard, Kept
  <2> QED
    BY <1>1, <1>6, <2>1 DEF ReopenCard, EventAction, Kept
<1>7. CASE \E until \in BOOLEAN : DeferCard(id, until)
  <2>1. Good("defer")
    BY <1>2, <1>7 DEF DeferCard, Kept
  <2> QED
    BY <1>1, <1>7, <2>1 DEF DeferCard, EventAction, Kept
<1>8. CASE \E reason \in Reasons : HumanCard(id, reason)
  <2>1. Good("human")
    BY <1>2, <1>8, ReasonsAssumption DEF HumanCard, Kept
  <2> QED
    BY <1>1, <1>8, <2>1 DEF HumanCard, EventAction, Kept
<1>9. CASE AddNote(id)
  <2>1. Good("note")
    BY <1>2, <1>9 DEF AddNote, Kept
  <2> QED
    BY <1>1, <1>9, <2>1 DEF AddNote, EventAction, Kept
<1> QED
  BY <1>3, <1>4, <1>5, <1>6, <1>7, <1>8, <1>9 DEF LifecycleCall

\* The lifecycle calls keep every table's type.
LEMMA LifecycleTypes ==
  ASSUME TypeOK, NEW id \in CardId, LifecycleCall(id)
  PROVE  TypeOK'
<1>1. /\ id \in Live
      /\ \E row \in Row, action \in EventAction, noted \in BOOLEAN :
           Write(id, row, action, noted)
  BY LifecycleWrites
<1>2. /\ Live' = Live
      /\ cards' \in [Live -> Row]
      /\ notes' \in [CardId -> Nat]
      /\ lastEvent' \in [CardId -> [action : EventAction, revision : Nat]]
  BY <1>1, WriteTypes
<1>3. /\ labels' = labels \/ labels' = labels \cup {<<id, HumanLabel>>}
      /\ UNCHANGED <<edges, statusDefs, typeDefs>>
  BY LifecycleWrites
<1>4. labels' \subseteq CardId \X AllLabel
  BY <1>3 DEF TypeOK, AllLabel
<1> QED
  BY <1>2, <1>3, <1>4 DEF TypeOK

\* Each end of each edge is live.
EdgesLive == \A e \in edges : {e[1], e[2]} \subseteq Live

\* CreateCard keeps every table's type.
LEMMA CreateCardTypes ==
  ASSUME TypeOK, NEW id \in CardId, NEW type \in Type,
         NEW lbls \in SUBSET AllLabel, NEW note \in Reasons,
         NEW parents \in SUBSET CardId,
         CreateCard(id, type, lbls, note, parents)
  PROVE  TypeOK'
<1> DEFINE E == {<<p, id>> : p \in parents}
<1> USE DEF CreateCard
<1>1. Live' = Live \cup {id} /\ Live' \subseteq CardId
  BY DEF Live, TypeOK
<1>2. cards' \in [Live' -> Row]
  BY <1>1, NewRowInRow DEF TypeOK
<1>3. edges' \subseteq Edge
  BY DEF TypeOK, Edge
<1>4. labels' \subseteq CardId \X AllLabel
  BY DEF TypeOK
<1>5. notes' \in [CardId -> Nat]
  BY DEF NoteOn, TypeOK
<1>6. \A e \in E : {e[1], e[2]} \subseteq Live'
  BY <1>1
<1>7. EdgeLog(E) \in [CardId -> [action : EventAction, revision : Nat]]
  BY <1>1, <1>2, <1>6, EdgeLogType
<1>8. Event("create", 1) \in [action : EventAction, revision : Nat]
  BY EventType DEF EventAction
<1>9. lastEvent' = [EdgeLog(E) EXCEPT ![id] = Event("create", 1)]
  OBVIOUS
<1>10. lastEvent' \in [CardId -> [action : EventAction, revision : Nat]]
  BY <1>7, <1>8, <1>9
<1> QED
  BY <1>1, <1>2, <1>3, <1>4, <1>5, <1>10 DEF TypeOK

\* DeleteCard keeps every table's type.
LEMMA DeleteCardTypes ==
  ASSUME TypeOK, NEW id \in CardId, DeleteCard(id)
  PROVE  TypeOK'
<1> USE DEF DeleteCard
<1>1. Live' = Live \ {id} /\ cards' \in [Live' -> Row]
  BY DEF Live, TypeOK
<1>2. edges' \subseteq Edge /\ labels' \subseteq CardId \X AllLabel
  BY DEF TypeOK, EdgesWithout
<1>3. notes' \in [CardId -> Nat]
  BY DEF TypeOK
<1>4. cards[id].revision \in Nat
  BY DEF TypeOK, Row
<1>5. Event("delete", cards[id].revision)
        \in [action : EventAction, revision : Nat]
  BY <1>4, EventType DEF EventAction
<1>6. lastEvent' \in [CardId -> [action : EventAction, revision : Nat]]
  BY <1>5 DEF TypeOK
<1> QED
  BY <1>1, <1>2, <1>3, <1>6 DEF TypeOK

\* A single edge call keeps every table's type.
LEMMA EdgeTypes ==
  ASSUME TypeOK, EdgesLive, NEW p \in CardId, NEW c \in CardId,
         AddEdge(p, c) \/ RemoveEdge(p, c)
  PROVE  TypeOK'
<1>1. p \in Live /\ c \in Live
  BY DEF AddEdge, RemoveEdge, EdgesAllowed, EdgesLive
<1>2. /\ UNCHANGED <<cards, labels, notes, statusDefs, typeDefs>>
      /\ edges' = edges \cup {<<p, c>>} \/ edges' = edges \ {<<p, c>>}
      /\ lastEvent' = [x \in CardId |->
                         IF x \in {p, c} THEN Event("edge", cards[x].revision)
                                         ELSE lastEvent[x]]
  BY DEF AddEdge, RemoveEdge
<1>3. \A x \in {p, c} : cards[x].revision \in Nat
  BY <1>1 DEF TypeOK, Row
<1>4. \A x \in {p, c} : Event("edge", cards[x].revision)
                          \in [action : EventAction, revision : Nat]
  BY <1>3, EventType DEF EventAction
<1>5. lastEvent' \in [CardId -> [action : EventAction, revision : Nat]]
  BY <1>2, <1>4 DEF TypeOK
<1>6. edges' \subseteq Edge /\ Live' = Live
  BY <1>2 DEF TypeOK, Edge, Live
<1> QED
  BY <1>2, <1>5, <1>6 DEF TypeOK

\* An UpdateCard call writes an existing card, and only edges between
\* existing cards.
LEMMA UpdateCardWrites ==
  ASSUME TypeOK, EdgesLive, NEW id \in CardId, NEW in \in UpdateInput,
         UpdateCard(id, in)
  PROVE  /\ id \in Live
         /\ Live' = Live
         /\ cards' \in [Live -> Row]
         /\ edges' \subseteq Edge
         /\ EdgesLive'
         /\ lastEvent' \in [CardId -> [action : EventAction, revision : Nat]]
<1> DEFINE N == {<<p, id>> : p \in in.addParents}
           O == {<<p, id>> : p \in in.removeParents}
           M == {<<id, c>> : c \in in.addChildren}
           R == {<<id, c>> : c \in in.removeChildren}
           E1 == edges \cup N
           E2 == E1 \ O
           E3 == E2 \cup M
           E4 == E3 \ R
           W == (E1 \ edges) \cup (E1 \ E2) \cup (E3 \ E2) \cup (E3 \ E4)
<1>1. /\ id \in Live
      /\ cards' = [cards EXCEPT ![id] = UpdatedRow(id, in)]
      /\ edges' = E4
      /\ EdgesAllowed(edges, N)
      /\ EdgesAllowed(E2, M)
      /\ lastEvent' = [EdgeLog(W) EXCEPT
                         ![id] = Event("update", cards[id].revision + 1)]
  BY DEF UpdateCard, UpdateAllowed, UpdateChecked, UpdateWrites,
         EdgesWithParents, Writable
<1>2. Live' = Live /\ cards' \in [Live -> Row]
  <2>1. UpdatedRow(id, in) \in Row
    BY <1>1, UpdatedRowInRow
  <2>2. cards' \in [Live -> Row]
    BY <1>1, <2>1 DEF TypeOK
  <2> QED
    BY <2>2 DEF Live
<1>3. \A e \in E3 \cup E1 : {e[1], e[2]} \subseteq Live
  BY <1>1 DEF EdgesAllowed, EdgesLive
<1>4. E1 \cup E3 \subseteq Edge
  <2>1. in \in Update
    BY UpdateInputAssumption
  <2>2. N \subseteq Edge /\ M \subseteq Edge
    BY <2>1 DEF Update, Edge
  <2> QED
    BY <2>2 DEF TypeOK
<1>5. edges' \subseteq Edge
  BY <1>1, <1>4
<1>6. EdgesLive'
  BY <1>1, <1>2, <1>3 DEF EdgesLive
<1>7. EdgeLog(W) \in [CardId -> [action : EventAction, revision : Nat]]
  <2>1. W \subseteq E1 \cup E3
    OBVIOUS
  <2>2. \A e \in W : {e[1], e[2]} \subseteq Live'
    BY <1>2, <1>3, <2>1
  <2>3. Live' \subseteq CardId /\ cards' \in [Live' -> Row]
    BY <1>2 DEF TypeOK
  <2> HIDE DEF W
  <2> QED
    BY <2>2, <2>3, EdgeLogType
<1>8. Event("update", cards[id].revision + 1)
        \in [action : EventAction, revision : Nat]
  <2>1. cards[id].revision + 1 \in Nat
    BY <1>1 DEF TypeOK, Row
  <2> QED
    BY <2>1, EventType DEF EventAction
<1> HIDE DEF W, E4
<1>9. lastEvent' \in [CardId -> [action : EventAction, revision : Nat]]
  BY <1>1, <1>7, <1>8
<1> QED
  BY <1>1, <1>2, <1>5, <1>6, <1>9

\* UpdateCard keeps every table's type.
LEMMA UpdateCardTypes ==
  ASSUME TypeOK, EdgesLive, NEW id \in CardId, NEW in \in UpdateInput,
         UpdateCard(id, in)
  PROVE  TypeOK'
<1>1. in.addLabels \subseteq AllLabel
  BY UpdateInputAssumption DEF Update
<1>2. labels' = (labels \cup {<<id, l>> : l \in in.addLabels})
                  \ {<<id, l>> : l \in in.removeLabels}
  BY DEF UpdateCard, UpdateWrites
<1>3. labels' \subseteq CardId \X AllLabel
  BY <1>1, <1>2 DEF TypeOK
<1>4. UNCHANGED <<notes, statusDefs, typeDefs>>
  BY DEF UpdateCard, UpdateWrites
<1> QED
  BY <1>3, <1>4, UpdateCardWrites DEF TypeOK

\* No step writes a row of the wrong type.
LEMMA StepTypes == ASSUME TypeOK, EdgesLive, [Next]_vars PROVE TypeOK'
<1>1. CASE UNCHANGED vars
  BY <1>1 DEF vars, TypeOK, Live
<1>2. CASE \E id \in CardId, type \in Type, lbls \in SUBSET AllLabel,
              note \in Reasons, parents \in SUBSET CardId :
             CreateCard(id, type, lbls, note, parents)
  BY <1>2, CreateCardTypes
<1>3. CASE \E id \in CardId : LifecycleCall(id)
  BY <1>3, LifecycleTypes
<1>4. CASE \E id \in CardId : DeleteCard(id)
  BY <1>4, DeleteCardTypes
<1>5. CASE \E p, c \in CardId : AddEdge(p, c) \/ RemoveEdge(p, c)
  BY <1>5, EdgeTypes
<1>6. CASE \E id \in CardId, in \in UpdateInput : UpdateCard(id, in)
  BY <1>6, UpdateCardTypes
<1>7. CASE \E new \in StatusConfigs : ConfigSetStatus(new)
  <2>1. PICK new \in StatusConfigs : ConfigSetStatus(new)
    BY <1>7
  <2>2. DOMAIN new \subseteq CustomStatus /\ new \in [DOMAIN new -> Categories]
    BY DEF StatusConfigs
  <2> QED
    BY <2>1, <2>2 DEF ConfigSetStatus, TypeOK, Live
<1>8. CASE \E new \in SUBSET CustomType : ConfigSetTypes(new)
  BY <1>8 DEF ConfigSetTypes, TypeOK, Live
<1> QED
  BY <1>1, <1>2, <1>3, <1>4, <1>5, <1>6, <1>7, <1>8 DEF Next, LifecycleCall

-----------------------------------------------------------------------------
(* References between the tables.                                          *)

\* A row that UpdateCard writes has a defined status and type.
LEMMA UpdatedRowDefined ==
  ASSUME TypeOK, ReferentialIntegrity, NEW id \in CardId,
         NEW in \in UpdateInput, UpdateCard(id, in)
  PROVE  /\ KnownStatus(statusDefs, UpdatedRow(id, in).status)
         /\ TypeDefined(UpdatedRow(id, in).type)
<1> DEFINE base == IF Claiming(id, in) THEN ClaimedBy(cards[id], in.claim)
                                       ELSE Bumped(cards[id])
<1>1. id \in Live /\ cards[id] \in Row
  BY DEF UpdateCard, UpdateAllowed, Writable, TypeOK
<1>2. /\ KnownStatus(statusDefs, cards[id].status)
      /\ TypeDefined(cards[id].type)
  BY <1>1 DEF ReferentialIntegrity
<1>3. base \in Row
  <2>1. Claiming(id, in) => in.claim \in Actor
    BY UpdateInputAssumption DEF Claiming, Update
  <2> QED
    BY <1>1, <2>1, RowOperations
<1>4. base.status \in {"in_progress", cards[id].status}
      /\ base.type = cards[id].type
  BY <1>1 DEF ClaimedBy, Bumped, Row
<1>5. KnownStatus(statusDefs, base.status) /\ TypeDefined(base.type)
  BY <1>2, <1>4 DEF KnownStatus, BuiltinStatus
<1>6. /\ in.status # Keep => KnownStatus(statusDefs, in.status)
      /\ in.type # Keep => TypeDefined(in.type)
  BY DEF UpdateCard, UpdateAllowed, UpdateChecked
<1>7. UpdatedRow(id, in) =
        [base EXCEPT !.status = IF in.status = Keep THEN @ ELSE in.status,
                     !.type   = IF in.type = Keep THEN @ ELSE in.type]
  BY DEF UpdatedRow
<1> HIDE DEF base
<1>8. /\ UpdatedRow(id, in).status =
           IF in.status = Keep THEN base.status ELSE in.status
      /\ UpdatedRow(id, in).type = IF in.type = Keep THEN base.type ELSE in.type
  BY <1>3, <1>7 DEF Row
<1> QED
  BY <1>5, <1>6, <1>8

\* The lifecycle calls leave every reference between tables standing.
LEMMA LifecycleReferences ==
  ASSUME TypeOK, ReferentialIntegrity, NEW id \in CardId, LifecycleCall(id)
  PROVE  ReferentialIntegrity'
<1>1. /\ id \in Live
      /\ labels' = labels \/ labels' = labels \cup {<<id, HumanLabel>>}
      /\ UNCHANGED <<edges, statusDefs, typeDefs>>
  BY LifecycleWrites
<1>2. PICK row \in Row, action \in EventAction, noted \in BOOLEAN :
        /\ Write(id, row, action, noted)
        /\ row.type = cards[id].type
        /\ row.status = cards[id].status \/ row.status \in BuiltinStatus
  BY LifecycleWrites
<1>3. /\ Live' = Live
      /\ cards'[id] = row
      /\ \A c \in Live : c # id => cards'[c] = cards[c]
      /\ \A c \in CardId : c # id => notes'[c] = notes[c]
  BY <1>1, <1>2, WriteTypes
<1>4. ASSUME NEW c \in Live
      PROVE  KnownStatus(statusDefs, cards'[c].status)
             /\ TypeDefined(cards'[c].type)
  <2>1. /\ KnownStatus(statusDefs, cards[c].status)
        /\ TypeDefined(cards[c].type)
    BY DEF ReferentialIntegrity
  <2>2. cards'[c].type = cards[c].type
    BY <1>2, <1>3
  <2>3. cards'[c].status = cards[c].status \/ cards'[c].status \in BuiltinStatus
    BY <1>2, <1>3
  <2> QED
    BY <2>1, <2>2, <2>3 DEF KnownStatus
<1>5. \A c \in CardId \ Live : notes'[c] = 0
  BY <1>1, <1>3 DEF ReferentialIntegrity
<1>6. \A l \in labels' : l[1] \in Live
  BY <1>1 DEF ReferentialIntegrity
<1>7. \A e \in edges' : {e[1], e[2]} \subseteq Live
  BY <1>1 DEF ReferentialIntegrity
<1>8. \A c \in Live : KnownStatus(statusDefs', cards'[c].status)
                      /\ \/ cards'[c].type = BuiltinType
                         \/ cards'[c].type \in typeDefs'
  BY <1>1, <1>4 DEF TypeDefined
<1> QED
  BY <1>3, <1>5, <1>6, <1>7, <1>8 DEF ReferentialIntegrity, TypeDefined

\* Creating a card refers only to cards and definitions that exist.
LEMMA CreateCardReferences ==
  ASSUME TypeOK, ReferentialIntegrity, NEW id \in CardId, NEW type \in Type,
         NEW lbls \in SUBSET AllLabel, NEW note \in Reasons,
         NEW parents \in SUBSET CardId,
         CreateCard(id, type, lbls, note, parents)
  PROVE  ReferentialIntegrity'
<1> USE DEF CreateCard
<1>1. Live' = Live \cup {id} /\ id \notin Live
  BY DEF Live
<1>2. /\ \A c \in Live : cards'[c] = cards[c]
      /\ cards'[id].status = "open" /\ cards'[id].type = type
  BY <1>1 DEF NewRow
<1>3. \A e \in edges' : {e[1], e[2]} \subseteq Live'
  BY <1>1 DEF ReferentialIntegrity
<1>4. \A l \in labels' : l[1] \in Live'
  BY <1>1 DEF ReferentialIntegrity
<1>5. \A c \in CardId \ Live' : notes'[c] = 0
  BY <1>1 DEF ReferentialIntegrity, NoteOn, TypeOK
<1>6. \A c \in Live' : KnownStatus(statusDefs, cards'[c].status)
                       /\ TypeDefined(cards'[c].type)
  BY <1>1, <1>2 DEF ReferentialIntegrity, KnownStatus, BuiltinStatus
<1> QED
  BY <1>3, <1>4, <1>5, <1>6 DEF ReferentialIntegrity, TypeDefined

\* Deleting a card takes every reference to it along.
LEMMA DeleteCardReferences ==
  ASSUME TypeOK, ReferentialIntegrity, NEW id \in CardId, DeleteCard(id)
  PROVE  ReferentialIntegrity'
<1> USE DEF DeleteCard
<1>1. Live' = Live \ {id} /\ \A c \in Live' : cards'[c] = cards[c]
  BY DEF Live
<1>2. \A e \in edges' : {e[1], e[2]} \subseteq Live'
  BY <1>1 DEF ReferentialIntegrity, EdgesWithout
<1>3. \A l \in labels' : l[1] \in Live'
  BY <1>1 DEF ReferentialIntegrity
<1>4. \A c \in CardId \ Live' : notes'[c] = 0
  BY <1>1 DEF ReferentialIntegrity, TypeOK
<1> QED
  BY <1>1, <1>2, <1>3, <1>4 DEF ReferentialIntegrity, TypeDefined

\* Updating a card refers only to cards and definitions that exist.
LEMMA UpdateCardReferences ==
  ASSUME TypeOK, ReferentialIntegrity, NEW id \in CardId,
         NEW in \in UpdateInput, UpdateCard(id, in)
  PROVE  ReferentialIntegrity'
<1>1. EdgesLive
  BY DEF EdgesLive, ReferentialIntegrity
<1>2. /\ id \in Live
      /\ Live' = Live
      /\ EdgesLive'
  BY <1>1, UpdateCardWrites
<1>3. /\ cards' = [cards EXCEPT ![id] = UpdatedRow(id, in)]
      /\ labels' \subseteq labels \cup {<<id, l>> : l \in in.addLabels}
      /\ UNCHANGED <<notes, statusDefs, typeDefs>>
  BY DEF UpdateCard, UpdateWrites
<1>4. cards'[id] = UpdatedRow(id, in)
      /\ \A c \in Live : c # id => cards'[c] = cards[c]
  BY <1>2, <1>3 DEF TypeOK
<1>5. \A c \in Live : KnownStatus(statusDefs, cards'[c].status)
                      /\ TypeDefined(cards'[c].type)
  BY <1>4, UpdatedRowDefined DEF ReferentialIntegrity
<1>6. \A l \in labels' : l[1] \in Live
  BY <1>2, <1>3 DEF ReferentialIntegrity
<1> QED
  BY <1>2, <1>3, <1>5, <1>6
  DEF ReferentialIntegrity, EdgesLive, TypeDefined

\* No step leaves a dangling reference.
LEMMA StepReferences ==
  ASSUME TypeOK, ReferentialIntegrity, [Next]_vars
  PROVE  ReferentialIntegrity'
<1>1. CASE UNCHANGED vars
  BY <1>1 DEF vars, ReferentialIntegrity, Live, TypeDefined
<1>2. CASE \E id \in CardId, type \in Type, lbls \in SUBSET AllLabel,
              note \in Reasons, parents \in SUBSET CardId :
             CreateCard(id, type, lbls, note, parents)
  BY <1>2, CreateCardReferences
<1>3. CASE \E id \in CardId : LifecycleCall(id)
  BY <1>3, LifecycleReferences
<1>4. CASE \E id \in CardId : DeleteCard(id)
  BY <1>4, DeleteCardReferences
<1>5. CASE \E p, c \in CardId : AddEdge(p, c) \/ RemoveEdge(p, c)
  BY <1>5 DEF AddEdge, RemoveEdge, EdgesAllowed, ReferentialIntegrity, Live,
              TypeDefined
<1>6. CASE \E id \in CardId, in \in UpdateInput : UpdateCard(id, in)
  BY <1>6, UpdateCardReferences
<1>7. CASE \E new \in StatusConfigs : ConfigSetStatus(new)
  <2>1. PICK new \in StatusConfigs : ConfigSetStatus(new)
    BY <1>7
  <2>2. Live' = Live /\ UNCHANGED <<cards, edges, labels, notes, typeDefs>>
    BY <2>1 DEF ConfigSetStatus, Live
  <2>3. \A c \in Live : KnownStatus(statusDefs', cards[c].status)
    BY <2>1 DEF ConfigSetStatus, StatusesReplaceable, ReferentialIntegrity,
                   KnownStatus, StatusInUse
  <2> QED
    BY <2>2, <2>3 DEF ReferentialIntegrity, TypeDefined
<1>8. CASE \E new \in SUBSET CustomType : ConfigSetTypes(new)
  <2>1. PICK new \in SUBSET CustomType : ConfigSetTypes(new)
    BY <1>8
  <2>2. Live' = Live
        /\ UNCHANGED <<cards, edges, labels, notes, statusDefs>>
    BY <2>1 DEF ConfigSetTypes, Live
  <2>3. \A c \in Live : cards[c].type = BuiltinType \/ cards[c].type \in typeDefs'
    BY <2>1 DEF ConfigSetTypes, TypesReplaceable, ReferentialIntegrity,
                   TypeDefined, TypeInUse
  <2> QED
    BY <2>2, <2>3 DEF ReferentialIntegrity, TypeDefined
<1> QED
  BY <1>1, <1>2, <1>3, <1>4, <1>5, <1>6, <1>7, <1>8 DEF Next, LifecycleCall

-----------------------------------------------------------------------------
(* The blocking graph.                                                     *)

\* Removing edges closes no cycle.
LEMMA FewerEdges ==
  ASSUME NEW E, NEW F, Acyclic(E), F \subseteq E
  PROVE  Acyclic(F)
  BY DEF Acyclic

\* New edges that all lead from outside D into D, a set no old edge leaves,
\* close no cycle: a cycle through one of them would have to leave D again.
LEMMA EdgesIntoClosedSet ==
  ASSUME NEW E, NEW N, NEW D \in SUBSET CardId, Acyclic(E),
         \A p \in CardId, c \in CardId : <<p, c>> \in E /\ p \in D => c \in D,
         \A p \in CardId, c \in CardId : <<p, c>> \in N => p \notin D /\ c \in D
  PROVE  Acyclic(E \cup N)
<1> SUFFICES ASSUME NEW S \in SUBSET CardId, S # {}
             PROVE  \E c \in S : \A p \in S : <<p, c>> \notin E \cup N
  BY DEF Acyclic
<1>1. CASE S \ D # {}
  <2>1. PICK c \in S \ D : \A p \in S \ D : <<p, c>> \notin E
    BY <1>1 DEF Acyclic
  <2> QED
    BY <2>1
<1>2. CASE S \subseteq D
  <2>1. PICK c \in S : \A p \in S : <<p, c>> \notin E
    BY DEF Acyclic
  <2> QED
    BY <1>2, <2>1
<1> QED
  BY <1>1, <1>2

\* The rows of the recursive query hold the children of c and, with a card,
\* its children.
LEMMA DescendantsClosed ==
  ASSUME NEW E \in SUBSET Edge, NEW c \in CardId, NEW e \in E,
         e[1] = c \/ e[1] \in Descendants(E, c)
  PROVE  e[2] \in Descendants(E, c)
<1>1. e[2] \in CardId
  BY DEF Edge
<1>2. ASSUME NEW S \in SUBSET CardId,
             \A f \in E : f[1] = c \/ f[1] \in S => f[2] \in S
      PROVE  e[2] \in S
  <2>1. e[1] = c \/ e[1] \in S
    BY <1>2 DEF Descendants
  <2> QED
    BY <1>2, <2>1
<1> QED
  BY <1>1, <1>2 DEF Descendants

\* Parents accepted by wouldCreateCycle close no cycle, all together.
LEMMA NewParents ==
  ASSUME NEW E \in SUBSET Edge, Acyclic(E), NEW id \in CardId,
         NEW N \in SUBSET Edge, \A e \in N : e[2] = id, EdgesAllowed(E, N)
  PROVE  Acyclic(E \cup N)
<1> DEFINE D == Descendants(E, id) \cup {id}
<1>1. D \in SUBSET CardId
  BY DEF Descendants
<1>2. ASSUME NEW p \in CardId, NEW c \in CardId, <<p, c>> \in E, p \in D
      PROVE  c \in D
  BY <1>2, DescendantsClosed
<1>3. ASSUME NEW p \in CardId, NEW c \in CardId, <<p, c>> \in N \ E
      PROVE  p \notin D /\ c \in D
  BY <1>3 DEF EdgesAllowed, wouldCreateCycle
<1> HIDE DEF D
<1>4. Acyclic(E \cup (N \ E))
  BY <1>1, <1>2, <1>3, EdgesIntoClosedSet
<1>5. E \cup (N \ E) = E \cup N
  OBVIOUS
<1> QED
  BY <1>4, <1>5

\* Children accepted by wouldCreateCycle close no cycle, all together.
LEMMA NewChildren ==
  ASSUME NEW E \in SUBSET Edge, Acyclic(E), NEW id \in CardId,
         NEW N \in SUBSET Edge, \A e \in N : e[1] = id, EdgesAllowed(E, N)
  PROVE  Acyclic(E \cup N)
<1> DEFINE D == {d \in CardId : \E e \in N \ E :
                                  d = e[2] \/ d \in Descendants(E, e[2])}
<1>1. D \in SUBSET CardId
  OBVIOUS
<1>2. ASSUME NEW p \in CardId, NEW c \in CardId, <<p, c>> \in E, p \in D
      PROVE  c \in D
  <2>1. PICK e \in N \ E : p = e[2] \/ p \in Descendants(E, e[2])
    BY <1>2
  <2>2. e[2] \in CardId
    BY DEF Edge
  <2>3. c \in Descendants(E, e[2])
    BY <1>2, <2>1, <2>2, DescendantsClosed
  <2> QED
    BY <2>3
<1>3. ASSUME NEW p \in CardId, NEW c \in CardId, <<p, c>> \in N \ E
      PROVE  p \notin D /\ c \in D
  <2>1. \A e \in N \ E : id # e[2] /\ id \notin Descendants(E, e[2])
    BY DEF EdgesAllowed, wouldCreateCycle
  <2> QED
    BY <1>3, <2>1
<1> HIDE DEF D
<1>4. Acyclic(E \cup (N \ E))
  BY <1>1, <1>2, <1>3, EdgesIntoClosedSet
<1>5. E \cup (N \ E) = E \cup N
  OBVIOUS
<1> QED
  BY <1>4, <1>5

\* The parents and children one UpdateCard adds and removes close no cycle,
\* although each is checked against the graph the earlier ones left.
LEMMA UpdateCardAcyclic ==
  ASSUME TypeOK, BlockingGraphAcyclic, NEW id \in CardId,
         NEW in \in UpdateInput, UpdateCard(id, in)
  PROVE  BlockingGraphAcyclic'
<1> DEFINE N == {<<p, id>> : p \in in.addParents}
           E2 == (edges \cup N) \ {<<p, id>> : p \in in.removeParents}
           M == {<<id, c>> : c \in in.addChildren}
<1>1. /\ EdgesAllowed(edges, N)
      /\ EdgesAllowed(E2, M)
      /\ edges' \subseteq E2 \cup M
  BY DEF UpdateCard, UpdateChecked, UpdateWrites, EdgesWithParents
<1>2. N \in SUBSET Edge /\ M \in SUBSET Edge
  BY UpdateInputAssumption DEF Update, Edge
<1>3. edges \in SUBSET Edge /\ Acyclic(edges)
  BY DEF TypeOK, BlockingGraphAcyclic
<1>4. (\A e \in N : e[2] = id) /\ (\A e \in M : e[1] = id)
  OBVIOUS
<1>5. E2 \subseteq edges \cup N
  OBVIOUS
<1> HIDE DEF N, E2, M
<1>6. Acyclic(edges \cup N)
  BY <1>1, <1>2, <1>3, <1>4, NewParents
<1>7. E2 \in SUBSET Edge /\ Acyclic(E2)
  BY <1>2, <1>3, <1>5, <1>6, FewerEdges
<1>8. Acyclic(E2 \cup M)
  BY <1>1, <1>2, <1>4, <1>7, NewChildren
<1> QED
  BY <1>1, <1>8, FewerEdges DEF BlockingGraphAcyclic

\* A new card has no children, so its parents close no cycle.
LEMMA CreateCardAcyclic ==
  ASSUME TypeOK, EdgesLive, BlockingGraphAcyclic, NEW id \in CardId,
         NEW type \in Type, NEW lbls \in SUBSET AllLabel, NEW note \in Reasons,
         NEW parents \in SUBSET CardId,
         CreateCard(id, type, lbls, note, parents)
  PROVE  BlockingGraphAcyclic'
<1> DEFINE N == {<<p, id>> : p \in parents}
           D == {id}
<1>1. edges' = edges \cup N /\ id \notin Live /\ parents \subseteq Live
  BY DEF CreateCard
<1>2. \A e \in edges : e[1] # id
  BY <1>1 DEF EdgesLive
<1>3. D \in SUBSET CardId
      /\ \A p \in CardId, c \in CardId :
           /\ <<p, c>> \in edges /\ p \in D => c \in D
           /\ <<p, c>> \in N => p \notin D /\ c \in D
  BY <1>1, <1>2
<1> HIDE DEF N, D
<1>4. Acyclic(edges \cup N)
  BY <1>3, EdgesIntoClosedSet DEF BlockingGraphAcyclic
<1> QED
  BY <1>1, <1>4 DEF BlockingGraphAcyclic

\* No step closes a cycle.
LEMMA StepAcyclic ==
  ASSUME TypeOK, EdgesLive, BlockingGraphAcyclic, [Next]_vars
  PROVE  BlockingGraphAcyclic'
<1>1. CASE UNCHANGED edges
  BY <1>1 DEF BlockingGraphAcyclic
<1>2. CASE \E id \in CardId, type \in Type, lbls \in SUBSET AllLabel,
              note \in Reasons, parents \in SUBSET CardId :
             CreateCard(id, type, lbls, note, parents)
  BY <1>2, CreateCardAcyclic
<1>3. CASE \E id \in CardId : DeleteCard(id)
  BY <1>3, FewerEdges DEF DeleteCard, EdgesWithout, BlockingGraphAcyclic
<1>4. CASE \E p, c \in CardId : AddEdge(p, c)
  <2>1. PICK p \in CardId, c \in CardId : AddEdge(p, c)
    BY <1>4
  <2>2. {<<p, c>>} \in SUBSET Edge /\ edges \in SUBSET Edge
    BY DEF Edge, TypeOK
  <2>3. Acyclic(edges \cup {<<p, c>>})
    BY <2>1, <2>2, NewParents DEF AddEdge, BlockingGraphAcyclic
  <2> QED
    BY <2>1, <2>3 DEF AddEdge, BlockingGraphAcyclic
<1>5. CASE \E p, c \in CardId : RemoveEdge(p, c)
  BY <1>5, FewerEdges DEF RemoveEdge, BlockingGraphAcyclic
<1>6. CASE \E id \in CardId, in \in UpdateInput : UpdateCard(id, in)
  BY <1>6, UpdateCardAcyclic
<1>7. CASE \E id \in CardId : LifecycleCall(id)
  BY <1>1, <1>7, LifecycleWrites
<1>8. CASE \/ \E new \in StatusConfigs : ConfigSetStatus(new)
           \/ \E new \in SUBSET CustomType : ConfigSetTypes(new)
           \/ UNCHANGED vars
  BY <1>1, <1>8 DEF ConfigSetStatus, ConfigSetTypes, vars
<1> QED
  BY <1>2, <1>3, <1>4, <1>5, <1>6, <1>7, <1>8 DEF Next, LifecycleCall

-----------------------------------------------------------------------------
(* The theorems.                                                           *)

\* Types, references and acyclicity are kept together: the type of an event
\* that an edge call writes needs both its cards to exist, and a reused id
\* closes no cycle only because the edges of the deleted card went with it.
StoreInv == TypeOK /\ ReferentialIntegrity /\ BlockingGraphAcyclic

\* StoreInv holds at first.
LEMMA StoreInit == Init => StoreInv
  BY InitTypes
  DEF Init, StoreInv, ReferentialIntegrity, BlockingGraphAcyclic, Acyclic, Live

\* StoreInv is inductive.
LEMMA StoreStep == StoreInv /\ [Next]_vars => StoreInv'
<1> SUFFICES ASSUME StoreInv, [Next]_vars PROVE StoreInv'
  OBVIOUS
<1>1. EdgesLive
  BY DEF StoreInv, ReferentialIntegrity, EdgesLive
<1> QED
  BY <1>1, StepTypes, StepReferences, StepAcyclic DEF StoreInv

\* StoreInv holds of every reachable state.
THEOREM StoreInvariant == Spec => []StoreInv
  BY StoreInit, StoreStep, PTL DEF Spec

\* Every table always holds rows of its type.
THEOREM TypeCorrect == Spec => []TypeOK
<1>1. StoreInv => TypeOK
  BY DEF StoreInv
<1> QED
  BY <1>1, StoreInvariant, PTL

\* No sequence of calls leaves a dangling edge, label, note, status or type.
THEOREM ReferencesHold == Spec => []ReferentialIntegrity
<1>1. StoreInv => ReferentialIntegrity
  BY DEF StoreInv
<1> QED
  BY <1>1, StoreInvariant, PTL

\* No sequence of calls makes a card block itself.
THEOREM NeverCyclic == Spec => []BlockingGraphAcyclic
<1>1. StoreInv => BlockingGraphAcyclic
  BY DEF StoreInv
<1> QED
  BY <1>1, StoreInvariant, PTL

\* As long as some card is not done, one that is not done can be worked on.
THEOREM NeverGridlocked == Spec => []NoGridlock
<1>1. ASSUME StoreInv PROVE NoGridlock
  <2> DEFINE S == {c \in Live : ~Done(c)}
  <2> SUFFICES ASSUME S # {}
               PROVE  \E c \in S : \A p \in Parents(c) : p \in Live /\ Done(p)
    BY DEF NoGridlock
  <2>1. S \in SUBSET CardId
    BY <1>1 DEF StoreInv, TypeOK
  <2>2. PICK c \in S : \A p \in S : <<p, c>> \notin edges
    BY <1>1, <2>1 DEF StoreInv, BlockingGraphAcyclic, Acyclic
  <2>3. \A p \in Parents(c) : p \in Live
    BY <1>1 DEF StoreInv, ReferentialIntegrity, Parents
  <2> QED
    BY <2>2, <2>3 DEF Parents
<1> QED
  BY <1>1, StoreInvariant, PTL

-----------------------------------------------------------------------------
(* The history of a card: what one call may do to a card that was there    *)
(* before it and is there after it, which the readers of a card, the       *)
(* holder of a claim and the audit trail rely on.  First, what a step can  *)
(* do to one card.                                                         *)

LabelsOn(c) == {l \in labels : l[1] = c}

\* A lifecycle call on c: the event it logs and the row it writes.
LifecycleRow(c, action, row) ==
  \/ action = "claim" /\ Category(c) = "active"
       /\ \E a \in Actor : row = ClaimedBy(cards[c], a)
  \/ action = "close" /\ Category(c) # "done" /\ row = Closed(cards[c])
  \/ action = "release" /\ Category(c) = "wip" /\ row = Released(cards[c])
  \/ action = "reopen" /\ Category(c) = "done"
       /\ row = Reopened(cards[c])
  \/ action = "defer" /\ Category(c) # "done"
       /\ \E u \in BOOLEAN : row = Deferred(cards[c], u)
  \/ action \in {"close", "human", "note"} /\ row = Bumped(cards[c])

\* Nothing is written to c but, perhaps, the event of an edge.
Untouched(c) ==
  /\ cards'[c] = cards[c] /\ notes'[c] = notes[c] /\ LabelsOn(c)' = LabelsOn(c)
  /\ lastEvent'[c] \in {lastEvent[c], Event("edge", cards[c].revision)}

\* A lifecycle call writes c.
Called(c) ==
  /\ statusDefs' = statusDefs
  /\ \E action \in EventAction \ {"none", "delete"} :
       /\ LifecycleRow(c, action, cards'[c])
       /\ lastEvent'[c] = Event(action, cards'[c].revision)

\* An UpdateCard call writes c.
Updated(c) ==
  /\ statusDefs' = statusDefs
  /\ \E in \in UpdateInput : UpdateCard(c, in) /\ cards'[c] = UpdatedRow(c, in)
  /\ lastEvent'[c] = Event("update", cards[c].revision + 1)

\* What a lifecycle call leaves in the row of c.
LEMMA LifecycleFields ==
  ASSUME NEW c \in Live, cards[c] \in Row, NEW action, NEW row,
         LifecycleRow(c, action, row)
  PROVE  /\ row.revision = cards[c].revision + 1
         /\ Category(c) = "wip" =>
              \/ row.assignee = cards[c].assignee
              \/ row.assignee = Nobody /\ action = "release"
         /\ Category(c) = "done" =>
              \/ row.status = cards[c].status
              \/ row.assignee = Nobody /\ action = "reopen" /\ ~row.closed
         /\ Category(c) # "done" =>
              row.status = "closed" \/ (row.closed => cards[c].closed)
  BY DEF LifecycleRow, Row, Bumped, ClaimedBy, Closed, Released, Reopened,
         Deferred

\* A lifecycle call writes one of those rows, and the event that goes with it.
LEMMA LifecycleCalled ==
  ASSUME TypeOK, NEW id \in CardId, LifecycleCall(id)
  PROVE  \E row \in Row, action \in EventAction \ {"none", "delete"},
            noted \in BOOLEAN :
           Write(id, row, action, noted) /\ LifecycleRow(id, action, row)
<1> DEFINE Good(action) == \E row \in Row, noted \in BOOLEAN :
             Write(id, row, action, noted) /\ LifecycleRow(id, action, row)
<1>1. id \in Live /\ cards[id] \in Row
  BY DEF TypeOK, LifecycleCall, ClaimCard, CloseCard, ReleaseCard, ReopenCard,
         DeferCard, HumanCard, AddNote, Writable
<1>2. /\ Bumped(cards[id]) \in Row
      /\ \A a \in Actor : ClaimedBy(cards[id], a) \in Row
      /\ Closed(cards[id]) \in Row
      /\ Released(cards[id]) \in Row
      /\ Reopened(cards[id]) \in Row
      /\ \A u \in BOOLEAN : Deferred(cards[id], u) \in Row
  BY <1>1, RowOperations
<1>3. \E action \in {"claim", "close", "release", "reopen", "defer", "human",
                     "note"} : Good(action)
  <2>1. (\E actor \in Actor : ClaimCard(id, actor)) => Good("claim")
    BY <1>2 DEF ClaimCard, LifecycleRow
  <2>2. (\E reason \in Reasons : CloseCard(id, reason)) => Good("close")
    BY <1>2, ReasonsAssumption DEF CloseCard, LifecycleRow
  <2>3. (\E reason \in Reasons : ReleaseCard(id, reason)) => Good("release")
    BY <1>2, ReasonsAssumption DEF ReleaseCard, LifecycleRow
  <2>4. ReopenCard(id) => Good("reopen")
    BY <1>2 DEF ReopenCard, LifecycleRow
  <2>5. (\E until \in BOOLEAN : DeferCard(id, until)) => Good("defer")
    BY <1>2 DEF DeferCard, LifecycleRow
  <2>6. (\E reason \in Reasons : HumanCard(id, reason)) => Good("human")
    BY <1>2, ReasonsAssumption DEF HumanCard, LifecycleRow
  <2>7. AddNote(id) => Good("note")
    BY <1>2 DEF AddNote, LifecycleRow
  <2> HIDE DEF Good
  <2> QED
    BY <2>1, <2>2, <2>3, <2>4, <2>5, <2>6, <2>7 DEF LifecycleCall
<1> QED
  BY <1>3 DEF EventAction
\* A card that survives a step was left alone, or was the card of the call;
\* unless it was left alone, its revision went up by one.
LEMMA StepOfCard ==
  ASSUME StoreInv, [Next]_vars, NEW c \in Live, c \in Live'
  PROVE  /\ Untouched(c) \/ Called(c) \/ Updated(c)
         /\ Untouched(c) \/ cards'[c].revision = cards[c].revision + 1
<1>1. /\ TypeOK /\ EdgesLive /\ c \in CardId /\ cards[c] \in Row
      /\ lastEvent \in [CardId -> [action : EventAction, revision : Nat]]
  BY DEF StoreInv, ReferentialIntegrity, EdgesLive, TypeOK
<1>2. CASE UNCHANGED vars
  BY <1>2 DEF vars, Untouched, LabelsOn
<1>3. ASSUME NEW id \in CardId, NEW type \in Type, NEW lbls \in SUBSET AllLabel,
             NEW note \in Reasons, NEW parents \in SUBSET CardId,
             CreateCard(id, type, lbls, note, parents)
      PROVE  Untouched(c)
  <2>1. c # id /\ cards'[c] = cards[c]
    BY <1>3 DEF CreateCard
  <2>2. notes'[c] = notes[c] /\ LabelsOn(c)' = LabelsOn(c)
    BY <1>1, <1>3, <2>1 DEF CreateCard, NoteOn, LabelsOn, TypeOK
  <2>3. lastEvent'[c] = EdgeLog({<<p, id>> : p \in parents})[c]
    BY <1>1, <1>3, <2>1 DEF CreateCard, EdgeLog
  <2> QED
    BY <1>1, <2>1, <2>2, <2>3 DEF Untouched, EdgeLog
<1>4. ASSUME NEW id \in CardId, LifecycleCall(id)
      PROVE  IF c = id THEN Called(c) /\ cards'[c].revision = cards[c].revision + 1
                       ELSE Untouched(c)
  <2>1. PICK row \in Row, action \in EventAction \ {"none", "delete"},
             noted \in BOOLEAN :
          Write(id, row, action, noted) /\ LifecycleRow(id, action, row)
    BY <1>1, <1>4, LifecycleCalled
  <2>2. /\ id \in Live
        /\ labels' = labels \/ labels' = labels \cup {<<id, HumanLabel>>}
        /\ UNCHANGED <<edges, statusDefs, typeDefs>>
    BY <1>1, <1>4, LifecycleWrites
  <2>3. /\ cards'[id] = row
        /\ \A d \in Live : d # id => cards'[d] = cards[d]
        /\ \A d \in CardId : d # id => notes'[d] = notes[d]
    BY <1>1, <2>1, <2>2, WriteTypes
  <2>4. lastEvent' = [lastEvent EXCEPT ![id] = Event(action, row.revision)]
    BY <2>1, <2>3 DEF Write, Log
  <2>5. CASE c = id
    <3>1. lastEvent'[c] = Event(action, cards'[c].revision)
      BY <1>1, <2>3, <2>4, <2>5
    <3>2. LifecycleRow(c, action, cards'[c])
      BY <2>1, <2>3, <2>5
    <3>3. cards'[c].revision = cards[c].revision + 1
      BY <1>1, <3>2, LifecycleFields
    <3> QED
      BY <2>2, <2>5, <3>1, <3>2, <3>3 DEF Called
  <2>6. CASE c # id
    BY <1>1, <2>2, <2>3, <2>4, <2>6 DEF Untouched, LabelsOn
  <2> QED
    BY <2>5, <2>6
<1>5. ASSUME NEW id \in CardId, DeleteCard(id)
      PROVE  Untouched(c)
  <2>1. c # id /\ cards'[c] = cards[c]
    BY <1>5 DEF DeleteCard, Live
  <2> QED
    BY <1>1, <1>5, <2>1 DEF DeleteCard, Untouched, LabelsOn, TypeOK
<1>6. ASSUME NEW p \in CardId, NEW d \in CardId, AddEdge(p, d) \/ RemoveEdge(p, d)
      PROVE  Untouched(c)
  BY <1>1, <1>6 DEF AddEdge, RemoveEdge, Untouched, LabelsOn
<1>7. ASSUME NEW id \in CardId, NEW in \in UpdateInput, UpdateCard(id, in)
      PROVE  IF c = id THEN Updated(c) /\ cards'[c].revision = cards[c].revision + 1
                       ELSE Untouched(c)
  <2>1. /\ cards' = [cards EXCEPT ![id] = UpdatedRow(id, in)]
        /\ labels' = (labels \cup {<<id, l>> : l \in in.addLabels})
                       \ {<<id, l>> : l \in in.removeLabels}
        /\ \E W : lastEvent' = [EdgeLog(W) EXCEPT
                     ![id] = Event("update", cards[id].revision + 1)]
        /\ UNCHANGED <<notes, statusDefs>>
    BY <1>7 DEF UpdateCard, UpdateWrites
  <2>2. PICK W : lastEvent' = [EdgeLog(W) EXCEPT
                   ![id] = Event("update", cards[id].revision + 1)]
    BY <2>1
  <2>3. CASE c = id
    <3>1. cards'[c] = UpdatedRow(c, in)
      BY <1>1, <2>1, <2>3 DEF TypeOK
    <3>2. lastEvent'[c] = Event("update", cards[c].revision + 1)
      BY <1>1, <2>2, <2>3 DEF EdgeLog
    <3>3. UpdatedRow(c, in).revision = cards[c].revision + 1
      BY <1>1 DEF UpdatedRow, ClaimedBy, Bumped, Row
    <3> QED
      BY <1>7, <2>1, <2>3, <3>1, <3>2, <3>3 DEF Updated
  <2>4. CASE c # id
    <3>1. cards'[c] = cards[c] /\ LabelsOn(c)' = LabelsOn(c)
      BY <1>1, <2>1, <2>4 DEF TypeOK, LabelsOn
    <3>2. lastEvent'[c] = EdgeLog(W)[c]
      BY <1>1, <2>2, <2>4 DEF EdgeLog
    <3> QED
      BY <1>1, <2>1, <2>4, <3>1, <3>2 DEF Untouched, EdgeLog
  <2> QED
    BY <2>3, <2>4
<1>8. CASE \/ \E new \in StatusConfigs : ConfigSetStatus(new)
           \/ \E new \in SUBSET CustomType : ConfigSetTypes(new)
  BY <1>8 DEF ConfigSetStatus, ConfigSetTypes, Untouched, LabelsOn
<1> QED
  BY <1>2, <1>3, <1>4, <1>5, <1>6, <1>7, <1>8 DEF Next, LifecycleCall
\* A status a card has keeps its category, whatever becomes of status.custom.
LEMMA CategoriesKept ==
  ASSUME StoreInv, [Next]_vars, NEW c \in Live
  PROVE  statusCategory(statusDefs', cards[c].status) = Category(c)
<1>1. CASE statusDefs' = statusDefs
  BY <1>1 DEF Category
<1>2. ASSUME NEW new \in StatusConfigs, ConfigSetStatus(new)
      PROVE  statusCategory(statusDefs', cards[c].status) = Category(c)
  <2>1. KnownStatus(statusDefs, cards[c].status)
    BY DEF StoreInv, ReferentialIntegrity
  <2> QED
    BY <1>2, <2>1 DEF ConfigSetStatus, StatusesReplaceable, Category,
                      statusCategory, KnownStatus, StatusInUse
<1>3. (\E id \in CardId : LifecycleCall(id)) => statusDefs' = statusDefs
  BY LifecycleWrites DEF StoreInv
<1>4. statusDefs' = statusDefs \/ \E new \in StatusConfigs : ConfigSetStatus(new)
  BY <1>3 DEF Next, LifecycleCall, vars, CreateCard, DeleteCard, AddEdge,
              RemoveEdge, UpdateCard, UpdateWrites, ConfigSetTypes
<1> QED
  BY <1>1, <1>2, <1>4

\* What an UpdateCard call leaves in the row of c.
LEMMA UpdatedFields ==
  ASSUME StoreInv, NEW c \in Live, c \in Live', Updated(c)
  PROVE  /\ \/ cards'[c].status = cards[c].status
            \/ Category(c) = "active" /\ cards'[c].status = "in_progress"
            \/ categoryTransitionAllowed(
                 Category(c), statusCategory(statusDefs, cards'[c].status))
         /\ \/ cards'[c].assignee = cards[c].assignee
            \/ Category(c) = "active"
         /\ cards'[c].closed = cards[c].closed
<1>1. cards[c] \in Row
  BY DEF StoreInv, TypeOK
<1>2. PICK in \in UpdateInput : UpdateCard(c, in) /\ cards'[c] = UpdatedRow(c, in)
  BY DEF Updated
<1>3. in \in Update /\ (in.claim = Nobody \/ in.status = Keep)
  BY UpdateInputAssumption
<1>4. /\ UpdatedRow(c, in).closed = cards[c].closed
      /\ ~Claiming(c, in) => UpdatedRow(c, in).assignee = cards[c].assignee
      /\ UpdatedRow(c, in).status =
           IF in.status # Keep THEN in.status
           ELSE IF Claiming(c, in) THEN "in_progress" ELSE cards[c].status
  BY <1>1 DEF UpdatedRow, ClaimedBy, Bumped, Row
<1>5. Claiming(c, in) => Category(c) = "active"
  BY DEF Claiming
<1>6. in.status # Keep =>
        categoryTransitionAllowed(Category(c),
                                  statusCategory(statusDefs, in.status))
  BY <1>2 DEF UpdateCard, UpdateAllowed
<1> QED
  BY <1>2, <1>4, <1>5, <1>6

-----------------------------------------------------------------------------
(* What a step may never do.                                               *)

\* No status write, claim, deferral or redefinition of a custom status takes
\* a card out of the done categories: only reopening does.
THEOREM DoneIsSticky == Spec => LeaveDoneOnlyByReopen
<1>1. ASSUME StoreInv, [Next]_vars, NEW c \in CardId,
             Surviving(c), Done(c), ~Done(c)'
      PROVE  lastEvent'[c].action = "reopen" /\ cards'[c].assignee = Nobody
  <2>1. c \in Live /\ c \in Live' /\ Category(c) = "done" /\ cards[c] \in Row
    BY <1>1 DEF Surviving, Done, StoreInv, TypeOK
  <2>2. statusCategory(statusDefs', cards[c].status) = "done"
    BY <1>1, <2>1, CategoriesKept
  <2>3. cards'[c].status # cards[c].status
    BY <1>1, <2>2 DEF Done, Category
  <2>4. ~Untouched(c)
    BY <2>3 DEF Untouched
  <2>5. ~Updated(c)
    <3> SUFFICES ASSUME Updated(c) PROVE FALSE
      OBVIOUS
    <3>1. statusCategory(statusDefs, cards'[c].status) = "done"
      BY <1>1, <2>1, <2>3, UpdatedFields DEF categoryTransitionAllowed
    <3> QED
      BY <1>1, <3>1 DEF Updated, Done, Category
  <2>6. Called(c)
    BY <1>1, <2>1, <2>4, <2>5, StepOfCard
  <2>7. PICK action \in EventAction :
          /\ LifecycleRow(c, action, cards'[c])
          /\ lastEvent'[c] = Event(action, cards'[c].revision)
    BY <2>6 DEF Called
  <2>8. action = "reopen" /\ cards'[c].assignee = Nobody
    <3> DEFINE row == cards'[c]
    <3>1. LifecycleRow(c, action, row) /\ row.status # cards[c].status
      BY <2>3, <2>7
    <3> HIDE DEF row
    <3>2. action = "reopen" /\ row.assignee = Nobody
      BY <2>1, <3>1, LifecycleFields
    <3> QED
      BY <3>2 DEF row
  <2> QED
    BY <2>7, <2>8 DEF Event
<1>2. StoreInv /\ [Next]_vars =>
        [\A c \in CardId :
           Surviving(c) /\ Done(c) /\ ~Done(c)' =>
             /\ lastEvent'[c].action = "reopen"
             /\ cards'[c].assignee = Nobody]_vars
  BY <1>1
<1> QED
  BY <1>2, StoreInvariant, PTL DEF Spec, LeaveDoneOnlyByReopen

\* Nobody loses a wip card to another actor.
THEOREM ClaimsHeld == Spec => HolderKeepsClaim
<1>1. ASSUME StoreInv, [Next]_vars, NEW c \in CardId,
             Surviving(c), Category(c) = "wip"
      PROVE  \/ cards'[c].assignee = cards[c].assignee
             \/ cards'[c].assignee = Nobody /\ lastEvent'[c].action = "release"
  <2>1. c \in Live /\ c \in Live' /\ cards[c] \in Row
    BY <1>1 DEF Surviving, StoreInv, TypeOK
  <2>2. CASE Untouched(c)
    BY <2>2 DEF Untouched
  <2>3. CASE Updated(c)
    BY <1>1, <2>1, <2>3, UpdatedFields
  <2>4. CASE Called(c)
    <3>1. PICK action \in EventAction :
            /\ LifecycleRow(c, action, cards'[c])
            /\ lastEvent'[c] = Event(action, cards'[c].revision)
      BY <2>4 DEF Called
    <3>2. lastEvent'[c].action = action
      BY <3>1 DEF Event
    <3> DEFINE row == cards'[c]
    <3>3. LifecycleRow(c, action, row)
      BY <3>1
    <3> HIDE DEF row
    <3>4. \/ row.assignee = cards[c].assignee
          \/ row.assignee = Nobody /\ action = "release"
      BY <1>1, <2>1, <3>3, LifecycleFields
    <3> QED
      BY <3>2, <3>4 DEF row
  <2> QED
    BY <1>1, <2>1, <2>2, <2>3, <2>4, StepOfCard
<1>2. StoreInv /\ [Next]_vars =>
        [\A c \in CardId :
           Surviving(c) /\ Category(c) = "wip" =>
             \/ cards'[c].assignee = cards[c].assignee
             \/ cards'[c].assignee = Nobody /\ lastEvent'[c].action = "release"]_vars
  BY <1>1
<1> QED
  BY <1>2, StoreInvariant, PTL DEF Spec, HolderKeepsClaim

\* Setting status.custom reclassifies no card.
THEOREM CategoriesStable == Spec => ConfigKeepsCategories
<1>1. ASSUME StoreInv, [Next]_vars, statusDefs' # statusDefs, NEW c \in Live
      PROVE  Category(c)' = Category(c)
  <2>1. cards' = cards
    <3>1. (\E id \in CardId : LifecycleCall(id)) => statusDefs' = statusDefs
      BY <1>1, LifecycleWrites DEF StoreInv
    <3> QED
      BY <1>1, <3>1 DEF Next, LifecycleCall, vars, CreateCard, DeleteCard,
        AddEdge, RemoveEdge, UpdateCard, UpdateWrites, ConfigSetStatus,
        ConfigSetTypes
  <2> QED
    BY <1>1, <2>1, CategoriesKept DEF Category
<1>2. StoreInv /\ [Next]_vars =>
        [statusDefs' # statusDefs =>
           \A c \in Live : Category(c)' = Category(c)]_vars
  BY <1>1
<1> QED
  BY <1>2, StoreInvariant, PTL DEF Spec, ConfigKeepsCategories

\* A reader that sees a revision again sees the same row, notes and labels.
THEOREM RevisionsPinContent == Spec => RevisionPinsContent
<1>1. ASSUME StoreInv, [Next]_vars, NEW c \in CardId, Surviving(c)
      PROVE  \/ cards'[c].revision = cards[c].revision + 1
             \/ /\ cards'[c] = cards[c]
                /\ notes'[c] = notes[c]
                /\ {l \in labels' : l[1] = c} = {l \in labels : l[1] = c}
  BY <1>1, StepOfCard DEF Surviving, Untouched, LabelsOn
<1>2. StoreInv /\ [Next]_vars =>
        [\A c \in CardId :
           Surviving(c) =>
             \/ cards'[c].revision = cards[c].revision + 1
             \/ /\ cards'[c] = cards[c]
                /\ notes'[c] = notes[c]
                /\ {l \in labels' : l[1] = c} = {l \in labels : l[1] = c}]_vars
  BY <1>1
<1> QED
  BY <1>2, StoreInvariant, PTL DEF Spec, RevisionPinsContent

-----------------------------------------------------------------------------
(* Closing times and the audit trail.                                      *)

\* The cards a step adds are new: at revision 1, open, and logged.
LEMMA StepOfNewCard ==
  ASSUME StoreInv, [Next]_vars, NEW c \in Live', c \notin Live
  PROVE  /\ cards'[c].closed = FALSE
         /\ lastEvent'[c] = Event("create", cards'[c].revision)
<1>1. TypeOK /\ EdgesLive
  BY DEF StoreInv, ReferentialIntegrity, EdgesLive
<1>2. PICK id \in CardId, type \in Type, lbls \in SUBSET AllLabel,
           note \in Reasons, parents \in SUBSET CardId :
        CreateCard(id, type, lbls, note, parents)
  <2>1. CASE UNCHANGED vars
    BY <2>1 DEF vars, Live
  <2>2. ASSUME NEW id \in CardId, LifecycleCall(id) PROVE Live' = Live
    BY <1>1, <2>2, LifecycleWrites, WriteTypes
  <2>3. ASSUME NEW id \in CardId, DeleteCard(id) PROVE Live' \subseteq Live
    BY <2>3 DEF DeleteCard, Live
  <2>4. ASSUME NEW id \in CardId, NEW in \in UpdateInput, UpdateCard(id, in)
        PROVE  Live' = Live
    BY <1>1, <2>4, UpdateCardWrites
  <2>5. CASE \/ \E p, d \in CardId : AddEdge(p, d) \/ RemoveEdge(p, d)
             \/ \E new \in StatusConfigs : ConfigSetStatus(new)
             \/ \E new \in SUBSET CustomType : ConfigSetTypes(new)
    BY <2>5 DEF AddEdge, RemoveEdge, ConfigSetStatus, ConfigSetTypes, Live
  <2> QED
    BY <2>1, <2>2, <2>3, <2>4, <2>5 DEF Next, LifecycleCall
<1>3. c = id
  BY <1>2 DEF CreateCard, Live
<1>4. cards'[c] = NewRow(type) /\ c \in CardId
  BY <1>2, <1>3 DEF CreateCard
<1>5. lastEvent'[c] = Event("create", 1)
  BY <1>2, <1>3, <1>4 DEF CreateCard, EdgeLog
<1> QED
  BY <1>4, <1>5 DEF NewRow

\* No step leaves a closing time on a card that is not done.
LEMMA StepClosed ==
  ASSUME StoreInv, ClosedOnlyWhenDone, [Next]_vars
  PROVE  ClosedOnlyWhenDone'
<1> SUFFICES ASSUME NEW c \in Live', cards'[c].closed
             PROVE  Done(c)'
  BY DEF ClosedOnlyWhenDone
<1>1. c \in Live
  BY StepOfNewCard
<1>2. cards[c] \in Row /\ (cards[c].closed => Category(c) = "done")
  BY <1>1 DEF StoreInv, TypeOK, ClosedOnlyWhenDone, Done
<1>3. Category(c) = "done" /\ cards'[c].status = cards[c].status => Done(c)'
  BY <1>1, CategoriesKept DEF Done, Category
<1>4. cards'[c].status = "closed" => Done(c)'
  BY DEF Done, Category, statusCategory, BuiltinStatus, BuiltinStatusCategories
<1>5. CASE Untouched(c)
  BY <1>2, <1>3, <1>5 DEF Untouched
<1>6. CASE Updated(c)
  <2>1. Category(c) = "done"
    BY <1>1, <1>2, <1>6, UpdatedFields
  <2>2. \/ cards'[c].status = cards[c].status
        \/ categoryTransitionAllowed(
             Category(c), statusCategory(statusDefs, cards'[c].status))
    BY <1>1, <1>6, <2>1, UpdatedFields
  <2> QED
    BY <1>3, <1>6, <2>1, <2>2
    DEF Updated, Done, Category, categoryTransitionAllowed
<1>7. CASE Called(c)
  <2> DEFINE row == cards'[c]
  <2>1. PICK action : LifecycleRow(c, action, row)
    BY <1>7 DEF Called
  <2>2. row.closed
    OBVIOUS
  <2> HIDE DEF row
  <2>3. \/ row.status = "closed"
        \/ Category(c) = "done" /\ row.status = cards[c].status
    BY <1>1, <1>2, <2>1, <2>2, LifecycleFields
  <2> QED
    BY <1>3, <1>4, <2>3 DEF row
<1> QED
  BY <1>1, <1>5, <1>6, <1>7, StepOfCard

\* A closing time is only ever on a card that is done.
THEOREM ClosingTimes == Spec => []ClosedOnlyWhenDone
<1>1. Init => ClosedOnlyWhenDone
  BY DEF Init, ClosedOnlyWhenDone, Live
<1>2. StoreInv /\ ClosedOnlyWhenDone /\ [Next]_vars => ClosedOnlyWhenDone'
  BY StepClosed
<1> QED
  BY <1>1, <1>2, StoreInvariant, PTL DEF Spec

\* A step logs nothing for a card that does not exist after it, but the
\* tombstone of the one it deletes.
LEMMA StepOfDeadCard ==
  ASSUME StoreInv, [Next]_vars, NEW c \in CardId, c \notin Live'
  PROVE  \/ c \notin Live /\ lastEvent'[c] = lastEvent[c]
         \/ lastEvent'[c].action = "delete"
<1>1. /\ TypeOK /\ EdgesLive
      /\ lastEvent \in [CardId -> [action : EventAction, revision : Nat]]
  BY DEF StoreInv, ReferentialIntegrity, EdgesLive, TypeOK
<1>2. CASE UNCHANGED <<cards, lastEvent>>
  BY <1>2 DEF Live
<1>3. ASSUME NEW id \in CardId, NEW type \in Type, NEW lbls \in SUBSET AllLabel,
             NEW note \in Reasons, NEW parents \in SUBSET CardId,
             CreateCard(id, type, lbls, note, parents)
      PROVE  c \notin Live /\ lastEvent'[c] = lastEvent[c]
  <2>1. c # id /\ c \notin Live /\ c \notin parents
    BY <1>3 DEF CreateCard, Live
  <2> DEFINE E == {<<p, id>> : p \in parents}
  <2>2. lastEvent' = [EdgeLog(E) EXCEPT ![id] = Event("create", 1)]
    BY <1>3 DEF CreateCard
  <2>3. \A e \in E : c \notin {e[1], e[2]}
    BY <2>1
  <2> HIDE DEF E
  <2> QED
    BY <2>1, <2>2, <2>3 DEF EdgeLog
<1>4. ASSUME NEW id \in CardId, LifecycleCall(id)
      PROVE  c \notin Live /\ lastEvent'[c] = lastEvent[c]
  <2>1. PICK row \in Row, action \in EventAction, noted \in BOOLEAN :
          Write(id, row, action, noted)
    BY <1>1, <1>4, LifecycleWrites
  <2>2. id \in Live /\ Live' = Live
    BY <1>1, <1>4, <2>1, LifecycleWrites, WriteTypes
  <2> QED
    BY <1>1, <2>1, <2>2 DEF Write, Log
<1>5. ASSUME NEW id \in CardId, DeleteCard(id)
      PROVE  \/ c \notin Live /\ lastEvent'[c] = lastEvent[c]
             \/ lastEvent'[c].action = "delete"
  BY <1>1, <1>5 DEF DeleteCard, Live, Event
<1>6. ASSUME NEW p \in CardId, NEW d \in CardId, AddEdge(p, d) \/ RemoveEdge(p, d)
      PROVE  c \notin Live /\ lastEvent'[c] = lastEvent[c]
  <2>1. p \in Live /\ d \in Live
    BY <1>1, <1>6 DEF AddEdge, RemoveEdge, EdgesAllowed, EdgesLive
  <2> QED
    BY <1>6, <2>1 DEF AddEdge, RemoveEdge, Live
<1>7. ASSUME NEW id \in CardId, NEW in \in UpdateInput, UpdateCard(id, in)
      PROVE  c \notin Live /\ lastEvent'[c] = lastEvent[c]
  <2> DEFINE E1 == edges \cup {<<p, id>> : p \in in.addParents}
             E2 == E1 \ {<<p, id>> : p \in in.removeParents}
             M == {<<id, d>> : d \in in.addChildren}
             E3 == E2 \cup M
             E4 == E3 \ {<<id, d>> : d \in in.removeChildren}
             W == (E1 \ edges) \cup (E1 \ E2) \cup (E3 \ E2) \cup (E3 \ E4)
  <2>1. id \in Live /\ Live' = Live
    BY <1>1, <1>7, UpdateCardWrites
  <2>2. /\ EdgesAllowed(edges, {<<p, id>> : p \in in.addParents})
        /\ EdgesAllowed(E2, M)
        /\ lastEvent' = [EdgeLog(W) EXCEPT
                           ![id] = Event("update", cards[id].revision + 1)]
    BY <1>7 DEF UpdateCard, UpdateChecked, UpdateWrites, EdgesWithParents
  <2>3. \A e \in E1 \cup E3 : {e[1], e[2]} \subseteq Live
    BY <1>1, <2>2 DEF EdgesAllowed, EdgesLive
  <2>4. \A e \in W : c \notin {e[1], e[2]}
    BY <2>1, <2>3
  <2> HIDE DEF W
  <2> QED
    BY <2>1, <2>2, <2>4 DEF EdgeLog
<1>8. CASE \/ \E new \in StatusConfigs : ConfigSetStatus(new)
           \/ \E new \in SUBSET CustomType : ConfigSetTypes(new)
           \/ UNCHANGED vars
  BY <1>2, <1>8 DEF ConfigSetStatus, ConfigSetTypes, vars
<1> QED
  BY <1>3, <1>4, <1>5, <1>6, <1>7, <1>8 DEF Next, LifecycleCall

\* No step leaves the newest event of a card behind the card.
LEMMA StepAudit ==
  ASSUME StoreInv, AuditCurrent, [Next]_vars
  PROVE  AuditCurrent'
<1>1. ASSUME NEW c \in CardId, c \in Live'
      PROVE  /\ lastEvent'[c].action \notin {"none", "delete"}
             /\ lastEvent'[c].revision = cards'[c].revision
  <2>1. CASE c \notin Live
    <3>1. lastEvent'[c] = Event("create", cards'[c].revision)
      BY <1>1, <2>1, StepOfNewCard
    <3> QED
      BY <3>1 DEF Event
  <2>2. CASE c \in Live /\ Untouched(c)
    BY <2>2 DEF Untouched, AuditCurrent, Event
  <2>3. CASE c \in Live /\ Called(c)
    BY <2>3 DEF Called, Event
  <2>4. CASE c \in Live /\ Updated(c) /\ cards'[c].revision = cards[c].revision + 1
    BY <2>4 DEF Updated, Event
  <2>5. CASE c \in Live /\ Updated(c) /\ Untouched(c)
    BY <2>2, <2>5
  <2> QED
    BY <1>1, <2>1, <2>2, <2>3, <2>4, <2>5, StepOfCard
<1>2. ASSUME NEW c \in CardId, c \notin Live'
      PROVE  lastEvent'[c].action \in {"none", "delete"}
  BY <1>2, StepOfDeadCard DEF AuditCurrent
<1> QED
  BY <1>1, <1>2 DEF AuditCurrent

\* The newest event of a card tells its revision, or that it is gone.
THEOREM AuditTrail == Spec => []AuditCurrent
<1>1. Init => AuditCurrent
  <2> SUFFICES ASSUME Init, NEW c \in CardId
               PROVE  c \notin Live /\ lastEvent[c].action = "none"
    BY DEF AuditCurrent
  <2>1. Live = {}
    BY DEF Init, Live
  <2> QED
    BY <2>1 DEF Init, NoEvent
<1>2. StoreInv /\ AuditCurrent /\ [Next]_vars => AuditCurrent'
  BY StepAudit
<1> QED
  BY <1>1, <1>2, StoreInvariant, PTL DEF Spec
=============================================================================
