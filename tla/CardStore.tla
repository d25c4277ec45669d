------------------------------ MODULE CardStore ------------------------------
(***************************************************************************)
(* The card half of a bdd workspace as its callers may think of it: every  *)
(* library call is one atomic step on the database.  (CardTx shows what    *)
(* the SQLite transactions underneath add to this.)  A call that returns   *)
(* an error, or that the code treats as an idempotent no-op, leaves the    *)
(* database as it was and is not a step here: its condition is what the    *)
(* guard of the action excludes.                                           *)
(***************************************************************************)
EXTENDS CardRules

CONSTANTS
  Label,        \* labels callers pass
  Reasons,      \* does a call carry a reason or note? a subset of BOOLEAN
  UpdateInput,  \* the arguments UpdateCard is called with
  Keep,         \* "field not supplied" in an UpdateCard call
  MaxRevision   \* bound: no card is taken past this revision

VARIABLES
  cards,       \* table cards: a function from the live ids to their rows
  edges,       \* table card_edges: <<parent, child>>
  labels,      \* table labels: <<card, label>>
  notes,       \* table notes: how many rows each id has
  lastEvent,   \* table events: the newest row of each card id
  statusDefs,  \* the custom rows of table status_definitions
  typeDefs     \* the custom rows of table type_definitions

vars == <<cards, edges, labels, notes, lastEvent, statusDefs, typeDefs>>

HumanLabel == "human"
AllLabel == Label \cup {HumanLabel}

Update ==
  [status : Status \cup {Keep}, type : Type \cup {Keep},
   claim : Actor \cup {Nobody},   \* Nobody: Claim is not set
   fields : BOOLEAN,              \* some other scalar field is supplied
   addLabels : SUBSET AllLabel, removeLabels : SUBSET AllLabel,
   addParents : SUBSET CardId, removeParents : SUBSET CardId,
   addChildren : SUBSET CardId, removeChildren : SUBSET CardId]

\* validateUpdateCard: an explicit status and a claim exclude each other.
ASSUME UpdateInputAssumption ==
  /\ UpdateInput \subseteq Update
  /\ \A in \in UpdateInput : in.claim = Nobody \/ in.status = Keep

ASSUME KeepAssumption == Keep \notin Status \cup Type
ASSUME ReasonsAssumption == Reasons \subseteq BOOLEAN
ASSUME MaxRevisionAssumption == MaxRevision \in Nat

NoEvent == [action |-> "none", revision |-> 0]

EventAction == {"none", "create", "update", "claim", "close", "release",
                "reopen", "defer", "human", "note", "delete", "edge"}

Live == DOMAIN cards

Category(c) == statusCategory(statusDefs, cards[c].status)

TypeDefined(t) == t = BuiltinType \/ t \in typeDefs

\* A write to the row of a live card, within the bound.
Writable(id) == id \in Live /\ cards[id].revision < MaxRevision

\* Notes a call appends to id when it carries a reason.
NoteOn(id, reason) == notes' = IF reason THEN [notes EXCEPT ![id] = @ + 1]
                                         ELSE notes

\* The event a call writes for id itself, at the revision it leaves.
Event(action, revision) == [action |-> action, revision |-> revision]

\* MUTANT of Log: the event carries the revision read before the UPDATE.
LogBeforeBump(id, action) ==
  lastEvent' = [lastEvent EXCEPT ![id] = Event(action, cards[id].revision)]

Log(id, action) ==
  lastEvent' = [lastEvent EXCEPT ![id] = Event(action, cards'[id].revision)]

\* The effect shared by the lifecycle calls: the row of id becomes row, the
\* reason (if any) a note, and one event records it.
Write(id, row, action, reason) ==
  /\ cards' = [cards EXCEPT ![id] = row]
  /\ NoteOn(id, reason)
  /\ Log(id, action)

\* The "edge" events of a call whose edge writes are E: both ends of each
\* are logged at the revision they have, which an edge does not change.
EdgeLog(E) ==
  [c \in CardId |->
     IF \E e \in E : c \in {e[1], e[2]} THEN Event("edge", cards'[c].revision)
                                        ELSE lastEvent[c]]

-----------------------------------------------------------------------------
Init ==
  /\ cards = [c \in {} |-> NewRow(BuiltinType)]
  /\ edges = {}
  /\ labels = {}
  /\ notes = [c \in CardId |-> 0]
  /\ lastEvent = [c \in CardId |-> NoEvent]
  /\ statusDefs = [s \in {} |-> "active"]
  /\ typeDefs = {}

\* insertCardRow draws random ids until one is unused, so id is any unused
\* one, that of a deleted card included.  Every parent must exist.
CreateCard(id, type, lbls, note, parents) ==
  /\ id \notin Live
  /\ TypeDefined(type)
  /\ parents \subseteq Live
  /\ cards' = [c \in Live \cup {id} |->
                 IF c = id THEN NewRow(type) ELSE cards[c]]
  /\ edges' = edges \cup {<<p, id>> : p \in parents}
  /\ labels' = labels \cup {<<id, l>> : l \in lbls}
  /\ NoteOn(id, note)
  /\ lastEvent' = [EdgeLog({<<p, id>> : p \in parents})
                     EXCEPT ![id] = Event("create", 1)]
  /\ UNCHANGED <<statusDefs, typeDefs>>

\* MUTANT of ClaimCard: a wip card may be claimed too.
ClaimCardFromWip(id, actor) ==
  /\ Writable(id)
  /\ Category(id) \in {"active", "wip"}
  /\ Write(id, ClaimedBy(cards[id], actor), "claim", FALSE)
  /\ UNCHANGED <<edges, labels, statusDefs, typeDefs>>

ClaimCard(id, actor) ==
  /\ Writable(id)
  /\ Category(id) = "active"
  /\ Write(id, ClaimedBy(cards[id], actor), "claim", FALSE)
  /\ UNCHANGED <<edges, labels, statusDefs, typeDefs>>

\* On a done card only a reason is recorded; without one nothing happens.
CloseCard(id, reason) ==
  /\ Writable(id)
  /\ Category(id) # "done" \/ reason
  /\ Write(id,
           IF Category(id) # "done" THEN Closed(cards[id])
                                    ELSE Bumped(cards[id]),
           "close", reason)
  /\ UNCHANGED <<edges, labels, statusDefs, typeDefs>>

\* Releasing a clean open card is a no-op, any other card an error.
ReleaseCard(id, reason) ==
  /\ Writable(id)
  /\ Category(id) = "wip"
  /\ Write(id, Released(cards[id]), "release", reason)
  /\ UNCHANGED <<edges, labels, statusDefs, typeDefs>>

ReopenCard(id) ==
  /\ Writable(id)
  /\ Category(id) = "done"
  /\ Write(id, Reopened(cards[id]), "reopen", FALSE)
  /\ UNCHANGED <<edges, labels, statusDefs, typeDefs>>

\* MUTANT of DeferCard: done cards are not refused.
DeferAnyCard(id, until) ==
  /\ Writable(id)
  /\ Write(id, Deferred(cards[id], until), "defer", FALSE)
  /\ UNCHANGED <<edges, labels, statusDefs, typeDefs>>

DeferCard(id, until) ==
  /\ Writable(id)
  /\ Category(id) # "done"
  /\ Write(id, Deferred(cards[id], until), "defer", FALSE)
  /\ UNCHANGED <<edges, labels, statusDefs, typeDefs>>

\* MUTANT of HumanCard: the label is inserted, the row is not updated.
HumanCardNoBump(id, reason) ==
  /\ Writable(id)
  /\ labels' = labels \cup {<<id, HumanLabel>>}
  /\ Write(id, cards[id], "human", reason)
  /\ UNCHANGED <<edges, statusDefs, typeDefs>>

HumanCard(id, reason) ==
  /\ Writable(id)
  /\ labels' = labels \cup {<<id, HumanLabel>>}
  /\ Write(id, Bumped(cards[id]), "human", reason)
  /\ UNCHANGED <<edges, statusDefs, typeDefs>>

AddNote(id) ==
  /\ Writable(id)
  /\ Write(id, Bumped(cards[id]), "note", TRUE)
  /\ UNCHANGED <<edges, labels, statusDefs, typeDefs>>

\* MUTANT of EdgesWithout: only the edges to the children go.
EdgesFromGone(id) == {e \in edges : e[1] # id}

\* The edges left when the row of id is deleted (ON DELETE CASCADE both ways).
EdgesWithout(id) == {e \in edges : id \notin {e[1], e[2]}}

\* Deleting the row cascades to the labels, notes and edges of the card; its
\* parents and children are not written.
DeleteCard(id) ==
  /\ id \in Live
  /\ cards' = [c \in Live \ {id} |-> cards[c]]
  /\ edges' = EdgesWithout(id)
  /\ labels' = {l \in labels : l[1] # id}
  /\ notes' = [notes EXCEPT ![id] = 0]
  /\ lastEvent' = [lastEvent EXCEPT
                     ![id] = Event("delete", cards[id].revision)]
  /\ UNCHANGED <<statusDefs, typeDefs>>

-----------------------------------------------------------------------------
(* Edges.  Within one UpdateCard the code inserts edges one by one, each   *)
(* checked against the graph the previous ones left.  Edges into (out of)  *)
(* one card do not change what is reachable from (what reaches) it, so the *)
(* checks may all be made against the graph before the first of them.      *)

\* addEdgeTx for each edge of N: no self-edge, both cards exist, and an edge
\* that is not there yet closes no cycle.
EdgesAllowed(E, N) ==
  \A e \in N : /\ e[1] # e[2]
               /\ {e[1], e[2]} \subseteq Live
               /\ e \in E \/ ~wouldCreateCycle(E, e[1], e[2])

AddEdge(p, c) ==
  /\ EdgesAllowed(edges, {<<p, c>>})
  /\ <<p, c>> \notin edges
  /\ edges' = edges \cup {<<p, c>>}
  /\ lastEvent' = [x \in CardId |->
                     IF x \in {p, c} THEN Event("edge", cards[x].revision)
                                     ELSE lastEvent[x]]
  /\ UNCHANGED <<cards, labels, notes, statusDefs, typeDefs>>

RemoveEdge(p, c) ==
  /\ <<p, c>> \in edges
  /\ edges' = edges \ {<<p, c>>}
  /\ lastEvent' = [x \in CardId |->
                     IF x \in {p, c} THEN Event("edge", cards[x].revision)
                                     ELSE lastEvent[x]]
  /\ UNCHANGED <<cards, labels, notes, statusDefs, typeDefs>>

-----------------------------------------------------------------------------
(* UpdateCard.                                                             *)

\* The call claims the card: it asks to, and the card is active.
Claiming(id, in) == in.claim # Nobody /\ Category(id) = "active"

\* Does the call supply anything besides a claim?
ChangesMore(in) ==
  \/ in.fields \/ in.status # Keep \/ in.type # Keep
  \/ in.addLabels \cup in.removeLabels # {}
  \/ in.addParents \cup in.removeParents # {}
  \/ in.addChildren \cup in.removeChildren # {}

UpdatedRow(id, in) ==
  LET base == IF Claiming(id, in) THEN ClaimedBy(cards[id], in.claim)
                                  ELSE Bumped(cards[id])
  IN  [base EXCEPT !.status = IF in.status = Keep THEN @ ELSE in.status,
                   !.type   = IF in.type = Keep THEN @ ELSE in.type]

\* What a call finds out before it writes: the status and the claim it asks
\* for suit the card.  A repeated claim that supplies nothing else is a no-op.
UpdateAllowed(id, in) ==
  /\ Writable(id)
  /\ in.status # Keep =>
       /\ KnownStatus(statusDefs, in.status)
       /\ categoryTransitionAllowed(Category(id),
                                    statusCategory(statusDefs, in.status))
  /\ in.claim # Nobody => Claimable(Category(id), cards[id], in.claim)
  /\ in.claim = Nobody \/ Claiming(id, in) \/ ChangesMore(in)

\* The edges with the parents of the call added and removed.
EdgesWithParents(id, in) ==
  (edges \cup {<<p, id>> : p \in in.addParents})
    \ {<<p, id>> : p \in in.removeParents}

\* What is checked as it writes: the type by its foreign key, each edge by
\* addEdgeTx.
UpdateChecked(id, in) ==
  /\ in.type # Keep => TypeDefined(in.type)
  /\ EdgesAllowed(edges, {<<p, id>> : p \in in.addParents})
  /\ EdgesAllowed(EdgesWithParents(id, in), {<<id, c>> : c \in in.addChildren})

\* The row, then labels added and removed, parents added and removed, children
\* added and removed.
UpdateWrites(id, in) ==
  LET E1 == edges \cup {<<p, id>> : p \in in.addParents}
      E2 == EdgesWithParents(id, in)
      E3 == E2 \cup {<<id, c>> : c \in in.addChildren}
      E4 == E3 \ {<<id, c>> : c \in in.removeChildren}
      written == (E1 \ edges) \cup (E1 \ E2) \cup (E3 \ E2) \cup (E3 \ E4)
  IN
  /\ cards' = [cards EXCEPT ![id] = UpdatedRow(id, in)]
  /\ labels' = (labels \cup {<<id, l>> : l \in in.addLabels})
                 \ {<<id, l>> : l \in in.removeLabels}
  /\ edges' = E4
  /\ lastEvent' = [EdgeLog(written)
                     EXCEPT ![id] = Event("update", cards[id].revision + 1)]
  /\ UNCHANGED <<notes, statusDefs, typeDefs>>

\* One call, all or nothing.
UpdateCard(id, in) ==
  UpdateAllowed(id, in) /\ UpdateChecked(id, in) /\ UpdateWrites(id, in)

-----------------------------------------------------------------------------
(* ConfigSet and ConfigUnset of the two keys with side effects.  Unsetting *)
(* is setting to the empty list.                                           *)

StatusInUse(s) == \E c \in Live : cards[c].status = s
TypeInUse(t) == \E c \in Live : cards[c].type = t

\* MUTANT of ConfigSetStatus: only removals are checked, not new categories.
ConfigSetStatusReclassify(new) ==
  /\ \A s \in DOMAIN statusDefs : StatusInUse(s) => s \in DOMAIN new
  /\ statusDefs' = new
  /\ UNCHANGED <<cards, edges, labels, notes, lastEvent, typeDefs>>

\* A status or type that a card has is neither removed nor reclassified.
StatusesReplaceable(new) ==
  \A s \in DOMAIN statusDefs :
    StatusInUse(s) => s \in DOMAIN new /\ new[s] = statusDefs[s]

TypesReplaceable(new) == \A t \in typeDefs \ new : ~TypeInUse(t)

\* status.custom := new, a function from the listed names to categories.
ConfigSetStatus(new) ==
  /\ StatusesReplaceable(new)
  /\ statusDefs' = new
  /\ UNCHANGED <<cards, edges, labels, notes, lastEvent, typeDefs>>

\* types.custom := new, a set of names.
ConfigSetTypes(new) ==
  /\ TypesReplaceable(new)
  /\ typeDefs' = new
  /\ UNCHANGED <<cards, edges, labels, notes, lastEvent, statusDefs>>

-----------------------------------------------------------------------------
StatusConfigs == UNION {[D -> Categories] : D \in SUBSET CustomStatus}

Next ==
  \/ \E id \in CardId, type \in Type, lbls \in SUBSET AllLabel,
        note \in Reasons, parents \in SUBSET CardId :
       CreateCard(id, type, lbls, note, parents)
  \/ \E id \in CardId, actor \in Actor : ClaimCard(id, actor)
  \/ \E id \in CardId, reason \in Reasons : CloseCard(id, reason)
  \/ \E id \in CardId, reason \in Reasons : ReleaseCard(id, reason)
  \/ \E id \in CardId : ReopenCard(id)
  \/ \E id \in CardId, until \in BOOLEAN : DeferCard(id, until)
  \/ \E id \in CardId, reason \in Reasons : HumanCard(id, reason)
  \/ \E id \in CardId : AddNote(id)
  \/ \E id \in CardId : DeleteCard(id)
  \/ \E p, c \in CardId : AddEdge(p, c)
  \/ \E p, c \in CardId : RemoveEdge(p, c)
  \/ \E id \in CardId, in \in UpdateInput : UpdateCard(id, in)
  \/ \E new \in StatusConfigs : ConfigSetStatus(new)
  \/ \E new \in SUBSET CustomType : ConfigSetTypes(new)

Spec == Init /\ [][Next]_vars

-----------------------------------------------------------------------------
(* Queries.                                                                *)

Done(c) == Category(c) = "done"

Parents(c) == {p \in CardId : <<p, c>> \in edges}

\* The predicate of ReadyCards.
Ready(c) ==
  /\ c \in Live
  /\ Category(c) = "active"
  /\ cards[c].assignee = Nobody
  /\ <<c, HumanLabel>> \notin labels
  /\ \A p \in Parents(c) : Done(p)

-----------------------------------------------------------------------------
(* Invariants.                                                             *)

\* Every table holds rows of its type.
TypeOK ==
  /\ Live \subseteq CardId
  /\ cards \in [Live -> Row]
  /\ edges \subseteq Edge
  /\ labels \subseteq CardId \X AllLabel
  /\ notes \in [CardId -> Nat]
  /\ lastEvent \in [CardId -> [action : EventAction, revision : Nat]]
  /\ DOMAIN statusDefs \subseteq CustomStatus
  /\ statusDefs \in [DOMAIN statusDefs -> Categories]
  /\ typeDefs \subseteq CustomType

\* Rows refer only to rows that exist: an edge, a label or a note belongs to
\* live cards, a card has a defined status and type.  The cascade of
\* DeleteCard and the in-use checks of ConfigSet keep this, across the reuse
\* of a deleted id.
ReferentialIntegrity ==
  /\ \A e \in edges : {e[1], e[2]} \subseteq Live
  /\ \A l \in labels : l[1] \in Live
  /\ \A c \in CardId \ Live : notes[c] = 0
  /\ \A c \in Live : /\ KnownStatus(statusDefs, cards[c].status)
                     /\ TypeDefined(cards[c].type)

\* No sequence of AddParent, AddChild, UpdateCard, CreateCard and DeleteCard
\* makes a card wait for itself.
BlockingGraphAcyclic == Acyclic(edges)

\* The workspace never gridlocks: as long as some card is not done, some card
\* that is not done has only finished parents, so the work can go on.
NoGridlock ==
  (\E c \in Live : ~Done(c)) =>
    \E c \in Live : ~Done(c) /\ \A p \in Parents(c) : p \in Live /\ Done(p)

\* A card that is not done has no closed_at: no path leaves done (update,
\* defer, a config change) and keeps the closing time.
ClosedOnlyWhenDone == \A c \in Live : cards[c].closed => Done(c)

\* The audit trail is never behind: the newest event of a live card carries
\* the card's revision, that of a deleted card is its tombstone.
AuditCurrent ==
  \A c \in CardId :
    IF c \in Live
    THEN /\ lastEvent[c].action \notin {"none", "delete"}
         /\ lastEvent[c].revision = cards[c].revision
    ELSE lastEvent[c].action \in {"none", "delete"}

-----------------------------------------------------------------------------
(* What a step may never do.                                               *)

\* Cards that exist before and after a step.
Surviving(c) == c \in Live /\ c \in Live'

\* Only ReopenCard takes a card out of the done categories, and it leaves the
\* card unassigned: no status write, claim, deferral or redefinition of a
\* custom status does.
LeaveDoneOnlyByReopen ==
  [][\A c \in CardId :
       Surviving(c) /\ Done(c) /\ ~Done(c)' =>
         /\ lastEvent'[c].action = "reopen"
         /\ cards'[c].assignee = Nobody]_vars

\* While a card is wip its assignee is never replaced by another: it changes
\* only by a release, which leaves it empty.  An unassigned wip card (put in
\* wip by a status write) gets no assignee either.
HolderKeepsClaim ==
  [][\A c \in CardId :
       Surviving(c) /\ Category(c) = "wip" =>
         \/ cards'[c].assignee = cards[c].assignee
         \/ cards'[c].assignee = Nobody /\ lastEvent'[c].action = "release"]_vars

\* Editing status.custom never changes the category of a card.
ConfigKeepsCategories ==
  [][statusDefs' # statusDefs =>
       \A c \in Live : Category(c)' = Category(c)]_vars

\* The row, labels and notes of a card change only together with its revision,
\* which goes up by one: a reader that sees the same revision sees the same
\* card.
RevisionPinsContent ==
  [][\A c \in CardId :
       Surviving(c) =>
         \/ cards'[c].revision = cards[c].revision + 1
         \/ /\ cards'[c] = cards[c]
            /\ notes'[c] = notes[c]
            /\ {l \in labels' : l[1] = c} = {l \in labels : l[1] = c}]_vars

=============================================================================
