------------------------------ MODULE CardRules ------------------------------
(***************************************************************************)
(* The pure rules every card operation of bdd is written with: status      *)
(* categories and the transitions between them, the row an INSERT or an    *)
(* UPDATE of the cards table produces, and reachability in the blocking    *)
(* graph.  Nothing here has state; CardStore and CardTx use it.            *)
(*                                                                         *)
(* Data is abstracted to what the rules tell apart: a timestamp column is  *)
(* "set" or not, the six built-in types are one value, text columns are    *)
(* left out.                                                               *)
(***************************************************************************)
EXTENDS Naturals

CONSTANTS
  CardId,        \* the ids CreateCard may draw
  Actor,         \* non-empty actor names
  Nobody,        \* the empty assignee
  CustomStatus,  \* names a workspace may define through status.custom
  CustomType     \* names a workspace may define through types.custom

ASSUME NobodyAssumption == Nobody \notin Actor

Categories == {"active", "wip", "done", "frozen"}

\* The six statuses compiled into the library, with their categories.
BuiltinStatusCategories ==
  [open            |-> "active",
   in_progress     |-> "wip",
   awaiting_review |-> "wip",
   blocked         |-> "frozen",
   deferred        |-> "frozen",
   closed          |-> "done"]

BuiltinStatus ==
  {"open", "in_progress", "awaiting_review", "blocked", "deferred", "closed"}

\* status.custom refuses a built-in name.
ASSUME CustomStatusAssumption == CustomStatus \cap BuiltinStatus = {}

Status == BuiltinStatus \cup CustomStatus

\* "built_in" stands for any of the six built-in types: none of them can be
\* removed, and no rule below depends on which one a card has.
BuiltinType == "built_in"

ASSUME CustomTypeAssumption == BuiltinType \notin CustomType

Type == CustomType \cup {BuiltinType}

-----------------------------------------------------------------------------
(* Status categories.  defs holds the custom rows of status_definitions, a *)
(* function from the defined custom names to their categories.             *)

KnownStatus(defs, s) == s \in BuiltinStatus \cup DOMAIN defs

statusCategory(defs, s) ==
  IF s \in BuiltinStatus THEN BuiltinStatusCategories[s] ELSE defs[s]

\* MUTANT of categoryTransitionAllowed: done is not sticky.
anyTransitionAllowed(from, to) == from \in Categories /\ to \in Categories

categoryTransitionAllowed(from, to) == from = to \/ from # "done"

\* What claiming needs of a row in category cat: an active card, whoever its
\* assignee, is taken; a wip card only by the actor who already holds it.
Claimable(cat, row, actor) ==
  \/ cat = "active"
  \/ cat = "wip" /\ row.assignee = actor

-----------------------------------------------------------------------------
(* Rows of the cards table.                                                *)

Row == [status   : Status,
        type     : Type,
        assignee : Actor \cup {Nobody},
        started  : BOOLEAN,
        closed   : BOOLEAN,
        deferred : BOOLEAN,      \* defer_until is not NULL
        revision : Nat \ {0}]

\* MUTANT of NewRow: the revision starts at 0.
NewRowFromZero(type) ==
  [status |-> "open", type |-> type, assignee |-> Nobody, started |-> FALSE,
   closed |-> FALSE, deferred |-> FALSE, revision |-> 0]

NewRow(type) ==
  [status |-> "open", type |-> type, assignee |-> Nobody, started |-> FALSE,
   closed |-> FALSE, deferred |-> FALSE, revision |-> 1]

Bumped(row) == [row EXCEPT !.revision = @ + 1]

ClaimedBy(row, actor) ==
  [Bumped(row) EXCEPT !.status = "in_progress", !.assignee = actor,
                      !.started = TRUE]

Closed(row) == [Bumped(row) EXCEPT !.status = "closed", !.closed = TRUE]

Released(row) ==
  [Bumped(row) EXCEPT !.status = "open", !.assignee = Nobody,
                      !.started = FALSE]

Reopened(row) ==
  [Bumped(row) EXCEPT !.status = "open", !.assignee = Nobody,
                      !.started = FALSE, !.closed = FALSE]

Deferred(row, until) ==
  [Bumped(row) EXCEPT !.status = "deferred", !.deferred = until]

-----------------------------------------------------------------------------
(* The blocking graph: an edge <<p, c>> says p must be done before c.      *)

Edge == CardId \X CardId

\* The rows of the recursive query of wouldCreateCycle: the least set that
\* holds the children of c and, with a card, its children.
Descendants(E, c) ==
  {d \in CardId :
     \A S \in SUBSET CardId :
       (\A e \in E : e[1] = c \/ e[1] \in S => e[2] \in S) => d \in S}

\* MUTANT of wouldCreateCycle: it walks from the wrong end.
cycleFromParent(E, parent, child) == child \in Descendants(E, parent)

wouldCreateCycle(E, parent, child) == parent \in Descendants(E, child)

\* No set of cards blocks itself: each non-empty set has a card none of
\* whose parents is in the set.  For a finite graph this is the absence of
\* a cycle.
Acyclic(E) ==
  \A S \in SUBSET CardId :
    S # {} => \E c \in S : \A p \in S : <<p, c>> \notin E
=============================================================================
