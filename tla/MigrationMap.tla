---------------------------- MODULE MigrationMap ----------------------------
(***************************************************************************)
(* The plan bdd-migration makes of an export (tools/migrate: mapping.Map   *)
(* and model.Canonicalize): which records become cards, notes, edges,      *)
(* runes and memories, and which are skipped.                              *)
(*                                                                         *)
(* An export is a sequence of records. Titles, texts, times, priority and  *)
(* so on are one value, `text'; the rune key a role title would give is a  *)
(* field of its own. The hash of a value is the value. Some names stand    *)
(* for the lists of names the source has (built-in types, skipped types).  *)
(* Warnings are left out, and so are the definitions of types, which take  *)
(* the path of the definitions of statuses.                                *)
(***************************************************************************)
EXTENDS Naturals, Sequences, FiniteSets, SequencesExt

CONSTANTS
  SafeId,       \* the ids safeID accepts
  Status,       \* the status names of exports
  CustomTypes,  \* the types configured in the source workspace
  Configured,   \* the categories it reports for statuses, None where it has none
  Legacy,       \* and those its status.custom setting names
  None

BuiltInStatuses == {"open", "in_progress", "closed"}
BuiltInTypes    == {"task", "bug"}
SkippedTypes    == {"gate", "molecule"}

ASSUME MapAssumption ==
  /\ BuiltInStatuses \subseteq Status
  /\ None \notin SafeId
  /\ {Configured, Legacy} \subseteq [Status -> {"active", "wip", "frozen", "done", None}]

MapError == [error |-> TRUE]

-----------------------------------------------------------------------------
(* Definition records add to the configuration, in their order; one that   *)
(* contradicts it is an error.                                             *)

CategoryIn(categories, name) ==
  IF categories[name] # None THEN categories[name] ELSE Legacy[name]

Define(categories, r) ==
  IF categories = MapError \/ r.kind # "status" THEN categories
  ELSE LET category == IF r.category # None THEN r.category
                       ELSE CategoryIn(categories, r.name)
       IN IF category = None THEN categories
          ELSE IF categories[r.name] \notin {None, category} THEN MapError
          ELSE [categories EXCEPT ![r.name] = category]

Categories(s) == FoldLeft(Define, Configured, s)

Category(s, name) == CategoryIn(Categories(s), name)

-----------------------------------------------------------------------------
(* Roles become runes.                                                     *)

IsRole(r) == r.kind = "issue" /\ r.id \in SafeId /\ r.type = "role" /\ r.key # None

ConflictingRoleIDs(s) ==
  {r.id : r \in {x \in ToSet(s) : IsRole(x)
                   /\ \E y \in ToSet(s) : IsRole(y) /\ y.id = x.id /\ y.key # x.key}}

\* Of several roles with one key the first is taken.
Roles(s) ==
  LET role(i) == IsRole(s[i]) /\ s[i].id \notin ConflictingRoleIDs(s)
  IN {s[i] : i \in {j \in DOMAIN s :
                      role(j) /\ \A h \in 1..(j - 1) : role(h) => s[h].key # s[j].key}}

PlannedRunes(s) ==
  [legacy \in {r.id : r \in Roles(s)} |->
     LET r == CHOOSE x \in Roles(s) : x.id = legacy
     IN [key |-> r.key, text |-> r.text, enabled |-> r.status \notin {"closed", "done"}]]

-----------------------------------------------------------------------------
(* Other issues of a known type and status become cards.                   *)

BecomesCard(s, r) ==
  /\ r.kind = "issue"
  /\ r.id \in SafeId
  /\ r.type \in (BuiltInTypes \cup CustomTypes) \ (SkippedTypes \cup {"role"})
  /\ r.status \in BuiltInStatuses \/ Category(s, r.status) # None

Issues(s) == {r \in ToSet(s) : BecomesCard(s, r)}

\* All of them are in the plan, several of one name included. When these are
\* the same they come to one; when they differ, no import will verify them all.
ByName(named) ==
  [name \in {x[1] : x \in named} |-> (CHOOSE x \in named : x[1] = name)[2]]

Disputed(named) ==
  {x[1] : x \in {y \in named : \E z \in named : z[1] = y[1] /\ z[2] # y[2]}}

CardRecords(s) ==
  {<<r.id, [text |-> r.text, status |-> r.status, worktree |-> r.worktree,
            labels |-> r.labels]>> : r \in Issues(s)}

PlannedCards(s) == ByName(CardRecords(s))

\* A note's key is stable: that of the comment, or the digest of the text.
NoteRecords(s) ==
  UNION {{<<c.key, [card |-> r.id, body |-> c.body]>> : c \in r.comments} : r \in Issues(s)}

PlannedNotes(s) == ByName(NoteRecords(s))

\* Of every issue with the id of a card.
PlannedEdges(s) ==
  LET imported == {r.id : r \in Issues(s)}
      owners == {r \in ToSet(s) : r.kind = "issue" /\ r.id \in imported}
  IN UNION {{<<d.on, r.id>> : d \in {x \in r.deps : x.kind = "blocks" /\ x.on \in imported}} :
              r \in owners}

MemoryRecords(s) ==
  {<<r.key, [body |-> r.text, by |-> r.actor, created |-> r.created]>> :
     r \in {x \in ToSet(s) : x.kind = "memory" /\ x.key # None}}

PlannedMemories(s) == ByName(MemoryRecords(s))

\* Custom statuses that a record defines or a card has.
PlannedStatuses(s) ==
  LET named == {r.name : r \in {x \in ToSet(s) : x.kind = "status"}}
               \cup {r.status : r \in Issues(s)}
  IN [n \in {x \in named \ BuiltInStatuses : Category(s, x) # None} |-> Category(s, n)]

\* A graph has no cycle: every set of nodes has one with no parent in it.
Acyclic(edges) ==
  \A nodes \in (SUBSET UNION {{e[1], e[2]} : e \in edges}) \ {{}} :
    \E n \in nodes : \A p \in nodes : <<p, n>> \notin edges

Plan(s) ==
  IF Categories(s) = MapError THEN MapError
  ELSE IF ~Acyclic(PlannedEdges(s)) THEN MapError
  ELSE [statuses |-> PlannedStatuses(s), cards |-> PlannedCards(s), notes |-> PlannedNotes(s),
        edges |-> PlannedEdges(s), runes |-> PlannedRunes(s), memories |-> PlannedMemories(s),
        disputed |-> [cards |-> Disputed(CardRecords(s)), notes |-> Disputed(NoteRecords(s)),
                      memories |-> Disputed(MemoryRecords(s))]]
=============================================================================
