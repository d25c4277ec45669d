---------------------------- MODULE MigrationSink ----------------------------
(***************************************************************************)
(* bdd-migration's import of a plan into a bdd database, and what users of *)
(* that database do between and during imports (tools/migrate/internal/    *)
(* bddsink).  A new database is built under a temporary name beside the    *)
(* destination and renamed once it has been verified; an existing one is   *)
(* changed in place, in one transaction, and verified inside it and, by    *)
(* the reads of the library, after it.                                     *)
(*                                                                         *)
(* One run at a time.  Its transaction is one action: CardTx is where      *)
(* transactions are taken apart.  Provenance is the migration.card and     *)
(* migration.note events; it outlives the card.                            *)
(***************************************************************************)
EXTENDS MigrationMap, FiniteSetsExt

CONSTANTS
  Exports,       \* the states of the source, each an export
  CardId, RuneKey, MemoryKey, Label,
  Begins,        \* the pairs of ids of which the first is longer and begins with the second
  HumanLabel,    \* the label that keeps a card for a human
  UserStatus,    \* the custom statuses that users of the database may define
  Native,        \* a text or a body that users of the database write
  NoWorktree,
  Absent,
  MaxImports,    \* bound on runs of bdd-migration
  MaxNative,     \* bound on what users of the database do
  MaxNotes,      \* bound on the ids of notes
  InitMeanwhile  \* whether bdd init may create the destination during a run

ASSUME SinkAssumption ==
  /\ HumanLabel \in Label
  /\ MaxImports \in Nat /\ MaxNative \in Nat /\ MaxNotes \in Nat
  /\ InitMeanwhile \in BOOLEAN

\* An export is finite, and neither its comments nor its memories are by Native.
\* Records of one name agree in what they leave out.
ASSUME ExportsAssumption ==
  \A s \in Exports :
    /\ s \in Seq(ToSet(s))
    /\ \A r \in ToSet(s) : r.kind = "issue" => IsFiniteSet(r.comments)
    /\ \A r \in ToSet(s) : r.kind = "issue" => \A c \in r.comments : c.key # Native
    /\ \A r \in ToSet(s) : r.kind = "memory" => r.actor # Native
    /\ \A q, r \in ToSet(s) :
         /\ q.kind = "issue" /\ r.kind = "issue" /\ q.id = r.id
              => (q.worktree = NoWorktree <=> r.worktree = NoWorktree)
         /\ q.kind = "memory" /\ r.kind = "memory" /\ q.key = r.key
              => (q.created = None <=> r.created = None)

VARIABLES
  dest,     \* the database at the destination, or Absent
  temp,     \* the one at the temporary name beside it, or Absent
  run,      \* the run of bdd-migration under way, or how the last one ended
  imports,  \* how many runs there were
  natives,  \* how much the users of the database did
  settled   \* the plan dest was last brought to, None if changed since (a ghost)

vars == <<dest, temp, run, imports, natives, settled>>

Empty == [x \in {} |-> None]
Without(f, x) == [y \in DOMAIN f \ {x} |-> f[y]]
With(f, x, v) == [y \in DOMAIN f \cup {x} |-> IF y = x THEN v ELSE f[y]]
Over(f, g)    == [x \in DOMAIN f \cup DOMAIN g |-> IF x \in DOMAIN f THEN f[x] ELSE g[x]]

NewDatabase ==
  [statuses |-> Empty, cards |-> Empty, cardProv |-> Empty, edges |-> {},
   notes |-> Empty, noteProv |-> Empty, runes |-> Empty, memories |-> Empty]

Idle(outcome) == [pc |-> "idle", outcome |-> outcome, overtaken |-> FALSE]

Init ==
  /\ dest \in {Absent, NewDatabase}
  /\ temp = Absent
  /\ run = Idle("none")
  /\ imports = 0
  /\ natives = 0
  /\ settled = None

-----------------------------------------------------------------------------
(* What a plan leaves out: records the destination owns.                   *)

DestinationOwned(db, c) == c \in DOMAIN db.cards \ DOMAIN db.cardProv

Accepted(db, plan) == {c \in DOMAIN plan.cards : ~DestinationOwned(db, c)}

\* The source's card, with the worktree of the row if the source names none.
EffectiveCard(db, v, c) ==
  IF c \in DOMAIN db.cards /\ v.worktree = NoWorktree
  THEN [v EXCEPT !.worktree = db.cards[c].worktree]
  ELSE v

\* A note that was imported before keeps the body it was imported with.
EffectiveNote(db, v, k) ==
  IF k \notin DOMAIN db.noteProv THEN v
  ELSE LET imported == db.noteProv[k]
       IN IF imported.hash = v THEN v
          ELSE IF imported.id \notin DOMAIN db.notes THEN None
          ELSE [card |-> db.notes[imported.id].card, body |-> db.notes[imported.id].body]

ImportedRunes(db, legacy) == {k \in DOMAIN db.runes : db.runes[k].legacy = legacy}

\* The key a role's rune is at: the title may have changed since.
RuneKeyOf(db, v, legacy) ==
  IF v.key \in DOMAIN db.runes \/ ImportedRunes(db, legacy) = {} THEN v.key
  ELSE CHOOSE k \in ImportedRunes(db, legacy) : TRUE

\* Those whose key nothing else is at.
AcceptedRunes(db, plan) ==
  {l \in DOMAIN plan.runes :
     LET key == RuneKeyOf(db, plan.runes[l], l)
     IN key \in DOMAIN db.runes => db.runes[key].legacy = l}

Prepared(db, plan) ==
  LET ok == Accepted(db, plan)
  IN [plan EXCEPT
        !.cards = [c \in ok |-> EffectiveCard(db, plan.cards[c], c)],
        !.notes = [k \in {x \in DOMAIN plan.notes : plan.notes[x].card \in ok} |->
                     EffectiveNote(db, plan.notes[k], k)],
        !.edges = {e \in plan.edges : e[1] \in ok /\ e[2] \in ok},
        !.runes = [l \in AcceptedRunes(db, plan) |->
                     [plan.runes[l] EXCEPT !.key = RuneKeyOf(db, plan.runes[l], l)]],
        \* Several comments of a key that is known are the one that was imported.
        !.disputed = [plan.disputed EXCEPT !.notes = @ \ DOMAIN db.noteProv]]

-----------------------------------------------------------------------------
(* The writes of the transaction.                                          *)

Projection(row) ==
  [text |-> row.text, status |-> row.status, worktree |-> row.worktree, labels |-> row.labels]

\* MUTANT: an updated card keeps the labels it had.
WrittenCardKeepsLabels(db, v, effective, c) ==
  IF c \notin DOMAIN db.cards THEN Over(effective, [rev |-> 1])
  ELSE Over([effective EXCEPT !.labels = @ \cup db.cards[c].labels],
            [rev |-> db.cards[c].rev + 1])

\* Whether the row still is what was imported; a worktree that the source does
\* not name is the destination's own.
\* MUTANT: a worktree the destination added counts as a difference.
ProjectionMatchesExactly(row, v) == Projection(row) = v

ProjectionMatches(row, v) ==
  [Projection(row) EXCEPT !.worktree = IF v.worktree = NoWorktree THEN NoWorktree ELSE @] = v

WrittenCard(db, v, effective, c) ==
  IF c \notin DOMAIN db.cards THEN Over(effective, [rev |-> 1])
  ELSE IF db.cardProv[c] = v /\ ProjectionMatches(db.cards[c], v) THEN db.cards[c]
  ELSE Over(effective, [rev |-> db.cards[c].rev + 1])

\* The id SQLite gives the next row.
LastNote(notes) == Max(DOMAIN notes \cup {0})
NextNote(notes) == LastNote(notes) + 1

InsertedNote(notes, note) == With(notes, NextNote(notes), note)

\* MUTANT: notes are inserted whenever the plan has them.
NewNotesAlways(db, effective) == DOMAIN effective.notes

NewNotes(db, effective) == DOMAIN effective.notes \ DOMAIN db.noteProv

\* Each of them is a row of its own, after those there are, in some order.
WithNotes(db, plan, effective) ==
  LET new == SetToSeq(NewNotes(db, effective))
      last == LastNote(db.notes)
      rows == [i \in (last + 1)..(last + Len(new)) |->
                 Over(effective.notes[new[i - last]], [from |-> new[i - last]])]
      owners == [k \in NewNotes(db, effective) |->
                   [id |-> CHOOSE i \in DOMAIN rows : rows[i].from = k, hash |-> plan.notes[k]]]
  IN [db EXCEPT !.notes = Over(@, rows), !.noteProv = Over(owners, @)]

Imported(db, e) == e[1] \in DOMAIN db.cardProv /\ e[2] \in DOMAIN db.cardProv

\* MUTANT: every edge the source does not have is removed.
ReconciledEdgesAll(db, effective) == effective.edges

ReconciledEdges(db, effective) ==
  effective.edges \cup {e \in db.edges : ~Imported(db, e)}

WrittenRune(db, v, l) ==
  LET new == [text |-> v.text, enabled |-> v.enabled, legacy |-> l]
  IN IF v.key \notin DOMAIN db.runes THEN Over(new, [rev |-> 1])
     ELSE LET old == db.runes[v.key]
          IN IF <<old.text, old.enabled, old.legacy>> = <<v.text, v.enabled, l>>
             THEN old
             ELSE Over(new, [rev |-> old.rev + 1])

\* Its author and its time are written once; a time that the source does not
\* have is that of the import.
WrittenMemory(db, v, k) ==
  IF k \notin DOMAIN db.memories
  THEN Over([v EXCEPT !.created = IF @ = None THEN Native ELSE @], [rev |-> 1])
  ELSE IF db.memories[k].body = v.body THEN db.memories[k]
  ELSE [db.memories[k] EXCEPT !.body = v.body, !.rev = @ + 1]

WrittenCards(db, plan, effective) ==
  [c \in DOMAIN effective.cards |-> WrittenCard(db, plan.cards[c], effective.cards[c], c)]

WrittenRunes(db, effective) ==
  [k \in {effective.runes[l].key : l \in DOMAIN effective.runes} |->
     LET l == CHOOSE x \in DOMAIN effective.runes : effective.runes[x].key = k
     IN WrittenRune(db, effective.runes[l], l)]

WrittenMemories(db, plan) ==
  [k \in DOMAIN plan.memories |-> WrittenMemory(db, plan.memories[k], k)]

Written(db, plan, effective) ==
  LET owners == [c \in DOMAIN effective.cards |-> plan.cards[c]]
      withCards == [db EXCEPT !.statuses = Over(plan.statuses, @),
                              !.cards = Over(WrittenCards(db, plan, effective), @),
                              !.cardProv = Over(owners, @)]
      withNotes == WithNotes(withCards, plan, effective)
  IN [withNotes EXCEPT !.edges = ReconciledEdges(withCards, effective),
                       !.runes = Over(WrittenRunes(db, effective), @),
                       !.memories = Over(WrittenMemories(db, plan), @)]

-----------------------------------------------------------------------------
(* What the transaction verifies before it commits.                        *)

Incompatible(db, plan) ==
  \E n \in DOMAIN db.statuses \cap DOMAIN plan.statuses : db.statuses[n] # plan.statuses[n]

NoteVerified(db, v, k) ==
  /\ k \in DOMAIN db.noteProv
  /\ LET i == db.noteProv[k].id
     IN i \in DOMAIN db.notes /\ db.notes[i].card = v.card /\ db.notes[i].body = v.body

MemoryVerified(db, v, k) ==
  LET row == db.memories[k]
  IN <<row.body, row.by>> = <<v.body, v.by>> /\ v.created \in {None, row.created}

\* The query walks from the parent of every edge until it is back there. It does
\* not enter an id that an id on its path, the root aside, is or begins with.
CycleFound(edges) ==
  LET nodes == UNION {{e[1], e[2]} : e \in edges}
  IN \E k \in 1..Cardinality(nodes) : \E path \in [0..k -> nodes] :
       /\ path[0] = path[k]
       /\ \A i \in 1..k : <<path[i - 1], path[i]>> \in edges
       /\ \A j \in 1..k : \A i \in 1..(j - 1) :
            path[i] # path[j] /\ <<path[i], path[j]>> \notin Begins

\* MUTANT: only the plan's own edges are searched for a cycle.
FindsCycleInPlan(db, effective) == CycleFound(effective.edges)

FindsCycle(db, effective) == CycleFound(db.edges)

\* Of two records of one name at most one is what was written.
Verified(db, effective) ==
  /\ effective.disputed.cards \cap DOMAIN effective.cards = {}
  /\ effective.disputed.notes \cap DOMAIN effective.notes = {}
  /\ effective.disputed.memories = {}
  /\ \A c \in DOMAIN effective.cards : Projection(db.cards[c]) = effective.cards[c]
  /\ \A k \in DOMAIN effective.notes : NoteVerified(db, effective.notes[k], k)
  /\ \A l \in DOMAIN effective.runes :
       LET v == effective.runes[l]
           r == db.runes[v.key]
       IN <<r.text, r.enabled, r.legacy>> = <<v.text, v.enabled, l>>
  /\ \A k \in DOMAIN effective.memories : MemoryVerified(db, effective.memories[k], k)
  /\ {e \in db.edges : Imported(db, e)} = effective.edges
  /\ ~FindsCycle(db, effective)

-----------------------------------------------------------------------------
(* One run of bdd-migration.                                               *)

\* MUTANT: a new database is built at the destination itself.
BuiltInPlace == "dest"

Target == IF dest = Absent THEN "temp" ELSE "dest"

PlanOf == [s \in Exports |-> Plan(s)]

Start(s) ==
  /\ run.pc = "idle"
  /\ imports < MaxImports
  /\ imports' = imports + 1
  /\ run' = IF PlanOf[s] = MapError THEN Idle("refused")
            ELSE [pc |-> IF dest = Absent THEN "init" ELSE "apply",
                  outcome |-> "none", overtaken |-> FALSE,
                  new |-> dest = Absent, target |-> Target, plan |-> PlanOf[s]]
  /\ UNCHANGED <<dest, temp, natives, settled>>

At(name) == IF name = "temp" THEN temp ELSE dest

\* The database run.target names becomes db.
Put(db) ==
  /\ temp' = IF run.target = "temp" THEN db ELSE temp
  /\ dest' = IF run.target = "dest" THEN db ELSE dest

\* What a crashed run left is removed first.
InitTemp ==
  /\ run.pc = "init"
  /\ Put(NewDatabase)
  /\ run' = [run EXCEPT !.pc = "apply"]
  /\ UNCHANGED <<imports, natives, settled>>

\* An error of a run that builds a new database removes it again.
Fails(outcome) ==
  /\ run' = [Idle(outcome) EXCEPT !.overtaken = run.overtaken]
  /\ temp' = IF run.new THEN Absent ELSE temp
  /\ UNCHANGED <<dest, imports, natives, settled>>

\* The reads the library makes of each card, note, rune and memory afterwards.
PublicReads(effective) ==
  LET over(S, kind) == SetToSeq({<<kind, x>> : x \in S})
      cards == SetToSeq(DOMAIN effective.cards)
  IN [i \in 1..(2 * Len(cards)) |->
        <<IF i % 2 = 1 THEN "card" ELSE "ready", cards[(i + 1) \div 2]>>]
     \o over(DOMAIN effective.notes, "note")
     \o over(DOMAIN effective.runes, "rune")
     \o over(DOMAIN effective.memories, "memory")

Apply ==
  /\ run.pc = "apply"
  /\ LET db == At(run.target)
         effective == Prepared(db, run.plan)
         written == Written(db, run.plan, effective)
         unknown == \E k \in DOMAIN effective.notes : effective.notes[k] = None
     IN IF unknown \/ Incompatible(db, run.plan) THEN Fails("rejected")
        ELSE IF ~Verified(written, effective) THEN Fails("rejected")
        ELSE /\ LastNote(written.notes) <= MaxNotes
             /\ Put(written)
             /\ run' = Over([run EXCEPT !.pc = "verify"],
                            [effective |-> effective, todo |-> PublicReads(effective)])
             /\ settled' = IF run.target = "dest" THEN run.plan ELSE settled
             /\ UNCHANGED <<imports, natives>>

BuiltInCategory == [open |-> "active", in_progress |-> "wip", closed |-> "done"]

CategoryAt(statuses, status) ==
  IF status \in BuiltInStatuses THEN BuiltInCategory[status] ELSE statuses[status]

\* ExplainReady of the library.
ReadyAt(db, c) ==
  /\ CategoryAt(db.statuses, db.cards[c].status) = "active"
  /\ HumanLabel \notin db.cards[c].labels
  /\ \A e \in db.edges : e[2] = c => CategoryAt(db.statuses, db.cards[e[1]].status) = "done"

\* expectedReady: only statuses and parents of the plan count.
ExpectedReady(effective, c) ==
  /\ CategoryAt(effective.statuses, effective.cards[c].status) = "active"
  /\ HumanLabel \notin effective.cards[c].labels
  /\ \A e \in effective.edges :
       e[2] = c => CategoryAt(effective.statuses, effective.cards[e[1]].status) = "done"

\* Whether one of those reads finds what the plan says.
Found(db, effective, read) ==
  LET x == read[2]
  IN CASE read[1] = "card" ->
            /\ x \in DOMAIN db.cards
            /\ Projection(db.cards[x]) = effective.cards[x]
            /\ {e \in effective.edges : x \in {e[1], e[2]}} \subseteq db.edges
       [] read[1] = "ready" ->
            x \in DOMAIN db.cards /\ ReadyAt(db, x) = ExpectedReady(effective, x)
       [] read[1] = "note" ->
            LET v == effective.notes[x]
            IN \E i \in DOMAIN db.notes : db.notes[i].card = v.card /\ db.notes[i].body = v.body
       [] read[1] = "rune" ->
            LET v == effective.runes[x]
            IN /\ v.key \in DOMAIN db.runes
               /\ LET r == db.runes[v.key]
                  IN <<r.text, r.enabled, r.legacy>> = <<v.text, v.enabled, x>>
       [] read[1] = "memory" ->
            x \in DOMAIN db.memories /\ MemoryVerified(db, effective.memories[x], x)

VerifyPublic ==
  /\ run.pc = "verify"
  /\ run.todo # <<>>
  /\ IF Found(At(run.target), run.effective, Head(run.todo))
     THEN /\ run' = [run EXCEPT !.todo = Tail(@)]
          /\ UNCHANGED <<dest, temp, imports, natives, settled>>
     ELSE Fails("unverified")

Finish ==
  /\ run.pc = "verify"
  /\ run.todo = <<>>
  /\ run' = [Idle("imported") EXCEPT !.overtaken = run.overtaken]
  /\ IF run.target = "temp"
     THEN dest' = temp /\ temp' = Absent /\ settled' = run.plan
     ELSE UNCHANGED <<dest, temp, settled>>
  /\ UNCHANGED <<imports, natives>>

\* An error of the file system or a lock that is not given.
IOError == run.pc # "idle" /\ Fails("failed")

Crash ==
  /\ run.pc # "idle"
  /\ run' = Idle("crashed")
  /\ UNCHANGED <<dest, temp, imports, natives, settled>>

ImportStep ==
  \/ \E s \in Exports : Start(s)
  \/ InitTemp \/ Apply \/ VerifyPublic \/ Finish \/ IOError \/ Crash

-----------------------------------------------------------------------------
(* What users of the destination do, a library call each.                  *)

Uses(db) ==
  /\ natives < MaxNative
  /\ natives' = natives + 1
  /\ dest' = db
  /\ settled' = None
  /\ run' = [run EXCEPT !.overtaken = @ \/ run.pc # "idle"]
  /\ UNCHANGED <<temp, imports>>

\* bdd init.
NativeInit ==
  /\ dest = Absent
  /\ InitMeanwhile \/ run.pc = "idle"
  /\ Uses(NewDatabase)

NativeRow(old, fields) == Over(fields, [old EXCEPT !.rev = @ + 1])

NativeCreate(c) ==
  /\ c \notin DOMAIN dest.cards
  /\ Uses([dest EXCEPT !.cards = With(@, c, [text |-> Native, status |-> "open",
             worktree |-> NoWorktree, labels |-> {}, rev |-> 1])])

\* An update of the text, the worktree or the status, or another label.
NativeUpdate(c) ==
  /\ c \in DOMAIN dest.cards
  /\ LET row == dest.cards[c]
     IN \E new \in {[text |-> Native], [worktree |-> Native], [status |-> "closed"],
                    [status |-> "open"]} \cup {[labels |-> row.labels \cup {l}] : l \in Label} :
          /\ NativeRow(row, new) # [row EXCEPT !.rev = @ + 1]
          /\ Uses([dest EXCEPT !.cards[c] = NativeRow(row, new)])

\* Labels, notes and edges go with the row, the events stay.
NativeDelete(c) ==
  /\ c \in DOMAIN dest.cards
  /\ Uses([dest EXCEPT
             !.cards = Without(@, c),
             !.edges = {e \in @ : c \notin {e[1], e[2]}},
             !.notes = [i \in {x \in DOMAIN @ : @[x].card # c} |-> @[i]]])

NativeNote(c) ==
  /\ c \in DOMAIN dest.cards
  /\ NextNote(dest.notes) <= MaxNotes
  /\ Uses([dest EXCEPT !.notes = InsertedNote(@, [card |-> c, body |-> Native, from |-> Native])])

NativeAddEdge(p, c) ==
  /\ {p, c} \subseteq DOMAIN dest.cards
  /\ <<p, c>> \notin dest.edges
  /\ Acyclic(dest.edges \cup {<<p, c>>})
  /\ Uses([dest EXCEPT !.edges = @ \cup {<<p, c>>}])

NativeRemoveEdge(e) == Uses([dest EXCEPT !.edges = @ \ {e}])

\* PutRune writes the metadata too, and with it the id the migration looks for.
NativePutRune(k) ==
  /\ LET rev == IF k \in DOMAIN dest.runes THEN dest.runes[k].rev + 1 ELSE 1
     IN Uses([dest EXCEPT !.runes =
                With(@, k, [text |-> Native, enabled |-> TRUE, legacy |-> None, rev |-> rev])])

NativeRemember(k) ==
  Uses([dest EXCEPT !.memories =
          IF k \in DOMAIN @
          THEN [@ EXCEPT ![k].body = Native, ![k].rev = @ + 1]
          ELSE With(@, k, [body |-> Native, by |-> Native, created |-> Native, rev |-> 1])])

NativeStatus(n, category) ==
  /\ n \notin DOMAIN dest.statuses
  /\ Uses([dest EXCEPT !.statuses = With(@, n, category)])

NativeStep ==
  /\ dest # Absent
  /\ \/ \E c \in CardId :
          NativeCreate(c) \/ NativeUpdate(c) \/ NativeDelete(c) \/ NativeNote(c)
     \/ \E p, c \in CardId : NativeAddEdge(p, c)
     \/ \E e \in dest.edges : NativeRemoveEdge(e)
     \/ \E k \in RuneKey : NativePutRune(k)
     \/ \E k \in MemoryKey : NativeRemember(k)
     \/ \E n \in UserStatus : NativeStatus(n, "wip")

Next == ImportStep \/ NativeInit \/ NativeStep

Spec == Init /\ [][Next]_vars

-----------------------------------------------------------------------------
(* Properties.                                                             *)

Importing == natives' = natives

\* What the destination owns stays as it is: an import does not touch a card
\* that is not of its making, its edges and notes, a note anyone wrote, or a
\* rune or memory the plan does not have (the ownership rules of prepare,
\* sink.go:176-275, and the restriction of reconcileEdges to imported cards).
NativeKept ==
  [][Importing /\ dest # Absent =>
       /\ dest' # Absent
       /\ DOMAIN dest.cards \subseteq DOMAIN dest'.cards
       /\ \A c \in DOMAIN dest.cards \ DOMAIN dest.cardProv : dest'.cards[c] = dest.cards[c]
       /\ \A e \in dest.edges : ~Imported(dest, e) => e \in dest'.edges
       /\ \A i \in DOMAIN dest.notes : i \in DOMAIN dest'.notes /\ dest'.notes[i] = dest.notes[i]
       /\ \A k \in DOMAIN dest.runes :
            dest.runes[k].legacy = None => dest'.runes[k] = dest.runes[k]
       /\ \A k \in DOMAIN dest.memories :
            dest.memories[k].by = Native => dest'.memories[k] = dest.memories[k]]_vars

\* Importing a plan again, when nothing has happened since, writes nothing:
\* no revision moves and no note comes twice (the hash and projection
\* comparisons of card, the upserts of rune and memory, provenance of notes).
RerunWritesNothing ==
  [][Importing /\ run.pc = "apply" /\ run.plan = settled => dest' = dest]_vars

\* A database appears at the destination only when it holds all of the plan:
\* no crash or failure leaves a part of one there (the temporary name and the
\* rename of ApplyWithWarnings).
AppearsComplete ==
  [][Importing /\ dest = Absent /\ dest' # Absent =>
       /\ run.pc = "verify" /\ run.todo = <<>>
       /\ dest'.cardProv = run.plan.cards
       /\ [c \in DOMAIN dest'.cards |-> Projection(dest'.cards[c])] = run.plan.cards
       /\ dest'.edges = run.plan.edges
       /\ {dest'.notes[i].from : i \in DOMAIN dest'.notes} = DOMAIN run.plan.notes
       /\ {dest'.runes[k].legacy : k \in DOMAIN dest'.runes} = DOMAIN run.plan.runes
       /\ DOMAIN dest'.memories = DOMAIN run.plan.memories]_vars

\* A comment of the source is one note and a role is one rune, however often
\* they were edited, retitled and imported (note, effectiveNote and the search
\* for legacy_bd_id in prepare).
ImportedOnce ==
  dest # Absent =>
    /\ \A i, j \in DOMAIN dest.notes :
         dest.notes[i].from = dest.notes[j].from /\ dest.notes[i].from # Native => i = j
    /\ \A k, l \in DOMAIN dest.runes :
         dest.runes[k].legacy = dest.runes[l].legacy /\ dest.runes[k].legacy # None => k = l

\* The blocking graph stays without cycles, those through edges that users
\* added between their cards and imported ones included (verifyAcyclic): where
\* the ids of a cycle do not all hide each other from the search.
GraphStaysAcyclic == dest # Absent => Acyclic(dest.edges)

\* What is written is what verification expects: an import is refused, or
\* committed and then reported as wrong, only for what it met - records of one
\* name that differ, a status defined otherwise, an imported note that is gone,
\* a memory by somebody else or of another time than the source says, an edge
\* of a card that is not imported, or a change made while the reads went on (the
\* writes of apply against verifyTx and verifyPublic).
RefusalHasCause ==
  [][LET foreignEdges == IF dest = Absent THEN {} ELSE {e \in dest.edges : ~Imported(dest, e)}
         lost(k) == \/ dest.noteProv[k].id \notin DOMAIN dest.notes
                    \/ dest.notes[dest.noteProv[k].id].from # k
         differs(k) == LET v == run.plan.memories[k]
                       IN \/ dest.memories[k].by # v.by
                          \/ v.created \notin {None, dest.memories[k].created}
     IN run.pc # "idle" =>
          /\ run'.outcome = "rejected" =>
               \/ \E kind \in DOMAIN run.plan.disputed : run.plan.disputed[kind] # {}
               \/ /\ ~run.new
                  /\ \/ Incompatible(dest, run.plan)
                     \/ \E k \in DOMAIN dest.noteProv : lost(k)
                     \/ \E k \in DOMAIN dest.memories \cap DOMAIN run.plan.memories : differs(k)
                     \/ foreignEdges # {}
          /\ run'.outcome = "unverified" => run.overtaken \/ foreignEdges # {}]_vars
=============================================================================
