# A TLA+ model of bdd

bdd is a card tracker: a Go library over one SQLite file and a command line
over that library. There is no server. Every library call is one SQLite
transaction, and whatever runs concurrently (agents, shells, scripts) is a set of
processes that open the same file. This directory holds TLA+ modules for the
parts of bdd where that matters, the TLC configurations that check them on small
instances, and TLAPS proofs of the results that should hold for every instance.

Paths such as `edge.go:117` are relative to the repository's root.

## 1. The system

| component | state | operations | hard behaviour | correct when |
|---|---|---|---|---|
| **Card rows and lifecycle** (`card.go`, `lifecycle.go`) | table `cards`, its status, assignee, `started_at`, `closed_at`, `defer_until`, revision | claim, close, release, reopen, defer, human | long sequences of legal calls, two ways to claim, custom statuses in any category | done is left only by reopening, a holder is never displaced, the revision pins the content |
| **Card mutations** (`mutation.go`) | tables `cards`, `labels`, `notes`, `events` | create, update (fields, status, claim, labels, edges in one call), note, delete | one call writes many tables; ids are random and come back | all or nothing, no rows left of a deleted card, the audit trail keeps up |
| **Blocking graph** (`edge.go`) | table `card_edges` | add and remove an edge, several per update | the cycle check reads a graph others change | no cycle, so some unfinished card can always be worked on |
| **Configuration** (`config.go`) | `config`, `status_definitions`, `type_definitions` | set, unset, get, list | definitions change under cards that use them | no card loses its status or type, or changes category |
| **Transactions** (`internal/sqlite`) | snapshots, the write lock, the retry loop | BeginTx, Commit, Rollback, Retry | deferred transactions: read, decide, then upgrade to a write | concurrent calls behave like atomic ones and answer truly |
| **Database handle** (`bdd.go`, `internal/schema`) | the file, `user_version`, `schema_versions`, the workspace row; per handle: closed, schema too old | Init, Open, Upgrade, Close | processes of several builds, crashes between two migrations, races of Init | migrations once and in order, no card call on an older schema |
| **Queries** (`query.go`) | none | show, list, ready, explain, search | several statements outside a transaction, commits in between | what is shown of a card is true as long as the revision shown is |
| **Runes, memories** (`rune.go`, `memory.go`) | tables `runes`, `memories` | put, enable, disable, remove; create, update, forget; expected revisions | remove and create again; a check before the call | an expected revision means what was read, protection holds, the audit trail keeps up |
| **Snapshot, restore** (`snapshot.go`) | database file, WAL and SHM, temporary files, backup | snapshot, restore | crash between rename and clean-up; other openers | the target is the old or the new database |
| **Hooks** (`hooks.go`, `internal/cli/hookdispatch.go`) | `hooks.yaml`, the switch in `config` | load, match, fire after a commit | hooks fire in another order than commits, handlers run commands, fail, hang; crash in between | an event is its command's own change; every matching hook runs once, before the command returns; the last hook heard leaves its handler up to date |
| **Prime** (`internal/cli/prime.go`) | none | assemble the context of an agent | byte budget, bodies fetched after they were listed | every standing instruction in full, or an error |
| **Command line** (`internal/cli`) | none | one command is one or a few library calls | read, then call | |
| **Migration tool** (`tools/migrate`) | temporary database, destination, provenance in `events` | map, build, verify, publish, rerun | crash or failure half-way; both sides edit between imports | a new destination is absent or complete; nothing native is lost, nothing imported twice |

How they interact: the command line opens a handle (discovery, version check),
makes its calls, and fires hooks from the states its own transaction
returned. Everything else communicates only through the database file: the rows,
SQLite's locks and snapshots, and the file's name. Restore and Init also change
what the name stands for.

## 2. Modules

| module | what it is | code |
|---|---|---|
| `CardRules` | statuses, categories, transitions, rows, reachability; no state | `card.go`, `lifecycle.go:19-50`, `edge.go:28-50` |
| `CardStore` | the card half of a workspace, one atomic action per call: the abstract specification | `lifecycle.go`, `mutation.go`, `edge.go`, `config.go` |
| `CardTx` | the same calls as transactions of several handles; implements `CardStore` | `internal/sqlite/sqlite.go` and the shape of every call's closure |
| `Workspace` | creating, opening, migrating and losing the file | `bdd.go`, `internal/schema/schema.go` |
| `NamedDatabase` | what the path of a database promises: the abstract specification of `Restore` | `snapshot.go:46-56`, `110-121` |
| `Restore` | snapshot and restore, step by step, over files and names; implements `NamedDatabase` | `snapshot.go` |
| `Entries` | runes and memories under competing processes | `rune.go`, `memory.go`, `internal/cli/rune.go` |
| `Reads` | show, list, ready and explain, statement by statement, beside the calls of `CardStore` | `query.go`, `card.go`, `internal/cli/{show,list,ready}.go` |
| `Hooks` | the commands that change cards and the hooks they fire | `hooks.go`, `internal/cli/hookdispatch.go` and the hooked commands |
| `Prime` | the compact manifest, statement by statement, beside the calls of `Entries` | `internal/cli/prime.go` |
| `MigrationMap` | the plan made of an export; no state | `tools/migrate/internal/{mapping,model}` |
| `MigrationSink` | imports of plans, and users of the destination | `tools/migrate/internal/bddsink` |
| `MC*` | instances for TLC | |
| `CardStore_proofs`, `CardTx_proofs`, `Reads_proofs`, `Entries_proofs` (and of `Prime`), `Workspace_proofs`, `Restore_proofs`, `Hooks_proofs`, `Migration_proofs` | theorems | |

`CardTx`, `Reads` and `Hooks` extend `CardStore` (the tables are the same
variables), which extends `CardRules`; `Prime` extends `Entries`, and `MigrationSink`
extends `MigrationMap`. `Restore` instantiates `NamedDatabase`. `Workspace` and
`Restore` share no state with the cards and stand alone, and so does
`MigrationSink`: it knows of a card only what an import reads and writes.

### CardStore

The variables are the tables: `cards` (a function from the live ids to rows),
`edges`, `labels`, `notes` (how many, per card), `lastEvent` (the newest row of
`events` per card: its action and revision), `statusDefs` and `typeDefs` (the custom
rows of the definition tables). A row keeps what decisions depend on: status,
type, assignee, whether each of the three times is set, and the revision. Titles,
texts and times are left out; the six built-in types are one value.

An action is a whole call: all it writes to every table, in one step. A call that
returns an error rolls back and a call the code treats as a no-op commits nothing, so
neither is an action; the guard of the action says which calls those are. Two
points where the translation takes a step:

- `UpdateCard` inserts edges one by one, and checks each against the graph the
  earlier ones left (`mutation.go:473-492`). The edges one loop adds all enter, or
  all leave, the updated card, so they do not change what the checks of the
  same loop see. `EdgesAllowed` therefore checks a loop's edges against the graph
  at its start.
- `insertCardRow` draws random ids until one is free (`mutation.go:628-651`).
  `CreateCard` takes any id that is not live, that of a deleted card too.

### CardTx

A handle has one connection, so it runs one call at a time. `phase` follows a call
through `begun` (BeginTx: nothing is held), `read` (decided on a snapshot, about to
upgrade), `locked` (holds the write lock), `done` (committed) and `busy` (rolled back
on SQLITE_BUSY, in Retry's back-off). BeginTx is deferred, so a call has one of two
shapes:

- it *reads first* (claim, close, release, reopen, defer, human, delete, adding an
  edge, updates with a status or claim, redefining statuses or types): it decides
  on a snapshot, and its first write upgrades. SQLite refuses that at once when another
  connection writes (`Busy`) or has committed since the snapshot
  (`StaleSnapshot`, SQLITE_BUSY_SNAPSHOT);
- it *writes first* (create, note, removing an edge, other updates): it waits for
  the lock up to `busy_timeout` and decides under it.

`stale[p]` stands for the snapshot: it becomes true when another handle commits
while p is between its reads and its write. `Call` holds every call that writes cards, edges or definitions, in three parts: `Allowed` is
what it finds out before its first write, `Checked` what it checks between its writes
(the edges and the type of an update, the parents of a new card), and `Effect` what it
writes, on the tables of that moment and whatever was found out before. So a
decision that went stale shows: it would write what no call of `CardStore` writes. That SQLite's
locks and snapshots work like this is external to the repository.

### Workspace

Files are numbered: the path names at most one, a handle keeps the one it opened.
`InitStat`, `InitOpen`, `InitRead`, `Migrate`, `InitSeed`, `InitFail` and
`InitRemove` are the steps of Init between which other processes run; `Upgrade`
shares `Migrate`. `Fails` says when a transaction of either can fail: the row
it inserts is already there, or another process has the file open and could
hold its lock for longer than Retry tries. `Build[p]` is the schema version compiled into the process.

### Restore

`file` is every file there has been and `at` the file each name is bound to: the
database, its `-wal`, the snapshot that is restored and the backup. A
rename rebinds a name; a process keeps the file it opened. Each
page is the set of commits whose rows it holds, so a mixture of two databases is
told from either. Handles run `Open`, `Attach` (the first read, which binds
the log), `Commit`, `SnapshotCopy`, `SnapshotInstall`, `Close`; a restorer
runs the steps of `Restore` between which others run: `Validate`, `StatTarget`,
`Stage`, `OpenTarget`, `Lock`, `BackupCopy`, `BackupInstall`, `Install`,
`RemoveSidecars`. It may fail after any of them (`Fail`, which runs the deferred Close) or
die (`RestorerCrash`).

What SQLite does is external: in WAL mode every connection keeps a shared
lock on the log and an exclusive-mode connection keeps all of them out;
without a log a connection holds no lock between statements, and the exclusive mode's
first read takes only a shared lock. The last connection to leave copies the
log into the database and removes its name, unless the database was moved. VACUUM INTO
writes a file that is not in WAL mode, and Open does not change the mode, so a
restored database is a "rollback" one (`file[i].mode`) from then on.

`NamedDatabase` is what an opener of the path should see: pages that a
commit changes one at a time, or that are replaced as a whole by a content that existed before.
The refinement maps its `rows` to `Readable`, what a new connection would read.

### Entries

A library call is one transaction and one action (`CardTx` is where transactions are
taken apart; these calls read before they write, as `ReadsFirst` calls do there).
What is left between processes is what happens outside the transaction: `GetRune`
records what a client has read (`seen`), `Preflight` is the command line's look at the
protection before its call, `Begin` starts a command or a call and may pass the
revision that was read. `lives` counts how often a key was created; the code does not know it,
and the properties need it to say what the code does promise. `runeEvent` and
`memoryEvent` are the newest rows of `events` per key. Bodies, titles,
metadata and prime designation of a rune are one value; a memory has only its
body, which is what its events repeat.

### Reads

No read runs in a transaction, so `reader` goes through statements, and any step of
`CardStore` may come between two of them. `ReadRow` and `ReadLabels` are `loadCard`'s
(a card that is deleted between them is shown without labels); `ReadExists` and `ReadNotes` follow for `show`,
`ReadCategory` and `ReadUnfinished` for `explain`; `ReadRows` and
`ReadPageLabels` are the two statements of a page, the second of which attaches labels as they
are by then. The conditions are operators: `ReadyConds` is the SQL of `ready`, `OwnReasons` and
`UnfinishedParents` what `ExplainReady` looks at instead. A `PageOption` has the filters of a list;
text search, order and limit choose among rows and change nothing in them.

### Hooks

`enabled` is the switch in `config`, `file` the parsed content of `hooks.yaml`, and
`run[p]` the command of a shell: `Begin`, `Load` (reads and validates the hooks; of an invalid file
the command complains and goes on without hooks), `Call` (one step of `CardStore`, with the card as the
transaction saw it before and after), then `StartHook`, one at a time, until `Return`.
`create` loads its hooks after its call. A retry of the call repeats its first read
(`BusyAttempt`). `HandlerRead` and `HandlerCommand` are what `docs/hooks.md` asks of a
handler; a handler's own command runs at depth 1, where no hooks fire.
`HookFails` is a handler that does not start, fails, or is killed at its timeout.
`LibraryCall` is a program that uses the library and fires nothing.

Two ghosts say what handlers know: `heard` is the card as a handler last
read it, `missed` which kinds of events a change was not announced by.

### Prime

`prime` goes through the statements of the command: the list of memories, the enabled
runes, then the body of each required rune, one by one (`FetchRune`), and the sum against the
budget (`PrintManifest`). `Designation` and `Size` give each abstract content its designation and length.
`standing` is a ghost: the entries that have been required ever since the command began.

### MigrationMap, MigrationSink

`Plan(s)` is the mapping of an export, a sequence of records, to cards, notes, edges, runes,
memories and status definitions, or an error. The sets of built-in types and of
types that are skipped are represented by some of their members. In
`MigrationSink`, `dest` and `temp` are databases under the destination's name and under the
temporary one beside it, each a record of tables; `cardProv` and `noteProv` are the
`migration.card` and `migration.note` events. A run goes through `Start`,
`InitTemp`, `Apply` (the transaction: `Prepared`, the checks, `Written`, and the verification
inside it), `VerifyPublic`, one read of the library after the other, and `Finish`, which renames; it
fails or dies after any of them. Between runs,
and during them, users create, edit, delete, connect and annotate cards and change runes and memories.

## 3. Runs

| run | instance | shows |
|---|---|---|
| `lifecycle` | 1 card, 2 actors, 1 custom status in any category, 1 custom type, 5 revisions | types; a card with a closing time is done; done is left only by reopening; the holder of a card is not displaced; reconfiguration moves no card; a revision pins row, labels and notes |
| `graph` | 3 cards, all edge sets, updates that add and remove several edges, 2 revisions | no cycle, no dangling row, the audit trail is current |
| `tx_calls` | 2 handles, 2 cards, 1 actor: create, claim, delete, add and remove edges, update (a claim with a parent, a custom status), redefine that status; 2 attempts; weak fairness | transactions implement `CardStore!Spec` (`AtomicCalls`); answers are true; every call returns |
| `workspace` | 3 processes, builds 1, 2 and 2, 2 files | migrations once and in order; no handle serves cards too early; no Init touches a file older than its look at the path, with its clean-up neither |
| `restore` | 2 handles, 1 restorer, 2 pages, WAL and rollback databases, 2 commits | the path names the old or the new database (`AtomicDatabase`); of a restore that found a database, the backup holds what it replaced, and it replaces under nobody who uses the log; snapshots hold every acknowledged commit; nothing damaged is installed; Restore returns |
| `entries` | 2 clients, 1 rune created twice, 1 memory, 2 revisions | an expected revision means what was read; protection holds; events are numbered without gap and tell the present state |
| `reads` | 1 reader, 2 cards, 1 custom status, 2 revisions, every call of `CardStore` | what is shown is true as long as its revision is; a verdict too |
| `hooks` | 2 shells, 1 card, 4 hooked or unhooked commands, a handler's command, 2 hook files, 3 revisions | events are the own change of their command; every matching hook, one written twice included, runs before the command returns, status events before label events and each in the order of the file; the last handler heard is up to date; commands return |
| `prime` | 2 runes, 1 memory, a required content half the budget, 1 other process | every standing instruction printed in full, unless prime fails |
| `migration` | 5 exports (first, later, one with two forms of a comment, two the mapping refuses), an id that begins with another, 3 imports, 3 changes by users | nothing native touched; a rerun writes nothing; a new destination appears complete; imported once; no cycle; a refusal has a cause |
| `init_race`, `restore_wait` | 2 or 3 processes | the divergences 1 and 2 of section 5 |

**Bounds.** `MaxRevision` stops writes to a card's row; five revisions are enough for the
longest pattern a lifecycle property needs (claim, close, reopen, claim, change)
and the state of a row is otherwise finite. The lifecycle rules of one card do not mention others
(only edges do), so one card suffices there, and the graph run drops
actors and custom names instead. Three cards give cycles longer than an edge and its
reverse, and an update that adds a parent and a child at once.
In `tx_calls` (`TwoCardCalls`) one card's row and life are written by both handles,
both directions of an edge can be added at once (one by an update), and a custom status can
be taken away while a card gets it; a third handle would add
nothing but a second waiter. The lifecycle calls left out have the shape of a claim, and the proofs
cover every call and any number of handles.
`MaxAttempts` is 2 rather than 5: the first attempt and the last are the only ones the
code treats differently. Two schema versions are enough for a file to be
half-migrated and for builds to disagree; two files for one to be removed and
created again.
In `restore` a second page lets a mixture of two databases exist, and a second
commit one before and one after a copy; `MaxFiles` limits what handles create and never
stops a restorer. `CrashModes` and `StraddleModes` restrict deaths of handles, and
connections that open before a rename and read after it, to databases without a
log: with a log the code does not keep its promise (section 5), and the
run shows that it keeps it otherwise. `OvertakeModes` does the same for `bdd.Init`, which may make a
database where a restore has looked and found none (`Create`): one in WAL mode brings a log the restore does not know of
(divergence 5). In rollback mode, which is what SQLite leaves a database in where it cannot keep
a log (`internal/sqlite/sqlite.go:96-103` does not look at what its pragma returned), it is part of the run. `Create` is one step; how two
Inits get in each other's way is in `Workspace`. In `entries` two lives and two revisions per life
make an expected revision outlive its rune.
In `reads` two revisions make a row older than the card it is of, a second card is a
parent, and a deleted one comes back at revision 1 (`gone` tells). In `hooks` three
revisions let one command, a handler's command in the midst of its hooks, and one of the
other shell change the card; one hook file is invalid. `prime` has the
budget at its limit with two required entries and over it with three. In
`migration` three imports are one that creates, one that changes and one that repeats; three
changes by users delete an imported card and make it anew, or connect a native card at both ends.
`InitMeanwhile` is FALSE: whether `bdd init` creates the destination during a
run is the divergence 9 of section 5.

Ids, handles and actors are interchangeable, hence the symmetry sets; a run with a liveness
property uses none. Three runs have a VIEW that drops variables which no later
step and no property of the run looks at: the audit trail in `reads` and
`prime`, how the last import ended in `migration` (its action properties are evaluated on the
steps, before the view). Deadlock is checked but in `restore`, where the files or commits run out, and in
`migration`, where the imports and changes do.

**Fairness.** Three runs assume any, and each only what keeps a live process going.
`tx_calls`: weak fairness of `Step(p)`, the steps
a process takes by itself in a call. It is what the code provides: no
statement waits for longer than `busy_timeout` (a blocked writer gets its lock or
`Busy`), Retry's timer fires, and the holder of the lock runs straight to its commit.
Nothing is assumed of `Start`, `Cancel` or `Crash`, nor of the lock being given to
anyone in particular: a call may well lose every race, and then returns "locked".
`restore`: weak fairness of `Works(r)`, the steps of a restorer that has not failed or died;
handles may keep the database open for ever, and then Restore gives up.
`hooks`: weak fairness of `Step(p)`, the steps of the command and the operating
system's killing of a handler at its timeout (`HookFails`); nothing is asked of a handler
(`HandlerRead`, `HandlerCommand`, `HandlerExit`), which may hang.

**Mutants.** Every property comes with a definition marked MUTANT, beside the one
it varies, that makes a plausible mistake at that place (a lost guard, a retry on an old
decision, an upsert for an insert); TLC finds the property violated with it.

## 4. Theorems

`CardStore_proofs` (any sets of cards, actors, statuses, types, update inputs):

- `TypeCorrect`, `ReferencesHold`, `NeverCyclic`, `NeverGridlocked`:
  `TypeOK`, `ReferentialIntegrity`, `BlockingGraphAcyclic`, `NoGridlock` are invariants.

The inductive invariant is `StoreInv == TypeOK /\ ReferentialIntegrity /\
Acyclic(edges)`. `ReferentialIntegrity` is needed for acyclicity because
`CreateCard` reuses ids: that the new card has no outgoing edge follows
only from there being no edge at a card that is not live. `Acyclic` is stated
without paths: every non-empty set of cards has a member none of whose parents is in the set.
That makes the argument about an update with several edges a cut: the descendants
of the card form a set closed under edges, no new parent lies in it, so the
new edges enter that set from outside, and a set that violated acyclicity after them would have done so before (lemma
`EdgesIntoClosedSet`, and its mirror image for children). `NoGridlock` follows from
acyclicity applied to the set of unfinished cards.

and of the history of a card:

- `DoneIsSticky`, `ClaimsHeld`, `CategoriesStable`, `RevisionsPinContent`: the action
  properties `LeaveDoneOnlyByReopen`, `HolderKeepsClaim`, `ConfigKeepsCategories` and
  `RevisionPinsContent`;
- `ClosingTimes`, `AuditTrail`: `ClosedOnlyWhenDone` and `AuditCurrent` are invariants.

These six rest on one case split: a step leaves a card's row, labels and notes alone, is a
lifecycle call of that card, or an `UpdateCard` of it (`StepOfCard`), and the rest is about that card's row.
The action properties need `StoreInv` in the state before: a card's status has one category only because
`ReferentialIntegrity` keeps it defined.

`CardTx_proofs` (any number of handles, any calls, any bound on attempts):

- `AnswersHold`: a call that reports success has committed exactly once,
  any other answer means nothing was written;
- `TransactionsAreAtomic`: `TxSpec => Spec`, the transactions implement the atomic calls;
- `TxNeverCyclic`, `TxNeverGridlocked`: hence every invariant of `CardStore` holds of the
  transactions.

The inductive invariant `TxInv` adds, to types and the lock's discipline, the fact the
design rests on: a call that has read, and whose snapshot is not stale, would
decide the same way on the tables as they are now (`DecisionHolds`). A commit
of another handle keeps it, because that commit is what makes the snapshot stale.

`Reads_proofs` (any cards, filters, and calls in between):

- `RevisionVouches`, `VerdictsTrue`: `ShownWithRevision` and `VerdictWithRevision` are invariants;
- `ExplainAgrees`: the conditions of `ready` and of `ExplainReady` agree in every reachable state.

The invariant `ReadInvariant` says of a row that was read that its card is gone, has a greater
revision, or is what it was (`LoadedStands`, `PageStands`): `RevisionPinsContent`, lifted
from one step to the steps of one read. That category and labels are those of the row's
revision needs, besides, that no definition changes category under a card.

`Workspace_proofs` (any processes, builds and versions):

- `ServesMigrated`, `MigratesInOrder`, `OlderIsSpared`: `ReadyMeansMigrated`,
  `MigrationsInOrder` and `InitSparesOlder`.

The invariant is that a process past its start holds a file (`HasFile`), has read no version beyond
the one that file is at (`NotAhead`), and, if its handle serves cards, is not ahead of its file
(`NotTooOld`): versions only rise, so what was read stays a lower bound. For `InitSparesOlder` it adds
that whatever is at the path while an Init runs, and what it has open, came there after it
looked (`LooksFirst`); that may be another Init's all the same (divergence 1).

`Entries_proofs` (any processes, keys and contents):

- `ReadersAgree`, `TrailsCurrent`, `MemoryTrailsCurrent`: `RevisionIdentifies`, `RuneTrailCurrent`
  and `MemoryTrailCurrent` are invariants;
- `NumberedEvents`, `ProtectionHolds`: the action properties `EventsNumbered` and `ProtectedKept`.

`RevisionIdentifies` alone is not inductive: an update could bring a rune to a revision some
client has in hand. `ReadBefore` adds that what was read is of a life no later than the
present one and, within it, of a revision no later than the present one; revisions
only rise within a life (`RevisionsRise`), so one that was left does not return.

and of `Prime`, beside any calls of `Entries`, for any sizes and budget:

- `InstructionsReachTheAgent`: `StandingInstructionsPrinted` is an invariant.

`PrimeInv` adds, for each statement still to come, that what has stood since the
command began is required now or is in what was already read (`CarriesStanding`).

`Restore_proofs` (any numbers of handles, restorers, pages, commits and files):

- `GoodInstalled`: `OnlyGoodInstalled` is an invariant, with nothing assumed. Its invariant `RestoreInv` says
  that names, handles and restorers refer to files of the right kind and that copies are good;
  what makes it inductive is that files are never rewritten under another mode.
- `LogUsersStayOut`, `PathIsAtomic`, `SnapshotsHoldAll`: `LogUsersExcluded`, the refinement of
  `NamedDatabase` (`AtomicDatabase`) and `SnapshotsAreCurrent`, under `NoStrayLog`;
- `BackupIsWhatWasReplaced`: `BackupHoldsReplaced`, under `NoStrayLog` and with one restorer.

`LogUsersExcluded` and `BackupHoldsReplaced` are about restores that found a database. One that found none
takes neither lock nor backup, whatever has come under the name by then (divergence 6).
`NoStrayLog` says that nobody dies with, no connection straddles a rename of, and no Init makes after a restore
has looked, a database that has a log. It is not a convenience: without it the refinement is false, by the run
`restore_wait` and divergence 5. What it buys is `LogInv`: only the first file can have a log, a log is
used with the database that has the name, and a restore that holds the lock of a database with a log is alone with
it. The refinement then needs one more fact (`AllSeen`): whatever can come under the name is something
a reader could have read before. One restorer is needed because a rollback lock is shared: of two
restores that both hold it, the second replaces what the first has installed, and its backup is of the file before (divergence 5).

`Hooks_proofs` (any processes, hook files, commands and handlers):

- `CommandsAreCalls`: `HooksSpec => Spec`, so what is proved of `CardStore` holds of a workspace with hooks in force;
- `EventsReportOwnChanges`, `EveryHookRunFirst`, `WakeSignalsSuffice`: `EventsAreOwnChanges`,
  `SynchronousDelivery` and `WakeSignal` are invariants.

`HooksInv` is `StoreInv` and, types aside, two parts. `RunsOK` says of each command that the hooks it has run followed by those it still has to run
are the ones its change calls for, entry by entry, in the order of the file. `WakeInv` says that whatever
the handlers do not know of a card was lost, or some command still has a handler to start for it.

`Migration_proofs` (any exports, destinations, imports and changes by users):

- `GraphHasNoCycle`: `GraphStaysAcyclic` is an invariant where no id begins with another one (`Begins = {}`);
- `OneOfEach`: `ImportedOnce` is an invariant;
- `NewIsWhole`: `AppearsComplete`;
- `OthersKeepTheirs`: `NativeKept`, when `bdd init` does not take the name meanwhile (divergence 9);
- `RerunIsIdle`: `RerunWritesNothing`;
- `RefusedForCause`: `RefusalHasCause`.

A database, at either name, is sound (`DbOK`): its rows have their fields, edges join live cards, and are without a
cycle if no id begins with another, every imported note has a recorded provenance that it agrees with for as long as it is there, no
comment is two notes and no role two runes. `PlanOK` says the same of plans, and is proved of
every export `mapping` accepts (`PlansOK`). `MigrationInv` adds that what a run has verified of a new database is the whole plan. The argument
then is about one transaction: what `prepare` makes of a plan (`PreparedAs`) and what is
written of that (`WrittenAs`). That the search of `verifyAcyclic` finds a cycle is an argument of its own
(`CycleIsFound`): a walk from child to parent inside a set without a source, as long as one without a repetition can be,
ends at a parent that is on it, and the way back is a path the search takes. `RerunIsIdle` needs an invariant of its own, that a database
stays at the plan it was last brought to (`SettledInv`), and that writing to such a
database changes nothing (`SettledIsFixed`). `RefusedForCause` is the other direction: a
plan without records of one name that differ, on a
database with none of the causes, verifies (`NothingAmissVerified`), and until somebody
else writes it holds what the reads of the library look for (`ReadsOK`, `FoundIfHeld`).

Assumptions on constants are named where they are declared: the placeholders
(`Nobody`, `Keep`, `NoProc`, `NoRow`, `NoView`) differ from real values, custom names are not built-in ones, an
update never combines a claim with a status (`validateUpdateCard`), a label command passes labels only, an export
is finite and its comments and memories are not by the users of the destination, and there is at least one attempt. `Migration_proofs` states
two more as hypotheses, since they quantify over all values: `Absent` is no database and `None` no record.

Only model-checked: `CallsReturn`, `CommandsReturn` and `RestoreReturns`, because liveness is outside what TLAPS
proves. Every other property of a passing run is a theorem. No module declares a RECURSIVE operator.

## 5. Where the code and its words differ

The first two are runs that end in a counterexample:

1. **The loser of two Inits removes the winner's database** (`init_race`).
   `bdd.go:218-220` says Init leaves an existing file alone; an Init that lost the
   race after both found no file cleans up with `os.Remove(dbPath)` (`bdd.go:265`, `bdd.go:276`).
2. **A waiting opener survives a restore** (`restore_wait`). `snapshot.go:188-190`
   says any opener fails until the rename has landed. One that waits in
   busy_timeout gets its lock when Restore returns, on the unlinked
   file, and creates a `-wal` beside the new one: its commits are recovered over
   the restored database by the next opener.

Seen in the models or while writing them:

3. **An overtaken call is not retried.** Retry's comment
   (`internal/sqlite/sqlite.go:147-149`) promises a fixed number of attempts;
   SQLITE_BUSY_SNAPSHOT is an extended code that `IsBusy` does not recognise, so
   a call that read before another handle's commit fails on its first attempt (`StaleSnapshot`).
   With hooks in force a label update starts with a read of its own (`mutation.go:298`) and becomes such a call.
4. **A restored database no longer excludes its users.** It is not in
   WAL mode, so an idle connection holds no lock and the next Restore replaces
   the file under it, although `snapshot.go:112-114` promises ErrBusy (hence `LogUsersExcluded`).
5. **A log outlives its database.** A writer that dies leaves its log; Restore renames the new file
   beside it before it removes it (`snapshot.go:223`, `snapshot.go:235`), and an opener in between, or after a
   crash there, recovers the old log over the new database. A second Restore that
   waits for the first one's lock locks and backs up the file the first has replaced (`snapshot.go:192`).
   A database that Init makes in WAL mode where a restore has found none is another way to such a log (divergence 6).
6. **A database made meanwhile is replaced unseen.** A restore that finds no database takes no lock and makes
   no backup (`snapshot.go:158`, `snapshot.go:185`); one that `bdd.Init` makes after that look (`bdd.go:248-285`) is renamed over
   (`snapshot.go:223`), open or not, although `snapshot.go:111-115` promises ErrBusy and a backup "unless SkipBackup is set".
   `Restore` has the step (`Create`); `LogUsersExcluded` and `BackupHoldsReplaced` are about restores that found a database.
7. **Required memories are dropped by `--no-memories`.** `internal/cli/prime.go:262-265` says the flag is
   applied later, so that totals stay accurate, and line 150 that required memories are always
   returned in full; the code loads none, and the README (`README.md:276-283`) and a test
   (`internal/cli/prime_test.go:184`) agree with the code.
8. **`bdd human` fires nothing**, although it changes a label and `docs/hooks.md:85` speaks of
   "the CLI handlers that can change a card's status or labels" (its list leaves it out).
9. **Two migrations into one new destination** share the temporary name
   (`tools/migrate/internal/bddsink/sink.go:47`), so one may publish what the other has only begun, against
   `sink.go:23-25`; and a destination that appears between the first look and the rename is replaced.
10. **An import can commit a cycle.** `README.md:145-146` says edges "form a directed acyclic graph".
   `verifyAcyclic` (`verify.go:157`) looks for an id in the path as a substring, so an id that another one
   on the path begins with counts as visited. With an imported edge from bd-10 to bd-1 and users' edges from
   bd-1 to bd-100 and from bd-100 to bd-10, every walk is stopped before it is round, and the import is committed
   (TLC finds it with `Begins` holding these three pairs; one pair, as in the run, hides nothing).
   Only the search of the library (`edge.go:28-50`) is exact. The substring search misses cycles, and never sees one that is not there.
11. **A native parent makes an import report failure.** `expectedReady` (`verify.go:287`) counts only the
   parents of the plan, though `verify.go:352-354` calls others additive: after such an edge the
   import is committed "but verification failed". `RefusalHasCause` names the case.
12. **What blocks a later import**: a deleted card that had imported notes; a memory that users
   have written, or one whose actor or creation time the source has changed since: the upsert never writes
   `created_by` and `created_at` (`sink.go:541`), but `verifyMemoryTx` compares them (`verify.go:123`). And any import:
   records of one id or key that differ, since the plan keeps them all (`mapping.go:110`, `mapping.go:181`,
   `mapping.go:202`) and one row cannot be verified against two. Note ids come back after deletion, and
   `effectiveNote` (`sink.go:437`) may then look at somebody else's note. Two roles that exchange their titles are skipped.
13. Adding or removing an edge changes the parents of one card and the children of another
   and neither revision (`edge.go:117-128`), so the parents and children that `show` prints are not
   vouched for by the revision; `internal/cli/surface_audit_test.go:61` says "incremented by every mutation".
14. `lifecycle.go:233-234` says "Unlike ReopenCard, it does not clear ClosedAt or
   DeferUntil"; reopening leaves `defer_until` alone (`lifecycle.go:379`).
15. A rune that becomes protected between the command's check and its call is refused by the
   library, with exit status 2 instead of 4 (`internal/cli/rune.go:318-321`). A card or rune removed and created
   again starts at revision 1, so an old expected revision can match (`rune.go:205`).

What no document promises, but a reader should know: `ExplainReady` can call a card ready that never
was, when a commit lands between its statements, and only the revision tells; `ready --explain` of
every card fails as a whole when one is deleted meanwhile, and so does `prime` for a required rune; prime
may inline a rune that has just been disabled; commands a handler runs wake
nobody; what a crash keeps from being fired is lost, until the next event is heard (`WakeSignal`).

## 6. Not modelled, and the plan

- *Text*: titles, bodies, values of times, the YAML and JSON syntax, full-text search, the order and limit of
  pages: formatting and queries without state of their own.
- *Command line*: arguments, output, exit statuses; of its commands, only the sequences of calls
  of those that make several (hooked commands, `rune`, `show`, `ready --explain`, `prime`). `prime --full` is
  left out, and so are the fixed texts.
- *Handles*: read-only handles and the discovery of the workspace.
- *Migrations of the schema*: what scripts do to the rows.
- *Migration tool*: reading and checking the export, type definitions, warnings, the check of the
  destination's tables (`schema_v1.go`), concurrent runs (divergence 9), the log of the temporary file (the sink
  closes its connection before the rename), priorities below 0, an issue that lists a label twice (which
  verification refuses), records of one name of which only some name a worktree or a time, and a user's `forget`
  of an imported memory. Two properties there say less than their names: a comment without an id is known by
  the digest of its text, so an edited one is another note to `ImportedOnce`; and a card that users create at an id
  that was once imported counts as imported, in the code as in `NativeKept`, and the next import writes over it.
- *Restore*: files do not go bad by themselves, and what a handle or a restore copies from a good file is good;
  `OnlyGoodInstalled` is about the check of the source and what is installed after it.
- Fixtures, benchmarks and release archives have no state.

Planned, in order of what they are worth:

1. `SchemaRows`: the rebuild of `cards` in migration 6
   with foreign keys enforced, conflicts with custom types in migration 3.
2. Runes and memories as transactions; read-only handles in `Workspace`.
