------------------------------- MODULE Workspace -------------------------------
(***************************************************************************)
(* The life of a workspace database file: bdd processes that create it     *)
(* (Init), open it, migrate its schema (Upgrade) and die at any point,     *)
(* each compiled with the schema version of its own build.  A process      *)
(* reaches the file by its path once and by an open descriptor from then   *)
(* on, so a path that is removed and created again names another file.     *)
(***************************************************************************)
EXTENDS Naturals

CONSTANTS
  Proc,        \* the bdd processes
  Build,       \* Build[p]: schema.CurrentVersion() of the build p runs
  MaxVersion,  \* the newest schema version of all builds
  MaxFile,     \* bound: how many files are created at the path
  None         \* no file, no prefix

ASSUME BuildAssumption == MaxVersion \in Nat /\ Build \in [Proc -> 1 .. MaxVersion]
ASSUME MaxFileAssumption == MaxFile \in Nat
ASSUME NoneAssumption == None \notin Proc \cup Nat

File == 1 .. MaxFile

VARIABLES
  path,     \* the file at the database path, or None
  created,  \* how many files have been created
  version,  \* PRAGMA user_version of each file
  prefix,   \* the workspace row of each file: whose Init wrote it
  phase,    \* what each process is doing
  fd,       \* the file it has open
  seen,     \* the schema version it believes the file has
  tooOld,   \* DB.schemaTooOld of its handle
  result,   \* what its last call returned
  since     \* how many files there had been when its Init looked (a ghost)

disk == <<path, created, version, prefix>>
vars == <<disk, phase, fd, seen, tooOld, result, since>>

Phase ==
  {"out",         \* no handle
   "init_stat",   \* Init: nothing found at the path
   "init_open",   \* Init: the file is open
   "init_run",    \* Init: migrating
   "init_fail",   \* Init: failed, the file is to be removed
   "open",        \* a handle is in the caller's hands
   "upgrade_run"} \* Upgrade: migrating

\* Init is running.
InitPhase == {"init_stat", "init_open", "init_run", "init_fail"}

Result ==
  {"none", "created", "opened", "upgraded",
   "already_exists", "not_found", "too_new", "failed", "lost"}

Init ==
  /\ path = None
  /\ created = 0
  /\ version = [f \in File |-> 0]
  /\ prefix = [f \in File |-> None]
  /\ phase = [p \in Proc |-> "out"]
  /\ fd = [p \in Proc |-> None]
  /\ seen = [p \in Proc |-> 0]
  /\ tooOld = [p \in Proc |-> FALSE]
  /\ result = [p \in Proc |-> "none"]
  /\ since = [p \in Proc |-> 0]

\* Process p goes to another phase and returns r (or "none", still running).
Goto(p, ph, r) ==
  /\ phase' = [phase EXCEPT ![p] = ph]
  /\ result' = [result EXCEPT ![p] = r]
  /\ since' = [since EXCEPT ![p] =
                 IF ph \notin InitPhase THEN 0
                 ELSE IF phase[p] \notin InitPhase THEN created ELSE @]

\* The handle is gone.
Leave(p, r) ==
  /\ Goto(p, "out", r)
  /\ fd' = [fd EXCEPT ![p] = None]
  /\ seen' = [seen EXCEPT ![p] = 0]
  /\ tooOld' = [tooOld EXCEPT ![p] = FALSE]

-----------------------------------------------------------------------------
(* Init of the library.                                                    *)

\* MUTANT of InitStat: SQLite would open the file that is there.
InitStatAnyway(p) ==
  /\ phase[p] = "out"
  /\ Goto(p, "init_stat", "none")
  /\ UNCHANGED <<disk, fd, seen, tooOld>>

\* os.Stat.
InitStat(p) ==
  /\ phase[p] = "out"
  /\ Goto(p, IF path = None THEN "init_stat" ELSE "out",
             IF path = None THEN "none" ELSE "already_exists")
  /\ UNCHANGED <<disk, fd, seen, tooOld>>

\* sqlite.Open creates the file if there is (still) none.
InitOpen(p) ==
  /\ phase[p] = "init_stat"
  /\ IF path = None
     THEN /\ created < MaxFile
          /\ created' = created + 1
          /\ path' = created'
     ELSE UNCHANGED <<created, path>>
  /\ fd' = [fd EXCEPT ![p] = path']
  /\ Goto(p, "init_open", "none")
  /\ UNCHANGED <<version, prefix, seen, tooOld>>

\* sqlite.Open fails on its pragmas, the file being locked by another process;
\* Init returns and leaves the file alone.
InitOpenFail(p) ==
  /\ phase[p] = "init_stat"
  /\ path # None
  /\ \E q \in Proc : fd[q] = path
  /\ Goto(p, "out", "failed")
  /\ UNCHANGED <<disk, fd, seen, tooOld>>

\* schema.Upgrade: ReadVersion.
InitRead(p) ==
  /\ phase[p] = "init_open"
  /\ seen' = [seen EXCEPT ![p] = version[fd[p]]]
  /\ Goto(p, "init_run", "none")
  /\ UNCHANGED <<disk, fd, tooOld>>

\* schema.Upgrade has a migration left to apply.
Migrating(p) == phase[p] \in {"init_run", "upgrade_run"} /\ seen[p] < Build[p]

\* MUTANT of Migrate: the version is written without regard to what another
\* process has applied.
MigrateAgain(p) ==
  /\ Migrating(p)
  /\ version' = [version EXCEPT ![fd[p]] = seen[p] + 1]
  /\ seen' = [seen EXCEPT ![p] = @ + 1]
  /\ UNCHANGED <<path, created, prefix, phase, fd, tooOld, result, since>>

\* applyMigration, one transaction.  The row it inserts in schema_versions
\* exists if another process applied the migration first.
Migrate(p) ==
  /\ Migrating(p)
  /\ version[fd[p]] = seen[p]
  /\ version' = [version EXCEPT ![fd[p]] = @ + 1]
  /\ seen' = [seen EXCEPT ![p] = @ + 1]
  /\ UNCHANGED <<path, created, prefix, phase, fd, tooOld, result, since>>

\* Others have the file open too.
Shared(p) == \E q \in Proc \ {p} : fd[q] = fd[p]

\* A transaction of Init or Upgrade fails: the migration is already applied, the
\* workspace row is already there, or the file stays locked for as long as
\* Retry tries.
Fails(p) ==
  \/ Migrating(p) /\ version[fd[p]] # seen[p]
  \/ Migrating(p) /\ Shared(p)
  \/ /\ phase[p] = "init_run" /\ seen[p] >= Build[p]
     /\ prefix[fd[p]] # None \/ Shared(p)

InitFail(p) ==
  /\ phase[p] = "init_run"
  /\ Fails(p)
  /\ Goto(p, "init_fail", "none")
  /\ UNCHANGED <<disk, fd, seen, tooOld>>

\* os.Remove(dbPath): whatever is at the path by now.
InitRemove(p) ==
  /\ phase[p] = "init_fail"
  /\ path' = None
  /\ Leave(p, "failed")
  /\ UNCHANGED <<created, version, prefix>>

\* INSERT INTO workspace; the table holds one row.
InitSeed(p) ==
  /\ phase[p] = "init_run" /\ seen[p] >= Build[p]
  /\ prefix[fd[p]] = None
  /\ prefix' = [prefix EXCEPT ![fd[p]] = p]
  /\ Goto(p, "open", "created")
  /\ UNCHANGED <<path, created, version, fd, seen, tooOld>>

-----------------------------------------------------------------------------
(* Open, Upgrade, Close.                                                   *)

\* There is a database and it is not newer than the build.
Openable(p) == path # None /\ version[path] <= Build[p]

\* MUTANT of OpenDB: only an empty database is taken for an old one.
OpenDBAnyVersion(p) ==
  /\ phase[p] = "out"
  /\ Openable(p)
  /\ fd' = [fd EXCEPT ![p] = path]
  /\ seen' = [seen EXCEPT ![p] = version[path]]
  /\ tooOld' = [tooOld EXCEPT ![p] = version[path] = 0]
  /\ Goto(p, "open", "opened")
  /\ UNCHANGED disk

\* A database older than the build still opens, and the handle refuses every
\* card call.
OpenDB(p) ==
  /\ phase[p] = "out"
  /\ Openable(p)
  /\ fd' = [fd EXCEPT ![p] = path]
  /\ seen' = [seen EXCEPT ![p] = version[path]]
  /\ tooOld' = [tooOld EXCEPT ![p] = version[path] < Build[p]]
  /\ Goto(p, "open", "opened")
  /\ UNCHANGED disk

OpenRefused(p) ==
  /\ phase[p] = "out"
  /\ ~Openable(p)
  /\ Goto(p, "out", IF path = None THEN "not_found" ELSE "too_new")
  /\ UNCHANGED <<disk, fd, seen, tooOld>>

Upgrade(p) ==
  /\ phase[p] = "open"
  /\ seen' = [seen EXCEPT ![p] = version[fd[p]]]
  /\ Goto(p, "upgrade_run", "none")
  /\ UNCHANGED <<disk, fd, tooOld>>

UpgradeFail(p) ==
  /\ phase[p] = "upgrade_run"
  /\ Fails(p)
  /\ Goto(p, "open", "failed")
  /\ UNCHANGED <<disk, fd, seen, tooOld>>

UpgradeDone(p) ==
  /\ phase[p] = "upgrade_run" /\ seen[p] >= Build[p]
  /\ tooOld' = [tooOld EXCEPT ![p] = FALSE]
  /\ Goto(p, "open", "upgraded")
  /\ UNCHANGED <<disk, fd, seen>>

Close(p) ==
  /\ phase[p] = "open"
  /\ Leave(p, "none")
  /\ UNCHANGED disk

Crash(p) ==
  /\ phase[p] # "out"
  /\ Leave(p, "lost")
  /\ UNCHANGED disk

Step(p) ==
  \/ InitStat(p) \/ InitOpen(p) \/ InitOpenFail(p) \/ InitRead(p)
  \/ InitFail(p) \/ InitRemove(p) \/ InitSeed(p)
  \/ Migrate(p)
  \/ OpenDB(p) \/ OpenRefused(p) \/ Close(p)
  \/ Upgrade(p) \/ UpgradeFail(p) \/ UpgradeDone(p)
  \/ Crash(p)

Next == \E p \in Proc : Step(p)

Spec == Init /\ [][Next]_vars

-----------------------------------------------------------------------------
TypeOK ==
  /\ path \in File \cup {None}
  /\ created \in 0 .. MaxFile
  /\ version \in [File -> 0 .. MaxVersion]
  /\ prefix \in [File -> Proc \cup {None}]
  /\ phase \in [Proc -> Phase]
  /\ fd \in [Proc -> File \cup {None}]
  /\ seen \in [Proc -> 0 .. MaxVersion]
  /\ tooOld \in [Proc -> BOOLEAN]
  /\ result \in [Proc -> Result]
  /\ since \in [Proc -> 0 .. MaxFile]

\* The handle of p serves card calls.
Ready(p) == phase[p] = "open" /\ ~tooOld[p]

\* A handle that serves card calls has every table its build knows: no race
\* of Init, Open, Upgrade and crashes makes one ready too early, although
\* the answer was cached when it was opened.
ReadyMeansMigrated == \A p \in Proc : Ready(p) => version[fd[p]] >= Build[p]

\* Each migration is applied to a file once and in order, by however many
\* processes of whatever builds: no version is skipped or goes back.
MigrationsInOrder ==
  [][\A f \in File : version'[f] \in {version[f], version[f] + 1}]_vars

\* bdd.go: "if a file already exists there, Init returns ErrAlreadyExists
\* without modifying it".  Whatever other processes do meanwhile, no step of
\* an Init, its clean-up included, touches a file that was created before it
\* looked: it neither migrates it, nor writes its row, nor takes it from the
\* path.
InitSparesOlder ==
  [][\A p \in Proc :
       phase[p] \in InitPhase /\ <<phase[p], seen[p]>>' # <<phase[p], seen[p]>> =>
         \A f \in 1 .. since[p] :
           /\ version'[f] = version[f] /\ prefix'[f] = prefix[f]
           /\ path = f => path' = f]_vars

\* bdd.go: "Init fails rather than replacing anything already at the resolved
\* path ... without modifying it", so what one Init has created no other
\* takes away.  The clean-up of a losing Init does.
CreatedStays ==
  \A p \in Proc : phase[p] = "open" /\ result[p] = "created" => path = fd[p]
=============================================================================
