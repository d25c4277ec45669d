------------------------------ MODULE Restore ------------------------------
(***************************************************************************)
(* Snapshot and Restore (snapshot.go) over the directory they work in: a   *)
(* name is bound to a file, renaming rebinds it, and a process keeps the   *)
(* file it opened whatever the name is bound to later.  Handles are        *)
(* processes that opened the database with bdd.Open, or made it with       *)
(* bdd.Init; restorers each call Restore once.  SQLite is external and modelled by what it does to the   *)
(* files: in WAL mode a commit goes to the log bound to the "-wal" name,   *)
(* which is bound when a connection first reads; the last connection to    *)
(* leave copies the log into the database and removes that name.           *)
(***************************************************************************)
EXTENDS Naturals, Sequences

CONSTANTS
  Handles,        \* processes that hold the database open
  Restorers,      \* processes that call Restore
  Pages,          \* pages of the database
  Modes,          \* journal modes the database may start in
  BackupNames,    \* where the pre-restore backup may go
  MaxCommits,     \* bound: commits of all handles
  MaxFiles,       \* bound: files in existence when a handle makes one
  MaxAttempts,    \* attempts Retry makes to lock the database
  CrashModes,     \* journal modes of the databases whose users may die
  StraddleModes,  \* journal modes of the databases a connection may open
                  \* before a rename and first read after it, as one that
                  \* waits in busy_timeout does
  OvertakeModes   \* journal modes of the databases bdd.Init may make when a
                  \* restore has looked at the path and found none

ASSUME BoundsAssumption ==
  /\ {MaxCommits, MaxFiles, MaxAttempts} \subseteq Nat /\ MaxAttempts > 0
  /\ Modes \union CrashModes \union StraddleModes \union OvertakeModes
       \subseteq {"wal", "rollback"}
  /\ BackupNames \subseteq {"snapshot", "backup"}

VARIABLES
  file,     \* the files there have been: a page is the set of commits it
            \* holds rows of, 0 for the snapshot's; a log has some pages only
  at,       \* the file each name is bound to, 0 for none
  handle,   \* the connection of each handle
  restorer, \* the call of each restorer
  commits,  \* how many commits were acknowledged
  installs, \* how many snapshots were renamed onto the database
  past      \* every content the database or the first snapshot had

vars == <<file, at, handle, restorer, commits, installs, past>>

Names == {"db", "log", "snapshot", "backup"}

EmptyLog == [page |-> [p \in {} |-> {}], mode |-> "log", good |-> TRUE]
Copy(page) == [page |-> page, mode |-> "rollback", good |-> TRUE]
Next1 == Len(file) + 1

Closed == [pc |-> "out", db |-> 0, log |-> 0, tmp |-> 0]
Idle == [pc |-> "idle", db |-> 0, log |-> 0, tmp |-> 0, bak |-> 0,
         exists |-> FALSE, skip |-> FALSE, to |-> "backup", tries |-> 0]

-----------------------------------------------------------------------------
(* What SQLite does with the files. *)

\* The pages a connection to database d with log l reads.
View(d, l) == [p \in Pages |->
  IF l # 0 /\ p \in DOMAIN file[l].page THEN file[l].page[p]
                                        ELSE file[d].page[p]]

\* The log a first read of d attaches: the file the name is bound to, if the
\* database is in WAL mode or the file is not empty.
LogAt(d) ==
  IF /\ at["log"] # 0
     /\ file[d].mode = "wal" \/ DOMAIN file[at["log"]].page # {}
  THEN at["log"] ELSE 0

\* In WAL mode the first read makes the log when there is none.
MakesLog(d) == file[d].mode = "wal" /\ at["log"] = 0
LogFor(d) == IF MakesLog(d) THEN Next1 ELSE LogAt(d)
AttachLog(d) ==
  /\ file' = IF MakesLog(d) THEN Append(file, EmptyLog) ELSE file
  /\ at' = IF MakesLog(d) THEN [at EXCEPT !["log"] = Next1] ELSE at

\* A connection with a log keeps a shared lock; one without holds no lock
\* between statements.
Attached(d) == {h \in Handles : handle[h].db = d /\ handle[h].log # 0}

\* MUTANT of Holding: the lock is given up after the backup.
HoldingForBackup == {"locked", "copied"}

Holding == {"locked", "copied", "ready", "installed"}
Lockers(d) == {r \in Restorers :
                 restorer[r].pc \in Holding /\ restorer[r].exists
                                           /\ restorer[r].db = d}

\* Locking_mode EXCLUSIVE locks readers out only where there is a log;
\* without one its first read takes a shared lock and keeps it.
Exclusive(r) == restorer[r].log # 0
ReadersLockedOut(d) == \E r \in Lockers(d) : Exclusive(r)

\* Closing the last connection copies the log into the database and removes
\* the log's name, unless the database is no longer the file of its name.
Detach(d, l, lastOut) ==
  IF l # 0 /\ lastOut /\ at["db"] = d
  THEN /\ file' = [file EXCEPT ![d].page = View(d, l)]
       /\ at' = [at EXCEPT !["log"] = 0]
  ELSE UNCHANGED <<file, at>>

\* What a process that opens the database now would read.
Readable == IF at["db"] = 0 THEN [p \in {} |-> {}]
            ELSE View(at["db"], LogAt(at["db"]))

Remember == past' = past \union {Readable'}

-----------------------------------------------------------------------------
\* File 1 is the database, in its place or yet to be made by bdd.Init.
Init ==
  /\ \E m \in Modes, good \in BOOLEAN :
       file = << [page |-> [p \in Pages |-> {}], mode |-> m, good |-> TRUE],
                 [page |-> [p \in Pages |-> {0}],
                  mode |-> "rollback", good |-> good] >>
  /\ \E db \in {0, 1} :
       at = [n \in Names |-> CASE n = "db" -> db
                               [] n = "snapshot" -> 2
                               [] OTHER -> 0]
  /\ handle = [h \in Handles |-> Closed]
  /\ restorer = [r \in Restorers |-> Idle]
  /\ commits = 0 /\ installs = 0
  /\ past = {Readable, file[2].page}

-----------------------------------------------------------------------------
(* Handles. *)

\* A restore that found nothing at the path, and has yet to rename onto it.
FoundNone(r) ==
  ~restorer[r].exists /\ restorer[r].pc \in {"statted", "ready"}

\* bdd.Init finds nothing at the path, makes a database there and keeps it
\* open; how two of them get in each other's way is in Workspace.
Create(h) ==
  /\ handle[h].pc = "out" /\ at["db"] = 0
  /\ file[1].mode \in OvertakeModes \/ \A r \in Restorers : ~FoundNone(r)
  /\ MakesLog(1) => Len(file) < MaxFiles
  /\ handle' = [handle EXCEPT ![h].pc = "open", ![h].db = 1,
                              ![h].log = LogFor(1)]
  /\ file' = IF MakesLog(1) THEN Append(file, EmptyLog) ELSE file
  /\ at' = [at EXCEPT !["db"] = 1, !["log"] = LogFor(1)]
  /\ UNCHANGED <<restorer, commits, installs>>

\* Open finds the path and the driver opens the file there.
Open(h) ==
  /\ handle[h].pc = "out" /\ at["db"] # 0
  /\ handle' = [handle EXCEPT ![h].pc = "opening", ![h].db = at["db"]]
  /\ UNCHANGED <<file, at, restorer, commits, installs>>

\* The first read, of the pragmas and user_version.
Attach(h) ==
  LET d == handle[h].db IN
  /\ handle[h].pc = "opening"
  /\ ~ReadersLockedOut(d)
  /\ file[d].mode \in StraddleModes \/ at["db"] = d
  /\ MakesLog(d) => Len(file) < MaxFiles
  /\ handle' = [handle EXCEPT ![h].pc = "open", ![h].log = LogFor(d)]
  /\ AttachLog(d)
  /\ UNCHANGED <<restorer, commits, installs>>

\* Opening gives up when busy_timeout runs out.
OpenBusy(h) ==
  /\ handle[h].pc = "opening"
  /\ ReadersLockedOut(handle[h].db) \/ at["db"] # handle[h].db
  /\ handle' = [handle EXCEPT ![h] = Closed]
  /\ UNCHANGED <<file, at, restorer, commits, installs>>

\* A statement of a connection without a log looks for one again.
StatementLog(h) == IF handle[h].log # 0 THEN handle[h].log
                                        ELSE LogAt(handle[h].db)

\* A transaction that changes page p and is acknowledged.  Without a log it
\* is refused on a file that lost its name, and waits for every lock.
Commit(h, p) ==
  LET d == handle[h].db
      l == StatementLog(h)
      rows == View(d, l)[p] \union {commits + 1}
      logged == [q \in DOMAIN file[l].page \union {p} |->
                   IF q = p THEN rows ELSE file[l].page[q]]
  IN
  /\ handle[h].pc = "open" /\ commits < MaxCommits
  /\ handle[h].log = 0 => Lockers(d) = {} /\ at["db"] = d
  /\ file' = IF l # 0 THEN [file EXCEPT ![l].page = logged]
                      ELSE [file EXCEPT ![d].page[p] = rows]
  /\ handle' = [handle EXCEPT ![h].log = l]
  /\ commits' = commits + 1
  /\ UNCHANGED <<at, restorer, installs>>

\* MUTANT of SnapshotCopy: the database file is copied, without its log.
SnapshotOfFile(h) ==
  /\ handle[h].pc = "open" /\ Len(file) < MaxFiles
  /\ file' = Append(file, Copy(file[handle[h].db].page))
  /\ handle' = [handle EXCEPT ![h].pc = "copied", ![h].tmp = Next1]
  /\ UNCHANGED <<at, restorer, commits, installs>>

\* Snapshot: VACUUM INTO a temporary file beside the destination ...
SnapshotCopy(h) ==
  LET l == StatementLog(h) IN
  /\ handle[h].pc = "open" /\ Len(file) < MaxFiles
  /\ handle[h].log = 0 => ~ReadersLockedOut(handle[h].db)
  /\ file' = Append(file, Copy(View(handle[h].db, l)))
  /\ handle' = [handle EXCEPT ![h].pc = "copied", ![h].tmp = Next1,
                              ![h].log = l]
  /\ UNCHANGED <<at, restorer, commits, installs>>

\* ... then verify it, sync it and rename it into place.
SnapshotInstall(h) ==
  /\ handle[h].pc = "copied"
  /\ at' = [at EXCEPT !["snapshot"] = handle[h].tmp]
  /\ handle' = [handle EXCEPT ![h].pc = "open", ![h].tmp = 0]
  /\ UNCHANGED <<file, restorer, commits, installs>>

Close(h) ==
  LET d == handle[h].db IN
  /\ handle[h].pc = "open"
  /\ handle' = [handle EXCEPT ![h] = Closed]
  /\ Detach(d, handle[h].log, Attached(d) = {h})
  /\ UNCHANGED <<restorer, commits, installs>>

Crash(h) ==
  /\ handle[h].pc # "out" /\ file[handle[h].db].mode \in CrashModes
  /\ handle' = [handle EXCEPT ![h] = Closed]
  /\ UNCHANGED <<file, at, restorer, commits, installs>>

-----------------------------------------------------------------------------
(* Restore. *)

Step(r, pc) == restorer' = [restorer EXCEPT ![r].pc = pc]

\* MUTANT of Acceptable: the source only has to exist.
ExistsOnly(i) == i # 0

\* verifySnapshotFile and the comparison of schema versions.
Acceptable(i) == i # 0 /\ file[i].good

Validate(r) ==
  /\ restorer[r].pc = "idle"
  /\ IF Acceptable(at["snapshot"])
     THEN \E skip \in BOOLEAN, to \in BackupNames :
            restorer' = [restorer EXCEPT ![r].pc = "validated",
                                         ![r].skip = skip, ![r].to = to]
     ELSE Step(r, "failed")
  /\ UNCHANGED <<file, at, handle, commits, installs>>

StatTarget(r) ==
  /\ restorer[r].pc = "validated"
  /\ restorer' = [restorer EXCEPT ![r].pc = "statted",
                                  ![r].exists = at["db"] # 0]
  /\ UNCHANGED <<file, at, handle, commits, installs>>

\* MUTANT of Stage: the snapshot is copied over the target in place.
StageInPlace(r) ==
  /\ restorer[r].pc = "statted"
  /\ file' = IF restorer[r].exists
             THEN [file EXCEPT ![at["db"]].page = file[at["snapshot"]].page]
             ELSE Append(file, file[at["snapshot"]])
  /\ restorer' = [restorer EXCEPT
       ![r].pc = IF restorer[r].exists THEN "staged" ELSE "ready",
       ![r].tmp = IF restorer[r].exists THEN at["db"] ELSE Next1]
  /\ UNCHANGED <<at, handle, commits, installs>>

\* Copy the snapshot beside the target, before the backup can overwrite it.
Stage(r) ==
  /\ restorer[r].pc = "statted"
  /\ file' = Append(file, [file[at["snapshot"]] EXCEPT !.mode = "rollback"])
  /\ restorer' = [restorer EXCEPT
       ![r].pc = IF restorer[r].exists THEN "staged" ELSE "ready",
       ![r].tmp = Next1]
  /\ UNCHANGED <<at, handle, commits, installs>>

\* acquireExclusive opens the target ...
OpenTarget(r) ==
  /\ restorer[r].pc = "staged"
  /\ restorer' = [restorer EXCEPT ![r].pc = "opening", ![r].db = at["db"]]
  /\ UNCHANGED <<file, at, handle, commits, installs>>

\* ... and its first read takes the lock, ...
Unlocked(d) ==
  IF LogFor(d) # 0 THEN Attached(d) = {} /\ Lockers(d) = {}
                   ELSE ~ReadersLockedOut(d)

Lock(r) ==
  LET d == restorer[r].db IN
  /\ restorer[r].pc = "opening" /\ Unlocked(d)
  /\ file[d].mode \in StraddleModes \/ at["db"] = d
  /\ restorer' = [restorer EXCEPT ![r].pc = "locked", ![r].log = LogFor(d)]
  /\ AttachLog(d)
  /\ UNCHANGED <<handle, commits, installs>>

\* MUTANT of LockBusy: attempts are not counted.
LockBusyUncounted(r) ==
  LET d == restorer[r].db IN
  /\ restorer[r].pc = "opening"
  /\ ~Unlocked(d) \/ at["db"] # d
  /\ Step(r, "staged")
  /\ UNCHANGED <<file, at, handle, commits, installs>>

\* ... or is busy, and after a few attempts Restore fails with ErrBusy.
LastAttempt(r) == restorer[r].tries + 1 = MaxAttempts

LockBusy(r) ==
  LET d == restorer[r].db IN
  /\ restorer[r].pc = "opening"
  /\ ~Unlocked(d) \/ at["db"] # d
  /\ restorer' = [restorer EXCEPT
       ![r].pc = IF LastAttempt(r) THEN "failed" ELSE "staged",
       ![r].tries = @ + 1]
  /\ UNCHANGED <<file, at, handle, commits, installs>>

\* The backup: VACUUM INTO through the locked connection ...
BackupCopy(r) ==
  /\ restorer[r].pc = "locked" /\ ~restorer[r].skip
  /\ file' = Append(file, Copy(View(restorer[r].db, restorer[r].log)))
  /\ restorer' = [restorer EXCEPT ![r].pc = "copied", ![r].bak = Next1]
  /\ UNCHANGED <<at, handle, commits, installs>>

\* ... and the rename to its destination.
BackupInstall(r) ==
  /\ restorer[r].pc = "copied"
  /\ at' = [at EXCEPT ![restorer[r].to] = restorer[r].bak]
  /\ Step(r, "ready")
  /\ UNCHANGED <<file, handle, commits, installs>>

SkipBackup(r) ==
  /\ restorer[r].pc = "locked" /\ restorer[r].skip
  /\ Step(r, "ready")
  /\ UNCHANGED <<file, at, handle, commits, installs>>

\* The rename that installs the staged copy.
Install(r) ==
  /\ restorer[r].pc = "ready"
  /\ at' = [at EXCEPT !["db"] = restorer[r].tmp]
  /\ Step(r, "installed")
  /\ installs' = installs + 1
  /\ UNCHANGED <<file, handle, commits>>

\* Removing the log by its name; returning closes the locked connection,
\* which finds its database moved and leaves the files alone.
RemoveSidecars(r) ==
  /\ restorer[r].pc = "installed"
  /\ at' = [at EXCEPT !["log"] = 0]
  /\ Step(r, "done")
  /\ UNCHANGED <<file, handle, commits, installs>>

\* An error, that of syncing the directory after the rename included: the
\* deferred Close lets go of the target.
Fail(r) ==
  /\ restorer[r].pc \in {"validated", "statted", "opening", "locked", "copied",
                        "ready", "installed"}
  /\ Step(r, "failed")
  /\ IF restorer[r].exists /\ restorer[r].pc \in Holding
     THEN Detach(restorer[r].db, restorer[r].log, TRUE)
     ELSE UNCHANGED <<file, at>>
  /\ UNCHANGED <<handle, commits, installs>>

RestorerCrash(r) ==
  /\ restorer[r].pc \notin {"idle", "done", "failed"}
  /\ Step(r, "failed")
  /\ UNCHANGED <<file, at, handle, commits, installs>>

-----------------------------------------------------------------------------
HandleStep(h) ==
  \/ Create(h) \/ Open(h) \/ Attach(h) \/ OpenBusy(h) \/ (\E p \in Pages : Commit(h, p))
  \/ SnapshotCopy(h) \/ SnapshotInstall(h) \/ Close(h) \/ Crash(h)

Works(r) ==
  \/ Validate(r) \/ StatTarget(r) \/ Stage(r) \/ OpenTarget(r) \/ Lock(r)
  \/ LockBusy(r) \/ BackupCopy(r) \/ BackupInstall(r) \/ SkipBackup(r)
  \/ Install(r) \/ RemoveSidecars(r)

Next ==
  /\ \/ \E h \in Handles : HandleStep(h)
     \/ \E r \in Restorers : Works(r) \/ Fail(r) \/ RestorerCrash(r)
  /\ Remember

Spec == Init /\ [][Next]_vars

\* A restorer runs to its end unless it fails or dies; nothing is asked of
\* the handles, which may stay open forever.
FairSpec == Spec /\ \A r \in Restorers : WF_vars(Works(r) /\ Remember)

-----------------------------------------------------------------------------
(* Whoever opens the path reads the database as commits left it or a       *)
(* snapshot as a whole, and only the rename of a restore replaces it:      *)
(* snapshot.go:111 "atomically installs it as the target workspace         *)
(* database", lines 46-48 for the snapshots themselves.                    *)
Path == INSTANCE NamedDatabase
          WITH rows <- Readable, last <- commits, restores <- installs
AtomicDatabase == Path!Spec

(* Unless it is told to skip it, a restore that found a database leaves in *)
(* its backup exactly what the database held when it was replaced          *)
(* (snapshot.go:113-115), although the lock, the copy and the rename are   *)
(* separate steps.  A snapshot may have been written over the backup since *)
(* where both go to one path.  A restore that found none takes no lock and *)
(* makes no backup, and replaces what bdd.Init makes there after it looked *)
(* (snapshot.go:158-164, 185, 223): of that one nothing is said here.      *)
Replaces(r) ==
  /\ restorer[r].exists
  /\ restorer[r].pc = "ready" /\ restorer'[r].pc = "installed"

BackupHoldsReplaced ==
  [][\A r \in Restorers :
       Replaces(r) /\ ~restorer[r].skip =>
         LET b == restorer[r].bak
         IN /\ b # 0 /\ file[b].page = Readable
            /\ restorer[r].to = "snapshot" \/ at[restorer[r].to] = b]_vars

(* No process that uses the log has the database open when a restore that  *)
(* found it replaces it: its commits would go to a file without a name     *)
(* (snapshot.go:185-191).                                                  *)
LogUsersExcluded ==
  [][\A r \in Restorers : Replaces(r) => Attached(at["db"]) = {}]_vars

(* A damaged or too new file is never installed: the source is checked     *)
(* before it is copied, and the path copied from may be renamed over in    *)
(* between (snapshot.go:143-150, 177-184).                                 *)
OnlyGoodInstalled == at["db"] # 0 => file[at["db"]].good

(* A snapshot holds every commit acknowledged before it, those still in    *)
(* the log included (docs/snapshot-restore.md:3-6), unless the database    *)
(* was replaced under the handle that takes it.                            *)
SnapshotsAreCurrent ==
  [][\A h \in Handles :
       /\ handle[h].pc = "open" /\ handle'[h].pc = "copied"
       /\ handle[h].db = at["db"]
       =>
         file'[handle'[h].tmp].page = Readable]_vars

(* A restore that was started returns, with an error if the database stays *)
(* open elsewhere: Retry gives up after its attempts                       *)
(* (internal/sqlite/sqlite.go:141-165).                                    *)
RestoreReturns ==
  \A r \in Restorers :
    restorer[r].pc = "validated" ~> restorer[r].pc \in {"done", "failed"}

=============================================================================
